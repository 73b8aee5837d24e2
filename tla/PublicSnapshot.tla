---------------------------- MODULE PublicSnapshot ----------------------------
(***************************************************************************)
(* The public snapshot: readers are answered from an edge copy or from the *)
(* store, and one refresh at a time, claimed in the store, asks the        *)
(* provider behind them (public-snapshot-cache.ts).                        *)
(*                                                                         *)
(* A flow is one run of that code: a reader's request, or the task an      *)
(* isolate runs behind a response.  Time is kept as ages, so that it never *)
(* ends: of a flow since its `now`, of the store's rows and of the copy.   *)
(***************************************************************************)
EXTENDS Integers

CONSTANTS
  Viewers,       \* requests for the snapshot
  Isolates,      \* isolates of one location; each also names its refresh task
  FreshMs,       \* SNAPSHOT_FRESH_MS
  LeaseMs,       \* REFRESH_LEASE_MS
  MaxLag,        \* bound: how long one flow lasts, past the lease
  MaxFaults,   \* bound: statements, calls and isolates that fail
  NoCopy

\* SNAPSHOT_RETENTION_SECONDS
RetentionMs == FreshMs + LeaseMs

Flows == Viewers \cup Isolates

ASSUME SnapshotAssumption ==
  /\ Viewers \cap Isolates = {}
  /\ FreshMs \in Nat \ {0} /\ LeaseMs \in Nat \ {0} /\ MaxLag \in Nat /\ MaxFaults \in Nat

\* The oldest age told apart: of a row by a flow that began MaxLag ago.
Old == FreshMs + MaxLag

VARIABLES
  market,   \* whether the market is open
  store,    \* the stored rows: their age, and the session stored with them
  lease,    \* what is left of the row of market_refresh_lease
  edge,     \* the copy at the edge
  flow,     \* the requests and the tasks
  inFlight, \* the isolates whose refreshInFlight is set
  faults

snapshotVars == <<market, store, lease, edge, flow, inFlight, faults>>

\* A stored session: the market open, or shut before or after the bell it names.
Sessions == {"open", "waiting", "rung"}
Cold == [age |-> Old, session |-> "none"]
Idle == [step |-> "idle", at |-> "none", age |-> 0, read |-> 0, session |-> "none"]
Steps == {"idle", "reading", "cold", "wait1", "wait2", "claiming", "building", "retagging",
          "retaining", "cut"}

SnapshotTypeOK ==
  /\ market \in {"open", "shut"}
  /\ store \in [age: 0..Old, session: Sessions] \cup {Cold}
  /\ lease \in 0..LeaseMs
  /\ edge \in [label: 0..Old, read: 0..Old, left: 1..RetentionMs] \cup {NoCopy}
  /\ flow \in [Flows -> [step: Steps, at: Isolates \cup {"none"}, age: 0..MaxLag, read: 0..MaxLag,
                         session: Sessions \cup {"none"}]]
  /\ inFlight \subseteq Isolates /\ faults \in 0..MaxFaults

SnapshotInit ==
  /\ market \in {"open", "shut"}
  /\ store = Cold /\ lease = 0 /\ edge = NoCopy
  /\ flow = [f \in Flows |-> Idle] /\ inFlight = {} /\ faults = 0

Fails == faults < MaxFaults /\ faults' = faults + 1

(***************************************************************************)
(* What is due                                                             *)
(***************************************************************************)

Warm == store # Cold

\* providerRefreshDue: a reading of an open market, a minute old at `now`.
QuoteDue(session, age) == session = "open" /\ age >= FreshMs

\* sessionRefreshDue: the bell a shut session names has rung.
SessionDue(session) == session = "rung"

\* The age of the rows as a flow that began `lag` ago counts it.
AgeFor(f) == store.age - flow[f].age

(***************************************************************************)
(* Steps of a flow                                                         *)
(***************************************************************************)

At(f, step) == flow[f].step = step
Goes(f, record) == flow' = [flow EXCEPT ![f] = record]
GoTo(f, step) == Goes(f, [flow[f] EXCEPT !.step = step])

\* Mutant: the flag outlives its task.
EndsFlagged(f) == Goes(f, Idle) /\ UNCHANGED inFlight

\* `finally`: a task that ends clears the flag of its isolate.
Ends(f) == Goes(f, Idle) /\ inFlight' = inFlight \ {f}

Task(i) == [Idle EXCEPT !.step = "reading", !.at = i]

\* refreshRetainedCopy, called for a reader who goes on as `record`.
Schedules(r, i, record) ==
  IF i \in inFlight THEN Goes(r, record) /\ UNCHANGED inFlight
  ELSE /\ flow' = [flow EXCEPT ![r] = record, ![i] = Task(i)]
       /\ inFlight' = inFlight \cup {i}

\* A request that finds a copy is answered from it, and looks behind it if it is stale.
Request(r, i) ==
  /\ At(r, "idle")
  /\ \/ /\ edge # NoCopy /\ edge.label < FreshMs
        /\ UNCHANGED <<flow, inFlight, faults>>
     \/ /\ edge # NoCopy /\ edge.label >= FreshMs
        /\ Schedules(r, i, Idle) /\ UNCHANGED faults
     \/ /\ Goes(r, [Idle EXCEPT !.step = "reading", !.at = i])
        /\ \/ edge = NoCopy /\ UNCHANGED faults
           \/ edge # NoCopy /\ Fails
        /\ UNCHANGED inFlight
  /\ UNCHANGED <<market, store, lease, edge>>

\* With what loadStoredPublicMarketSnapshot held; a copy to be retained needs no more
\* than the instant it was read.
WithStored(f, step) ==
  [flow[f] EXCEPT !.step = step, !.read = 0,
                  !.session = IF step = "retaining" THEN "none" ELSE store.session]

ToRetain(f) == [flow[f] EXCEPT !.step = "retaining", !.session = "none"]

\* The store answers the reader; what is due is scheduled behind it.
ReaderReads(r) ==
  /\ r \in Viewers /\ At(r, "reading") /\ Warm
  /\ IF QuoteDue(store.session, AgeFor(r)) \/ SessionDue(store.session)
     THEN Schedules(r, flow[r].at, WithStored(r, "retaining"))
     ELSE Goes(r, WithStored(r, "retaining")) /\ UNCHANGED inFlight
  /\ UNCHANGED <<market, store, lease, edge, faults>>

\* Mutant: a cold store is left to the task.
ReaderLeavesCold(r) ==
  /\ r \in Viewers /\ At(r, "reading") /\ ~Warm /\ Schedules(r, flow[r].at, Idle)
  /\ UNCHANGED <<market, store, lease, edge, faults>>

\* A store with nothing in it.
ReaderFindsCold(r) ==
  /\ r \in Viewers /\ At(r, "reading") /\ ~Warm /\ GoTo(r, "cold")
  /\ UNCHANGED <<market, store, lease, edge, inFlight, faults>>

\* The task reads the store, and claims, retags or retains as is due at its `now`.
TaskReads(i) ==
  /\ i \in Isolates /\ At(i, "reading")
  /\ IF ~Warm THEN Ends(i)
     ELSE /\ Goes(i, WithStored(i, IF QuoteDue(store.session, AgeFor(i)) THEN "claiming"
                                   ELSE IF SessionDue(store.session) THEN "retagging"
                                   ELSE "retaining"))
          /\ UNCHANGED inFlight
  /\ UNCHANGED <<market, store, lease, edge, faults>>

\* A read of the store that throws: a 502, or the end of the task.
ReadFails(f) ==
  /\ flow[f].step \in {"reading", "wait1", "wait2"} /\ Ends(f) /\ Fails
  /\ UNCHANGED <<market, store, lease, edge>>

(***************************************************************************)
(* The claim and the build                                                 *)
(***************************************************************************)

Claims(f) == flow[f].step \in {"claiming", "cold"}

\* Mutant: a claim does not look at the one in force.
ClaimAny(f) ==
  /\ Claims(f) /\ lease' = LeaseMs
  /\ GoTo(f, "building")
  /\ UNCHANGED <<market, store, edge, inFlight, faults>>

\* claimMarketRefresh: the row is inserted, or its expiry has passed.
Claim(f) ==
  /\ Claims(f) /\ lease = 0 /\ lease' = LeaseMs
  /\ GoTo(f, "building")
  /\ UNCHANGED <<market, store, edge, inFlight, faults>>

\* A store that cannot answer grants the claim; the row may have been written.
ClaimFailsOpen(f) ==
  /\ Claims(f) /\ Fails /\ GoTo(f, "building")
  /\ lease' \in {lease} \cup (IF lease = 0 THEN {LeaseMs} ELSE {})
  /\ UNCHANGED <<market, store, edge, inFlight>>

\* After a claim that is lost or a build that fails a task has its stored rows; a
\* reader has nothing.
WithoutBuild(f) ==
  IF f \in Viewers THEN Idle
  ELSE IF SessionDue(flow[f].session) THEN [flow[f] EXCEPT !.step = "retagging"]
  ELSE ToRetain(f)

\* Another flow holds it: the task goes on with what it read, a reader waits.
ClaimLost(f) ==
  /\ Claims(f) /\ lease > 0
  /\ IF f \in Viewers THEN GoTo(f, "wait1") ELSE Goes(f, WithoutBuild(f))
  /\ UNCHANGED <<market, store, lease, edge, inFlight, faults>>

\* awaitFirstRefresh: two looks at the store, then unavailability.
Waits(r) ==
  /\ flow[r].step \in {"wait1", "wait2"}
  /\ IF Warm THEN Goes(r, WithStored(r, "retaining"))
     ELSE IF At(r, "wait1") THEN GoTo(r, "wait2") ELSE Goes(r, Idle)
  /\ UNCHANGED <<market, store, lease, edge, inFlight, faults>>

\* The session as the provider reports it, with the bell it names next.
Reported == IF market = "open" THEN "open" ELSE "waiting"

\* Without a stored session the market's state is unknown, and asked for as if open.
Unlabelled == IF Warm THEN store.session ELSE "open"

\* loadPublicMarketSnapshot: the rows are written, stamped as they are, then the
\* session, best-effort.
Build(f) ==
  /\ At(f, "building")
  /\ Goes(f, [ToRetain(f) EXCEPT !.read = 0])
  /\ \/ store' = [age |-> 0, session |-> Reported] /\ UNCHANGED faults
     \/ store' = [age |-> 0, session |-> Unlabelled] /\ Fails
  /\ UNCHANGED <<market, lease, edge, inFlight>>

\* The build throws, before its rows are written or after.
BuildFails(f) ==
  /\ At(f, "building") /\ Fails /\ Goes(f, WithoutBuild(f))
  /\ \/ UNCHANGED store
     \/ \E session \in {Reported, Unlabelled} : store' = [age |-> 0, session |-> session]
  /\ UNCHANGED <<market, lease, edge, inFlight>>

\* refreshPublicMarketSession, or its failure.
Retag(i) ==
  /\ At(i, "retagging") /\ Goes(i, ToRetain(i))
  /\ \/ store' = [store EXCEPT !.session = Reported] /\ UNCHANGED faults
     \/ Fails /\ UNCHANGED store
  /\ UNCHANGED <<market, lease, edge, inFlight>>

\* Mutant: the copy is kept for as many seconds as it should be milliseconds.
CopyInSeconds(f, label) == [label |-> label, read |-> flow[f].read, left |-> 1000 * RetentionMs]

Copy(f, label) == [label |-> label, read |-> flow[f].read, left |-> RetentionMs]

\* Mutant: the copy is labelled with the instant it is put.
RetainAsPut(f) ==
  /\ At(f, "retaining") /\ Ends(f)
  /\ edge' = Copy(f, 0)
  /\ UNCHANGED <<market, store, lease, faults>>

\* retain: the copy is labelled with the flow's `now`.
Retain(f) ==
  /\ At(f, "retaining") /\ Ends(f)
  /\ \/ edge' = Copy(f, flow[f].age) /\ UNCHANGED faults
     \/ Fails /\ UNCHANGED edge
  /\ UNCHANGED <<market, store, lease>>

(***************************************************************************)
(* The platform                                                            *)
(***************************************************************************)

\* The isolate is evicted, with its memory and the flows it runs.
Evicted(i) ==
  /\ Fails /\ inFlight' = inFlight \ {i}
  /\ flow' = [f \in Flows |-> IF flow[f].at = i THEN Idle ELSE flow[f]]
  /\ UNCHANGED <<market, store, lease, edge>>

\* A flow runs no further, `finally` included: its reader leaves, or the task is past
\* the time the platform gives waitUntil.
CutOff(f) ==
  /\ flow[f].step \notin {"idle", "cut"} /\ Fails
  /\ Goes(f, IF f \in Viewers THEN Idle ELSE [Idle EXCEPT !.step = "cut", !.at = f])
  /\ UNCHANGED <<market, store, lease, edge, inFlight>>

EdgeDrops ==
  /\ edge # NoCopy /\ Fails /\ edge' = NoCopy
  /\ UNCHANGED <<market, store, lease, flow, inFlight>>

Bell ==
  LET Rings(session) == IF session = "waiting" THEN "rung" ELSE session
  IN  /\ market = "shut" /\ market' = "open"
      /\ store' = [store EXCEPT !.session = Rings(store.session)]
      /\ flow' = [f \in Flows |-> [flow[f] EXCEPT !.session = Rings(flow[f].session)]]
      /\ UNCHANGED <<lease, edge, inFlight, faults>>

Close == market = "open" /\ market' = "shut" /\ UNCHANGED <<store, lease, edge, flow, inFlight, faults>>

Older(age, last) == IF age < last THEN age + 1 ELSE last

\* A flow under way lasts MaxLag at most.
SnapshotTick ==
  /\ \A f \in Flows : flow[f].step \notin {"idle", "cut"} => flow[f].age < MaxLag
  /\ store' = [store EXCEPT !.age = Older(store.age, Old)]
  /\ lease' = IF lease > 0 THEN lease - 1 ELSE 0
  /\ edge' = IF edge = NoCopy \/ edge.left = 1 THEN NoCopy
             ELSE [label |-> Older(edge.label, Old), read |-> Older(edge.read, Old), left |-> edge.left - 1]
  /\ flow' = [f \in Flows |->
       IF flow[f].step \in {"idle", "cut"} THEN flow[f]
       ELSE [flow[f] EXCEPT !.age = @ + 1, !.read = @ + 1]]
  /\ UNCHANGED <<market, inFlight, faults>>

FlowStep(f) ==
  \/ ReaderReads(f) \/ ReaderFindsCold(f) \/ TaskReads(f) \/ ReadFails(f)
  \/ Claim(f) \/ ClaimFailsOpen(f) \/ ClaimLost(f) \/ Waits(f)
  \/ Build(f) \/ BuildFails(f) \/ Retag(f) \/ Retain(f)

SnapshotNext ==
  \/ \E r \in Viewers, i \in Isolates : Request(r, i)
  \/ \E f \in Flows : FlowStep(f) \/ CutOff(f)
  \/ \E i \in Isolates : Evicted(i)
  \/ EdgeDrops \/ Bell \/ Close \/ SnapshotTick

\* Flows go on, time passes, and readers keep coming to every isolate.
SnapshotSpec ==
  /\ SnapshotInit /\ [][SnapshotNext]_snapshotVars
  /\ WF_snapshotVars(SnapshotTick)
  /\ \A f \in Flows : WF_snapshotVars(FlowStep(f))
  /\ \A i \in Isolates : SF_snapshotVars(\E r \in Viewers : Request(r, i))

(***************************************************************************)
(* Properties                                                              *)
(***************************************************************************)

\* A copy never claims to be fresher than what it holds: whatever was awaited in
\* between, by whichever flow, its label is no younger than the read of the store or
\* of the provider behind it (retain).
CopyHonest == edge # NoCopy => edge.read <= edge.label

\* One flow at a time asks the provider for quotes: not each isolate, each reader of a
\* stale copy, or each reader of a cold store, as long as the claim's store answers and
\* builds end within the lease (claimMarketRefresh, buildFromColdStore).
OneBuild ==
  faults = 0 =>
    \A f, g \in Flows :
      /\ At(f, "building") /\ flow[f].age < LeaseMs
      /\ At(g, "building") /\ flow[g].age < LeaseMs
      => f = g

\* The shapes, and both of the above.
SnapshotInv == SnapshotTypeOK /\ CopyHonest /\ OneBuild

\* The provider has something the store has not: quotes of an open market, or the
\* session after a bell.
Stale == Warm /\ (QuoteDue(store.session, store.age) \/ SessionDue(store.session))

\* While readers keep coming, a stale store is asked about again, and a cold one is
\* filled: a refresh is claimed or finds it fresh, whatever became of the refresh before
\* it, and a build that died with its claim does not leave the store cold
\* (REFRESH_LEASE_MS, buildFromColdStore).
SnapshotKept == ~Warm \/ Stale ~> Warm /\ (lease > 0 \/ ~Stale)
================================================================================
