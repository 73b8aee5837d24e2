------------------------------ MODULE BrokerGate ------------------------------
(***************************************************************************)
(* The mutation lease of BrokerGateCore, the Durable Object that           *)
(* serializes the broker read-modify-write sequences of one account.       *)
(*                                                                         *)
(* A handler runs without interleaving between two awaits of a timer or of *)
(* another call: the platform's input gate delivers no event while a       *)
(* storage operation is under way, so each get ... put of a handler is one *)
(* action.  It does interleave at `await previous` and at each poll of the *)
(* stored lease, a renewal can be in storage before its new timer is armed *)
(* and the old timer's callback then run, and an eviction forgets          *)
(* everything that is not in storage.                                      *)
(***************************************************************************)
EXTENDS Naturals, Sequences

CONSTANTS Calls,         \* acquireMutation calls, each with its own random token
          LeaseMs,       \* MUTATION_LEASE_MS
          NoLease,       \* the absence of a stored or an active lease
          Horizon,       \* bound: no renewal is asked for after this instant
          MaxClock,      \* bound: the last instant of idle time
          MaxEvictions   \* bound: evictions of the object

ASSUME LeaseAssumption == LeaseMs \in Nat \ {0}
ASSUME BoundAssumption == Horizon \in Nat /\ MaxClock \in Nat /\ MaxEvictions \in Nat
ASSUME NoLeaseAssumption == NoLease \notin [token: Calls, expiresAt: Nat]
                         /\ NoLease \notin [token: Calls, due: Nat]

VARIABLES
  clock,       \* the time
  stored,      \* storage: MUTATION_LEASE_KEY
  queue,       \* memory: the promise chain of mutationTail, its first call first
  active,      \* memory: activeMutation, its token and the timer it tracks
  timers,      \* memory: timers armed and not yet run
  firing,      \* memory: tokens whose timer ran and whose expireMutation awaits storage
  rearming,    \* memory: tokens whose renewal is stored and whose timer is not yet re-armed
  pc,          \* where each caller is in withBrokerMutationLease
  rely,        \* history: until when each caller was told it holds the lease
  evictions    \* history: evictions so far

vars == <<clock, stored, queue, active, timers, firing, rearming, pc, rely, evictions>>

Leases == [token: Calls, expiresAt: Nat]
Timers == [token: Calls, due: Nat]

Lasting(c) == [token |-> c, expiresAt |-> clock + LeaseMs]
Timer(c, at) == [token |-> c, due |-> at]

TypeOK ==
  /\ clock \in Nat
  /\ stored \in Leases \cup {NoLease}
  /\ queue \in Seq(Calls)
  /\ active \in Timers \cup {NoLease}
  /\ timers \subseteq Timers
  /\ firing \subseteq Calls
  /\ rearming \subseteq Calls
  /\ pc \in [Calls -> {"idle", "waiting", "holding", "lost", "released", "refused", "dead"}]
  /\ rely \in [Calls -> Nat]
  /\ evictions \in Nat

Init ==
  /\ clock = 0
  /\ stored = NoLease
  /\ queue = <<>>
  /\ active = NoLease
  /\ timers = {}
  /\ firing = {}
  /\ rearming = {}
  /\ pc = [c \in Calls |-> "idle"]
  /\ rely = [c \in Calls |-> 0]
  /\ evictions = 0

InForce == stored # NoLease /\ stored.expiresAt > clock
IsActive(c) == active # NoLease /\ active.token = c

\* acquireMutation up to `await previous`: the call joins the tail.
JoinTail(c) ==
  /\ pc[c] = "idle"
  /\ queue' = Append(queue, c)
  /\ pc' = [pc EXCEPT ![c] = "waiting"]
  /\ UNCHANGED <<clock, stored, active, timers, firing, rearming, rely, evictions>>

\* The rest of acquireMutation, once every earlier call of this instance has
\* released and a poll of storage finds no lease in force.
AcquireMutation(c) ==
  /\ queue # <<>> /\ Head(queue) = c /\ active = NoLease
  /\ ~InForce
  /\ stored' = Lasting(c)
  /\ active' = Timer(c, clock + LeaseMs)
  /\ timers' = timers \cup {Timer(c, clock + LeaseMs)}
  /\ pc' = [pc EXCEPT ![c] = IF @ = "waiting" THEN "holding" ELSE @]
  /\ rely' = [rely EXCEPT ![c] = clock + LeaseMs]
  /\ UNCHANGED <<clock, queue, firing, rearming, evictions>>

\* A renewal that finds the lease still its own writes the new expiry.  The
\* caller waits for the answer, which comes once the timer is re-armed too.
RenewMutation(c) ==
  /\ pc[c] = "holding" /\ c \notin rearming /\ clock <= Horizon
  /\ InForce /\ stored.token = c
  /\ stored' = Lasting(c)
  /\ rely' = [rely EXCEPT ![c] = clock + LeaseMs]
  /\ rearming' = rearming \cup {c}
  /\ UNCHANGED <<clock, queue, active, timers, firing, pc, evictions>>

\* Mutant: the renewal clears the old timer and arms no new one.
RearmNothing(c) ==
  /\ c \in rearming
  /\ rearming' = rearming \ {c}
  /\ timers' = IF IsActive(c) THEN timers \ {active} ELSE timers
  /\ UNCHANGED <<clock, stored, queue, active, firing, pc, rely, evictions>>

\* It then replaces the timer that activeMutation tracks.
RearmTimer(c) ==
  /\ c \in rearming
  /\ rearming' = rearming \ {c}
  /\ IF IsActive(c)
     THEN /\ active' = Timer(c, clock + LeaseMs)
          /\ timers' = (timers \ {active}) \cup {Timer(c, clock + LeaseMs)}
     ELSE UNCHANGED <<active, timers>>
  /\ UNCHANGED <<clock, stored, queue, firing, pc, rely, evictions>>

\* A renewal that finds it lapsed or another's answers false: the caller
\* throws BrokerMutationLeaseExpiredError and goes to its finally block.
RenewalRefused(c) ==
  /\ pc[c] = "holding" /\ c \notin rearming /\ clock <= Horizon
  /\ ~(InForce /\ stored.token = c)
  /\ pc' = [pc EXCEPT ![c] = "lost"]
  /\ UNCHANGED <<clock, stored, queue, active, timers, firing, rearming, rely, evictions>>

\* Mutant: releaseMutation without the token check.
EndAnyLease(c) ==
  /\ stored' = NoLease
  /\ IF IsActive(c)
     THEN timers' = timers \ {active} /\ active' = NoLease /\ queue' = Tail(queue)
     ELSE UNCHANGED <<queue, active, timers>>

\* Mutant: the lease goes but the tail is not released.
EndWithoutTail(c) ==
  IF stored # NoLease /\ stored.token # c
  THEN UNCHANGED <<stored, queue, active, timers>>
  ELSE /\ stored' = NoLease
       /\ timers' = IF IsActive(c) THEN timers \ {active} ELSE timers
       /\ UNCHANGED <<queue, active>>

\* releaseMutation: nothing when another call's lease is stored; otherwise
\* the lease goes, and with it the timer and the head of the tail if the
\* object still remembers this call.
EndLease(c) ==
  IF stored # NoLease /\ stored.token # c
  THEN UNCHANGED <<stored, queue, active, timers>>
  ELSE /\ stored' = NoLease
       /\ IF IsActive(c)
          THEN /\ timers' = timers \ {active}
               /\ active' = NoLease
               /\ queue' = Tail(queue)
          ELSE UNCHANGED <<queue, active, timers>>

ReleaseMutation(c) ==
  /\ pc[c] \in {"holding", "lost"} /\ c \notin rearming
  /\ pc' = [pc EXCEPT ![c] = "released"]
  /\ rely' = [rely EXCEPT ![c] = 0]
  /\ EndLease(c)
  /\ UNCHANGED <<clock, firing, rearming, evictions>>

\* The timer callback runs and calls expireMutation; from here clearTimeout
\* can no longer stop it.
TimerFires(t) ==
  /\ t \in timers /\ t.due <= clock
  /\ timers' = timers \ {t}
  /\ firing' = firing \cup {t.token}
  /\ UNCHANGED <<clock, stored, queue, active, rearming, pc, rely, evictions>>

\* Mutant: expireMutation without looking at the time that remains.
ExpireRenewed(c) ==
  /\ c \in firing
  /\ firing' = firing \ {c}
  /\ EndLease(c)
  /\ UNCHANGED <<clock, rearming, pc, rely, evictions>>

\* expireMutation after its storage read: a renewed lease re-arms the timer,
\* a lapsed one is released.
ExpireMutation(c) ==
  /\ c \in firing
  /\ firing' = firing \ {c}
  /\ IF stored = NoLease \/ stored.token # c
     THEN UNCHANGED <<stored, queue, active, timers>>
     ELSE IF stored.expiresAt > clock
     THEN /\ IF IsActive(c)
             THEN /\ active' = Timer(c, stored.expiresAt)
                  /\ timers' = timers \cup {Timer(c, stored.expiresAt)}
             ELSE UNCHANGED <<active, timers>>
          /\ UNCHANGED <<stored, queue>>
     ELSE EndLease(c)
  /\ UNCHANGED <<clock, rearming, pc, rely, evictions>>

\* The caller's isolate dies, or its release call fails and is swallowed.
\* Whatever it already sent may still be under way until its lease lapses.
CallerDies(c) ==
  /\ pc[c] \in {"waiting", "holding", "lost"}
  /\ pc' = [pc EXCEPT ![c] = "dead"]
  /\ UNCHANGED <<clock, stored, queue, active, timers, firing, rearming, rely, evictions>>

\* The object is evicted: only storage survives, and the calls it had not
\* answered fail.
Evict ==
  /\ evictions < MaxEvictions
  /\ evictions' = evictions + 1
  /\ queue' = <<>>
  /\ active' = NoLease
  /\ timers' = {}
  /\ firing' = {}
  /\ rearming' = {}
  /\ pc' = [c \in Calls |-> CASE pc[c] = "waiting" -> "refused"
                            [] pc[c] = "holding" /\ c \in rearming -> "lost"
                            [] OTHER -> pc[c]]
  /\ UNCHANGED <<clock, stored, rely>>

\* Past MaxClock time passes only for the lease in force and the timers armed.
Tick ==
  /\ clock < MaxClock \/ InForce \/ \E t \in timers : t.due > clock
  /\ clock' = clock + 1
  /\ UNCHANGED <<stored, queue, active, timers, firing, rearming, pc, rely, evictions>>

Next ==
  \/ \E c \in Calls :
       \/ JoinTail(c) \/ AcquireMutation(c)
       \/ RenewMutation(c) \/ RearmTimer(c) \/ RenewalRefused(c) \/ ReleaseMutation(c)
       \/ ExpireMutation(c) \/ CallerDies(c)
  \/ \E t \in timers : TimerFires(t)
  \/ Evict
  \/ Tick

Spec == Init /\ [][Next]_vars

\* Time passes, timers run, and a poll that finds the lease free goes on.
\* Nothing is assumed of the callers: they may never renew nor release.
Fairness ==
  /\ WF_vars(Tick)
  /\ WF_vars(\E t \in timers : TimerFires(t))
  /\ \A c \in Calls :
       WF_vars(ExpireMutation(c)) /\ WF_vars(RearmTimer(c)) /\ WF_vars(AcquireMutation(c))

FairSpec == Spec /\ Fairness

(***************************************************************************)
(* Properties                                                              *)
(***************************************************************************)

\* Two calls are never both entitled to act on the account: until the time a
\* caller was last promised, or until it released, no other call is promised
\* anything -- through renewals, late timers, late releases and evictions
\* (the serialization broker-gate-core.ts exists for).
ExclusiveReliance ==
  \A c, d \in Calls : rely[c] > clock /\ rely[d] > clock => c = d

\* The call the tail waits on always has a timer armed or running for it: the
\* stored expiry cannot pass without someone left to release the tail
\* (expiryTimer, renewMutation, expireMutation).
ActiveHasTimer ==
  active # NoLease =>
    active.token \in firing \/ \E t \in timers : t.token = active.token

\* The object remembers a lease only while storage holds the same call's.
ActiveIsStored ==
  active # NoLease =>
    /\ stored # NoLease /\ stored.token = active.token
    /\ queue # <<>> /\ Head(queue) = active.token

\* What the memory of the object knows of its callers: every queued call but
\* the active one is still waiting (or its caller died waiting), and no call is
\* queued twice.  A call that released is thus never granted the lease again.
QueueWaits ==
  /\ \A i \in 1..Len(queue) : \/ pc[queue[i]] \in {"waiting", "dead"}
                              \/ i = 1 /\ active # NoLease /\ pc[queue[i]] # "idle"
  /\ \A i, j \in 1..Len(queue) : queue[i] = queue[j] => i = j

\* A caller's promise is the lease in storage: the strengthening that makes
\* ExclusiveReliance inductive.
RelyIsStored ==
  \A c \in Calls : rely[c] > clock =>
    stored # NoLease /\ stored.token = c /\ stored.expiresAt = rely[c]

GateInv == TypeOK /\ RelyIsStored /\ ActiveIsStored /\ ActiveHasTimer /\ QueueWaits

\* A queued call is eventually granted the lease or refused, whatever the
\* calls before it do (acquireMutation's wait is never endless).
WaitersServed ==
  \A c \in Calls : (pc[c] = "waiting") ~> (pc[c] # "waiting")

\* The gate implements the lease it promises: no step grants, extends or
\* ends a lease in a way MutationLease does not allow.
Promise == INSTANCE MutationLease
             WITH lease <- stored, over <- {c \in Calls : pc[c] = "released"}
ImplementsLease == Promise!Spec
==============================================================================
