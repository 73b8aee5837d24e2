--------------------------- MODULE BrokerGateProofs ---------------------------
(***************************************************************************)
(* Proofs about BrokerGate for any number of calls, any lease and any      *)
(* bounds.  The argument: a promise made to a caller is always the lease   *)
(* that storage holds (RelyIsStored), and the memory of the object agrees  *)
(* with storage about it (ActiveIsStored), so whoever ends a lease ends    *)
(* its own or a lapsed one.                                                *)
(***************************************************************************)
EXTENDS BrokerGate, TLAPS

(***************************************************************************)
(* What the shared tail of releaseMutation and expireMutation does.        *)
(***************************************************************************)

\* Ending a call's lease keeps the types, and the queue only loses its head.
LEMMA EndLeaseTypes ==
  ASSUME NEW c \in Calls, TypeOK, ActiveIsStored, EndLease(c)
  PROVE  /\ stored' \in Leases \cup {NoLease}
         /\ queue' \in Seq(Calls)
         /\ active' \in Timers \cup {NoLease}
         /\ timers' \in SUBSET timers
         /\ \/ queue' = queue
            \/ queue' = Tail(queue) /\ active' = NoLease /\ active # NoLease
<1>1. queue # <<>> => Tail(queue) \in Seq(Calls)
  BY DEF TypeOK
<1>2. CASE stored # NoLease /\ stored.token # c
  BY <1>2 DEF TypeOK, EndLease
<1>3. CASE ~(stored # NoLease /\ stored.token # c) /\ IsActive(c)
  BY <1>1, <1>3 DEF TypeOK, ActiveIsStored, EndLease, IsActive
<1>4. CASE ~(stored # NoLease /\ stored.token # c) /\ ~IsActive(c)
  BY <1>4 DEF TypeOK, EndLease
<1>5. QED
  BY <1>2, <1>3, <1>4

\* It leaves every other call's lease as it was, and never leaves memory
\* remembering a lease that storage no longer holds.
LEMMA EndLeaseOthers ==
  ASSUME NEW c \in Calls, TypeOK, ActiveIsStored, ActiveHasTimer, EndLease(c),
         firing' = firing \/ firing' = firing \ {c}
  PROVE  /\ stored # NoLease /\ stored.token # c => stored' = stored
         /\ stored' # NoLease => stored' = stored /\ stored.token # c
         /\ active' # NoLease => active' = active /\ queue' = queue /\ stored' = stored
         /\ active' = NoLease =>
              (active = NoLease /\ queue' = queue) \/ (active # NoLease /\ queue' = Tail(queue))
         /\ ActiveHasTimer'
<1> USE DEF EndLease, IsActive, ActiveIsStored
<1>1. CASE stored # NoLease /\ stored.token # c
  BY <1>1 DEF ActiveHasTimer
<1>2. CASE stored = NoLease \/ stored.token = c
  <2>1. active' = NoLease
    BY <1>2
  <2>2. QED
    BY <1>2, <2>1 DEF ActiveHasTimer
<1>3. QED
  BY <1>1, <1>2

(***************************************************************************)
(* The inductive invariant, conjunct by conjunct.                          *)
(***************************************************************************)

\* The initial state satisfies the invariant.
LEMMA InitGateInv == Init => GateInv
  BY NoLeaseAssumption
     DEF Init, GateInv, TypeOK, RelyIsStored, ActiveIsStored, ActiveHasTimer,
         QueueWaits, Leases, Timers

\* Every variable keeps its type in every step.
LEMMA TypeStep == TypeOK /\ ActiveIsStored /\ [Next]_vars => TypeOK'
<1> SUFFICES ASSUME TypeOK, ActiveIsStored, [Next]_vars PROVE TypeOK'
  OBVIOUS
<1> USE LeaseAssumption DEF TypeOK, Leases, Timers, Lasting, Timer
<1>1. ASSUME NEW c \in Calls, JoinTail(c) PROVE TypeOK'
  BY <1>1 DEF JoinTail
<1>2. ASSUME NEW c \in Calls, AcquireMutation(c) PROVE TypeOK'
  BY <1>2 DEF AcquireMutation
<1>3. ASSUME NEW c \in Calls, RenewMutation(c) PROVE TypeOK'
  BY <1>3 DEF RenewMutation
<1>3a. ASSUME NEW c \in Calls, RearmTimer(c) PROVE TypeOK'
  BY <1>3a DEF RearmTimer
<1>4. ASSUME NEW c \in Calls, RenewalRefused(c) PROVE TypeOK'
  BY <1>4 DEF RenewalRefused
<1>5. ASSUME NEW c \in Calls, ReleaseMutation(c) PROVE TypeOK'
  BY <1>5, EndLeaseTypes DEF ReleaseMutation
<1>6. ASSUME NEW c \in Calls, ExpireMutation(c) PROVE TypeOK'
  <2> USE <1>6 DEF ExpireMutation
  <2>1. CASE stored = NoLease \/ stored.token # c
    BY <2>1
  <2>2. CASE ~(stored = NoLease \/ stored.token # c) /\ stored.expiresAt > clock
    BY <2>2
  <2>3. CASE ~(stored = NoLease \/ stored.token # c) /\ ~(stored.expiresAt > clock)
    BY <2>3, EndLeaseTypes
  <2>4. QED
    BY <2>1, <2>2, <2>3
<1>7. ASSUME NEW c \in Calls, CallerDies(c) PROVE TypeOK'
  BY <1>7 DEF CallerDies
<1>8. ASSUME NEW t \in timers, TimerFires(t) PROVE TypeOK'
  BY <1>8 DEF TimerFires
<1>9. CASE Evict
  BY <1>9 DEF Evict
<1>10. CASE Tick
  BY <1>10 DEF Tick
<1>11. CASE UNCHANGED vars
  BY <1>11 DEF vars
<1>12. QED
  BY <1>1, <1>2, <1>3, <1>3a, <1>4, <1>5, <1>6, <1>7, <1>8, <1>9, <1>10, <1>11
     DEF Next

\* A promise stays the stored lease: a step that takes a lease away takes its
\* own caller's or a lapsed one.
LEMMA RelyStep == GateInv /\ [Next]_vars => RelyIsStored'
<1> SUFFICES ASSUME GateInv, [Next]_vars PROVE RelyIsStored'
  OBVIOUS
<1> USE LeaseAssumption DEF GateInv, TypeOK, RelyIsStored, Leases
<1>1. ASSUME NEW c \in Calls, JoinTail(c) PROVE RelyIsStored'
  BY <1>1 DEF JoinTail
<1>2. ASSUME NEW c \in Calls, AcquireMutation(c) PROVE RelyIsStored'
  BY <1>2, NoLeaseAssumption DEF AcquireMutation, InForce, Lasting
<1>3. ASSUME NEW c \in Calls, RenewMutation(c) PROVE RelyIsStored'
  BY <1>3, NoLeaseAssumption DEF RenewMutation, InForce, Lasting
<1>3a. ASSUME NEW c \in Calls, RearmTimer(c) PROVE RelyIsStored'
  BY <1>3a DEF RearmTimer
<1>4. ASSUME NEW c \in Calls, RenewalRefused(c) PROVE RelyIsStored'
  BY <1>4 DEF RenewalRefused
<1>5. ASSUME NEW c \in Calls, ReleaseMutation(c) PROVE RelyIsStored'
  BY <1>5 DEF ReleaseMutation, EndLease
<1>6. ASSUME NEW c \in Calls, ExpireMutation(c) PROVE RelyIsStored'
  <2> USE <1>6 DEF ExpireMutation
  <2>1. CASE stored = NoLease \/ stored.token # c
    BY <2>1
  <2>2. CASE ~(stored = NoLease \/ stored.token # c) /\ stored.expiresAt > clock
    BY <2>2
  <2>3. CASE ~(stored = NoLease \/ stored.token # c) /\ ~(stored.expiresAt > clock)
    BY <2>3 DEF EndLease
  <2>4. QED
    BY <2>1, <2>2, <2>3
<1>7. ASSUME NEW c \in Calls, CallerDies(c) PROVE RelyIsStored'
  BY <1>7 DEF CallerDies
<1>8. ASSUME NEW t \in timers, TimerFires(t) PROVE RelyIsStored'
  BY <1>8 DEF TimerFires
<1>9. CASE Evict
  BY <1>9 DEF Evict
<1>10. CASE Tick
  BY <1>10 DEF Tick
<1>11. CASE UNCHANGED vars
  BY <1>11 DEF vars
<1>12. QED
  BY <1>1, <1>2, <1>3, <1>3a, <1>4, <1>5, <1>6, <1>7, <1>8, <1>9, <1>10, <1>11
     DEF Next

\* A call that joins a queue leaves its head as it was.
LEMMA AppendKeepsHead ==
  ASSUME NEW S, NEW q \in Seq(S), NEW e \in S
  PROVE  Append(q, e) # <<>> /\ (q # <<>> => Head(Append(q, e)) = Head(q))
<1>1. Len(Append(q, e)) = Len(q) + 1 /\ Len(q) \in Nat
  OBVIOUS
<1>2. Append(q, e) # <<>>
  BY <1>1
<1>3. QED
  BY <1>2

\* Memory and storage stay in agreement about the active lease, and its timer
\* stays armed or running.
LEMMA ActiveStep ==
  GateInv /\ [Next]_vars => ActiveIsStored' /\ ActiveHasTimer'
<1> SUFFICES ASSUME GateInv, [Next]_vars PROVE ActiveIsStored' /\ ActiveHasTimer'
  OBVIOUS
<1> USE DEF GateInv, ActiveIsStored, ActiveHasTimer
<1>1. ASSUME NEW c \in Calls, JoinTail(c) PROVE ActiveIsStored' /\ ActiveHasTimer'
  <2>1. queue \in Seq(Calls)
    BY DEF TypeOK
  <2>2. QED
    BY <1>1, <2>1, AppendKeepsHead DEF JoinTail
<1>2. ASSUME NEW c \in Calls, AcquireMutation(c) PROVE ActiveIsStored' /\ ActiveHasTimer'
  BY <1>2, NoLeaseAssumption, LeaseAssumption DEF AcquireMutation, Lasting, Timer, TypeOK
<1>3. ASSUME NEW c \in Calls, RenewMutation(c) PROVE ActiveIsStored' /\ ActiveHasTimer'
  BY <1>3, NoLeaseAssumption, LeaseAssumption
     DEF RenewMutation, Lasting, Timer, TypeOK, InForce, IsActive
<1>3a. ASSUME NEW c \in Calls, RearmTimer(c) PROVE ActiveIsStored' /\ ActiveHasTimer'
  BY <1>3a, NoLeaseAssumption, LeaseAssumption DEF RearmTimer, Timer, TypeOK, IsActive
<1>4. ASSUME NEW c \in Calls, RenewalRefused(c) PROVE ActiveIsStored' /\ ActiveHasTimer'
  BY <1>4 DEF RenewalRefused
<1>5. ASSUME NEW c \in Calls, ReleaseMutation(c) PROVE ActiveIsStored' /\ ActiveHasTimer'
  BY <1>5, EndLeaseOthers DEF ReleaseMutation
<1>6. ASSUME NEW c \in Calls, ExpireMutation(c) PROVE ActiveIsStored' /\ ActiveHasTimer'
  <2> USE <1>6 DEF ExpireMutation
  <2>1. CASE stored = NoLease \/ stored.token # c
    BY <2>1
  <2>2. CASE ~(stored = NoLease \/ stored.token # c) /\ stored.expiresAt > clock
    BY <2>2 DEF IsActive, Timer, TypeOK
  <2>3. CASE ~(stored = NoLease \/ stored.token # c) /\ ~(stored.expiresAt > clock)
    BY <2>3, EndLeaseOthers
  <2>4. QED
    BY <2>1, <2>2, <2>3
<1>7. ASSUME NEW c \in Calls, CallerDies(c) PROVE ActiveIsStored' /\ ActiveHasTimer'
  BY <1>7 DEF CallerDies
<1>8. ASSUME NEW t \in timers, TimerFires(t) PROVE ActiveIsStored' /\ ActiveHasTimer'
  BY <1>8 DEF TimerFires
<1>9. CASE Evict
  BY <1>9 DEF Evict
<1>10. CASE Tick
  BY <1>10 DEF Tick
<1>11. CASE UNCHANGED vars
  BY <1>11 DEF vars
<1>12. QED
  BY <1>1, <1>2, <1>3, <1>3a, <1>4, <1>5, <1>6, <1>7, <1>8, <1>9, <1>10, <1>11
     DEF Next

\* Dropping the head of a queue that satisfies QueueWaits leaves only calls
\* that wait, and not the dropped one.
LEMMA TailWaits ==
  ASSUME TypeOK, QueueWaits, queue # <<>>
  PROVE  /\ \A i \in 1..Len(Tail(queue)) : /\ pc[Tail(queue)[i]] \in {"waiting", "dead"}
                                           /\ Tail(queue)[i] # Head(queue)
         /\ \A i, j \in 1..Len(Tail(queue)) : Tail(queue)[i] = Tail(queue)[j] => i = j
<1>1. /\ Len(Tail(queue)) = Len(queue) - 1 /\ Len(queue) \in Nat
      /\ \A i \in 1..Len(Tail(queue)) : Tail(queue)[i] = queue[i + 1] /\ i + 1 \in 1..Len(queue)
      /\ Head(queue) = queue[1] /\ 1 \in 1..Len(queue)
  BY DEF TypeOK
<1>2. QED
  BY <1>1 DEF QueueWaits

\* The queue keeps only callers that wait, behind the one that holds the lease.
LEMMA QueueStep == GateInv /\ [Next]_vars => QueueWaits'
<1> SUFFICES ASSUME GateInv, [Next]_vars PROVE QueueWaits'
  OBVIOUS
<1> USE DEF GateInv
<1>0. queue \in Seq(Calls) /\ Len(queue) \in Nat /\ \A i \in 1..Len(queue) : queue[i] \in Calls
  BY DEF TypeOK
<1>1. ASSUME NEW c \in Calls, JoinTail(c) PROVE QueueWaits'
  <2>1. /\ Len(Append(queue, c)) = Len(queue) + 1
        /\ \A i \in 1..Len(queue) : Append(queue, c)[i] = queue[i]
        /\ Append(queue, c)[Len(queue) + 1] = c
    BY <1>0
  <2>2. \A i \in 1..Len(queue) : queue[i] # c
    BY <1>0, <1>1 DEF JoinTail, QueueWaits
  <2>3. queue' = Append(queue, c) /\ active' = active
        /\ pc'[c] = "waiting" /\ \A d \in Calls \ {c} : pc'[d] = pc[d]
    BY <1>1 DEF JoinTail, TypeOK
  <2>4. ASSUME NEW i \in 1..Len(queue')
        PROVE  \/ pc'[queue'[i]] \in {"waiting", "dead"}
               \/ i = 1 /\ active' # NoLease /\ pc'[queue'[i]] # "idle"
    <3>1. CASE i \in 1..Len(queue)
      <4>1. queue'[i] = queue[i] /\ queue[i] \in Calls \ {c}
        BY <1>0, <2>1, <2>2, <2>3, <3>1
      <4>2. QED
        BY <2>3, <3>1, <4>1 DEF QueueWaits
    <3>2. CASE i = Len(queue) + 1
      BY <2>1, <2>3, <3>2
    <3>3. QED
      BY <1>0, <2>1, <2>3, <3>1, <3>2
  <2>5. \A i, j \in 1..Len(queue') : queue'[i] = queue'[j] => i = j
    <3> SUFFICES ASSUME NEW i \in 1..Len(queue'), NEW j \in 1..Len(queue'),
                        queue'[i] = queue'[j]
                 PROVE  i = j
      OBVIOUS
    <3>1. /\ i \in 1..Len(queue) \/ i = Len(queue) + 1
          /\ j \in 1..Len(queue) \/ j = Len(queue) + 1
      BY <1>0, <2>1, <2>3
    <3>2. QED
      BY <1>0, <2>1, <2>2, <2>3, <3>1 DEF QueueWaits
  <2>6. QED
    BY <2>4, <2>5 DEF QueueWaits
<1>2. ASSUME NEW c \in Calls, AcquireMutation(c) PROVE QueueWaits'
  <2>1. c = queue[1] /\ 1 \in 1..Len(queue)
    BY <1>0, <1>2 DEF AcquireMutation
  <2>2. active' # NoLease
    BY <1>2, NoLeaseAssumption, LeaseAssumption DEF AcquireMutation, Timer, TypeOK
  <2>3. QED
    BY <1>0, <1>2, <2>1, <2>2 DEF AcquireMutation, QueueWaits, TypeOK
<1>3. ASSUME NEW c \in Calls, RenewMutation(c) PROVE QueueWaits'
  <2>1. active # NoLease => active' # NoLease
    BY <1>3, NoLeaseAssumption, LeaseAssumption DEF RenewMutation, Timer, TypeOK
  <2>2. QED
    BY <1>3, <2>1 DEF RenewMutation, QueueWaits
<1>3a. ASSUME NEW c \in Calls, RearmTimer(c) PROVE QueueWaits'
  <2>1. active # NoLease => active' # NoLease
    BY <1>3a, NoLeaseAssumption, LeaseAssumption DEF RearmTimer, Timer, TypeOK
  <2>2. QED
    BY <1>3a, <2>1 DEF RearmTimer, QueueWaits
<1>4. ASSUME NEW c \in Calls, RenewalRefused(c) PROVE QueueWaits'
  BY <1>0, <1>4 DEF RenewalRefused, QueueWaits, TypeOK
<1>5. ASSUME NEW c \in Calls, ReleaseMutation(c) PROVE QueueWaits'
  <2>1. pc'[c] = "released" /\ \A d \in Calls \ {c} : pc'[d] = pc[d]
    BY <1>5 DEF ReleaseMutation, TypeOK
  <2>2. CASE active # NoLease /\ active' = NoLease
    <3>1. queue # <<>> /\ queue' = Tail(queue)
      BY <1>5, <2>2, EndLeaseOthers DEF ReleaseMutation, ActiveIsStored
    <3>2. Head(queue) = c
      BY <1>5, <2>2 DEF ReleaseMutation, EndLease, IsActive, ActiveIsStored
    <3>3. queue' \in Seq(Calls) /\ \A i \in 1..Len(queue') : queue'[i] \in Calls
      BY <1>0, <3>1
    <3>4. QED
      BY <2>1, <3>1, <3>2, <3>3, TailWaits DEF QueueWaits
  <2>3. CASE ~(active # NoLease /\ active' = NoLease)
    <3>1. queue' = queue /\ (active # NoLease => active' # NoLease)
      BY <1>5, <2>3, EndLeaseOthers DEF ReleaseMutation
    <3>2. QED
      BY <1>0, <1>5, <2>1, <3>1 DEF QueueWaits, ReleaseMutation
  <2>4. QED
    BY <2>2, <2>3
<1>6. ASSUME NEW c \in Calls, ExpireMutation(c) PROVE QueueWaits'
  <2> USE <1>6 DEF ExpireMutation
  <2>1. CASE stored = NoLease \/ stored.token # c
    BY <2>1 DEF QueueWaits
  <2>2. CASE ~(stored = NoLease \/ stored.token # c) /\ stored.expiresAt > clock
    <3>1. active # NoLease => active' # NoLease
      BY <2>2, NoLeaseAssumption DEF Timer, TypeOK, Leases
    <3>2. QED
      BY <2>2, <3>1 DEF QueueWaits
  <2>3. CASE ~(stored = NoLease \/ stored.token # c) /\ ~(stored.expiresAt > clock)
    <3>1. CASE active # NoLease /\ active' = NoLease
      <4>1. queue # <<>> /\ queue' = Tail(queue)
        BY <2>3, <3>1, EndLeaseOthers DEF ActiveIsStored
      <4>2. QED
        BY <4>1, TailWaits DEF QueueWaits
    <3>2. CASE ~(active # NoLease /\ active' = NoLease)
      <4>1. queue' = queue /\ (active # NoLease => active' # NoLease)
        BY <2>3, <3>2, EndLeaseOthers
      <4>2. QED
        BY <4>1 DEF QueueWaits
    <3>3. QED
      BY <3>1, <3>2
  <2>4. QED
    BY <2>1, <2>2, <2>3
<1>7. ASSUME NEW c \in Calls, CallerDies(c) PROVE QueueWaits'
  BY <1>0, <1>7 DEF CallerDies, QueueWaits, TypeOK
<1>8. ASSUME NEW t \in timers, TimerFires(t) PROVE QueueWaits'
  BY <1>8 DEF TimerFires, QueueWaits
<1>9. CASE Evict
  BY <1>9 DEF Evict, QueueWaits
<1>10. CASE Tick
  BY <1>10 DEF Tick, QueueWaits
<1>11. CASE UNCHANGED vars
  BY <1>11 DEF vars, QueueWaits
<1>12. QED
  BY <1>1, <1>2, <1>3, <1>3a, <1>4, <1>5, <1>6, <1>7, <1>8, <1>9, <1>10, <1>11
     DEF Next

(***************************************************************************)
(* The theorems.                                                           *)
(***************************************************************************)

\* The inductive invariant holds in every reachable state of the gate.
THEOREM GateInvariant == Spec => []GateInv
<1>1. GateInv /\ [Next]_vars => GateInv'
  BY TypeStep, RelyStep, ActiveStep, QueueStep DEF GateInv
<1>2. QED
  BY <1>1, InitGateInv, PTL DEF Spec

\* The gate's variables always have their types.
THEOREM TypeCorrect == Spec => []TypeOK
  BY GateInvariant, PTL DEF GateInv

\* No two callers are ever entitled to act on the account at once.
THEOREM MutualExclusion == Spec => []ExclusiveReliance
<1>1. GateInv => ExclusiveReliance
  BY DEF GateInv, RelyIsStored, ExclusiveReliance
<1>2. QED
  BY <1>1, GateInvariant, PTL

\* The tail is never left waiting on a lease that no timer will end.
THEOREM TimerBacked == Spec => []ActiveHasTimer
  BY GateInvariant, PTL DEF GateInv

\* The gate implements the promised lease: every step is a grant, an
\* extension, a give-up, a lapse, the passing of time or invisible.
THEOREM GateImplementsLease == Spec => ImplementsLease
<1> DEFINE over == {c \in Calls : pc[c] = "released"}
<1>1. Init => Promise!Init
  BY DEF Init, Promise!Init
<1>2. GateInv /\ [Next]_vars => [Promise!Next]_(Promise!absVars)
  <2> SUFFICES ASSUME GateInv, [Next]_vars PROVE [Promise!Next]_(Promise!absVars)
    OBVIOUS
  <2> USE DEF GateInv, TypeOK, Promise!absVars, Promise!Next
  <2>1. ASSUME NEW c \in Calls, JoinTail(c) PROVE UNCHANGED Promise!absVars
    BY <2>1 DEF JoinTail
  <2>2. ASSUME NEW c \in Calls, AcquireMutation(c) PROVE Promise!Grant(c)
    <3>1. pc[c] \in {"waiting", "dead"}
      BY <2>2 DEF AcquireMutation, QueueWaits
    <3>2. QED
      BY <2>2, <3>1 DEF AcquireMutation, InForce, Lasting, Promise!Grant, Promise!InForce, Promise!Lasting
  <2>3. ASSUME NEW c \in Calls, RenewMutation(c) PROVE Promise!Extend(c)
    BY <2>3 DEF RenewMutation, InForce, Lasting, Promise!Extend, Promise!InForce, Promise!Lasting
  <2>3a. ASSUME NEW c \in Calls, RearmTimer(c) PROVE UNCHANGED Promise!absVars
    BY <2>3a DEF RearmTimer
  <2>4. ASSUME NEW c \in Calls, RenewalRefused(c) PROVE UNCHANGED Promise!absVars
    BY <2>4 DEF RenewalRefused
  <2>5. ASSUME NEW c \in Calls, ReleaseMutation(c) PROVE Promise!GiveUp(c)
    BY <2>5 DEF ReleaseMutation, EndLease, Promise!GiveUp
  <2>6. ASSUME NEW c \in Calls, ExpireMutation(c)
        PROVE Promise!Lapse \/ UNCHANGED Promise!absVars
    BY <2>6 DEF ExpireMutation, EndLease, Promise!Lapse, Promise!InForce
  <2>7. ASSUME NEW c \in Calls, CallerDies(c) PROVE UNCHANGED Promise!absVars
    BY <2>7 DEF CallerDies
  <2>8. ASSUME NEW t \in timers, TimerFires(t) PROVE UNCHANGED Promise!absVars
    BY <2>8 DEF TimerFires
  <2>9. CASE Evict
    BY <2>9 DEF Evict
  <2>10. CASE Tick
    BY <2>10 DEF Tick, Promise!TimePasses
  <2>11. CASE UNCHANGED vars
    BY <2>11 DEF vars
  <2>12. QED
    BY <2>1, <2>2, <2>3, <2>3a, <2>4, <2>5, <2>6, <2>7, <2>8, <2>9, <2>10, <2>11
       DEF Next
<1>3. QED
  BY <1>1, <1>2, GateInvariant, PTL DEF Spec, ImplementsLease, Promise!Spec
==============================================================================
