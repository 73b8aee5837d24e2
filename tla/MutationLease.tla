---------------------------- MODULE MutationLease ----------------------------
(***************************************************************************)
(* What BrokerGate promises its callers about the mutation lease of one    *)
(* brokerage account, with the queue, the timers and the evictions of the  *)
(* Durable Object left out: a lease is granted only when no other is in    *)
(* force, it is extended only by the call that holds it, and it ends only  *)
(* when that call gives it up or when its time has passed.                 *)
(***************************************************************************)
EXTENDS Naturals

CONSTANTS Calls,      \* the acquireMutation calls, each with its own token
          LeaseMs,    \* how long a grant or a renewal lasts
          NoLease     \* the absence of a stored lease

VARIABLES clock,      \* the time
          lease,      \* the lease in force or lapsed but still recorded
          over        \* the calls that gave their lease up

absVars == <<clock, lease, over>>

Leases == [token: Calls, expiresAt: Nat]

InForce == lease # NoLease /\ lease.expiresAt > clock

Lasting(c) == [token |-> c, expiresAt |-> clock + LeaseMs]

Init == clock = 0 /\ lease = NoLease /\ over = {}

\* A call that has not yet given its lease up gets one when none is in force.
Grant(c) == /\ ~InForce
            /\ c \notin over
            /\ lease' = Lasting(c)
            /\ UNCHANGED <<clock, over>>

Extend(c) == /\ InForce /\ lease.token = c
             /\ lease' = Lasting(c)
             /\ UNCHANGED <<clock, over>>

\* Giving up takes away the caller's own lease, never another's.
GiveUp(c) == /\ over' = over \cup {c}
             /\ lease' = IF lease # NoLease /\ lease.token = c THEN NoLease ELSE lease
             /\ UNCHANGED clock

Lapse == /\ lease # NoLease /\ ~InForce
         /\ lease' = NoLease
         /\ UNCHANGED <<clock, over>>

TimePasses == clock' > clock /\ UNCHANGED <<lease, over>>

Next == \/ \E c \in Calls : Grant(c) \/ Extend(c) \/ GiveUp(c)
        \/ Lapse
        \/ TimePasses

Spec == Init /\ [][Next]_absVars
==============================================================================
