----------------------------- MODULE PermitQueue -----------------------------
(***************************************************************************)
(* BrokerGateCore.acquire: the permits that space the requests to the      *)
(* broker.  A caller is given the next slot, and answered once the slot is *)
(* durable and has come.  The object may be evicted at any time; what it   *)
(* had not yet written is lost with the calls that waited for it.          *)
(***************************************************************************)
EXTENDS Integers

CONSTANTS
  Calls,           \* acquire calls
  PermitInterval,  \* PERMIT_INTERVAL_MS
  MaxClock,        \* bound: the last instant of a run
  MaxEvictions     \* bound: evictions of the object

ASSUME PermitAssumption ==
  PermitInterval \in Nat \ {0} /\ MaxClock \in Nat /\ MaxEvictions \in Nat

VARIABLES
  clock,         \* now()
  nextPermitAt,  \* the object's memory
  stored,        \* NEXT_PERMIT_KEY; 0 stands for a missing entry
  state,         \* of a call: its slot is taken, durable, its time has come, or it failed
  permitAt,      \* the slot of a call
  evictions

vars == <<clock, nextPermitAt, stored, state, permitAt, evictions>>

TypeOK == /\ clock \in Nat /\ nextPermitAt \in Nat /\ stored \in Nat
          /\ state \in [Calls -> {"idle", "writing", "waiting", "granted", "failed"}]
          /\ permitAt \in [Calls -> Nat]
          /\ evictions \in 0..MaxEvictions

Init == /\ clock = 0 /\ nextPermitAt = 0 /\ stored = 0 /\ evictions = 0
        /\ state = [c \in Calls |-> "idle"]
        /\ permitAt = [c \in Calls |-> 0]

Later(a, b) == IF a >= b THEN a ELSE b

\* Mutant: the next slot is counted from now, not from the slot just given.
AcquireFromNow(c) ==
  /\ state[c] = "idle"
  /\ permitAt' = [permitAt EXCEPT ![c] = Later(clock, nextPermitAt)]
  /\ nextPermitAt' = clock + PermitInterval
  /\ state' = [state EXCEPT ![c] = "writing"]
  /\ UNCHANGED <<clock, stored, evictions>>

\* acquire up to its put.
Acquire(c) ==
  /\ state[c] = "idle"
  /\ LET at == Later(clock, nextPermitAt)
     IN /\ permitAt' = [permitAt EXCEPT ![c] = at]
        /\ nextPermitAt' = at + PermitInterval
  /\ state' = [state EXCEPT ![c] = "writing"]
  /\ UNCHANGED <<clock, stored, evictions>>

\* Mutant: a write makes only the last call's slot durable for an answer.
WrittenAlone(c) ==
  /\ state[c] = "writing" /\ permitAt[c] + PermitInterval = nextPermitAt
  /\ stored' = permitAt[c] + PermitInterval
  /\ state' = [state EXCEPT ![c] = "waiting"]
  /\ UNCHANGED <<clock, nextPermitAt, permitAt, evictions>>

\* Writes become durable in their order, several at a time.
Written(c) ==
  /\ state[c] = "writing"
  /\ stored' = permitAt[c] + PermitInterval
  /\ state' = [d \in Calls |->
       IF state[d] = "writing" /\ permitAt[d] <= permitAt[c] THEN "waiting" ELSE state[d]]
  /\ UNCHANGED <<clock, nextPermitAt, permitAt, evictions>>

\* Mutant: the caller is answered before its slot is durable.
GrantUnwritten(c) ==
  /\ state[c] \in {"writing", "waiting"} /\ clock >= permitAt[c]
  /\ state' = [state EXCEPT ![c] = "granted"]
  /\ UNCHANGED <<clock, nextPermitAt, stored, permitAt, evictions>>

\* permits.wait(delay) is over, possibly late.
Grant(c) ==
  /\ state[c] = "waiting" /\ clock >= permitAt[c]
  /\ state' = [state EXCEPT ![c] = "granted"]
  /\ UNCHANGED <<clock, nextPermitAt, stored, permitAt, evictions>>

\* Mutant: a restarted object leaves a slot free to be safe.
EvictWithPause ==
  /\ evictions < MaxEvictions /\ evictions' = evictions + 1
  /\ nextPermitAt' = stored + PermitInterval
  /\ state' = [c \in Calls |-> IF state[c] \in {"writing", "waiting"} THEN "failed" ELSE state[c]]
  /\ UNCHANGED <<clock, stored, permitAt>>

\* The object is evicted and started again; initialize reads its storage.
Evict ==
  /\ evictions < MaxEvictions /\ evictions' = evictions + 1
  /\ nextPermitAt' = stored
  /\ state' = [c \in Calls |-> IF state[c] \in {"writing", "waiting"} THEN "failed" ELSE state[c]]
  /\ UNCHANGED <<clock, stored, permitAt>>

\* Time passes, beyond the bound only while a slot is waited for.
Tick ==
  /\ clock < MaxClock \/ \E c \in Calls : state[c] \in {"writing", "waiting"} /\ clock < permitAt[c]
  /\ clock' = clock + 1
  /\ UNCHANGED <<nextPermitAt, stored, state, permitAt, evictions>>

Next == \/ \E c \in Calls : Acquire(c) \/ Written(c) \/ Grant(c)
        \/ Evict
        \/ Tick

Spec == Init /\ [][Next]_vars

\* Writes complete, timers fire and time passes.
FairSpec == Spec /\ WF_vars(Tick) /\ \A c \in Calls : WF_vars(Written(c)) /\ WF_vars(Grant(c))

Holders == {c \in Calls : state[c] \in {"writing", "waiting", "granted"}}

\* No two permits, answered or about to be, are closer than the interval:
\* however calls interleave with writes and evictions, no slot is given twice
\* to calls that survive (nextPermitAt is durable before an answer leaves).
PermitsSpaced ==
  \A c, d \in Holders :
    c # d => permitAt[c] + PermitInterval <= permitAt[d] \/ permitAt[d] + PermitInterval <= permitAt[c]

\* A slot is never waited for longer than the calls before it require, also
\* across a restart: every slot still to come follows one that was given out.
NoSlotSkipped ==
  \A c \in Holders :
    \/ permitAt[c] <= clock
    \/ \E d \in Calls : state[d] # "idle" /\ permitAt[c] = permitAt[d] + PermitInterval

\* Every call is answered, or fails with the object it waited in: a slot is
\* always written and always comes.
EveryCallAnswered ==
  \A c \in Calls : state[c] \in {"writing", "waiting"} ~> state[c] \in {"granted", "failed"}

\* What is durable covers every call that may be answered: after a restart no
\* slot is given out again.  With TypeOK, the inductive invariant.
PermitInv ==
  /\ TypeOK
  /\ PermitsSpaced
  /\ stored <= nextPermitAt
  /\ \A c \in Holders : permitAt[c] + PermitInterval <= nextPermitAt
  /\ \A c \in Holders : state[c] # "writing" => permitAt[c] + PermitInterval <= stored
  /\ \A c \in Calls : state[c] = "writing" => permitAt[c] >= stored
==============================================================================
