------------------------------ MODULE MCAccount ------------------------------
(* What must come to an end on one brokerage account, part by part: the wait    *)
(* for the mutation lease at the gate, and the quarantine after a submission.   *)
(* The parts share no state, and a behavior runs one of them.                   *)
EXTENDS BrokerGate, OrderPlacement
CONSTANTS c1, c2, c3, p1, r1, o1, t1, t2
VARIABLE part
\* Three calls on the gate, one eviction, leases of two ticks.
MCCalls == {c1, c2, c3}
\* One placement, and another order from the broker's own app.
OnePlacement == {p1}
OneReconcile == {r1}
OneOutside == {o1}
OwnTickets == [m \in {p1, o1} |-> IF m = p1 THEN t1 ELSE t2]
MCInit == part \in {"gate", "quarantine"} /\ Init /\ OrderInit
MCNext ==
  /\ UNCHANGED part
  /\ \/ part = "gate" /\ Next /\ UNCHANGED orderVars
     \/ part = "quarantine" /\ OrderNext /\ UNCHANGED vars
\* Fairness and OrderFairness, each of its own part.
AtGate(A) == part = "gate" /\ A
InQuarantine(A) == part = "quarantine" /\ A
MCSpec ==
  /\ MCInit /\ [][MCNext]_<<part, vars, orderVars>>
  /\ WF_vars(AtGate(Tick)) /\ WF_vars(AtGate(\E t \in timers : TimerFires(t)))
  /\ \A c \in Calls : /\ WF_vars(AtGate(ExpireMutation(c))) /\ WF_vars(AtGate(RearmTimer(c)))
                      /\ WF_vars(AtGate(AcquireMutation(c)))
  /\ WF_orderVars(InQuarantine(OrderTick))
  /\ WF_orderVars(InQuarantine(\E u \in unlisted : OrderAppears(u)))
  /\ \A p \in Placements : WF_orderVars(InQuarantine(PlacementStep(p) /\ stage[p] # "idle"))
  /\ \A r \in Reconciles : /\ WF_orderVars(InQuarantine(ReconcileStep(r)))
                           /\ SF_orderVars(InQuarantine(StartReconcile(r)))
==============================================================================
