----------------------------- MODULE OrderProofs -----------------------------
(***************************************************************************)
(* For any number of placements, reconciles and orders, and any times that *)
(* keep the two relations the code's constants are chosen for: an order the*)
(* broker accepted is never forgotten, a row is settled once and on its own*)
(* order, one submission of the account at most is in doubt, and a request *)
(* leaves under the lease it was guarded by.                               *)
(*                                                                         *)
(* The argument follows a submission by the clock.  Its request cannot be  *)
(* received after its deadline, its order is in history one Lag later, and *)
(* absence is final only after both, so whoever concludes absence has seen *)
(* the order if there is one (ReconcileInv).  The lease carries no weight  *)
(* there; the claim does, because it keeps one row in doubt at a time.     *)
(*                                                                         *)
(* Then, for any tickets, chains and positions: what is sent, stored and   *)
(* believed of an order stays what its member meant (OrderIntent).         *)
(***************************************************************************)
EXTENDS OrderPlacement, OrderIntent, FiniteSetTheorems, TLAPS

(***************************************************************************)
(* The inductive invariant                                                 *)
(***************************************************************************)

\* A lease on record that this caller holds past an instant.
HeldPast(c, t) == hold # NoHold /\ hold.token = c /\ hold.expiresAt > t

BeforeClaim == {"idle", "preparing", "dryRun", "arming", "claiming"}

\* The lease outlasts the deadline of what it was renewed for.
PlacementHolds(p) ==
  /\ stage[p] = "arming" => moment <= deadline[p] /\ HeldPast(p, deadline[p] + Budget)
  /\ stage[p] \in {"claiming", "claimed", "sent"} =>
       /\ Budget <= deadline[p] /\ deadline[p] - Budget <= moment
       /\ moment <= deadline[p] => HeldPast(p, deadline[p])

\* Nothing exists before the claim, and until its request leaves or the deadline passes the
\* claim stands with no order.
PlacementClaims(p) ==
  /\ stage[p] \in BeforeClaim => rows[p] = NoRow
  /\ stage[p] \in {"claimed", "sent"} => rows[p] # NoRow /\ rows[p].submittedAt = deadline[p] - Budget
  /\ stage[p] = "claimed" =>
       orders[p] = NoOrder /\ ~InFlight(p) /\ (moment <= deadline[p] => p \in Unresolved)

\* An answer is the broker's last word on the request it answers.
PlacementHears(p) ==
  /\ stage[p] \notin {"sent", "accepted", "refused"} => answer[p] = "none"
  /\ answer[p] # "none" => ~InFlight(p)
  /\ answer[p] = "accepted" => Live(p)
  /\ answer[p] \in {"rejected", "refused"} => ~Live(p)
  /\ stage[p] = "accepted" => answer[p] = "accepted"
  /\ stage[p] = "refused" => answer[p] \in {"rejected", "refused"}

PlacementInv(p) == PlacementHolds(p) /\ PlacementClaims(p) /\ PlacementHears(p)

\* One row at a time is in doubt, and what is settled is settled truly.
RowsInv ==
  /\ \A p, q \in Unresolved : p = q
  /\ \A p \in Placements : rows[p] # NoRow =>
       rows[p].submittedAt <= moment /\ (rows[p].status # "executed" => rows[p].orderId = NoOrder)
  /\ EveryOrderAccounted /\ SettledOnOwnOrder

\* A request that may still be received has its claim, and no order yet.
WireInv ==
  \A m \in wire :
    /\ m.from \in Unresolved /\ orders[m.from] = NoOrder
    /\ m.until = rows[m.from].submittedAt + Budget /\ moment <= m.until

\* The broker has an order of ours within the window of its row, and shows it soon.
InTime(p) ==
  IF orders[p].received # NoTime
  THEN /\ rows[p].submittedAt - Skew <= orders[p].received
       /\ orders[p].received <= rows[p].submittedAt + Budget + Skew
  ELSE orders[p].updated >= rows[p].submittedAt
BrokerInv ==
  /\ \A p \in Placements : orders[p] # NoOrder => rows[p] # NoRow /\ InTime(p)
  /\ \A u \in unlisted :
       /\ moment <= u.until
       /\ u.order \in Placements =>
            rows[u.order] # NoRow /\ u.until <= rows[u.order].submittedAt + Budget + Lag

\* What a reconcile has read: only orders that stand, the row's own among them once absence
\* would be final, and at the end no other while the row is in doubt.
ReconcileInv(r) ==
  LET p == snap[r].row IN
  /\ snap[r].now <= moment
  /\ stage[r] \in {"history", "owned", "concluding"} => p \in Placements /\ rows[p] # NoRow
  /\ stage[r] \in {"owned", "concluding"} =>
       /\ \A o \in snap[r].matches : o \in Placements /\ Live(o)
       /\ snap[r].complete /\ Final(snap[r]) /\ p \in Unresolved /\ Live(p) => p \in snap[r].matches
  /\ stage[r] = "concluding" /\ p \in Unresolved => snap[r].matches \subseteq {p}

OrderIInv ==
  /\ OrderTypeOK
  /\ \A p \in Placements : PlacementInv(p)
  /\ RowsInv /\ WireInv /\ BrokerInv
  /\ \A r \in Reconciles : ReconcileInv(r)

(***************************************************************************)
(* Operators                                                               *)
(***************************************************************************)

\* A settled row is the row as it was, with its fate.
LEMMA SettledRow ==
  ASSUME rows \in [Placements -> Row], NEW p \in Unresolved, NEW status \in {"executed", "failed"},
         NEW id \in Makers \cup {NoOrder}
  PROVE  LET new == Settled(p, status, id) IN
         /\ new \in [Placements -> Row] /\ new[p] # NoRow
         /\ new[p].status = status /\ new[p].orderId = id /\ new[p].submittedAt = rows[p].submittedAt
         /\ \A q \in Placements \ {p} : new[q] = rows[q]
<1> DEFINE half == [rows EXCEPT ![p].status = status]
           new == Settled(p, status, id)
<1>1. p \in Placements /\ rows[p] # NoRow /\ rows[p] \in Row
  BY DEF Unresolved, StatusOf
<1>2. /\ half \in [Placements -> Row] /\ half[p].status = status /\ half[p] # NoRow
      /\ half[p].submittedAt = rows[p].submittedAt /\ \A q \in Placements \ {p} : half[q] = rows[q]
  BY <1>1, NullAssumption DEF Row
<1>3. new = [half EXCEPT ![p].orderId = id]
  BY DEF Settled
<1> HIDE DEF half, new
<1>4. /\ new \in [Placements -> Row] /\ new[p].status = half[p].status /\ new[p].orderId = id
      /\ new[p] # NoRow /\ new[p].submittedAt = half[p].submittedAt
      /\ \A q \in Placements \ {p} : new[q] = half[q]
  BY <1>1, <1>2, <1>3, NullAssumption DEF Row
<1> QED
  BY <1>2, <1>4 DEF new

\* What a step may do to the lease: no caller but its own loses one in force.
HoldKept(c) ==
  /\ hold' \in [token : Callers, expiresAt : Nat] \cup {NoHold}
  /\ \A q \in Placements \ {c}, t \in Nat : moment <= t /\ HeldPast(q, t) => HeldPast(q, t)'

LEMMA HoldUnchanged ==
  ASSUME OrderTypeOK, NEW c, UNCHANGED hold
  PROVE  HoldKept(c)
BY DEF OrderTypeOK, HoldKept, HeldPast

LEMMA HoldAcquired ==
  ASSUME OrderTypeOK, NEW c \in Callers, ~Gate!InForce, hold' = Gate!Lasting(c)
  PROVE  HoldKept(c)
BY TimeAssumption DEF OrderTypeOK, HoldKept, HeldPast, Gate!InForce, Gate!Lasting

LEMMA HoldRenewed ==
  ASSUME OrderTypeOK, NEW c \in Callers, HoldsLease(c), hold' = Gate!Lasting(c)
  PROVE  HoldKept(c)
BY TimeAssumption DEF OrderTypeOK, HoldKept, HeldPast, HoldsLease, Gate!Lasting

LEMMA HoldReleased ==
  ASSUME OrderTypeOK, NEW c, hold' = IF hold # NoHold /\ hold.token = c THEN NoHold ELSE hold
  PROVE  HoldKept(c)
BY DEF OrderTypeOK, HoldKept, HeldPast

(***************************************************************************)
(* What every step shares                                                  *)
(***************************************************************************)

LEMMA OrderInitially == OrderInit => OrderIInv
<1> SUFFICES ASSUME OrderInit PROVE OrderIInv
  OBVIOUS
<1> USE DEF OrderInit
<1>1. OrderTypeOK
  BY TimeAssumption, CallerAssumption
     DEF OrderTypeOK, Callers, PlacementSteps, ReconcileSteps, Row, Order, Snapshot, NoSnapshot, Makers
<1>2. ASSUME NEW p \in Placements PROVE PlacementInv(p)
  BY DEF PlacementInv, PlacementHolds, PlacementClaims, PlacementHears, BeforeClaim, Callers, InFlight
<1>3. RowsInv /\ WireInv /\ BrokerInv
  BY DEF RowsInv, WireInv, BrokerInv, Unresolved, StatusOf, EveryOrderAccounted, SettledOnOwnOrder,
         Live, Makers
<1>4. ASSUME NEW r \in Reconciles PROVE ReconcileInv(r)
  BY DEF ReconcileInv, NoSnapshot, Callers
<1> QED
  BY <1>1, <1>2, <1>3, <1>4 DEF OrderIInv

\* A placement that takes a step of its own disturbs nobody else.
LEMMA PlacementMoves ==
  ASSUME OrderIInv, NEW p \in Placements, NEW to \in PlacementSteps, GoTo(p, to),
         UNCHANGED <<moment, rows, wire, orders, unlisted, snap>>,
         deadline' \in [Placements -> Nat],
         answer' \in [Placements -> {"none", "accepted", "rejected", "refused"}],
         \A q \in Placements \ {p} : deadline'[q] = deadline[q] /\ answer'[q] = answer[q],
         HoldKept(p), PlacementInv(p)'
  PROVE  OrderIInv'
<1>1. stage' \in [Callers -> PlacementSteps \cup ReconcileSteps] /\ stage'[p] = to
      /\ \A c \in Callers \ {p} : stage'[c] = stage[c]
  BY DEF OrderIInv, OrderTypeOK, GoTo, Callers
<1>2. OrderTypeOK'
  BY <1>1, CallerAssumption DEF OrderIInv, OrderTypeOK, HoldKept, Callers
<1>3. ASSUME NEW q \in Placements \ {p} PROVE PlacementInv(q)'
  <2>1. PlacementInv(q) /\ stage'[q] = stage[q] /\ deadline'[q] = deadline[q] /\ answer'[q] = answer[q]
    BY <1>1 DEF OrderIInv, Callers
  <2>2. deadline[q] \in Nat /\ deadline[q] + Budget \in Nat /\ moment \in Nat /\ Budget \in Nat
    BY TimeAssumption DEF OrderIInv, OrderTypeOK
  <2>3. PlacementHolds(q)'
    BY <2>1, <2>2 DEF PlacementInv, PlacementHolds, HoldKept
  <2>4. PlacementClaims(q)'
    BY <2>1 DEF PlacementInv, PlacementClaims, InFlight, Unresolved, StatusOf
  <2>5. PlacementHears(q)'
    BY <2>1 DEF PlacementInv, PlacementHears, InFlight, Live
  <2> QED
    BY <2>3, <2>4, <2>5 DEF PlacementInv
<1>4. RowsInv' /\ WireInv' /\ BrokerInv'
  BY DEF OrderIInv, RowsInv, WireInv, BrokerInv, InTime, Unresolved, StatusOf, EveryOrderAccounted,
         SettledOnOwnOrder, Live
<1>5. ASSUME NEW r \in Reconciles PROVE ReconcileInv(r)'
  <2>1. ReconcileInv(r) /\ stage'[r] = stage[r]
    BY <1>1, CallerAssumption DEF OrderIInv, Callers
  <2> QED
    BY <2>1 DEF ReconcileInv, Live, Final, Unresolved, StatusOf
<1> QED
  BY <1>2, <1>3, <1>4, <1>5 DEF OrderIInv

\* Nor does a reconcile that reads.
LEMMA ReconcileMoves ==
  ASSUME OrderIInv, NEW r \in Reconciles, NEW to \in ReconcileSteps, GoTo(r, to),
         UNCHANGED <<moment, deadline, rows, brokerVars>>,
         snap' \in [Reconciles -> Snapshot], \A s \in Reconciles \ {r} : snap'[s] = snap[s],
         HoldKept(r), ReconcileInv(r)'
  PROVE  OrderIInv'
<1> USE DEF brokerVars
<1>1. stage' \in [Callers -> PlacementSteps \cup ReconcileSteps] /\ stage'[r] = to
      /\ \A c \in Callers \ {r} : stage'[c] = stage[c]
  BY DEF OrderIInv, OrderTypeOK, GoTo, Callers
<1>2. OrderTypeOK'
  BY <1>1, CallerAssumption DEF OrderIInv, OrderTypeOK, HoldKept, Callers
<1>3. ASSUME NEW q \in Placements PROVE PlacementInv(q)'
  <2>1. PlacementInv(q) /\ stage'[q] = stage[q] /\ q # r
    BY <1>1, CallerAssumption DEF OrderIInv, Callers
  <2>2. deadline[q] \in Nat /\ deadline[q] + Budget \in Nat /\ moment \in Nat /\ Budget \in Nat
    BY TimeAssumption DEF OrderIInv, OrderTypeOK
  <2>3. PlacementHolds(q)'
    BY <2>1, <2>2 DEF PlacementInv, PlacementHolds, HoldKept
  <2>4. PlacementClaims(q)'
    BY <2>1 DEF PlacementInv, PlacementClaims, InFlight, Unresolved, StatusOf
  <2>5. PlacementHears(q)'
    BY <2>1 DEF PlacementInv, PlacementHears, InFlight, Live
  <2> QED
    BY <2>3, <2>4, <2>5 DEF PlacementInv
<1>4. RowsInv' /\ WireInv' /\ BrokerInv'
  BY DEF OrderIInv, RowsInv, WireInv, BrokerInv, InTime, Unresolved, StatusOf, EveryOrderAccounted,
         SettledOnOwnOrder, Live
<1>5. ASSUME NEW s \in Reconciles \ {r} PROVE ReconcileInv(s)'
  <2>1. ReconcileInv(s) /\ stage'[s] = stage[s]
    BY <1>1 DEF OrderIInv, Callers
  <2> QED
    BY <2>1 DEF ReconcileInv, Live, Final, Unresolved, StatusOf
<1> QED
  BY <1>2, <1>3, <1>4, <1>5 DEF OrderIInv

\* What a reconcile has read stands while rows are claimed and settled, orders are made in
\* time for their rows, and time passes.
RowsGrow ==
  \A q \in Placements :
    /\ rows[q] # NoRow => rows'[q] # NoRow /\ rows'[q].submittedAt = rows[q].submittedAt
    /\ q \in Unresolved' => q \in Unresolved \/ rows[q] = NoRow

LEMMA ReadingStands ==
  ASSUME OrderIInv, NEW r \in Reconciles, stage'[r] = stage[r], snap'[r] = snap[r],
         moment' \in Nat, moment <= moment', RowsGrow,
         \A o \in Placements : Live(o) => Live(o)',
         \A q \in Placements : rows[q] # NoRow /\ Live(q)' /\ ~Live(q) =>
                                 moment <= rows[q].submittedAt + Budget
  PROVE  ReconcileInv(r)'
<1> DEFINE p == snap[r].row
<1>1. ReconcileInv(r) /\ snap[r] \in Snapshot /\ moment \in Nat
  BY DEF OrderIInv, OrderTypeOK
<1>2. CASE stage[r] \notin {"history", "owned", "concluding"}
  BY <1>1, <1>2 DEF ReconcileInv, Snapshot
<1>3. CASE stage[r] \in {"history", "owned", "concluding"}
  <2>1. /\ p \in Placements /\ rows[p] # NoRow /\ rows'[p] # NoRow
        /\ rows'[p].submittedAt = rows[p].submittedAt /\ (p \in Unresolved' => p \in Unresolved)
        /\ snap[r].now \in Nat /\ snap[r].now <= moment /\ snap[r].now <= moment'
        /\ rows[p].submittedAt \in Nat
    BY <1>1, <1>3 DEF ReconcileInv, RowsGrow, Snapshot, OrderIInv, OrderTypeOK, Row
  <2>2. Final(snap[r])' <=> Final(snap[r])
    BY <2>1 DEF Final
  <2>3. Final(snap[r]) /\ Live(p)' => Live(p)
    <3>1. Budget \in Nat /\ Lag \in Nat /\ Absence \in Nat /\ Budget + Lag < Absence
      BY TimeAssumption
    <3>2. Final(snap[r]) => ~(moment <= rows[p].submittedAt + Budget)
      BY <1>1, <2>1, <3>1 DEF Final
    <3> QED
      BY <2>1, <3>2
  <2> QED
    BY <1>1, <2>1, <2>2, <2>3 DEF ReconcileInv
<1> QED
  BY <1>2, <1>3

(***************************************************************************)
(* Placements                                                              *)
(***************************************************************************)

\* Whatever ends a placement ends it with its answer unheard.
LEMMA EndsKeep ==
  ASSUME OrderIInv, NEW p \in Placements, NEW to \in {"leaving", "done"}, GoTo(p, to),
         UNCHANGED <<moment, rows, wire, orders, unlisted, snap>>,
         deadline' \in [Placements -> Nat],
         answer' \in [Placements -> {"none", "accepted", "rejected", "refused"}], answer'[p] = "none",
         \A q \in Placements \ {p} : deadline'[q] = deadline[q] /\ answer'[q] = answer[q],
         HoldKept(p)
  PROVE  OrderIInv'
<1>1. stage'[p] = to /\ to \in PlacementSteps
  BY DEF OrderIInv, OrderTypeOK, GoTo, Callers, PlacementSteps
<1>2. PlacementInv(p)'
  BY <1>1 DEF PlacementInv, PlacementHolds, PlacementClaims, PlacementHears, BeforeClaim
<1> QED
  BY <1>1, <1>2, PlacementMoves

LEMMA LeavesKeep ==
  ASSUME OrderIInv, NEW p \in Placements, Leave(p),
         UNCHANGED <<moment, hold, rows, wire, orders, unlisted, snap>>
  PROVE  OrderIInv'
<1>1. /\ deadline' \in [Placements -> Nat] /\ answer'[p] = "none"
      /\ answer' \in [Placements -> {"none", "accepted", "rejected", "refused"}]
      /\ \A q \in Placements \ {p} : deadline'[q] = deadline[q] /\ answer'[q] = answer[q]
  BY DEF Leave, OrderIInv, OrderTypeOK
<1>2. HoldKept(p)
  BY HoldUnchanged DEF OrderIInv
<1> QED
  BY <1>1, <1>2, EndsKeep DEF Leave

LEMMA DiesKeeps ==
  ASSUME OrderIInv, NEW p \in Placements, PlacementDies(p)
  PROVE  OrderIInv'
<1>1. /\ deadline' \in [Placements -> Nat] /\ answer'[p] = "none"
      /\ answer' \in [Placements -> {"none", "accepted", "rejected", "refused"}]
      /\ \A q \in Placements \ {p} : deadline'[q] = deadline[q] /\ answer'[q] = answer[q]
  BY DEF PlacementDies, OrderIInv, OrderTypeOK
<1>2. HoldKept(p)
  BY HoldUnchanged DEF OrderIInv, PlacementDies
<1> QED
  BY <1>1, <1>2, EndsKeep DEF PlacementDies

LEMMA EndPlacementKeeps ==
  ASSUME OrderIInv, NEW p \in Placements, EndPlacement(p)
  PROVE  OrderIInv'
<1> USE DEF EndPlacement, ReleaseLease, brokerVars
<1>1. HoldKept(p)
  BY HoldReleased DEF OrderIInv
<1>2. /\ deadline' \in [Placements -> Nat] /\ answer'[p] = "none"
      /\ answer' \in [Placements -> {"none", "accepted", "rejected", "refused"}]
      /\ \A q \in Placements \ {p} : deadline'[q] = deadline[q] /\ answer'[q] = answer[q]
  BY DEF OrderIInv, OrderTypeOK, PlacementInv, PlacementHears
<1> QED
  BY <1>1, <1>2, EndsKeep

LEMMA StartKeeps ==
  ASSUME OrderIInv, NEW p \in Placements, StartPlacement(p)
  PROVE  OrderIInv'
<1> USE DEF StartPlacement, AcquireLease, brokerVars
<1>1. HoldKept(p)
  BY HoldAcquired DEF OrderIInv, Callers
<1>2. stage'[p] = "preparing" /\ "preparing" \in PlacementSteps
  BY DEF OrderIInv, OrderTypeOK, GoTo, Callers, PlacementSteps
<1>3. PlacementInv(p) /\ stage[p] = "idle"
  BY DEF OrderIInv
<1>4. PlacementInv(p)'
  BY <1>2, <1>3 DEF PlacementInv, PlacementHolds, PlacementClaims, PlacementHears, BeforeClaim
<1>5. deadline \in [Placements -> Nat] /\ answer \in [Placements -> {"none", "accepted", "rejected", "refused"}]
  BY DEF OrderIInv, OrderTypeOK
<1> QED
  BY <1>1, <1>2, <1>4, <1>5, PlacementMoves

LEMMA RenewKeeps ==
  ASSUME OrderIInv, NEW p \in Placements, Renew(p)
  PROVE  OrderIInv'
<1> USE DEF Renew, brokerVars
<1>1. HoldKept(p)
  BY HoldRenewed DEF OrderIInv, Callers
<1>2. PlacementInv(p) /\ stage[p] \in {"preparing", "dryRun"}
  BY DEF OrderIInv
<1>3. /\ moment \in Nat /\ ReplyDelay \in Nat /\ Budget \in Nat /\ HoldMs \in Nat
      /\ ReplyDelay + Budget < HoldMs
  BY TimeAssumption DEF OrderIInv, OrderTypeOK
<1>4. HeldPast(p, moment + ReplyDelay + Budget)'
  <2>1. hold' = [token |-> p, expiresAt |-> moment + HoldMs] /\ moment' = moment
    BY DEF Gate!Lasting
  <2>2. hold' # NoHold
    BY <2>1, <1>1, <1>3, NullAssumption DEF Callers
  <2> QED
    BY <1>3, <2>1, <2>2 DEF HeldPast
<1>5. answer \in [Placements -> {"none", "accepted", "rejected", "refused"}] /\ deadline \in [Placements -> Nat]
  BY DEF OrderIInv, OrderTypeOK
<1>6. CASE stage[p] = "preparing"
  <2>1. stage'[p] = "dryRun" /\ "dryRun" \in PlacementSteps
    BY <1>6 DEF OrderIInv, OrderTypeOK, GoTo, Callers, PlacementSteps
  <2>2. PlacementInv(p)'
    BY <1>2, <2>1 DEF PlacementInv, PlacementHolds, PlacementClaims, PlacementHears, BeforeClaim
  <2> QED
    BY <1>1, <1>5, <1>6, <2>1, <2>2, PlacementMoves
<1>7. CASE stage[p] = "dryRun"
  <2>1. stage'[p] = "arming" /\ "arming" \in PlacementSteps
    BY <1>7 DEF OrderIInv, OrderTypeOK, GoTo, Callers, PlacementSteps
  <2>2. /\ deadline' \in [Placements -> Nat] /\ deadline'[p] = moment + ReplyDelay
        /\ \A q \in Placements \ {p} : deadline'[q] = deadline[q]
    BY <1>3, <1>5, <1>7
  <2>3. PlacementHolds(p)'
    BY <1>3, <1>4, <2>1, <2>2 DEF PlacementHolds
  <2>4. PlacementClaims(p)' /\ PlacementHears(p)'
    BY <1>2, <2>1 DEF PlacementInv, PlacementClaims, PlacementHears, BeforeClaim
  <2> QED
    BY <1>1, <1>5, <1>7, <2>1, <2>2, <2>3, <2>4, PlacementMoves DEF PlacementInv
<1> QED
  BY <1>2, <1>6, <1>7

LEMMA ArmKeeps ==
  ASSUME OrderIInv, NEW p \in Placements, ArmDeadline(p)
  PROVE  OrderIInv'
<1> USE DEF ArmDeadline, brokerVars
<1>1. HoldKept(p)
  BY HoldUnchanged DEF OrderIInv
<1>2. PlacementInv(p) /\ stage[p] = "arming"
  BY DEF OrderIInv
<1>3. moment \in Nat /\ Budget \in Nat /\ deadline \in [Placements -> Nat]
  BY TimeAssumption DEF OrderIInv, OrderTypeOK
<1>4. stage'[p] = "claiming" /\ "claiming" \in PlacementSteps
  BY DEF OrderIInv, OrderTypeOK, GoTo, Callers, PlacementSteps
<1>5. /\ deadline' \in [Placements -> Nat] /\ deadline'[p] = moment + Budget
      /\ \A q \in Placements \ {p} : deadline'[q] = deadline[q]
  BY <1>3
<1>6. PlacementHolds(p)'
  <2>1. moment <= deadline[p] /\ HeldPast(p, deadline[p] + Budget) /\ deadline[p] \in Nat
    BY <1>2, <1>3 DEF PlacementInv, PlacementHolds
  <2>2. hold = NoHold \/ hold.expiresAt \in Nat
    BY DEF OrderIInv, OrderTypeOK
  <2>3. HeldPast(p, moment + Budget)'
    BY <1>3, <2>1, <2>2 DEF HeldPast
  <2> QED
    BY <1>3, <1>4, <1>5, <2>3 DEF PlacementHolds
<1>7. PlacementClaims(p)' /\ PlacementHears(p)'
  BY <1>2, <1>4 DEF PlacementInv, PlacementClaims, PlacementHears, BeforeClaim
<1>8. answer \in [Placements -> {"none", "accepted", "rejected", "refused"}]
  BY DEF OrderIInv, OrderTypeOK
<1> QED
  BY <1>1, <1>4, <1>5, <1>6, <1>7, <1>8, PlacementMoves DEF PlacementInv

LEMMA AnswerKeeps ==
  ASSUME OrderIInv, NEW p \in Placements, AnswerArrives(p)
  PROVE  OrderIInv'
<1> USE DEF AnswerArrives, brokerVars
<1> DEFINE to == IF answer[p] = "accepted" THEN "accepted" ELSE "refused"
<1>1. HoldKept(p)
  BY HoldUnchanged DEF OrderIInv
<1>2. /\ answer \in [Placements -> {"none", "accepted", "rejected", "refused"}]
      /\ deadline \in [Placements -> Nat] /\ PlacementInv(p)
  BY DEF OrderIInv, OrderTypeOK
<1>3. stage'[p] = to /\ to \in PlacementSteps
  BY DEF OrderIInv, OrderTypeOK, GoTo, Callers, PlacementSteps
<1>4. PlacementInv(p)'
  <2>1. PlacementHolds(p)' /\ PlacementClaims(p)'
    BY <1>3 DEF PlacementHolds, PlacementClaims, BeforeClaim
  <2>2. PlacementHears(p)'
    BY <1>2, <1>3 DEF PlacementInv, PlacementHears, Live, InFlight
  <2> QED
    BY <2>1, <2>2 DEF PlacementInv
<1> QED
  BY <1>1, <1>2, <1>3, <1>4, PlacementMoves

(***************************************************************************)
(* Rows: the claim and the settles                                         *)
(***************************************************************************)

LEMMA ClaimKeeps ==
  ASSUME OrderIInv, NEW p \in Placements, ClaimSubmission(p)
  PROVE  OrderIInv'
<1> USE DEF ClaimSubmission
<1>1. /\ stage[p] = "claiming" /\ rows[p] = NoRow /\ orders[p] = NoOrder /\ wire = {} /\ Unresolved = {}
      /\ Budget <= deadline[p] /\ deadline[p] - Budget <= moment /\ PlacementInv(p)
  BY DEF OrderIInv, PlacementInv, PlacementClaims, PlacementHolds, BeforeClaim, WireInv, BrokerInv
<1>2. deadline[p] \in Nat /\ Budget \in Nat /\ moment \in Nat /\ deadline[p] - Budget \in Nat
  BY <1>1, TimeAssumption DEF OrderIInv, OrderTypeOK
<1>3. /\ rows' \in [Placements -> Row] /\ rows'[p] # NoRow
      /\ rows'[p].status = "unresolved" /\ rows'[p].orderId = NoOrder
      /\ rows'[p].submittedAt = deadline[p] - Budget
      /\ \A q \in Placements \ {p} : rows'[q] = rows[q]
  BY <1>1, <1>2, NullAssumption DEF Claimed, OrderIInv, OrderTypeOK, Row
<1>4. Unresolved' = {p} /\ \A q \in Placements \ {p} : StatusOf(q)' = StatusOf(q)
  BY <1>1, <1>3 DEF Unresolved, StatusOf
<1>5. PICK to \in {"claimed", "leaving"} :
        /\ stage' = [stage EXCEPT ![p] = to]
        /\ \/ to = "claimed" /\ UNCHANGED <<deadline, answer>>
           \/ to = "leaving" /\ deadline' = [deadline EXCEPT ![p] = 0] /\ answer' = [answer EXCEPT ![p] = "none"]
  BY DEF GoTo, Leave
<1>6. /\ stage'[p] = to /\ \A c \in Callers \ {p} : stage'[c] = stage[c]
      /\ stage' \in [Callers -> PlacementSteps \cup ReconcileSteps] /\ to \in PlacementSteps
  BY <1>5 DEF OrderIInv, OrderTypeOK, Callers, PlacementSteps
<1>7. /\ deadline' \in [Placements -> Nat]
      /\ answer' \in [Placements -> {"none", "accepted", "rejected", "refused"}]
      /\ \A q \in Placements \ {p} : deadline'[q] = deadline[q] /\ answer'[q] = answer[q]
      /\ to = "claimed" => deadline'[p] = deadline[p]
      /\ answer'[p] = "none"
  BY <1>1, <1>5 DEF OrderIInv, OrderTypeOK, PlacementInv, PlacementHears
<1>8. OrderTypeOK'
  <2>1. /\ \A q \in Placements : stage'[q] \in PlacementSteps
        /\ \A r \in Reconciles : stage'[r] \in ReconcileSteps
    BY <1>6, CallerAssumption DEF OrderIInv, OrderTypeOK, Callers
  <2> QED
    BY <1>3, <1>6, <1>7, <2>1 DEF OrderIInv, OrderTypeOK
<1>9. PlacementInv(p)'
  <2>1. ~InFlight(p)'
    BY <1>1 DEF InFlight
  <2>2. PlacementHolds(p)'
    BY <1>1, <1>5, <1>6, <1>7 DEF PlacementInv, PlacementHolds, HeldPast
  <2>3. PlacementClaims(p)'
    BY <1>1, <1>3, <1>4, <1>5, <1>6, <1>7, <2>1 DEF PlacementClaims, BeforeClaim
  <2>4. PlacementHears(p)'
    BY <1>5, <1>6, <1>7 DEF PlacementHears
  <2> QED
    BY <2>2, <2>3, <2>4 DEF PlacementInv
<1>10. ASSUME NEW q \in Placements \ {p} PROVE PlacementInv(q)'
  <2>1. PlacementInv(q) /\ stage'[q] = stage[q] /\ deadline'[q] = deadline[q] /\ answer'[q] = answer[q]
        /\ rows'[q] = rows[q]
    BY <1>3, <1>6, <1>7 DEF OrderIInv, Callers
  <2>2. PlacementHolds(q)' /\ PlacementHears(q)'
    BY <2>1 DEF PlacementInv, PlacementHolds, PlacementHears, HeldPast, InFlight, Live
  <2>3. PlacementClaims(q)'
    BY <2>1, <1>4 DEF PlacementInv, PlacementClaims, InFlight, Unresolved
  <2> QED
    BY <2>2, <2>3 DEF PlacementInv
<1>11. RowsInv'
  <2>1. EveryOrderAccounted' /\ SettledOnOwnOrder'
    BY <1>3, <1>4 DEF OrderIInv, RowsInv, EveryOrderAccounted, SettledOnOwnOrder, StatusOf, Live
  <2> QED
    BY <1>1, <1>3, <1>4, <2>1 DEF OrderIInv, RowsInv
<1>12. WireInv' /\ BrokerInv'
  BY <1>1, <1>3 DEF OrderIInv, WireInv, BrokerInv, InTime
<1>13. ASSUME NEW r \in Reconciles PROVE ReconcileInv(r)'
  <2>1. stage'[r] = stage[r]
    BY <1>6, CallerAssumption DEF Callers
  <2>2. RowsGrow
    BY <1>1, <1>3, <1>4 DEF RowsGrow
  <2> QED
    BY <1>2, <2>1, <2>2, ReadingStands DEF Live
<1> QED
  BY <1>8, <1>9, <1>10, <1>11, <1>12, <1>13 DEF OrderIInv

\* A settle that says what became of the order, once nothing more can.
LEMMA SettleStands ==
  ASSUME OrderIInv, NEW p \in Placements, NEW status, NEW id,
         rows' = Settled(p, status, id), UNCHANGED <<moment, wire, orders, unlisted>>,
         p \in Unresolved =>
           /\ ~InFlight(p)
           /\ stage[p] = "claimed" => deadline[p] < moment
           /\ \/ status = "executed" /\ id = p /\ Live(p)
              \/ status = "failed" /\ id = NoOrder /\ ~Live(p)
  PROVE  /\ rows' \in [Placements -> Row] /\ RowsGrow /\ RowsInv' /\ WireInv' /\ BrokerInv'
         /\ \A q \in Placements : rows[q] # NoRow =>
              rows'[q] # NoRow /\ rows'[q].submittedAt = rows[q].submittedAt
         /\ \A q \in Placements : rows[q] = NoRow => rows'[q] = NoRow
         /\ \A q \in Placements : q \in Unresolved =>
              q \in Unresolved' \/ (q = p /\ (stage[p] = "claimed" => deadline[p] < moment))
<1>1. CASE p \notin Unresolved
  <2>1. rows' = rows
    BY <1>1 DEF Settled
  <2>2. Unresolved' = Unresolved
    BY <2>1 DEF Unresolved, StatusOf
  <2>3. RowsInv' /\ WireInv' /\ BrokerInv'
    BY <2>1, <2>2 DEF OrderIInv, RowsInv, WireInv, BrokerInv, InTime, EveryOrderAccounted,
                      SettledOnOwnOrder, StatusOf, Live
  <2> QED
    BY <2>1, <2>2, <2>3 DEF OrderIInv, OrderTypeOK, RowsGrow
<1>2. CASE p \in Unresolved
  <2>1. /\ rows' \in [Placements -> Row] /\ rows'[p] # NoRow
        /\ rows'[p].status = status /\ rows'[p].orderId = id
        /\ rows'[p].submittedAt = rows[p].submittedAt
        /\ \A q \in Placements \ {p} : rows'[q] = rows[q]
    BY <1>2, SettledRow DEF OrderIInv, OrderTypeOK, Makers
  <2>2. Unresolved' = Unresolved \ {p} /\ rows[p] # NoRow
    BY <1>2, <2>1 DEF Unresolved, StatusOf
  <2>3. RowsInv'
    <3>1. EveryOrderAccounted' /\ SettledOnOwnOrder'
      BY <1>2, <2>1 DEF OrderIInv, RowsInv, EveryOrderAccounted, SettledOnOwnOrder, StatusOf, Live
    <3> QED
      BY <1>2, <2>1, <2>2, <3>1 DEF OrderIInv, RowsInv
  <2>4. \A q \in Placements : rows[q] # NoRow =>
          rows'[q] # NoRow /\ rows'[q].submittedAt = rows[q].submittedAt
    BY <2>1
  <2>5. WireInv'
    <3>1. \A m \in wire : m.from # p /\ m.from \in Placements
      BY <1>2 DEF InFlight, OrderIInv, OrderTypeOK, Request
    <3> QED
      BY <2>1, <2>2, <3>1 DEF OrderIInv, WireInv
  <2>6. BrokerInv'
    BY <2>4 DEF OrderIInv, BrokerInv, InTime
  <2> QED
    BY <1>2, <2>1, <2>2, <2>3, <2>4, <2>5, <2>6 DEF RowsGrow
<1> QED
  BY <1>1, <1>2

LEMMA SettleKeeps ==
  ASSUME OrderIInv, NEW p \in Placements, SettleSubmission(p)
  PROVE  OrderIInv'
<1> USE DEF SettleSubmission
<1>1. PlacementInv(p)
  BY DEF OrderIInv
<1>2. PICK status \in {"executed", "failed"}, id \in {p, NoOrder} :
        /\ rows' = Settled(p, status, id)
        /\ \/ status = "executed" /\ id = p /\ stage[p] = "accepted"
           \/ status = "failed" /\ id = NoOrder /\ stage[p] = "refused"
  OBVIOUS
<1>3. /\ ~InFlight(p) /\ stage[p] # "claimed"
      /\ \/ status = "executed" /\ id = p /\ Live(p)
         \/ status = "failed" /\ id = NoOrder /\ ~Live(p)
  BY <1>1, <1>2 DEF PlacementInv, PlacementHears
<1>4. /\ rows' \in [Placements -> Row] /\ RowsGrow /\ RowsInv' /\ WireInv' /\ BrokerInv'
      /\ \A q \in Placements : rows[q] # NoRow =>
           rows'[q] # NoRow /\ rows'[q].submittedAt = rows[q].submittedAt
      /\ \A q \in Placements : rows[q] = NoRow => rows'[q] = NoRow
      /\ \A q \in Placements : q \in Unresolved => q \in Unresolved' \/ q = p
  BY <1>2, <1>3, SettleStands
<1>5. /\ stage' \in [Callers -> PlacementSteps \cup ReconcileSteps]
      /\ stage'[p] = "leaving" /\ "leaving" \in PlacementSteps
      /\ \A c \in Callers \ {p} : stage'[c] = stage[c]
      /\ deadline' \in [Placements -> Nat] /\ answer'[p] = "none"
      /\ answer' \in [Placements -> {"none", "accepted", "rejected", "refused"}]
      /\ \A q \in Placements \ {p} : deadline'[q] = deadline[q] /\ answer'[q] = answer[q]
  BY DEF Leave, GoTo, OrderIInv, OrderTypeOK, Callers, PlacementSteps
<1>6. OrderTypeOK'
  <2>1. /\ \A q \in Placements : stage'[q] \in PlacementSteps
        /\ \A r \in Reconciles : stage'[r] \in ReconcileSteps
    BY <1>5, CallerAssumption DEF OrderIInv, OrderTypeOK, Callers
  <2> QED
    BY <1>4, <1>5, <2>1 DEF OrderIInv, OrderTypeOK
<1>7. ASSUME NEW q \in Placements PROVE PlacementInv(q)'
  <2>1. CASE q = p
    BY <1>5, <2>1 DEF PlacementInv, PlacementHolds, PlacementClaims, PlacementHears, BeforeClaim
  <2>2. CASE q # p
    <3>1. PlacementInv(q) /\ stage'[q] = stage[q] /\ deadline'[q] = deadline[q] /\ answer'[q] = answer[q]
      BY <1>5, <2>2 DEF OrderIInv, Callers
    <3>2. PlacementHolds(q)' /\ PlacementHears(q)'
      BY <3>1 DEF PlacementInv, PlacementHolds, PlacementHears, HeldPast, InFlight, Live
    <3>3. PlacementClaims(q)'
      BY <1>4, <2>2, <3>1 DEF PlacementInv, PlacementClaims, InFlight
    <3> QED
      BY <3>2, <3>3 DEF PlacementInv
  <2> QED
    BY <2>1, <2>2
<1>8. ASSUME NEW r \in Reconciles PROVE ReconcileInv(r)'
  <2>1. stage'[r] = stage[r] /\ moment \in Nat
    BY <1>5, CallerAssumption DEF Callers, OrderIInv, OrderTypeOK
  <2> QED
    BY <1>4, <2>1, ReadingStands DEF Live
<1> QED
  BY <1>4, <1>6, <1>7, <1>8 DEF OrderIInv

\* What a reconcile concludes is what became of the order: the one match is the row's own,
\* and none, once absence is final, means there is none.
LEMMA ConcludeKeeps ==
  ASSUME OrderIInv, NEW r \in Reconciles, Conclude(r)
  PROVE  OrderIInv'
<1> USE DEF Conclude, brokerVars
<1> DEFINE s == snap[r]
           p == snap[r].row
<1>1. /\ stage[r] = "concluding" /\ ReconcileInv(r) /\ p \in Placements /\ rows[p] # NoRow
      /\ s \in Snapshot /\ moment \in Nat /\ rows[p].submittedAt \in Nat
      /\ \A o \in s.matches : Live(o)
  BY DEF OrderIInv, ReconcileInv, OrderTypeOK, Row
<1>2. \/ UNCHANGED rows
      \/ /\ p \in Unresolved /\ ~InFlight(p) /\ (stage[p] = "claimed" => deadline[p] < moment)
         /\ \/ rows' = Settled(p, "executed", p) /\ Live(p)
            \/ rows' = Settled(p, "failed", NoOrder) /\ ~Live(p)
  <2>1. CASE p \notin Unresolved
    <3>1. \A status, id : Settled(p, status, id) = rows
      BY <2>1 DEF Settled
    <3>2. Conclusion(s) = rows
      BY <3>1 DEF Conclusion
    <3> QED
      BY <3>2
  <2>2. CASE p \in Unresolved /\ s.matches # {}
    <3>1. s.matches = {p}
      BY <1>1, <2>2 DEF ReconcileInv
    <3>2. FirstOf(s.matches) = p /\ Live(p)
      BY <1>1, <3>1 DEF FirstOf
    <3>3. rows' = Settled(p, "executed", p) \/ UNCHANGED rows
      BY <2>2, <3>2 DEF Conclusion, Live
    <3>4. ~InFlight(p) /\ stage[p] # "claimed"
      BY <1>1, <3>2 DEF InFlight, Live, OrderIInv, WireInv, PlacementInv, PlacementClaims
    <3> QED
      BY <2>2, <3>2, <3>3, <3>4
  <2>3. CASE p \in Unresolved /\ s.matches = {}
    <3>1. Cardinality(s.matches) = 0
      BY <2>3, FS_EmptySet
    <3>2. CASE s.complete /\ Final(s)
      <4>1. ~Live(p) /\ rows' = Settled(p, "failed", NoOrder)
        BY <1>1, <2>3, <3>1, <3>2 DEF ReconcileInv, Conclusion
      <4>2. ~(moment <= rows[p].submittedAt + Budget)
        <5>1. s.now \in Nat /\ s.now <= moment /\ s.now - rows[p].submittedAt >= Absence
          BY <1>1, <3>2 DEF ReconcileInv, Final, Snapshot
        <5>2. Budget \in Nat /\ Lag \in Nat /\ Absence \in Nat /\ Budget + Lag < Absence
          BY TimeAssumption
        <5> QED
          BY <1>1, <5>1, <5>2
      <4>3. ~InFlight(p)
        BY <4>2 DEF InFlight, OrderIInv, WireInv
      <4>4. stage[p] = "claimed" => deadline[p] < moment
        <5>1. stage[p] = "claimed" => rows[p].submittedAt = deadline[p] - Budget
          BY <1>1 DEF OrderIInv, PlacementInv, PlacementClaims
        <5>2. deadline[p] \in Nat /\ Budget \in Nat
          BY <1>1, TimeAssumption DEF OrderIInv, OrderTypeOK
        <5> QED
          BY <1>1, <4>2, <5>1, <5>2
      <4> QED
        BY <2>3, <4>1, <4>3, <4>4
    <3>3. CASE ~(s.complete /\ Final(s))
      <4>1. Conclusion(s) = rows
        BY <2>3, <3>1, <3>3 DEF Conclusion
      <4> QED
        BY <4>1
    <3> QED
      BY <3>2, <3>3
  <2> QED
    BY <2>1, <2>2, <2>3
<1>3. /\ rows' \in [Placements -> Row] /\ RowsGrow /\ RowsInv' /\ WireInv' /\ BrokerInv'
      /\ \A q \in Placements : rows[q] # NoRow =>
           rows'[q] # NoRow /\ rows'[q].submittedAt = rows[q].submittedAt
      /\ \A q \in Placements : rows[q] = NoRow => rows'[q] = NoRow
      /\ \A q \in Placements : q \in Unresolved =>
           q \in Unresolved' \/ (stage[q] = "claimed" => deadline[q] < moment)
  <2>1. CASE UNCHANGED rows
    BY <2>1 DEF OrderIInv, OrderTypeOK, RowsGrow, RowsInv, WireInv, BrokerInv, InTime,
                EveryOrderAccounted, SettledOnOwnOrder, StatusOf, Live, Unresolved
  <2>2. CASE ~UNCHANGED rows
    BY <1>1, <1>2, <2>2, SettleStands
  <2> QED
    BY <2>1, <2>2
<1>4. /\ stage' \in [Callers -> PlacementSteps \cup ReconcileSteps]
      /\ stage'[r] = "leaving" /\ "leaving" \in ReconcileSteps
      /\ \A c \in Callers \ {r} : stage'[c] = stage[c]
  BY DEF GoTo, OrderIInv, OrderTypeOK, Callers, ReconcileSteps
<1>5. OrderTypeOK'
  <2>1. /\ \A q \in Placements : stage'[q] \in PlacementSteps
        /\ \A t \in Reconciles : stage'[t] \in ReconcileSteps
    BY <1>4, CallerAssumption DEF OrderIInv, OrderTypeOK, Callers
  <2> QED
    BY <1>3, <1>4, <2>1 DEF OrderIInv, OrderTypeOK
<1>6. ASSUME NEW q \in Placements PROVE PlacementInv(q)'
  <2>1. PlacementInv(q) /\ stage'[q] = stage[q]
    BY <1>4, CallerAssumption DEF OrderIInv, Callers
  <2>2. PlacementHolds(q)' /\ PlacementHears(q)'
    BY <2>1 DEF PlacementInv, PlacementHolds, PlacementHears, HeldPast, InFlight, Live
  <2>3. deadline[q] < moment => ~(moment <= deadline[q])
    BY <1>1 DEF OrderIInv, OrderTypeOK
  <2>4. PlacementClaims(q)'
    BY <1>3, <2>1, <2>3 DEF PlacementInv, PlacementClaims, InFlight
  <2> QED
    BY <2>2, <2>4 DEF PlacementInv
<1>7. ASSUME NEW t \in Reconciles PROVE ReconcileInv(t)'
  <2>1. CASE t = r
    BY <1>1, <1>4, <2>1 DEF ReconcileInv
  <2>2. CASE t # r
    <3>1. stage'[t] = stage[t]
      BY <1>4, <2>2 DEF Callers
    <3> QED
      BY <1>1, <1>3, <3>1, ReadingStands DEF Live
  <2> QED
    BY <2>1, <2>2
<1> QED
  BY <1>3, <1>5, <1>6, <1>7 DEF OrderIInv

(***************************************************************************)
(* The request, the broker and time                                        *)
(***************************************************************************)

LEMMA SendKeeps ==
  ASSUME OrderIInv, NEW p \in Placements, SendRequest(p)
  PROVE  OrderIInv'
<1> USE DEF SendRequest
<1>1. /\ PlacementInv(p) /\ stage[p] = "claimed" /\ moment <= deadline[p] /\ p \in Unresolved
      /\ orders[p] = NoOrder /\ rows[p].submittedAt = deadline[p] - Budget /\ answer[p] = "none"
  BY DEF OrderIInv, PlacementInv, PlacementClaims, PlacementHears
<1>2. deadline[p] \in Nat /\ Budget \in Nat /\ moment \in Nat
  BY TimeAssumption DEF OrderIInv, OrderTypeOK
<1>3. /\ stage' \in [Callers -> PlacementSteps \cup ReconcileSteps]
      /\ stage'[p] = "sent" /\ "sent" \in PlacementSteps
      /\ \A c \in Callers \ {p} : stage'[c] = stage[c]
  BY DEF GoTo, OrderIInv, OrderTypeOK, Callers, PlacementSteps
<1>4. OrderTypeOK'
  <2>1. /\ \A q \in Placements : stage'[q] \in PlacementSteps
        /\ \A r \in Reconciles : stage'[r] \in ReconcileSteps
    BY <1>3, CallerAssumption DEF OrderIInv, OrderTypeOK, Callers
  <2>2. wire' \subseteq Request
    BY <1>2 DEF OrderIInv, OrderTypeOK, Request
  <2> QED
    BY <1>3, <2>1, <2>2 DEF OrderIInv, OrderTypeOK
<1>5. PlacementInv(p)'
  BY <1>1, <1>3 DEF PlacementInv, PlacementHolds, PlacementClaims, PlacementHears, HeldPast, BeforeClaim
<1>6. ASSUME NEW q \in Placements \ {p} PROVE PlacementInv(q)'
  <2>1. PlacementInv(q) /\ stage'[q] = stage[q] /\ InFlight(q)' = InFlight(q)
    BY <1>3 DEF OrderIInv, Callers, InFlight
  <2> QED
    BY <2>1 DEF PlacementInv, PlacementHolds, PlacementClaims, PlacementHears, HeldPast, Live,
                Unresolved, StatusOf
<1>7. RowsInv' /\ BrokerInv'
  BY DEF OrderIInv, RowsInv, BrokerInv, InTime, Unresolved, StatusOf, EveryOrderAccounted,
         SettledOnOwnOrder, Live
<1>8. WireInv'
  <2>1. deadline[p] = rows[p].submittedAt + Budget
    BY <1>1, <1>2
  <2> QED
    BY <1>1, <2>1 DEF OrderIInv, WireInv, Unresolved, StatusOf
<1>9. ASSUME NEW r \in Reconciles PROVE ReconcileInv(r)'
  <2>1. stage'[r] = stage[r] /\ ReconcileInv(r)
    BY <1>3, CallerAssumption DEF Callers, OrderIInv
  <2> QED
    BY <2>1 DEF ReconcileInv, Live, Final, Unresolved, StatusOf
<1> QED
  BY <1>4, <1>5, <1>6, <1>7, <1>8, <1>9 DEF OrderIInv

\* A new order says when it was received, and history shows it within the lag.
LEMMA OrderMade ==
  ASSUME OrderTypeOK, NEW o \in Makers, NEW rejected \in BOOLEAN, NewOrder(o, rejected)
  PROVE  /\ orders' \in [Makers -> Order] /\ orders'[o] # NoOrder /\ orders'[o].rejected = rejected
         /\ \A x \in Makers \ {o} : orders'[x] = orders[x]
         /\ IF orders'[o].received # NoTime
            THEN moment - Skew <= orders'[o].received /\ orders'[o].received <= moment + Skew
            ELSE orders'[o].updated = moment
         /\ unlisted' \subseteq Unlisted
         /\ \A u \in unlisted' : u \in unlisted \/ (u.order = o /\ u.until = moment + Lag)
<1>1. moment \in Nat /\ Skew \in Nat /\ Lag \in Nat
  BY TimeAssumption DEF OrderTypeOK
<1>2. PICK at \in Stamps :
        orders' = [orders EXCEPT ![o] = [received |-> at, rejected |-> rejected,
                                         updated |-> IF at = NoTime THEN moment ELSE 0]]
  BY DEF NewOrder
<1> DEFINE made == [received |-> at, rejected |-> rejected, updated |-> IF at = NoTime THEN moment ELSE 0]
<1>3. at \in Int \cup {NoTime} /\ (at # NoTime => moment - Skew <= at /\ at <= moment + Skew)
  BY <1>1, <1>2 DEF Stamps
<1>4. /\ made \in [received : Int \cup {NoTime}, updated : Nat, rejected : BOOLEAN]
      /\ made.received = at /\ made.rejected = rejected
      /\ made.updated = IF at = NoTime THEN moment ELSE 0
  BY <1>1, <1>3
<1>5. made # NoOrder /\ orders' = [orders EXCEPT ![o] = made]
  BY <1>2, <1>4, NullAssumption
<1> HIDE DEF made
<1>6. /\ orders' \in [Makers -> Order] /\ orders'[o] = made
      /\ \A x \in Makers \ {o} : orders'[x] = orders[x]
  BY <1>4, <1>5 DEF OrderTypeOK, Order
<1>7. /\ unlisted' \subseteq Unlisted
      /\ \A u \in unlisted' : u \in unlisted \/ (u.order = o /\ u.until = moment + Lag)
  BY <1>1 DEF NewOrder, OrderTypeOK, Unlisted
<1> QED
  BY <1>3, <1>4, <1>5, <1>6, <1>7

LEMMA ReceiveKeeps ==
  ASSUME OrderIInv, NEW m \in wire, BrokerReceives(m)
  PROVE  OrderIInv'
<1> DEFINE p == m.from
<1>1. /\ m \in Request /\ p \in Placements /\ p \in Unresolved /\ orders[p] = NoOrder /\ rows[p] # NoRow
      /\ m.until = rows[p].submittedAt + Budget /\ moment <= m.until /\ PlacementInv(p)
      /\ p \in Makers
  BY DEF OrderIInv, OrderTypeOK, WireInv, Request, Unresolved, StatusOf, Makers
<1>2. /\ moment \in Nat /\ rows[p].submittedAt \in Nat /\ Budget \in Nat /\ Lag \in Nat /\ Skew \in Nat
      /\ rows[p].submittedAt <= moment
  BY <1>1, TimeAssumption DEF OrderIInv, OrderTypeOK, Row, RowsInv
<1>3. \A n \in wire \ {m} : n.from # p
  BY <1>1 DEF OrderIInv, OrderTypeOK, WireInv, Request
<1>4. /\ wire' = wire \ {m} /\ ~InFlight(p)' /\ InFlight(p) /\ UNCHANGED <<moment, hold, stage, deadline, rows, snap>>
      /\ \A q \in Placements \ {p} : InFlight(q)' <=> InFlight(q)
  BY <1>3 DEF BrokerReceives, InFlight
<1>5. PICK what \in {"accepted", "rejected", "refused"} :
        /\ Answers(p, what)
        /\ \/ what = "accepted" /\ NewOrder(p, FALSE)
           \/ what = "rejected" /\ NewOrder(p, TRUE)
           \/ what = "refused" /\ UNCHANGED <<orders, unlisted>>
  BY DEF BrokerReceives
<1>6. /\ answer' \in [Placements -> {"none", "accepted", "rejected", "refused"}]
      /\ answer'[p] = IF stage[p] = "sent" THEN what ELSE answer[p]
      /\ \A q \in Placements \ {p} : answer'[q] = answer[q]
  BY <1>1, <1>5 DEF Answers, OrderIInv, OrderTypeOK
<1>7. /\ orders' \in [Makers -> Order] /\ \A x \in Makers \ {p} : orders'[x] = orders[x]
      /\ what = "accepted" <=> Live(p)'
      /\ orders'[p] # NoOrder =>
           IF orders'[p].received # NoTime
           THEN moment - Skew <= orders'[p].received /\ orders'[p].received <= moment + Skew
           ELSE orders'[p].updated = moment
      /\ unlisted' \subseteq Unlisted
      /\ \A u \in unlisted' : u \in unlisted \/ (u.order = p /\ u.until = moment + Lag)
  <2>1. OrderTypeOK
    BY DEF OrderIInv
  <2>2. CASE what = "accepted" /\ NewOrder(p, FALSE)
    BY <1>1, <2>1, <2>2, OrderMade DEF Live
  <2>3. CASE what = "rejected" /\ NewOrder(p, TRUE)
    BY <1>1, <2>1, <2>3, OrderMade DEF Live
  <2>4. CASE what = "refused" /\ UNCHANGED <<orders, unlisted>>
    BY <1>1, <2>1, <2>4 DEF Live, OrderTypeOK
  <2> QED
    BY <1>5, <2>2, <2>3, <2>4
<1>8. OrderTypeOK'
  BY <1>4, <1>6, <1>7 DEF OrderIInv, OrderTypeOK
<1>9. PlacementInv(p)'
  <2>1. PlacementHolds(p)'
    BY <1>1, <1>4 DEF PlacementInv, PlacementHolds, HeldPast
  <2>2. PlacementClaims(p)'
    BY <1>1, <1>4 DEF PlacementInv, PlacementClaims, BeforeClaim, Unresolved, StatusOf
  <2>3. answer[p] = "none" /\ stage[p] \notin {"accepted", "refused"}
    BY <1>1, <1>4, <1>6 DEF PlacementInv, PlacementHears
  <2>4. PlacementHears(p)'
    BY <1>4, <1>6, <1>7, <2>3 DEF PlacementHears
  <2> QED
    BY <2>1, <2>2, <2>4 DEF PlacementInv
<1>10. ASSUME NEW q \in Placements \ {p} PROVE PlacementInv(q)'
  <2>1. /\ PlacementInv(q) /\ (InFlight(q)' <=> InFlight(q)) /\ answer'[q] = answer[q]
        /\ orders'[q] = orders[q]
    BY <1>4, <1>6, <1>7 DEF OrderIInv, Makers
  <2> QED
    BY <1>4, <2>1 DEF PlacementInv, PlacementHolds, PlacementClaims, PlacementHears, HeldPast, Live,
                      Unresolved, StatusOf
<1>11. RowsInv'
  <2>1. Unresolved' = Unresolved /\ \A q \in Placements : StatusOf(q)' = StatusOf(q)
    BY <1>4 DEF Unresolved, StatusOf
  <2>2. StatusOf(p) = "unresolved"
    BY <1>1 DEF Unresolved
  <2>3. \A q \in Placements \ {p} : Live(q)' <=> Live(q)
    BY <1>7 DEF Live, Makers
  <2> QED
    BY <1>4, <2>1, <2>2, <2>3 DEF OrderIInv, RowsInv, EveryOrderAccounted, SettledOnOwnOrder
<1>12. WireInv'
  <2>1. \A n \in wire' : n \in wire /\ n.from # p /\ n.from \in Makers
    BY <1>3, <1>4 DEF OrderIInv, OrderTypeOK, Request, Makers
  <2> QED
    BY <1>4, <1>7, <2>1 DEF OrderIInv, WireInv, Unresolved, StatusOf
<1>13. BrokerInv'
  <2>1. orders'[p] # NoOrder => InTime(p)'
    <3>1. orders'[p].received \in Int \/ orders'[p].received = NoTime \/ orders'[p] = NoOrder
      BY <1>1, <1>7 DEF Order
    <3> QED
      BY <1>1, <1>2, <1>4, <1>7, <3>1, NullAssumption DEF InTime
  <2>2. \A q \in Placements \ {p} : orders'[q] # NoOrder => rows'[q] # NoRow /\ InTime(q)'
    BY <1>4, <1>7 DEF OrderIInv, BrokerInv, InTime, Makers
  <2>3. ASSUME NEW u \in unlisted'
        PROVE  /\ moment <= u.until
               /\ u.order \in Placements =>
                    rows[u.order] # NoRow /\ u.until <= rows[u.order].submittedAt + Budget + Lag
    BY <1>1, <1>2, <1>7 DEF OrderIInv, BrokerInv
  <2> QED
    BY <1>1, <1>4, <2>1, <2>2, <2>3 DEF BrokerInv
<1>14. ASSUME NEW r \in Reconciles PROVE ReconcileInv(r)'
  <2>1. RowsGrow
    BY <1>4 DEF RowsGrow, Unresolved, StatusOf
  <2>2. \A o \in Placements : Live(o) => Live(o)'
    BY <1>1, <1>7 DEF Live, Makers
  <2>3. \A q \in Placements : rows[q] # NoRow /\ Live(q)' /\ ~Live(q) =>
                                moment <= rows[q].submittedAt + Budget
    BY <1>1, <1>7 DEF Live, Makers
  <2> QED
    BY <1>2, <1>4, <2>1, <2>2, <2>3, ReadingStands
<1> QED
  BY <1>8, <1>9, <1>10, <1>11, <1>12, <1>13, <1>14 DEF OrderIInv

\* What leaves the rows and the orders of placements alone leaves their histories alone.
LEMMA OutsideKeeps ==
  ASSUME OrderIInv, UNCHANGED <<moment, hold, stage, deadline, rows, wire, answer, snap>>,
         orders' \in [Makers -> Order], unlisted' \subseteq Unlisted,
         \A p \in Placements :
           /\ orders'[p] = NoOrder <=> orders[p] = NoOrder
           /\ orders[p] # NoOrder =>
                /\ orders'[p].rejected = orders[p].rejected /\ orders'[p].received = orders[p].received
                /\ orders[p].received = NoTime => orders[p].updated <= orders'[p].updated,
         \A u \in unlisted' : u \in unlisted \/ (u.order \notin Placements /\ moment <= u.until)
  PROVE  OrderIInv'
<1>1. OrderTypeOK'
  BY DEF OrderIInv, OrderTypeOK
<1>2. \A p \in Placements : Live(p)' <=> Live(p)
  BY DEF Live
<1>3. Unresolved' = Unresolved /\ \A q \in Placements : StatusOf(q)' = StatusOf(q)
  BY DEF Unresolved, StatusOf
<1>4. ASSUME NEW q \in Placements PROVE PlacementInv(q)'
  <2>1. PlacementInv(q)
    BY DEF OrderIInv
  <2> QED
    BY <1>2, <1>3, <2>1 DEF PlacementInv, PlacementHolds, PlacementClaims, PlacementHears, HeldPast, InFlight
<1>5. RowsInv'
  BY <1>2, <1>3 DEF OrderIInv, RowsInv, EveryOrderAccounted, SettledOnOwnOrder
<1>6. WireInv'
  BY <1>3 DEF OrderIInv, WireInv, Unresolved
<1>7. BrokerInv'
  <2>1. ASSUME NEW p \in Placements, orders'[p] # NoOrder PROVE rows'[p] # NoRow /\ InTime(p)'
    <3>1. orders[p] # NoOrder /\ rows[p] # NoRow /\ InTime(p)
      BY <2>1 DEF OrderIInv, BrokerInv
    <3>2. rows[p].submittedAt \in Nat /\ orders[p].updated \in Nat /\ orders'[p].updated \in Nat
      BY <2>1, <3>1 DEF OrderIInv, OrderTypeOK, Row, Order, Makers
    <3> QED
      BY <3>1, <3>2 DEF InTime
  <2>2. ASSUME NEW u \in unlisted'
        PROVE  /\ moment <= u.until
               /\ u.order \in Placements =>
                    rows[u.order] # NoRow /\ u.until <= rows[u.order].submittedAt + Budget + Lag
    BY DEF OrderIInv, BrokerInv
  <2> QED
    BY <2>1, <2>2 DEF BrokerInv
<1>8. ASSUME NEW r \in Reconciles PROVE ReconcileInv(r)'
  <2>1. RowsGrow /\ moment \in Nat
    BY <1>3 DEF RowsGrow, OrderIInv, OrderTypeOK
  <2> QED
    BY <1>2, <2>1, ReadingStands
<1> QED
  BY <1>1, <1>4, <1>5, <1>6, <1>7, <1>8 DEF OrderIInv

LEMMA BrokerKeeps ==
  ASSUME OrderIInv,
         (\E o \in Outside : OutsideOrder(o)) \/ (\E u \in unlisted : OrderAppears(u))
           \/ (\E o \in Makers : OrderMoves(o))
  PROVE  OrderIInv'
<1>1. /\ OrderTypeOK /\ moment \in Nat /\ Lag \in Nat /\ orders \in [Makers -> Order]
      /\ unlisted \subseteq Unlisted /\ Placements \subseteq Makers
      /\ \A p \in Placements : orders[p] # NoOrder =>
           orders[p] \in [received : Int \cup {NoTime}, updated : Nat, rejected : BOOLEAN]
  BY TimeAssumption DEF OrderIInv, OrderTypeOK, Makers, Order
<1>2. ASSUME NEW o \in Outside, OutsideOrder(o) PROVE OrderIInv'
  <2>1. o \in Makers /\ o \notin Placements /\ moment <= moment + Lag
    BY <1>1, CallerAssumption DEF Makers
  <2>2. /\ orders' \in [Makers -> Order] /\ \A p \in Placements : orders'[p] = orders[p]
        /\ unlisted' \subseteq Unlisted
        /\ \A u \in unlisted' : u \in unlisted \/ (u.order = o /\ u.until = moment + Lag)
    BY <1>1, <1>2, <2>1, OrderMade DEF OutsideOrder
  <2>3. \A u \in unlisted' : u \in unlisted \/ (u.order \notin Placements /\ moment <= u.until)
    BY <2>1, <2>2
  <2>4. \A p \in Placements :
           /\ orders'[p] = NoOrder <=> orders[p] = NoOrder
           /\ orders[p] # NoOrder =>
                /\ orders'[p].rejected = orders[p].rejected /\ orders'[p].received = orders[p].received
                /\ orders[p].received = NoTime => orders[p].updated <= orders'[p].updated
    BY <1>1, <2>2
  <2> QED
    BY <1>2, <2>2, <2>3, <2>4, OutsideKeeps DEF OutsideOrder
<1>3. ASSUME NEW u \in unlisted, OrderAppears(u) PROVE OrderIInv'
  <2>1. orders' \in [Makers -> Order] /\ unlisted' \subseteq Unlisted /\ \A v \in unlisted' : v \in unlisted
    BY <1>1, <1>3 DEF OrderAppears
  <2>2. \A p \in Placements :
           /\ orders'[p] = NoOrder <=> orders[p] = NoOrder
           /\ orders[p] # NoOrder =>
                /\ orders'[p].rejected = orders[p].rejected /\ orders'[p].received = orders[p].received
                /\ orders[p].received = NoTime => orders[p].updated <= orders'[p].updated
    BY <1>1, <1>3 DEF OrderAppears
  <2> QED
    BY <1>3, <2>1, <2>2, OutsideKeeps DEF OrderAppears
<1>4. ASSUME NEW o \in Makers, OrderMoves(o) PROVE OrderIInv'
  <2>1. orders[o] \in [received : Int \cup {NoTime}, updated : Nat, rejected : BOOLEAN] /\ orders[o] # NoOrder
        /\ orders[o].updated < moment
    BY <1>1, <1>4 DEF OrderMoves, Order
  <2>2. /\ orders' \in [Makers -> Order] /\ orders'[o] # NoOrder
        /\ orders'[o].rejected = orders[o].rejected /\ orders'[o].received = orders[o].received
        /\ orders'[o].updated = moment
        /\ \A x \in Makers \ {o} : orders'[x] = orders[x]
    BY <1>1, <1>4, <2>1, NullAssumption DEF OrderMoves, Order
  <2>3. \A p \in Placements :
           /\ orders'[p] = NoOrder <=> orders[p] = NoOrder
           /\ orders[p] # NoOrder =>
                /\ orders'[p].rejected = orders[p].rejected /\ orders'[p].received = orders[p].received
                /\ orders[p].received = NoTime => orders[p].updated <= orders'[p].updated
    BY <1>1, <2>1, <2>2
  <2> QED
    BY <1>1, <1>4, <2>2, <2>3, OutsideKeeps DEF OrderMoves
<1> QED
  BY <1>2, <1>3, <1>4

LEMMA TickKeeps ==
  ASSUME OrderIInv, OrderTick
  PROVE  OrderIInv'
<1> USE DEF OrderTick
<1>1. moment \in Nat /\ moment' \in Nat /\ moment' = moment + 1
  BY DEF OrderIInv, OrderTypeOK
<1>2. OrderTypeOK'
  BY <1>1 DEF OrderIInv, OrderTypeOK
<1>3. Unresolved' = Unresolved /\ \A q \in Placements : StatusOf(q)' = StatusOf(q) /\ (Live(q)' <=> Live(q))
  BY DEF Unresolved, StatusOf, Live
<1>4. ASSUME NEW q \in Placements PROVE PlacementInv(q)'
  <2>1. PlacementInv(q) /\ deadline[q] \in Nat /\ Budget \in Nat /\ deadline[q] - Budget \in Int
        /\ (InFlight(q)' => InFlight(q))
    BY TimeAssumption DEF OrderIInv, OrderTypeOK, InFlight
  <2>2. PlacementHolds(q)'
    BY <1>1, <2>1 DEF PlacementInv, PlacementHolds, HeldPast
  <2>3. PlacementClaims(q)'
    BY <1>1, <1>3, <2>1 DEF PlacementInv, PlacementClaims
  <2>4. PlacementHears(q)'
    BY <1>3, <2>1 DEF PlacementInv, PlacementHears
  <2> QED
    BY <2>2, <2>3, <2>4 DEF PlacementInv
<1>5. RowsInv'
  <2>1. \A p \in Placements : rows[p] # NoRow => rows[p].submittedAt \in Nat /\ rows[p].submittedAt <= moment'
    BY <1>1 DEF OrderIInv, OrderTypeOK, Row, RowsInv
  <2> QED
    BY <1>3, <2>1 DEF OrderIInv, RowsInv, EveryOrderAccounted, SettledOnOwnOrder
<1>6. WireInv'
  <2>1. \A m \in wire' : m \in wire /\ m.until > moment /\ m.until \in Nat
    BY DEF OrderIInv, OrderTypeOK, Request
  <2> QED
    BY <1>1, <1>3, <2>1 DEF OrderIInv, WireInv
<1>7. BrokerInv'
  <2>1. \A u \in unlisted : moment < u.until /\ u.until \in Nat
    BY DEF OrderIInv, OrderTypeOK, Unlisted
  <2> QED
    BY <1>1, <2>1 DEF OrderIInv, BrokerInv, InTime
<1>8. ASSUME NEW r \in Reconciles PROVE ReconcileInv(r)'
  <2>1. RowsGrow /\ moment <= moment'
    BY <1>1, <1>3 DEF RowsGrow
  <2> QED
    BY <1>1, <1>3, <2>1, ReadingStands
<1> QED
  BY <1>2, <1>4, <1>5, <1>6, <1>7, <1>8 DEF OrderIInv

(***************************************************************************)
(* Reconciles                                                              *)
(***************************************************************************)

\* What is assumed of the account's orders: an order rejected at once is not in history, and
\* nobody asks for the same from the broker's own app.
OwnHistory == ~RejectsListed /\ \A o \in Outside, p \in Placements : Ticket[o] # Ticket[p]

\* What a reconcile reads of the history is in the shape it keeps.
LEMMA SnapRead ==
  ASSUME snap \in [Reconciles -> Snapshot], NEW r \in Reconciles, NEW found \in SUBSET Makers,
         NEW complete \in BOOLEAN,
         snap' = [snap EXCEPT ![r].matches = found, ![r].complete = complete]
  PROVE  /\ snap' \in [Reconciles -> Snapshot] /\ \A s \in Reconciles \ {r} : snap'[s] = snap[s]
         /\ snap'[r].matches = found /\ snap'[r].complete = complete
         /\ snap'[r].row = snap[r].row /\ snap'[r].now = snap[r].now
<1> DEFINE half == [snap EXCEPT ![r].matches = found]
<1>1. /\ half \in [Reconciles -> Snapshot] /\ \A s \in Reconciles \ {r} : half[s] = snap[s]
      /\ half[r].matches = found /\ half[r].row = snap[r].row /\ half[r].now = snap[r].now
  BY DEF Snapshot
<1>2. snap' = [half EXCEPT ![r].complete = complete]
  OBVIOUS
<1> HIDE DEF half
<1> DEFINE read == [half[r] EXCEPT !.complete = complete]
<1>4. /\ read \in Snapshot /\ read.matches = half[r].matches /\ read.complete = complete
      /\ read.row = half[r].row /\ read.now = half[r].now
  <2>1. half[r] \in Snapshot
    BY <1>1
  <2>2. CASE complete = TRUE
    BY <2>1, <2>2 DEF Snapshot
  <2>3. CASE complete = FALSE
    BY <2>1, <2>3 DEF Snapshot
  <2> QED
    BY <2>2, <2>3
<1>5. snap' = [half EXCEPT ![r] = read]
  BY <1>2
<1> HIDE DEF read
<1>3. /\ snap' \in [Reconciles -> Snapshot] /\ \A s \in Reconciles \ {r} : snap'[s] = half[s]
      /\ snap'[r] = read
  BY <1>1, <1>4, <1>5
<1> QED
  BY <1>1, <1>3, <1>4

\* A complete page holds the row's own order, if there is one, once absence would be final.
LEMMA MatchesFound ==
  ASSUME OrderIInv, OwnHistory, NEW r \in Reconciles, stage[r] = "history"
  PROVE  LET p == snap[r].row
             found == Matches(p, snap[r].now) IN
         /\ found \in SUBSET Makers /\ \A o \in found : o \in Placements /\ Live(o)
         /\ Final(snap[r]) /\ Live(p) => p \in found
<1> DEFINE p == snap[r].row
           found == Matches(p, snap[r].now)
<1>1. /\ p \in Placements /\ rows[p] # NoRow /\ snap[r].now <= moment
      /\ snap[r].now \in Nat /\ moment \in Nat /\ rows[p].submittedAt \in Nat
  BY DEF OrderIInv, OrderTypeOK, ReconcileInv, Snapshot, Row
<1>2. ASSUME NEW o \in found PROVE o \in Placements /\ Live(o)
  BY <1>1 DEF Matches, Shown, Listed, Live, OwnHistory, Makers
<1>3. ASSUME Final(snap[r]), Live(p) PROVE p \in found
  <2>1. /\ Budget \in Nat /\ Lag \in Nat /\ Absence \in Nat /\ Budget + Lag < Absence /\ Skew \in Nat
    BY TimeAssumption
  <2>2. snap[r].now >= rows[p].submittedAt + Absence
    BY <1>1, <1>3, <2>1 DEF Final
  <2>3. \A u \in unlisted : u.order # p
    <3>1. \A u \in unlisted : u.until \in Nat /\ moment <= u.until /\
            (u.order = p => u.until <= rows[p].submittedAt + Budget + Lag)
      BY <1>1 DEF OrderIInv, OrderTypeOK, Unlisted, BrokerInv
    <3> QED
      BY <1>1, <2>1, <2>2, <3>1
  <2>4. Shown(p)
    BY <1>3, <2>3 DEF Shown, Listed, Live
  <2>5. /\ InTime(p) /\ orders[p].updated \in Nat
        /\ orders[p].received = NoTime \/ orders[p].received \in Int
    BY <1>1, <1>3 DEF OrderIInv, OrderTypeOK, BrokerInv, Live, Order, Makers
  <2>6. Earlier(rows[p].submittedAt + Budget, snap[r].now) = rows[p].submittedAt + Budget
    BY <1>1, <2>1, <2>2 DEF Earlier
  <2>7. InWindow(orders[p], rows[p].submittedAt, snap[r].now)
    BY <1>1, <2>1, <2>5, <2>6 DEF InWindow, InTime
  <2> QED
    BY <1>1, <2>4, <2>7 DEF Matches, Makers
<1> QED
  BY <1>2, <1>3 DEF Matches

\* The reads, and the ends: nothing else is touched.
LEMMA ReadsKeep ==
  ASSUME OrderIInv, OwnHistory, NEW r \in Reconciles, CompleteRead(r) \/ PartialRead(r)
  PROVE  OrderIInv'
<1> USE DEF brokerVars
<1>1. PICK found \in SUBSET Matches(snap[r].row, snap[r].now), complete \in BOOLEAN :
        /\ stage[r] = "history" /\ ReadHistory(r, found, complete)
        /\ complete => found = Matches(snap[r].row, snap[r].now)
  BY DEF CompleteRead, PartialRead
<1>2. /\ found \in SUBSET Makers /\ \A o \in found : o \in Placements /\ Live(o)
      /\ complete /\ Final(snap[r]) /\ Live(snap[r].row) => snap[r].row \in found
  BY <1>1, MatchesFound
<1>3. /\ snap' \in [Reconciles -> Snapshot] /\ \A s \in Reconciles \ {r} : snap'[s] = snap[s]
      /\ snap'[r].matches = found /\ snap'[r].complete = complete
      /\ snap'[r].row = snap[r].row /\ snap'[r].now = snap[r].now
  BY <1>1, <1>2, SnapRead DEF ReadHistory, OrderIInv, OrderTypeOK
<1>4. stage'[r] = "owned" /\ "owned" \in ReconcileSteps /\ GoTo(r, "owned")
      /\ UNCHANGED <<moment, hold, deadline, rows, brokerVars>>
  BY <1>1 DEF ReadHistory, GoTo, OrderIInv, OrderTypeOK, Callers, ReconcileSteps
<1>5. ReconcileInv(r)'
  <2>1. ReconcileInv(r)
    BY DEF OrderIInv
  <2> QED
    BY <1>1, <1>2, <1>3, <1>4, <2>1 DEF ReconcileInv, Final, Live, Unresolved, StatusOf
<1>6. HoldKept(r)
  BY <1>4, HoldUnchanged DEF OrderIInv
<1> QED
  BY <1>3, <1>4, <1>5, <1>6, ReconcileMoves

\* Only orders in doubt are left, and one row is in doubt.
LEMMA UnclaimedKeeps ==
  ASSUME OrderIInv, NEW r \in Reconciles, UnclaimedOrders(r)
  PROVE  OrderIInv'
<1> USE DEF UnclaimedOrders, brokerVars
<1> DEFINE p == snap[r].row
<1>1. ReconcileInv(r) /\ stage[r] = "owned" /\ snap[r] \in Snapshot /\ p \in Placements
  BY DEF OrderIInv, OrderTypeOK, ReconcileInv
<1>2. /\ snap' \in [Reconciles -> Snapshot] /\ \A s \in Reconciles \ {r} : snap'[s] = snap[s]
      /\ snap'[r].matches = snap[r].matches \ Owned /\ snap'[r].complete = snap[r].complete
      /\ snap'[r].row = p /\ snap'[r].now = snap[r].now
  BY <1>1 DEF OrderIInv, OrderTypeOK, Snapshot
<1>3. stage'[r] = "concluding" /\ "concluding" \in ReconcileSteps
  BY DEF GoTo, OrderIInv, OrderTypeOK, Callers, ReconcileSteps
<1>4. ASSUME NEW o \in snap[r].matches \ Owned, p \in Unresolved PROVE o = p
  <2>1. o \in Placements /\ Live(o)
    BY <1>1 DEF ReconcileInv
  <2>2. StatusOf(o) = "unresolved" \/ (StatusOf(o) = "executed" /\ rows[o].orderId = o)
    BY <2>1 DEF OrderIInv, RowsInv, EveryOrderAccounted
  <2>3. StatusOf(o) # "executed" \/ rows[o].orderId # o
    BY <2>1, <1>4 DEF Owned, StatusOf
  <2> QED
    BY <1>4, <2>1, <2>2, <2>3 DEF Unresolved, OrderIInv, RowsInv
<1>5. ASSUME p \in Unresolved PROVE p \notin Owned
  <2>1. SUFFICES ASSUME NEW q \in Placements, rows[q] # NoRow, rows[q].orderId = p PROVE FALSE
    BY DEF Owned
  <2>2. CASE rows[q].status = "executed"
    BY <1>5, <2>1, <2>2 DEF OrderIInv, RowsInv, SettledOnOwnOrder, StatusOf, Unresolved
  <2>3. CASE rows[q].status # "executed"
    <3>1. p = NoOrder
      BY <2>1, <2>3 DEF OrderIInv, RowsInv
    <3> QED
      BY <1>1, <3>1, NullAssumption DEF Makers
  <2> QED
    BY <2>2, <2>3
<1>6. ReconcileInv(r)'
  BY <1>1, <1>2, <1>3, <1>4, <1>5 DEF ReconcileInv, Final, Live, Unresolved, StatusOf
<1>7. HoldKept(r)
  BY HoldUnchanged DEF OrderIInv
<1> QED
  BY <1>2, <1>3, <1>6, <1>7, ReconcileMoves

LEMMA ReadUnresolvedKeeps ==
  ASSUME OrderIInv, NEW r \in Reconciles, ReadUnresolved(r)
  PROVE  OrderIInv'
<1> USE DEF ReadUnresolved, brokerVars
<1>1. ReconcileInv(r) /\ snap[r] \in Snapshot /\ HoldKept(r)
  BY HoldUnchanged DEF OrderIInv, OrderTypeOK
<1>2. CASE GoTo(r, "leaving") /\ UNCHANGED snap
  <2>1. stage'[r] = "leaving" /\ "leaving" \in ReconcileSteps
    BY <1>2 DEF GoTo, OrderIInv, OrderTypeOK, Callers, ReconcileSteps
  <2>2. ReconcileInv(r)'
    BY <1>1, <1>2, <2>1 DEF ReconcileInv
  <2>3. snap \in [Reconciles -> Snapshot]
    BY DEF OrderIInv, OrderTypeOK
  <2> QED
    BY <1>1, <1>2, <2>1, <2>2, <2>3, ReconcileMoves
<1>3. CASE \E p \in Unresolved : snap' = [snap EXCEPT ![r].row = p] /\ GoTo(r, "history")
  <2>1. PICK p \in Unresolved : snap' = [snap EXCEPT ![r].row = p] /\ GoTo(r, "history")
    BY <1>3
  <2>2. p \in Placements /\ rows[p] # NoRow
    BY DEF Unresolved, StatusOf
  <2>3. /\ snap' \in [Reconciles -> Snapshot] /\ \A s \in Reconciles \ {r} : snap'[s] = snap[s]
        /\ snap'[r].row = p /\ snap'[r].now = snap[r].now
    BY <2>1, <2>2 DEF OrderIInv, OrderTypeOK, Snapshot
  <2>4. stage'[r] = "history" /\ "history" \in ReconcileSteps
    BY <2>1 DEF GoTo, OrderIInv, OrderTypeOK, Callers, ReconcileSteps
  <2>5. ReconcileInv(r)'
    BY <1>1, <2>2, <2>3, <2>4 DEF ReconcileInv
  <2> QED
    BY <1>1, <2>1, <2>3, <2>4, <2>5, ReconcileMoves
<1> QED
  BY <1>2, <1>3

\* Starting, failing, dying and ending: at those steps a reconcile has read nothing it uses.
LEMMA RestsKeep ==
  ASSUME OrderIInv, NEW r \in Reconciles,
         CallReconcile(r) \/ StartReconcile(r) \/ ReconcileFails(r) \/ EndReconcile(r) \/ ReconcileDies(r)
  PROVE  OrderIInv'
<1> USE DEF brokerVars
<1> DEFINE asked == [NoSnapshot EXCEPT !.now = moment]
<1>1. /\ OrderTypeOK /\ ReconcileInv(r) /\ snap \in [Reconciles -> Snapshot] /\ moment \in Nat
      /\ NoSnapshot \in Snapshot /\ NoSnapshot.now = 0
      /\ asked \in Snapshot /\ asked.now = moment
  BY DEF OrderIInv, OrderTypeOK, NoSnapshot, Snapshot
<1>2. PICK to \in {"queued", "reading", "leaving", "idle"} :
        /\ GoTo(r, to) /\ UNCHANGED <<moment, deadline, rows, brokerVars>>
        /\ \/ UNCHANGED snap
           \/ snap' = [snap EXCEPT ![r] = NoSnapshot]
           \/ snap' = [snap EXCEPT ![r] = asked]
  BY DEF CallReconcile, StartReconcile, ReconcileFails, EndReconcile, ReconcileDies, AcquireLease, ReleaseLease
<1>3. stage'[r] = to /\ to \in ReconcileSteps
  BY <1>1, <1>2 DEF GoTo, OrderTypeOK, Callers, ReconcileSteps
<1> HIDE DEF asked
<1>4. /\ snap' \in [Reconciles -> Snapshot] /\ \A s \in Reconciles \ {r} : snap'[s] = snap[s]
      /\ snap'[r].now <= moment
  <2>1. CASE UNCHANGED snap
    BY <1>1, <2>1 DEF ReconcileInv
  <2>2. CASE snap' = [snap EXCEPT ![r] = NoSnapshot]
    BY <1>1, <2>2
  <2>3. CASE snap' = [snap EXCEPT ![r] = asked]
    BY <1>1, <2>3
  <2> QED
    BY <1>2, <2>1, <2>2, <2>3
<1>5. HoldKept(r)
  <2>1. r \in Callers
    BY DEF Callers
  <2>2. CASE UNCHANGED hold
    BY <1>1, <2>2, HoldUnchanged
  <2>3. CASE StartReconcile(r)
    BY <1>1, <2>1, <2>3, HoldAcquired DEF StartReconcile, AcquireLease
  <2>4. CASE EndReconcile(r)
    BY <1>1, <2>4, HoldReleased DEF EndReconcile, ReleaseLease
  <2> QED
    BY <2>2, <2>3, <2>4 DEF CallReconcile, ReconcileFails, ReconcileDies
<1>6. ReconcileInv(r)'
  BY <1>2, <1>3, <1>4 DEF ReconcileInv
<1> QED
  BY <1>2, <1>3, <1>4, <1>5, <1>6, ReconcileMoves

(***************************************************************************)
(* The theorems                                                            *)
(***************************************************************************)

LEMMA OrderStep == OwnHistory /\ OrderIInv /\ [OrderNext]_orderVars => OrderIInv'
<1> SUFFICES ASSUME OwnHistory, OrderIInv, [OrderNext]_orderVars PROVE OrderIInv'
  OBVIOUS
<1>1. ASSUME NEW p \in Placements, PlacementStep(p) \/ PlacementDies(p) PROVE OrderIInv'
  <2>1. CASE RefusedUnsent(p)
    BY <2>1, LeavesKeep DEF RefusedUnsent
  <2>2. CASE ClaimRefused(p)
    BY <2>2, LeavesKeep DEF ClaimRefused
  <2>3. CASE Ambiguous(p)
    BY <2>3, LeavesKeep DEF Ambiguous
  <2>4. CASE SettleFails(p)
    BY <2>4, LeavesKeep DEF SettleFails
  <2> QED
    BY <1>1, <2>1, <2>2, <2>3, <2>4, StartKeeps, RenewKeeps, ArmKeeps, ClaimKeeps, SendKeeps,
       AnswerKeeps, SettleKeeps, EndPlacementKeeps, DiesKeeps DEF PlacementStep
<1>2. ASSUME NEW r \in Reconciles, ReconcileStep(r) \/ ReconcileDies(r) PROVE OrderIInv'
  BY <1>2, RestsKeep, ReadUnresolvedKeeps, ReadsKeep, UnclaimedKeeps, ConcludeKeeps DEF ReconcileStep
<1>3. CASE UNCHANGED orderVars
  <2>1. UNCHANGED <<moment, hold, stage, deadline, rows, wire, answer, orders, unlisted, snap>>
    BY <1>3 DEF orderVars
  <2>2. \A p \in Placements : orders[p] # NoOrder => orders[p].updated \in Nat
    BY DEF OrderIInv, OrderTypeOK, Order, Makers
  <2>3. orders' \in [Makers -> Order] /\ unlisted' \subseteq Unlisted
    BY <2>1 DEF OrderIInv, OrderTypeOK
  <2> QED
    BY <2>1, <2>2, <2>3, OutsideKeeps
<1> QED
  BY <1>1, <1>2, <1>3, ReceiveKeeps, BrokerKeeps, TickKeeps DEF OrderNext

LEMMA OrderImplies == OrderIInv => OrderInv /\ EveryOrderAccounted
<1> SUFFICES ASSUME OrderIInv PROVE OrderInv /\ EveryOrderAccounted
  OBVIOUS
<1>1. SettledOnOwnOrder /\ EveryOrderAccounted /\ OrderTypeOK
  BY DEF OrderIInv, RowsInv
<1>2. OneInDoubt
  <2>1. ASSUME NEW p \in Placements, InDoubt(p) PROVE p \in Unresolved
    BY <1>1, <2>1 DEF InDoubt, InFlight, OrderIInv, WireInv, EveryOrderAccounted, Unresolved
  <2> QED
    BY <2>1 DEF OneInDoubt, OrderIInv, RowsInv
<1>3. SentUnderLease
  <2>1. SUFFICES ASSUME NEW p \in Placements, stage[p] \in {"claimed", "sent"}, moment <= deadline[p]
                 PROVE  HoldsLease(p)
    BY DEF SentUnderLease
  <2>2. HeldPast(p, deadline[p]) /\ moment \in Nat /\ deadline[p] \in Nat
    BY <2>1 DEF OrderIInv, OrderTypeOK, PlacementInv, PlacementHolds
  <2>3. hold.expiresAt \in Nat
    BY <2>2 DEF OrderIInv, OrderTypeOK, HeldPast
  <2> QED
    BY <2>1, <2>2, <2>3 DEF HoldsLease, Gate!InForce, HeldPast
<1> QED
  BY <1>1, <1>2, <1>3 DEF OrderInv

\* An order the broker accepted is never forgotten: as long as its row is not executed on it,
\* the account is quarantined, whatever answers, writes, isolates and reconciles are lost
\* (claimSubmission, settleSubmission, FINAL_ABSENCE_DELAY_MS).
THEOREM OrdersAccounted ==
  ASSUME OwnHistory
  PROVE  OrderSpec => []EveryOrderAccounted
<1>1. OrderInit => OrderIInv
  BY OrderInitially
<1>2. OrderIInv /\ [OrderNext]_orderVars => OrderIInv'
  BY OrderStep
<1> QED
  BY <1>1, <1>2, OrderImplies, PTL DEF OrderSpec

\* A row is settled on the order its own request made, one submission of the account at most is
\* in doubt, and until its deadline a request is out under the lease its guards were read
\* under (unclaimedOrders, the write-ahead claim, the second renewal).
THEOREM OrdersHold ==
  ASSUME OwnHistory
  PROVE  OrderSpec => []OrderInv
<1>1. OrderInit => OrderIInv
  BY OrderInitially
<1>2. OrderIInv /\ [OrderNext]_orderVars => OrderIInv'
  BY OrderStep
<1> QED
  BY <1>1, <1>2, OrderImplies, PTL DEF OrderSpec

(***************************************************************************)
(* A settled row is final, whatever the times and whatever history shows   *)
(***************************************************************************)

\* A placement that has not claimed has no row.
ClaimsFirst ==
  /\ DOMAIN stage = Callers /\ DOMAIN rows = Placements
  /\ \A p \in Placements : stage[p] \in BeforeClaim => rows[p] = NoRow

\* Every step moves one caller at most, and none back before its claim.
LEMMA StageMoves ==
  ASSUME [OrderNext]_orderVars
  PROVE  UNCHANGED stage \/ \E c \in Callers, to \in PlacementSteps \cup ReconcileSteps :
           GoTo(c, to) /\ (c \in Placements /\ to \in BeforeClaim => stage[c] \in BeforeClaim)
<1> USE DEF PlacementSteps, ReconcileSteps, BeforeClaim, Callers
<1>1. ASSUME NEW p \in Placements, PlacementStep(p) \/ PlacementDies(p)
      PROVE  \E to \in PlacementSteps : GoTo(p, to) /\ (to \in BeforeClaim => stage[p] \in BeforeClaim)
  BY <1>1 DEF PlacementStep, PlacementDies, StartPlacement, AcquireLease, RefusedUnsent, Leave, Renew,
              ArmDeadline, ClaimSubmission, ClaimRefused, SendRequest, AnswerArrives, Ambiguous,
              SettleSubmission, SettleFails, EndPlacement, ReleaseLease
<1>2. ASSUME NEW r \in Reconciles, ReconcileStep(r) \/ ReconcileDies(r)
      PROVE  \E to \in ReconcileSteps : GoTo(r, to)
  BY <1>2 DEF ReconcileStep, ReconcileDies, CallReconcile, StartReconcile, AcquireLease, ReadUnresolved,
              CompleteRead, PartialRead, ReadHistory, UnclaimedOrders, Conclude, ReconcileFails,
              EndReconcile, ReleaseLease
<1>3. ASSUME NEW r \in Reconciles PROVE r \notin Placements
  BY CallerAssumption
<1>4. CASE \/ \E m \in wire : BrokerReceives(m)
           \/ \E o \in Outside : OutsideOrder(o)
           \/ \E u \in unlisted : OrderAppears(u)
           \/ \E o \in Makers : OrderMoves(o)
           \/ OrderTick \/ UNCHANGED orderVars
  BY <1>4 DEF BrokerReceives, OutsideOrder, OrderAppears, OrderMoves, OrderTick, orderVars
<1> QED
  BY <1>1, <1>2, <1>3, <1>4 DEF OrderNext

\* A row is written by its own claim, and by settles while it is in doubt.
LEMMA RowsWritten ==
  ASSUME [OrderNext]_orderVars
  PROVE  \/ UNCHANGED rows
         \/ \E p \in Placements : stage[p] = "claiming" /\ rows' = Claimed(p)
                                  /\ \E to \in {"claimed", "leaving"} : GoTo(p, to)
         \/ \E p \in Unresolved : \E status, id : rows' = Settled(p, status, id)
<1>1. ASSUME NEW p \in Placements, PlacementStep(p) \/ PlacementDies(p), ~UNCHANGED rows
      PROVE  ClaimSubmission(p) \/ SettleSubmission(p)
  BY <1>1 DEF PlacementStep, PlacementDies, StartPlacement, RefusedUnsent, Renew, ArmDeadline,
              ClaimRefused, SendRequest, AnswerArrives, Ambiguous, SettleFails, EndPlacement, ReleaseLease
<1>2. ASSUME NEW r \in Reconciles, ReconcileStep(r) \/ ReconcileDies(r), ~UNCHANGED rows
      PROVE  Conclude(r)
  BY <1>2 DEF ReconcileStep, ReconcileDies, CallReconcile, StartReconcile, ReadUnresolved, CompleteRead,
              PartialRead, ReadHistory, UnclaimedOrders, ReconcileFails, EndReconcile, ReleaseLease
<1>3. ASSUME NEW p, NEW status, NEW id, rows' = Settled(p, status, id), ~UNCHANGED rows
      PROVE  p \in Unresolved
  BY <1>3 DEF Settled
<1>4. CASE \E p \in Placements : ClaimSubmission(p)
  BY <1>4 DEF ClaimSubmission, Leave
<1>5. CASE ~UNCHANGED rows /\ \E p \in Placements : SettleSubmission(p)
  <2>1. \E p, status, id : rows' = Settled(p, status, id)
    BY <1>5 DEF SettleSubmission
  <2> QED
    BY <1>3, <1>5, <2>1
<1>6. CASE ~UNCHANGED rows /\ \E r \in Reconciles : Conclude(r)
  <2>1. PICK s : rows' = Conclusion(s)
    BY <1>6 DEF Conclude
  <2>2. \E p, status, id : rows' = Settled(p, status, id)
    BY <1>6, <2>1 DEF Conclusion
  <2> QED
    BY <1>3, <1>6, <2>2
<1>7. CASE \/ \E m \in wire : BrokerReceives(m)
           \/ \E o \in Outside : OutsideOrder(o)
           \/ \E u \in unlisted : OrderAppears(u)
           \/ \E o \in Makers : OrderMoves(o)
           \/ OrderTick \/ UNCHANGED orderVars
  BY <1>7 DEF BrokerReceives, OutsideOrder, OrderAppears, OrderMoves, OrderTick, orderVars
<1> QED
  BY <1>1, <1>2, <1>4, <1>5, <1>6, <1>7 DEF OrderNext

LEMMA ClaimsFirstStep ==
  ASSUME ClaimsFirst, [OrderNext]_orderVars
  PROVE  ClaimsFirst' /\ \A p \in Placements : StatusOf(p) \in {"executed", "failed"} => rows'[p] = rows[p]
<1>1. DOMAIN stage' = Callers
  BY StageMoves DEF ClaimsFirst, GoTo
<1>2. \A p \in Placements : stage'[p] \in BeforeClaim => stage[p] \in BeforeClaim
  BY StageMoves DEF ClaimsFirst, GoTo, Callers
<1>3. CASE UNCHANGED rows
  BY <1>1, <1>2, <1>3 DEF ClaimsFirst
<1>4. CASE \E p \in Placements : stage[p] = "claiming" /\ rows' = Claimed(p)
                                 /\ \E to \in {"claimed", "leaving"} : GoTo(p, to)
  <2>1. PICK p \in Placements, to \in {"claimed", "leaving"} :
          stage[p] = "claiming" /\ rows' = Claimed(p) /\ GoTo(p, to)
    BY <1>4
  <2>2. stage'[p] = to /\ rows[p] = NoRow
    BY <2>1 DEF ClaimsFirst, GoTo, Callers, BeforeClaim
  <2>3. DOMAIN rows' = Placements /\ \A q \in Placements \ {p} : rows'[q] = rows[q]
    BY <2>1 DEF Claimed, ClaimsFirst
  <2>4. stage'[p] \notin BeforeClaim /\ StatusOf(p) = "absent"
    BY <2>2 DEF BeforeClaim, StatusOf
  <2> QED
    BY <1>1, <1>2, <2>3, <2>4 DEF ClaimsFirst
<1>5. CASE \E p \in Unresolved : \E status, id : rows' = Settled(p, status, id)
  <2>1. PICK p \in Unresolved : \E status, id : rows' = Settled(p, status, id)
    BY <1>5
  <2>2. p \in Placements /\ rows[p] # NoRow /\ StatusOf(p) = "unresolved"
    BY DEF Unresolved, StatusOf
  <2>3. DOMAIN rows' = Placements /\ \A q \in Placements \ {p} : rows'[q] = rows[q]
    BY <2>1, <2>2 DEF Settled, ClaimsFirst
  <2> QED
    BY <1>1, <1>2, <2>2, <2>3 DEF ClaimsFirst
<1> QED
  BY <1>3, <1>4, <1>5, RowsWritten

\* A settled row never changes again, however late another settle of it lands after a lapsed
\* lease, and whatever the broker's history shows (AND status = 'unresolved').
THEOREM SettledStays == OrderSpec => SettledIsFinal
<1>1. OrderInit => ClaimsFirst
  BY DEF OrderInit, ClaimsFirst
<1>2. ClaimsFirst /\ [OrderNext]_orderVars => ClaimsFirst'
  BY ClaimsFirstStep
<1>3. ClaimsFirst /\ [OrderNext]_orderVars =>
        [\A p \in Placements : StatusOf(p) \in {"executed", "failed"} => rows'[p] = rows[p]]_rows
  BY ClaimsFirstStep
<1> QED
  BY <1>1, <1>2, <1>3, PTL DEF OrderSpec, SettledIsFinal

(***************************************************************************)
(* What the orders mean                                                    *)
(***************************************************************************)

OrderStates == {"live", "rejected", "replaced", "cancelled", "filled"}
Leg == [side : Buys \cup Closes \cup {"none", "Sell to Open"}, symbol : Symbols, quantity : Nat]
Payload == [legs : Seq(Leg), effect : {"Debit", "Credit"}, price : Int, strict : BOOLEAN]
BookOrder == [legs : Seq(Leg), effect : {"Debit", "Credit"}, price : Int, strict : BOOLEAN,
              filled : Nat, state : OrderStates, replaces : Nat]
StoredReplacement == [kind : {"replace"}, order : Nat, price : Int, of : FreshOrder]
StoredRow == [action : FreshOrder \cup StoredReplacement, payload : Payload,
        status : {"unresolved", "failed", "executed"}, order : Nat, since : Nat]
GuardedSteps == {"guarding", "pricing", "dryRun", "sending", "settling"}
Call == [step : {"resolving", "reading"} \cup GuardedSteps,
         action : FreshOrder \cup [kind : {"replace"}, order : Nat, price : Int],
         source : FreshOrder, ticket : FreshOrder, payload : Payload, order : Nat]

IntentShape ==
  /\ held \in [Symbols -> Int] /\ book \in Seq(BookOrder) /\ ledger \in Seq(StoredRow)
  /\ call = Idle \/ call \in Call

\* An order that closes has one leg, and the broker was told that it closes.
ClosesAlone(o) == \A k \in DOMAIN o.legs : Closing(o.legs[k]) => o.strict = TRUE /\ Len(o.legs) = 1

\* A replacement is of an order of the book, and has its legs.
Succeeds(o) == o.replaces # 0 => o.replaces \in DOMAIN book /\ o.legs = book[o.replaces].legs
BookInv == \A n \in DOMAIN book : ClosesAlone(book[n]) /\ Succeeds(book[n])

\* A row rebuilds its body, and names an order only when it is executed: its own.
Names(row, n) ==
  /\ n \in DOMAIN book /\ EchoesOrderPayload(book[n], row.payload)
  /\ row.action.kind = "replace" => book[n].replaces = row.action.order
RowInv(i) ==
  /\ Fingerprint(ledger[i])
  /\ ledger[i].action.kind = "replace" => ledger[i].action.order \in DOMAIN book
  /\ ledger[i].status # "executed" => ledger[i].order = 0
  /\ ledger[i].status = "executed" =>
       /\ Names(ledger[i], ledger[i].order)
       /\ \A j \in DOMAIN ledger : ledger[j].order = ledger[i].order => j = i
LedgerInv == \A i \in DOMAIN ledger : RowInv(i)

\* What is held of an order while it is placed: its body is its ticket's, a replacement's
\* has the legs of the order it replaces, and the row that was claimed is the last.
LegCount(t) == IF t.kind = "spread" THEN 2 ELSE 1
Rebuilds(c) == c.payload = BuildOrderPayload(c.ticket, SymbolsOf(c.payload))
ClaimedLast(c) ==
  /\ Len(ledger) \in DOMAIN ledger /\ ledger[Len(ledger)].action = StoredAction(c)
  /\ ledger[Len(ledger)].payload = c.payload /\ ledger[Len(ledger)].status = "unresolved"
CallOK(c) ==
  /\ c.action.kind = "replace" => c.action.order \in DOMAIN book
  /\ c.action.kind # "replace" => c.ticket = c.action
  /\ c.step # "resolving" =>
       Rebuilds(c) /\ Len(c.payload.legs) = LegCount(c.ticket) /\ ClosesAlone(c.payload)
  /\ c.step \in {"resolving", "reading"} => c.ticket = c.source
  /\ c.step = "reading" => c.action.kind = "replace"
  /\ c.step \in GuardedSteps /\ c.action.kind = "replace" =>
       c.payload.legs = book[c.action.order].legs
  /\ c.step \in {"sending", "settling"} => ClaimedLast(c)
  /\ c.step # "settling" => c.order = 0
  /\ c.step = "settling" /\ c.order # 0 =>
       Names(c, c.order) /\ \A i \in DOMAIN ledger : ledger[i].order # c.order
CallInv == call # Idle => CallOK(call)

IntentIInv == IntentShape /\ BookInv /\ LedgerInv /\ CallInv

\* The body that is built has one leg to a symbol; one that closes has one leg, and is strict.
LEMMA BuiltPayload ==
  ASSUME NEW t \in FreshOrder, NEW symbols \in Seq(Symbols), Len(symbols) = LegCount(t)
  PROVE  /\ BuildOrderPayload(t, symbols) \in Payload
         /\ SymbolsOf(BuildOrderPayload(t, symbols)) = symbols
         /\ ClosesAlone(BuildOrderPayload(t, symbols))
         /\ Len(BuildOrderPayload(t, symbols).legs) = LegCount(t)
<1> DEFINE sides == IF t.kind = "spread" THEN <<"Buy to Open", "Sell to Open">> ELSE <<t.side>>
           legs == [k \in DOMAIN symbols |->
                     [side |-> sides[k], symbol |-> symbols[k], quantity |-> t.quantity]]
           strict == \E k \in DOMAIN sides : sides[k] \in Closes
<1>1. BuildOrderPayload(t, symbols) = [legs |-> legs, effect |-> t.effect, price |-> t.price, strict |-> strict]
  BY DEF BuildOrderPayload
<1>2. /\ t.kind \in DOMAIN StrikeCount /\ t.side \in Buys \cup Closes \cup {"none"}
      /\ t.quantity \in Nat /\ t.effect \in {"Debit", "Credit"} /\ t.price \in Int
  BY DEF FreshOrder
<1>3. DOMAIN symbols = 1..LegCount(t) /\ \A k \in DOMAIN symbols : symbols[k] \in Symbols
  OBVIOUS
<1>a. t.kind = "spread" =>
        LegCount(t) = 2 /\ sides[1] = "Buy to Open" /\ sides[2] = "Sell to Open" /\ DOMAIN sides = 1..2
  BY DEF LegCount
<1>b. t.kind # "spread" => LegCount(t) = 1 /\ sides[1] = t.side /\ DOMAIN sides = 1..1
  BY DEF LegCount
<1>c. LegCount(t) \in Nat
  BY DEF LegCount
<1>d. \A k \in 1..LegCount(t) : k = 1 \/ (k = 2 /\ t.kind = "spread")
  BY DEF LegCount
<1> HIDE DEF sides
<1>4. \A k \in 1..LegCount(t) : sides[k] \in Buys \cup Closes \cup {"none", "Sell to Open"}
  <2> SUFFICES ASSUME NEW k \in 1..LegCount(t)
               PROVE  sides[k] \in Buys \cup Closes \cup {"none", "Sell to Open"}
    OBVIOUS
  <2>1. CASE t.kind = "spread"
    BY <1>a, <1>d, <2>1 DEF Buys
  <2>2. CASE t.kind # "spread"
    BY <1>b, <1>d, <1>2, <2>2
  <2> QED
    BY <2>1, <2>2
<1>5. DOMAIN legs = 1..LegCount(t) /\ legs \in Seq(Leg) /\ Len(legs) = LegCount(t)
  <2>1. \A k \in 1..LegCount(t) : legs[k] \in Leg
    BY <1>2, <1>3, <1>4 DEF Leg
  <2>2. DOMAIN legs = 1..LegCount(t) /\ legs = [k \in 1..LegCount(t) |-> legs[k]]
    BY <1>3
  <2> HIDE DEF legs
  <2>3. legs \in [1..LegCount(t) -> Leg]
    BY <2>1, <2>2
  <2> QED
    BY <1>c, <2>2, <2>3
<1>6. strict \in BOOLEAN
  OBVIOUS
<1>7. \A k \in DOMAIN legs : Closing(legs[k]) => strict /\ LegCount(t) = 1
  <2>1. \A k \in 1..LegCount(t) : legs[k].side = sides[k]
    BY <1>3
  <2> HIDE DEF legs
  <2> SUFFICES ASSUME NEW k \in 1..LegCount(t), sides[k] \in Closes PROVE strict /\ LegCount(t) = 1
    BY <1>5, <2>1 DEF Closing
  <2>2. k = 1 \/ k = 2
    BY <1>d
  <2>3. "Buy to Open" \notin Closes /\ "Sell to Open" \notin Closes
    BY DEF Closes
  <2>4. t.kind # "spread"
    BY <1>a, <2>2, <2>3
  <2> QED
    BY <1>b, <2>4
<1>8. \A k \in DOMAIN symbols : legs[k].symbol = symbols[k]
  BY <1>3
<1>9. SymbolsOf([legs |-> legs, effect |-> t.effect, price |-> t.price, strict |-> strict]) = symbols
  <2>1. DOMAIN legs = DOMAIN symbols
    BY <1>3, <1>5
  <2> HIDE DEF legs
  <2> QED
    BY <2>1, <1>8 DEF SymbolsOf
<1> HIDE DEF legs, strict, sides
<1> QED
  BY <1>1, <1>2, <1>5, <1>6, <1>7, <1>9 DEF Payload, ClosesAlone

LEMMA ResolvedSymbol ==
  ASSUME NEW t \in FreshOrder, NEW chain \in Chains, Resolves(t, chain)
  PROVE  ResolvedSymbols(t, chain) \in Seq(Symbols) /\ Len(ResolvedSymbols(t, chain)) = LegCount(t)
<1>1. t.strikes \in Seq(Int) /\ Len(t.strikes) = StrikeCount[t.kind] /\ t.kind \in {"equity", "option", "spread"}
  BY DEF FreshOrder, StrikeCount
<1>2. CASE t.kind = "equity"
  <2>1. ResolvedSymbols(t, chain) = <<Share>> /\ Share \in Symbols
    BY <1>2, IntentAssumption DEF ResolvedSymbols
  <2> QED
    BY <1>2, <2>1 DEF LegCount
<1>3. CASE t.kind # "equity"
  <2>1. DOMAIN t.strikes = 1..LegCount(t) /\ LegCount(t) \in Nat
    BY <1>1, <1>3 DEF StrikeCount, LegCount
  <2> DEFINE found == [k \in DOMAIN t.strikes |-> Candidates(chain, t.strikes[k], Opens(t))]
             chosen(k) == (CHOOSE l \in Candidates(chain, t.strikes[k], Opens(t)) : TRUE).symbol
  <2>2. ASSUME NEW k \in DOMAIN t.strikes PROVE chosen(k) \in Symbols
    <3>1. Cardinality(Candidates(chain, t.strikes[k], Opens(t))) = 1
      BY DEF Resolves
    <3>2. Candidates(chain, t.strikes[k], Opens(t)) # {}
      BY <3>1, FS_EmptySet
    <3>3. (CHOOSE l \in Candidates(chain, t.strikes[k], Opens(t)) : TRUE) \in Candidates(chain, t.strikes[k], Opens(t))
      BY <3>2
    <3>4. Candidates(chain, t.strikes[k], Opens(t)) \subseteq chain
      BY DEF Candidates
    <3> QED
      BY <3>3, <3>4, IntentAssumption
  <2>3. ResolvedSymbols(t, chain) = [k \in DOMAIN t.strikes |-> chosen(k)]
    BY <1>3 DEF ResolvedSymbols
  <2> HIDE DEF chosen
  <2>4. ResolvedSymbols(t, chain) \in [1..LegCount(t) -> Symbols]
    BY <2>1, <2>2, <2>3
  <2> QED
    BY <2>1, <2>4
<1> QED
  BY <1>2, <1>3

(***************************************************************************)
(* What every step keeps                                                   *)
(***************************************************************************)

BookKept ==
  /\ Len(book) <= Len(book')
  /\ \A n \in DOMAIN book :
       /\ n \in DOMAIN book' /\ book'[n].legs = book[n].legs /\ book'[n].effect = book[n].effect
       /\ book'[n].price = book[n].price /\ book'[n].strict = book[n].strict
       /\ book'[n].replaces = book[n].replaces

FilledKept == \A n \in DOMAIN book : book'[n].filled = book[n].filled

LEMMA LedgerStays ==
  ASSUME LedgerInv, BookKept, ledger' = ledger
  PROVE  LedgerInv'
<1> SUFFICES ASSUME NEW i \in DOMAIN ledger PROVE RowInv(i)'
  BY DEF LedgerInv
<1>1. RowInv(i)
  BY DEF LedgerInv
<1>2. Fingerprint(ledger[i])' <=> Fingerprint(ledger[i])
  BY DEF Fingerprint, EffectiveStoredOrder, BuildOrderPayload, SymbolsOf
<1> QED
  BY <1>1, <1>2 DEF RowInv, BookKept, Names, EchoesOrderPayload

LEMMA CallStays ==
  ASSUME CallInv, BookKept, ledger' = ledger, call' = call
  PROVE  CallInv'
<1> SUFFICES ASSUME call # Idle, CallOK(call) PROVE CallOK(call)'
  BY DEF CallInv, Idle
<1> QED
  BY DEF CallOK, BookKept, Names, EchoesOrderPayload, ClaimedLast, StoredAction, Stored,
         Rebuilds, BuildOrderPayload, SymbolsOf, ClosesAlone, Closing, LegCount

LEMMA BookStays ==
  ASSUME BookInv, BookKept, DOMAIN book' = DOMAIN book
  PROVE  BookInv'
  BY DEF BookInv, BookKept, ClosesAlone, Succeeds

LEMMA BookAppends ==
  ASSUME BookInv, BookKept, book \in Seq(BookOrder), book' \in Seq(BookOrder), Len(book') = Len(book) + 1,
         ClosesAlone(book'[Len(book')]),
         book'[Len(book')].replaces # 0 =>
           /\ book'[Len(book')].replaces \in DOMAIN book
           /\ book'[Len(book')].legs = book[book'[Len(book')].replaces].legs
  PROVE  BookInv'
<1> SUFFICES ASSUME NEW n \in DOMAIN book' PROVE ClosesAlone(book'[n]) /\ Succeeds(book[n])'
  BY DEF BookInv, ClosesAlone
<1>1. CASE n \in DOMAIN book
  BY <1>1 DEF BookInv, BookKept, ClosesAlone, Succeeds
<1>2. CASE n \notin DOMAIN book
  <2>1. n = Len(book')
    BY <1>2
  <2> QED
    BY <2>1 DEF BookKept, Succeeds
<1> QED
  BY <1>1, <1>2

LEMMA Goes ==
  ASSUME IntentIInv, NEW c, c = Idle \/ (c \in Call /\ CallOK(c)),
         call' = c, UNCHANGED <<held, book, ledger>>
  PROVE  IntentIInv'
<1>1. BookKept
  BY DEF BookKept
<1>2. IntentShape'
  BY DEF IntentIInv, IntentShape, Idle
<1>3. BookInv' /\ LedgerInv'
  BY <1>1, BookStays, LedgerStays DEF IntentIInv
<1>4. CallInv'
  <2> SUFFICES ASSUME c # Idle PROVE CallOK(c)'
    BY DEF CallInv, Idle
  <2> CallOK(c)
    OBVIOUS
  <2> QED
    BY DEF CallOK, Names, EchoesOrderPayload, ClaimedLast, StoredAction, Stored,
           Rebuilds, BuildOrderPayload, SymbolsOf, ClosesAlone, Closing, LegCount
<1> QED
  BY <1>2, <1>3, <1>4 DEF IntentIInv

(***************************************************************************)
(* The placement's steps                                                   *)
(***************************************************************************)

LEMMA Busy ==
  ASSUME IntentIInv, NEW s \in {"resolving", "reading"} \cup GuardedSteps, At(s)
  PROVE  call \in Call /\ CallOK(call) /\ call.step = s
<1>1. "idle" \notin {"resolving", "reading"} \cup GuardedSteps
  BY DEF GuardedSteps
<1>2. call # Idle
  BY <1>1 DEF At, Idle
<1> QED
  BY <1>2 DEF IntentIInv, IntentShape, CallInv, At

LEMMA Resting == ASSUME IntentIInv, At("idle") PROVE call = Idle
  BY DEF IntentIInv, IntentShape, At, Call, GuardedSteps

LEMMA StoredKinds ==
  /\ \A a \in FreshOrder : a.kind # "replace" /\ EffectiveStoredOrder(a) = a
  /\ \A a \in FreshOrder \cup StoredReplacement : EffectiveStoredOrder(a) \in FreshOrder
<1>1. \A a \in FreshOrder : a.kind # "replace"
  BY DEF FreshOrder, StrikeCount
<1> QED
  BY <1>1 DEF EffectiveStoredOrder, StoredReplacement

LEMMA AskStep == ASSUME IntentIInv, Ask PROVE IntentIInv'
<1> UNCHANGED <<held, book, ledger>>
  BY DEF Ask
<1>1. NoPayload \in Payload
  BY DEF NoPayload, Payload
<1>2. ASSUME NEW a \in FreshOrder \cup [kind : {"replace"}, order : Nat, price : Int],
             NEW t \in FreshOrder, call' = Asking(a, t),
             a.kind = "replace" => a.order \in DOMAIN book,
             a.kind # "replace" => t = a
      PROVE  IntentIInv'
  <2> DEFINE c == Asking(a, t)
  <2>1. /\ c \in Call /\ c.step = "resolving" /\ c.action = a /\ c.ticket = t /\ c.source = t /\ c.order = 0
    BY <1>1 DEF Asking, Call
  <2> HIDE DEF c
  <2>2. CallOK(c)
    BY <1>2, <2>1 DEF CallOK, GuardedSteps
  <2>3. call' = c
    BY <1>2 DEF c
  <2> QED
    BY <2>1, <2>2, <2>3, Goes
<1>3. ASSUME NEW t \in Tickets, call' = Asking(t, t) PROVE IntentIInv'
  BY <1>2, <1>3, StoredKinds, IntentAssumption
<1>4. ASSUME NEW a \in Replacements, NEW i \in SourceRows(a.order),
             call' = Asking(a, EffectiveStoredOrder(ledger[i].action))
      PROVE  IntentIInv'
  <2>1. a \in [kind : {"replace"}, order : Nat, price : Int] /\ a.kind = "replace" /\ a.order \in DOMAIN book
    <3>1. a.kind = "replace" /\ a.order \in DOMAIN book /\ a.price \in Prices
          /\ a \in [kind : {"replace"}, order : DOMAIN book, price : Prices]
      BY DEF Replacements
    <3>2. DOMAIN book \subseteq Nat /\ Prices \subseteq Int
      BY IntentAssumption DEF IntentIInv, IntentShape
    <3> QED
      BY <3>1, <3>2
  <2>2. ledger[i].action \in FreshOrder \cup StoredReplacement
    <3>1. i \in DOMAIN ledger /\ ledger \in Seq(StoredRow)
      BY DEF SourceRows, IntentIInv, IntentShape
    <3>2. ledger[i] \in StoredRow
      BY <3>1
    <3> QED
      BY <3>2 DEF StoredRow
  <2>3. EffectiveStoredOrder(ledger[i].action) \in FreshOrder
    BY <2>2, StoredKinds
  <2> QED
    BY <1>2, <1>4, <2>1, <2>3
<1> QED
  BY <1>3, <1>4 DEF Ask

LEMMA ResolveStep == ASSUME IntentIInv, ResolveFreshOrder PROVE IntentIInv'
<1>1. call \in Call /\ CallOK(call) /\ call.step = "resolving"
  BY Busy DEF ResolveFreshOrder
<1> DEFINE next == IF call.action.kind = "replace" THEN "reading" ELSE "guarding"
<1> PICK chain \in Chains :
      /\ Resolves(call.ticket, chain)
      /\ Proceeds([call EXCEPT !.step = next,
                     !.payload = BuildOrderPayload(call.ticket, ResolvedSymbols(call.ticket, chain))])
  BY DEF ResolveFreshOrder
<1> DEFINE symbols == ResolvedSymbols(call.ticket, chain)
           body == BuildOrderPayload(call.ticket, symbols)
           c == [call EXCEPT !.step = next, !.payload = body]
<1>2. call.ticket \in FreshOrder
  BY <1>1 DEF Call
<1>3. symbols \in Seq(Symbols) /\ Len(symbols) = LegCount(call.ticket)
  BY <1>2, ResolvedSymbol
<1>4. body \in Payload /\ SymbolsOf(body) = symbols /\ ClosesAlone(body) /\ Len(body.legs) = LegCount(call.ticket)
  BY <1>2, <1>3, BuiltPayload
<1>5. call' = c /\ UNCHANGED <<held, book, ledger>>
  BY DEF Proceeds
<1>6. body = BuildOrderPayload(call.ticket, SymbolsOf(body))
  BY <1>4
<1> HIDE DEF body, symbols
<1>7. /\ c \in Call /\ c.step = next /\ c.payload = body /\ c.action = call.action
      /\ c.ticket = call.ticket /\ c.source = call.source /\ c.order = call.order
  BY <1>1, <1>4 DEF Call, GuardedSteps
<1> HIDE DEF c
<1>8. CallOK(c)
  <2>1. call.action.kind = "replace" => c.step = "reading"
    BY <1>7
  <2>2. call.action.kind # "replace" => c.step = "guarding"
    BY <1>7
  <2> QED
    BY <1>1, <1>4, <1>6, <1>7, <2>1, <2>2 DEF CallOK, Rebuilds, GuardedSteps
<1> QED
  BY <1>5, <1>7, <1>8, Goes

\* Another price changes no leg.
LEMMA RepricedPayload ==
  ASSUME NEW t \in FreshOrder, NEW p \in Int, NEW symbols
  PROVE  /\ [t EXCEPT !.price = p] \in FreshOrder
         /\ LegCount([t EXCEPT !.price = p]) = LegCount(t)
         /\ BuildOrderPayload([t EXCEPT !.price = p], symbols).legs = BuildOrderPayload(t, symbols).legs
<1> DEFINE n == [t EXCEPT !.price = p]
<1>1. n \in FreshOrder /\ n.kind = t.kind /\ n.side = t.side /\ n.quantity = t.quantity
  BY DEF FreshOrder
<1> HIDE DEF n
<1>2. LegCount(n) = LegCount(t)
  BY <1>1 DEF LegCount
<1>3. BuildOrderPayload(n, symbols).legs = BuildOrderPayload(t, symbols).legs
  BY <1>1 DEF BuildOrderPayload
<1> QED
  BY <1>1, <1>2, <1>3 DEF n

LEMMA ExpandStep == ASSUME IntentIInv, ExpandReplacement PROVE IntentIInv'
<1>1. call \in Call /\ CallOK(call) /\ call.step = "reading"
  BY Busy DEF ExpandReplacement
<1> DEFINE t == [call.source EXCEPT !.price = call.action.price]
           symbols == SymbolsOf(call.payload)
           body == BuildOrderPayload(t, symbols)
           c == [call EXCEPT !.step = "guarding", !.ticket = t, !.payload = body]
<1>2. /\ call.action.kind = "replace" /\ call.ticket = call.source
      /\ Rebuilds(call) /\ Len(call.payload.legs) = LegCount(call.ticket)
  BY <1>1 DEF CallOK
<1>3. call.source \in FreshOrder /\ call.action.price \in Int /\ call.payload \in Payload
  BY <1>1, <1>2, StoredKinds DEF Call
<1>4. t \in FreshOrder /\ LegCount(t) = LegCount(call.source)
  BY <1>3, RepricedPayload
<1>5. body.legs = call.payload.legs
  <2>1. body.legs = BuildOrderPayload(call.source, symbols).legs
    BY <1>3, RepricedPayload
  <2> QED
    BY <1>2, <2>1 DEF Rebuilds
<1>6. symbols \in Seq(Symbols) /\ Len(symbols) = LegCount(t)
  <2>1. call.payload.legs \in Seq(Leg) /\ Len(call.payload.legs) = LegCount(t)
    BY <1>2, <1>3, <1>4 DEF Payload
  <2> DEFINE legs == call.payload.legs
  <2>2. LegCount(t) \in Nat /\ DOMAIN legs = 1..LegCount(t) /\ \A k \in DOMAIN legs : legs[k] \in Leg
    BY <2>1 DEF LegCount
  <2>3. symbols = [k \in DOMAIN legs |-> legs[k].symbol]
    BY DEF SymbolsOf
  <2> HIDE DEF legs, symbols
  <2>4. symbols \in [1..LegCount(t) -> Symbols]
    BY <2>2, <2>3 DEF Leg
  <2> QED
    BY <2>2, <2>4
<1>7. body \in Payload /\ SymbolsOf(body) = symbols /\ ClosesAlone(body) /\ Len(body.legs) = LegCount(t)
  BY <1>4, <1>6, BuiltPayload
<1>8. body = BuildOrderPayload(t, SymbolsOf(body))
  BY <1>7
<1>9. /\ call' = c /\ UNCHANGED <<held, book, ledger>>
      /\ book[call.action.order].legs = call.payload.legs
  BY DEF ExpandReplacement, Proceeds, Replaceable, EchoesOrderPayload
<1> HIDE DEF t, symbols, body
<1>10. /\ c \in Call /\ c.step = "guarding" /\ c.ticket = t /\ c.payload = body
       /\ c.action = call.action /\ c.order = call.order
  BY <1>1, <1>4, <1>7 DEF Call, GuardedSteps
<1> HIDE DEF c
<1>11. CallOK(c)
  BY <1>1, <1>2, <1>5, <1>7, <1>8, <1>9, <1>10 DEF CallOK, Rebuilds, GuardedSteps
<1> QED
  BY <1>9, <1>10, <1>11, Goes

\* A guard that passes only moves the placement on.
LEMMA GuardPasses ==
  ASSUME IntentIInv, call \in Call, CallOK(call), call.step \in {"guarding", "pricing"},
         NEW s \in {"pricing", "dryRun"}, Proceeds([call EXCEPT !.step = s])
  PROVE  IntentIInv'
<1> DEFINE c == [call EXCEPT !.step = s]
<1>1. call' = c /\ UNCHANGED <<held, book, ledger>>
  BY DEF Proceeds
<1>2. /\ c \in Call /\ c.step = s /\ c.ticket = call.ticket /\ c.payload = call.payload
      /\ c.action = call.action /\ c.order = call.order
  BY DEF Call, GuardedSteps
<1> HIDE DEF c
<1>3. CallOK(c)
  BY <1>2 DEF CallOK, Rebuilds, GuardedSteps
<1> QED
  BY <1>1, <1>2, <1>3, Goes

LEMMA GuardStep ==
  ASSUME IntentIInv, AssertPortfolioActionAllowed \/ AssertOrderMarketSafe \/ EndsUnsent
  PROVE  IntentIInv'
<1>1. CASE AssertPortfolioActionAllowed
  BY <1>1, Busy, GuardPasses DEF AssertPortfolioActionAllowed, GuardedSteps
<1>2. CASE AssertOrderMarketSafe
  BY <1>2, Busy, GuardPasses DEF AssertOrderMarketSafe, GuardedSteps
<1>3. CASE EndsUnsent
  BY <1>3, Goes DEF EndsUnsent, Proceeds
<1> QED
  BY <1>1, <1>2, <1>3

LEMMA ClaimStep == ASSUME IntentIInv, ClaimRow PROVE IntentIInv'
<1>1. call \in Call /\ CallOK(call) /\ call.step = "dryRun"
  BY Busy DEF ClaimRow, GuardedSteps
<1> DEFINE row == [action |-> StoredAction(call), payload |-> call.payload,
                   status |-> "unresolved", order |-> 0, since |-> Len(book)]
           c == [call EXCEPT !.step = "sending"]
<1>2. ledger' = Append(ledger, row) /\ call' = c /\ UNCHANGED <<held, book>>
  BY DEF ClaimRow
<1>3. /\ call.ticket \in FreshOrder /\ call.payload \in Payload
      /\ call.action \in FreshOrder \cup [kind : {"replace"}, order : Nat, price : Int]
      /\ ledger \in Seq(StoredRow) /\ book \in Seq(BookOrder)
  BY <1>1 DEF Call, IntentIInv, IntentShape
<1>4. /\ StoredAction(call) \in FreshOrder \cup StoredReplacement
      /\ EffectiveStoredOrder(StoredAction(call)) = call.ticket
      /\ StoredAction(call).kind = call.action.kind
      /\ call.action.kind = "replace" => StoredAction(call).order = call.action.order
  <2>1. CASE call.action.kind = "replace"
    BY <1>3, <2>1, StoredKinds DEF StoredAction, Stored, StoredReplacement, EffectiveStoredOrder
  <2>2. CASE call.action.kind # "replace"
    BY <1>1, <1>3, <2>2, StoredKinds DEF StoredAction, Stored, EffectiveStoredOrder, CallOK
  <2> QED
    BY <2>1, <2>2
<1> HIDE DEF c
<1>5. /\ c \in Call /\ c.step = "sending" /\ c.ticket = call.ticket /\ c.payload = call.payload
      /\ c.action = call.action /\ c.order = call.order
  BY <1>1 DEF Call, GuardedSteps, c
<1>6. /\ row \in StoredRow /\ row.action = StoredAction(call) /\ row.payload = call.payload
      /\ row.status = "unresolved" /\ row.order = 0
  <2>1. Len(book) \in Nat
    BY <1>3
  <2> QED
    BY <1>3, <1>4, <2>1 DEF StoredRow
<1> HIDE DEF row
<1>7. /\ ledger' \in Seq(StoredRow) /\ Len(ledger') = Len(ledger) + 1 /\ ledger'[Len(ledger')] = row
      /\ \A i \in DOMAIN ledger : i \in DOMAIN ledger' /\ ledger'[i] = ledger[i]
      /\ \A i \in DOMAIN ledger' : i \in DOMAIN ledger \/ i = Len(ledger')
      /\ Len(ledger') \in DOMAIN ledger'
  BY <1>2, <1>3, <1>6
<1>8. LedgerInv'
  <2> SUFFICES ASSUME NEW i \in DOMAIN ledger' PROVE RowInv(i)'
    BY DEF LedgerInv
  <2>1. CASE i \in DOMAIN ledger
    <3>1. RowInv(i) /\ ledger'[i] = ledger[i]
      BY <1>7, <2>1 DEF IntentIInv, LedgerInv
    <3>2. Fingerprint(ledger'[i])
      BY <3>1 DEF RowInv
    <3>3. ledger[i].status = "executed" => ledger[i].order # 0
      BY <1>3, <3>1 DEF RowInv, Names
    <3> QED
      BY <1>2, <1>6, <1>7, <3>1, <3>2, <3>3 DEF RowInv, Names, EchoesOrderPayload, Fingerprint
  <2>2. CASE i = Len(ledger')
    <3>1. ledger'[i] = row
      BY <1>7, <2>2
    <3>2. Fingerprint(row)
      BY <1>1, <1>4, <1>6 DEF Fingerprint, CallOK, Rebuilds
    <3>3. row.action.kind = "replace" => row.action.order \in DOMAIN book
      BY <1>1, <1>4, <1>6 DEF CallOK
    <3> QED
      BY <1>2, <1>6, <3>1, <3>2, <3>3 DEF RowInv, Fingerprint
  <2> QED
    BY <1>7, <2>1, <2>2
<1>9. CallInv'
  <2> PICK d \in Call : d = c
    BY <1>5
  <2>1. ClaimedLast(d)'
    BY <1>2, <1>5, <1>6, <1>7 DEF ClaimedLast, StoredAction
  <2>2. CallOK(d)'
    BY <1>1, <1>2, <1>5, <2>1 DEF CallOK, Rebuilds, GuardedSteps, ClosesAlone, Closing
  <2>3. call' = d
    BY <1>2
  <2> QED
    BY <2>2, <2>3 DEF CallInv
<1>10. BookInv'
  BY <1>2 DEF IntentIInv, BookInv, ClosesAlone, Succeeds, Closing
<1>11. IntentShape'
  BY <1>2, <1>5, <1>7 DEF IntentIInv, IntentShape
<1> QED
  BY <1>8, <1>9, <1>10, <1>11 DEF IntentIInv

\* The order that is received, wherever it stands afterwards: a fresh one is what was built; a
\* replacement has the legs of the order it replaces, and the price and the mark that were sent.
LEMMA ReceivedOrder ==
  ASSUME IntentIInv, At("sending"), NEW state \in {"live", "rejected"}, Receives(state)
  PROVE  /\ BookKept /\ FilledKept
         /\ book' \in Seq(BookOrder) /\ Len(book') = Len(book) + 1 /\ Len(book') \in Nat
         /\ book'[Len(book')].legs = call.payload.legs
         /\ ClosesAlone(book'[Len(book')])
         /\ book'[Len(book')].replaces =
              (IF call.action.kind = "replace" THEN call.action.order ELSE 0)
<1>1. call \in Call /\ CallOK(call) /\ call.step = "sending"
  BY Busy DEF GuardedSteps
<1>2. call.payload \in Payload /\ ClosesAlone(call.payload) /\ book \in Seq(BookOrder)
  BY <1>1 DEF Call, CallOK, IntentIInv, IntentShape
<1>3. CASE call.action.kind # "replace"
  <2> DEFINE o == PlacedOrder(call.payload, 0, state)
  <2>1. book' = Append(book, o)
    BY <1>3 DEF Receives
  <2>2. /\ o \in BookOrder /\ o.legs = call.payload.legs /\ o.replaces = 0
        /\ o.strict = call.payload.strict
    BY <1>2 DEF PlacedOrder, BookOrder, Payload, OrderStates
  <2> HIDE DEF o
  <2>3. /\ book' \in Seq(BookOrder) /\ Len(book') = Len(book) + 1 /\ book'[Len(book')] = o
        /\ Len(book) \in Nat
        /\ \A n \in DOMAIN book : n \in DOMAIN book' /\ book'[n] = book[n]
    BY <1>2, <2>1, <2>2
  <2>4. ClosesAlone(o)
    BY <1>2, <2>2 DEF ClosesAlone
  <2> QED
    BY <1>3, <2>2, <2>3, <2>4 DEF BookKept, FilledKept
<1>4. CASE call.action.kind = "replace"
  <2> DEFINE n == call.action.order
             body == ReplacementOrderPayload(call.payload)
             old == book[n]
             changed == [old EXCEPT !.effect = body.effect, !.price = body.price, !.strict = body.strict]
             o == PlacedOrder(changed, n, state)
             rest == IF state = "live" THEN [book EXCEPT ![n].state = "replaced"] ELSE book
  <2>1. book' = Append(rest, o) /\ n \in DOMAIN book
    BY <1>4 DEF Receives, Works
  <2>2. old \in BookOrder /\ old.legs = call.payload.legs /\ n \in Nat
    BY <1>1, <1>2, <1>4, <2>1 DEF CallOK, GuardedSteps
  <2>3. /\ body.effect \in {"Debit", "Credit"} /\ body.price \in Int /\ body.strict \in BOOLEAN
        /\ body.strict = call.payload.strict
    BY <1>2 DEF ReplacementOrderPayload, Payload
  <2>4. rest \in Seq(BookOrder) /\ Len(rest) = Len(book)
        /\ \A k \in DOMAIN book : k \in DOMAIN rest /\ rest[k].legs = book[k].legs
             /\ rest[k].effect = book[k].effect /\ rest[k].price = book[k].price
             /\ rest[k].strict = book[k].strict /\ rest[k].replaces = book[k].replaces
             /\ rest[k].filled = book[k].filled
    <3> DEFINE gone == [old EXCEPT !.state = "replaced"]
    <3>1. gone \in BookOrder /\ gone.legs = old.legs /\ gone.effect = old.effect
          /\ gone.price = old.price /\ gone.strict = old.strict /\ gone.replaces = old.replaces
          /\ gone.filled = old.filled
      <4> HIDE DEF old
      <4> QED
        BY <2>2 DEF BookOrder, OrderStates
    <3>2. rest = IF state = "live" THEN [book EXCEPT ![n] = gone] ELSE book
      OBVIOUS
    <3> HIDE DEF gone, rest
    <3>3. [book EXCEPT ![n] = gone] \in Seq(BookOrder)
          /\ Len([book EXCEPT ![n] = gone]) = Len(book)
          /\ \A k \in DOMAIN book : [book EXCEPT ![n] = gone][k] = (IF k = n THEN gone ELSE book[k])
      BY <1>2, <2>1, <3>1
    <3> QED
      BY <1>2, <3>1, <3>2, <3>3
  <2> HIDE DEF body, old, rest
  <2>5. /\ changed.legs = old.legs /\ changed.effect = body.effect /\ changed.price = body.price
        /\ changed.strict = body.strict
    BY <2>2 DEF BookOrder
  <2> HIDE DEF changed
  <2>6. /\ o \in BookOrder /\ o.legs = call.payload.legs /\ o.replaces = n
        /\ o.strict = call.payload.strict
    BY <2>2, <2>3, <2>5 DEF PlacedOrder, BookOrder, OrderStates
  <2> HIDE DEF o
  <2>7. /\ book' \in Seq(BookOrder) /\ Len(book') = Len(rest) + 1 /\ book'[Len(book')] = o
        /\ Len(rest) \in Nat
        /\ \A k \in DOMAIN rest : k \in DOMAIN book' /\ book'[k] = rest[k]
    BY <2>1, <2>4, <2>6
  <2>8. ClosesAlone(o)
    BY <1>2, <2>6 DEF ClosesAlone
  <2>9. BookKept /\ FilledKept
    BY <2>4, <2>7 DEF BookKept, FilledKept
  <2> QED
    BY <1>4, <2>4, <2>6, <2>7, <2>8, <2>9
<1> QED
  BY <1>3, <1>4

LEMMA SendStep == ASSUME IntentIInv, SendOrder PROVE IntentIInv'
<1>1. call \in Call /\ CallOK(call) /\ call.step = "sending" /\ At("sending")
  BY Busy DEF SendOrder, GuardedSteps
<1>2. UNCHANGED <<held, ledger>>
  BY DEF SendOrder
<1>3. ASSUME NEW m \in Nat, call' = [call EXCEPT !.step = "settling", !.order = m], BookKept,
             book \in Seq(BookOrder),
             m # 0 => /\ m \in DOMAIN book' /\ EchoesOrderPayload(book'[m], call.payload)
                      /\ m \notin DOMAIN book
                      /\ call.action.kind = "replace" => book'[m].replaces = call.action.order
      PROVE  call' \in Call /\ CallInv'
  <2> DEFINE built == [call EXCEPT !.step = "settling", !.order = m]
  <2> built \in Call
    BY <1>1 DEF Call, GuardedSteps
  <2> PICK c \in Call : c = built
    OBVIOUS
  <2>1. /\ c \in Call /\ c.step = "settling" /\ c.ticket = call.ticket /\ c.payload = call.payload
        /\ c.action = call.action /\ c.order = m
    BY <1>1 DEF Call, GuardedSteps
  <2>2. call' = c
    BY <1>3
  <2> HIDE DEF built
  <2>3. ClaimedLast(c)'
    BY <1>1, <1>2, <2>1 DEF ClaimedLast, StoredAction, CallOK
  <2>4. m # 0 => Names(c, m)' /\ \A i \in DOMAIN ledger : ledger[i].order # m
    <3>1. \A i \in DOMAIN ledger : ledger[i].order = 0 \/ ledger[i].order \in DOMAIN book
      BY DEF IntentIInv, LedgerInv, RowInv, Names
    <3> QED
      BY <1>3, <2>1, <3>1 DEF Names, EchoesOrderPayload
  <2>5. CallOK(c)'
    BY <1>1, <1>2, <1>3, <2>1, <2>3, <2>4 DEF CallOK, BookKept, Rebuilds, GuardedSteps, ClosesAlone, Closing
  <2> QED
    BY <2>1, <2>2, <2>5 DEF CallInv
<1>4. book \in Seq(BookOrder) /\ Len(book) \in Nat /\ held \in [Symbols -> Int] /\ ledger \in Seq(StoredRow)
  BY DEF IntentIInv, IntentShape
<1>5. ASSUME NEW state \in {"live", "rejected"}, Receives(state),
             \/ /\ EchoesOrderPayload(book'[Len(book')], call.payload)
                /\ call' = [call EXCEPT !.step = "settling",
                                        !.order = IF state = "live" THEN Len(book') ELSE 0]
             \/ call' = Idle
      PROVE  IntentIInv'
  <2>1. /\ BookKept /\ book' \in Seq(BookOrder) /\ Len(book') = Len(book) + 1 /\ Len(book') \in Nat
        /\ book'[Len(book')].legs = call.payload.legs
        /\ ClosesAlone(book'[Len(book')])
        /\ book'[Len(book')].replaces =
             (IF call.action.kind = "replace" THEN call.action.order ELSE 0)
    BY <1>1, <1>5, ReceivedOrder
  <2>2. BookInv'
    <3>1. book'[Len(book')].replaces # 0 =>
            /\ book'[Len(book')].replaces \in DOMAIN book
            /\ book'[Len(book')].legs = book[book'[Len(book')].replaces].legs
      BY <1>1, <2>1 DEF CallOK, GuardedSteps
    <3> QED
      BY <1>4, <2>1, <3>1, BookAppends DEF IntentIInv
  <2>3. LedgerInv'
    BY <1>2, <2>1, LedgerStays DEF IntentIInv
  <2>4. (call' = Idle \/ call' \in Call) /\ CallInv'
    <3>1. CASE call' = Idle
      BY <3>1 DEF CallInv, Idle
    <3>2. CASE call' # Idle
      <4> DEFINE m == IF state = "live" THEN Len(book') ELSE 0
      <4>1. m \in Nat /\ (m # 0 => m = Len(book') /\ m \in DOMAIN book' /\ m \notin DOMAIN book)
        BY <1>4, <2>1
      <4>2. call' = [call EXCEPT !.step = "settling", !.order = m]
            /\ EchoesOrderPayload(book'[Len(book')], call.payload)
        BY <1>5, <3>2
      <4> HIDE DEF m
      <4>3. call.action.kind = "replace" => book'[Len(book')].replaces = call.action.order
        BY <2>1
      <4> QED
        BY <1>3, <1>4, <2>1, <4>1, <4>2, <4>3
    <3> QED
      BY <3>1, <3>2
  <2> QED
    BY <1>2, <1>4, <2>1, <2>2, <2>3, <2>4 DEF IntentIInv, IntentShape
<1>6. ASSUME UNCHANGED book, call' = [call EXCEPT !.step = "settling"] PROVE IntentIInv'
  <2>1. CallOK([call EXCEPT !.step = "settling"]) /\ [call EXCEPT !.step = "settling"] \in Call
    <3> DEFINE c == [call EXCEPT !.step = "settling"]
    <3>1. /\ c \in Call /\ c.step = "settling" /\ c.ticket = call.ticket /\ c.payload = call.payload
          /\ c.action = call.action /\ c.order = call.order
      BY <1>1 DEF Call, GuardedSteps
    <3> HIDE DEF c
    <3>2. c.order = 0
      BY <1>1, <3>1 DEF CallOK
    <3>3. CallOK(c)
      BY <1>1, <3>1, <3>2 DEF CallOK, Rebuilds, GuardedSteps, ClaimedLast, StoredAction
    <3> QED
      BY <3>1, <3>3 DEF c
  <2> QED
    BY <1>2, <1>6, <2>1, Goes
<1>7. ASSUME UNCHANGED book, call' = Idle PROVE IntentIInv'
  BY <1>2, <1>7, Goes
<1> QED
  BY <1>5, <1>6, <1>7 DEF SendOrder

\* A row that is settled names no order, or one that is its own and no other row's.
LEMMA RowSettles ==
  ASSUME IntentIInv, NEW i \in DOMAIN ledger, NEW n \in Nat,
         n # 0 => Names(ledger[i], n) /\ (\A j \in DOMAIN ledger : ledger[j].order # n),
         ledger[i].status = "unresolved", ledger' = Recorded(i, n), UNCHANGED book
  PROVE  ledger' \in Seq(StoredRow) /\ LedgerInv'
<1>1. ledger \in Seq(StoredRow) /\ book \in Seq(BookOrder)
  BY DEF IntentIInv, IntentShape
<1> DEFINE old == ledger[i]
           status == IF n = 0 THEN "failed" ELSE "executed"
           row == [old EXCEPT !.status = status, !.order = n]
<1>2. old \in StoredRow
  BY <1>1
<1>3. ledger' = [ledger EXCEPT ![i] = row]
  BY DEF Recorded
<1> HIDE DEF old
<1>4. /\ row \in StoredRow /\ row.status = status /\ row.order = n /\ row.action = old.action
      /\ row.payload = old.payload
  BY <1>2 DEF StoredRow
<1> HIDE DEF row
<1>5. ledger' \in Seq(StoredRow) /\ DOMAIN ledger' = DOMAIN ledger
      /\ \A j \in DOMAIN ledger : ledger'[j] = IF j = i THEN row ELSE ledger[j]
  BY <1>1, <1>3, <1>4
<1>6. \A j \in DOMAIN ledger : RowInv(j)
  BY DEF IntentIInv, LedgerInv
<1>7. ASSUME NEW j \in DOMAIN ledger PROVE RowInv(j)'
  <2>1. CASE j = i
    <3>1. /\ Fingerprint(old)
          /\ old.action.kind = "replace" => old.action.order \in DOMAIN book
          /\ old.status = "unresolved"
      BY <1>6 DEF RowInv, old
    <3>2. Fingerprint(row)
      BY <1>4, <3>1 DEF Fingerprint
    <3>3. ledger'[j] = row
      BY <1>5, <2>1
    <3>4. n # 0 => Names(row, n) /\ \A k \in DOMAIN ledger : ledger[k].order # n
      BY <1>4 DEF Names, old
    <3>5. n # 0 => \A k \in DOMAIN ledger' : ledger'[k].order = n => k = j
      BY <1>5, <2>1, <3>4
    <3>6. (n = 0 => row.status # "executed") /\ (n # 0 => row.status = "executed")
      BY <1>4
    <3> QED
      BY <1>4, <3>1, <3>2, <3>3, <3>4, <3>5, <3>6 DEF RowInv, Names, EchoesOrderPayload, Fingerprint
  <2>2. CASE j # i
    <3>1. ledger'[j] = ledger[j] /\ RowInv(j)
      BY <1>5, <1>6, <2>2
    <3>2. ledger[j].status = "executed" => ledger[j].order # 0
      BY <1>1, <3>1 DEF RowInv, Names
    <3>3. ledger[j].status = "executed" =>
            \A k \in DOMAIN ledger' : ledger'[k].order = ledger[j].order => k = j
      BY <1>4, <1>5, <2>2, <3>1, <3>2 DEF RowInv
    <3>4. Fingerprint(ledger'[j])
      BY <3>1 DEF RowInv
    <3> QED
      BY <3>1, <3>3, <3>4 DEF RowInv, Names, EchoesOrderPayload, Fingerprint
  <2> QED
    BY <2>1, <2>2
<1> QED
  BY <1>5, <1>7 DEF LedgerInv

LEMMA SettleStep == ASSUME IntentIInv, SettleRow PROVE IntentIInv'
<1>1. call \in Call /\ CallOK(call) /\ call.step = "settling"
  BY Busy DEF SettleRow, GuardedSteps
<1>2. call' = Idle /\ UNCHANGED <<held, book>>
  BY DEF SettleRow
<1>3. CASE UNCHANGED ledger
  BY <1>2, <1>3, Goes
<1>4. CASE ledger' = Recorded(Len(ledger), call.order)
  <2>1. /\ ClaimedLast(call) /\ call.order \in Nat
        /\ call.order # 0 => Names(call, call.order) /\ \A i \in DOMAIN ledger : ledger[i].order # call.order
    BY <1>1 DEF CallOK, Call
  <2> DEFINE last == ledger[Len(ledger)]
  <2>2. /\ Len(ledger) \in DOMAIN ledger /\ last.status = "unresolved"
        /\ last.payload = call.payload /\ last.action = StoredAction(call)
    BY <2>1 DEF ClaimedLast
  <2>3. last.action.kind = "replace" =>
          call.action.kind = "replace" /\ last.action.order = call.action.order
    <3>1. call.action.kind = "replace" => last.action.order = call.action.order
      BY <2>2 DEF StoredAction, Stored
    <3>2. call.action.kind # "replace" => last.action = call.action
      BY <2>2 DEF StoredAction, Stored
    <3> QED
      BY <3>1, <3>2
  <2> HIDE DEF last
  <2>4. call.order # 0 => Names(last, call.order)
    BY <2>1, <2>2, <2>3 DEF Names
  <2> USE DEF last
  <2>5. ledger' \in Seq(StoredRow) /\ LedgerInv'
    BY <1>2, <1>4, <2>1, <2>2, <2>4, RowSettles
  <2>6. BookInv'
    BY <1>2 DEF IntentIInv, BookInv, ClosesAlone, Succeeds, Closing
  <2>7. IntentShape' /\ CallInv'
    BY <1>2, <2>5 DEF IntentIInv, IntentShape, CallInv, Idle
  <2> QED
    BY <2>5, <2>6, <2>7 DEF IntentIInv
<1> QED
  BY <1>3, <1>4 DEF SettleRow

(***************************************************************************)
(* The steps beside it                                                     *)
(***************************************************************************)

LEMMA ReconcilesStep == ASSUME IntentIInv, Reconcile PROVE IntentIInv'
<1>1. call = Idle /\ call' = Idle /\ UNCHANGED <<held, book>>
  BY Resting DEF Reconcile
<1> PICK i \in DOMAIN ledger :
      /\ ledger[i].status = "unresolved"
      /\ \/ ledger' = Recorded(i, 0)
         \/ \E n \in MatchesOf(ledger[i]) : ledger' = Recorded(i, IF book[n].state = "rejected" THEN 0 ELSE n)
  BY DEF Reconcile
<1>2. ledger' \in Seq(StoredRow) /\ LedgerInv'
  <2>1. CASE ledger' = Recorded(i, 0)
    BY <1>1, <2>1, RowSettles
  <2>2. ASSUME NEW n \in MatchesOf(ledger[i]),
               ledger' = Recorded(i, IF book[n].state = "rejected" THEN 0 ELSE n)
        PROVE  ledger' \in Seq(StoredRow) /\ LedgerInv'
    <3>1. Names(ledger[i], n) /\ \A j \in DOMAIN ledger : ledger[j].order # n
      BY DEF MatchesOf, Names
    <3>2. n \in Nat
      BY <3>1 DEF Names, IntentIInv, IntentShape
    <3> DEFINE m == IF book[n].state = "rejected" THEN 0 ELSE n
    <3>3. m \in Nat /\ (m # 0 => m = n) /\ ledger' = Recorded(i, m)
      BY <2>2, <3>2
    <3> HIDE DEF m
    <3> QED
      BY <1>1, <3>1, <3>3, RowSettles
  <2> QED
    BY <2>1, <2>2
<1>3. BookInv'
  BY <1>1 DEF IntentIInv, BookInv, ClosesAlone, Succeeds, Closing
<1>4. IntentShape' /\ CallInv'
  BY <1>1, <1>2 DEF IntentIInv, IntentShape, CallInv, Idle
<1> QED
  BY <1>2, <1>3, <1>4 DEF IntentIInv

\* Whatever happens to an order of the book, it stays the order it is.
LEMMA OrderChanges ==
  ASSUME IntentIInv, NEW n \in DOMAIN book, NEW o \in BookOrder,
         o.legs = book[n].legs, o.effect = book[n].effect, o.price = book[n].price,
         o.strict = book[n].strict, o.replaces = book[n].replaces,
         book' = [book EXCEPT ![n] = o], held' \in [Symbols -> Int], UNCHANGED <<ledger, call>>
  PROVE  IntentIInv'
<1>1. book \in Seq(BookOrder)
  BY DEF IntentIInv, IntentShape
<1>2. /\ book' \in Seq(BookOrder) /\ DOMAIN book' = DOMAIN book /\ Len(book') = Len(book)
      /\ Len(book) \in Nat
      /\ \A k \in DOMAIN book : book'[k] = IF k = n THEN o ELSE book[k]
  BY <1>1
<1>3. BookKept
  BY <1>2 DEF BookKept
<1>4. BookInv' /\ LedgerInv' /\ CallInv'
  BY <1>2, <1>3, BookStays, LedgerStays, CallStays DEF IntentIInv
<1>5. IntentShape'
  BY <1>2 DEF IntentIInv, IntentShape
<1> QED
  BY <1>4, <1>5 DEF IntentIInv

LEMMA StateAlone ==
  ASSUME NEW o \in BookOrder, NEW s \in OrderStates
  PROVE  /\ [o EXCEPT !.state = s] \in BookOrder
         /\ [o EXCEPT !.state = s].legs = o.legs
         /\ [o EXCEPT !.state = s].effect = o.effect
         /\ [o EXCEPT !.state = s].price = o.price
         /\ [o EXCEPT !.state = s].strict = o.strict
         /\ [o EXCEPT !.state = s].replaces = o.replaces
         /\ [o EXCEPT !.state = s].filled = o.filled
  BY DEF BookOrder

LEMMA CancelStep == ASSUME IntentIInv, CancelOrder PROVE IntentIInv'
<1> PICK n \in DOMAIN book : book' = [book EXCEPT ![n].state = "cancelled"]
  BY DEF CancelOrder, Works
<1>1. book[n] \in BookOrder /\ held \in [Symbols -> Int]
  BY DEF IntentIInv, IntentShape
<1>2. "cancelled" \in OrderStates
  BY DEF OrderStates
<1> DEFINE o == [book[n] EXCEPT !.state = "cancelled"]
<1>3. /\ o \in BookOrder /\ o.legs = book[n].legs /\ o.effect = book[n].effect
      /\ o.price = book[n].price /\ o.strict = book[n].strict /\ o.replaces = book[n].replaces
  BY <1>1, <1>2, StateAlone
<1>4. book' = [book EXCEPT ![n] = o]
  OBVIOUS
<1> HIDE DEF o
<1> QED
  BY <1>1, <1>3, <1>4, OrderChanges DEF CancelOrder

\* A fill, told by what it does to the order it fills and to the position of each leg.
LEMMA FilledOrder ==
  ASSUME IntentIInv, Fill
  PROVE  \E n \in DOMAIN book, s \in OrderStates :
           \/ /\ book' = [book EXCEPT ![n] = [book[n] EXCEPT !.state = s]] /\ UNCHANGED held
           \/ /\ book' = [book EXCEPT ![n] = [book[n] EXCEPT !.filled = book[n].filled + 1, !.state = s]]
              /\ held' \in [Symbols -> Int]
              /\ \A k \in DOMAIN book[n].legs :
                   Closing(book[n].legs[k]) =>
                     /\ CanClose(book[n].legs[k])
                     /\ held'[book[n].legs[k].symbol] =
                          held[book[n].legs[k].symbol] + Signed(book[n].legs[k].side)
<1> PICK n \in DOMAIN book :
      LET o == book[n]
          beyond == o.strict /\ \E k \in DOMAIN o.legs : Closing(o.legs[k]) /\ ~CanClose(o.legs[k])
          last == o.filled + 1 = o.legs[1].quantity
      IN  /\ Works(n)
          /\ IF beyond
             THEN book' = [book EXCEPT ![n].state = "rejected"] /\ UNCHANGED held
             ELSE /\ book' = [book EXCEPT ![n].filled = o.filled + 1,
                                          ![n].state = IF last THEN "filled" ELSE "live"]
                  /\ held' = [s \in Symbols |->
                       LET legs == {k \in DOMAIN o.legs : o.legs[k].symbol = s}
                       IN  IF legs = {} THEN held[s]
                           ELSE held[s] + Signed(o.legs[CHOOSE k \in legs : TRUE].side)]
  BY DEF Fill, Works
<1> DEFINE o == book[n]
           beyond == o.strict /\ \E k \in DOMAIN o.legs : Closing(o.legs[k]) /\ ~CanClose(o.legs[k])
           state == IF o.filled + 1 = o.legs[1].quantity THEN "filled" ELSE "live"
           of(s) == {k \in DOMAIN o.legs : o.legs[k].symbol = s}
           after(s) == IF of(s) = {} THEN held[s] ELSE held[s] + Signed(o.legs[CHOOSE k \in of(s) : TRUE].side)
<1>1. o \in BookOrder /\ held \in [Symbols -> Int] /\ ClosesAlone(o)
  BY DEF IntentIInv, IntentShape, BookInv
<1>2. state \in OrderStates /\ "rejected" \in OrderStates
  BY DEF OrderStates
<1>3. CASE beyond
  <2>1. book' = [book EXCEPT ![n] = [book[n] EXCEPT !.state = "rejected"]] /\ UNCHANGED held
    BY <1>3
  <2> QED
    BY <1>2, <2>1
<1>4. CASE ~beyond
  <2>1. /\ book' = [book EXCEPT ![n] = [book[n] EXCEPT !.filled = book[n].filled + 1, !.state = state]]
        /\ held' = [s \in Symbols |-> after(s)]
    BY <1>4
  <2>2. \A s \in Symbols : after(s) \in Int
    BY <1>1 DEF Signed
  <2>3. ASSUME NEW k \in DOMAIN o.legs, Closing(o.legs[k])
        PROVE  /\ CanClose(o.legs[k]) /\ o.legs[k].symbol \in Symbols
               /\ after(o.legs[k].symbol) = held[o.legs[k].symbol] + Signed(o.legs[k].side)
    <3>1. o.strict = TRUE /\ Len(o.legs) = 1
      BY <1>1, <2>3 DEF ClosesAlone
    <3>2. o.legs \in Seq(Leg) /\ DOMAIN o.legs = 1..1
      BY <1>1, <3>1 DEF BookOrder
    <3>3. k = 1 /\ o.legs[k] \in Leg
      BY <3>2
    <3>4. of(o.legs[k].symbol) = {k}
      BY <3>2, <3>3
    <3>5. (CHOOSE j \in of(o.legs[k].symbol) : TRUE) = k
      BY <3>4
    <3>6. CanClose(o.legs[k])
      BY <1>4, <2>3, <3>1
    <3> HIDE DEF of, o
    <3> QED
      BY <3>3, <3>4, <3>5, <3>6 DEF Leg
  <2> HIDE DEF after, state
  <2>4. held' \in [Symbols -> Int] /\ \A s \in Symbols : held'[s] = after(s)
    BY <2>1, <2>2
  <2>5. \A k \in DOMAIN o.legs :
          Closing(o.legs[k]) =>
            /\ CanClose(o.legs[k])
            /\ held'[o.legs[k].symbol] = held[o.legs[k].symbol] + Signed(o.legs[k].side)
    BY <2>3, <2>4
  <2> QED
    BY <1>2, <2>1, <2>4, <2>5
<1> QED
  BY <1>3, <1>4

LEMMA FillStep == ASSUME IntentIInv, Fill PROVE IntentIInv'
<1> PICK n \in DOMAIN book, s \in OrderStates :
      \/ book' = [book EXCEPT ![n] = [book[n] EXCEPT !.state = s]] /\ UNCHANGED held
      \/ /\ book' = [book EXCEPT ![n] = [book[n] EXCEPT !.filled = book[n].filled + 1, !.state = s]]
         /\ held' \in [Symbols -> Int]
  BY FilledOrder
<1>1. book[n] \in BookOrder /\ held \in [Symbols -> Int] /\ UNCHANGED <<ledger, call>>
  BY DEF IntentIInv, IntentShape, Fill
<1> DEFINE o == [book[n] EXCEPT !.state = s]
           more == book[n].filled + 1
           old == book[n]
           fuller == [old EXCEPT !.filled = more, !.state = s]
<1>2. /\ o \in BookOrder /\ o.legs = book[n].legs /\ o.effect = book[n].effect
      /\ o.price = book[n].price /\ o.strict = book[n].strict /\ o.replaces = book[n].replaces
  BY <1>1, StateAlone
<1>3. more \in Nat
  BY <1>1 DEF BookOrder
<1>4. /\ fuller \in BookOrder /\ fuller.legs = old.legs /\ fuller.effect = old.effect
      /\ fuller.price = old.price /\ fuller.strict = old.strict /\ fuller.replaces = old.replaces
  <2>1. old \in BookOrder
    BY <1>1
  <2> HIDE DEF old, more
  <2> QED
    BY <1>3, <2>1 DEF BookOrder
<1>5. \/ book' = [book EXCEPT ![n] = o] /\ UNCHANGED held
      \/ book' = [book EXCEPT ![n] = fuller] /\ held' \in [Symbols -> Int]
  OBVIOUS
<1> HIDE DEF o, fuller, more
<1>6. held' \in [Symbols -> Int]
  BY <1>1, <1>5
<1>7. CASE book' = [book EXCEPT ![n] = o]
  BY <1>1, <1>2, <1>6, <1>7, OrderChanges
<1>8. CASE book' = [book EXCEPT ![n] = fuller]
  BY <1>1, <1>4, <1>6, <1>8, OrderChanges
<1> QED
  BY <1>5, <1>7, <1>8

LEMMA Appended ==
  ASSUME NEW rest \in Seq(BookOrder), NEW o \in BookOrder, NEW longer, longer = Append(rest, o)
  PROVE  /\ longer \in Seq(BookOrder) /\ Len(longer) = Len(rest) + 1 /\ longer[Len(longer)] = o
         /\ \A k \in DOMAIN rest : k \in DOMAIN longer /\ longer[k] = rest[k]
<1>1. Len(rest) \in Nat
  OBVIOUS
<1> QED
  BY <1>1

\* An order that takes another's place, priced anew from the broker's own app.
Moves(n, p) ==
  book' = Append([book EXCEPT ![n].state = "replaced"],
                 PlacedOrder([book[n] EXCEPT !.price = p], n, "live"))
LEMMA MovedOrder ==
  ASSUME IntentIInv, NEW n \in DOMAIN book, NEW p \in Prices, Moves(n, p)
  PROVE  BookKept /\ FilledKept /\ BookInv' /\ book' \in Seq(BookOrder)
<1> DEFINE old == book[n]
           gone == [old EXCEPT !.state = "replaced"]
           moved == [old EXCEPT !.price = p]
           o == PlacedOrder(moved, n, "live")
           rest == [book EXCEPT ![n] = gone]
<1>1. book \in Seq(BookOrder) /\ old \in BookOrder /\ ClosesAlone(old) /\ p \in Int /\ n \in Nat
  BY IntentAssumption DEF IntentIInv, IntentShape, BookInv
<1>2. book' = Append(rest, o)
  BY DEF Moves
<1> HIDE DEF old
<1>3. "replaced" \in OrderStates /\ "live" \in OrderStates
  BY DEF OrderStates
<1>4. /\ gone \in BookOrder /\ gone.legs = old.legs /\ gone.effect = old.effect /\ gone.price = old.price
      /\ gone.strict = old.strict /\ gone.replaces = old.replaces /\ gone.filled = old.filled
  BY <1>1, <1>3, StateAlone
<1>5. /\ moved.legs = old.legs /\ moved.effect = old.effect /\ moved.price = p
      /\ moved.strict = old.strict
  BY <1>1 DEF BookOrder
<1> HIDE DEF moved, gone
<1>6. /\ o \in BookOrder /\ o.legs = old.legs /\ o.replaces = n /\ o.strict = old.strict
  BY <1>1, <1>3, <1>5 DEF PlacedOrder, BookOrder
<1> HIDE DEF o
<1>7. /\ rest \in Seq(BookOrder) /\ Len(rest) = Len(book) /\ DOMAIN rest = DOMAIN book
      /\ \A k \in DOMAIN book : rest[k] = IF k = n THEN gone ELSE book[k]
  BY <1>1, <1>4
<1> HIDE DEF rest
<1>8. /\ book' \in Seq(BookOrder) /\ Len(book') = Len(book) + 1 /\ book'[Len(book')] = o
      /\ \A k \in DOMAIN book : k \in DOMAIN book' /\ book'[k] = IF k = n THEN gone ELSE book[k]
  <2>1. /\ book' \in Seq(BookOrder) /\ Len(book') = Len(rest) + 1 /\ book'[Len(book')] = o
        /\ \A k \in DOMAIN rest : k \in DOMAIN book' /\ book'[k] = rest[k]
    BY <1>2, <1>6, <1>7, Appended
  <2> QED
    BY <1>7, <2>1
<1>9. BookKept /\ FilledKept
  BY <1>1, <1>4, <1>8 DEF BookKept, FilledKept, old
<1>10. ClosesAlone(o)
  BY <1>1, <1>6 DEF ClosesAlone
<1>11. o.replaces \in DOMAIN book /\ o.legs = book[o.replaces].legs
  BY <1>6 DEF old
<1> QED
  BY <1>1, <1>8, <1>9, <1>10, <1>11, BookAppends DEF IntentIInv

LEMMA AppStep == ASSUME IntentIInv, AppTrades PROVE IntentIInv'
<1>1. UNCHANGED <<ledger, call>> /\ held \in [Symbols -> Int]
  BY DEF AppTrades, IntentIInv, IntentShape
<1>2. ASSUME NEW s \in Symbols, held' = [held EXCEPT ![s] = @ - 1], UNCHANGED book
      PROVE  IntentIInv'
  <2>1. BookKept /\ held' \in [Symbols -> Int]
    BY <1>1, <1>2 DEF BookKept
  <2>2. BookInv' /\ LedgerInv' /\ CallInv'
    BY <1>1, <1>2, <2>1, BookStays, LedgerStays, CallStays DEF IntentIInv
  <2> QED
    BY <1>1, <1>2, <2>1, <2>2 DEF IntentIInv, IntentShape
<1>3. ASSUME NEW n \in DOMAIN book, NEW p \in Prices, UNCHANGED held, Moves(n, p)
      PROVE  IntentIInv'
  <2>1. BookKept /\ BookInv' /\ book' \in Seq(BookOrder)
    BY <1>3, MovedOrder
  <2>2. LedgerInv' /\ CallInv'
    BY <1>1, <2>1, LedgerStays, CallStays DEF IntentIInv
  <2> QED
    BY <1>1, <1>3, <2>1, <2>2 DEF IntentIInv, IntentShape
<1> QED
  BY <1>2, <1>3 DEF AppTrades, Moves

(***************************************************************************)
(* The theorem                                                             *)
(***************************************************************************)

LEMMA IntentInitially == IntentInit => IntentIInv
<1> SUFFICES ASSUME IntentInit PROVE IntentIInv
  OBVIOUS
<1>1. IntentShape
  BY IntentAssumption DEF IntentInit, IntentShape
<1>2. BookInv /\ LedgerInv /\ CallInv
  BY DEF IntentInit, BookInv, LedgerInv, CallInv, Idle
<1> QED
  BY <1>1, <1>2 DEF IntentIInv

LEMMA IntentStep == ASSUME IntentIInv, [IntentNext]_intentVars PROVE IntentIInv'
<1>1. CASE UNCHANGED intentVars
  <2>1. UNCHANGED <<held, book, ledger, call>> /\ BookKept
    BY <1>1 DEF intentVars, BookKept
  <2>2. BookInv' /\ LedgerInv' /\ CallInv'
    BY <2>1, BookStays, LedgerStays, CallStays DEF IntentIInv
  <2> QED
    BY <2>1, <2>2 DEF IntentIInv, IntentShape
<1> QED
  BY <1>1, AskStep, ResolveStep, ExpandStep, GuardStep, ClaimStep, SendStep, SettleStep,
     ReconcilesStep, CancelStep, FillStep, AppStep DEF IntentNext

\* Nothing but a fill fills.
LEMMA OnlyFillFills ==
  ASSUME IntentIInv, [IntentNext]_intentVars, ~Fill
  PROVE  FilledKept
<1>1. CASE UNCHANGED book
  BY <1>1 DEF FilledKept
<1>2. CASE SendOrder
  <2>1. At("sending") /\ (UNCHANGED book \/ \E state \in {"live", "rejected"} : Receives(state))
    BY <1>2 DEF SendOrder
  <2> QED
    BY <1>1, <2>1, ReceivedOrder
<1>3. CASE CancelOrder
  <2> PICK n \in DOMAIN book : book' = [book EXCEPT ![n].state = "cancelled"]
    BY <1>3 DEF CancelOrder, Works
  <2>1. book[n] \in BookOrder /\ "cancelled" \in OrderStates
    BY DEF IntentIInv, IntentShape, OrderStates
  <2> DEFINE o == [book[n] EXCEPT !.state = "cancelled"]
  <2>2. o.filled = book[n].filled
    BY <2>1, StateAlone
  <2>3. book' = [book EXCEPT ![n] = o]
    OBVIOUS
  <2> HIDE DEF o
  <2> QED
    BY <2>2, <2>3 DEF FilledKept
<1>4. CASE AppTrades
  BY <1>1, <1>4, MovedOrder DEF AppTrades, Moves
<1>5. ~UNCHANGED book => SendOrder \/ CancelOrder \/ AppTrades
  BY DEF IntentNext, Ask, ResolveFreshOrder, ExpandReplacement, AssertPortfolioActionAllowed,
         AssertOrderMarketSafe, EndsUnsent, ClaimRow, SettleRow, Reconcile, Proceeds, intentVars
<1> QED
  BY <1>1, <1>2, <1>3, <1>4, <1>5

LEMMA ClosesTowardsNothing ==
  ASSUME IntentIInv, [IntentNext]_intentVars, NEW n \in DOMAIN book,
         book'[n].filled > book[n].filled, NEW k \in DOMAIN book[n].legs, Closing(book[n].legs[k])
  PROVE  IF book[n].legs[k].side = "Sell to Close" THEN held'[book[n].legs[k].symbol] >= 0
         ELSE held'[book[n].legs[k].symbol] <= 0
<1>1. book \in Seq(BookOrder) /\ held \in [Symbols -> Int]
  BY DEF IntentIInv, IntentShape
<1>2. book[n] \in BookOrder /\ book[n].filled \in Nat
  <2>1. book[n] \in BookOrder
    BY <1>1
  <2> QED
    BY <2>1 DEF BookOrder
<1>3. Fill
  <2>1. book'[n].filled # book[n].filled
    BY <1>2
  <2> QED
    BY <2>1, OnlyFillFills DEF FilledKept
<1>p. PICK m \in DOMAIN book, s \in OrderStates :
       \/ /\ book' = [book EXCEPT ![m] = [book[m] EXCEPT !.state = s]] /\ UNCHANGED held
       \/ /\ book' = [book EXCEPT ![m] = [book[m] EXCEPT !.filled = book[m].filled + 1, !.state = s]]
          /\ held' \in [Symbols -> Int]
          /\ \A j \in DOMAIN book[m].legs :
               Closing(book[m].legs[j]) =>
                 /\ CanClose(book[m].legs[j])
                 /\ held'[book[m].legs[j].symbol] =
                      held[book[m].legs[j].symbol] + Signed(book[m].legs[j].side)
  BY <1>3, FilledOrder
<1>4. book[m] \in BookOrder
  BY <1>1
<1> DEFINE o == [book[m] EXCEPT !.state = s]
<1>5. o.filled = book[m].filled
  BY <1>4, StateAlone
<1>6. book' # [book EXCEPT ![m] = o]
  <2> HIDE DEF o
  <2> SUFFICES ASSUME book' = [book EXCEPT ![m] = o] PROVE FALSE
    OBVIOUS
  <2>1. book'[n].filled = book[n].filled
    BY <1>1, <1>5
  <2> QED
    BY <1>2, <2>1
<1>7. /\ book' = [book EXCEPT ![m] = [book[m] EXCEPT !.filled = book[m].filled + 1, !.state = s]]
      /\ \A j \in DOMAIN book[m].legs :
           Closing(book[m].legs[j]) =>
             /\ CanClose(book[m].legs[j])
             /\ held'[book[m].legs[j].symbol] =
                  held[book[m].legs[j].symbol] + Signed(book[m].legs[j].side)
  BY <1>p, <1>6
<1>8. n = m
  <2>1. n # m => book'[n] = book[n]
    BY <1>1, <1>7
  <2> QED
    BY <1>2, <2>1
<1> DEFINE leg == book[n].legs[k]
<1>9. /\ leg \in Leg /\ CanClose(leg) /\ held'[leg.symbol] = held[leg.symbol] + Signed(leg.side)
      /\ leg.side \in Closes
  <2>1. book[n].legs \in Seq(Leg)
    BY <1>2 DEF BookOrder
  <2>2. leg \in Leg
    BY <2>1
  <2> QED
    BY <1>7, <1>8, <2>2 DEF Closing
<1> HIDE DEF leg
<1>10. held[leg.symbol] \in Int
  BY <1>1, <1>9 DEF Leg
<1> DEFINE before == held[leg.symbol]
<1>a. /\ leg.side = "Sell to Close" => before > 0 /\ Signed(leg.side) = -1
      /\ leg.side = "Buy to Close" => before < 0 /\ Signed(leg.side) = 1
  BY <1>9 DEF CanClose, Signed, Buys
<1>b. /\ before \in Int
      /\ leg.side = "Sell to Close" => held'[leg.symbol] = before - 1
      /\ leg.side = "Buy to Close" => held'[leg.symbol] = before + 1
  BY <1>9, <1>10, <1>a
<1> HIDE DEF before
<1>c. (before > 0 => before - 1 >= 0) /\ (before < 0 => before + 1 <= 0)
  <2>1. \A x \in Int : (x > 0 => x - 1 >= 0) /\ (x < 0 => x + 1 <= 0)
    OBVIOUS
  <2>2. before \in Int
    BY <1>b
  <2> QED
    BY <2>1, <2>2
<1>11. leg.side = "Sell to Close" => held'[leg.symbol] >= 0
  BY <1>a, <1>b, <1>c
<1>12. leg.side = "Buy to Close" => held'[leg.symbol] <= 0
  BY <1>a, <1>b, <1>c
<1>13. leg.side = "Sell to Close" \/ leg.side = "Buy to Close"
  BY <1>9 DEF Closes
<1> QED
  BY <1>11, <1>12, <1>13 DEF leg

\* A row can always be told from what it keeps, an executed one names the order that is its own
\* alone, and a close only closes, for any tickets, chains, quotes, tick rules and positions, any
\* number of placements, replacements, fills, cancellations and trades from the broker's own app.
THEOREM IntentHolds == IntentSpec => IntentKept
<1>1. IntentInit => IntentIInv
  BY IntentInitially
<1>2. IntentIInv /\ [IntentNext]_intentVars => IntentIInv'
  BY IntentStep
<1>3. IntentIInv => IntentInv
  <2> SUFFICES ASSUME IntentIInv, NEW i \in DOMAIN ledger
               PROVE  /\ Fingerprint(ledger[i])
                      /\ ledger[i].status = "executed" =>
                           LET o == book[ledger[i].order]
                           IN  /\ EchoesOrderPayload(o, ledger[i].payload)
                               /\ SourceRows(ledger[i].order) = {i}
                               /\ ledger[i].action.kind = "replace" =>
                                    o.replaces = ledger[i].action.order /\ o.legs = book[o.replaces].legs
    BY DEF IntentInv, RowsRebuild, ExecutedIsOwn
  <2>1. RowInv(i)
    BY DEF IntentIInv, LedgerInv
  <2> SUFFICES ASSUME ledger[i].status = "executed"
               PROVE  /\ EchoesOrderPayload(book[ledger[i].order], ledger[i].payload)
                      /\ SourceRows(ledger[i].order) = {i}
                      /\ ledger[i].action.kind = "replace" =>
                           /\ book[ledger[i].order].replaces = ledger[i].action.order
                           /\ book[ledger[i].order].legs = book[book[ledger[i].order].replaces].legs
    BY <2>1 DEF RowInv
  <2>2. Names(ledger[i], ledger[i].order) /\ SourceRows(ledger[i].order) = {i}
    BY <2>1 DEF RowInv, SourceRows
  <2>3. ledger[i].action.kind = "replace" =>
          book[ledger[i].order].replaces \in DOMAIN book /\ book[ledger[i].order].replaces # 0
    BY <2>1, <2>2 DEF RowInv, Names, IntentIInv, IntentShape
  <2> QED
    BY <2>2, <2>3 DEF Names, IntentIInv, BookInv, Succeeds
<1>4. IntentIInv /\ [IntentNext]_intentVars =>
        \A n \in DOMAIN book : book'[n].filled > book[n].filled =>
          \A k \in DOMAIN book[n].legs :
            LET leg == book[n].legs[k]
            IN  Closing(leg) => IF leg.side = "Sell to Close" THEN held'[leg.symbol] >= 0
                                ELSE held'[leg.symbol] <= 0
  BY ClosesTowardsNothing
<1> QED
  BY <1>1, <1>2, <1>3, <1>4, PTL DEF IntentSpec, IntentKept, ClosesOnlyClose
===============================================================================
