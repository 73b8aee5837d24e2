---------------------------- MODULE OrderPlacement ----------------------------
(***************************************************************************)
(* Placing and reconciling orders on one brokerage account.                *)
(*                                                                         *)
(* Placements (executeOrderPlacement) and reconciles                       *)
(* (reconcileUnknownBrokerageAction) run in Worker isolates that may die   *)
(* between any two awaits.  They share the account's mutation lease, as    *)
(* MutationLease promises it, the broker_submissions table, and the broker *)
(* itself: requests on the wire, the orders it created, and an order       *)
(* history that shows an order only some time after it was received.       *)
(***************************************************************************)
EXTENDS Integers, FiniteSets

CONSTANTS
  Placements,     \* calls of place_brokerage_order, each with its own row id
  Reconciles,     \* members' agents that call reconcile_brokerage_action
  Outside,        \* orders placed from the broker's own app
  Ticket,         \* what a placement or an outside order asks for: the whole
                  \* order payload and the order it replaces, if any
  Budget,         \* SUBMISSION_TRANSPORT_BUDGET_MS
  Skew,           \* BROKER_CLOCK_SKEW_MS
  Absence,        \* FINAL_ABSENCE_DELAY_MS
  HoldMs,        \* MUTATION_LEASE_MS
  Lag,            \* assumed: order history shows an order this soon
  ReplyDelay,     \* assumed: the gate's answer to renew arrives this soon
  RejectsListed,  \* whether an order the broker rejected appears in history
  ReceivedOmitted,\* whether a history row may lack its received-at
  NoHold, NoOrder, NoTime, NoRow,
  LastStart,      \* bound: no placement and no outside order after this instant
  LastMoment        \* bound: the last instant

Callers == Placements \cup Reconciles
Makers == Placements \cup Outside

ASSUME TimeAssumption ==
  /\ {Budget, Skew, Absence, HoldMs, Lag, ReplyDelay, LastStart, LastMoment} \subseteq Nat
  /\ Budget + Lag < Absence        \* absence is concluded only after history caught up
  /\ ReplyDelay + Budget < HoldMs \* a renewed lease covers the submission it was renewed for
ASSUME NullAssumption ==
  /\ NoTime \notin Int /\ NoHold \notin [token: Callers, expiresAt: Nat]
  /\ NoRow \notin Placements \cup [status: {"unresolved", "executed", "failed"}, submittedAt: Nat,
                                   orderId: Makers \cup {NoOrder}]
  /\ NoOrder \notin Makers \cup [received: Int \cup {NoTime}, updated: Nat, rejected: BOOLEAN]
ASSUME FlagAssumption == RejectsListed \in BOOLEAN /\ ReceivedOmitted \in BOOLEAN
ASSUME CallerAssumption == Placements \cap Reconciles = {} /\ Placements \cap Outside = {}

VARIABLES
  moment,    \* the time
  hold,      \* the account's mutation lease
  stage,     \* where each caller is
  deadline,  \* per placement: when its awaited renew answers, then the submission deadline
  rows,      \* the broker_submissions rows of the account
  wire,      \* requests the broker may still receive
  answer,    \* the broker's answer on its way to a waiting placement
  orders,    \* the broker's orders, by who made them, which is also their id
  unlisted,  \* orders the broker's history does not show yet
  snap       \* per reconcile: what it has read so far

orderVars == <<moment, hold, stage, deadline, rows, wire, answer, orders, unlisted, snap>>
brokerVars == <<wire, answer, orders, unlisted>>

Row == [status: {"unresolved", "executed", "failed"}, submittedAt: Nat,
        orderId: Makers \cup {NoOrder}] \cup {NoRow}
Order == [received: Int \cup {NoTime}, updated: Nat, rejected: BOOLEAN] \cup {NoOrder}
Request == [from: Placements, until: Nat]
Unlisted == [order: Makers, until: Nat]
Snapshot == [row: Placements \cup {NoRow}, now: Nat, matches: SUBSET Makers, complete: BOOLEAN]

PlacementSteps == {"idle", "preparing", "dryRun", "arming", "claiming", "claimed", "sent",
                   "accepted", "refused", "leaving", "done"}
ReconcileSteps == {"idle", "queued", "reading", "history", "owned", "concluding", "leaving"}

OrderTypeOK ==
  /\ moment \in Nat
  /\ hold \in [token: Callers, expiresAt: Nat] \cup {NoHold}
  /\ stage \in [Callers -> PlacementSteps \cup ReconcileSteps]
  /\ \A p \in Placements : stage[p] \in PlacementSteps
  /\ \A r \in Reconciles : stage[r] \in ReconcileSteps
  /\ deadline \in [Placements -> Nat]
  /\ rows \in [Placements -> Row]
  /\ wire \subseteq Request
  /\ answer \in [Placements -> {"none", "accepted", "rejected", "refused"}]
  /\ orders \in [Makers -> Order]
  /\ unlisted \subseteq Unlisted
  /\ snap \in [Reconciles -> Snapshot]

NoSnapshot == [row |-> NoRow, now |-> 0, matches |-> {}, complete |-> FALSE]

OrderInit ==
  /\ moment = 0
  /\ hold = NoHold
  /\ stage = [c \in Callers |-> "idle"]
  /\ deadline = [p \in Placements |-> 0]
  /\ rows = [p \in Placements |-> NoRow]
  /\ wire = {}
  /\ answer = [p \in Placements |-> "none"]
  /\ orders = [o \in Makers |-> NoOrder]
  /\ unlisted = {}
  /\ snap = [r \in Reconciles |-> NoSnapshot]

(***************************************************************************)
(* The lease, as withBrokerMutationLease uses it                           *)
(***************************************************************************)

Gate == INSTANCE MutationLease WITH Calls <- Callers, LeaseMs <- HoldMs, NoLease <- NoHold,
                              clock <- moment, lease <- hold, over <- {}

HoldsLease(c) == Gate!InForce /\ hold.token = c

GoTo(c, step) == stage' = [stage EXCEPT ![c] = step]

\* A placement that will not go on keeps nothing but its lease.
Leave(p) ==
  /\ GoTo(p, "leaving")
  /\ deadline' = [deadline EXCEPT ![p] = 0]
  /\ answer' = [answer EXCEPT ![p] = "none"]

AcquireLease(c, from, to) ==
  /\ stage[c] = from
  /\ ~Gate!InForce
  /\ hold' = Gate!Lasting(c)
  /\ GoTo(c, to)

\* The finally block: the lease goes if it is still this caller's.
ReleaseLease(c, to) ==
  /\ stage[c] = "leaving"
  /\ hold' = IF hold # NoHold /\ hold.token = c THEN NoHold ELSE hold
  /\ GoTo(c, to)
  /\ UNCHANGED <<moment, deadline, rows, brokerVars>>

(***************************************************************************)
(* The submission store                                                    *)
(***************************************************************************)

StatusOf(p) == IF rows[p] = NoRow THEN "absent" ELSE rows[p].status
Unresolved == {p \in Placements : StatusOf(p) = "unresolved"}

\* Mutant: the UPDATE without AND status = 'unresolved'.
SettledAnyStatus(p, status, id) ==
  [rows EXCEPT ![p].status = status, ![p].orderId = id]

\* Both settles, and both of reconciliation's, are UPDATE ... AND status =
\* 'unresolved': on a settled row they change nothing.
Settled(p, status, id) ==
  IF p \in Unresolved
  THEN [rows EXCEPT ![p].status = status, ![p].orderId = id]
  ELSE rows

(***************************************************************************)
(* executeOrderPlacement                                                   *)
(***************************************************************************)

StartPlacement(p) ==
  /\ moment <= LastStart
  /\ AcquireLease(p, "idle", "preparing")
  /\ UNCHANGED <<moment, deadline, rows, brokerVars, snap>>

\* The intent cannot be resolved, a guard refuses, the dry-run warns or
\* rejects, or a renewal finds the lease lost: nothing was sent.
RefusedUnsent(p) ==
  /\ stage[p] \in {"preparing", "dryRun"}
  /\ Leave(p)
  /\ UNCHANGED <<moment, hold, rows, wire, orders, unlisted, snap>>

\* Bound: a submission is renewed for only while its absence can still become
\* final by LastMoment.
CanConclude == moment + ReplyDelay + Absence <= LastMoment

\* Mutant: no renewal before the submission.
RenewOnce(p) ==
  /\ stage[p] \in {"preparing", "dryRun"} /\ CanConclude
  /\ HoldsLease(p)
  /\ IF stage[p] = "preparing"
     THEN GoTo(p, "dryRun") /\ hold' = Gate!Lasting(p) /\ UNCHANGED deadline
     ELSE /\ GoTo(p, "arming") /\ UNCHANGED hold
          /\ deadline' = [deadline EXCEPT ![p] = moment + ReplyDelay]
  /\ UNCHANGED <<moment, rows, brokerVars, snap>>

\* The two renewals, before the dry-run and before the submission.
Renew(p) ==
  /\ stage[p] \in {"preparing", "dryRun"} /\ CanConclude
  /\ HoldsLease(p)
  /\ hold' = Gate!Lasting(p)
  /\ IF stage[p] = "preparing"
     THEN GoTo(p, "dryRun") /\ UNCHANGED deadline
     ELSE GoTo(p, "arming") /\ deadline' = [deadline EXCEPT ![p] = moment + ReplyDelay]
  /\ UNCHANGED <<moment, rows, brokerVars, snap>>

\* The deadline is armed and submitted_at taken before the claim is written.
ArmDeadline(p) ==
  /\ stage[p] = "arming"
  /\ deadline' = [deadline EXCEPT ![p] = moment + Budget]
  /\ GoTo(p, "claiming")
  /\ UNCHANGED <<moment, hold, rows, brokerVars, snap>>

\* Mutant: submitted_at taken a budget too early.
ClaimedEarly(p) == [rows EXCEPT ![p] =
  [status |-> "unresolved", submittedAt |-> deadline[p] - 3 * Budget, orderId |-> NoOrder]]

Claimed(p) == [rows EXCEPT ![p] =
                 [status |-> "unresolved", submittedAt |-> deadline[p] - Budget, orderId |-> NoOrder]]

\* The insert, which the partial unique index refuses while any row of the
\* account is unresolved.  Its answer may be lost: then nothing is sent, and
\* the row stays as if the submission were in doubt.
ClaimSubmission(p) ==
  /\ stage[p] = "claiming"
  /\ Unresolved = {}
  /\ rows' = Claimed(p)
  /\ (GoTo(p, "claimed") /\ UNCHANGED <<deadline, answer>>) \/ Leave(p)
  /\ UNCHANGED <<moment, hold, wire, orders, unlisted, snap>>

\* The account is quarantined, or the store is unavailable: nothing is sent.
ClaimRefused(p) ==
  /\ stage[p] = "claiming"
  /\ Leave(p)
  /\ UNCHANGED <<moment, hold, rows, wire, orders, unlisted, snap>>

\* Mutant: the submission deadline is not handed to the request.
SendUnbounded(p) ==
  /\ stage[p] = "claimed"
  /\ wire' = wire \cup {[from |-> p, until |-> LastMoment]}
  /\ GoTo(p, "sent")
  /\ UNCHANGED <<moment, hold, deadline, rows, answer, orders, unlisted, snap>>

\* The request leaves once the gate permits, unless its deadline aborts it.
SendRequest(p) ==
  /\ stage[p] = "claimed" /\ moment <= deadline[p]
  /\ wire' = wire \cup {[from |-> p, until |-> deadline[p]]}
  /\ GoTo(p, "sent")
  /\ UNCHANGED <<moment, hold, deadline, rows, answer, orders, unlisted, snap>>

\* A verified answer: 2xx with the exact echo, or a refusal.
AnswerArrives(p) ==
  /\ stage[p] = "sent" /\ moment <= deadline[p]
  /\ answer[p] # "none"
  /\ GoTo(p, IF answer[p] = "accepted" THEN "accepted" ELSE "refused")
  /\ UNCHANGED <<moment, hold, deadline, rows, brokerVars, snap>>

\* The deadline, a transport failure, a 5xx or an answer that cannot be
\* verified: the row stays unresolved, which is the quarantine.
Ambiguous(p) ==
  /\ stage[p] \in {"claimed", "sent"}
  /\ Leave(p)
  /\ UNCHANGED <<moment, hold, rows, wire, orders, unlisted, snap>>

SettleSubmission(p) ==
  /\ \/ stage[p] = "accepted" /\ rows' = Settled(p, "executed", p)
     \/ stage[p] = "refused" /\ rows' = Settled(p, "failed", NoOrder)
  /\ Leave(p)
  /\ UNCHANGED <<moment, hold, wire, orders, unlisted, snap>>

\* The settle could not be written: the account stays quarantined.
SettleFails(p) ==
  /\ stage[p] \in {"accepted", "refused"}
  /\ Leave(p)
  /\ UNCHANGED <<moment, hold, rows, wire, orders, unlisted, snap>>

EndPlacement(p) == ReleaseLease(p, "done") /\ UNCHANGED snap

(***************************************************************************)
(* reconcileUnknownBrokerageAction                                         *)
(***************************************************************************)

\* `now` is taken when the tool is called, before the wait for the lease.
CallReconcile(r) ==
  /\ stage[r] = "idle"
  /\ snap' = [snap EXCEPT ![r] = [NoSnapshot EXCEPT !.now = moment]]
  /\ GoTo(r, "queued")
  /\ UNCHANGED <<moment, hold, deadline, rows, brokerVars>>

StartReconcile(r) ==
  /\ AcquireLease(r, "queued", "reading")
  /\ UNCHANGED <<moment, deadline, rows, brokerVars, snap>>

ReadUnresolved(r) ==
  /\ stage[r] = "reading"
  /\ \/ Unresolved = {} /\ GoTo(r, "leaving") /\ UNCHANGED snap
     \/ \E p \in Unresolved :
          snap' = [snap EXCEPT ![r].row = p] /\ GoTo(r, "history")
  /\ UNCHANGED <<moment, hold, deadline, rows, brokerVars>>

Earlier(a, b) == IF a < b THEN a ELSE b

\* Order history shows the orders the broker lists, some time after it has them.
Listed(o) == orders[o] # NoOrder /\ (orders[o].rejected => RejectsListed)
Shown(o) == Listed(o) /\ \A u \in unlisted : u.order # o

\* matchesSubmittedOrder for a row claimed before its request left.
InWindow(o, submittedAt, now) ==
  IF o.received # NoTime
  THEN /\ submittedAt - Skew <= o.received
       /\ o.received <= Earlier(submittedAt + Budget, now) + Skew
  ELSE o.updated >= submittedAt - Skew

Matches(p, now) ==
  {o \in Makers : Shown(o) /\ Ticket[o] = Ticket[p] /\ InWindow(orders[o], rows[p].submittedAt, now)}

ReadHistory(r, found, complete) ==
  /\ snap' = [snap EXCEPT ![r].matches = found, ![r].complete = complete]
  /\ GoTo(r, "owned")
  /\ UNCHANGED <<moment, hold, deadline, rows, brokerVars>>

CompleteRead(r) ==
  /\ stage[r] = "history"
  /\ ReadHistory(r, Matches(snap[r].row, snap[r].now), TRUE)

\* Bound: the reads and writes of a reconcile fail only before LastMoment.
MayFail == moment < LastMoment

\* A page that did not hold the whole history may miss any of its orders.
PartialRead(r) ==
  /\ stage[r] = "history" /\ MayFail
  /\ \E some \in SUBSET Matches(snap[r].row, snap[r].now) : ReadHistory(r, some, FALSE)

Owned == {rows[p].orderId : p \in {q \in Placements : rows[q] # NoRow}}

\* Mutant: candidates another row owns are kept.
KeepClaimedOrders(r) ==
  /\ stage[r] = "owned"
  /\ GoTo(r, "concluding")
  /\ UNCHANGED <<moment, hold, deadline, rows, brokerVars, snap>>

UnclaimedOrders(r) ==
  /\ stage[r] = "owned"
  /\ snap' = [snap EXCEPT ![r].matches = @ \ Owned]
  /\ GoTo(r, "concluding")
  /\ UNCHANGED <<moment, hold, deadline, rows, brokerVars>>

FirstOf(matches) == CHOOSE m \in matches : TRUE
Final(s) == s.now - rows[s.row].submittedAt >= Absence

\* Mutants: absence concluded from any page, or never.
AbsentFromAnyPage(s) ==
  IF s.matches = {} /\ Final(s) THEN Settled(s.row, "failed", NoOrder) ELSE rows
NeverAbsent(s) ==
  IF Cardinality(s.matches) = 1 /\ ~orders[FirstOf(s.matches)].rejected
  THEN Settled(s.row, "executed", FirstOf(s.matches))
  ELSE rows

\* One match settles the row as that order says; none settles it as never
\* received once absence is final; anything else keeps the quarantine.
Conclusion(s) ==
  IF Cardinality(s.matches) = 1
  THEN IF orders[FirstOf(s.matches)].rejected
       THEN Settled(s.row, "failed", NoOrder)
       ELSE Settled(s.row, "executed", FirstOf(s.matches))
  ELSE IF s.matches = {} /\ s.complete /\ Final(s)
  THEN Settled(s.row, "failed", NoOrder)
  ELSE rows

Conclude(r) ==
  /\ stage[r] = "concluding"
  /\ rows' = Conclusion(snap[r])
  /\ GoTo(r, "leaving")
  /\ UNCHANGED <<moment, hold, deadline, brokerVars, snap>>

\* A read or the write fails: the tool call ends with the row as it was.
ReconcileFails(r) ==
  /\ stage[r] \in {"reading", "history", "owned", "concluding"} /\ MayFail
  /\ GoTo(r, "leaving")
  /\ UNCHANGED <<moment, hold, deadline, rows, brokerVars, snap>>

EndReconcile(r) ==
  /\ ReleaseLease(r, "idle")
  /\ snap' = [snap EXCEPT ![r] = NoSnapshot]

(***************************************************************************)
(* The broker, the members' other tools, and time                          *)
(***************************************************************************)

\* The broker's clock may differ from ours, and its row may omit the instant.
Stamps == (moment - Skew)..(moment + Skew) \cup IF ReceivedOmitted THEN {NoTime} ELSE {}

\* updated-at is read only where received-at is missing.
NewOrder(o, rejected) ==
  /\ \E at \in Stamps :
       orders' = [orders EXCEPT ![o] = [received |-> at, rejected |-> rejected,
                                        updated |-> IF at = NoTime THEN moment ELSE 0]]
  /\ unlisted' = IF rejected /\ ~RejectsListed THEN unlisted
                 ELSE unlisted \cup {[order |-> o, until |-> moment + Lag]}

\* Only a placement still waiting for it hears the answer.
Answers(p, what) ==
  answer' = IF stage[p] = "sent" THEN [answer EXCEPT ![p] = what] ELSE answer

\* A request received before its deadline becomes an order, becomes an order
\* the broker rejected at once, or is refused outright with a 4xx.
BrokerReceives(m) ==
  /\ wire' = wire \ {m}
  /\ \/ NewOrder(m.from, FALSE) /\ Answers(m.from, "accepted")
     \/ NewOrder(m.from, TRUE) /\ Answers(m.from, "rejected")
     \/ Answers(m.from, "refused") /\ UNCHANGED <<orders, unlisted>>
  /\ UNCHANGED <<moment, hold, stage, deadline, rows, snap>>

OutsideOrder(o) ==
  /\ moment <= LastStart /\ orders[o] = NoOrder
  /\ NewOrder(o, FALSE)
  /\ UNCHANGED <<moment, hold, stage, deadline, rows, wire, answer, snap>>

OrderAppears(u) ==
  /\ u \in unlisted
  /\ unlisted' = unlisted \ {u}
  /\ UNCHANGED <<moment, hold, stage, deadline, rows, wire, answer, orders, snap>>

\* A fill or a cancellation moves an order's updated-at.
OrderMoves(o) ==
  /\ orders[o] # NoOrder /\ orders[o].received = NoTime /\ orders[o].updated < moment
  /\ orders' = [orders EXCEPT ![o].updated = moment]
  /\ UNCHANGED <<moment, hold, stage, deadline, rows, wire, answer, unlisted, snap>>

\* The isolate dies, or its release call fails: nobody releases its lease.  A
\* dead reconcile is asked for again.  Late deaths are cut so that the last
\* lease lapses before LastMoment.
PlacementDies(p) ==
  /\ stage[p] \notin {"idle", "done"} /\ moment + HoldMs <= LastMoment
  /\ GoTo(p, "done")
  /\ deadline' = [deadline EXCEPT ![p] = 0]
  /\ answer' = [answer EXCEPT ![p] = "none"]
  /\ UNCHANGED <<moment, hold, rows, wire, orders, unlisted, snap>>

ReconcileDies(r) ==
  /\ stage[r] \notin {"idle", "queued"} /\ moment + HoldMs <= LastMoment
  /\ GoTo(r, "idle")
  /\ snap' = [snap EXCEPT ![r] = NoSnapshot]
  /\ UNCHANGED <<moment, hold, deadline, rows, brokerVars>>

\* Time does not pass an assumed limit: the arrival of the gate's answer to a
\* renewal, or the appearance of an order in the broker's history.  A request
\* whose deadline has passed was abandoned.
OrderTick ==
  /\ moment < LastMoment
  /\ \A p \in Placements : stage[p] = "arming" => moment < deadline[p]
  /\ \A u \in unlisted : moment < u.until
  /\ moment' = moment + 1
  /\ wire' = {m \in wire : m.until > moment}
  /\ UNCHANGED <<hold, stage, deadline, rows, answer, orders, unlisted, snap>>

PlacementStep(p) ==
  \/ StartPlacement(p) \/ RefusedUnsent(p) \/ Renew(p) \/ ArmDeadline(p)
  \/ ClaimSubmission(p) \/ ClaimRefused(p) \/ SendRequest(p)
  \/ AnswerArrives(p) \/ Ambiguous(p) \/ SettleSubmission(p) \/ SettleFails(p)
  \/ EndPlacement(p)

ReconcileStep(r) ==
  \/ CallReconcile(r) \/ StartReconcile(r) \/ ReadUnresolved(r)
  \/ CompleteRead(r) \/ PartialRead(r)
  \/ UnclaimedOrders(r) \/ Conclude(r) \/ ReconcileFails(r) \/ EndReconcile(r)

OrderNext ==
  \/ \E p \in Placements : PlacementStep(p) \/ PlacementDies(p)
  \/ \E r \in Reconciles : ReconcileStep(r) \/ ReconcileDies(r)
  \/ \E m \in wire : BrokerReceives(m)
  \/ \E o \in Outside : OutsideOrder(o)
  \/ \E u \in unlisted : OrderAppears(u)
  \/ \E o \in Makers : OrderMoves(o)
  \/ OrderTick

OrderSpec == OrderInit /\ [][OrderNext]_orderVars

\* Callers that are alive go on, time passes, an agent told `unresolved` asks
\* again; reads and writes stop failing at LastMoment.  No placement has to
\* start, and no request has to arrive.
OrderFairness ==
  /\ WF_orderVars(OrderTick)
  /\ WF_orderVars(\E u \in unlisted : OrderAppears(u))
  /\ \A p \in Placements : WF_orderVars(PlacementStep(p) /\ stage[p] # "idle")
  /\ \A r \in Reconciles : WF_orderVars(ReconcileStep(r)) /\ SF_orderVars(StartReconcile(r))

OrderFairSpec == OrderSpec /\ OrderFairness

(***************************************************************************)
(* Properties                                                              *)
(***************************************************************************)

Live(p) == orders[p] # NoOrder /\ ~orders[p].rejected

\* An order the broker accepted is never forgotten: its row is either still
\* unresolved, so the account is quarantined, or executed under that order's
\* own id -- never failed, whatever answers, writes, isolates or reconciles
\* were lost (claimSubmission, settleSubmission, FINAL_ABSENCE_DELAY_MS).
EveryOrderAccounted ==
  \A p \in Placements : Live(p) =>
    \/ StatusOf(p) = "unresolved"
    \/ StatusOf(p) = "executed" /\ rows[p].orderId = p

\* A row is only ever settled as executed on the order its own request made:
\* an identical ticket of the same account never clears its quarantine
\* (unclaimedOrders, matchesSubmittedOrder).
SettledOnOwnOrder ==
  \A p \in Placements : StatusOf(p) = "executed" => rows[p].orderId = p /\ Live(p)

InFlight(p) == \E m \in wire : m.from = p

\* Whether an order exists is in doubt for at most one submission of the
\* account at a time: while a request may still be received, or its order is
\* not yet recorded, no second one leaves (the write-ahead claim).
InDoubt(p) == InFlight(p) \/ (Live(p) /\ StatusOf(p) # "executed")
OneInDoubt == \A p, q \in Placements : InDoubt(p) /\ InDoubt(q) => p = q

\* What the guards and the dry-run saw still holds when the request leaves:
\* until its deadline the placement holds the lease, so no other placement of
\* the account has run since (the second renewal and the submission deadline).
SentUnderLease ==
  \A p \in Placements :
    stage[p] \in {"claimed", "sent"} /\ moment <= deadline[p] => HoldsLease(p)

\* The shapes, and the three above.
OrderInv == OrderTypeOK /\ SettledOnOwnOrder /\ OneInDoubt /\ SentUnderLease

\* A settled row never changes again, however late another settle of it lands
\* after a lapsed lease (AND status = 'unresolved').
SettledIsFinal ==
  [][\A p \in Placements : StatusOf(p) \in {"executed", "failed"} => rows'[p] = rows[p]]_rows

\* A quarantine ends: as long as reconcile is called again and again, every
\* unresolved row is eventually settled.
QuarantineClears ==
  \A p \in Placements : (StatusOf(p) = "unresolved") ~> (StatusOf(p) # "unresolved")
==============================================================================
