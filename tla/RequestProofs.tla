---------------------------- MODULE RequestProofs ----------------------------
(***************************************************************************)
(* What a request depends on, for any number of members, runs, tokens and  *)
(* requests: a member's connection is redeemed once and by its own run, a  *)
(* proxy that runs holds the keyring as it is, whoever is served is whose  *)
(* credential it is, and what an agent reads of the account is whole.      *)
(***************************************************************************)
EXTENDS MarketTransport, BrokerConnection, AgentKeyring, AgentAccess, AccountReads,
        FiniteSetTheorems, SequenceTheorems, NaturalsInduction, WellFoundedInduction, TLAPS

(***************************************************************************)
(* The connection                                                          *)
(***************************************************************************)

\* A run that has not opened its authorization yet.
Unopened == {"idle", "authorizing", "inserting"}
RunSteps == Unopened \cup {"waiting", "exchanging", "connected", "ended"}
Run == [step : RunSteps, port : Ports \cup {Absent}, token : Tokens \cup {Absent}, now : Nat, until : Nat]
ExchangeCall ==
  [step : {"none", "arriving", "refused", "consuming", "redeeming", "answered"},
   state : Attempts \cup {Absent}, code : Attempts \cup {Absent},
   user : {Absent, Member, "another"}, now : Nat]

ConnectShape ==
  /\ instant \in Nat /\ attempt \in [Attempts -> Run] /\ exchange \in [Callers -> ExchangeCall]
  /\ record \in [redeemed : [Attempts -> Nat], by : SUBSET {Member}]

\* The table: no more rows than the cap, one to a state, of runs that have opened one.
PendingInv ==
  /\ IsFiniteSet(pending) /\ Cardinality(pending) <= MaxPending
  /\ \A row \in pending : row.state \in Attempts /\ attempt[row.state].step \notin Unopened
  /\ \A row, other \in pending : row.state = other.state => row = other

\* A state that is pending, or will be, was never redeemed.
RedeemedInv ==
  /\ \A row \in pending : record.redeemed[row.state] = 0
  /\ \A a \in Attempts : attempt[a].step \in Unopened => record.redeemed[a] = 0
  /\ \A a \in Attempts : record.redeemed[a] <= 1

OwnCode == \A a \in Attempts : attempt[a].step \in {"exchanging", "connected"} => exchange[a].code = a

ConnectIInv == ConnectShape /\ PendingInv /\ RedeemedInv /\ OwnCode

LEMMA ConnectInitially == ConnectInit => ConnectIInv
<1> SUFFICES ASSUME ConnectInit PROVE ConnectIInv
  OBVIOUS
<1>1. ConnectShape
  BY ConnectAssumption DEF ConnectInit, ConnectShape, Unstarted, NoCall, Run, RunSteps, Unopened, ExchangeCall
<1>2. PendingInv
  BY ConnectAssumption, FS_EmptySet DEF ConnectInit, PendingInv
<1>3. RedeemedInv /\ OwnCode
  BY DEF ConnectInit, RedeemedInv, OwnCode, Unstarted
<1> QED
  BY <1>1, <1>2, <1>3 DEF ConnectIInv

LEMMA FewerPending ==
  ASSUME IsFiniteSet(pending), Cardinality(pending) <= MaxPending, NEW rest \in SUBSET pending
  PROVE  IsFiniteSet(rest) /\ Cardinality(rest) <= MaxPending
<1>1. IsFiniteSet(rest) /\ Cardinality(rest) <= Cardinality(pending)
  BY FS_Subset
<1>2. Cardinality(rest) \in Nat /\ Cardinality(pending) \in Nat /\ MaxPending \in Nat
  BY <1>1, FS_CardinalityType, ConnectAssumption
<1> QED
  BY <1>1, <1>2

LEMMA ConnectTypes == ConnectIInv => ConnectionInv
<1> SUFFICES ASSUME ConnectIInv PROVE ConnectionInv
  OBVIOUS
<1>1. Cardinality(Unexpired(instant)) <= MaxPending
  BY FewerPending DEF ConnectIInv, PendingInv, Unexpired
<1>2. AuthorizationsHold
  BY <1>1 DEF AuthorizationsHold, ConnectIInv, ConnectShape, RedeemedInv
<1>3. GrantIsOwn
  BY DEF GrantIsOwn, ConnectIInv, OwnCode, At
<1> QED
  BY <1>2, <1>3 DEF ConnectionInv

\* A run that goes on opens nothing, and no redemption is recorded: the table may only shrink.
LEMMA RunsMove ==
  ASSUME ConnectIInv, pending' \subseteq pending, record' = record,
         \A a \in Attempts : attempt'[a].step \in Unopened => attempt[a].step \in Unopened
  PROVE  PendingInv' /\ RedeemedInv'
<1>1. IsFiniteSet(pending') /\ Cardinality(pending') <= MaxPending
  BY FewerPending DEF ConnectIInv, PendingInv
<1>2. PendingInv'
  BY <1>1 DEF ConnectIInv, PendingInv
<1>3. RedeemedInv'
  BY DEF ConnectIInv, RedeemedInv
<1> QED
  BY <1>2, <1>3

\* A run that ends, or stays what it was, keeps the shape of the runs.
LEMMA RunEnds ==
  ASSUME ConnectIInv, NEW a \in Attempts, Ends(a)
  PROVE  /\ attempt' \in [Attempts -> Run] /\ attempt'[a].step = "ended"
         /\ \A b \in Attempts \ {a} : attempt'[b] = attempt[b]
  BY DEF ConnectIInv, ConnectShape, Ends, Unstarted, Run, RunSteps

LEMMA RunGoes ==
  ASSUME ConnectIInv, NEW a \in Attempts, NEW step \in RunSteps, Goes(a, step)
  PROVE  /\ attempt' \in [Attempts -> Run] /\ attempt'[a].step = step
         /\ \A b \in Attempts \ {a} : attempt'[b] = attempt[b]
  BY DEF ConnectIInv, ConnectShape, Goes, Run

LEMMA BeginKeeps ==
  ASSUME ConnectIInv, NEW a \in Attempts, Begin(a)
  PROVE  ConnectIInv'
<1>1. PICK p \in Ports, t \in Tokens :
        attempt' = [attempt EXCEPT ![a] = [@ EXCEPT !.step = "authorizing", !.port = p, !.token = t]]
  BY DEF Begin
<1> DEFINE begun == [attempt[a] EXCEPT !.step = "authorizing", !.port = p, !.token = t]
<1>2. begun \in Run /\ begun.step = "authorizing"
  BY DEF ConnectIInv, ConnectShape, Run, RunSteps, Unopened
<1>3. attempt' = [attempt EXCEPT ![a] = begun]
  BY <1>1
<1> HIDE DEF begun
<1>4. /\ attempt' \in [Attempts -> Run] /\ attempt'[a].step = "authorizing"
      /\ \A b \in Attempts \ {a} : attempt'[b] = attempt[b]
  BY <1>2, <1>3 DEF ConnectIInv, ConnectShape
<1>5. ConnectShape' /\ OwnCode'
  BY <1>4 DEF ConnectIInv, ConnectShape, OwnCode, Begin
<1>6. PendingInv' /\ RedeemedInv'
  BY <1>4, RunsMove DEF Begin, At, Unopened
<1> QED
  BY <1>5, <1>6 DEF ConnectIInv

LEMMA AuthenticatedKeeps ==
  ASSUME ConnectIInv, NEW a \in Attempts, AuthorizeAuthenticated(a)
  PROVE  ConnectIInv'
<1>1. CASE Live(attempt[a].token)
  <2> DEFINE let == [attempt[a] EXCEPT !.step = "inserting", !.now = instant]
  <2>1. let \in Run /\ let.step = "inserting"
    BY DEF ConnectIInv, ConnectShape, Run, RunSteps, Unopened
  <2>2. attempt' = [attempt EXCEPT ![a] = let]
    BY <1>1 DEF AuthorizeAuthenticated, ConnectIInv, ConnectShape
  <2> HIDE DEF let
  <2>3. /\ attempt' \in [Attempts -> Run] /\ attempt'[a].step = "inserting"
        /\ \A b \in Attempts \ {a} : attempt'[b] = attempt[b]
    BY <2>1, <2>2 DEF ConnectIInv, ConnectShape
  <2>4. ConnectShape' /\ OwnCode'
    BY <2>3 DEF ConnectIInv, ConnectShape, OwnCode, AuthorizeAuthenticated
  <2>5. PendingInv' /\ RedeemedInv'
    BY <2>3, RunsMove DEF AuthorizeAuthenticated, At, Unopened
  <2> QED
    BY <2>4, <2>5 DEF ConnectIInv
<1>2. CASE Ends(a)
  <2>1. ConnectShape' /\ OwnCode'
    BY <1>2, RunEnds DEF ConnectIInv, ConnectShape, OwnCode, AuthorizeAuthenticated
  <2>2. PendingInv' /\ RedeemedInv'
    BY <1>2, RunEnds, RunsMove DEF AuthorizeAuthenticated, Unopened
  <2> QED
    BY <2>1, <2>2 DEF ConnectIInv
<1> QED
  BY <1>1, <1>2 DEF AuthorizeAuthenticated

LEMMA AuthorizeKeeps ==
  ASSUME ConnectIInv, NEW a \in Attempts, Authorize(a)
  PROVE  ConnectIInv'
<1> DEFINE kept == Unexpired(attempt[a].now)
           row == [state |-> a, port |-> attempt[a].port, until |-> attempt[a].now + Lifetime]
<1>1. kept \subseteq pending
  BY DEF Unexpired
<1>2. CASE ~Room(attempt[a].now)
  <2>1. Ends(a) /\ pending' = kept
    BY <1>2 DEF Authorize
  <2>2. ConnectShape' /\ OwnCode'
    BY <2>1, RunEnds DEF ConnectIInv, ConnectShape, OwnCode, Authorize
  <2>3. PendingInv' /\ RedeemedInv'
    BY <1>1, <2>1, RunEnds, RunsMove DEF Authorize, Unopened
  <2> QED
    BY <2>2, <2>3 DEF ConnectIInv
<1>3. CASE Room(attempt[a].now)
  <2> DEFINE opened == [attempt[a] EXCEPT !.step = "waiting", !.now = 0, !.until = row.until]
  <2>1. row.state = a /\ row.until \in Nat
    BY ConnectAssumption DEF ConnectIInv, ConnectShape, Run
  <2>2. pending' = kept \cup {row} /\ attempt' = [attempt EXCEPT ![a] = opened]
    BY <1>3 DEF Authorize, ConnectIInv, ConnectShape
  <2> HIDE DEF row
  <2>3. opened \in Run /\ opened.step = "waiting"
    BY <2>1 DEF ConnectIInv, ConnectShape, Run, RunSteps
  <2> HIDE DEF opened
  <2>4. /\ attempt' \in [Attempts -> Run] /\ attempt'[a].step = "waiting"
        /\ \A b \in Attempts \ {a} : attempt'[b] = attempt[b]
    BY <2>2, <2>3 DEF ConnectIInv, ConnectShape
  <2>5. ConnectShape' /\ OwnCode'
    BY <2>4 DEF ConnectIInv, ConnectShape, OwnCode, Authorize
  <2>6. \A other \in pending : other.state # a
    BY DEF ConnectIInv, PendingInv, Authorize, At, Unopened
  <2>7. IsFiniteSet(pending') /\ Cardinality(pending') <= MaxPending
    <3>1. IsFiniteSet(kept) /\ Cardinality(kept) \in Nat
      BY <1>1, FS_Subset, FS_CardinalityType DEF ConnectIInv, PendingInv
    <3>2. IsFiniteSet(kept \cup {row}) /\ Cardinality(kept \cup {row}) = Cardinality(kept) + 1
      BY <1>1, <2>1, <2>6, <3>1, FS_AddElement
    <3>3. Cardinality(kept) < MaxPending /\ MaxPending \in Nat
      BY <1>3, ConnectAssumption DEF Room
    <3> HIDE DEF kept
    <3> QED
      BY <2>2, <3>1, <3>2, <3>3
  <2>8. PendingInv'
    BY <1>1, <2>1, <2>2, <2>4, <2>6, <2>7 DEF ConnectIInv, PendingInv, Unopened
  <2>9. RedeemedInv'
    <3>1. record' = record /\ record.redeemed[a] = 0
      BY DEF Authorize, ConnectIInv, RedeemedInv, At, Unopened
    <3> QED
      BY <1>1, <2>1, <2>2, <2>4, <3>1 DEF ConnectIInv, RedeemedInv, Unopened
  <2> QED
    BY <2>5, <2>8, <2>9 DEF ConnectIInv
<1> QED
  BY <1>2, <1>3

LEMMA ReturnKeeps ==
  ASSUME ConnectIInv, NEW a \in Attempts, NEW b \in Attempts, Return(a, b)
  PROVE  ConnectIInv'
<1>1. a = b /\ At(b, "waiting")
  BY DEF Return, Expects
<1>2. CASE browser[a].at = "denied"
  <2>1. ConnectShape' /\ OwnCode'
    BY <1>2, RunEnds DEF ConnectIInv, ConnectShape, OwnCode, Return
  <2>2. PendingInv' /\ RedeemedInv'
    BY <1>2, RunEnds, RunsMove DEF Return, Unopened
  <2> QED
    BY <2>1, <2>2 DEF ConnectIInv
<1>3. CASE browser[a].at # "denied"
  <2> DEFINE sent == [NoCall EXCEPT !.step = "arriving", !.state = b, !.code = a, !.user = Member]
  <2>1. sent \in ExchangeCall /\ sent.code = b
    BY <1>1 DEF NoCall, ExchangeCall
  <2>2. Goes(b, "exchanging") /\ exchange' = [exchange EXCEPT ![b] = sent]
    BY <1>3 DEF Return
  <2> HIDE DEF sent
  <2>3. /\ exchange' \in [Callers -> ExchangeCall] /\ exchange'[b].code = b
        /\ \A c \in Attempts \ {b} : exchange'[c] = exchange[c]
    BY <2>1, <2>2 DEF ConnectIInv, ConnectShape, Callers
  <2>4. /\ attempt' \in [Attempts -> Run] /\ attempt'[b].step = "exchanging"
        /\ \A c \in Attempts \ {b} : attempt'[c] = attempt[c]
    BY <2>2, RunGoes DEF RunSteps
  <2>5. ConnectShape' /\ OwnCode'
    BY <2>3, <2>4 DEF ConnectIInv, ConnectShape, OwnCode, Return
  <2>6. PendingInv' /\ RedeemedInv'
    BY <2>4, RunsMove DEF Return, Unopened
  <2> QED
    BY <2>5, <2>6 DEF ConnectIInv
<1> QED
  BY <1>2, <1>3

\* A call moves on: what it carries is what it was sent with.
LEMMA CallMoves ==
  ASSUME ConnectIInv, UNCHANGED <<instant, pending, attempt, record>>,
         exchange' \in [Callers -> ExchangeCall], \A a \in Attempts : exchange'[a].code = exchange[a].code
  PROVE  ConnectIInv'
<1>1. ConnectShape' /\ OwnCode'
  BY DEF ConnectIInv, ConnectShape, OwnCode
<1>2. PendingInv' /\ RedeemedInv'
  BY RunsMove
<1> QED
  BY <1>1, <1>2 DEF ConnectIInv

LEMMA ResendKeeps ==
  ASSUME ConnectIInv, NEW a \in Attempts, Resend(a)
  PROVE  ConnectIInv'
<1>1. PICK user \in {Member, "another"} :
        exchange' = [exchange EXCEPT ![Replay] =
          [NoCall EXCEPT !.step = "arriving", !.state = a, !.code = a, !.user = user]]
  BY DEF Resend
<1> DEFINE sent == [NoCall EXCEPT !.step = "arriving", !.state = a, !.code = a, !.user = user]
<1>2. sent \in ExchangeCall
  BY DEF NoCall, ExchangeCall
<1>3. exchange' = [exchange EXCEPT ![Replay] = sent]
  BY <1>1
<1> HIDE DEF sent
<1>4. exchange' \in [Callers -> ExchangeCall] /\ \A c \in Attempts : exchange'[c] = exchange[c]
  BY <1>2, <1>3, ConnectAssumption DEF ConnectIInv, ConnectShape, Callers, Replay
<1> QED
  BY <1>4, CallMoves DEF Resend

LEMMA ExchangeAuthenticatedKeeps ==
  ASSUME ConnectIInv, NEW c \in Callers, ExchangeAuthenticated(c)
  PROVE  ConnectIInv'
<1> DEFINE to == IF Presented(c) THEN "consuming" ELSE "refused"
           seen == [exchange[c] EXCEPT !.step = to, !.now = instant]
<1>1. to \in {"consuming", "refused"}
  OBVIOUS
<1>2. exchange' = [exchange EXCEPT ![c] = seen]
  BY DEF ExchangeAuthenticated, ConnectIInv, ConnectShape
<1> HIDE DEF to
<1>3. seen \in ExchangeCall /\ seen.code = exchange[c].code
  BY <1>1 DEF ConnectIInv, ConnectShape, ExchangeCall
<1> HIDE DEF seen
<1>4. exchange' \in [Callers -> ExchangeCall] /\ \A a \in Attempts : exchange'[a].code = exchange[a].code
  BY <1>2, <1>3 DEF ConnectIInv, ConnectShape, Callers
<1> QED
  BY <1>4, CallMoves DEF ExchangeAuthenticated

LEMMA RedeemKeeps ==
  ASSUME ConnectIInv, NEW c \in Callers, Redeem(c)
  PROVE  ConnectIInv'
<1>1. PICK to \in {"answered", "refused"} : exchange' = [exchange EXCEPT ![c].step = to]
  BY DEF Redeem
<1>2. exchange' \in [Callers -> ExchangeCall] /\ \A a \in Attempts : exchange'[a].code = exchange[a].code
  BY <1>1 DEF ConnectIInv, ConnectShape, Callers, ExchangeCall
<1> QED
  BY <1>2, CallMoves DEF Redeem

LEMMA ConsumeKeeps ==
  ASSUME ConnectIInv, NEW c \in Callers, Consume(c)
  PROVE  ConnectIInv'
<1> DEFINE s == exchange[c].state
           rows == {row \in Unexpired(exchange[c].now) : row.state = s /\ exchange[c].user = Member}
           to == IF rows = {} THEN "refused" ELSE "redeeming"
           heard == [exchange[c] EXCEPT !.step = to, !.now = 0]
<1>1. rows \subseteq pending /\ \A row \in rows : row.state = s /\ exchange[c].user = Member
  BY DEF Unexpired
<1>2. /\ pending' = pending \ rows /\ exchange' = [exchange EXCEPT ![c] = heard]
      /\ record' = IF rows = {} THEN record
                   ELSE [record EXCEPT !.redeemed[s] = @ + 1, !.by = @ \cup {exchange[c].user}]
  BY DEF Consume, Consumed, ConnectIInv, ConnectShape
<1>3. to \in {"refused", "redeeming"}
  OBVIOUS
<1> HIDE DEF rows, to
<1>4. heard \in ExchangeCall /\ heard.code = exchange[c].code
  BY <1>3 DEF ConnectIInv, ConnectShape, ExchangeCall
<1> HIDE DEF heard
<1>5. exchange' \in [Callers -> ExchangeCall] /\ \A a \in Attempts : exchange'[a].code = exchange[a].code
  BY <1>2, <1>4 DEF ConnectIInv, ConnectShape, Callers
<1>6. OwnCode'
  BY <1>5 DEF ConnectIInv, OwnCode, Consume
<1>7. CASE rows = {}
  <2>1. record' = record /\ pending' \subseteq pending /\ attempt' = attempt /\ instant' = instant
    BY <1>2, <1>7 DEF Consume
  <2>2. ConnectShape'
    BY <1>5, <2>1 DEF ConnectIInv, ConnectShape
  <2>3. PendingInv' /\ RedeemedInv'
    BY <2>1, RunsMove
  <2> QED
    BY <1>6, <2>2, <2>3 DEF ConnectIInv
<1>8. CASE rows # {}
  <2> DEFINE redeemed == [record.redeemed EXCEPT ![s] = @ + 1]
  <2>1. PICK row \in rows : TRUE
    BY <1>8
  <2>2. row \in pending /\ row.state = s /\ exchange[c].user = Member /\ s \in Attempts
    BY <1>1, <2>1 DEF ConnectIInv, PendingInv
  <2>3. record.redeemed[s] = 0 /\ attempt[s].step \notin Unopened
    BY <2>2 DEF ConnectIInv, PendingInv, RedeemedInv
  <2>4. record' = [redeemed |-> redeemed, by |-> record.by \cup {Member}]
    BY <1>2, <1>8, <2>2 DEF ConnectIInv, ConnectShape
  <2>5. /\ redeemed \in [Attempts -> Nat] /\ redeemed[s] = 1
        /\ \A a \in Attempts \ {s} : redeemed[a] = record.redeemed[a]
    BY <2>2, <2>3 DEF ConnectIInv, ConnectShape
  <2> HIDE DEF redeemed
  <2>6. record'.redeemed = redeemed /\ record' \in [redeemed : [Attempts -> Nat], by : SUBSET {Member}]
    BY <2>4, <2>5 DEF ConnectIInv, ConnectShape
  <2>7. ConnectShape'
    BY <1>5, <2>6 DEF ConnectIInv, ConnectShape, Consume
  <2>8. \A other \in pending' : other \in pending /\ other.state # s
    BY <1>2, <2>1, <2>2 DEF ConnectIInv, PendingInv
  <2>9. IsFiniteSet(pending') /\ Cardinality(pending') <= MaxPending
    BY <2>8, FewerPending DEF ConnectIInv, PendingInv
  <2>10. PendingInv'
    BY <2>8, <2>9 DEF ConnectIInv, PendingInv, Consume
  <2>11. RedeemedInv'
    BY <2>3, <2>5, <2>6, <2>8 DEF ConnectIInv, PendingInv, RedeemedInv, Consume
  <2> QED
    BY <1>6, <2>7, <2>10, <2>11 DEF ConnectIInv
<1> QED
  BY <1>7, <1>8

LEMMA ReceiveKeeps ==
  ASSUME ConnectIInv, NEW a \in Attempts, Receive(a)
  PROVE  ConnectIInv'
<1>1. CASE Goes(a, "connected")
  <2>1. /\ attempt' \in [Attempts -> Run] /\ attempt'[a].step = "connected"
        /\ \A c \in Attempts \ {a} : attempt'[c] = attempt[c]
    BY <1>1, RunGoes DEF RunSteps
  <2>2. ConnectShape' /\ OwnCode'
    BY <2>1 DEF ConnectIInv, ConnectShape, OwnCode, Receive, At
  <2>3. PendingInv' /\ RedeemedInv'
    BY <2>1, RunsMove DEF Receive, Unopened
  <2> QED
    BY <2>2, <2>3 DEF ConnectIInv
<1>2. CASE Ends(a)
  <2>1. ConnectShape' /\ OwnCode'
    BY <1>2, RunEnds DEF ConnectIInv, ConnectShape, OwnCode, Receive
  <2>2. PendingInv' /\ RedeemedInv'
    BY <1>2, RunEnds, RunsMove DEF Receive, Unopened
  <2> QED
    BY <2>1, <2>2 DEF ConnectIInv
<1> QED
  BY <1>1, <1>2 DEF Receive

LEMMA RunStopsKeeps ==
  ASSUME ConnectIInv, NEW a \in Attempts, Lapse(a) \/ Interrupt(a)
  PROVE  ConnectIInv'
<1>1. Ends(a) /\ UNCHANGED <<instant, pending, exchange, record>>
  BY DEF Lapse, Interrupt
<1>2. ConnectShape' /\ OwnCode'
  BY <1>1, RunEnds DEF ConnectIInv, ConnectShape, OwnCode
<1>3. PendingInv' /\ RedeemedInv'
  BY <1>1, RunEnds, RunsMove DEF Unopened
<1> QED
  BY <1>2, <1>3 DEF ConnectIInv

LEMMA SweepKeeps ==
  ASSUME ConnectIInv, SweepAuthorizations
  PROVE  ConnectIInv'
<1>1. ConnectShape' /\ OwnCode'
  BY DEF ConnectIInv, ConnectShape, OwnCode, SweepAuthorizations
<1>2. PendingInv' /\ RedeemedInv'
  BY RunsMove DEF SweepAuthorizations, Unexpired
<1> QED
  BY <1>1, <1>2 DEF ConnectIInv

\* What moves nothing of these.
LEMMA ElsewhereKeeps ==
  ASSUME ConnectIInv, UNCHANGED <<pending, attempt, exchange, record>>, instant' \in Nat
  PROVE  ConnectIInv'
<1>1. ConnectShape' /\ OwnCode'
  BY DEF ConnectIInv, ConnectShape, OwnCode
<1>2. PendingInv' /\ RedeemedInv'
  BY RunsMove
<1> QED
  BY <1>1, <1>2 DEF ConnectIInv

LEMMA ConnectStep == ConnectIInv /\ [ConnectNext]_connectVars => ConnectIInv'
<1> SUFFICES ASSUME ConnectIInv, [ConnectNext]_connectVars PROVE ConnectIInv'
  OBVIOUS
<1>1. CASE UNCHANGED connectVars
  BY <1>1, ElsewhereKeeps DEF connectVars, ConnectIInv, ConnectShape
<1>2. ASSUME NEW t \in Tokens, Issue(t) \/ Revoke(t) PROVE ConnectIInv'
  BY <1>2, ElsewhereKeeps DEF Issue, Revoke, ConnectIInv, ConnectShape
<1>3. ASSUME NEW a \in Attempts, Answer(a) \/ Callback(a) PROVE ConnectIInv'
  BY <1>3, ElsewhereKeeps DEF Answer, Callback, ConnectIInv, ConnectShape
<1>4. CASE Elapse
  BY <1>4, ElsewhereKeeps DEF Elapse, ConnectIInv, ConnectShape
<1>5. ASSUME NEW a \in Attempts,
             \/ Begin(a) \/ AuthorizeAuthenticated(a) \/ Authorize(a) \/ Lapse(a) \/ Resend(a)
             \/ Receive(a) \/ Interrupt(a)
      PROVE  ConnectIInv'
  BY <1>5, BeginKeeps, AuthenticatedKeeps, AuthorizeKeeps, RunStopsKeeps, ResendKeeps, ReceiveKeeps
<1>6. ASSUME NEW c \in Callers, ExchangeAuthenticated(c) \/ Consume(c) \/ Redeem(c) PROVE ConnectIInv'
  BY <1>6, ExchangeAuthenticatedKeeps, ConsumeKeeps, RedeemKeeps
<1> QED
  BY <1>1, <1>2, <1>3, <1>4, <1>5, <1>6, ReturnKeeps, SweepKeeps DEF ConnectNext

\* However runs overlap and whatever is sent again, a member never has more pending
\* authorizations than the cap, each is redeemed at most once and by its own member, and a
\* run is connected with the grant it asked for (authorizeTastytrade, exchangeTastytrade,
\* loopbackListener).
THEOREM ConnectionsHold == ConnectSpec => []ConnectionInv
<1>1. ConnectSpec => []ConnectIInv
  BY ConnectInitially, ConnectStep, PTL DEF ConnectSpec
<1> QED
  BY <1>1, ConnectTypes, PTL

(***************************************************************************)
(* The keyring                                                             *)
(***************************************************************************)

ConnectSteps == {"idle", "connecting", "stored", "restarting", "ended"}
Values == {NoEntry, "typed"} \cup Connects \cup AgentTokens
Scripts ==
  {<<>>, <<"mcp-token", "restart">>, <<"client-secret", "refresh-token", "restart">>,
   <<"refresh-token", "restart">>, <<"restart">>}
Proxy == [step : {"down", "reading", "up"}, left : SUBSET Entries, holds : [Entries -> Values]]

KeyringShape ==
  /\ keyring \in [Entries -> Values] /\ connect \in [Connects -> ConnectSteps]
  /\ script \in Scripts /\ proxy \in Proxy

\* Somebody who will restart the proxy has changed the entry, or may yet: the script under
\* way, the run whose grant it is; or somebody who will not has.
Owed(e) ==
  \/ unread \/ script # <<>>
  \/ e = "app-refresh-token" /\ \E c \in Connects : keyring[e] = c /\ connect[c] \in {"stored", "restarting"}

ReadIsCurrent ==
  proxy.step # "down" => \A e \in Entries \ proxy.left : proxy.holds[e] = keyring[e] \/ Owed(e)

UpIsUsable == proxy.step = "up" => proxy.left = {} /\ Usable(proxy.holds)

KeyringIInv == KeyringShape /\ ReadIsCurrent /\ UpIsUsable

LEMMA KeyringInitially == KeyringInit => KeyringIInv
  BY DEF KeyringInit, KeyringIInv, KeyringShape, ReadIsCurrent, UpIsUsable, Nothing, Down, Values,
         Scripts, Proxy, ConnectSteps

LEMMA KeyringTypes == KeyringIInv => ProxyIsCurrent
<1> SUFFICES ASSUME KeyringIInv, proxy.step = "up", ~Writing, ~unread
             PROVE  proxy.holds = keyring /\ ~BothKinds(keyring)
  BY DEF ProxyIsCurrent
<1>1. proxy.left = {} /\ ~BothKinds(proxy.holds)
  BY DEF KeyringIInv, UpIsUsable, Usable
<1>2. \A e \in Entries : ~Owed(e)
  BY DEF Owed, Writing
<1>3. \A e \in Entries : proxy.holds[e] = keyring[e]
  BY <1>1, <1>2 DEF KeyringIInv, ReadIsCurrent
<1>4. proxy.holds = keyring
  BY <1>3 DEF KeyringIInv, KeyringShape, Proxy
<1> QED
  BY <1>1, <1>4

\* A proxy that starts again has read nothing yet.
LEMMA RestartKeeps ==
  ASSUME KeyringIInv, Restarts, UNCHANGED keyring, connect' \in [Connects -> ConnectSteps], script' \in Scripts
  PROVE  KeyringIInv'
<1>1. /\ proxy' \in Proxy /\ proxy'.step = "reading" /\ proxy'.left = Entries
  BY DEF Restarts, Restarted, Nothing, Proxy, Values
<1> QED
  BY <1>1 DEF KeyringIInv, KeyringShape, ReadIsCurrent, UpIsUsable

\* A step of the writers that leaves no change unaccounted for.
LEMMA WritersKeep ==
  ASSUME KeyringIInv, UNCHANGED proxy, KeyringShape',
         \A e \in Entries : (keyring'[e] # keyring[e] \/ Owed(e)) => Owed(e)'
  PROVE  KeyringIInv'
  BY DEF KeyringIInv, KeyringShape, ReadIsCurrent, UpIsUsable

LEMMA ScriptMoves ==
  ASSUME KeyringIInv, script # <<>>
  PROVE  /\ Tail(script) \in Scripts /\ Head(script) \in Entries \cup {"restart"}
         /\ Head(script) # "restart" => Tail(script) # <<>>
<1>1. CASE script = <<"mcp-token", "restart">>
  BY <1>1 DEF Scripts, Entries, Personal
<1>2. CASE script = <<"client-secret", "refresh-token", "restart">>
  BY <1>2 DEF Scripts, Entries, Personal
<1>3. CASE script = <<"refresh-token", "restart">>
  BY <1>3 DEF Scripts, Entries, Personal
<1>4. CASE script = <<"restart">>
  BY <1>4 DEF Scripts
<1> QED
  BY <1>1, <1>2, <1>3, <1>4 DEF KeyringIInv, KeyringShape, Scripts

LEMMA RunKeeps ==
  ASSUME KeyringIInv, NEW c \in Connects,
         Connect(c) \/ StoreGrant(c) \/ ReadBack(c) \/ RestartProxy(c) \/ ConnectEnds(c)
  PROVE  KeyringIInv'
<1>1. /\ keyring \in [Entries -> Values] /\ connect \in [Connects -> ConnectSteps]
      /\ script \in Scripts /\ proxy \in Proxy
  BY DEF KeyringIInv, KeyringShape
<1>2. CASE Connect(c)
  <2>1. KeyringShape'
    BY <1>1, <1>2 DEF Connect, Then, KeyringShape, ConnectSteps
  <2>2. \A e \in Entries : (keyring'[e] # keyring[e] \/ Owed(e)) => Owed(e)'
    BY <1>1, <1>2 DEF Connect, Then, Now, Owed
  <2> QED
    BY <1>2, <2>1, <2>2, WritersKeep DEF Connect
<1>3. CASE StoreGrant(c)
  <2>1. /\ connect' \in [Connects -> ConnectSteps] /\ connect'[c] = "stored"
        /\ \A d \in Connects \ {c} : connect'[d] = connect[d]
    BY <1>1, <1>3 DEF StoreGrant, Then, ConnectSteps
  <2>2. /\ keyring' \in [Entries -> Values] /\ keyring'["app-refresh-token"] = c
        /\ \A e \in Entries \ {"app-refresh-token"} : keyring'[e] = keyring[e]
    BY <1>1, <1>3 DEF StoreGrant, Values, Entries
  <2>3. \A e \in Entries : (keyring'[e] # keyring[e] \/ Owed(e)) => Owed(e)'
    BY <1>3, <2>1, <2>2 DEF StoreGrant, Owed
  <2> QED
    BY <1>1, <1>3, <2>1, <2>2, <2>3, WritersKeep DEF StoreGrant, KeyringShape
<1>4. CASE ReadBack(c)
  <2> DEFINE to == IF keyring["app-refresh-token"] = c THEN "restarting" ELSE "ended"
  <2>1. to \in ConnectSteps /\ connect' = [connect EXCEPT ![c] = to]
    BY <1>4 DEF ReadBack, Then, ConnectSteps
  <2>2. keyring["app-refresh-token"] = c => to = "restarting"
    OBVIOUS
  <2> HIDE DEF to
  <2>3. /\ connect' \in [Connects -> ConnectSteps] /\ connect'[c] = to
        /\ \A d \in Connects \ {c} : connect'[d] = connect[d]
    BY <1>1, <2>1
  <2>4. \A e \in Entries : (keyring'[e] # keyring[e] \/ Owed(e)) => Owed(e)'
    BY <1>4, <2>2, <2>3 DEF ReadBack, Owed
  <2> QED
    BY <1>1, <1>4, <2>3, <2>4, WritersKeep DEF ReadBack, KeyringShape
<1>5. CASE RestartProxy(c)
  BY <1>1, <1>5, RestartKeeps DEF RestartProxy, Then, ConnectSteps
<1>6. CASE ConnectEnds(c)
  <2>1. /\ connect' \in [Connects -> ConnectSteps] /\ unread' = (unread \/ connect[c] # "connecting")
        /\ connect[c] \in {"connecting", "stored", "restarting"}
        /\ \A d \in Connects \ {c} : connect'[d] = connect[d]
    BY <1>1, <1>6 DEF ConnectEnds, Then, Now, ConnectSteps
  <2>2. UNCHANGED <<keyring, script, proxy>>
    BY <1>6 DEF ConnectEnds
  <2>3. \A e \in Entries : (keyring'[e] # keyring[e] \/ Owed(e)) => Owed(e)'
    <3>1. CASE connect[c] = "connecting"
      BY <2>1, <2>2, <3>1 DEF Owed
    <3>2. CASE connect[c] # "connecting"
      BY <2>1, <2>2, <3>2 DEF Owed
    <3> QED
      BY <3>1, <3>2
  <2> QED
    BY <1>1, <2>1, <2>2, <2>3, WritersKeep DEF KeyringShape
<1> QED
  BY <1>2, <1>3, <1>4, <1>5, <1>6

LEMMA ScriptKeeps ==
  ASSUME KeyringIInv, RunScript \/ ScriptStores \/ ScriptRestarts \/ ScriptEnds \/ Clear
  PROVE  KeyringIInv'
<1>1. /\ keyring \in [Entries -> Values] /\ connect \in [Connects -> ConnectSteps]
      /\ script \in Scripts /\ proxy \in Proxy
  BY DEF KeyringIInv, KeyringShape
<1>2. CASE RunScript
  <2>1. script' \in Scripts /\ script' # <<>>
    BY <1>2 DEF RunScript, Writes, Scripts
  <2>2. \A e \in Entries : (keyring'[e] # keyring[e] \/ Owed(e)) => Owed(e)'
    BY <2>1 DEF Owed
  <2> QED
    BY <1>1, <1>2, <2>1, <2>2, WritersKeep DEF RunScript, KeyringShape
<1>3. CASE ScriptStores
  <2>1. /\ script' \in Scripts /\ script' # <<>> /\ Head(script) \in Entries
    BY <1>3, ScriptMoves DEF ScriptStores
  <2>2. keyring' \in [Entries -> Values]
    BY <1>1, <1>3, <2>1 DEF ScriptStores, Typed, Values
  <2>3. \A e \in Entries : (keyring'[e] # keyring[e] \/ Owed(e)) => Owed(e)'
    BY <2>1 DEF Owed
  <2> QED
    BY <1>1, <1>3, <2>1, <2>2, <2>3, WritersKeep DEF ScriptStores, KeyringShape
<1>4. CASE ScriptRestarts
  BY <1>1, <1>4, RestartKeeps, ScriptMoves DEF ScriptRestarts
<1>5. CASE ScriptEnds
  <2>1. script' \in Scripts /\ unread' = TRUE /\ UNCHANGED <<keyring, connect, proxy>>
    BY <1>5 DEF ScriptEnds, Scripts
  <2>2. \A e \in Entries : (keyring'[e] # keyring[e] \/ Owed(e)) => Owed(e)'
    BY <2>1 DEF Owed
  <2> QED
    BY <1>1, <2>1, <2>2, WritersKeep DEF KeyringShape
<1>6. CASE Clear
  <2>1. keyring' \in [Entries -> Values] /\ unread' = TRUE /\ UNCHANGED <<connect, script, proxy>>
    BY <1>1, <1>6 DEF Clear, Values
  <2>2. \A e \in Entries : (keyring'[e] # keyring[e] \/ Owed(e)) => Owed(e)'
    BY <2>1 DEF Owed
  <2> QED
    BY <1>1, <2>1, <2>2, WritersKeep DEF KeyringShape
<1> QED
  BY <1>2, <1>3, <1>4, <1>5, <1>6

LEMMA ProxyKeeps ==
  ASSUME KeyringIInv, StartProxy \/ ProxyDecides \/ \E e \in Entries : ProxyReads(e)
  PROVE  KeyringIInv'
<1>1. /\ keyring \in [Entries -> Values] /\ connect \in [Connects -> ConnectSteps]
      /\ script \in Scripts /\ proxy \in Proxy
  BY DEF KeyringIInv, KeyringShape
<1>2. CASE StartProxy
  BY <1>1, <1>2, RestartKeeps DEF StartProxy
<1>3. CASE ProxyDecides
  <2>1. CASE Usable(proxy.holds)
    <3>1. proxy' = [step |-> "up", left |-> proxy.left, holds |-> proxy.holds]
      BY <1>1, <1>3, <2>1 DEF ProxyDecides, Proxy
    <3>2. KeyringShape'
      BY <1>1, <1>3, <3>1 DEF ProxyDecides, KeyringShape, Proxy
    <3>3. UpIsUsable'
      BY <1>3, <2>1, <3>1 DEF ProxyDecides, UpIsUsable
    <3>4. ReadIsCurrent'
      BY <1>3, <3>1 DEF ProxyDecides, ReadIsCurrent, Owed, KeyringIInv
    <3> QED
      BY <3>2, <3>3, <3>4 DEF KeyringIInv
  <2>2. CASE ~Usable(proxy.holds)
    <3>1. proxy' \in Proxy /\ proxy'.step = "down"
      BY <1>3, <2>2 DEF ProxyDecides, Down, Nothing, Proxy, Values
    <3> QED
      BY <1>1, <1>3, <3>1 DEF ProxyDecides, KeyringIInv, KeyringShape, ReadIsCurrent, UpIsUsable
  <2> QED
    BY <2>1, <2>2
<1>4. ASSUME NEW e \in Entries, ProxyReads(e) PROVE KeyringIInv'
  <2> DEFINE holds == [proxy.holds EXCEPT ![e] = keyring[e]]
  <2>1. proxy' = [step |-> proxy.step, left |-> proxy.left \ {e}, holds |-> holds]
    BY <1>1, <1>4 DEF ProxyReads, Proxy
  <2>2. /\ holds \in [Entries -> Values] /\ holds[e] = keyring[e]
        /\ \A d \in Entries \ {e} : holds[d] = proxy.holds[d]
    BY <1>1 DEF Proxy
  <2> HIDE DEF holds
  <2>0. proxy.step = "reading" /\ UNCHANGED <<keyring, connect, script, unread>>
    BY <1>4 DEF ProxyReads
  <2>7. proxy.left \ {e} \in SUBSET Entries
    BY <1>1 DEF Proxy
  <2> DEFINE left == proxy.left \ {e}
  <2> HIDE DEF left
  <2>3. proxy' \in Proxy /\ proxy'.holds = holds /\ proxy'.left = left /\ proxy'.step = "reading"
    BY <2>0, <2>1, <2>2, <2>7 DEF Proxy, left
  <2>8. \A d \in Entries \ left : d = e \/ d \notin proxy.left
    BY DEF left
  <2>6. KeyringShape'
    BY <1>1, <2>0, <2>3 DEF KeyringShape
  <2>4. UpIsUsable'
    BY <2>3 DEF UpIsUsable
  <2>5. ReadIsCurrent'
    BY <2>0, <2>2, <2>3, <2>8 DEF ReadIsCurrent, Owed, KeyringIInv
  <2> QED
    BY <2>4, <2>5, <2>6 DEF KeyringIInv
<1> QED
  BY <1>2, <1>3, <1>4

LEMMA KeyringStep == KeyringIInv /\ [KeyringNext]_keyringVars => KeyringIInv'
<1> SUFFICES ASSUME KeyringIInv, [KeyringNext]_keyringVars PROVE KeyringIInv'
  OBVIOUS
<1>1. CASE UNCHANGED keyringVars
  BY <1>1 DEF keyringVars, KeyringIInv, KeyringShape, ReadIsCurrent, UpIsUsable, Owed
<1> QED
  BY <1>1, RunKeeps, ScriptKeeps, ProxyKeeps DEF KeyringNext

\* A proxy that runs while no writer is at work holds the keyring as it is, and never
\* grants of both kinds, for any number of runs and tokens (main,
\* tastytradeCredentialKind).
THEOREM ProxyHoldsKeyring == KeyringSpec => []ProxyIsCurrent
<1>1. KeyringSpec => []KeyringIInv
  BY KeyringInitially, KeyringStep, PTL DEF KeyringSpec
<1> QED
  BY <1>1, KeyringTypes, PTL

(***************************************************************************)
(* Who is let in                                                           *)
(***************************************************************************)

Kinds == {"none", "malformed", "discovery", "personal", "minted", "signed", "cookie"}
Cred == [kind : Kinds, id : Nat, who : People \cup {Nobody, "list", "issue", "revoke"}, fit : BOOLEAN]
AgentSteps == {"idle", "runtime", "token", "verify", "session", "user", "served", "refused"}
ActSteps == {"idle", "runtime", "session", "store", "relist", "answered", "refused", "learned"}
Req ==
  [step : AgentSteps \cup ActSteps, cred : Cred, as : People \cup {Nobody}, good : BOOLEAN, faulted : BOOLEAN,
   mount : Nat, id : TokenIds \cup {0}, tokens : SUBSET TokenIds]
Page ==
  [mount : Nat, loading : BOOLEAN, known : BOOLEAN, tokens : SUBSET TokenIds, busy : BOOLEAN,
   issued : TokenIds \cup {0}, made : SUBSET TokenIds, dropped : SUBSET TokenIds]

RowsInv ==
  /\ accounts \subseteq People /\ usable \subseteq TokenIds
  /\ holder \in [TokenIds -> People \cup {Nobody}] /\ session \in People \cup {Nobody}
  /\ TokensBounded

\* A failed build is forgotten, and nobody waits for one that is not under way or done.
RuntimeInv ==
  /\ authRuntime \in {"none", "pending", "fulfilled"} /\ failures \in 0..AccessFaults
  /\ \A c \in Asked : request[c].step = "runtime" => authRuntime # "none"

Shape == request \in [Asked -> Req] /\ page \in Page

\* A token that verifies is somebody's.
Issued(cred) == cred.kind = "minted" /\ cred.fit = TRUE => cred.id \in TokenIds /\ holder[cred.id] \in People

\* Of an agent's request: what it carries is good only if it was when it arrived; and who
\* it is from is who carries it.
AgentOk(c) ==
  LET r == request[c] IN
  /\ r.step \in AgentSteps /\ r.cred.kind # "cookie" /\ Issued(r.cred)
  /\ r.cred.kind = "signed" => r.cred.who \in People
  /\ r.step # "idle" /\ Good(r.cred) => r.good = TRUE
  /\ r.step \in {"idle", "runtime", "token", "verify", "session"} => r.as = Nobody
  /\ r.step = "token" => r.cred.kind = "minted"
  /\ r.step = "verify" => r.cred.kind = "signed"
  /\ r.step = "session" => r.cred.kind = "personal"
  /\ r.step = "runtime" => r.cred.kind \in {"discovery", "signed", "personal"}
  /\ r.step = "user" =>
       /\ r.cred.kind \in {"minted", "signed"} /\ r.cred.fit = TRUE /\ r.as = OfWhom(r.cred)
       /\ r.cred.kind = "minted" => r.good = TRUE
  /\ r.step = "served" /\ r.as # Nobody =>
       /\ r.good = TRUE
       /\ \/ r.cred.kind \in {"minted", "signed"} /\ r.cred.fit = TRUE /\ r.as = OfWhom(r.cred)
          \/ r.cred.kind = "personal" /\ r.as = SiteOwner
  /\ r.step = "refused" => ~Good(r.cred) \/ r.faulted = TRUE

InFlight(a) == request[a].mount = page.mount /\ request[a].step \notin {"idle", "learned"}

\* Of what the Connect page asked as m: only the first read of the mount is under way while
\* the page loads, and only one action after; what an action was told has what the page
\* made, and nothing that it dropped.
ActOk(a, m) ==
  LET r == request[a] IN
  /\ r.step \in ActSteps /\ r.as \in {m, Nobody} /\ r.mount <= page.mount
  /\ r.step \in {"store", "relist"} => r.as = m
  /\ r.step = "relist" => r.cred.who = "revoke"
  /\ r.step \notin {"idle", "learned"} => r.cred.kind = "cookie"
  /\ a = Read => r.step \in {"idle", "learned"}
                 \/ (page.loading = TRUE /\ r.mount = page.mount /\ r.cred.who = "list")
  /\ a # Read /\ InFlight(a) => page.busy = TRUE /\ page.loading = FALSE /\ r.cred.who \in {"issue", "revoke"}
  /\ a # Read /\ InFlight(a) /\ r.cred.who = "issue" /\ r.step = "answered" =>
       r.id \in TokenIds /\ holder[r.id] = m /\ r.id \notin page.dropped
  /\ a # Read /\ InFlight(a) /\ r.cred.who = "revoke" =>
       /\ page.known = TRUE
       /\ r.step \in {"relist", "answered"} => r.id \in TokenIds /\ holder[r.id] = m /\ r.id \notin usable
       /\ r.step = "answered" =>
            /\ page.made \cap usable \subseteq r.tokens
            /\ r.tokens \cap (page.dropped \cup {r.id}) = {}

\* Of the page itself.
PageOk(m) ==
  /\ session \in {m, Nobody}
  /\ page.loading = TRUE => page.known = FALSE /\ page.made = {}
  /\ page.known = FALSE => page.dropped = {}
  /\ \A i \in page.made : holder[i] = m
  /\ \A i \in page.dropped : holder[i] = m /\ i \notin usable
  /\ page.known = TRUE => page.made \cap usable \subseteq page.tokens
  /\ page.tokens \cap page.dropped = {} /\ page.issued \notin page.dropped
  /\ \A a, b \in Acts : InFlight(a) /\ InFlight(b) => a = b

PageInv(m) == PageOk(m) /\ \A a \in Acts \cup {Read} : ActOk(a, m)

AccessIInv ==
  /\ RowsInv /\ RuntimeInv /\ Shape /\ \A c \in Requests : AgentOk(c)
  /\ \E m \in People : PageInv(m)

\* What a step may do to the rows: accounts and sessions only end, and a token that was ever
\* issued keeps its holder and is never usable again once it is not.
Shrinks ==
  /\ accounts' \subseteq accounts /\ session' \in {session, Nobody}
  /\ \A i \in TokenIds : holder[i] # Nobody => holder'[i] = holder[i] /\ (i \in usable' => i \in usable)

LEMMA AccessFacts ==
  /\ Nobody \notin People /\ SiteOwner \in People /\ TokenCap \in Nat /\ AccessFaults \in Nat
  /\ Read \notin Requests \cup Acts /\ Requests \cap Acts = {}
  BY AccessAssumption DEF Nobody, Read

LEMMA TokenIdsFinite == IsFiniteSet(TokenIds) /\ TokenIds \subseteq Nat /\ 0 \notin TokenIds
<1>1. IsFiniteSet(TokenIds) /\ Cardinality(TokenIds) \in Nat /\ TokenIds = 1..Cardinality(TokenIds)
  BY AccessAssumption, FS_CardinalityType
<1> QED
  BY <1>1

LEMMA AccessInitially == AccessInit => AccessIInv
<1> SUFFICES ASSUME AccessInit PROVE AccessIInv
  OBVIOUS
<1>1. NoRequest \in Req /\ NoRequest.step = "idle" /\ NoRequest.as = Nobody
  BY DEF NoRequest, NoCredential, Req, Cred, Kinds, AgentSteps
<1>2. RowsInv
  <2>1. \A p \in People : TokensOf(p) = {}
    BY DEF AccessInit, TokensOf
  <2>2. TokensBounded
    BY <2>1, FS_EmptySet, AccessFacts DEF AccessInit, TokensBounded
  <2>3. holder \in [TokenIds -> People \cup {Nobody}]
    BY DEF AccessInit
  <2> QED
    BY <2>2, <2>3 DEF AccessInit, RowsInv
<1>3. RuntimeInv /\ Shape
  <2>1. NoMount \in Page
    BY DEF NoMount, Page
  <2>2. Shape
    BY <1>1, <2>1 DEF AccessInit, Shape
  <2>3. RuntimeInv
    BY <1>1, AccessFacts DEF AccessInit, RuntimeInv
  <2> QED
    BY <2>2, <2>3
<1>4. \A c \in Requests : AgentOk(c)
  BY AccessFacts DEF AccessInit, AgentOk, NoRequest, NoCredential, Asked, AgentSteps, Issued
<1>5. \A m \in People : session = m => PageInv(m)
  BY TokenIdsFinite DEF AccessInit, PageInv, PageOk, ActOk, InFlight, NoRequest, NoMount, Asked, ActSteps
<1> QED
  BY <1>2, <1>3, <1>4, <1>5 DEF AccessIInv, AccessInit

LEMMA AccessTypes == AccessIInv => AccessInv
<1> SUFFICES ASSUME AccessIInv PROVE AccessInv
  OBVIOUS
<1>1. AccessTypeOK /\ TokensBounded
  BY DEF AccessIInv, AccessTypeOK, RowsInv, RuntimeInv, Shape, Page
<1>2. \A c \in Requests : AgentOk(c) /\ request[c] \in Req
  BY DEF AccessIInv, Shape, Asked
<1>3. ServedAsOwn
  BY <1>2, AccessFacts DEF ServedAsOwn, AgentOk
<1>4. OfferedToOwn
  <2> SUFFICES ASSUME NEW c \in Requests, request[c].step = "served"
               PROVE  /\ "orders" \in ToolsOf(request[c].as) =>
                           request[c].cred.kind \in {"minted", "signed", "personal"} /\ request[c].good
                      /\ "manage" \in ToolsOf(request[c].as) =>
                           request[c].cred.kind = "personal" \/ OfWhom(request[c].cred) = SiteOwner
    BY DEF OfferedToOwn
  <2>1. \A p : "orders" \in ToolsOf(p) => p # Nobody
    BY DEF ToolsOf
  <2>2. \A p : "manage" \in ToolsOf(p) => p = SiteOwner
    BY DEF ToolsOf
  <2>3. SiteOwner # Nobody
    BY AccessFacts
  <2> QED
    BY <1>2, <2>1, <2>2, <2>3 DEF AgentOk
<1>5. RefusedForCause
  BY <1>2 DEF RefusedForCause, AgentOk, InStep
<1>6. ConnectListed
  BY DEF AccessIInv, Shape, Page, PageInv, PageOk, ConnectListed
<1> QED
  BY <1>1, <1>3, <1>4, <1>5, <1>6 DEF AccessInv

\* The credential of a request is good only if it was good before, and is whose it was.
LEMMA GoodOnlyLost ==
  ASSUME RowsInv, Shape, Shrinks, NEW c \in Asked, request'[c].cred = request[c].cred, Issued(request[c].cred)
  PROVE  /\ Good(request[c].cred)' => Good(request[c].cred)
         /\ Issued(request[c].cred)'
         /\ request[c].cred.kind = "signed" \/ (request[c].cred.kind = "minted" /\ request[c].cred.fit = TRUE)
              => OfWhom(request[c].cred)' = OfWhom(request[c].cred)
<1> DEFINE cred == request[c].cred
<1>1. cred \in Cred
  BY DEF Shape, Req
<1>2. CASE cred.kind = "minted"
  <2>1. CASE cred.fit = TRUE
    <3>1. cred.id \in TokenIds /\ holder[cred.id] \in People /\ holder[cred.id] # Nobody
      BY <1>2, <2>1, AccessFacts DEF Issued
    <3>2. holder'[cred.id] = holder[cred.id] /\ (cred.id \in usable' => cred.id \in usable)
      BY <3>1 DEF Shrinks
    <3>3. Good(request[c].cred)' => Good(request[c].cred)
      BY <1>2, <2>1, <3>2 DEF Good
    <3>4. Issued(request[c].cred)' /\ OfWhom(request[c].cred)' = OfWhom(request[c].cred)
      BY <1>2, <3>1, <3>2 DEF Issued, OfWhom
    <3> QED
      BY <3>3, <3>4
  <2>2. CASE cred.fit = FALSE
    BY <1>2, <2>2 DEF Issued, Good
  <2> QED
    BY <1>1, <2>1, <2>2 DEF Cred
<1>3. CASE cred.kind = "signed"
  BY <1>3 DEF Shrinks, Issued, Good, OfWhom
<1>4. CASE cred.kind \notin {"minted", "signed"}
  BY <1>4, AccessFacts DEF Shrinks, Issued, Good
<1> QED
  BY <1>2, <1>3, <1>4

LEMMA RowsStand ==
  ASSUME RowsInv, UNCHANGED Rows
  PROVE  RowsInv' /\ Shrinks
<1>1. \A p : TokensOf(p)' = TokensOf(p)
  BY DEF TokensOf, Rows
<1> QED
  BY <1>1 DEF RowsInv, Shrinks, Rows, TokensBounded

\* Rows that only go.
LEMMA RowsFewer ==
  ASSUME RowsInv, usable' \subseteq usable, holder' = holder, accounts' \subseteq accounts,
         session' \in {session, Nobody}, \A i \in usable' : holder[i] \in accounts'
  PROVE  RowsInv' /\ Shrinks
<1>1. Shrinks
  BY DEF Shrinks
<1>2. ASSUME NEW p \in People PROVE Cardinality(TokensOf(p)') <= TokenCap
  <2>1. TokensOf(p)' \subseteq TokensOf(p) /\ TokensOf(p) \subseteq TokenIds
    BY DEF TokensOf, RowsInv
  <2>2. IsFiniteSet(TokensOf(p))
    BY <2>1, TokenIdsFinite, FS_Subset
  <2>3. IsFiniteSet(TokensOf(p)') /\ Cardinality(TokensOf(p)') <= Cardinality(TokensOf(p))
    BY <2>1, <2>2, FS_Subset
  <2>4. Cardinality(TokensOf(p)') \in Nat /\ Cardinality(TokensOf(p)) \in Nat
    BY <2>2, <2>3, FS_CardinalityType
  <2> QED
    BY <2>3, <2>4, AccessFacts DEF RowsInv, TokensBounded
<1>3. TokensBounded'
  BY <1>2 DEF TokensBounded
<1> QED
  BY <1>1, <1>3 DEF RowsInv

\* A token is inserted: below the cap, and under an id nobody had.
LEMMA InsertMoves ==
  ASSUME RowsInv, NEW p \in accounts, NEW i \in Unissued, Inserts(p, i), UNCHANGED <<accounts, session>>
  PROVE  RowsInv' /\ Shrinks /\ holder'[i] = p
<1>1. i \in TokenIds /\ holder[i] = Nobody /\ p \in People /\ i \notin usable
  BY AccessFacts DEF Unissued, RowsInv, TokensBounded
<1>2. /\ usable' = usable \cup {i} /\ holder' \in [TokenIds -> People \cup {Nobody}]
      /\ holder'[i] = p /\ \A j \in TokenIds \ {i} : holder'[j] = holder[j]
  BY <1>1 DEF Inserts, RowsInv
<1>3. Shrinks
  BY <1>1, <1>2 DEF Shrinks
<1>4. ASSUME NEW q \in People PROVE Cardinality(TokensOf(q)') <= TokenCap
  <2>1. TokensOf(q) \subseteq TokenIds /\ IsFiniteSet(TokensOf(q))
    BY TokenIdsFinite, FS_Subset DEF TokensOf, RowsInv
  <2>2. CASE q = p
    <3>1. TokensOf(q)' = TokensOf(q) \cup {i} /\ i \notin TokensOf(q)
      BY <1>1, <1>2, <2>2 DEF TokensOf, RowsInv
    <3>2. Cardinality(TokensOf(q) \cup {i}) = Cardinality(TokensOf(q)) + 1 /\ Cardinality(TokensOf(q)) \in Nat
      BY <2>1, <3>1, FS_AddElement, FS_CardinalityType
    <3>3. Cardinality(TokensOf(q)) < TokenCap /\ TokenCap \in Nat
      BY <2>2, AccessFacts DEF Inserts
    <3>4. Cardinality(TokensOf(q)') = Cardinality(TokensOf(q)) + 1
      BY <3>1, <3>2
    <3> QED
      BY <3>2, <3>3, <3>4
  <2>3. CASE q # p
    <3>1. TokensOf(q)' = TokensOf(q)
      BY <1>1, <1>2, <2>3, AccessFacts DEF TokensOf, RowsInv
    <3> QED
      BY <3>1 DEF RowsInv, TokensBounded
  <2> QED
    BY <2>2, <2>3
<1>5. TokensBounded'
  BY <1>1, <1>2, <1>4 DEF TokensBounded, RowsInv
<1> QED
  BY <1>1, <1>2, <1>3, <1>5 DEF RowsInv

LEMMA LeastIdFound ==
  ASSUME RowsInv, Unissued # {}
  PROVE  LeastId(Unissued) \in Unissued
<1> DEFINE R == {ss \in Nat \X Nat : ss[1] < ss[2]}
<1>1. IsWellFoundedOn(R, Nat)
  BY NatLessThanWellFounded DEF OpToRel
<1>2. \A i, j \in Nat : <<i, j>> \in R <=> i < j
  OBVIOUS
<1>3. Unissued \subseteq Nat
  BY TokenIdsFinite DEF Unissued
<1> HIDE DEF R
<1>4. PICK i \in Unissued : \A j \in Unissued : <<j, i>> \notin R
  BY <1>1, <1>3, WFMin
<1>5. \A j \in Unissued : i \in Nat /\ j \in Nat /\ ~(j < i)
  BY <1>2, <1>3, <1>4
<1>6. \A j \in Unissued : i <= j
  BY <1>5
<1> QED
  BY <1>6 DEF LeastId

LEMMA AgentStands ==
  ASSUME RowsInv, Shape, Shrinks, NEW c \in Requests, AgentOk(c), request'[c] = request[c]
  PROVE  AgentOk(c)'
<1>1. /\ Good(request[c].cred)' => Good(request[c].cred)
      /\ Issued(request[c].cred)'
      /\ request[c].cred.kind = "signed" \/ (request[c].cred.kind = "minted" /\ request[c].cred.fit = TRUE)
           => OfWhom(request[c].cred)' = OfWhom(request[c].cred)
  BY GoodOnlyLost DEF AgentOk, Asked
<1> QED
  BY <1>1 DEF AgentOk

LEMMA ActStands ==
  ASSUME RowsInv, Shape, Shrinks, NEW m \in People, PageOk(m), NEW a \in Acts \cup {Read}, ActOk(a, m),
         request'[a] = request[a], page' = page
  PROVE  ActOk(a, m)'
<1>1. \A i \in TokenIds : holder[i] = m => holder'[i] = m /\ (i \notin usable => i \notin usable')
  BY AccessFacts DEF Shrinks
<1>2. page.made \cap usable' \subseteq page.made \cap usable
  BY AccessFacts DEF Shape, Page, PageOk, Shrinks, Nobody
<1> QED
  BY <1>1, <1>2 DEF ActOk, InFlight

LEMMA PageStands ==
  ASSUME RowsInv, Shape, Shrinks, NEW m \in People, PageOk(m), page' = page,
         \A a \in Acts : InFlight(a)' => InFlight(a)
  PROVE  PageOk(m)'
<1>1. page.made \subseteq TokenIds /\ page.dropped \subseteq TokenIds
  BY DEF Shape, Page
<1>2. \A i \in TokenIds : holder[i] = m => holder'[i] = m /\ (i \notin usable => i \notin usable')
  BY AccessFacts DEF Shrinks
<1>3. session' \in {m, Nobody}
  BY DEF Shrinks, PageOk
<1> QED
  BY <1>1, <1>2, <1>3 DEF PageOk

\* One request moves on: the others stand, and so does the page.
LEMMA OneMoves ==
  ASSUME AccessIInv, Shrinks, RowsInv', RuntimeInv', page' = page, NEW c \in Asked, NEW moved \in Req,
         request' = [request EXCEPT ![c] = moved],
         c \in Requests => AgentOk(c)',
         c \notin Requests => /\ moved.mount = request[c].mount /\ request[c].step \notin {"idle", "learned"}
                              /\ \A m \in People : PageInv(m) => ActOk(c, m)'
  PROVE  AccessIInv'
<1>1. /\ request' \in [Asked -> Req] /\ request'[c] = moved
      /\ \A d \in Asked \ {c} : request'[d] = request[d]
  BY DEF AccessIInv, Shape
<1>2. Shape'
  BY <1>1 DEF AccessIInv, Shape
<1>3. ASSUME NEW d \in Requests PROVE AgentOk(d)'
  BY <1>1, <1>3, AgentStands DEF AccessIInv, Asked
<1>4. ASSUME NEW m \in People, PageInv(m) PROVE PageInv(m)'
  <2>1. \A a \in Acts : InFlight(a)' => InFlight(a)
    BY <1>1, AccessFacts DEF InFlight, Asked
  <2>2. PageOk(m)'
    BY <1>4, <2>1, PageStands DEF PageInv, AccessIInv
  <2>3. ASSUME NEW a \in Acts \cup {Read} PROVE ActOk(a, m)'
    <3>1. CASE a = c
      BY <1>4, <3>1, AccessFacts
    <3>2. CASE a # c
      BY <1>1, <1>4, <3>2, ActStands DEF PageInv, AccessIInv, Asked
    <3> QED
      BY <3>1, <3>2
  <2> QED
    BY <2>2, <2>3 DEF PageInv
<1> QED
  BY <1>2, <1>3, <1>4 DEF AccessIInv

\* Nobody's request moves.
LEMMA NoneMoves ==
  ASSUME AccessIInv, Shrinks, RowsInv', RuntimeInv', UNCHANGED <<page, request>>
  PROVE  AccessIInv'
<1>1. Shape'
  BY DEF AccessIInv, Shape
<1>2. ASSUME NEW d \in Requests PROVE AgentOk(d)'
  BY AgentStands DEF AccessIInv
<1>3. ASSUME NEW m \in People, PageInv(m) PROVE PageInv(m)'
  BY <1>3, PageStands, ActStands DEF PageInv, AccessIInv, InFlight
<1> QED
  BY <1>1, <1>2, <1>3 DEF AccessIInv

LEMMA RuntimeStands ==
  ASSUME RuntimeInv, authRuntime' = authRuntime, failures' \in 0..AccessFaults,
         \A c \in Asked : request'[c].step = "runtime" => request[c].step = "runtime"
  PROVE  RuntimeInv'
  BY DEF RuntimeInv

\* What a request carries stays what it is when its step, or who it is from, is set.
Still(t, r) ==
  /\ t \in Req /\ t.cred = r.cred /\ t.good = r.good /\ t.mount = r.mount /\ t.id = r.id
  /\ t.tokens = r.tokens

Steps == AgentSteps \cup ActSteps

LEMMA StepSet ==
  ASSUME NEW r \in Req, NEW step \in Steps
  PROVE  LET t == [r EXCEPT !.step = step] IN
           Still(t, r) /\ t.step = step /\ t.as = r.as /\ t.faulted = r.faulted
  BY DEF Still, Req, Steps

LEMMA StepFaulted ==
  ASSUME NEW r \in Req, NEW step \in Steps
  PROVE  LET t == [r EXCEPT !.step = step, !.faulted = TRUE] IN
           Still(t, r) /\ t.step = step /\ t.as = r.as /\ t.faulted = TRUE
  BY DEF Still, Req, Steps

\* An agent's request moves on, and nothing else does.
LEMMA AgentMoves ==
  ASSUME AccessIInv, NEW c \in Requests, NEW moved, Still(moved, request[c]), moved.step # "runtime",
         request' = [request EXCEPT ![c] = moved], UNCHANGED <<Rows, page, authRuntime>>,
         failures' \in 0..AccessFaults
  PROVE  /\ request[c] \in Req /\ AgentOk(c) /\ request'[c] = moved /\ Issued(request[c].cred)'
         /\ Good(request[c].cred)' => Good(request[c].cred)
         /\ request[c].cred.kind = "signed" \/ (request[c].cred.kind = "minted" /\ request[c].cred.fit = TRUE)
              => OfWhom(request[c].cred)' = OfWhom(request[c].cred)
         /\ AgentOk(c)' => AccessIInv'
<1>1. c \in Asked /\ request \in [Asked -> Req] /\ AgentOk(c) /\ moved \in Req
  BY DEF AccessIInv, Shape, Asked, Still
<1>2. request'[c] = moved /\ \A d \in Asked \ {c} : request'[d] = request[d]
  BY <1>1
<1>3. RowsInv' /\ Shrinks
  BY RowsStand DEF AccessIInv
<1>4. RuntimeInv'
  BY <1>2, RuntimeStands DEF AccessIInv
<1>5. request'[c].cred = request[c].cred /\ Issued(request[c].cred)
  BY <1>1, <1>2 DEF Still, AgentOk
<1>6. AgentOk(c)' => AccessIInv'
  BY <1>1, <1>3, <1>4, OneMoves
<1> QED
  BY <1>1, <1>2, <1>3, <1>5, <1>6, GoodOnlyLost DEF AccessIInv

LEMMA RefusesKeeps ==
  ASSUME AccessIInv, NEW c \in Requests, UNCHANGED <<Rows, authRuntime, page>>, request[c].step # "idle",
         \/ NoFailure /\ ~Good(request[c].cred) /\ Turns(c, "refused")
         \/ Breaks(c, "refused")
  PROVE  AccessIInv'
<1>1. request[c] \in Req /\ AgentOk(c) /\ failures \in 0..AccessFaults /\ AccessFaults \in Nat
  BY AccessFacts DEF AccessIInv, Shape, Asked, RuntimeInv
<1>2. \E moved : /\ Still(moved, request[c]) /\ moved.step = "refused" /\ moved.as = request[c].as
                 /\ moved.faulted = TRUE \/ ~Good(request[c].cred)
                 /\ request' = [request EXCEPT ![c] = moved] /\ failures' \in 0..AccessFaults
  <2>1. CASE NoFailure /\ ~Good(request[c].cred) /\ Turns(c, "refused")
    <3> DEFINE moved == [request[c] EXCEPT !.step = "refused"]
    <3>1. request' = [request EXCEPT ![c] = moved] /\ failures' \in 0..AccessFaults
      BY <1>1, <2>1 DEF Turns, NoFailure
    <3>2. Still(moved, request[c]) /\ moved.step = "refused" /\ moved.as = request[c].as
      BY <1>1, StepSet DEF AgentSteps, Steps
    <3> HIDE DEF moved
    <3> QED
      BY <2>1, <3>1, <3>2
  <2>2. CASE Breaks(c, "refused")
    <3> DEFINE moved == [request[c] EXCEPT !.step = "refused", !.faulted = TRUE]
    <3>1. request' = [request EXCEPT ![c] = moved] /\ failures' \in 0..AccessFaults
      BY <1>1, <2>2 DEF Breaks
    <3>2. /\ Still(moved, request[c]) /\ moved.step = "refused" /\ moved.as = request[c].as
          /\ moved.faulted = TRUE
      BY <1>1, StepFaulted DEF AgentSteps, Steps
    <3> HIDE DEF moved
    <3> QED
      BY <3>1, <3>2
  <2> QED
    BY <2>1, <2>2
<1>3. PICK moved : /\ Still(moved, request[c]) /\ moved.step = "refused" /\ moved.as = request[c].as
                   /\ moved.faulted = TRUE \/ ~Good(request[c].cred)
                   /\ request' = [request EXCEPT ![c] = moved] /\ failures' \in 0..AccessFaults
  BY <1>2
<1>4. /\ request'[c] = moved /\ Issued(request[c].cred)'
      /\ Good(request[c].cred)' => Good(request[c].cred)
      /\ AgentOk(c)' => AccessIInv'
  BY <1>3, AgentMoves
<1>5. AgentOk(c)'
  BY <1>1, <1>3, <1>4 DEF AgentOk, Still, AgentSteps
<1> QED
  BY <1>4, <1>5

\* A request whose step is set, with whom it is from.
LEMMA KnownMoves ==
  ASSUME AccessIInv, NEW c \in Requests, UNCHANGED <<Rows, authRuntime, page>>, NoFailure,
         NEW step \in AgentSteps \ {"runtime"}, NEW p \in People \cup {Nobody}, Known(c, p, step)
  PROVE  /\ Still(request'[c], request[c]) /\ request'[c].step = step /\ request'[c].as = p
         /\ request'[c].faulted = request[c].faulted
         /\ AgentOk(c) /\ Issued(request[c].cred)'
         /\ Good(request[c].cred)' => Good(request[c].cred)
         /\ request[c].cred.kind = "signed" \/ (request[c].cred.kind = "minted" /\ request[c].cred.fit = TRUE)
              => OfWhom(request[c].cred)' = OfWhom(request[c].cred)
         /\ AgentOk(c)' => AccessIInv'
<1> DEFINE moved == [request[c] EXCEPT !.step = step, !.as = p]
<1>1. failures' \in 0..AccessFaults /\ request' = [request EXCEPT ![c] = moved]
  BY DEF AccessIInv, Shape, Asked, RuntimeInv, NoFailure, Known
<1>5. request[c] \in Req
  BY DEF AccessIInv, Shape, Asked
<1>2. step \in Steps
  BY DEF Steps
<1>3. /\ Still(moved, request[c]) /\ moved.step = step /\ moved.as = p
      /\ moved.faulted = request[c].faulted
  BY <1>2, <1>5 DEF Still, Req, Steps
<1> HIDE DEF moved
<1>4. /\ AgentOk(c) /\ request'[c] = moved /\ Issued(request[c].cred)'
      /\ Good(request[c].cred)' => Good(request[c].cred)
      /\ request[c].cred.kind = "signed" \/ (request[c].cred.kind = "minted" /\ request[c].cred.fit = TRUE)
           => OfWhom(request[c].cred)' = OfWhom(request[c].cred)
      /\ AgentOk(c)' => AccessIInv'
  BY <1>1, <1>3, AgentMoves
<1> QED
  BY <1>3, <1>4

LEMMA AuthenticateKeeps ==
  ASSUME AccessIInv, NEW c \in Requests, AuthenticateMcpToken(c)
  PROVE  AccessIInv'
<1> DEFINE cred == request[c].cred
<1>1. /\ request[c].step = "token" /\ cred.kind = "minted" /\ UNCHANGED <<Rows, authRuntime, page>>
      /\ AgentOk(c) /\ cred \in Cred
  BY DEF AuthenticateMcpToken, Looks, InStep, AccessIInv, AgentOk, Shape, Asked, Req
<1>2. CASE NoFailure /\ cred.id \in usable /\ cred.fit /\ Known(c, OfWhom(cred), "user")
  <2>1. cred.fit = TRUE
    BY <1>1, <1>2 DEF Cred
  <2>2. OfWhom(cred) \in People /\ Good(cred)
    BY <1>1, <1>2, <2>1 DEF AgentOk, Issued, OfWhom, Good
  <2>3. /\ Still(request'[c], request[c]) /\ request'[c].step = "user" /\ request'[c].as = OfWhom(cred)
        /\ Issued(request[c].cred)'
        /\ Good(request[c].cred)' => Good(request[c].cred)
        /\ OfWhom(request[c].cred)' = OfWhom(request[c].cred)
        /\ AgentOk(c)' => AccessIInv'
    <3> HIDE DEF cred
    <3>1. OfWhom(cred) \in People \cup {Nobody} /\ "user" \in AgentSteps \ {"runtime"}
      BY <2>2 DEF AgentSteps
    <3> QED
      BY <1>1, <1>2, <3>1, KnownMoves DEF cred
  <2>4. AgentOk(c)'
    BY <1>1, <2>1, <2>2, <2>3 DEF AgentOk, Still, AgentSteps
  <2> QED
    BY <2>3, <2>4
<1>3. CASE NoFailure /\ ~(cred.id \in usable /\ cred.fit) /\ Turns(c, "refused")
  <2>1. ~Good(cred)
    BY <1>1, <1>3 DEF Good
  <2> QED
    BY <1>1, <1>3, <2>1, RefusesKeeps
<1>4. CASE Breaks(c, "refused")
  BY <1>1, <1>4, RefusesKeeps
<1> QED
  BY <1>2, <1>3, <1>4 DEF AuthenticateMcpToken, Looks

LEMMA VerifyKeeps ==
  ASSUME AccessIInv, NEW c \in Requests, VerifyMcpAccessToken(c)
  PROVE  AccessIInv'
<1> DEFINE cred == request[c].cred
<1>1. /\ request[c].step = "verify" /\ cred.kind = "signed" /\ UNCHANGED <<Rows, authRuntime, page>>
      /\ AgentOk(c) /\ cred \in Cred /\ cred.who \in People
  BY DEF VerifyMcpAccessToken, Looks, InStep, AccessIInv, AgentOk, Shape, Asked, Req
<1>2. CASE NoFailure /\ cred.fit /\ Known(c, cred.who, "user")
  <2>1. cred.fit = TRUE /\ cred.who = OfWhom(cred)
    BY <1>1, <1>2 DEF Cred, OfWhom
  <2>2. /\ Still(request'[c], request[c]) /\ request'[c].step = "user" /\ request'[c].as = cred.who
        /\ Issued(request[c].cred)'
        /\ Good(request[c].cred)' => Good(request[c].cred)
        /\ OfWhom(request[c].cred)' = OfWhom(request[c].cred)
        /\ AgentOk(c)' => AccessIInv'
    BY <1>1, <1>2, KnownMoves DEF AgentSteps
  <2>3. AgentOk(c)'
    BY <1>1, <2>1, <2>2 DEF AgentOk, Still, AgentSteps
  <2> QED
    BY <2>2, <2>3
<1>3. CASE NoFailure /\ ~cred.fit /\ Turns(c, "refused")
  <2>1. ~Good(cred)
    BY <1>1, <1>3 DEF Good
  <2> QED
    BY <1>1, <1>3, <2>1, RefusesKeeps
<1>4. CASE Breaks(c, "refused")
  BY <1>1, <1>4, RefusesKeeps
<1> QED
  BY <1>2, <1>3, <1>4 DEF VerifyMcpAccessToken, Looks

\* The account behind a credential: without it no token of the member's is usable.
LEMMA CallerKeeps ==
  ASSUME AccessIInv, NEW c \in Requests, CallerForUser(c)
  PROVE  AccessIInv'
<1> DEFINE cred == request[c].cred
<1>1. /\ request[c].step = "user" /\ UNCHANGED <<Rows, authRuntime, page>>
      /\ AgentOk(c) /\ cred.kind \in {"minted", "signed"} /\ cred.fit = TRUE /\ request[c].as = OfWhom(cred)
      /\ request[c].as \in People
  <2>1. request[c].step = "user" /\ AgentOk(c) /\ UNCHANGED <<Rows, authRuntime, page>>
    BY DEF CallerForUser, Looks, InStep, AccessIInv
  <2> QED
    BY <2>1 DEF AgentOk, Issued, OfWhom
<1>2. CASE NoFailure /\ request[c].as \in accounts /\ Known(c, request[c].as, "served")
  <2>1. request[c].good = TRUE
    BY <1>1, <1>2 DEF AgentOk, Good, OfWhom
  <2>2. /\ Still(request'[c], request[c]) /\ request'[c].step = "served" /\ request'[c].as = request[c].as
        /\ Issued(request[c].cred)'
        /\ Good(request[c].cred)' => Good(request[c].cred)
        /\ OfWhom(request[c].cred)' = OfWhom(request[c].cred)
        /\ AgentOk(c)' => AccessIInv'
    BY <1>1, <1>2, KnownMoves DEF AgentSteps
  <2>3. AgentOk(c)'
    BY <1>1, <2>1, <2>2 DEF AgentOk, Still, AgentSteps
  <2> QED
    BY <2>2, <2>3
<1>3. CASE NoFailure /\ request[c].as \notin accounts /\ Turns(c, "refused")
  <2>1. ~Good(cred)
    BY <1>1, <1>3 DEF Good, OfWhom, AccessIInv, RowsInv, TokensBounded
  <2> QED
    BY <1>1, <1>3, <2>1, RefusesKeeps
<1>4. CASE Breaks(c, "refused")
  BY <1>1, <1>4, RefusesKeeps
<1> QED
  BY <1>2, <1>3, <1>4 DEF CallerForUser, Looks

LEMMA GoodOrNot ==
  ASSUME NEW cred \in Cred
  PROVE  Good(cred) \in BOOLEAN
<1>1. CASE cred.kind = "minted"
  <2>1. Good(cred) = (cred.fit /\ cred.id \in usable)
    BY <1>1 DEF Good
  <2> QED
    BY <2>1
<1>2. CASE cred.kind = "signed"
  <2>1. Good(cred) = (cred.fit /\ cred.who \in accounts)
    BY <1>2 DEF Good
  <2> QED
    BY <2>1
<1>3. CASE cred.kind \notin {"minted", "signed"}
  BY <1>3 DEF Good
<1> QED
  BY <1>1, <1>2, <1>3

LEMMA Arriving ==
  ASSUME RowsInv, NEW cred \in Carried
  PROVE  /\ cred \in Cred /\ cred.kind # "cookie" /\ Issued(cred)
         /\ cred.kind = "signed" => cred.who \in People
<1>1. ASSUME NEW k \in {"malformed", "discovery", "personal", "none"}, cred = Credential(k, 0, Nobody, FALSE)
      PROVE  /\ cred \in Cred /\ cred.kind = k
  BY <1>1 DEF Credential, Cred, Kinds
<1>2. ASSUME NEW i \in TokenIds, holder[i] # Nobody, cred = Credential("minted", i, Nobody, TRUE)
      PROVE  cred \in Cred /\ cred.kind = "minted" /\ cred.id \in TokenIds /\ holder[cred.id] \in People
  BY <1>2, TokenIdsFinite DEF Credential, Cred, Kinds, RowsInv
<1>3. ASSUME NEW p \in People, cred = Credential("signed", 0, p, TRUE)
      PROVE  cred \in Cred /\ cred.kind = "signed" /\ cred.who \in People
  BY <1>3 DEF Credential, Cred, Kinds
<1>4. ASSUME cred = Credential("minted", 1, Nobody, FALSE)
      PROVE  cred \in Cred /\ cred.kind = "minted" /\ cred.fit = FALSE
  BY <1>4 DEF Credential, Cred, Kinds
<1>5. ASSUME cred = Credential("signed", 0, SiteOwner, FALSE)
      PROVE  cred \in Cred /\ cred.kind = "signed" /\ cred.who \in People
  BY <1>5, AccessFacts DEF Credential, Cred, Kinds
<1>6. \/ \E k \in {"malformed", "discovery", "personal", "none"} : cred = Credential(k, 0, Nobody, FALSE)
      \/ \E i \in TokenIds : holder[i] # Nobody /\ cred = Credential("minted", i, Nobody, TRUE)
      \/ \E p \in People : cred = Credential("signed", 0, p, TRUE)
      \/ cred = Credential("minted", 1, Nobody, FALSE) \/ cred = Credential("signed", 0, SiteOwner, FALSE)
  BY DEF Carried, NoCredential, Credential
<1>7. CASE \E k \in {"malformed", "discovery", "personal", "none"} : cred = Credential(k, 0, Nobody, FALSE)
  BY <1>1, <1>7 DEF Issued
<1>8. CASE \E i \in TokenIds : holder[i] # Nobody /\ cred = Credential("minted", i, Nobody, TRUE)
  BY <1>2, <1>8 DEF Issued
<1>9. CASE \E p \in People : cred = Credential("signed", 0, p, TRUE)
  BY <1>3, <1>9 DEF Issued
<1> QED
  BY <1>4, <1>5, <1>6, <1>7, <1>8, <1>9 DEF Issued

LEMMA ArrivesKeeps ==
  ASSUME AccessIInv, NEW c \in Requests, NEW cred \in Carried, Arrives(c, cred)
  PROVE  AccessIInv'
<1> DEFINE step == Started(cred.kind)
           good == Good(cred)
           moved == [request[c] EXCEPT !.step = step, !.cred = cred, !.good = good]
<1>1. /\ cred \in Cred /\ cred.kind # "cookie" /\ Issued(cred) /\ good \in BOOLEAN
      /\ cred.kind = "signed" => cred.who \in People
  BY Arriving, GoodOrNot DEF AccessIInv
<1>2. /\ request[c] \in Req /\ request \in [Asked -> Req] /\ AgentOk(c) /\ request[c].step = "idle"
      /\ request' = [request EXCEPT ![c] = moved] /\ UNCHANGED <<Rows, page>> /\ failures' = failures
      /\ c \in Asked
  BY DEF Arrives, InStep, AccessIInv, Shape, Asked, NoFailure
<1>3. request[c].as = Nobody
  BY <1>2 DEF AgentOk
<1>4. /\ step \in AgentSteps \ {"idle", "verify", "session", "user"}
      /\ step = "token" => cred.kind = "minted"
      /\ step = "refused" => ~good
      /\ step = "runtime" => cred.kind \in {"discovery", "signed", "personal"}
  BY <1>1 DEF Started, AgentSteps, Cred, Kinds, Good
<1>5. step = "runtime" => authRuntime' # "none"
  BY <1>4 DEF Arrives, GetAuthRuntime, NeedsRuntime
<1>6. authRuntime' \in {"none", "pending", "fulfilled"} /\ (authRuntime # "none" => authRuntime' = authRuntime)
  BY DEF Arrives, GetAuthRuntime, AccessIInv, RuntimeInv
<1>7. RowsInv' /\ Shrinks
  BY <1>2, RowsStand DEF AccessIInv
<1>8. Issued(cred)' /\ Good(cred)' = good
  BY <1>1, <1>2 DEF Issued, Good, Rows
<1> HIDE DEF step, good
<1>9. /\ moved \in Req /\ moved.step = step /\ moved.cred = cred /\ moved.good = good
      /\ moved.as = Nobody
  BY <1>1, <1>2, <1>3, <1>4 DEF Req
<1> HIDE DEF moved
<1>10. request'[c] = moved /\ \A d \in Asked \ {c} : request'[d] = request[d]
  BY <1>2
<1>11. RuntimeInv'
  BY <1>2, <1>5, <1>6, <1>9, <1>10 DEF AccessIInv, RuntimeInv
<1>12. AgentOk(c)'
  BY <1>1, <1>4, <1>8, <1>9, <1>10 DEF AgentOk
<1> QED
  BY <1>2, <1>7, <1>9, <1>11, <1>12, OneMoves, AccessFacts

LEMMA SessionAgentKeeps ==
  ASSUME AccessIInv, NEW c \in Requests, GetSession(c)
  PROVE  AccessIInv'
<1>1. /\ request[c].step = "session" /\ request[c].cred.kind = "personal"
      /\ UNCHANGED <<Rows, authRuntime, page>> /\ AgentOk(c)
  BY DEF GetSession, Looks, InStep, AccessIInv, AgentOk
<1>2. CASE NoFailure /\ session = SiteOwner /\ Known(c, session, "served")
  <2>1. Good(request[c].cred) /\ session \in People \cup {Nobody} /\ "served" \in AgentSteps \ {"runtime"}
    BY <1>1, <1>2, AccessFacts DEF Good, AgentSteps
  <2>2. request[c].good = TRUE
    BY <1>1, <2>1 DEF AgentOk
  <2>3. /\ Still(request'[c], request[c]) /\ request'[c].step = "served" /\ request'[c].as = session
        /\ Issued(request[c].cred)'
        /\ Good(request[c].cred)' => Good(request[c].cred)
        /\ AgentOk(c)' => AccessIInv'
    BY <1>1, <1>2, <2>1, KnownMoves
  <2>4. AgentOk(c)'
    BY <1>1, <1>2, <2>2, <2>3 DEF AgentOk, Still, AgentSteps
  <2> QED
    BY <2>3, <2>4
<1>3. CASE NoFailure /\ session # SiteOwner /\ Turns(c, "refused")
  <2>1. ~Good(request[c].cred)
    BY <1>1, <1>3 DEF Good
  <2> QED
    BY <1>1, <1>3, <2>1, RefusesKeeps
<1>4. CASE Breaks(c, "refused")
  BY <1>1, <1>4, RefusesKeeps
<1>5. session = SiteOwner => session # Nobody
  BY AccessFacts
<1> QED
  BY <1>1, <1>2, <1>3, <1>4, <1>5 DEF GetSession, Looks

LEMMA RuntimeAgentKeeps ==
  ASSUME AccessIInv, NEW c \in Requests, HasRuntime(c)
  PROVE  AccessIInv'
<1> DEFINE kind == request[c].cred.kind
           step == CASE kind = "discovery" -> "served" [] kind = "signed" -> "verify" [] OTHER -> "session"
           moved == [request[c] EXCEPT !.step = step]
<1>1. /\ request[c].step = "runtime" /\ authRuntime = "fulfilled" /\ request[c] \in Req /\ AgentOk(c)
      /\ UNCHANGED <<Rows, authRuntime, page>> /\ failures' \in 0..AccessFaults
  BY DEF HasRuntime, InStep, AccessIInv, RuntimeInv, Shape, Asked, NoFailure
<1>2. kind \in {"discovery", "signed", "personal"} /\ request[c].as = Nobody
  BY <1>1 DEF AgentOk
<1>3. request' = [request EXCEPT ![c] = moved]
  BY <1>1 DEF HasRuntime, Turns
<1>4. /\ step \in {"served", "verify", "session"}
      /\ step = "verify" => kind = "signed"
  BY <1>2
<1>5. (step = "session" => kind = "personal") /\ step \in Steps
  BY <1>2 DEF Steps, AgentSteps
<1> HIDE DEF step
<1>6. Still(moved, request[c]) /\ moved.step = step /\ moved.as = request[c].as /\ moved.faulted = request[c].faulted
  BY <1>1, <1>5, StepSet
<1> HIDE DEF moved
<1>7. /\ request'[c] = moved /\ Issued(request[c].cred)'
      /\ Good(request[c].cred)' => Good(request[c].cred)
      /\ AgentOk(c)' => AccessIInv'
  BY <1>1, <1>3, <1>4, <1>6, AgentMoves
<1>8. AgentOk(c)'
  BY <1>1, <1>2, <1>4, <1>5, <1>6, <1>7 DEF AgentOk, Still, AgentSteps
<1> QED
  BY <1>7, <1>8

\* What the Connect page asked: a request of its own, in its own steps.
LEMMA AskedOnPage ==
  ASSUME AccessIInv, NEW c \in Asked
  PROVE  /\ request[c] \in Req
         /\ request[c].step \in {"store", "relist", "answered"} => c \in Acts \cup {Read}
         /\ request[c].step \in {"token", "verify", "user"} => c \in Requests
<1>1. request[c] \in Req
  BY DEF AccessIInv, Shape
<1>2. c \in Requests => request[c].step \in AgentSteps
  BY DEF AccessIInv, AgentOk
<1>3. c \in Acts \cup {Read} => request[c].step \in ActSteps
  BY DEF AccessIInv, PageInv, ActOk
<1> QED
  BY <1>1, <1>2, <1>3 DEF AgentSteps, ActSteps, Asked

\* One of its requests moves on, as the page stays.
LEMMA ActMoves ==
  ASSUME AccessIInv, NEW c \in Acts \cup {Read}, request[c].step \notin {"idle", "learned"},
         Shrinks, RowsInv', NEW moved \in Req, moved.step # "runtime", moved.mount = request[c].mount,
         request' = [request EXCEPT ![c] = moved], UNCHANGED <<page, authRuntime>>, failures' \in 0..AccessFaults,
         \A m \in People : PageInv(m) => ActOk(c, m)'
  PROVE  AccessIInv'
<1>1. c \in Asked /\ c \notin Requests /\ request \in [Asked -> Req]
  BY AccessFacts DEF Asked, AccessIInv, Shape
<1>2. request'[c] = moved /\ \A d \in Asked \ {c} : request'[d] = request[d]
  BY <1>1
<1>3. RuntimeInv'
  BY <1>2, RuntimeStands DEF AccessIInv
<1> QED
  BY <1>1, <1>3, OneMoves

LEMMA ActTurns ==
  ASSUME AccessIInv, NEW c \in Acts \cup {Read}, request[c].step \notin {"idle", "learned"},
         UNCHANGED <<Rows, page, authRuntime>>, failures' \in 0..AccessFaults,
         NEW moved, Still(moved, request[c]), moved.step \in {"session", "refused"}, moved.as = request[c].as,
         request' = [request EXCEPT ![c] = moved]
  PROVE  AccessIInv'
<1>1. RowsInv' /\ Shrinks
  BY RowsStand DEF AccessIInv
<1>2. request'[c] = moved /\ request \in [Asked -> Req]
  BY DEF AccessIInv, Shape, Asked
<1>3. ASSUME NEW m \in People, PageInv(m) PROVE ActOk(c, m)'
  BY <1>2, <1>3 DEF PageInv, ActOk, InFlight, Still, ActSteps
<1> QED
  BY <1>1, <1>3, ActMoves DEF Still

LEMMA ActRefused ==
  ASSUME AccessIInv, NEW c \in Acts \cup {Read}, request[c].step \notin {"idle", "learned"},
         UNCHANGED <<Rows, page, authRuntime>>,
         (NoFailure /\ Turns(c, "refused")) \/ Breaks(c, "refused")
  PROVE  AccessIInv'
<1>1. request[c] \in Req /\ failures \in 0..AccessFaults /\ AccessFaults \in Nat /\ "refused" \in Steps
  BY AccessFacts DEF AccessIInv, Shape, Asked, RuntimeInv, Steps, AgentSteps
<1>2. CASE NoFailure /\ Turns(c, "refused")
  <2> DEFINE moved == [request[c] EXCEPT !.step = "refused"]
  <2>1. request' = [request EXCEPT ![c] = moved] /\ failures' \in 0..AccessFaults
    BY <1>1, <1>2 DEF Turns, NoFailure
  <2>2. Still(moved, request[c]) /\ moved.step = "refused" /\ moved.as = request[c].as
    BY <1>1, StepSet
  <2> HIDE DEF moved
  <2> QED
    BY <2>1, <2>2, ActTurns
<1>3. CASE Breaks(c, "refused")
  <2> DEFINE moved == [request[c] EXCEPT !.step = "refused", !.faulted = TRUE]
  <2>1. request' = [request EXCEPT ![c] = moved] /\ failures' \in 0..AccessFaults
    BY <1>1, <1>3 DEF Breaks
  <2>2. Still(moved, request[c]) /\ moved.step = "refused" /\ moved.as = request[c].as
    BY <1>1, StepFaulted
  <2> HIDE DEF moved
  <2> QED
    BY <2>1, <2>2, ActTurns
<1> QED
  BY <1>2, <1>3

LEMMA RuntimeActKeeps ==
  ASSUME AccessIInv, NEW c \in Acts \cup {Read}, HasRuntime(c)
  PROVE  AccessIInv'
<1> DEFINE moved == [request[c] EXCEPT !.step = "session"]
<1>1. /\ request[c].step = "runtime" /\ authRuntime = "fulfilled" /\ request[c] \in Req
      /\ UNCHANGED <<Rows, authRuntime, page>> /\ failures' \in 0..AccessFaults
  BY DEF HasRuntime, InStep, AccessIInv, RuntimeInv, Shape, Asked, NoFailure
<1>2. request[c].cred.kind = "cookie"
  BY <1>1 DEF AccessIInv, PageInv, ActOk
<1>3. request' = [request EXCEPT ![c] = moved]
  BY <1>1, <1>2 DEF HasRuntime, Turns
<1>4. "session" \in Steps
  BY DEF Steps, AgentSteps
<1>5. Still(moved, request[c]) /\ moved.step = "session" /\ moved.as = request[c].as
  BY <1>1, <1>4, StepSet
<1> HIDE DEF moved
<1> QED
  BY <1>1, <1>3, <1>5, ActTurns

LEMMA SessionActKeeps ==
  ASSUME AccessIInv, NEW c \in Acts \cup {Read}, GetSession(c)
  PROVE  AccessIInv'
<1>1. /\ request[c].step = "session" /\ UNCHANGED <<Rows, authRuntime, page>> /\ request[c] \in Req
  BY DEF GetSession, Looks, InStep, AccessIInv, Shape, Asked
<1>2. request[c].cred.kind = "cookie"
  BY <1>1 DEF AccessIInv, PageInv, ActOk
<1>3. CASE NoFailure /\ session # Nobody /\ Known(c, session, "store")
  <2> DEFINE moved == [request[c] EXCEPT !.step = "store", !.as = session]
  <2>1. request' = [request EXCEPT ![c] = moved] /\ failures' \in 0..AccessFaults
    BY <1>3 DEF Known, NoFailure, AccessIInv, RuntimeInv
  <2>2. "store" \in Steps /\ session \in People \cup {Nobody}
    BY DEF Steps, ActSteps, AccessIInv, RowsInv
  <2>3. Still(moved, request[c]) /\ moved.step = "store" /\ moved.as = session
    BY <1>1, <2>2 DEF Still, Req, Steps
  <2> HIDE DEF moved
  <2>4. RowsInv' /\ Shrinks
    BY <1>1, RowsStand DEF AccessIInv
  <2>5. request'[c] = moved
    BY <2>1 DEF AccessIInv, Shape, Asked
  <2>6. ASSUME NEW m \in People, PageInv(m) PROVE ActOk(c, m)'
    <3>1. session = m
      BY <1>3, <2>6 DEF PageInv, PageOk
    <3> QED
      BY <1>1, <1>2, <2>3, <2>5, <2>6, <3>1 DEF PageInv, ActOk, InFlight, Still, ActSteps
  <2> QED
    BY <1>1, <2>1, <2>3, <2>4, <2>6, ActMoves DEF Still
<1>4. CASE (NoFailure /\ Turns(c, "refused")) \/ Breaks(c, "refused")
  BY <1>1, <1>4, ActRefused
<1> QED
  BY <1>2, <1>3, <1>4 DEF GetSession, Looks

LEMMA ListKeeps ==
  ASSUME AccessIInv, NEW c \in Asked, ListMcpTokens(c)
  PROVE  AccessIInv'
<1>1. /\ c \in Acts \cup {Read} /\ request[c] \in Req /\ UNCHANGED <<Rows, authRuntime, page>>
      /\ request[c].step = "relist" \/ (request[c].step = "store" /\ request[c].cred.who = "list")
  BY AskedOnPage DEF ListMcpTokens, Doing, InStep
<1>2. CASE NoFailure /\ request' = [request EXCEPT ![c] =
             [@ EXCEPT !.step = "answered", !.tokens = TokensOf(request[c].as)]]
  <2> DEFINE mine == TokensOf(request[c].as)
             moved == [request[c] EXCEPT !.step = "answered", !.tokens = mine]
  <2>1. request' = [request EXCEPT ![c] = moved] /\ failures' \in 0..AccessFaults
    BY <1>2 DEF NoFailure, AccessIInv, RuntimeInv
  <2>2. mine \subseteq TokenIds
    BY DEF TokensOf, AccessIInv, RowsInv
  <2> HIDE DEF mine
  <2>3. /\ moved \in Req /\ moved.step = "answered" /\ moved.tokens = mine /\ moved.as = request[c].as
        /\ moved.cred = request[c].cred /\ moved.id = request[c].id /\ moved.mount = request[c].mount
    BY <1>1, <2>2 DEF Req, ActSteps
  <2> HIDE DEF moved
  <2>4. RowsInv' /\ Shrinks
    BY <1>1, RowsStand DEF AccessIInv
  <2>5. request'[c] = moved
    BY <2>1 DEF AccessIInv, Shape, Asked
  <2>6. ASSUME NEW m \in People, PageInv(m) PROVE ActOk(c, m)'
    <3>1. mine = {i \in usable : holder[i] = m}
      BY <1>1, <2>6 DEF PageInv, ActOk, TokensOf, mine
    <3>2. page.made \cap usable \subseteq mine /\ mine \cap page.dropped = {}
      BY <2>6, <3>1 DEF PageInv, PageOk
    <3>3. ActOk(c, m) /\ UNCHANGED <<page, usable, holder>>
      BY <1>1, <2>6 DEF PageInv, Rows
    <3>4. request[c].step = "relist" => request[c].cred.who = "revoke"
      BY <3>3 DEF ActOk
    <3>5. c # Read /\ InFlight(c) => request[c].cred.who = "revoke" /\ request[c].step = "relist"
      BY <1>1, <3>3, <3>4 DEF ActOk
    <3>6. c # Read /\ InFlight(c) =>
            /\ request[c].id \in TokenIds /\ holder[request[c].id] = m /\ request[c].id \notin usable
            /\ page.known = TRUE /\ page.busy = TRUE /\ page.loading = FALSE
      BY <3>3, <3>5 DEF ActOk
    <3>7. InFlight(c)' => InFlight(c)
      BY <1>1, <2>3, <2>5, <3>3 DEF InFlight
    <3>8. request[c].id \notin usable => request[c].id \notin mine
      BY <3>1
    <3> QED
      BY <1>1, <2>3, <2>5, <3>2, <3>3, <3>5, <3>6, <3>7, <3>8 DEF ActOk, ActSteps
  <2> QED
    BY <1>1, <2>1, <2>3, <2>4, <2>6, ActMoves
<1>3. CASE Breaks(c, "refused")
  BY <1>1, <1>3, ActRefused
<1> QED
  BY <1>2, <1>3 DEF ListMcpTokens

LEMMA IssueKeeps ==
  ASSUME AccessIInv, NEW c \in Asked, IssueMcpToken(c)
  PROVE  AccessIInv'
<1> DEFINE i == LeastId(Unissued)
           p == request[c].as
<1>1. /\ c \in Acts \cup {Read} /\ request[c] \in Req /\ request[c].step = "store" /\ request[c].cred.who = "issue"
      /\ UNCHANGED <<accounts, session, authRuntime, page>> /\ i \in Unissued
  BY AskedOnPage, LeastIdFound DEF IssueMcpToken, Doing, InStep, AccessIInv
<1>2. CASE /\ p \in accounts /\ Inserts(p, i) /\ NoFailure
           /\ request' = [request EXCEPT ![c] = [@ EXCEPT !.step = "answered", !.id = i]]
  <2> DEFINE moved == [request[c] EXCEPT !.step = "answered", !.id = i]
  <2>1. request' = [request EXCEPT ![c] = moved] /\ failures' \in 0..AccessFaults
    BY <1>2 DEF NoFailure, AccessIInv, RuntimeInv
  <2>2. i \in TokenIds /\ holder[i] = Nobody
    BY <1>1 DEF Unissued
  <2>3. RowsInv' /\ Shrinks /\ holder'[i] = p
    BY <1>1, <1>2, InsertMoves DEF AccessIInv
  <2> HIDE DEF i
  <2>4. /\ moved \in Req /\ moved.step = "answered" /\ moved.id = i /\ moved.as = p
        /\ moved.cred = request[c].cred /\ moved.mount = request[c].mount
    BY <1>1, <2>2 DEF Req, ActSteps
  <2> HIDE DEF moved
  <2>5. request'[c] = moved
    BY <2>1 DEF AccessIInv, Shape, Asked
  <2>6. ASSUME NEW m \in People, PageInv(m) PROVE ActOk(c, m)'
    <3>1. p = m /\ ActOk(c, m)
      BY <1>1, <2>6 DEF PageInv, ActOk
    <3>2. i \notin page.dropped
      BY <2>2, <2>6, AccessFacts DEF PageInv, PageOk
    <3>3. InFlight(c)' => InFlight(c)
      BY <1>1, <2>4, <2>5 DEF InFlight
    <3> QED
      BY <1>1, <2>2, <2>3, <2>4, <2>5, <3>1, <3>2, <3>3 DEF ActOk, ActSteps
  <2> QED
    BY <1>1, <2>1, <2>3, <2>4, <2>6, ActMoves
<1>3. CASE /\ (NoFailure /\ Turns(c, "refused")) \/ Breaks(c, "refused")
           /\ UNCHANGED <<holder, usable>>
  <2>1. UNCHANGED Rows
    BY <1>1, <1>3 DEF Rows
  <2> QED
    BY <1>1, <1>3, <2>1, ActRefused
<1> QED
  BY <1>2, <1>3 DEF IssueMcpToken

LEMMA RevokeKeeps ==
  ASSUME AccessIInv, NEW c \in Asked, RevokeMcpToken(c)
  PROVE  AccessIInv'
<1> DEFINE i == request[c].id
<1>1. /\ c \in Acts \cup {Read} /\ request[c] \in Req /\ request[c].step = "store" /\ request[c].cred.who = "revoke"
      /\ UNCHANGED <<accounts, holder, session, authRuntime, page>>
  BY AskedOnPage DEF RevokeMcpToken, Doing, InStep
<1>2. CASE /\ i \in TokensOf(request[c].as) /\ usable' = usable \ {i} /\ NoFailure /\ Turns(c, "relist")
  <2> DEFINE moved == [request[c] EXCEPT !.step = "relist"]
  <2>1. request' = [request EXCEPT ![c] = moved] /\ failures' \in 0..AccessFaults
    BY <1>2 DEF Turns, NoFailure, AccessIInv, RuntimeInv
  <2>2. "relist" \in Steps
    BY DEF Steps, ActSteps
  <2>3. Still(moved, request[c]) /\ moved.step = "relist" /\ moved.as = request[c].as
    BY <1>1, <2>2, StepSet
  <2> HIDE DEF moved
  <2>4. RowsInv' /\ Shrinks
    BY <1>1, <1>2, RowsFewer DEF AccessIInv, RowsInv, TokensBounded
  <2>5. request'[c] = moved
    BY <2>1 DEF AccessIInv, Shape, Asked
  <2>6. i \in TokenIds /\ holder[i] = request[c].as
    BY <1>2 DEF TokensOf, AccessIInv, RowsInv
  <2>7. ASSUME NEW m \in People, PageInv(m) PROVE ActOk(c, m)'
    <3>1. request[c].as = m /\ ActOk(c, m)
      BY <1>1, <2>7 DEF PageInv, ActOk
    <3>2. InFlight(c)' => InFlight(c)
      BY <1>1, <2>3, <2>5 DEF InFlight, Still
    <3> QED
      BY <1>1, <1>2, <2>3, <2>5, <2>6, <3>1, <3>2 DEF ActOk, ActSteps, Still
  <2> QED
    BY <1>1, <2>1, <2>3, <2>4, <2>7, ActMoves DEF Still
<1>3. CASE /\ (NoFailure /\ Turns(c, "refused")) \/ Breaks(c, "refused")
           /\ UNCHANGED usable
  <2>1. UNCHANGED Rows
    BY <1>1, <1>3 DEF Rows
  <2> QED
    BY <1>1, <1>3, <2>1, ActRefused
<1> QED
  BY <1>2, <1>3 DEF RevokeMcpToken

\* The page moves with one of its requests: what of m's must hold of it then.
LEMMA PageMoves ==
  ASSUME AccessIInv, UNCHANGED Rows, RuntimeInv', page' \in Page,
         NEW c \in Acts \cup {Read}, NEW moved \in Req, request' = [request EXCEPT ![c] = moved],
         \A m \in People : PageInv(m) => PageOk(m)' /\ \A a \in Acts \cup {Read} : ActOk(a, m)'
  PROVE  AccessIInv'
<1>1. request' \in [Asked -> Req] /\ \A d \in Asked \ {c} : request'[d] = request[d]
  BY DEF AccessIInv, Shape
<1>2. Shape'
  BY <1>1 DEF Shape
<1>3. RowsInv' /\ Shrinks
  BY RowsStand DEF AccessIInv
<1>4. ASSUME NEW d \in Requests PROVE AgentOk(d)'
  BY <1>1, <1>3, AgentStands, AccessFacts DEF AccessIInv, Asked
<1> QED
  BY <1>2, <1>3, <1>4 DEF AccessIInv, PageInv

Learnt == [NoRequest EXCEPT !.step = "learned"]

LEMMA LearntShape == Learnt \in Req /\ Learnt.step = "learned" /\ Learnt.as = Nobody /\ Learnt.mount = 0
  BY DEF Learnt, NoRequest, NoCredential, Req, Cred, Kinds, ActSteps

\* The page hears of the request it waited for: the others are not of its mount any more.
LEMMA LearnsKeeps ==
  ASSUME AccessIInv, NEW c \in Acts \cup {Read}, Learns(c)
  PROVE  AccessIInv'
<1> DEFINE id == request[c].id
           listed == request[c].tokens
<1>1. /\ request[c] \in Req /\ request[c].mount = page.mount /\ request[c].step \in {"answered", "refused"}
      /\ c \in Asked /\ page \in Page /\ request \in [Asked -> Req] /\ c \notin Requests
  BY AccessFacts DEF Learns, AccessIInv, Shape, Asked
<1>2. CASE /\ InStep(c, "answered") /\ Breaks(c, "refused") /\ UNCHANGED <<Rows, authRuntime>>
  <2>1. request'[c].step = "refused"
    BY <1>1, <1>2 DEF Breaks, Req
  <2>2. page' = page
    BY <2>1 DEF Learns
  <2> QED
    BY <1>1, <1>2, <2>2, ActRefused
<1>3. CASE /\ NoFailure /\ UNCHANGED <<Rows, authRuntime>>
           /\ request' = [request EXCEPT ![c] = Learnt]
  <2> DEFINE ok == request[c].step = "answered"
  <2>1. request'[c] = Learnt /\ \A d \in Asked \ {c} : request'[d] = request[d]
    BY <1>1, <1>3
  <2>2. RuntimeInv'
    BY <1>3, <2>1, LearntShape, RuntimeStands DEF AccessIInv, RuntimeInv, NoFailure
  <2>3. id \in TokenIds \cup {0} /\ listed \in SUBSET TokenIds
    BY <1>1 DEF Req
  <2>4. page' = CASE c = Read -> [page EXCEPT !.loading = FALSE, !.known = ok, !.tokens = listed]
                  [] request[c].cred.who = "issue" /\ ok ->
                       [page EXCEPT !.busy = FALSE, !.issued = id, !.made = @ \cup {id},
                          !.tokens = IF page.known THEN @ \cup {id} ELSE @]
                  [] request[c].cred.who = "revoke" /\ ok ->
                       [page EXCEPT !.busy = FALSE, !.tokens = listed, !.dropped = @ \cup {id},
                          !.issued = IF @ = id THEN 0 ELSE @]
                  [] OTHER -> [page EXCEPT !.busy = FALSE]
    BY <2>1, LearntShape DEF Learns, InStep
  <2> HIDE DEF id, listed
  <2>5. \A m \in People : PageInv(m) =>
          /\ ActOk(c, m) /\ ActOk(Read, m) /\ PageOk(m) /\ InFlight(c)
          /\ \A a \in Acts : ActOk(a, m)
    BY <1>1 DEF PageInv, InFlight
  <2>6. CASE c = Read
    <3>0. request[c].cred.who = "list"
      BY <1>1, <2>5, <2>6 DEF AccessIInv, ActOk
    <3>1. page' = [page EXCEPT !.loading = FALSE, !.known = ok, !.tokens = listed]
      BY <2>4, <2>6, <3>0
    <3>2. /\ page' \in Page /\ page'.mount = page.mount /\ page'.loading = FALSE /\ page'.tokens = listed
          /\ page'.busy = page.busy /\ page'.issued = page.issued /\ page'.made = page.made
          /\ page'.dropped = page.dropped
      BY <1>1, <2>3, <3>1 DEF Page
    <3>3. ASSUME NEW m \in People, PageInv(m)
          PROVE  PageOk(m)' /\ \A a \in Acts \cup {Read} : ActOk(a, m)'
      <4>1. page.loading = TRUE /\ page.made = {} /\ page.dropped = {}
        BY <1>1, <2>5, <2>6, <3>3 DEF ActOk, PageOk
      <4>2. \A a \in Acts : ~InFlight(a) /\ ~InFlight(a)'
        BY <2>1, <2>5, <2>6, <3>2, <3>3, <4>1, AccessFacts DEF ActOk, InFlight, Asked
      <4>3. PageOk(m)'
        BY <1>3, <2>5, <3>2, <3>3, <4>1, <4>2 DEF PageOk, Rows
      <4>4. ASSUME NEW a \in Acts PROVE ActOk(a, m)'
        <5>1. request'[a] = request[a] /\ a # Read
          BY <2>1, <2>6, AccessFacts DEF Asked
        <5> QED
          BY <2>5, <3>2, <3>3, <4>2, <5>1 DEF ActOk
      <4>5. ActOk(Read, m)'
        BY <1>1, <2>1, <2>6, <3>2, LearntShape DEF ActOk, ActSteps, Page
      <4> QED
        BY <4>3, <4>4, <4>5
    <3> QED
      BY <1>3, <2>2, <3>2, <3>3, LearntShape, PageMoves
  <2>7. CASE c \in Acts
    <3>0. c # Read
      BY <2>7, AccessFacts
    <3>1. /\ page' \in Page /\ page'.mount = page.mount /\ page'.loading = page.loading
          /\ page'.known = page.known
      <4>1. CASE request[c].cred.who = "issue" /\ ok
        <5>1. id \in TokenIds
          BY <2>5, <3>0, <4>1 DEF AccessIInv, PageInv, ActOk, id
        <5> QED
          BY <1>1, <2>4, <3>0, <4>1, <5>1 DEF Page
      <4>2. CASE request[c].cred.who = "revoke" /\ ok
        <5>1. id \in TokenIds
          BY <2>5, <3>0, <4>2 DEF AccessIInv, PageInv, ActOk, id
        <5>2. page' = [page EXCEPT !.busy = FALSE, !.tokens = listed, !.dropped = @ \cup {id},
                          !.issued = IF @ = id THEN 0 ELSE @]
          BY <2>4, <3>0, <4>2
        <5> QED
          BY <1>1, <2>3, <5>1, <5>2 DEF Page
      <4>3. CASE ~(request[c].cred.who \in {"issue", "revoke"} /\ ok)
        <5>1. page' = [page EXCEPT !.busy = FALSE]
          BY <2>4, <3>0, <4>3
        <5> QED
          BY <1>1, <5>1 DEF Page
      <4> QED
        BY <4>1, <4>2, <4>3
    <3>2. ASSUME NEW m \in People, PageInv(m)
          PROVE  /\ page.loading = FALSE /\ request[Read].step \in {"idle", "learned"}
                 /\ \A a \in Acts : ~InFlight(a)'
      <4>1. page.loading = FALSE
        BY <2>5, <3>0, <3>2 DEF ActOk
      <4>2. request[Read].step \in {"idle", "learned"}
        BY <2>5, <3>2, <4>1 DEF ActOk
      <4>3. \A a \in Acts \ {c} : ~InFlight(a)
        BY <2>5, <2>7, <3>2 DEF PageOk
      <4>4. \A a \in Acts \ {c} : ~InFlight(a)'
        BY <2>1, <3>1, <4>3 DEF InFlight, Asked
      <4>5. ~InFlight(c)'
        BY <2>1, LearntShape DEF InFlight
      <4> QED
        BY <4>1, <4>2, <4>4, <4>5
    <3>3. ASSUME NEW m \in People, PageInv(m), NEW a \in Acts \cup {Read} PROVE ActOk(a, m)'
      <4>1. CASE a = c
        BY <1>1, <2>1, <3>0, <3>1, <4>1, LearntShape DEF ActOk, InFlight, ActSteps, Page
      <4>2. CASE a # c /\ a \in Acts
        <5>1. request'[a] = request[a] /\ a # Read
          BY <2>1, <4>2, AccessFacts DEF Asked
        <5>2. ActOk(a, m) /\ ~InFlight(a)'
          BY <2>5, <3>2, <3>3, <4>2
        <5> QED
          BY <3>1, <5>1, <5>2 DEF ActOk
      <4>3. CASE a = Read
        <5>1. request'[a] = request[a]
          BY <2>1, <3>0, <4>3 DEF Asked
        <5> QED
          BY <2>5, <3>1, <3>2, <3>3, <4>3, <5>1 DEF ActOk
      <4> QED
        BY <4>1, <4>2, <4>3
    <3>4. ASSUME NEW m \in People, PageInv(m) PROVE PageOk(m)'
      <4>1. CASE request[c].cred.who = "issue" /\ ok
        <5>1. page' = [page EXCEPT !.busy = FALSE, !.issued = id, !.made = @ \cup {id},
                          !.tokens = IF page.known THEN @ \cup {id} ELSE @]
          BY <2>4, <3>0, <4>1
        <5>2. id \in TokenIds /\ holder[id] = m /\ id \notin page.dropped
          BY <2>5, <3>0, <3>4, <4>1 DEF ActOk, id
        <5>3. /\ page'.issued = id /\ page'.made = page.made \cup {id} /\ page'.dropped = page.dropped
              /\ page'.tokens = IF page.known THEN page.tokens \cup {id} ELSE page.tokens
          BY <1>1, <5>1 DEF Page
        <5> QED
          BY <1>3, <2>5, <3>1, <3>2, <3>4, <5>2, <5>3 DEF PageOk, Rows
      <4>2. CASE request[c].cred.who = "revoke" /\ ok
        <5>1. page' = [page EXCEPT !.busy = FALSE, !.tokens = listed, !.dropped = @ \cup {id},
                          !.issued = IF @ = id THEN 0 ELSE @]
          BY <2>4, <3>0, <4>2
        <5>2. /\ page.known = TRUE /\ id \in TokenIds /\ holder[id] = m /\ id \notin usable
              /\ page.made \cap usable \subseteq listed /\ listed \cap (page.dropped \cup {id}) = {}
          BY <2>5, <3>0, <3>4, <4>2 DEF ActOk, id, listed
        <5>3. /\ page'.issued = (IF page.issued = id THEN 0 ELSE page.issued) /\ page'.made = page.made
              /\ page'.dropped = page.dropped \cup {id} /\ page'.tokens = listed
          BY <1>1, <5>1 DEF Page
        <5>4. page'.issued \notin page'.dropped
          BY <1>1, <2>5, <3>4, <5>2, <5>3, TokenIdsFinite DEF PageOk, Page
        <5> QED
          BY <1>3, <2>5, <3>1, <3>2, <3>4, <5>2, <5>3, <5>4 DEF PageOk, Rows
      <4>3. CASE ~(request[c].cred.who \in {"issue", "revoke"} /\ ok)
        <5>1. page' = [page EXCEPT !.busy = FALSE]
          BY <2>4, <3>0, <4>3
        <5>2. /\ page'.issued = page.issued /\ page'.made = page.made
              /\ page'.dropped = page.dropped /\ page'.tokens = page.tokens
          BY <1>1, <5>1 DEF Page
        <5> QED
          BY <1>3, <2>5, <3>1, <3>2, <3>4, <5>2 DEF PageOk, Rows
      <4> QED
        BY <4>1, <4>2, <4>3
    <3> QED
      BY <1>3, <2>2, <3>1, <3>3, <3>4, LearntShape, PageMoves
  <2> QED
    BY <2>6, <2>7
<1> QED
  BY <1>2, <1>3 DEF Learns, Learnt

LEMMA OpenedShape ==
  ASSUME NEW c, NEW what \in {"list", "issue", "revoke"}, NEW id \in TokenIds \cup {0}, page'.mount \in Nat
  PROVE  LET r == Opened(c, what, id) IN
         /\ r \in Req /\ r.step = "runtime" /\ r.as = Nobody /\ r.mount = page'.mount
         /\ r.cred.kind = "cookie" /\ r.cred.who = what
<1> DEFINE good == Good(Cookie(what))
           r == [NoRequest EXCEPT !.step = "runtime", !.cred = Cookie(what), !.good = good,
                                  !.mount = page'.mount, !.id = id]
<1>1. /\ Cookie(what) \in Cred /\ Cookie(what).kind = "cookie" /\ Cookie(what).who = what
  BY DEF Cookie, Credential, Cred, Kinds
<1>2. good \in BOOLEAN
  BY <1>1, GoodOrNot
<1>3. Opened(c, what, id) = r
  BY DEF Opened
<1> HIDE DEF good
<1>4. /\ r \in Req /\ r.step = "runtime" /\ r.as = Nobody /\ r.mount = page'.mount
      /\ r.cred = Cookie(what)
  BY <1>1, <1>2 DEF NoRequest, NoCredential, Req, AgentSteps
<1> HIDE DEF r
<1> QED
  BY <1>1, <1>3, <1>4

\* A request of the page starts the runtime, or waits for the one that is there.
LEMMA RuntimeAsked ==
  ASSUME AccessIInv, GetAuthRuntime("cookie"), failures' = failures
  PROVE  RuntimeInv'
<1>1. authRuntime' \in {"pending", "fulfilled"}
  BY DEF AccessIInv, RuntimeInv, GetAuthRuntime, NeedsRuntime
<1> QED
  BY <1>1 DEF AccessIInv, RuntimeInv

LEMMA OpensKeeps ==
  ASSUME AccessIInv, ConnectOpens
  PROVE  AccessIInv'
<1> DEFINE moved == Opened(Read, "list", 0)
<1>1. /\ page \in Page /\ page' = [NoMount EXCEPT !.mount = page.mount + 1, !.loading = TRUE]
      /\ request \in [Asked -> Req] /\ request' = [request EXCEPT ![Read] = moved]
      /\ UNCHANGED Rows /\ failures' = failures /\ Read \in Asked
  BY DEF ConnectOpens, AccessIInv, Shape, Asked, NoFailure
<1>2. /\ page' \in Page /\ page'.mount = page.mount + 1 /\ page'.loading = TRUE /\ page'.known = FALSE
      /\ page'.tokens = {} /\ page'.issued = 0 /\ page'.made = {} /\ page'.dropped = {} /\ page'.mount \in Nat
  <2> DEFINE next == page.mount + 1
  <2>1. next \in Nat /\ page' = [NoMount EXCEPT !.mount = next, !.loading = TRUE]
    BY <1>1 DEF Page
  <2> HIDE DEF next
  <2>2. /\ page' \in Page /\ page'.mount = next /\ page'.loading = TRUE /\ page'.known = FALSE
        /\ page'.tokens = {} /\ page'.issued = 0 /\ page'.made = {} /\ page'.dropped = {}
    BY <2>1 DEF NoMount, Page
  <2> QED
    BY <2>1, <2>2 DEF next
<1>3. /\ moved \in Req /\ moved.step = "runtime" /\ moved.as = Nobody /\ moved.mount = page'.mount
      /\ moved.cred.kind = "cookie" /\ moved.cred.who = "list"
  BY <1>2, OpenedShape
<1> HIDE DEF moved
<1>4. request'[Read] = moved /\ \A d \in Asked \ {Read} : request'[d] = request[d]
  BY <1>1
<1>5. RuntimeInv'
  BY <1>1, RuntimeAsked DEF ConnectOpens
<1>6. ASSUME NEW m \in People, PageInv(m) PROVE PageOk(m)' /\ \A a \in Acts \cup {Read} : ActOk(a, m)'
  <2>1. \A a \in Acts : /\ request'[a] = request[a] /\ a # Read /\ ActOk(a, m)
                        /\ request[a].mount <= page.mount /\ request[a].mount \in Nat /\ page.mount \in Nat
    BY <1>1, <1>4, <1>6, AccessFacts DEF PageInv, ActOk, Asked, Req, Page
  <2>2. \A a \in Acts : request[a].mount < page'.mount
    BY <1>2, <2>1
  <2>3. \A a \in Acts : ~InFlight(a)'
    BY <1>2, <2>1, <2>2 DEF InFlight
  <2>4. PageOk(m)'
    BY <1>1, <1>2, <1>6, <2>3 DEF PageInv, PageOk, Rows
  <2>5. ASSUME NEW a \in Acts PROVE ActOk(a, m)'
    <3>1. ActOk(a, m) /\ ~InFlight(a)' /\ request'[a] = request[a] /\ a # Read /\ request'[a].mount <= page'.mount
      BY <1>2, <2>1, <2>2, <2>3
    <3> QED
      BY <3>1 DEF ActOk
  <2>6. ActOk(Read, m)'
    BY <1>2, <1>3, <1>4 DEF ActOk, ActSteps
  <2> QED
    BY <2>4, <2>5, <2>6
<1> QED
  BY <1>1, <1>2, <1>3, <1>5, <1>6, PageMoves

LEMMA SendsKeeps ==
  ASSUME AccessIInv, NEW c \in Acts, NEW what \in {"issue", "revoke"}, NEW id \in TokenIds \cup {0},
         Sends(c, what, id), page.loading = FALSE, what = "revoke" => page.known = TRUE
  PROVE  AccessIInv'
<1> DEFINE moved == Opened(c, what, id)
<1>1. /\ page \in Page /\ page.busy = FALSE /\ page' = [page EXCEPT !.busy = TRUE]
      /\ request \in [Asked -> Req] /\ request' = [request EXCEPT ![c] = moved]
      /\ UNCHANGED Rows /\ failures' = failures /\ c \in Asked
  BY DEF Sends, AccessIInv, Shape, Asked, NoFailure, Page
<1>2. /\ page' \in Page /\ page'.mount = page.mount /\ page'.loading = FALSE /\ page'.known = page.known
      /\ page'.tokens = page.tokens /\ page'.issued = page.issued /\ page'.made = page.made
      /\ page'.dropped = page.dropped /\ page'.mount \in Nat /\ page'.busy = TRUE
  BY <1>1 DEF Page
<1>3. /\ moved \in Req /\ moved.step = "runtime" /\ moved.as = Nobody /\ moved.mount = page'.mount
      /\ moved.cred.kind = "cookie" /\ moved.cred.who = what
  BY <1>2, OpenedShape
<1> HIDE DEF moved
<1>4. request'[c] = moved /\ \A d \in Asked \ {c} : request'[d] = request[d]
  BY <1>1
<1>5. RuntimeInv'
  BY <1>1, RuntimeAsked DEF Sends
<1>6. ASSUME NEW m \in People, PageInv(m) PROVE PageOk(m)' /\ \A a \in Acts \cup {Read} : ActOk(a, m)'
  <2>1. \A a \in Acts : ~InFlight(a)
    BY <1>1, <1>6, AccessFacts DEF PageInv, ActOk
  <2>2. \A a \in Acts \ {c} : ~InFlight(a)'
    BY <1>2, <1>4, <2>1 DEF InFlight, Asked
  <2>3. PageOk(m)'
    BY <1>1, <1>2, <1>6, <2>2 DEF PageInv, PageOk, Rows
  <2>4. ASSUME NEW a \in Acts, a # c PROVE ActOk(a, m)'
    <3>1. ActOk(a, m) /\ ~InFlight(a)' /\ request'[a] = request[a] /\ a # Read
      BY <1>4, <1>6, <2>2, <2>4, AccessFacts DEF PageInv, Asked
    <3> QED
      BY <1>2, <3>1 DEF ActOk
  <2>5. ActOk(c, m)'
    BY <1>2, <1>3, <1>4, AccessFacts DEF ActOk, ActSteps, Page
  <2>6. ActOk(Read, m)'
    <3>1. ActOk(Read, m) /\ request'[Read] = request[Read]
      BY <1>4, <1>6, AccessFacts DEF PageInv, Asked
    <3> QED
      BY <1>2, <3>1 DEF ActOk
  <2> QED
    BY <2>3, <2>4, <2>5, <2>6
<1> QED
  BY <1>1, <1>2, <1>3, <1>5, <1>6, PageMoves

LEMMA AsksKeeps ==
  ASSUME AccessIInv, NEW a \in Acts, AsksIssue(a) \/ \E i \in TokenIds : AsksRevoke(a, i)
  PROVE  AccessIInv'
<1>1. page \in Page
  BY DEF AccessIInv, Shape
<1>2. CASE AsksIssue(a)
  <2>1. page.loading = FALSE /\ Sends(a, "issue", 0)
    BY <1>1, <1>2 DEF AsksIssue, MayIssue, Page
  <2> QED
    BY <2>1, SendsKeeps
<1>3. ASSUME NEW i \in TokenIds, AsksRevoke(a, i) PROVE AccessIInv'
  <2>1. page.known = TRUE /\ Sends(a, "revoke", i)
    BY <1>1, <1>3 DEF AsksRevoke, Page
  <2>2. page.loading = FALSE
    BY <1>1, <2>1 DEF AccessIInv, PageInv, PageOk, Page
  <2> QED
    BY <2>1, <2>2, SendsKeeps
<1> QED
  BY <1>2, <1>3

\* What other devices and the account's owner do to the rows.
LEMMA MeanwhileKeeps ==
  ASSUME AccessIInv,
         \/ SessionEnds \/ BuildEnds \/ UNCHANGED accessVars
         \/ \E p \in People : IssuedElsewhere(p) \/ AccountDeleted(p)
         \/ \E i \in TokenIds : RevokedElsewhere(i)
  PROVE  AccessIInv'
<1>1. UNCHANGED <<page, request, failures>>
  BY DEF SessionEnds, BuildEnds, accessVars, IssuedElsewhere, AccountDeleted, RevokedElsewhere, NoFailure
<1>2. authRuntime' = authRuntime => RuntimeInv'
  BY <1>1, RuntimeStands DEF AccessIInv, RuntimeInv
<1>3. CASE SessionEnds
  BY <1>1, <1>2, <1>3, RowsFewer, NoneMoves DEF SessionEnds, AccessIInv, RowsInv, TokensBounded
<1>4. CASE BuildEnds
  <2>1. RuntimeInv'
    BY <1>1, <1>4 DEF BuildEnds, AccessIInv, RuntimeInv
  <2> QED
    BY <1>1, <1>4, <2>1, RowsStand, NoneMoves DEF BuildEnds, AccessIInv
<1>5. CASE UNCHANGED accessVars
  BY <1>1, <1>2, <1>5, RowsStand, NoneMoves DEF accessVars, Rows, AccessIInv
<1>6. ASSUME NEW p \in People, IssuedElsewhere(p) PROVE AccessIInv'
  BY <1>1, <1>2, <1>6, LeastIdFound, InsertMoves, NoneMoves DEF IssuedElsewhere, AccessIInv
<1>7. ASSUME NEW p \in People, AccountDeleted(p) PROVE AccessIInv'
  <2>1. \A i \in usable' : holder[i] \in accounts'
    BY <1>7 DEF AccountDeleted, TokensOf, AccessIInv, RowsInv, TokensBounded
  <2> QED
    BY <1>1, <1>2, <1>7, <2>1, RowsFewer, NoneMoves DEF AccountDeleted, AccessIInv
<1>8. ASSUME NEW i \in TokenIds, RevokedElsewhere(i) PROVE AccessIInv'
  BY <1>1, <1>2, <1>8, RowsFewer, NoneMoves DEF RevokedElsewhere, AccessIInv, RowsInv, TokensBounded
<1> QED
  BY <1>3, <1>4, <1>5, <1>6, <1>7, <1>8

\* A build that fails fails those who wait for it, and no others.
LEMMA BuildFailsKeeps ==
  ASSUME AccessIInv, BuildAuthRuntimeFails
  PROVE  AccessIInv'
<1> DEFINE failed(c) == [request[c] EXCEPT !.step = "refused", !.faulted = TRUE]
<1>1. /\ authRuntime' = "none" /\ failures' = failures + 1 /\ failures < AccessFaults
      /\ request' = [c \in Asked |-> IF InStep(c, "runtime") THEN failed(c) ELSE request[c]]
      /\ UNCHANGED <<Rows, page>>
  BY DEF BuildAuthRuntimeFails, BuildRejects
<1>2. "refused" \in Steps
  BY DEF Steps, AgentSteps
<1>3. \A c \in Asked : /\ request[c] \in Req /\ Still(failed(c), request[c]) /\ failed(c).step = "refused"
                       /\ failed(c).as = request[c].as /\ failed(c).faulted = TRUE
  <2> SUFFICES ASSUME NEW c \in Asked
               PROVE  /\ request[c] \in Req /\ Still(failed(c), request[c]) /\ failed(c).step = "refused"
                      /\ failed(c).as = request[c].as /\ failed(c).faulted = TRUE
    OBVIOUS
  <2>1. request[c] \in Req
    BY DEF AccessIInv, Shape
  <2> QED
    BY <1>2, <2>1 DEF Still, Req, Steps
<1> HIDE DEF failed
<1>4. \A c \in Asked : \/ request[c].step = "runtime" /\ request'[c] = failed(c)
                       \/ request[c].step # "runtime" /\ request'[c] = request[c]
  BY <1>1 DEF InStep
<1>5. \A c \in Asked : failed(c) \in Req
  BY <1>3 DEF Still
<1>6. Shape'
  BY <1>1, <1>3, <1>5 DEF AccessIInv, Shape
<1>7. RowsInv' /\ Shrinks
  BY <1>1, RowsStand DEF AccessIInv
<1>8. RuntimeInv'
  BY <1>1, <1>3, <1>4, AccessFacts DEF AccessIInv, RuntimeInv
<1>9. ASSUME NEW c \in Requests PROVE AgentOk(c)'
  <2>0. c \in Asked /\ AgentOk(c) /\ RowsInv /\ Shape
    BY DEF Asked, AccessIInv
  <2>1. CASE request'[c] = request[c]
    BY <1>7, <2>0, <2>1, AgentStands
  <2>2. CASE request[c].step = "runtime" /\ request'[c] = failed(c)
    <3>1. /\ request'[c].step = "refused" /\ request'[c].faulted = TRUE /\ request'[c].cred = request[c].cred
          /\ request'[c].good = request[c].good
      BY <1>3, <2>0, <2>2 DEF Still
    <3>2. /\ Good(request[c].cred)' => Good(request[c].cred)
          /\ Issued(request[c].cred)'
      BY <1>7, <2>0, <3>1, GoodOnlyLost DEF AgentOk
    <3> QED
      BY <2>0, <2>2, <3>1, <3>2 DEF AgentOk, AgentSteps
  <2> QED
    BY <1>4, <2>0, <2>1, <2>2
<1>10. ASSUME NEW m \in People, PageInv(m) PROVE PageInv(m)'
  <2>1. \A a \in Acts : InFlight(a)' => InFlight(a)
    BY <1>1, <1>3, <1>4 DEF InFlight, Asked, Still
  <2>2. PageOk(m)'
    BY <1>1, <1>7, <1>10, <2>1, PageStands DEF PageInv, AccessIInv
  <2>3. ASSUME NEW a \in Acts \cup {Read} PROVE ActOk(a, m)'
    <3>1. CASE request'[a] = request[a]
      BY <1>1, <1>7, <1>10, <3>1, ActStands DEF PageInv, AccessIInv
    <3>2. CASE request[a].step = "runtime" /\ request'[a] = failed(a)
      <4>1. /\ request'[a].step = "refused" /\ request'[a].cred = request[a].cred
            /\ request'[a].mount = request[a].mount /\ request'[a].as = request[a].as
        BY <1>3, <3>2 DEF Still, Asked
      <4> QED
        BY <1>1, <1>10, <3>2, <4>1 DEF PageInv, ActOk, InFlight, ActSteps
    <3> QED
      BY <1>4, <3>1, <3>2 DEF Asked
  <2> QED
    BY <2>2, <2>3 DEF PageInv
<1> QED
  BY <1>6, <1>7, <1>8, <1>9, <1>10 DEF AccessIInv

LEMMA AccessStep == AccessIInv /\ [AccessNext]_accessVars => AccessIInv'
<1> SUFFICES ASSUME AccessIInv, [AccessNext]_accessVars PROVE AccessIInv'
  OBVIOUS
<1>1. ASSUME NEW c \in Asked, HasRuntime(c) \/ GetSession(c) PROVE AccessIInv'
  BY <1>1, RuntimeAgentKeeps, RuntimeActKeeps, SessionAgentKeeps, SessionActKeeps DEF Asked
<1>2. ASSUME NEW c \in Asked, AuthenticateMcpToken(c) \/ VerifyMcpAccessToken(c) \/ CallerForUser(c)
      PROVE  AccessIInv'
  <2>1. request[c].step \in {"token", "verify", "user"}
    BY <1>2 DEF AuthenticateMcpToken, VerifyMcpAccessToken, CallerForUser, Looks, InStep
  <2>2. c \in Requests
    BY <2>1, AskedOnPage
  <2> QED
    BY <1>2, <2>2, AuthenticateKeeps, VerifyKeeps, CallerKeeps
<1>3. ASSUME NEW c \in Asked, ListMcpTokens(c) \/ IssueMcpToken(c) \/ RevokeMcpToken(c) PROVE AccessIInv'
  BY <1>3, ListKeeps, IssueKeeps, RevokeKeeps
<1>4. ASSUME NEW c \in Asked, c \notin Requests /\ Learns(c) PROVE AccessIInv'
  BY <1>4, LearnsKeeps DEF Asked
<1>5. ASSUME NEW c \in Requests, NEW cred \in Carried, Arrives(c, cred) PROVE AccessIInv'
  BY <1>5, ArrivesKeeps
<1>6. CASE \/ SessionEnds \/ BuildEnds \/ UNCHANGED accessVars
           \/ \E p \in People : IssuedElsewhere(p) \/ AccountDeleted(p)
           \/ \E i \in TokenIds : RevokedElsewhere(i)
  BY <1>6, MeanwhileKeeps
<1> QED
  BY <1>1, <1>2, <1>3, <1>4, <1>5, <1>6, AsksKeeps, OpensKeeps, BuildFailsKeeps DEF AccessNext

\* Whatever requests, builds of the runtime and changes of the rows overlap: no member holds
\* more tokens than the cap, who is let in is whose credential it is and was good, nobody is
\* refused for a fault that is over, and the Connect page lists what it made and not what it
\* revoked (getAuthRuntime, authenticateMcpToken, callerForUser, useAgentTokens).
THEOREM AccessHolds == AccessSpec => []AccessInv
<1>1. AccessSpec => []AccessIInv
  BY AccessInitially, AccessStep, PTL DEF AccessSpec
<1> QED
  BY <1>1, AccessTypes, PTL

(***************************************************************************)
(* What an agent reads of the account                                      *)
(***************************************************************************)

FactSets == [positions : SUBSET Held, orders : SUBSET Placed]
PageRecord == [is : {None, "read", "page", "record"}, rows : SUBSET (Held \cup Placed)]
Snapshots ==
  [step : {"idle", "reading", "answered"}, pages : [Parts -> PageRecord], answer : FactSets,
   steady : FactSets, ever : FactSets]

AccountShape ==
  /\ holding \in [Held -> {None, "open", "flat"}] /\ orders \in [Placed -> {None, "working", "done"}]
  /\ moves \in 0..MaxMoves /\ snapshot \in Snapshots

\* What of the account a part tells.
Covered(part, facts) ==
  CASE part = "positions" -> facts.positions
    [] part = "orders" -> facts.orders \ Complex
    [] part = "complex-orders" -> facts.orders \cap Complex
    [] OTHER -> {}

Within(a, b) == a.positions \subseteq b.positions /\ a.orders \subseteq b.orders

\* A page that was believed has all of its part that was there throughout, and nothing that
\* never was.
PagesInv ==
  snapshot.step = "reading" =>
    /\ Within(snapshot.steady, Facts(holding, orders)) /\ Within(Facts(holding, orders), snapshot.ever)
    /\ \A part \in Parts : snapshot.pages[part].is = "read" =>
         /\ Covered(part, snapshot.steady) \subseteq snapshot.pages[part].rows
         /\ snapshot.pages[part].rows \subseteq Covered(part, snapshot.ever)

AccountIInv == AccountShape /\ PagesInv /\ SnapshotWhole

LEMMA FactsShape == AccountShape => Facts(holding, orders) \in FactSets
  BY DEF AccountShape, Facts, FactSets, Open, Working

LEMMA NothingRead ==
  /\ NoRead \in Snapshots /\ NoRead.step = "idle" /\ NoFacts \in FactSets
  BY DEF NoRead, NoFacts, Snapshots, FactSets, PageRecord

\* A page that is as long as what is listed is what is listed.
LEMMA PageIsWhole ==
  ASSUME NEW listed, IsFiniteSet(listed), NEW shown \in PagesOf(listed, PageSize),
         NEW total \in Totals(Cardinality(listed)), CompleteAccountRows(shown, total)
  PROVE  shown = listed
<1>1. shown \subseteq listed /\ Cardinality(listed) \in Nat /\ PageSize \in Nat
  BY FS_CardinalityType, AccountReadsAssumption DEF PagesOf
<1>2. IsFiniteSet(shown) /\ Cardinality(shown) \in Nat
  BY <1>1, FS_Subset, FS_CardinalityType
<1>3. Cardinality(shown) = Cardinality(listed)
  BY <1>1, <1>2 DEF PagesOf, Totals, CompleteAccountRows, Undeclared, Unreadable
<1> QED
  BY <1>1, <1>3, FS_Subset

LEMMA ListedFinite ==
  ASSUME NEW part \in Parts
  PROVE  IsFiniteSet(Listed(part))
<1>1. IsFiniteSet({s \in Held : holding[s] # None}) /\ IsFiniteSet({i \in Placed \ Complex : orders[i] # None})
  <2>1. {s \in Held : holding[s] # None} \subseteq Held /\ {i \in Placed \ Complex : orders[i] # None} \subseteq Placed
    OBVIOUS
  <2> QED
    BY <2>1, FS_Subset, AccountReadsAssumption
<1>2. IsFiniteSet({ComplexOrder}) /\ IsFiniteSet({})
  BY FS_Singleton, FS_EmptySet
<1> QED
  BY <1>1, <1>2 DEF Listed, Parts

\* What is made of a whole page is the part of the account as it is.
LEMMA NormalizedIsCovered ==
  ASSUME AccountShape, NEW part \in Parts
  PROVE  Normalized(part, Listed(part)) = Covered(part, Facts(holding, orders))
<1>1. CASE part = "positions"
  BY <1>1 DEF Normalized, Listed, Covered, Facts, NormalizedPositions, Open, None
<1>2. CASE part = "orders"
  BY <1>2 DEF Normalized, Listed, Covered, Facts, WorkingOrderRecords, Working, None
<1>3. CASE part = "complex-orders"
  <2>1. CASE \E i \in Complex : orders[i] # None
    <3>1. Listed(part) # {}
      BY <1>3, <2>1 DEF Listed
    <3> QED
      BY <1>3, <3>1, AccountReadsAssumption DEF Normalized, Covered, Facts, WorkingOrderRecords, Working
  <2>2. CASE \A i \in Complex : orders[i] = None
    <3>1. Listed(part) = {}
      BY <1>3, <2>2 DEF Listed
    <3>2. {i \in Placed : orders[i] = "working"} \cap Complex = {}
      BY <2>2 DEF None
    <3> QED
      BY <1>3, <3>1, <3>2 DEF Normalized, Covered, Facts, Working
  <2> QED
    BY <2>1, <2>2
<1>4. CASE part = "balances"
  BY <1>4 DEF Normalized, Covered
<1> QED
  BY <1>1, <1>2, <1>3, <1>4 DEF Parts

LEMMA CoveredWithin ==
  ASSUME NEW part \in Parts, NEW a \in FactSets, NEW b \in FactSets, Within(a, b)
  PROVE  Covered(part, a) \subseteq Covered(part, b) /\ Covered(part, a) \subseteq Held \cup Placed
  BY DEF Covered, Within, FactSets, Parts

\* One page is in: what it is made of is all of its part, if it was believed.
LEMMA PageKeeps ==
  ASSUME AccountIInv, snapshot.step = "reading", NEW part \in Parts,
         NEW is \in {"read", "page", "record"}, NEW found \in SUBSET (Held \cup Placed),
         is = "read" => found = Covered(part, Facts(holding, orders)),
         PageAnswers(part, is, found), UNCHANGED <<holding, orders, moves>>
  PROVE  AccountIInv'
<1> DEFINE entry == [is |-> is, rows |-> found]
           pages == [snapshot.pages EXCEPT ![part] = entry]
<1>1. snapshot \in Snapshots /\ snapshot.pages \in [Parts -> PageRecord] /\ entry \in PageRecord
  BY DEF AccountIInv, AccountShape, Snapshots, PageRecord
<1>2. snapshot' = [snapshot EXCEPT !.pages = pages]
  BY <1>1 DEF PageAnswers, Snapshots
<1>3. entry.is = is /\ entry.rows = found
  OBVIOUS
<1> HIDE DEF entry
<1>4. /\ pages \in [Parts -> PageRecord] /\ pages[part] = entry
      /\ \A other \in Parts \ {part} : pages[other] = snapshot.pages[other]
  BY <1>1
<1> HIDE DEF pages
<1>5. /\ snapshot' \in Snapshots /\ snapshot'.step = "reading" /\ snapshot'.pages = pages
      /\ snapshot'.steady = snapshot.steady /\ snapshot'.ever = snapshot.ever
  BY <1>1, <1>2, <1>4 DEF Snapshots
<1>6. AccountShape' /\ SnapshotWhole'
  BY <1>5 DEF AccountIInv, AccountShape, SnapshotWhole
<1>7. /\ Within(snapshot.steady, Facts(holding, orders)) /\ Within(Facts(holding, orders), snapshot.ever)
      /\ snapshot.steady \in FactSets /\ snapshot.ever \in FactSets /\ Facts(holding, orders) \in FactSets
  BY FactsShape DEF AccountIInv, PagesInv, AccountShape, Snapshots
<1>8. /\ Within(snapshot.steady, Facts(holding, orders))' /\ Within(Facts(holding, orders), snapshot.ever)'
  BY <1>5, <1>7 DEF Within, Facts, Open, Working
<1>9. is = "read" => Covered(part, snapshot.steady) \subseteq found /\ found \subseteq Covered(part, snapshot.ever)
  BY <1>7, CoveredWithin
<1>10. ASSUME NEW other \in Parts, pages[other].is = "read"
       PROVE  /\ Covered(other, snapshot.steady) \subseteq pages[other].rows
              /\ pages[other].rows \subseteq Covered(other, snapshot.ever)
  <2>1. CASE other = part
    BY <1>3, <1>4, <1>9, <1>10, <2>1
  <2>2. CASE other # part
    BY <1>4, <1>10, <2>2 DEF AccountIInv, PagesInv
  <2> QED
    BY <2>1, <2>2
<1>11. PagesInv'
  BY <1>5, <1>8, <1>10 DEF PagesInv, Covered
<1> QED
  BY <1>6, <1>11 DEF AccountIInv

LEMMA PageAnsweredKeeps ==
  ASSUME AccountIInv, NEW part \in Parts, PageAnswered(part) \/ RecordRefused(part)
  PROVE  AccountIInv'
<1>1. snapshot.step = "reading" /\ UNCHANGED <<holding, orders, moves>> /\ AccountShape
  BY DEF PageAnswered, RecordRefused, AccountIInv
<1>2. CASE RecordRefused(part)
  BY <1>1, <1>2, PageKeeps DEF RecordRefused
<1>3. CASE PageAnswered(part)
  <2>1. PICK shown \in PagesOf(Listed(part), PageSize) : \E total \in Totals(Cardinality(Listed(part))) :
          IF part = "balances" \/ CompleteAccountRows(shown, total)
          THEN PageAnswers(part, "read", Normalized(part, shown))
          ELSE PageAnswers(part, "page", {})
    BY <1>3 DEF PageAnswered
  <2>2. PICK total \in Totals(Cardinality(Listed(part))) :
          IF part = "balances" \/ CompleteAccountRows(shown, total)
          THEN PageAnswers(part, "read", Normalized(part, shown))
          ELSE PageAnswers(part, "page", {})
    BY <2>1
  <2>3. CASE part = "balances" \/ CompleteAccountRows(shown, total)
    <3>1. Normalized(part, shown) = Normalized(part, Listed(part))
      <4>1. CASE part = "balances"
        BY <4>1 DEF Normalized
      <4>2. CASE CompleteAccountRows(shown, total)
        BY <4>2, ListedFinite, PageIsWhole
      <4> QED
        BY <2>3, <4>1, <4>2
    <3>2. Normalized(part, shown) = Covered(part, Facts(holding, orders))
      BY <1>1, <3>1, NormalizedIsCovered
    <3>3. Covered(part, Facts(holding, orders)) \in SUBSET (Held \cup Placed)
      BY <1>1, FactsShape, CoveredWithin DEF Within
    <3> QED
      BY <1>1, <2>2, <2>3, <3>2, <3>3, PageKeeps
  <2>4. CASE ~(part = "balances" \/ CompleteAccountRows(shown, total))
    BY <1>1, <2>2, <2>4, PageKeeps
  <2> QED
    BY <2>3, <2>4
<1> QED
  BY <1>2, <1>3

LEMMA SnapshotEndsKeeps ==
  ASSUME AccountIInv, SnapshotEnds
  PROVE  AccountIInv'
<1>1. snapshot.step = "reading" /\ UNCHANGED <<holding, orders, moves>> /\ AccountShape /\ snapshot \in Snapshots
  BY DEF SnapshotEnds, AccountIInv, AccountShape
<1>2. CASE snapshot' = NoRead
  BY <1>1, <1>2, NothingRead DEF AccountIInv, AccountShape, PagesInv, SnapshotWhole
<1>3. CASE /\ \A p \in Parts : snapshot.pages[p].is = "read"
           /\ snapshot' = [snapshot EXCEPT !.step = "answered", !.answer = SnapshotOf(snapshot.pages)]
  <2> DEFINE answer == SnapshotOf(snapshot.pages)
  <2>1. \A part \in {"positions", "orders", "complex-orders"} :
          /\ Covered(part, snapshot.steady) \subseteq snapshot.pages[part].rows
          /\ snapshot.pages[part].rows \subseteq Covered(part, snapshot.ever)
    BY <1>1, <1>3 DEF AccountIInv, PagesInv, Parts
  <2>2. snapshot.steady \in FactSets /\ snapshot.ever \in FactSets
    BY <1>1 DEF Snapshots
  <2>3. Within(snapshot.steady, answer) /\ Within(answer, snapshot.ever)
    BY <2>1, <2>2 DEF SnapshotOf, Covered, Within
  <2>4. answer = [positions |-> answer.positions, orders |-> answer.orders]
    BY DEF SnapshotOf
  <2>5. answer \in FactSets
    BY <2>2, <2>3, <2>4 DEF Within, FactSets
  <2> HIDE DEF answer
  <2>6. /\ snapshot' \in Snapshots /\ snapshot'.step = "answered" /\ snapshot'.answer = answer
        /\ snapshot'.steady = snapshot.steady /\ snapshot'.ever = snapshot.ever
    BY <1>1, <1>3, <2>5 DEF Snapshots, answer
  <2>7. AccountShape' /\ PagesInv' /\ SnapshotWhole'
    BY <1>1, <2>3, <2>6 DEF AccountShape, PagesInv, SnapshotWhole, Within
  <2> QED
    BY <2>7 DEF AccountIInv
<1> QED
  BY <1>2, <1>3 DEF SnapshotEnds

LEMMA LoadKeeps ==
  ASSUME AccountIInv, LoadAccountSnapshot
  PROVE  AccountIInv'
<1> DEFINE facts == Facts(holding, orders)
<1>1. facts \in FactSets /\ UNCHANGED <<holding, orders, moves>> /\ AccountShape
  BY FactsShape DEF LoadAccountSnapshot, AccountIInv
<1>2. facts' = facts
  BY <1>1 DEF Facts, Open, Working
<1>3. snapshot' = [NoRead EXCEPT !.step = "reading", !.steady = facts, !.ever = facts]
  BY DEF LoadAccountSnapshot
<1>4. Within(facts, facts)
  BY DEF Within
<1> HIDE DEF facts
<1>5. /\ snapshot' \in Snapshots /\ snapshot'.step = "reading" /\ snapshot'.steady = facts /\ snapshot'.ever = facts
      /\ \A p \in Parts : snapshot'.pages[p].is = None
  BY <1>1, <1>3 DEF NoRead, NoFacts, Snapshots, FactSets, PageRecord
<1>6. AccountShape' /\ SnapshotWhole'
  BY <1>1, <1>5 DEF AccountShape, SnapshotWhole
<1>7. PagesInv'
  BY <1>2, <1>4, <1>5 DEF PagesInv, facts, Within, None
<1> QED
  BY <1>6, <1>7 DEF AccountIInv

LEMMA AccountMovesKeeps ==
  ASSUME AccountIInv, AccountMoves
  PROVE  AccountIInv'
<1> DEFINE facts == Facts(holding', orders')
           steady == Both(snapshot.steady, facts)
           ever == Either(snapshot.ever, facts)
<1>1. /\ snapshot.step = "reading" /\ moves' \in 0..MaxMoves /\ snapshot \in Snapshots
      /\ holding' \in [Held -> {None, "open", "flat"}] /\ orders' \in [Placed -> {None, "working", "done"}]
  BY AccountReadsAssumption DEF AccountMoves, AccountIInv, AccountShape, Snapshots
<1>2. facts \in FactSets /\ facts = Facts(holding, orders)'
  BY <1>1 DEF Facts, FactSets, Open, Working
<1>3. snapshot' = [snapshot EXCEPT !.steady = steady, !.ever = ever]
  BY <1>1 DEF AccountMoves, Snapshots
<1> HIDE DEF facts
<1>4. /\ snapshot.steady \in FactSets /\ snapshot.ever \in FactSets
  BY <1>1 DEF Snapshots
<1>5. /\ steady \in FactSets /\ ever \in FactSets /\ Within(steady, facts) /\ Within(facts, ever)
      /\ Within(steady, snapshot.steady) /\ Within(snapshot.ever, ever)
  BY <1>2, <1>4 DEF Both, Either, Within, FactSets
<1> HIDE DEF steady, ever
<1>6. /\ snapshot' \in Snapshots /\ snapshot'.step = "reading" /\ snapshot'.pages = snapshot.pages
      /\ snapshot'.steady = steady /\ snapshot'.ever = ever
  BY <1>1, <1>3, <1>5 DEF Snapshots
<1>7. AccountShape' /\ SnapshotWhole'
  BY <1>1, <1>6 DEF AccountShape, SnapshotWhole
<1>8. ASSUME NEW part \in Parts, snapshot.pages[part].is = "read"
      PROVE  /\ Covered(part, steady) \subseteq snapshot.pages[part].rows
             /\ snapshot.pages[part].rows \subseteq Covered(part, ever)
  <2>1. /\ Covered(part, snapshot.steady) \subseteq snapshot.pages[part].rows
        /\ snapshot.pages[part].rows \subseteq Covered(part, snapshot.ever)
    BY <1>1, <1>8 DEF AccountIInv, PagesInv
  <2>2. Covered(part, steady) \subseteq Covered(part, snapshot.steady)
        /\ Covered(part, snapshot.ever) \subseteq Covered(part, ever)
    BY <1>4, <1>5, CoveredWithin
  <2> QED
    BY <2>1, <2>2
<1>9. PagesInv'
  BY <1>2, <1>5, <1>6, <1>8 DEF PagesInv, Within, Covered
<1> QED
  BY <1>7, <1>9 DEF AccountIInv

LEMMA AccountStep ==
  ASSUME AccountIInv, SnapshotReads \/ UNCHANGED <<holding, orders, moves, snapshot>>
  PROVE  AccountIInv'
<1>1. CASE UNCHANGED <<holding, orders, moves, snapshot>>
  <2>1. Facts(holding, orders)' = Facts(holding, orders)
    BY <1>1 DEF Facts, Open, Working
  <2> QED
    BY <1>1, <2>1 DEF AccountIInv, AccountShape, PagesInv, SnapshotWhole, Within, Covered
<1>2. CASE RequestFails \/ SnapshotTaken
  BY <1>2, NothingRead DEF RequestFails, SnapshotTaken, AccountIInv, AccountShape, PagesInv, SnapshotWhole
<1> QED
  BY <1>1, <1>2, PageAnsweredKeeps, SnapshotEndsKeeps, LoadKeeps, AccountMovesKeeps DEF SnapshotReads

PagingRecord == [step : {"idle", "reading", "done"}, page : Nat, seen : SUBSET Nat, steady : SUBSET Nat]

\* The rows are numbered as they arrive, and the newest is the first.
RowsNumbered ==
  /\ arrived \in 0..MaxRows /\ history \in Seq(Nat) /\ Len(history) <= arrived
  /\ \A i \in 1..Len(history) : history[i] = arrived + 1 - i

\* Of the rows that are still there, the reader has seen those before its next page.
PagingInv ==
  /\ paging \in PagingRecord
  /\ paging.step = "reading" =>
       /\ paging.steady \subseteq RowsOf(history)
       /\ \A i \in 1..Len(history) :
            i <= paging.page * PageLimit /\ history[i] \in paging.steady => history[i] \in paging.seen
  /\ HistoryWhole

HistoryIInv == RowsNumbered /\ PagingInv

LEMMA RowsAre ==
  ASSUME RowsNumbered
  PROVE  RowsOf(history) \subseteq 1..arrived /\ RowsOf(history) \subseteq Nat
<1>1. \A i \in 1..Len(history) : history[i] \in 1..arrived
  BY DEF RowsNumbered
<1> QED
  BY <1>1 DEF RowsOf

\* The rows of s from the one after the a-th to the b-th.
LEMMA PartOf ==
  ASSUME NEW s \in Seq(Nat), NEW a \in Nat, NEW b \in Nat, b <= Len(s)
  PROVE  /\ SubSeq(s, a + 1, b) \in Seq(Nat)
         /\ Len(SubSeq(s, a + 1, b)) = IF a <= b THEN b - a ELSE 0
         /\ \A i \in 1..Len(SubSeq(s, a + 1, b)) : SubSeq(s, a + 1, b)[i] = s[a + i]
  OBVIOUS

LEMMA FrontOf ==
  ASSUME NEW s \in Seq(Nat), NEW b \in Nat, b <= Len(s)
  PROVE  /\ SubSeq(s, 1, b) \in Seq(Nat) /\ Len(SubSeq(s, 1, b)) = b
         /\ \A i \in 1..b : SubSeq(s, 1, b)[i] = s[i]
  OBVIOUS

LEMMA HistoryPages ==
  ASSUME HistoryIInv, ReadAccountHistory
  PROVE  HistoryIInv'
<1>1. PICK extra \in 0..1, total \in {Len(history), Undeclared} :
        LET rows == PageRows(paging.page, extra)
        IN paging' = [paging EXCEPT !.page = @ + 1, !.seen = @ \cup RowsOf(Items(rows)),
                                    !.step = IF Truncated(paging.page, rows, total) THEN "reading" ELSE "done"]
  BY DEF ReadAccountHistory
<1> DEFINE n == paging.page * PageLimit
           last == IF n + PageLimit + extra < Len(history) THEN n + PageLimit + extra ELSE Len(history)
           rows == PageRows(paging.page, extra)
           items == Items(rows)
           step == IF Truncated(paging.page, rows, total) THEN "reading" ELSE "done"
<1>2. /\ history \in Seq(Nat) /\ Len(history) \in Nat /\ PageLimit \in Nat \ {0} /\ paging \in PagingRecord
      /\ paging.page \in Nat /\ paging.step = "reading" /\ UNCHANGED <<history, arrived>>
  BY AccountReadsAssumption DEF HistoryIInv, RowsNumbered, PagingInv, PagingRecord, ReadAccountHistory
<1>3. n \in Nat /\ (paging.page + 1) * PageLimit = n + PageLimit
  BY <1>2
<1>4. rows = SubSeq(history, n + 1, last)
  BY DEF PageRows
<1> HIDE DEF n
<1>5. last \in Nat /\ last <= Len(history)
  BY <1>2, <1>3
<1>6. /\ rows \in Seq(Nat) /\ Len(rows) = (IF n <= last THEN last - n ELSE 0) /\ Len(rows) \in Nat
      /\ \A i \in 1..Len(rows) : rows[i] = history[n + i]
  <2>1. rows = SubSeq(history, n + 1, last) /\ last \in Nat /\ last <= Len(history)
    BY <1>4, <1>5
  <2> HIDE DEF last, rows
  <2>2. /\ SubSeq(history, n + 1, last) \in Seq(Nat)
        /\ Len(SubSeq(history, n + 1, last)) = IF n <= last THEN last - n ELSE 0
        /\ \A i \in 1..Len(SubSeq(history, n + 1, last)) : SubSeq(history, n + 1, last)[i] = history[n + i]
    BY <1>2, <1>3, <2>1, PartOf
  <2>3. Len(rows) \in Nat
    BY <2>1, <2>2
  <2> QED
    BY <2>1, <2>2, <2>3
<1> HIDE DEF rows
<1> DEFINE upto == IF Len(rows) < PageLimit THEN Len(rows) ELSE PageLimit
<1>7. upto \in Nat /\ upto <= Len(rows) /\ items = SubSeq(rows, 0 + 1, upto)
  BY <1>2, <1>6 DEF Items
<1>8. /\ items \in Seq(Nat) /\ Len(items) = upto
      /\ \A i \in 1..Len(items) : items[i] = rows[0 + i]
  BY <1>6, <1>7, PartOf
<1>9. /\ Len(items) = (IF Len(rows) < PageLimit THEN Len(rows) ELSE PageLimit)
      /\ \A i \in 1..Len(items) : items[i] = history[n + i] /\ items[i] \in Nat
  BY <1>6, <1>7, <1>8
<1> HIDE DEF items
<1>10. step = "done" => Len(history) <= n + PageLimit
  <2>1. CASE total = Undeclared
    <3>1. step = "done" => ~ (Len(rows) > PageLimit) /\ Len(rows) # PageLimit
      BY <2>1 DEF Truncated
    <3> HIDE DEF step
    <3>2. last = IF n + PageLimit + extra < Len(history) THEN n + PageLimit + extra ELSE Len(history)
      OBVIOUS
    <3> HIDE DEF last
    <3>3. \A rowCount, x \in Nat : rowCount = (IF n <= last THEN last - n ELSE 0) /\ ~ (rowCount > PageLimit)
                                    /\ rowCount # PageLimit /\ x = Len(history) => x <= n + PageLimit
      BY <1>2, <1>3, <1>5, <3>2
    <3> QED
      BY <1>2, <1>6, <3>1, <3>3
  <2>2. CASE total = Len(history) /\ total # Undeclared
    <3>1. step = "done" => n + Len(items) >= Len(history)
      BY <1>2, <1>3, <1>9, <2>2 DEF Truncated, items, n
    <3> QED
      BY <1>2, <1>3, <1>9, <3>1
  <2> QED
    BY <1>1, <2>1, <2>2
<1>11. step \in {"reading", "done"}
  OBVIOUS
<1> DEFINE seen == paging.seen \cup RowsOf(items)
<1>12. seen \in SUBSET Nat
  BY <1>2, <1>9 DEF RowsOf, PagingRecord
<1>13. paging' = [paging EXCEPT !.page = paging.page + 1, !.seen = seen, !.step = step]
  BY <1>1, <1>2 DEF PagingRecord, items, rows
<1> HIDE DEF step
<1>14. \A i \in 1..Len(history) : i <= n + PageLimit /\ history[i] \in paging.steady => history[i] \in seen
  <2> SUFFICES ASSUME NEW i \in 1..Len(history), i <= n + PageLimit, history[i] \in paging.steady
               PROVE  history[i] \in seen
    OBVIOUS
  <2>1. CASE i <= n
    BY <1>2, <2>1 DEF HistoryIInv, PagingInv, n
  <2>2. CASE n < i
    <3>1. i - n \in 1..Len(items) /\ n + (i - n) = i
      BY <1>2, <1>3, <1>6, <1>9, <2>2
    <3>2. items[i - n] = history[i]
      BY <1>9, <3>1
    <3> QED
      BY <3>1, <3>2 DEF RowsOf
  <2> QED
    BY <1>2, <1>3, <2>1, <2>2
<1>15. step = "done" => paging.steady \subseteq seen
  <2> SUFFICES ASSUME step = "done", NEW row \in paging.steady PROVE row \in seen
    OBVIOUS
  <2>1. PICK i \in 1..Len(history) : history[i] = row
    BY <1>2 DEF HistoryIInv, PagingInv, RowsOf
  <2>2. i <= n + PageLimit
    BY <1>2, <1>3, <1>10
  <2> HIDE DEF seen
  <2> QED
    BY <1>14, <2>1, <2>2
<1> HIDE DEF seen
<1>16. /\ paging' \in PagingRecord /\ paging'.page = paging.page + 1 /\ paging'.seen = seen /\ paging'.step = step
       /\ paging'.steady = paging.steady
  <2> DEFINE next == paging.page + 1
  <2>1. next \in Nat /\ paging' = [paging EXCEPT !.page = next, !.seen = seen, !.step = step]
    BY <1>2, <1>13
  <2> HIDE DEF next
  <2>2. /\ paging' \in PagingRecord /\ paging'.page = next /\ paging'.seen = seen /\ paging'.step = step
        /\ paging'.steady = paging.steady
    BY <1>2, <1>11, <1>12, <2>1 DEF PagingRecord
  <2> QED
    BY <2>2 DEF next
<1>17. \A i \in 1..Len(history) :
         i <= paging'.page * PageLimit /\ history[i] \in paging.steady => history[i] \in seen
  BY <1>3, <1>14, <1>16
<1>18. paging.steady \subseteq RowsOf(history)
  BY <1>2 DEF HistoryIInv, PagingInv
<1>19. PagingInv'
  BY <1>2, <1>15, <1>16, <1>17, <1>18 DEF PagingInv, HistoryWhole, RowsOf
<1>20. RowsNumbered'
  BY <1>2 DEF HistoryIInv, RowsNumbered
<1> QED
  BY <1>19, <1>20 DEF HistoryIInv

LEMMA RowArrivesKeeps ==
  ASSUME HistoryIInv, RowArrives
  PROVE  HistoryIInv'
<1>1. /\ history \in Seq(Nat) /\ Len(history) \in Nat /\ arrived \in Nat /\ arrived + 1 \in 0..MaxRows
      /\ arrived' = arrived + 1 /\ history' = <<arrived + 1>> \o history /\ Len(history) <= arrived
      /\ paging' = paging /\ paging.step = "reading"
  BY AccountReadsAssumption DEF RowArrives, HistoryIInv, RowsNumbered
<1>2. /\ history' \in Seq(Nat) /\ Len(history') = Len(history) + 1 /\ history'[1] = arrived + 1
      /\ \A i \in 1..Len(history) : history'[i + 1] = history[i]
  BY <1>1
<1>3. \A i \in 1..Len(history') : i = 1 \/ (i - 1 \in 1..Len(history) /\ history'[i] = history[i - 1])
  <2> SUFFICES ASSUME NEW i \in 1..Len(history'), i # 1
               PROVE  i - 1 \in 1..Len(history) /\ history'[i] = history[i - 1]
    OBVIOUS
  <2>1. i - 1 \in 1..Len(history) /\ (i - 1) + 1 = i
    BY <1>1, <1>2
  <2> QED
    BY <1>2, <2>1
<1>4. RowsNumbered'
  <2>1. \A i \in 1..Len(history') : history'[i] = arrived' + 1 - i
    BY <1>1, <1>2, <1>3 DEF HistoryIInv, RowsNumbered
  <2>2. Len(history') <= arrived'
    BY <1>1, <1>2
  <2> QED
    BY <1>1, <1>2, <2>1, <2>2 DEF RowsNumbered
<1>5. paging.steady \subseteq RowsOf(history) /\ arrived + 1 \notin paging.steady
  BY <1>1, RowsAre DEF HistoryIInv, PagingInv
<1>6. \A j \in 1..Len(history) : j + 1 \in 1..Len(history') /\ history'[j + 1] = history[j]
  BY <1>1, <1>2
<1>7. paging.steady \subseteq RowsOf(history')
  BY <1>5, <1>6 DEF RowsOf
<1> DEFINE n == paging.page * PageLimit
<1>8. n \in Nat
  BY AccountReadsAssumption DEF HistoryIInv, PagingInv, PagingRecord
<1>9. \A i \in 1..Len(history) : i <= n /\ history[i] \in paging.steady => history[i] \in paging.seen
  BY <1>1 DEF HistoryIInv, PagingInv
<1> HIDE DEF n
<1>10. ASSUME NEW i \in 1..Len(history'), i <= n, history'[i] \in paging.steady
       PROVE  history'[i] \in paging.seen
  <2>1. i # 1
    BY <1>2, <1>5, <1>10
  <2>2. i - 1 \in 1..Len(history) /\ history'[i] = history[i - 1] /\ i - 1 <= n
    BY <1>2, <1>3, <1>8, <1>10, <2>1
  <2> QED
    BY <1>9, <1>10, <2>2
<1>11. RowsOf(history)' = RowsOf(history')
  BY DEF RowsOf
<1>12. PagingInv'
  BY <1>1, <1>7, <1>10, <1>11 DEF PagingInv, HistoryIInv, HistoryWhole, n
<1> QED
  BY <1>4, <1>12 DEF HistoryIInv

LEMMA RowLeavesKeeps ==
  ASSUME HistoryIInv, RowLeaves
  PROVE  HistoryIInv'
<1> DEFINE rest == SubSeq(history, 1, Len(history) - 1)
<1>1. /\ history \in Seq(Nat) /\ Len(history) \in Nat /\ Len(history) > 0 /\ arrived' = arrived
      /\ history' = rest /\ paging.step = "reading" /\ paging \in PagingRecord
      /\ paging' = [paging EXCEPT !.steady = @ \cap RowsOf(history')]
  BY DEF RowLeaves, HistoryIInv, RowsNumbered, PagingInv
<1>2. rest \in Seq(Nat) /\ Len(rest) = Len(history) - 1 /\ \A i \in 1..Len(rest) : rest[i] = history[i]
  <2> DEFINE less == Len(history) - 1
  <2>1. less \in Nat /\ less <= Len(history) /\ rest = SubSeq(history, 1, less)
    BY <1>1
  <2> HIDE DEF less, rest
  <2>2. rest \in Seq(Nat) /\ Len(rest) = less /\ \A i \in 1..less : rest[i] = history[i]
    BY <1>1, <2>1, FrontOf
  <2> QED
    BY <2>2 DEF less
<1> HIDE DEF rest
<1>3. RowsNumbered'
  BY <1>1, <1>2 DEF HistoryIInv, RowsNumbered
<1> DEFINE steady == paging.steady \cap RowsOf(rest)
<1>4. steady \in SUBSET Nat /\ steady \subseteq RowsOf(rest) /\ steady \subseteq paging.steady
  BY <1>1 DEF PagingRecord
<1>5. paging' = [paging EXCEPT !.steady = steady]
  BY <1>1 DEF PagingRecord
<1> HIDE DEF steady
<1>6. /\ paging' \in PagingRecord /\ paging'.steady = steady /\ paging'.step = "reading"
      /\ paging'.page = paging.page /\ paging'.seen = paging.seen
  BY <1>1, <1>4, <1>5 DEF PagingRecord
<1>7. ASSUME NEW i \in 1..Len(rest), i <= paging.page * PageLimit, rest[i] \in steady
      PROVE  rest[i] \in paging.seen
  <2>1. i \in 1..Len(history) /\ rest[i] = history[i]
    BY <1>1, <1>2
  <2> QED
    BY <1>1, <1>4, <1>7, <2>1 DEF HistoryIInv, PagingInv
<1>8. RowsOf(history)' = RowsOf(rest)
  BY <1>1 DEF RowsOf
<1>9. PagingInv'
  BY <1>1, <1>4, <1>6, <1>7, <1>8 DEF PagingInv, HistoryWhole
<1> QED
  BY <1>3, <1>9 DEF HistoryIInv

LEMMA HistoryStep ==
  ASSUME HistoryIInv, HistoryReads \/ UNCHANGED <<history, arrived, paging>>
  PROVE  HistoryIInv'
<1>1. CASE UNCHANGED <<history, arrived, paging>>
  BY <1>1 DEF HistoryIInv, RowsNumbered, PagingInv, HistoryWhole, RowsOf
<1>2. CASE HistoryRefused
  BY <1>2 DEF HistoryRefused, NoPaging, HistoryIInv, RowsNumbered, PagingInv, PagingRecord, HistoryWhole
<1>3. CASE FollowHistory
  <2> DEFINE rows == RowsOf(history)
  <2>1. /\ rows \subseteq Nat /\ UNCHANGED <<history, arrived>>
        /\ paging' = [NoPaging EXCEPT !.step = "reading", !.steady = rows]
    BY <1>3, RowsAre DEF FollowHistory, HistoryIInv
  <2>2. \A i \in 1..Len(history) : ~(i <= 0 * PageLimit)
    BY AccountReadsAssumption DEF HistoryIInv, RowsNumbered
  <2>3. rows' = rows
    BY <2>1 DEF RowsOf
  <2> HIDE DEF rows
  <2>4. paging' \in PagingRecord /\ paging'.step = "reading" /\ paging'.page = 0 /\ paging'.steady = rows
    BY <2>1 DEF NoPaging, PagingRecord
  <2>5. PagingInv'
    BY <2>1, <2>2, <2>3, <2>4 DEF PagingInv, HistoryWhole, rows
  <2>6. RowsNumbered'
    BY <2>1 DEF HistoryIInv, RowsNumbered
  <2> QED
    BY <2>5, <2>6 DEF HistoryIInv
<1> QED
  BY <1>1, <1>2, <1>3, HistoryPages, RowArrivesKeeps, RowLeavesKeeps DEF HistoryReads

(***************************************************************************)
(* What an agent reads of the market                                       *)
(***************************************************************************)

\* The order of the contracts, written out.
LEMMA PrecedesIs ==
  ASSUME NEW near \in Nat, NEW activity \in [OptionListing -> Int],
         NEW c \in OptionListing, NEW d \in OptionListing,
         NEW k, k = Key(near, activity, c), NEW l, l = Key(near, activity, d)
  PROVE  /\ \A i \in 1..5 : k[i] \in Int /\ l[i] \in Int
         /\ Precedes(near, activity, c, d) <=>
              \/ k[1] < l[1]
              \/ k[1] = l[1] /\ k[2] < l[2]
              \/ k[1] = l[1] /\ k[2] = l[2] /\ k[3] < l[3]
              \/ k[1] = l[1] /\ k[2] = l[2] /\ k[3] = l[3] /\ k[4] < l[4]
              \/ k[1] = l[1] /\ k[2] = l[2] /\ k[3] = l[3] /\ k[4] = l[4] /\ k[5] < l[5]
<1>1. /\ c.expiry \in Nat /\ c.strike \in Nat /\ c.optionType \in Nat /\ activity[c] \in Int
      /\ d.expiry \in Nat /\ d.strike \in Nat /\ d.optionType \in Nat /\ activity[d] \in Int
  BY AccountReadsAssumption
<1>2. Distance(c.strike, near) \in Int /\ Distance(d.strike, near) \in Int
  BY <1>1 DEF Distance
<1>3. \A i \in 1..5 : k[i] \in Int /\ l[i] \in Int
  BY <1>1, <1>2 DEF Key
<1>4. Precedes(near, activity, c, d) <=> \E i \in 1..5 : k[i] < l[i] /\ \A j \in 1..(i - 1) : k[j] = l[j]
  BY DEF Precedes
<1> HIDE DEF Key
<1>5. (\E i \in 1..5 : k[i] < l[i] /\ \A j \in 1..(i - 1) : k[j] = l[j]) <=>
              \/ k[1] < l[1]
              \/ k[1] = l[1] /\ k[2] < l[2]
              \/ k[1] = l[1] /\ k[2] = l[2] /\ k[3] < l[3]
              \/ k[1] = l[1] /\ k[2] = l[2] /\ k[3] = l[3] /\ k[4] < l[4]
              \/ k[1] = l[1] /\ k[2] = l[2] /\ k[3] = l[3] /\ k[4] = l[4] /\ k[5] < l[5]
  <2>1. ASSUME NEW i \in 1..5, k[i] < l[i], \A j \in 1..(i - 1) : k[j] = l[j]
        PROVE  \/ k[1] < l[1]
               \/ k[1] = l[1] /\ k[2] < l[2]
               \/ k[1] = l[1] /\ k[2] = l[2] /\ k[3] < l[3]
               \/ k[1] = l[1] /\ k[2] = l[2] /\ k[3] = l[3] /\ k[4] < l[4]
               \/ k[1] = l[1] /\ k[2] = l[2] /\ k[3] = l[3] /\ k[4] = l[4] /\ k[5] < l[5]
    <3>1. i = 1 \/ i = 2 \/ i = 3 \/ i = 4 \/ i = 5
      OBVIOUS
    <3> QED
      BY <2>1, <3>1
  <2>2. ASSUME NEW i \in 1..5, k[i] < l[i], \A j \in 1..5 : j < i => k[j] = l[j]
        PROVE  \E n \in 1..5 : k[n] < l[n] /\ \A j \in 1..(n - 1) : k[j] = l[j]
    <3>1. \A j \in 1..(i - 1) : j \in 1..5 /\ j < i
      OBVIOUS
    <3> QED
      BY <2>2, <3>1
  <2>3. \A j \in 1..5 : j = 1 \/ j = 2 \/ j = 3 \/ j = 4 \/ j = 5
    OBVIOUS
  <2>4. CASE k[1] < l[1]
    BY <2>2, <2>3, <2>4
  <2>5. CASE k[1] = l[1] /\ k[2] < l[2]
    <3>1. 2 \in 1..5 /\ \A j \in 1..5 : j < 2 => k[j] = l[j]
      BY <2>3, <2>5
    <3> QED
      BY <2>2, <2>5, <3>1
  <2>6. CASE k[1] = l[1] /\ k[2] = l[2] /\ k[3] < l[3]
    <3>1. 3 \in 1..5 /\ \A j \in 1..5 : j < 3 => k[j] = l[j]
      BY <2>3, <2>6
    <3> QED
      BY <2>2, <2>6, <3>1
  <2>7. CASE k[1] = l[1] /\ k[2] = l[2] /\ k[3] = l[3] /\ k[4] < l[4]
    <3>1. 4 \in 1..5 /\ \A j \in 1..5 : j < 4 => k[j] = l[j]
      BY <2>3, <2>7
    <3> QED
      BY <2>2, <2>7, <3>1
  <2>8. CASE k[1] = l[1] /\ k[2] = l[2] /\ k[3] = l[3] /\ k[4] = l[4] /\ k[5] < l[5]
    <3>1. 5 \in 1..5 /\ \A j \in 1..5 : j < 5 => k[j] = l[j]
      BY <2>3, <2>8
    <3> QED
      BY <2>2, <2>8, <3>1
  <2> QED
    BY <2>1, <2>4, <2>5, <2>6, <2>7, <2>8
<1> QED
  BY <1>3, <1>4, <1>5

LEMMA PrecedesTransitive ==
  ASSUME NEW near \in Nat, NEW activity \in [OptionListing -> Int],
         NEW b \in OptionListing, NEW c \in OptionListing, NEW d \in OptionListing,
         Precedes(near, activity, b, c), Precedes(near, activity, c, d)
  PROVE  Precedes(near, activity, b, d)
<1> DEFINE k == Key(near, activity, b)
           l == Key(near, activity, c)
           m == Key(near, activity, d)
<1>1. \A i \in 1..5 : k[i] \in Int /\ l[i] \in Int /\ m[i] \in Int
  BY PrecedesIs
<1>2. \/ k[1] < l[1]
      \/ k[1] = l[1] /\ k[2] < l[2]
      \/ k[1] = l[1] /\ k[2] = l[2] /\ k[3] < l[3]
      \/ k[1] = l[1] /\ k[2] = l[2] /\ k[3] = l[3] /\ k[4] < l[4]
      \/ k[1] = l[1] /\ k[2] = l[2] /\ k[3] = l[3] /\ k[4] = l[4] /\ k[5] < l[5]
  BY PrecedesIs
<1>3. \/ l[1] < m[1]
      \/ l[1] = m[1] /\ l[2] < m[2]
      \/ l[1] = m[1] /\ l[2] = m[2] /\ l[3] < m[3]
      \/ l[1] = m[1] /\ l[2] = m[2] /\ l[3] = m[3] /\ l[4] < m[4]
      \/ l[1] = m[1] /\ l[2] = m[2] /\ l[3] = m[3] /\ l[4] = m[4] /\ l[5] < m[5]
  BY PrecedesIs
<1>4. Precedes(near, activity, b, d) <=>
      \/ k[1] < m[1]
      \/ k[1] = m[1] /\ k[2] < m[2]
      \/ k[1] = m[1] /\ k[2] = m[2] /\ k[3] < m[3]
      \/ k[1] = m[1] /\ k[2] = m[2] /\ k[3] = m[3] /\ k[4] < m[4]
      \/ k[1] = m[1] /\ k[2] = m[2] /\ k[3] = m[3] /\ k[4] = m[4] /\ k[5] < m[5]
  BY PrecedesIs
<1> HIDE DEF k, l, m
<1>5. /\ k[1] \in Int /\ k[2] \in Int /\ k[3] \in Int /\ k[4] \in Int /\ k[5] \in Int
      /\ l[1] \in Int /\ l[2] \in Int /\ l[3] \in Int /\ l[4] \in Int /\ l[5] \in Int
      /\ m[1] \in Int /\ m[2] \in Int /\ m[3] \in Int /\ m[4] \in Int /\ m[5] \in Int
  BY <1>1
<1> QED
  BY <1>2, <1>3, <1>4, <1>5

\* The first of the set, in the order of the contracts.
Leading(near, activity, S) ==
  {c \in S : Cardinality({d \in S : Precedes(near, activity, d, c)}) < MaxContracts}

LEMMA LeadingIs ==
  ASSUME NEW near, NEW activity, NEW S
  PROVE  /\ Ranked(near, activity, S) = Leading(near, activity, S)
         /\ near # 0 => Candidates(near, S) = Leading(near, NoActivity, S)
         /\ near = 0 => Candidates(near, S) = S
  BY DEF Ranked, Candidates, First, Leading

\* A contract that is left out precedes none that is kept.
LEMMA LeftOutIsBehind ==
  ASSUME NEW near \in Nat, NEW activity \in [OptionListing -> Int], NEW S \in SUBSET OptionListing,
         NEW c \in S \ Leading(near, activity, S), NEW d \in Leading(near, activity, S)
  PROVE  /\ d.expiry <= c.expiry
         /\ (d.expiry = c.expiry /\ near # 0) => Distance(d.strike, near) <= Distance(c.strike, near)
         /\ (d.expiry = c.expiry /\ near = 0) => activity[d] >= activity[c]
<1> DEFINE ahead(e) == {b \in S : Precedes(near, activity, b, e)}
<1>1. /\ c \in OptionListing /\ d \in OptionListing /\ IsFiniteSet(S)
      /\ ~(Cardinality(ahead(c)) < MaxContracts) /\ Cardinality(ahead(d)) < MaxContracts
  BY FS_Subset, AccountReadsAssumption DEF Leading
<1>2. ~Precedes(near, activity, c, d)
  <2> SUFFICES ASSUME Precedes(near, activity, c, d) PROVE FALSE
    OBVIOUS
  <2>1. ahead(c) \subseteq ahead(d) /\ ahead(d) \subseteq S
    BY <1>1, PrecedesTransitive
  <2>2. Cardinality(ahead(c)) <= Cardinality(ahead(d)) /\ IsFiniteSet(ahead(c)) /\ IsFiniteSet(ahead(d))
    <3> HIDE DEF ahead
    <3> QED
      BY <1>1, <2>1, FS_Subset
  <2>3. Cardinality(ahead(c)) \in Nat /\ Cardinality(ahead(d)) \in Nat /\ MaxContracts \in Nat
    BY <2>2, FS_CardinalityType, AccountReadsAssumption
  <2> QED
    BY <1>1, <2>2, <2>3
<1> DEFINE k == Key(near, activity, c)
           l == Key(near, activity, d)
<1>3. /\ ~(k[1] < l[1]) /\ ~(k[1] = l[1] /\ k[2] < l[2]) /\ ~(k[1] = l[1] /\ k[2] = l[2] /\ k[3] < l[3])
      /\ \A i \in 1..5 : k[i] \in Int /\ l[i] \in Int
  BY <1>1, <1>2, PrecedesIs
<1>4. /\ k[1] = c.expiry /\ k[2] = (IF near = 0 THEN 0 ELSE Distance(c.strike, near)) /\ k[3] = -activity[c]
      /\ l[1] = d.expiry /\ l[2] = (IF near = 0 THEN 0 ELSE Distance(d.strike, near)) /\ l[3] = -activity[d]
  BY DEF Key
<1>5. /\ k[1] \in Int /\ k[2] \in Int /\ k[3] \in Int /\ l[1] \in Int /\ l[2] \in Int /\ l[3] \in Int
      /\ activity[c] \in Int /\ activity[d] \in Int
  BY <1>1, <1>3
<1> HIDE DEF k, l
<1> QED
  BY <1>3, <1>4, <1>5

\* A set that is not empty is asked for in a chunk at least.
LEMMA ChunkPositive ==
  ASSUME NEW n \in Nat \ {0}, NEW size \in Nat \ {0}
  PROVE  (n + size - 1) \div size > 0
  OBVIOUS

LEMMA FindContractsKeeps ==
  ASSUME FindOptionContracts
  PROVE  LookupsHonest'
<1>1. PICK chain \in Chains, told \in [OptionListing -> NoCount..1], near \in {0, 2}, strike \in {0, 2},
           expiry \in {0, 1}, optionType \in {0, 1} :
       LET standard == ParseActiveStandardOption(chain)
           matching == {c \in Discoverable(standard, optionType, strike) : expiry # 0 => c.expiry = expiry}
           candidates == Candidates(near, matching)
           activity == ReadOptionActivity(candidates, told)
           found == Ranked(near, activity, candidates)
       IN /\ near # 0 \/ strike # 0 \/ expiry # 0
          /\ lookup' = [NoLookup EXCEPT !.kind = "contracts", !.listed = standard, !.matching = matching,
                          !.activity = told, !.near = near, !.answer = found,
                          !.truncated = Cardinality(found) < Cardinality(matching)]
  BY DEF FindOptionContracts
<1> DEFINE standard == ParseActiveStandardOption(chain)
           matching == {c \in Discoverable(standard, optionType, strike) : expiry # 0 => c.expiry = expiry}
           candidates == Candidates(near, matching)
           activity == ReadOptionActivity(candidates, told)
           found == Ranked(near, activity, candidates)
           cut == Cardinality(found) < Cardinality(matching)
<1>2. matching \subseteq standard /\ standard \subseteq OptionListing
  BY DEF ParseActiveStandardOption, Discoverable
<1>3. lookup' = [NoLookup EXCEPT !.kind = "contracts", !.listed = standard, !.matching = matching,
                   !.activity = told, !.near = near, !.answer = found, !.truncated = cut]
  BY <1>1
<1> HIDE DEF standard, matching
<1>4. /\ near \in Nat /\ found = Leading(near, activity, candidates)
      /\ near # 0 => candidates = Leading(near, NoActivity, matching)
      /\ near = 0 => candidates = matching
  BY LeadingIs
<1>5. found \subseteq candidates /\ candidates \subseteq matching
  BY <1>4 DEF Leading
<1>6. IsFiniteSet(matching) /\ IsFiniteSet(candidates) /\ IsFiniteSet(found)
  <2> HIDE DEF candidates, found
  <2> QED
    BY <1>2, <1>5, FS_Subset, AccountReadsAssumption
<1>7. activity \in [OptionListing -> Int] /\ NoActivity \in [OptionListing -> Int]
  BY DEF ReadOptionActivity, NoActivity, NoCount
<1>8. ASSUME NEW c \in candidates
      PROVE  activity[c] = told[c]
  <2>1. Cardinality(candidates) \in Nat \ {0}
    <3> HIDE DEF candidates
    <3> QED
      BY <1>6, <1>8, FS_CardinalityType, FS_EmptySet
  <2>2. Chunks(candidates) > 0
    BY <2>1, AccountReadsAssumption, ChunkPositive DEF Chunks
  <2>3. c \in OptionListing
    BY <1>2, <1>5, <1>8
  <2> QED
    BY <1>8, <2>2, <2>3 DEF ReadOptionActivity
<1> HIDE DEF candidates, activity, found
<1>9. ASSUME NEW c \in matching \ found, NEW d \in found
      PROVE  /\ d.expiry <= c.expiry
             /\ (d.expiry = c.expiry /\ near # 0) => Distance(d.strike, near) <= Distance(c.strike, near)
             /\ (d.expiry = c.expiry /\ near = 0) => told[d] >= told[c]
  <2>1. CASE c \in candidates
    <3>1. candidates \in SUBSET OptionListing /\ c \in candidates \ Leading(near, activity, candidates)
          /\ d \in Leading(near, activity, candidates)
      BY <1>2, <1>4, <1>5, <1>9, <2>1
    <3>2. activity[c] = told[c] /\ activity[d] = told[d]
      BY <1>5, <1>8, <2>1
    <3>3. /\ d.expiry <= c.expiry
          /\ (d.expiry = c.expiry /\ near # 0) => Distance(d.strike, near) <= Distance(c.strike, near)
          /\ (d.expiry = c.expiry /\ near = 0) => activity[d] >= activity[c]
      BY <1>4, <1>7, <3>1, LeftOutIsBehind
    <3> QED
      BY <3>2, <3>3
  <2>2. CASE c \notin candidates
    <3>1. near # 0 /\ matching \in SUBSET OptionListing /\ c \in matching \ Leading(near, NoActivity, matching)
          /\ d \in Leading(near, NoActivity, matching)
      BY <1>2, <1>4, <1>5, <1>9, <2>2
    <3> QED
      BY <1>4, <1>7, <3>1, LeftOutIsBehind
  <2> QED
    BY <2>1, <2>2
<1>10. cut <=> found # matching
  <2>1. Cardinality(found) \in Nat /\ Cardinality(matching) \in Nat /\ Cardinality(found) <= Cardinality(matching)
        /\ (Cardinality(found) = Cardinality(matching) => found = matching)
    BY <1>5, <1>6, FS_Subset, FS_CardinalityType
  <2> QED
    BY <2>1
<1> HIDE DEF cut
<1>11. /\ lookup'.kind = "contracts" /\ lookup'.listed = standard /\ lookup'.matching = matching
       /\ lookup'.activity = told /\ lookup'.near = near /\ lookup'.answer = found /\ lookup'.truncated = cut
  BY <1>3 DEF NoLookup
<1> QED
  BY <1>2, <1>5, <1>9, <1>10, <1>11 DEF LookupsHonest

LEMMA LeastNumber ==
  ASSUME NEW S \in SUBSET Nat, S # {}
  PROVE  \E least \in S : \A n \in S : least <= n
<1> DEFINE R == {p \in Nat \X Nat : p[1] < p[2]}
<1>1. IsWellFoundedOn(R, Nat)
  BY NatLessThanWellFounded DEF OpToRel
<1>2. \A m, n \in Nat : <<m, n>> \in R <=> m < n
  OBVIOUS
<1> HIDE DEF R
<1>3. PICK least \in S : \A n \in S : <<n, least>> \notin R
  BY <1>1, WFMin
<1>4. \A n \in S : least \in Nat /\ n \in Nat /\ ~(n < least)
  BY <1>2, <1>3
<1> QED
  BY <1>4

\* A finite set of numbers that is not empty has its largest.
LEMMA LargestNumber ==
  ASSUME NEW S \in SUBSET Nat, IsFiniteSet(S), S # {}
  PROVE  \E most \in S : \A n \in S : n <= most
<1> DEFINE above(n) == {m \in S : n < m}
           ranks == {Cardinality(above(n)) : n \in S}
<1>1. \A n \in S : above(n) \subseteq S
  OBVIOUS
<1>2. \A n \in S : IsFiniteSet(above(n)) /\ Cardinality(above(n)) \in Nat
  <2> HIDE DEF above
  <2> QED
    BY <1>1, FS_Subset, FS_CardinalityType
<1>3. ranks \subseteq Nat /\ ranks # {}
  BY <1>2
<1>4. PICK rank \in ranks : \A r \in ranks : rank <= r
  BY <1>3, LeastNumber
<1>5. PICK most \in S : rank = Cardinality(above(most))
  OBVIOUS
<1>6. ASSUME NEW n \in S, most < n
      PROVE  FALSE
  <2>1. above(n) \subseteq above(most) /\ n \in above(most) /\ n \notin above(n)
    <3>1. \A m \in S : m \in Nat /\ (n < m => most < m) /\ ~(n < n)
      BY <1>6
    <3> QED
      BY <1>6, <3>1
  <2>2. Cardinality(above(n)) \in ranks
    OBVIOUS
  <2> HIDE DEF above, ranks
  <2>3. Cardinality(above(n)) <= Cardinality(above(most)) /\ Cardinality(above(n)) # Cardinality(above(most))
    BY <1>2, <2>1, FS_Subset
  <2>4. Cardinality(above(n)) \in Nat /\ Cardinality(above(most)) \in Nat
    BY <1>2
  <2>5. Cardinality(above(n)) < Cardinality(above(most))
    BY <2>3, <2>4
  <2> QED
    BY <1>4, <1>5, <2>2, <2>4, <2>5
<1> QED
  BY <1>6

\* The earliest dates are all of them just when there is room for all.
LEMMA EarliestAre ==
  ASSUME NEW dates \in SUBSET Nat, IsFiniteSet(dates), NEW room \in Nat \ {0}
  PROVE  {c \in dates : Cardinality({d \in dates : d < c}) < room} # dates <=> Cardinality(dates) > room
<1> DEFINE before(c) == {d \in dates : d < c}
<1>1. \A c \in dates : before(c) \subseteq dates \ {c}
  OBVIOUS
<1>2. \A c \in dates : /\ IsFiniteSet(dates \ {c}) /\ Cardinality(dates \ {c}) = Cardinality(dates) - 1
  BY FS_RemoveElement
<1>3. Cardinality(dates) \in Nat
  BY FS_CardinalityType
<1>4. \A c \in dates : /\ Cardinality(before(c)) \in Nat /\ Cardinality(before(c)) <= Cardinality(dates) - 1
  <2> SUFFICES ASSUME NEW c \in dates
               PROVE  Cardinality(before(c)) \in Nat /\ Cardinality(before(c)) <= Cardinality(dates) - 1
    OBVIOUS
  <2>1. before(c) \subseteq dates \ {c} /\ IsFiniteSet(dates \ {c}) /\ Cardinality(dates \ {c}) = Cardinality(dates) - 1
    BY <1>1, <1>2
  <2> HIDE DEF before
  <2> QED
    BY <2>1, FS_Subset, FS_CardinalityType
<1>5. CASE Cardinality(dates) > room
  <2>1. dates # {}
    BY <1>5, FS_EmptySet
  <2>2. PICK most \in dates : \A n \in dates : n <= most
    BY <2>1, LargestNumber
  <2>3. before(most) = dates \ {most}
    <3>1. \A d \in dates : d < most <=> d # most
      BY <2>2
    <3> QED
      BY <3>1
  <2>4. ~(Cardinality(before(most)) < room)
    BY <1>2, <1>3, <1>5, <2>3
  <2> QED
    BY <1>5, <2>4
<1>6. CASE ~(Cardinality(dates) > room)
  <2>1. \A c \in dates : Cardinality(before(c)) < room
    BY <1>3, <1>4, <1>6
  <2> QED
    BY <1>6, <2>1
<1> QED
  BY <1>5, <1>6

LEMMA FindExpirationsKeeps ==
  ASSUME FindExpirations
  PROVE  LookupsHonest'
<1>1. PICK chain \in Chains, optionType \in {0, 1} :
       LET standard == ParseActiveStandardOption(chain)
           dates == {c.expiry : c \in Discoverable(standard, optionType, 0)}
           before(d, e) == d < e
       IN lookup' = [NoLookup EXCEPT !.kind = "expirations", !.listed = standard, !.matching = dates,
                       !.answer = First(dates, before, MaxExpirations),
                       !.truncated = Cardinality(dates) > MaxExpirations]
  BY DEF FindExpirations
<1> DEFINE contracts == Discoverable(ParseActiveStandardOption(chain), optionType, 0)
           dates == {c.expiry : c \in contracts}
           found == {c \in dates : Cardinality({d \in dates : d < c}) < MaxExpirations}
<1>2. lookup' = [NoLookup EXCEPT !.kind = "expirations", !.listed = ParseActiveStandardOption(chain), !.matching = dates,
                   !.answer = found, !.truncated = Cardinality(dates) > MaxExpirations]
  BY <1>1 DEF First
<1>3. contracts \subseteq OptionListing
  BY DEF ParseActiveStandardOption, Discoverable
<1> HIDE DEF contracts
<1>4. dates \subseteq Nat
  BY <1>3, AccountReadsAssumption
<1>5. IsFiniteSet(dates)
  <2>1. IsFiniteSet(contracts)
    BY <1>3, FS_Subset, AccountReadsAssumption
  <2>2. [c \in contracts |-> c.expiry] \in Surjection(contracts, dates)
    BY DEF Surjection
  <2> QED
    BY <2>1, <2>2, FS_Surjection
<1> HIDE DEF dates
<1>6. found # dates <=> Cardinality(dates) > MaxExpirations
  BY <1>4, <1>5, EarliestAre, AccountReadsAssumption
<1> DEFINE cut == Cardinality(dates) > MaxExpirations
<1>7. cut <=> found # dates
  BY <1>6
<1>8. lookup' = [NoLookup EXCEPT !.kind = "expirations", !.listed = ParseActiveStandardOption(chain), !.matching = dates,
                   !.answer = found, !.truncated = cut]
  BY <1>2
<1> HIDE DEF found, cut
<1>9. /\ lookup'.kind = "expirations" /\ lookup'.matching = dates /\ lookup'.answer = found /\ lookup'.truncated = cut
  BY <1>8 DEF NoLookup
<1> QED
  BY <1>7, <1>9 DEF LookupsHonest

LEMMA SearchKeeps ==
  ASSUME SearchSymbols
  PROVE  LookupsHonest'
<1>0. PICK listed \in SUBSET Quoted : \E few \in PagesOf(listed, PageLimit) :
        lookup' = [NoLookup EXCEPT !.kind = "search", !.matching = listed, !.answer = few,
                     !.truncated = Cardinality(few) < Cardinality(listed)]
  BY DEF SearchSymbols
<1>1. PICK few \in PagesOf(listed, PageLimit) :
        lookup' = [NoLookup EXCEPT !.kind = "search", !.matching = listed, !.answer = few,
                     !.truncated = Cardinality(few) < Cardinality(listed)]
  BY <1>0
<1> DEFINE cut == Cardinality(few) < Cardinality(listed)
<1>2. few \subseteq listed /\ IsFiniteSet(listed)
  BY FS_Subset, AccountReadsAssumption DEF PagesOf
<1>3. cut <=> few # listed
  <2>1. Cardinality(few) \in Nat /\ Cardinality(listed) \in Nat /\ Cardinality(few) <= Cardinality(listed)
        /\ (Cardinality(few) = Cardinality(listed) => few = listed)
    BY <1>2, FS_Subset, FS_CardinalityType
  <2> QED
    BY <2>1
<1>4. lookup' = [NoLookup EXCEPT !.kind = "search", !.matching = listed, !.answer = few, !.truncated = cut]
  BY <1>1
<1> HIDE DEF cut
<1>5. lookup'.kind = "search" /\ lookup'.matching = listed /\ lookup'.answer = few /\ lookup'.truncated = cut
  BY <1>4 DEF NoLookup
<1> QED
  BY <1>3, <1>5 DEF LookupsHonest

LEMMA LookupStep ==
  ASSUME LookupsHonest, Lookups \/ UNCHANGED lookup
  PROVE  LookupsHonest'
<1>1. CASE UNCHANGED lookup
  BY <1>1 DEF LookupsHonest
<1>2. CASE LookupTaken
  BY <1>2 DEF LookupTaken, NoLookup, LookupsHonest, None
<1>3. CASE ReadInstrumentQuotes
  BY <1>3 DEF ReadInstrumentQuotes, NoLookup, LookupsHonest
<1>4. CASE ReadMarketMetrics
  <2>1. PICK asked \in (SUBSET Quoted) \ {{}}, answer \in BrokerRows :
       /\ RowsIn(answer) \subseteq asked
       /\ lookup' = [NoLookup EXCEPT !.kind = "metrics", !.matching = asked,
                       !.answer = {s \in asked : answer[s].reading = "sent"}, !.missing = asked \ RowsIn(answer)]
    BY <1>4 DEF ReadMarketMetrics
  <2> DEFINE told == {s \in asked : answer[s].reading = "sent"}
             missing == asked \ RowsIn(answer)
  <2>2. told \cap missing = {} /\ told \subseteq asked
    BY DEF RowsIn, NoRow, None
  <2>3. lookup' = [NoLookup EXCEPT !.kind = "metrics", !.matching = asked, !.answer = told, !.missing = missing]
    BY <2>1
  <2> HIDE DEF told, missing
  <2>4. lookup'.kind = "metrics" /\ lookup'.matching = asked /\ lookup'.answer = told /\ lookup'.missing = missing
    BY <2>3 DEF NoLookup
  <2> QED
    BY <2>2, <2>4 DEF LookupsHonest
<1> QED
  BY <1>1, <1>2, <1>3, <1>4, FindContractsKeeps, FindExpirationsKeeps, SearchKeeps DEF Lookups

(***************************************************************************)
(* What is told is whole                                                   *)
(***************************************************************************)

ReadsIInv == AccountIInv /\ HistoryIInv /\ LookupsHonest

LEMMA ReadsBegin ==
  ASSUME ReadsInit
  PROVE  ReadsIInv
<1>1. AccountIInv
  BY NothingRead, AccountReadsAssumption DEF ReadsInit, AccountIInv, AccountShape, PagesInv, SnapshotWhole
<1>2. PICK n \in 0..MaxRows : history = [i \in 1..n |-> n + 1 - i]
  BY DEF ReadsInit
<1>3. n \in Nat /\ \A i \in 1..n : n + 1 - i \in Nat
  BY AccountReadsAssumption
<1>4. history \in Seq(Nat) /\ Len(history) = n
  BY <1>2, <1>3
<1>5. RowsNumbered
  BY <1>2, <1>3, <1>4 DEF ReadsInit, RowsNumbered
<1>6. PagingInv /\ LookupsHonest
  BY DEF ReadsInit, NoPaging, NoLookup, None, PagingInv, PagingRecord, HistoryWhole, LookupsHonest
<1> QED
  BY <1>1, <1>5, <1>6 DEF ReadsIInv, HistoryIInv

LEMMA ReadsStep ==
  ASSUME ReadsIInv, [ReadsNext]_readsVars
  PROVE  ReadsIInv'
<1>1. SnapshotReads => UNCHANGED <<history, arrived, paging, lookup>>
  BY DEF SnapshotReads, LoadAccountSnapshot, RequestFails, SnapshotEnds, SnapshotTaken, AccountMoves,
         PageAnswered, RecordRefused
<1>2. HistoryReads => UNCHANGED <<holding, orders, moves, snapshot, lookup>>
  BY DEF HistoryReads, FollowHistory, ReadAccountHistory, HistoryRefused, RowArrives, RowLeaves
<1>3. Lookups => UNCHANGED <<holding, orders, moves, snapshot, history, arrived, paging>>
  BY DEF Lookups, FindOptionContracts, FindExpirations, ReadInstrumentQuotes, ReadMarketMetrics, SearchSymbols, LookupTaken
<1>4. SnapshotReads \/ HistoryReads \/ Lookups \/ UNCHANGED readsVars
  BY DEF ReadsNext
<1>5. AccountIInv'
  BY <1>2, <1>3, <1>4, AccountStep DEF readsVars, ReadsIInv
<1>6. HistoryIInv'
  BY <1>1, <1>3, <1>4, HistoryStep DEF readsVars, ReadsIInv
<1>7. LookupsHonest'
  BY <1>1, <1>2, <1>4, LookupStep DEF readsVars, ReadsIInv
<1> QED
  BY <1>5, <1>6, <1>7 DEF ReadsIInv

LEMMA ReadsTold ==
  ASSUME ReadsIInv
  PROVE  ReadsInv
<1>1. ReadsTypeOK
  BY RowsAre DEF ReadsIInv, AccountIInv, HistoryIInv, AccountShape, Snapshots, RowsNumbered, PagingInv, PagingRecord,
                 ReadsTypeOK
<1> QED
  BY <1>1 DEF ReadsIInv, AccountIInv, HistoryIInv, PagingInv, ReadsInv, ReadsWhole

\* Whatever moves between the pages of a read, the snapshot that is answered is the
\* account, the history that is followed to its end is whole, and no contract is left
\* out in favour of one behind it (readAccountSnapshot, readAccountHistory,
\* findOptionContracts): for any account, page sizes, chain and limits.
THEOREM ReadsHold == ReadsSpec => []ReadsInv
<1>1. ReadsInit => ReadsIInv
  BY ReadsBegin
<1>2. ReadsIInv /\ [ReadsNext]_readsVars => ReadsIInv'
  BY ReadsStep
<1>3. ReadsIInv => ReadsInv
  BY ReadsTold
<1> QED
  BY <1>1, <1>2, <1>3, PTL DEF ReadsSpec

(***************************************************************************)
(* The isolate's token                                                     *)
(***************************************************************************)

ReadSteps == {"idle", "again", "minting", "queued", "done", "refused"}
TransportShape ==
  /\ moment \in Nat \ {0} /\ issued \in [Grants -> Nat] /\ refusals \in 0..Refusals
  /\ cached \in [token : Grants \cup {0}, expiresAt : Int]
  /\ read \in [Reads -> [step : ReadSteps, token : Grants \cup {0}, since : Nat, attempt : {0, 1}]]

\* A read on its way has a token that was issued, and neither is overdue; the token of a
\* mint under way is known to that mint alone.
Travels(r) ==
  /\ read[r].step \in {"minting", "queued"} => read[r].token \in Grants /\ issued[read[r].token] # 0
  /\ In(r, "minting") => moment <= read[r].since + MintLatency /\ cached.token # read[r].token
  /\ In(r, "queued") => moment <= read[r].since + GateWait
MintsApart ==
  \A r, q \in Reads : In(r, "minting") /\ q # r /\ read[q].step \in {"minting", "queued"} =>
    read[q].token # read[r].token
CachedIssued == cached.token # 0 => issued[cached.token] # 0

\* But for the one token that was ended early, a token outlives whatever it is given to.
Outlives(d) ==
  /\ cached.token \notin {0, d} => cached.expiresAt + Skew <= issued[cached.token] + MintLatency
  /\ \A r \in Reads : read[r].token # d =>
       /\ In(r, "minting") => issued[read[r].token] = read[r].since + TokenLife
       /\ In(r, "queued") => issued[read[r].token] > read[r].since + GateWait

\* Who repeats its read has met that token, which nobody can be given again.
Repeats(d) ==
  \A r \in Reads : read[r].attempt = 1 =>
    /\ d # 0 /\ cached.token # d /\ read[r].token # d
    /\ \A q \in Reads : In(q, "minting") => read[q].token # d

EndedEarly(d) == (d = 0 <=> refusals = 0) /\ (d # 0 => issued[d] # 0) /\ Outlives(d) /\ Repeats(d)

TransportIInv ==
  /\ TransportShape /\ (\A r \in Reads : Travels(r)) /\ MintsApart /\ CachedIssued /\ ReadsSurvive
  /\ \E d \in Grants \cup {0} : EndedEarly(d)

LEMMA SkewSuffices == Skew \in Nat /\ MintLatency + GateWait <= Skew /\ MintLatency + GateWait < TokenLife
  BY TransportAssumption DEF Skew, Least

LEMMA TransportInitially == TransportInit => TransportIInv
<1> SUFFICES ASSUME TransportInit PROVE TransportIInv
  OBVIOUS
<1> USE TransportAssumption DEF TransportInit, Fresh, NoToken
<1>1. TransportShape
  BY DEF TransportShape, ReadSteps
<1>2. (\A r \in Reads : Travels(r)) /\ MintsApart /\ CachedIssued /\ ReadsSurvive
  BY DEF Travels, MintsApart, CachedIssued, ReadsSurvive, In
<1>3. EndedEarly(0)
  BY DEF EndedEarly, Outlives, Repeats, In
<1> QED
  BY <1>1, <1>2, <1>3 DEF TransportIInv

LEMMA TransportStep ==
  ASSUME Refusals <= 1, TransportIInv, [TransportNext]_transportVars
  PROVE  TransportIInv'
<1> USE TransportAssumption
<1> PICK d \in Grants \cup {0} : EndedEarly(d)
  BY DEF TransportIInv
<1> TransportShape /\ (\A r \in Reads : Travels(r)) /\ MintsApart /\ CachedIssued /\ ReadsSurvive
  BY DEF TransportIInv
<1>0. 0 \notin Grants
  OBVIOUS
<1>1. ASSUME NEW r \in Reads, TakeCached(r)
      PROVE  TransportIInv'
  <2>1. /\ moment < cached.expiresAt /\ cached.token \in Grants /\ Ready(r)
        /\ UNCHANGED <<moment, issued, cached, refusals>>
    BY <1>1 DEF TakeCached, TransportShape
  <2> DEFINE old == read[r]
             new == [old EXCEPT !.step = "queued", !.token = cached.token, !.since = moment]
  <2>2. read' = [read EXCEPT ![r] = new]
    BY <1>1 DEF TakeCached, Carries, TransportShape
  <2> old \in [step : ReadSteps, token : Grants \cup {0}, since : Nat, attempt : {0, 1}] /\ moment \in Nat
    BY DEF TransportShape
  <2> HIDE DEF old
  <2>3. /\ new \in [step : ReadSteps, token : Grants \cup {0}, since : Nat, attempt : {0, 1}]
        /\ new.step = "queued" /\ new.token = cached.token /\ new.since = moment
        /\ new.attempt = old.attempt
    BY <2>1 DEF ReadSteps
  <2> HIDE DEF new
  <2> USE DEF old
  <2>4. \A q \in Reads : read'[q] = IF q = r THEN new ELSE read[q]
    BY <2>2 DEF TransportShape
  <2>5. TransportShape'
    BY <2>1, <2>2, <2>3 DEF TransportShape
  <2>6. (\A q \in Reads : Travels(q))' /\ MintsApart' /\ CachedIssued' /\ ReadsSurvive'
    <3>1. moment \in Nat /\ GateWait \in Nat
      BY DEF TransportShape
    <3>2. ASSUME NEW q \in Reads PROVE Travels(q)'
      <4>1. Travels(q)
        OBVIOUS
      <4>2. cached.token \in Grants /\ issued[cached.token] # 0
        BY <2>1, <1>0 DEF CachedIssued
      <4>3. CASE q = r
        BY <2>1, <2>3, <2>4, <3>1, <4>2, <4>3 DEF Travels, In
      <4>4. CASE q # r
        BY <2>1, <2>4, <4>1, <4>4 DEF Travels, In
      <4> QED
        BY <4>3, <4>4
    <3>3. MintsApart'
      <4>1. \A q \in Reads : In(q, "minting") => cached.token # read[q].token
        BY DEF Travels
      <4> QED
        BY <2>1, <2>3, <2>4, <4>1 DEF MintsApart, In
    <3>4. CachedIssued' /\ ReadsSurvive'
      BY <2>1, <2>3, <2>4 DEF CachedIssued, ReadsSurvive, In
    <3> QED
      BY <3>2, <3>3, <3>4
  <2>7. cached.token # d => issued[cached.token] > moment + GateWait
    <3> SUFFICES ASSUME cached.token # d PROVE issued[cached.token] > moment + GateWait
      OBVIOUS
    <3>1. cached.expiresAt + Skew <= issued[cached.token] + MintLatency
      BY <2>1, <1>0 DEF EndedEarly, Outlives
    <3>2. issued[cached.token] \in Nat /\ cached.expiresAt \in Int /\ moment \in Nat
      BY <2>1 DEF TransportShape
    <3> QED
      BY <3>1, <3>2, <2>1, SkewSuffices
  <2>8. Outlives(d)'
    BY <2>1, <2>3, <2>4, <2>7 DEF EndedEarly, Outlives, In, TransportShape
  <2>9. Repeats(d)'
    BY <2>1, <2>3, <2>4 DEF EndedEarly, Repeats, In, TransportShape
  <2> QED
    BY <2>1, <2>5, <2>6, <2>8, <2>9 DEF TransportIInv, EndedEarly
<1>2. ASSUME NEW r \in Reads, Mint(r)
      PROVE  TransportIInv'
  <2> DEFINE g == CHOOSE h \in Grants : issued[h] = 0
             old == read[r]
             new == [old EXCEPT !.step = "minting", !.token = g, !.since = moment]
  <2>1. /\ g \in Grants /\ issued[g] = 0 /\ Ready(r)
        /\ UNCHANGED <<moment, cached, refusals>>
        /\ issued' = [issued EXCEPT ![g] = moment + TokenLife]
    BY <1>2 DEF Mint
  <2>2. read' = [read EXCEPT ![r] = new]
    BY <1>2 DEF Mint, TransportShape
  <2> HIDE DEF g
  <2> old \in [step : ReadSteps, token : Grants \cup {0}, since : Nat, attempt : {0, 1}] /\ moment \in Nat
    BY DEF TransportShape
  <2> HIDE DEF old
  <2>3. /\ new \in [step : ReadSteps, token : Grants \cup {0}, since : Nat, attempt : {0, 1}]
        /\ new.step = "minting" /\ new.token = g /\ new.since = moment
        /\ new.attempt = old.attempt
    BY <2>1 DEF ReadSteps
  <2> HIDE DEF new
  <2> USE DEF old
  <2>4. \A q \in Reads : read'[q] = IF q = r THEN new ELSE read[q]
    BY <2>2 DEF TransportShape
  <2>5. \A h \in Grants : issued'[h] = IF h = g THEN moment + TokenLife ELSE issued[h]
    BY <2>1 DEF TransportShape
  <2>6. moment \in Nat /\ moment # 0 /\ moment + TokenLife \in Nat /\ moment + TokenLife # 0
    BY DEF TransportShape
  <2>7. TransportShape'
    BY <2>1, <2>2, <2>3, <2>6 DEF TransportShape
  <2>8. (\A q \in Reads : Travels(q))' /\ MintsApart' /\ CachedIssued' /\ ReadsSurvive'
    <3>1. ASSUME NEW q \in Reads PROVE Travels(q)'
      BY <2>1, <2>3, <2>4, <2>5, <2>6 DEF Travels, CachedIssued, In
    <3>2. MintsApart'
      BY <2>1, <2>3, <2>4 DEF Travels, MintsApart, In
    <3>3. CachedIssued'
      BY <2>1, <2>5, <2>6 DEF CachedIssued, TransportShape
    <3>4. ReadsSurvive'
      BY <2>1, <2>3, <2>4 DEF ReadsSurvive, In
    <3> QED
      BY <3>1, <3>2, <3>3, <3>4
  <2>9. g # d
    BY <2>1, <1>0 DEF EndedEarly
  <2>10. Outlives(d)'
    <3>1. cached.token # g /\ (\A q \in Reads : read[q].step \in {"minting", "queued"} => read[q].token # g)
      BY <2>1, <1>0 DEF CachedIssued, Travels
    <3>2. cached'.token \notin {0, d} => cached'.expiresAt + Skew <= issued'[cached'.token] + MintLatency
      BY <2>1, <2>5, <3>1 DEF EndedEarly, Outlives, TransportShape
    <3>3. ASSUME NEW q \in Reads, read'[q].token # d
          PROVE  /\ read'[q].step = "minting" => issued'[read'[q].token] = read'[q].since + TokenLife
                 /\ read'[q].step = "queued" => issued'[read'[q].token] > read'[q].since + GateWait
      <4>1. CASE q = r
        BY <2>1, <2>3, <2>4, <2>5, <4>1
      <4>2. CASE q # r
        <5>1. read'[q] = read[q]
          BY <2>4, <4>2
        <5>2. read[q].step \in {"minting", "queued"} => issued'[read[q].token] = issued[read[q].token]
          BY <2>5, <3>1 DEF Travels
        <5> QED
          BY <5>1, <5>2, <3>3 DEF EndedEarly, Outlives, In
      <4> QED
        BY <4>1, <4>2
    <3> QED
      BY <3>2, <3>3 DEF Outlives, In
  <2>11. Repeats(d)'
    BY <2>1, <2>3, <2>4, <2>9 DEF EndedEarly, Repeats, In
  <2>12. d # 0 => issued'[d] # 0
    BY <2>5, <2>6 DEF EndedEarly
  <2> QED
    BY <2>1, <2>7, <2>8, <2>10, <2>11, <2>12 DEF TransportIInv, EndedEarly
<1>3. ASSUME NEW r \in Reads, Minted(r)
      PROVE  TransportIInv'
  <2> DEFINE g == read[r].token
             new == [read[r] EXCEPT !.step = "queued", !.token = g, !.since = moment]
  <2>1. /\ In(r, "minting") /\ UNCHANGED <<moment, issued, refusals>>
        /\ cached' = [token |-> g, expiresAt |-> moment + TokenLife - Skew]
    BY <1>3 DEF Minted
  <2>2. read' = [read EXCEPT ![r] = new]
    BY <1>3 DEF Minted, Carries, TransportShape
  <2>3. /\ g \in Grants /\ issued[g] # 0 /\ issued[g] \in Nat /\ moment \in Nat
        /\ read[r].since \in Nat /\ moment <= read[r].since + MintLatency
    BY <2>1 DEF Travels, In, TransportShape
  <2> HIDE DEF g
  <2>4. /\ new \in [step : ReadSteps, token : Grants \cup {0}, since : Nat, attempt : {0, 1}]
        /\ new.step = "queued" /\ new.token = g /\ new.since = moment
        /\ new.attempt = read[r].attempt
    BY <2>1, <2>3 DEF TransportShape, ReadSteps
  <2> HIDE DEF new
  <2>5. \A q \in Reads : read'[q] = IF q = r THEN new ELSE read[q]
    BY <2>2 DEF TransportShape
  <2>6. /\ cached'.token = g /\ cached'.expiresAt = moment + TokenLife - Skew
        /\ cached' \in [token : Grants \cup {0}, expiresAt : Int]
    BY <2>1, <2>3, SkewSuffices
  <2>7. TransportShape'
    BY <2>1, <2>2, <2>4, <2>6 DEF TransportShape
  <2>8. (\A q \in Reads : Travels(q))' /\ MintsApart' /\ CachedIssued' /\ ReadsSurvive'
    <3>1. \A q \in Reads : q # r /\ read[q].step \in {"minting", "queued"} => read[q].token # g
      BY <2>1 DEF MintsApart, g
    <3>2. ASSUME NEW q \in Reads PROVE Travels(q)'
      BY <2>1, <2>3, <2>4, <2>5, <2>6, <3>1 DEF Travels, In
    <3>3. MintsApart'
      BY <2>1, <2>4, <2>5, <3>1 DEF MintsApart, In
    <3>4. CachedIssued' /\ ReadsSurvive'
      BY <2>1, <2>3, <2>4, <2>5, <2>6 DEF CachedIssued, ReadsSurvive, In
    <3> QED
      BY <3>2, <3>3, <3>4
  <2>9. g # d => issued[g] = read[r].since + TokenLife
    BY <2>1 DEF EndedEarly, Outlives, g
  <2>10. Outlives(d)'
    <3>1. g # d => issued[g] > moment + GateWait
      BY <2>3, <2>9, SkewSuffices
    <3>2. g # d => (moment + TokenLife - Skew) + Skew <= issued[g] + MintLatency
      BY <2>3, <2>9, SkewSuffices
    <3>3. ASSUME NEW q \in Reads, read'[q].token # d
          PROVE  /\ read'[q].step = "minting" => issued'[read'[q].token] = read'[q].since + TokenLife
                 /\ read'[q].step = "queued" => issued'[read'[q].token] > read'[q].since + GateWait
      <4>1. CASE q = r
        BY <2>1, <2>4, <2>5, <3>1, <3>3, <4>1
      <4>2. CASE q # r
        BY <2>1, <2>5, <3>3, <4>2 DEF EndedEarly, Outlives, In
      <4> QED
        BY <4>1, <4>2
    <3> QED
      BY <2>1, <2>6, <3>2, <3>3 DEF Outlives, In
  <2>11. Repeats(d)'
    BY <2>1, <2>4, <2>5, <2>6 DEF EndedEarly, Repeats, In, g
  <2> QED
    BY <2>1, <2>7, <2>8, <2>10, <2>11 DEF TransportIInv, EndedEarly
<1>4. ASSUME NEW r \in Reads, NEW new, read' = [read EXCEPT ![r] = new],
             new = [Fresh EXCEPT !.step = "done"],
             UNCHANGED <<moment, issued, cached, refusals>>
      PROVE  TransportIInv'
  <2>1. /\ new \in [step : ReadSteps, token : Grants \cup {0}, since : Nat, attempt : {0, 1}]
        /\ new.step = "done" /\ new.attempt = 0
    BY <1>4 DEF Fresh, ReadSteps
  <2>2. \A q \in Reads : read'[q] = IF q = r THEN new ELSE read[q]
    BY <1>4 DEF TransportShape
  <2>3. TransportShape'
    BY <1>4, <2>1 DEF TransportShape
  <2>4. (\A q \in Reads : Travels(q))' /\ MintsApart' /\ CachedIssued' /\ ReadsSurvive'
    BY <1>4, <2>1, <2>2 DEF Travels, MintsApart, CachedIssued, ReadsSurvive, In
  <2>5. Outlives(d)' /\ Repeats(d)'
    BY <1>4, <2>1, <2>2 DEF EndedEarly, Outlives, Repeats, In
  <2> QED
    BY <1>4, <2>3, <2>4, <2>5 DEF TransportIInv, EndedEarly
<1>5. ASSUME NEW r \in Reads, Answered(r)
      PROVE  TransportIInv'
  <2> DEFINE g == read[r].token
  <2>1. /\ In(r, "queued") /\ UNCHANGED <<moment, issued, refusals>>
        /\ g \in Grants /\ issued[g] # 0 /\ issued[g] \in Nat /\ moment \in Nat
        /\ read[r].since \in Nat /\ moment <= read[r].since + GateWait
        /\ read[r].attempt \in {0, 1}
    BY <1>5 DEF Answered, Travels, In, TransportShape
  <2>2. CASE Alive(g)
    BY <1>4, <1>5, <2>1, <2>2 DEF Answered
  <2>3. CASE ~Alive(g)
    <3>1. g = d
      BY <2>1, <2>3 DEF EndedEarly, Outlives, Alive
    <3>2. read[r].attempt = 0
      BY <2>1, <3>1 DEF EndedEarly, Repeats
    <3> DEFINE new == [Fresh EXCEPT !.step = "again", !.attempt = 1]
    <3>3. read' = [read EXCEPT ![r] = new] /\ cached' = Dropped(r)
      BY <1>5, <2>3, <3>2 DEF Answered
    <3>4. /\ new \in [step : ReadSteps, token : Grants \cup {0}, since : Nat, attempt : {0, 1}]
          /\ new.step = "again" /\ new.token = 0
      BY DEF Fresh, ReadSteps
    <3> HIDE DEF new
    <3>5. \A q \in Reads : read'[q] = IF q = r THEN new ELSE read[q]
      BY <3>3 DEF TransportShape
    <3>6. /\ cached' \in [token : Grants \cup {0}, expiresAt : Int] /\ cached'.token # d
          /\ cached' = cached \/ cached'.token = 0
      BY <2>1, <3>1, <3>3, <1>0 DEF Dropped, NoToken, TransportShape
    <3>7. TransportShape'
      BY <2>1, <3>3, <3>4, <3>6 DEF TransportShape
    <3>8. (\A q \in Reads : Travels(q))' /\ MintsApart' /\ CachedIssued' /\ ReadsSurvive'
      <4>1. ASSUME NEW q \in Reads PROVE Travels(q)'
        BY <2>1, <3>4, <3>5, <3>6, <1>0 DEF Travels, In
      <4>2. MintsApart' /\ CachedIssued' /\ ReadsSurvive'
        BY <2>1, <3>4, <3>5, <3>6 DEF MintsApart, CachedIssued, ReadsSurvive, In
      <4> QED
        BY <4>1, <4>2
    <3>9. Outlives(d)'
      BY <2>1, <3>4, <3>5, <3>6 DEF EndedEarly, Outlives, In
    <3>10. Repeats(d)'
      <4>1. \A q \in Reads : In(q, "minting") => read[q].token # d
        BY <2>1, <3>1 DEF MintsApart, In
      <4>2. d # 0
        BY <2>1, <3>1, <1>0
      <4> QED
        BY <3>4, <3>5, <3>6, <4>1, <4>2 DEF EndedEarly, Repeats, In
    <3> QED
      BY <2>1, <3>7, <3>8, <3>9, <3>10 DEF TransportIInv, EndedEarly
  <2> QED
    BY <2>2, <2>3
<1>6. ASSUME NEW r \in Reads, Throws(r)
      PROVE  TransportIInv'
  BY <1>4, <1>6 DEF Throws
<1>7. ASSUME NEW g \in Grants, EndEarly(g)
      PROVE  TransportIInv'
  <2>1. /\ refusals < Refusals /\ refusals' = refusals + 1 /\ issued[g] > moment
        /\ issued' = [issued EXCEPT ![g] = moment] /\ UNCHANGED <<moment, cached, read>>
    BY <1>7 DEF EndEarly, Alive
  <2>2. refusals = 0 /\ refusals' = 1 /\ d = 0 /\ moment \in Nat \ {0}
    BY <2>1 DEF TransportShape, EndedEarly
  <2>3. \A h \in Grants : issued'[h] = IF h = g THEN moment ELSE issued[h]
    BY <2>1 DEF TransportShape
  <2>4. TransportShape'
    BY <2>1, <2>2 DEF TransportShape
  <2>5. (\A q \in Reads : Travels(q))' /\ MintsApart' /\ CachedIssued' /\ ReadsSurvive'
    <3>1. ASSUME NEW q \in Reads PROVE Travels(q)'
      BY <2>1, <2>2, <2>3 DEF Travels, In
    <3>2. CachedIssued'
      BY <2>1, <2>2, <2>3 DEF CachedIssued, TransportShape
    <3>3. MintsApart' /\ ReadsSurvive'
      BY <2>1 DEF MintsApart, ReadsSurvive, In
    <3> QED
      BY <3>1, <3>2, <3>3
  <2>6. \A q \in Reads : read[q].attempt # 1
    BY <2>2 DEF EndedEarly, Repeats
  <2>7. Outlives(g)'
    <3>1. cached.token \notin {0, g} => cached.expiresAt + Skew <= issued'[cached.token] + MintLatency
      BY <2>2, <2>3 DEF EndedEarly, Outlives, TransportShape
    <3>2. ASSUME NEW q \in Reads, read[q].token # g
          PROVE  /\ In(q, "minting") => issued'[read[q].token] = read[q].since + TokenLife
                 /\ In(q, "queued") => issued'[read[q].token] > read[q].since + GateWait
      BY <2>2, <2>3, <3>2, <1>0 DEF EndedEarly, Outlives, Travels, In
    <3> QED
      BY <2>1, <3>1, <3>2 DEF Outlives, In
  <2>8. EndedEarly(g)'
    BY <2>1, <2>2, <2>3, <2>6, <2>7, <1>0 DEF EndedEarly, Repeats
  <2> QED
    BY <2>4, <2>5, <2>8 DEF TransportIInv
<1>8. ASSUME NewIsolate
      PROVE  TransportIInv'
  <2>1. /\ cached' = NoToken /\ UNCHANGED <<moment, issued, read, refusals>>
        /\ cached' \in [token : Grants \cup {0}, expiresAt : Int] /\ cached'.token = 0
        /\ \A q \in Reads : ~In(q, "minting") /\ ~In(q, "queued")
    BY <1>8 DEF NewIsolate, NoToken, In
  <2>2. TransportShape'
    BY <2>1 DEF TransportShape
  <2>3. (\A q \in Reads : Travels(q))' /\ MintsApart' /\ CachedIssued' /\ ReadsSurvive'
    BY <2>1 DEF Travels, MintsApart, CachedIssued, ReadsSurvive, In
  <2>4. EndedEarly(d)'
    BY <2>1 DEF EndedEarly, Outlives, Repeats, In
  <2> QED
    BY <2>2, <2>3, <2>4 DEF TransportIInv
<1>9. ASSUME TimePasses
      PROVE  TransportIInv'
  <2>1. /\ moment' = moment + 1 /\ UNCHANGED <<issued, cached, read, refusals>>
        /\ \A q \in Reads : Waits(q)
    BY <1>9 DEF TimePasses
  <2>2. TransportShape'
    BY <2>1 DEF TransportShape
  <2>3. ASSUME NEW q \in Reads PROVE Travels(q)'
    <3>1. In(q, "minting") => moment < read[q].since + MintLatency
      BY <2>1 DEF Waits
    <3>2. In(q, "queued") => moment < read[q].since + GateWait
      BY <2>1 DEF Waits, In
    <3>3. moment \in Nat /\ read[q].since \in Nat
      BY DEF TransportShape
    <3> QED
      BY <2>1, <3>1, <3>2, <3>3 DEF Travels, In
  <2>4. MintsApart' /\ CachedIssued' /\ ReadsSurvive' /\ EndedEarly(d)'
    BY <2>1 DEF MintsApart, CachedIssued, ReadsSurvive, EndedEarly, Outlives, Repeats, In
  <2> QED
    BY <2>2, <2>3, <2>4 DEF TransportIInv
<1>10. CASE UNCHANGED transportVars
  <2>1. UNCHANGED <<moment, issued, cached, read, refusals>>
    BY <1>10 DEF transportVars
  <2>2. TransportShape' /\ (\A q \in Reads : Travels(q))' /\ EndedEarly(d)'
    BY <2>1 DEF TransportShape, Travels, In, EndedEarly, Outlives, Repeats
  <2>3. MintsApart' /\ CachedIssued' /\ ReadsSurvive'
    BY <2>1 DEF MintsApart, CachedIssued, ReadsSurvive, In
  <2> QED
    BY <2>2, <2>3 DEF TransportIInv
<1> QED
  BY <1>1, <1>2, <1>3, <1>5, <1>6, <1>7, <1>8, <1>9, <1>10 DEF TransportNext

\* A token leaves the cache before its time only when it is dead: whoever answers a read in
\* its queue drops the token the read carried.
LEMMA OnlyDeadDropped ==
  ASSUME TransportShape, [TransportNext]_transportVars,
         NEW r \in Reads, In(r, "queued"), ~In(r, "queued")', cached' # cached
  PROVE  ~Alive(cached.token)
<1>1. ASSUME NEW q \in Reads, Answered(q) PROVE ~Alive(cached.token)
  BY <1>1 DEF Answered, Dropped
<1>2. ASSUME NEW q \in Reads, Minted(q) PROVE FALSE
  <2>1. q # r
    BY <1>2 DEF Minted, In
  <2> QED
    BY <1>2, <2>1 DEF Minted, Carries, In, TransportShape
<1>3. CASE NewIsolate
  BY <1>3 DEF NewIsolate, In
<1>4. ASSUME NEW q \in Reads, TakeCached(q) \/ Mint(q) \/ Throws(q) PROVE FALSE
  BY <1>4 DEF TakeCached, Mint, Throws
<1>5. ASSUME NEW g \in Grants, EndEarly(g) PROVE FALSE
  BY <1>5 DEF EndEarly
<1>6. ~TimePasses /\ ~UNCHANGED transportVars
  BY DEF TimePasses, transportVars
<1> QED
  BY <1>1, <1>2, <1>3, <1>4, <1>5, <1>6 DEF TransportNext

\* With at most one token ended early by the provider, no market read fails for its token,
\* and a late refusal drops no token that still lives, for any number of reads, tokens and
\* any times that leave the skew room for the mint and the permit.
THEOREM TokensServed ==
  ASSUME Refusals <= 1
  PROVE  TransportSpec => TokensServe
<1>1. TransportInit => TransportIInv
  BY TransportInitially
<1>2. TransportIInv /\ [TransportNext]_transportVars => TransportIInv'
  BY TransportStep
<1>3. TransportIInv => ReadsSurvive
  BY DEF TransportIInv
<1>4. TransportIInv /\ [TransportNext]_transportVars =>
        \A r \in Reads : In(r, "queued") /\ ~In(r, "queued")' /\ cached' # cached => ~Alive(cached.token)
  BY OnlyDeadDropped DEF TransportIInv
<1> QED
  BY <1>1, <1>2, <1>3, <1>4, PTL DEF TransportSpec, TokensServe, FreshTokenKept
===============================================================================
