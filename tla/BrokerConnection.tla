--------------------------- MODULE BrokerConnection ---------------------------
(***************************************************************************)
(* A member connects tastytrade from a terminal (connect-tastytrade.mjs):  *)
(* a run listens on a loopback port, the Worker opens a pending            *)
(* authorization, the browser comes back from the consent page through the *)
(* Worker's callback to the port, and the run redeems the code through the *)
(* Worker.  AgentKeyring has what it does with the refresh token.          *)
(*                                                                         *)
(* One member and one machine.  A run, the authorization it opened and the *)
(* consent given for it all carry the run's name.                          *)
(***************************************************************************)
EXTENDS Integers, FiniteSets

CONSTANTS
  Attempts,         \* runs of connect-tastytrade.mjs
  Ports,            \* loopback ports; one that was closed can be given out again
  Tokens,           \* agent tokens the member may be issued
  Lifetime,         \* BROKER_AUTHORIZATION_TTL_MS
  MaxPending,       \* MAX_PENDING_BROKER_AUTHORIZATIONS_PER_USER
  MaxTokens,        \* MAX_MCP_TOKENS_PER_USER
  ConnectClock,     \* bound: the last instant
  ConnectFailures   \* bound: calls that fail or are lost, programs that are killed

ASSUME ConnectAssumption ==
  /\ Lifetime \in Nat \ {0} /\ MaxPending \in Nat \ {0} /\ MaxTokens \in Nat \ {0}
  /\ ConnectClock \in Nat /\ ConnectFailures \in Nat /\ "replay" \notin Attempts

VARIABLES
  instant,
  minted,     \* of an agent token: "unminted", "live" or "revoked" (user_mcp_tokens)
  pending,    \* broker_authorizations: [state, port, until]
  attempt,    \* the runs
  browser,    \* of an attempt: where its consent page is
  exchange,   \* the calls to the exchange: one per run, and one more for a replay
  mishaps,
  record      \* how often a state was redeemed, and by whom

connectVars == <<instant, minted, pending, attempt, browser, exchange, mishaps, record>>

Absent == "absent"
Replay == "replay"
Member == "member"
Callers == Attempts \cup {Replay}

Unstarted == [step |-> "idle", port |-> Absent, token |-> Absent, now |-> 0, until |-> 0]
NoTab == [at |-> "closed", port |-> Absent]
NoCall == [step |-> "none", state |-> Absent, code |-> Absent, user |-> Absent, now |-> 0]

ConnectInit ==
  /\ instant = 0 /\ minted = [t \in Tokens |-> "unminted"] /\ pending = {}
  /\ attempt = [a \in Attempts |-> Unstarted] /\ browser = [a \in Attempts |-> NoTab]
  /\ exchange = [c \in Callers |-> NoCall]
  /\ mishaps = 0 /\ record = [redeemed |-> [a \in Attempts |-> 0], by |-> {}]

Mishap == mishaps < ConnectFailures /\ mishaps' = mishaps + 1
At(a, step) == attempt[a].step = step
Goes(a, step) == attempt' = [attempt EXCEPT ![a].step = step]
Ends(a) == attempt' = [attempt EXCEPT ![a] = [Unstarted EXCEPT !.step = "ended"]]

(***************************************************************************)
(* Agent tokens                                                            *)
(***************************************************************************)

Live(t) == t # Absent /\ minted[t] = "live"

\* issueMcpToken: the cap is counted in the statement that inserts.
Issue(t) ==
  /\ minted[t] = "unminted" /\ Cardinality({u \in Tokens : Live(u)}) < MaxTokens
  /\ minted' = [minted EXCEPT ![t] = "live"]
  /\ UNCHANGED <<instant, pending, attempt, browser, exchange, mishaps, record>>

Revoke(t) ==
  /\ Live(t) /\ minted' = [minted EXCEPT ![t] = "revoked"]
  /\ UNCHANGED <<instant, pending, attempt, browser, exchange, mishaps, record>>

(***************************************************************************)
(* A run opens an authorization                                            *)
(***************************************************************************)

Listening == {"authorizing", "inserting", "waiting"}

\* The run listens on a free port; the agent token is the one in the keyring, which may
\* have been revoked since.
Begin(a) ==
  /\ At(a, "idle")
  /\ \E p \in Ports, t \in Tokens :
       /\ minted[t] # "unminted"
       /\ \A b \in Attempts : attempt[b].step \in Listening => attempt[b].port # p
       /\ attempt' = [attempt EXCEPT ![a] = [@ EXCEPT !.step = "authorizing", !.port = p, !.token = t]]
  /\ UNCHANGED <<instant, minted, pending, browser, exchange, mishaps, record>>

\* agentRequest: the token is live at this moment, or the run ends on a 401.
AuthorizeAuthenticated(a) ==
  /\ At(a, "authorizing")
  /\ IF Live(attempt[a].token)
     THEN attempt' = [attempt EXCEPT ![a] = [@ EXCEPT !.step = "inserting", !.now = instant]]
     ELSE Ends(a)
  /\ UNCHANGED <<instant, minted, pending, browser, exchange, mishaps, record>>

Unexpired(now) == {row \in pending : row.until > now}

\* Mutant: the cap lets one more in.
RoomForOne(now) == Cardinality(Unexpired(now)) <= MaxPending

\* The cap is counted in the statement that inserts, after the lapsed rows are gone.
Room(now) == Cardinality(Unexpired(now)) < MaxPending

\* authorizeTastytrade: the batch, and the consent page the member is sent to.
Authorize(a) ==
  /\ At(a, "inserting")
  /\ LET row == [state |-> a, port |-> attempt[a].port, until |-> attempt[a].now + Lifetime]
     IN  IF Room(attempt[a].now)
         THEN /\ pending' = Unexpired(attempt[a].now) \cup {row}
              /\ attempt' = [attempt EXCEPT ![a] =
                   [@ EXCEPT !.step = "waiting", !.now = 0, !.until = row.until]]
              /\ browser' = [browser EXCEPT ![a].at = "consent page"]
         ELSE pending' = Unexpired(attempt[a].now) /\ Ends(a) /\ UNCHANGED browser
  /\ UNCHANGED <<instant, minted, exchange, mishaps, record>>

(***************************************************************************)
(* The browser                                                             *)
(***************************************************************************)

\* The member answers on tastytrade's page, whatever became of the run.
Answer(a) ==
  /\ browser[a].at = "consent page"
  /\ \E answer \in {"granted", "denied"} : browser' = [browser EXCEPT ![a].at = answer]
  /\ UNCHANGED <<instant, minted, pending, attempt, exchange, mishaps, record>>

\* tastytradeCallback: the row is looked up and left; its port is where the browser
\* is sent, and where a reload takes it again.
Callback(a) ==
  /\ browser[a].at \in {"granted", "denied"} /\ browser[a].port = Absent
  /\ \E row \in Unexpired(instant) :
       row.state = a /\ browser' = [browser EXCEPT ![a].port = row.port]
  /\ UNCHANGED <<instant, minted, pending, attempt, exchange, mishaps, record>>

\* Mutant: the listener takes whatever comes back.
Accepts(b, a) == TRUE

\* sameState: the state this run was issued.
Expects(b, a) == a = b

\* loopbackListener: whoever listens on the port by now answers, and takes only a
\* return with the state it expects.
Return(a, b) ==
  /\ browser[a].port # Absent /\ At(b, "waiting") /\ attempt[b].port = browser[a].port /\ Expects(b, a)
  /\ IF browser[a].at = "denied"
     THEN Ends(b) /\ UNCHANGED exchange
     ELSE /\ Goes(b, "exchanging")
          /\ exchange' = [exchange EXCEPT ![b] =
               [NoCall EXCEPT !.step = "arriving", !.state = b, !.code = a, !.user = Member]]
  /\ UNCHANGED <<instant, minted, pending, browser, mishaps, record>>

\* The wait ends with the authorization.
Lapse(a) ==
  /\ At(a, "waiting") /\ instant >= attempt[a].until /\ Ends(a)
  /\ UNCHANGED <<instant, minted, pending, browser, exchange, mishaps, record>>

(***************************************************************************)
(* The exchange                                                            *)
(***************************************************************************)

\* The state and the code are in the browser's history: they are sent once more, with
\* an agent token of this member or of another.
Resend(a) ==
  /\ browser[a].at = "granted" /\ browser[a].port # Absent /\ exchange[Replay].step = "none"
  /\ \E user \in {Member, "another"} :
       exchange' = [exchange EXCEPT ![Replay] =
         [NoCall EXCEPT !.step = "arriving", !.state = a, !.code = a, !.user = user]]
  /\ UNCHANGED <<instant, minted, pending, attempt, browser, mishaps, record>>

Presented(c) ==
  CASE c # Replay -> Live(attempt[c].token)
    [] exchange[c].user = Member -> \E t \in Tokens : Live(t)
    [] OTHER -> TRUE

\* agentRequest, as the exchange opens; its clock is read here.
ExchangeAuthenticated(c) ==
  /\ exchange[c].step = "arriving"
  /\ exchange' = [exchange EXCEPT ![c] =
       [@ EXCEPT !.step = IF Presented(c) THEN "consuming" ELSE "refused", !.now = instant]]
  /\ UNCHANGED <<instant, minted, pending, attempt, browser, mishaps, record>>

\* Mutant: the row is read and left for the sweep.
Left(rows) == pending

\* The row goes in the statement that finds it.
Consumed(rows) == pending \ rows

\* exchangeTastytrade: this member's row, unexpired, is consumed or the call refused.
Consume(c) ==
  /\ exchange[c].step = "consuming"
  /\ LET rows == {row \in Unexpired(exchange[c].now) :
                    row.state = exchange[c].state /\ exchange[c].user = Member}
     IN  /\ pending' = Consumed(rows)
         /\ exchange' = [exchange EXCEPT ![c] =
              [@ EXCEPT !.step = IF rows = {} THEN "refused" ELSE "redeeming", !.now = 0]]
         /\ record' = IF rows = {} THEN record
                      ELSE [record EXCEPT !.redeemed[exchange[c].state] = @ + 1, !.by = @ \cup {exchange[c].user}]
  /\ UNCHANGED <<instant, minted, attempt, browser, mishaps>>

\* exchangeTastytradeAuthorizationCode: the refresh token, or the row was spent in vain.
Redeem(c) ==
  /\ exchange[c].step = "redeeming"
  /\ \/ exchange' = [exchange EXCEPT ![c].step = "answered"] /\ UNCHANGED mishaps
     \/ Mishap /\ exchange' = [exchange EXCEPT ![c].step = "refused"]
  /\ UNCHANGED <<instant, minted, pending, attempt, browser, record>>

\* The run has its refresh token, which it hands to the keyring (AgentKeyring), or fails.
Receive(a) ==
  /\ At(a, "exchanging")
  /\ \/ exchange[a].step = "answered" /\ Goes(a, "connected")
     \/ exchange[a].step = "refused" /\ Ends(a)
  /\ UNCHANGED <<instant, minted, pending, browser, exchange, mishaps, record>>

\* A run is interrupted, or a call of its own is lost on the way back.
Interrupt(a) ==
  /\ attempt[a].step \notin {"idle", "ended", "connected"} /\ Mishap /\ Ends(a)
  /\ UNCHANGED <<instant, minted, pending, browser, exchange, record>>

\* sweepExpiredBrokerAuthorizations.
SweepAuthorizations ==
  /\ pending # Unexpired(instant) /\ pending' = Unexpired(instant)
  /\ UNCHANGED <<instant, minted, attempt, browser, exchange, mishaps, record>>

Elapse == /\ instant < ConnectClock /\ instant' = instant + 1
          /\ UNCHANGED <<minted, pending, attempt, browser, exchange, mishaps, record>>

ConnectNext ==
  \/ \E t \in Tokens : Issue(t) \/ Revoke(t)
  \/ \E a \in Attempts :
       \/ Begin(a) \/ AuthorizeAuthenticated(a) \/ Authorize(a)
       \/ Answer(a) \/ Callback(a) \/ Lapse(a) \/ Resend(a)
       \/ Receive(a) \/ Interrupt(a)
  \/ \E a, b \in Attempts : Return(a, b)
  \/ \E c \in Callers : ExchangeAuthenticated(c) \/ Consume(c) \/ Redeem(c)
  \/ SweepAuthorizations \/ Elapse

ConnectSpec == ConnectInit /\ [][ConnectNext]_connectVars

(***************************************************************************)
(* Properties                                                              *)
(***************************************************************************)

\* Starts that overlap never leave the member with more pending authorizations than
\* the cap, and an authorization is redeemed at most once, by its own member, however
\* often and by whomever its state and code are sent (authorizeTastytrade,
\* exchangeTastytrade).
AuthorizationsHold ==
  /\ Cardinality(Unexpired(instant)) <= MaxPending
  /\ \A a \in Attempts : record.redeemed[a] <= 1
  /\ record.by \subseteq {Member}

\* The grant a run receives is the one it asked consent for: a late return of an
\* earlier run, sent to a port that a newer run listens on by now, is never redeemed in
\* its place (loopbackListener).
GrantIsOwn ==
  \A a \in Attempts : At(a, "connected") => exchange[a].code = a

\* Neither the account's pending authorizations nor a member's grant goes astray.
ConnectionInv == AuthorizationsHold /\ GrantIsOwn
===============================================================================
