----------------------------- MODULE MarketFeed -----------------------------
(***************************************************************************)
(* MarketFeedCore: the one relay between many browsers and option reads,   *)
(* and a single dxLink connection upstream.                                *)
(*                                                                         *)
(* The object runs one callback at a time and yields only where it awaits  *)
(* the network: the quote token, and the published universe.  So its whole *)
(* memory is one record, every method is an operator from the record to    *)
(* the record it leaves, and every callback is one action.  Feed events    *)
(* themselves pass through; what is modelled is who is subscribed to what, *)
(* which connection is current, and what each reader has been told.        *)
(***************************************************************************)
EXTENDS Integers, FiniteSets

CONSTANTS
  Readers,      \* browsers that may open a socket to the relay
  Symbols,      \* what a reader may ask for, numbered in alphabetical order
  Reads,        \* readOptionGreeks and readDailyCandles calls
  ReadType,     \* the feed type a read subscribes to: Greeks or Candle
  ReadSymbols,  \* the streamer symbols it names
  FeedTypes,    \* FEED_TYPES
  StreamTypes,  \* those a reader's symbols are subscribed on
  MaxRelayed,   \* MAX_RELAYED_SYMBOLS
  Published,    \* the published universe
  Links,        \* upstream sockets, used again after their close; with every close still
                \* to come, one counts as heard
  NoLink, NoToken,
  MaxFailures,  \* bound: faults of the upstream, the token and the object
  MaxRejoins    \* bound: times a reader or a read starts

ASSUME FeedAssumption ==
  /\ Symbols \subseteq Nat /\ Published \subseteq Symbols /\ StreamTypes \subseteq FeedTypes
  /\ IsFiniteSet(Symbols) /\ IsFiniteSet(Readers)
  /\ ReadType \in [Reads -> FeedTypes]
  /\ \A q \in Reads : ReadSymbols[q] # {} /\ ReadSymbols[q] \cap Symbols = {}
  /\ MaxRelayed \in Nat \ {0} /\ MaxFailures \in Nat /\ MaxRejoins \in Nat
  /\ (\E k, l \in Links : k # l) /\ NoLink \notin Links /\ NoToken \notin {"good", "bad"}

VARIABLES
  relay,     \* the relay: its memory, its hibernating sockets and its alarm
  failures,  \* faults so far
  starts     \* readers and reads started so far

feedVars == <<relay, failures, starts>>

States == {"connecting", "live", "reconnecting", "degraded"}

Reader == [state: {"away", "open", "silent", "closing", "gone"}, asks: SUBSET Symbols,
           told: States \cup {"nothing"}]
ReadNames == UNION {ReadSymbols[q] : q \in Reads}

Relay == [
  readers: [Readers -> Reader],     \* accepted sockets with their attachments
  reading: SUBSET Reads,            \* registered reads, not yet released
  up: Links \cup {NoLink},          \* this.upstream
  open: BOOLEAN,                    \* its readyState is OPEN, not CONNECTING
  broken: BOOLEAN,                  \* a send on it throws
  linkToken: {"good", "bad"},       \* the token its AUTH carries
  alive: SUBSET Links,              \* sockets no side has closed
  late: SUBSET Links,               \* closed sockets whose close event is still to come
  auth: {"awaiting", "initial-unauthorized", "authorized"},
  opened: SUBSET FeedTypes,
  configured: SUBSET FeedTypes,
  subscribed: [FeedTypes -> SUBSET (Symbols \cup ReadNames)],  \* subscribedByType
  served: [FeedTypes -> SUBSET (Symbols \cup ReadNames)],      \* what the connection was asked for
  keepalive: BOOLEAN, setup: BOOLEAN, alarm: BOOLEAN,          \* armed timers
  token: {"good", "bad", NoToken},  \* quoteToken
  feed: States,                     \* feedState
  reconciling: {"no", "universe", "credentials"},
  needed: BOOLEAN,                  \* reconcileNeeded
  universe: SUBSET Symbols, fresh: BOOLEAN]                    \* publishedUniverse

FeedTypeOK == relay \in Relay /\ failures \in 0..MaxFailures /\ starts \in 0..MaxRejoins

Nothing == [t \in FeedTypes |-> {}]

Initially(readers, alarm) == [
  readers |-> readers, reading |-> {}, up |-> NoLink, open |-> FALSE, broken |-> FALSE,
  linkToken |-> "good", alive |-> {}, late |-> {}, auth |-> "awaiting", opened |-> {},
  configured |-> {}, subscribed |-> Nothing, served |-> Nothing, keepalive |-> FALSE,
  setup |-> FALSE, alarm |-> alarm, token |-> NoToken, feed |-> "connecting",
  reconciling |-> "no", needed |-> FALSE, universe |-> {}, fresh |-> FALSE]

Away == [state |-> "away", asks |-> {}, told |-> "nothing"]

FeedInit == /\ relay = Initially([r \in Readers |-> Away], FALSE)
        /\ failures = 0
        /\ starts = 0

(***************************************************************************)
(* Demand                                                                  *)
(***************************************************************************)

\* getWebSockets: a reader that crashed is still among them, and one this side
\* closed stays listed ("closing") or not ("gone") until its close event.
Sockets(m) == {r \in Readers : m.readers[r].state \in {"open", "silent", "closing"}}

\* The sockets on which a send does not throw.
Hearing(m) == {r \in Readers : m.readers[r].state \in {"open", "silent"}}

DownstreamDemand(m) == UNION {m.readers[r].asks : r \in Sockets(m)}
Askers(m, x) == Cardinality({r \in Sockets(m) : x \in m.readers[r].asks})

\* The order of a cut: published names, then the most asked for, then by name.
RankedBefore(m, x, y) ==
  \/ x \in m.universe /\ y \notin m.universe
  \/ /\ x \in m.universe <=> y \in m.universe
     /\ \/ Askers(m, x) > Askers(m, y)
        \/ Askers(m, x) = Askers(m, y) /\ x < y

Crowded(m) == Cardinality(DownstreamDemand(m)) > MaxRelayed

RelayedDownstream(m) ==
  {x \in DownstreamDemand(m) :
     Cardinality({y \in DownstreamDemand(m) : RankedBefore(m, y, x)}) < MaxRelayed}

IsTruncated(m, r) == ~(m.readers[r].asks \subseteq RelayedDownstream(m))

ReadDemand(m, type) == UNION {ReadSymbols[q] : q \in {p \in m.reading : ReadType[p] = type}}

\* desiredSymbols, and desiredSubscriptions keyed by streamer symbol.
Desired(m, type) ==
  ReadDemand(m, type) \cup IF type \in StreamTypes THEN RelayedDownstream(m) ELSE {}

HasDemand(m) == RelayedDownstream(m) # {} \/ m.reading # {}

DemandIsConfigured(m) == \A t \in FeedTypes : Desired(m, t) = {} \/ t \in m.configured

(***************************************************************************)
(* Statuses                                                                *)
(***************************************************************************)

\* Mutant: a cut reader is told what every reader is told.
StatusUncut(m, r, state) == state

StatusFor(m, r, state) == IF state = "live" /\ IsTruncated(m, r) THEN "degraded" ELSE state

Tell(m, r, state) == [m EXCEPT !.readers[r].told = StatusFor(m, r, state)]

BroadcastStatus(m, state) ==
  [m EXCEPT !.feed = state,
            !.readers = [r \in Readers |->
              IF r \in Hearing(m) THEN [@[r] EXCEPT !.told = StatusFor(m, r, state)] ELSE @[r]]]

ReportTruncation(m) ==
  IF ~Crowded(m) THEN m
  ELSE [m EXCEPT !.readers = [r \in Readers |->
         IF r \in Hearing(m) /\ IsTruncated(m, r) THEN [@[r] EXCEPT !.told = "degraded"] ELSE @[r]]]

(***************************************************************************)
(* The upstream connection                                                 *)
(***************************************************************************)

\* A connection that is gone serves nothing.
ResetUpstreamState(m) ==
  [m EXCEPT !.up = NoLink, !.open = FALSE, !.broken = FALSE, !.opened = {}, !.configured = {},
            !.subscribed = Nothing, !.served = Nothing, !.keepalive = FALSE, !.setup = FALSE]

\* socket.close by this side; the close event comes later.
CloseLink(m) == [m EXCEPT !.alive = @ \ {m.up}, !.late = @ \cup {m.up}]

\* Mutants: a reconnect is not scheduled; the readers are not told; the close
\* of any socket is taken for the current one's.
CloseWithoutReconnect(m, link) ==
  IF link # m.up THEN m
  ELSE LET n == ResetUpstreamState([m EXCEPT !.token = IF m.auth = "authorized" THEN @ ELSE NoToken])
       IN IF HasDemand(n) THEN BroadcastStatus(n, "reconnecting") ELSE [n EXCEPT !.alarm = FALSE]
CloseUnannounced(m, link) ==
  IF link # m.up THEN m ELSE [ResetUpstreamState(m) EXCEPT !.alarm = HasDemand(m)]
CloseOfAnyLink(m, link) ==
  LET n == ResetUpstreamState(m)
  IN IF HasDemand(n) THEN [BroadcastStatus(n, "reconnecting") EXCEPT !.alarm = TRUE]
     ELSE [n EXCEPT !.alarm = FALSE]

\* A handshake that ended before AUTHORIZED makes its token suspect.
HandleUpstreamClose(m, link) ==
  IF link # m.up THEN m
  ELSE LET n == ResetUpstreamState([m EXCEPT !.token = IF m.auth = "authorized" THEN @ ELSE NoToken])
       IN IF HasDemand(n) THEN [BroadcastStatus(n, "reconnecting") EXCEPT !.alarm = TRUE]
          ELSE [n EXCEPT !.alarm = FALSE]

CloseUpstream(m) == HandleUpstreamClose(CloseLink(m), m.up)

\* Mutant: a socket is closed though there is none.
StopWithoutLooking(m) == [ResetUpstreamState(CloseLink(m)) EXCEPT !.alarm = FALSE]

StopUpstream(m) ==
  [ResetUpstreamState(IF m.up = NoLink THEN m ELSE CloseLink(m)) EXCEPT !.alarm = FALSE]

FailProtocol(m) ==
  LET n == CloseUpstream(BroadcastStatus(m, "degraded"))
  IN IF HasDemand(n) THEN BroadcastStatus(n, "degraded") ELSE n

\* sendToUpstream: a send that throws closes the connection.
Sent(m, then) == IF m.broken THEN CloseUpstream(m) ELSE then

\* Mutant: what nobody wants any more is not removed.
SyncAdditions(m) ==
  LET told == [t \in FeedTypes |->
                IF t \in m.opened THEN m.served[t] \cup (Desired(m, t) \ m.subscribed[t]) ELSE m.served[t]]
      next == [t \in FeedTypes |-> IF t \in m.opened THEN Desired(m, t) ELSE m.subscribed[t]]
  IN IF told = m.served THEN m ELSE Sent(m, [m EXCEPT !.subscribed = next, !.served = told])

\* One FEED_SUBSCRIPTION per opened channel, of what changed since the last.
SyncSubscriptions(m) ==
  LET changed == {t \in m.opened : Desired(m, t) # m.subscribed[t]}
      told == [t \in FeedTypes |->
                IF t \in changed
                THEN (m.served[t] \cup (Desired(m, t) \ m.subscribed[t]))
                       \ (m.subscribed[t] \ Desired(m, t))
                ELSE m.served[t]]
      next == [t \in FeedTypes |-> IF t \in m.opened THEN Desired(m, t) ELSE m.subscribed[t]]
  IN IF changed = {} THEN m
     ELSE Sent(m, [m EXCEPT !.subscribed = next, !.served = told])

(***************************************************************************)
(* reconcile: at most one run at a time; a run that finds it was asked for  *)
(* meanwhile is followed by another at once, before any other callback.     *)
(***************************************************************************)

Finish(m) == [m EXCEPT !.reconciling = "no"]

FreshLink(m) ==
  LET unheard == Links \ (m.late \cup {m.up})
  IN CHOOSE l \in Links : l # m.up /\ (unheard # {} => l \in unheard)

\* openUpstream after its token: demand or a connection may have changed.
OpenUpstream(m) ==
  IF ~HasDemand(m) \/ m.up # NoLink THEN Finish(ReportTruncation(m))
  ELSE LET l == FreshLink(m)
       IN Finish(ReportTruncation(
            [m EXCEPT !.up = l, !.open = FALSE, !.broken = FALSE, !.linkToken = m.token,
                      !.alive = @ \cup {l}, !.late = @ \ {l}, !.auth = "awaiting",
                      !.opened = {}, !.configured = {}, !.setup = TRUE]))

\* Mutant: a connection that is still opening is not stopped.
StopOnlyOpen(m) ==
  IF ~HasDemand(m) THEN Finish(IF m.up # NoLink /\ ~m.open THEN m ELSE StopUpstream(m))
  ELSE IF m.up # NoLink
       THEN Finish(ReportTruncation(IF m.open /\ m.opened # {} THEN SyncSubscriptions(m) ELSE m))
       ELSE LET n == BroadcastStatus(m, "connecting")
            IN IF n.token = NoToken THEN [n EXCEPT !.reconciling = "credentials"] ELSE OpenUpstream(n)

\* The rest of reconcileOnce, once the universe needs no read.
ConnectAndSync(m) ==
  IF ~HasDemand(m) THEN Finish(StopUpstream(m))
  ELSE IF m.up # NoLink
       THEN Finish(ReportTruncation(IF m.open /\ m.opened # {} THEN SyncSubscriptions(m) ELSE m))
       ELSE LET n == BroadcastStatus(m, "connecting")
            IN IF n.token = NoToken THEN [n EXCEPT !.reconciling = "credentials"] ELSE OpenUpstream(n)

ReconcileOnce(m) ==
  LET n == [m EXCEPT !.needed = FALSE]
  IN IF Crowded(n) /\ ~n.fresh THEN [n EXCEPT !.reconciling = "universe"] ELSE ConnectAndSync(n)

Settle(m) == IF m.reconciling = "no" /\ m.needed THEN ReconcileOnce(m) ELSE m

Reconcile(m) ==
  IF m.reconciling = "no" THEN ReconcileOnce(m) ELSE [m EXCEPT !.needed = TRUE]

(***************************************************************************)
(* Readers and reads                                                       *)
(***************************************************************************)

Becomes(m) == relay' = m /\ UNCHANGED <<failures, starts>>

Fault(m) == failures < MaxFailures /\ failures' = failures + 1 /\ relay' = m /\ UNCHANGED starts

Starting == starts < MaxRejoins /\ starts' = starts + 1 /\ UNCHANGED failures

\* fetch: the socket is accepted, told the current state, and reconciled for.
ReaderJoins(r) ==
  /\ relay.readers[r].state = "away" /\ Starting
  /\ \E asks \in (SUBSET Symbols) \ {{}} :
       LET m == [relay EXCEPT !.readers[r] = [state |-> "open", asks |-> asks, told |-> "nothing"]]
       IN relay' = Reconcile(Tell(m, r, m.feed))

ReaderResubscribes(r) ==
  /\ relay.readers[r].state = "open" /\ Starting
  /\ \E asks \in (SUBSET Symbols) \ {{}, relay.readers[r].asks} :
       relay' = Reconcile([relay EXCEPT !.readers[r].asks = asks])

\* A frame that is no subscription: told degraded and closed from this side.
ReaderRefused(r) ==
  /\ relay.readers[r].state = "open"
  /\ \E closed \in {"closing", "gone"} :
       Becomes([relay EXCEPT !.readers[r].state = closed, !.readers[r].told = "degraded"])

\* webSocketClose and webSocketError
ReaderCloses(r) ==
  /\ relay.readers[r].state \in {"open", "closing", "gone"}
  /\ Becomes(Reconcile([relay EXCEPT !.readers[r] = Away]))

\* A browser dies without a close frame.
ReaderCrashes(r) ==
  /\ relay.readers[r].state = "open"
  /\ Becomes([relay EXCEPT !.readers[r].state = "silent"])

ReadStarts(q) ==
  /\ q \notin relay.reading /\ Starting
  /\ relay' = Reconcile([relay EXCEPT !.reading = @ \cup {q}])

\* Its symbols were delivered, or its timeout fired; either way it is released.
ReadEnds(q) ==
  /\ q \in relay.reading
  /\ Becomes(Reconcile([relay EXCEPT !.reading = @ \ {q}]))

(***************************************************************************)
(* The continuations of reconcile, the alarm and the timers                *)
(***************************************************************************)

\* refreshPublishedUniverse: a failed read keeps the copy and counts as one.
UniverseRead ==
  /\ relay.reconciling = "universe"
  /\ \E copy \in {Published, relay.universe} :
       Becomes(Settle(ConnectAndSync([relay EXCEPT !.universe = copy, !.fresh = TRUE])))

CredentialsLoaded ==
  /\ relay.reconciling = "credentials"
  /\ Becomes(Settle(OpenUpstream([relay EXCEPT !.token = "good"])))

AlarmFires ==
  /\ relay.alarm
  /\ Becomes(Reconcile([relay EXCEPT !.alarm = FALSE]))

\* The setup timeout.  A handshake slower than it is counted among the faults.
SetupTimesOut ==
  /\ relay.setup
  /\ LET m == [relay EXCEPT !.setup = FALSE]
     IN IF DemandIsConfigured(m) THEN Becomes(m) ELSE Fault(CloseUpstream(m))

\* Mutant: the sweep is left out.
BeatsWithoutSweep == relay.keepalive /\ Becomes(Sent(relay, relay))

\* The keepalive interval: a beat upstream, and the readers that fell silent go.
KeepaliveBeats ==
  /\ relay.keepalive
  /\ \E closed \in {"closing", "gone"} :
       LET m == Sent(relay, relay)
           silent == {r \in Readers : m.readers[r].state = "silent"}
           reaped == [m EXCEPT !.readers = [r \in Readers |->
                        IF r \in silent THEN [@[r] EXCEPT !.state = closed] ELSE @[r]]]
       IN Becomes(IF silent = {} THEN m ELSE Reconcile(reaped))

(***************************************************************************)
(* Upstream callbacks                                                      *)
(***************************************************************************)

LinkOpens ==
  /\ relay.up # NoLink /\ ~relay.open
  /\ Becomes(LET m == [relay EXCEPT !.open = TRUE] IN Sent(m, m))

\* The first UNAUTHORIZED says nothing about the token.
InitialUnauthorized ==
  /\ relay.open /\ relay.auth = "awaiting"
  /\ Becomes([relay EXCEPT !.auth = "initial-unauthorized"])

\* The channels are requested and the keepalive interval starts.
Authorized ==
  /\ relay.open /\ relay.auth # "authorized" /\ relay.linkToken = "good"
  /\ Becomes(LET m == [relay EXCEPT !.auth = "authorized", !.keepalive = FALSE]
             IN Sent(m, [m EXCEPT !.keepalive = TRUE]))

\* The second UNAUTHORIZED is the answer to AUTH.
AuthorizationFails ==
  /\ relay.open /\ relay.auth = "initial-unauthorized" /\ relay.linkToken = "bad"
  /\ Becomes(FailProtocol([relay EXCEPT !.token = NoToken]))

ChannelOpened(t) ==
  /\ relay.auth = "authorized" /\ relay.keepalive /\ t \notin relay.opened
  /\ Becomes(LET m == [relay EXCEPT !.opened = @ \cup {t}, !.configured = @ \ {t}]
             IN IF m.broken THEN CloseUpstream(m) ELSE Reconcile(m))

\* Mutant: idle channels are waited for.
LiveWhenAllConfigured(t) ==
  /\ t \in relay.opened /\ t \notin relay.configured
  /\ Becomes(LET m == [relay EXCEPT !.configured = @ \cup {t}]
             IN IF m.configured = FeedTypes THEN BroadcastStatus([m EXCEPT !.setup = FALSE], "live") ELSE m)

\* A config that carries the layout.
FeedConfig(t) ==
  /\ t \in relay.opened /\ t \notin relay.configured
  /\ Becomes(LET m == [relay EXCEPT !.configured = @ \cup {t}]
             IN IF DemandIsConfigured(m) THEN BroadcastStatus([m EXCEPT !.setup = FALSE], "live") ELSE m)

\* The close event of a socket, current or long since replaced.
LateClose(l) ==
  /\ l \in relay.late
  /\ Becomes(HandleUpstreamClose([relay EXCEPT !.late = @ \ {l}], l))

(***************************************************************************)
(* Faults                                                                  *)
(***************************************************************************)

\* The connection ends from the other side.
LinkCloses ==
  /\ relay.up # NoLink
  /\ Fault(HandleUpstreamClose([relay EXCEPT !.alive = @ \ {relay.up}], relay.up))

LinkBreaks == relay.open /\ ~relay.broken /\ Fault([relay EXCEPT !.broken = TRUE])

\* An ERROR, a closed channel or a frame the parser refuses.
BadFrame == relay.open /\ Fault(FailProtocol(relay))

\* Mutant: nothing is scheduled after the failure.
CredentialsFailForGood ==
  /\ relay.reconciling = "credentials"
  /\ Fault(Settle(Finish(ReportTruncation(BroadcastStatus(relay, "degraded")))))

CredentialsFail ==
  /\ relay.reconciling = "credentials"
  /\ LET m == BroadcastStatus(relay, "degraded")
     IN Fault(Settle(Finish(ReportTruncation(IF HasDemand(m) THEN [m EXCEPT !.alarm = TRUE] ELSE m))))

\* The provider revokes the cached token before its time to live.
TokenRevoked == relay.token = "good" /\ Fault([relay EXCEPT !.token = "bad"])

TokenExpires == relay.token # NoToken /\ Fault([relay EXCEPT !.token = NoToken])

UniverseAges == relay.fresh /\ Fault([relay EXCEPT !.fresh = FALSE])

\* The object restarts with its hibernated sockets and its alarm.
Restarts ==
  LET m == Initially(relay.readers, relay.alarm)
  IN Fault(IF Sockets(m) = {} THEN m ELSE Reconcile(m))

Faults == \/ LinkCloses \/ LinkBreaks \/ BadFrame \/ CredentialsFail
          \/ TokenRevoked \/ TokenExpires \/ UniverseAges \/ Restarts

FeedNext ==
  \/ \E r \in Readers : \/ ReaderJoins(r) \/ ReaderResubscribes(r) \/ ReaderRefused(r)
                        \/ ReaderCloses(r) \/ ReaderCrashes(r)
  \/ \E q \in Reads : ReadStarts(q) \/ ReadEnds(q)
  \/ UniverseRead \/ CredentialsLoaded
  \/ AlarmFires \/ SetupTimesOut \/ KeepaliveBeats
  \/ LinkOpens \/ InitialUnauthorized \/ Authorized \/ AuthorizationFails
  \/ \E t \in FeedTypes : ChannelOpened(t) \/ FeedConfig(t)
  \/ \E l \in Links : LateClose(l)
  \/ Faults

FeedSpec == FeedInit /\ [][FeedNext]_feedVars

\* The platform runs promises, alarms and timers; dxLink answers a handshake
\* and configures a channel it serves; a reader closed from this side closes.
FeedFairness ==
  /\ WF_feedVars(UniverseRead) /\ WF_feedVars(CredentialsLoaded)
  /\ WF_feedVars(AlarmFires) /\ WF_feedVars(KeepaliveBeats)
  /\ WF_feedVars(LinkOpens) /\ WF_feedVars(InitialUnauthorized)
  /\ WF_feedVars(Authorized) /\ WF_feedVars(AuthorizationFails)
  /\ \A t \in FeedTypes :
       WF_feedVars(ChannelOpened(t)) /\ WF_feedVars(relay.served[t] # {} /\ FeedConfig(t))
  /\ \A r \in Readers : WF_feedVars(relay.readers[r].state \in {"closing", "gone"} /\ ReaderCloses(r))
  /\ \A q \in Reads : WF_feedVars(ReadEnds(q))

FeedFairSpec == FeedSpec /\ FeedFairness

(***************************************************************************)
(* Properties                                                              *)
(***************************************************************************)

\* No reconcile runs or is owed, and no close event is still to come.
AtRest == /\ relay.reconciling = "no"
          /\ \A r \in Readers : relay.readers[r].state \notin {"closing", "gone"}

\* However demand changed while a reconcile was under way, once it is over the
\* connection is asked for exactly what the readers and reads want: no
\* subscription is missing, none leaks (syncSubscriptions, reconcileNeeded).
SubscriptionsMatchDemand ==
  AtRest => \A t \in relay.opened : relay.served[t] = Desired(relay, t)

\* The relay does not stream for nobody: whenever the last demand goes, even
\* while the quote token or the universe is awaited, the connection is closed
\* (hasDemand, stopUpstream).
NoIdleUpstream == AtRest /\ ~HasDemand(relay) => relay.up = NoLink

\* Demand is never left with neither a connection nor a reconnect under way
\* (handleUpstreamClose, scheduleReconnect).
DemandPursued == AtRest /\ HasDemand(relay) => relay.up # NoLink \/ relay.alarm

\* Demand decides whether the relay runs, and on what: the three above.
DemandFollowed == SubscriptionsMatchDemand /\ NoIdleUpstream /\ DemandPursued

\* The only socket left open is the current one: one that was replaced, stopped
\* or failed is closed, whatever late events it still delivers.
OneLink == relay.alive \subseteq {relay.up}

\* A reader missing part of its subscription is never told the feed is live.
CutReaderNotLive ==
  AtRest => \A r \in Hearing(relay) :
    IsTruncated(relay, r) => relay.readers[r].told # "live"

\* A reader told that the feed is live has every demanded channel configured
\* on an authorized connection (demandIsConfigured).
LiveIsTrue ==
  AtRest => \A r \in Hearing(relay) : relay.readers[r].told = "live" =>
    relay.up # NoLink /\ relay.auth = "authorized" /\ DemandIsConfigured(relay)

\* No reader is left believing in a connection that is gone: whichever way it
\* ended, every reader told that the feed is live has been told otherwise.
LiveMeansLinked ==
  AtRest => \A r \in Hearing(relay) : relay.readers[r].told = "live" =>
    relay.up # NoLink /\ relay.auth = "authorized"

\* Whatever is told, opened and closed: the shapes, one link, and no reader told the
\* feed is live that is cut from it or has no connection.
FeedInv == FeedTypeOK /\ OneLink /\ CutReaderNotLive /\ LiveMeansLinked

\* A channel nobody wants any more does not hold the feed in setup: once every
\* demanded channel is configured the readers have been told it is live.
SetupEnds ==
  AtRest /\ relay.up # NoLink /\ HasDemand(relay) /\ DemandIsConfigured(relay)
    => relay.feed = "live"

\* Once faults end, a reader that stays is eventually told the feed is live.
RecoversLive ==
  \A r \in Readers :
    relay.readers[r].state = "open" ~>
      relay.readers[r].state # "open" \/ relay.readers[r].told = "live"

\* A reader that died without a close frame does not keep its demand for ever.
SilentReaderDropped ==
  \A r \in Readers : relay.readers[r].state = "silent" ~> relay.readers[r].state # "silent"
==============================================================================
