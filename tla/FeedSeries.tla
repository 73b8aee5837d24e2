----------------------------- MODULE FeedSeries -----------------------------
(***************************************************************************)
(* What travels on the relay's connection: the rows of a candle channel    *)
(* that carries a day of five-minute bars for the charts of browsers and a *)
(* year of daily ones for one-shot reads, and of the Greeks channel.       *)
(*                                                                         *)
(* A snapshot is a transaction: a BEGIN row, a run of rows, an END row.    *)
(* The year's is assembled at the relay, the chart's in each browser, and  *)
(* the relay keeps what it has forwarded for browsers that join later.     *)
(* MarketFeed says when the connection is up and reconciled; here its      *)
(* subscriptions follow demand some time after it changed.  A batch is     *)
(* taken row by row and each stream has a queue of its own: the rows of a  *)
(* batch's years are taken before those of its charts, and nothing that is *)
(* kept is of two streams, so this only adds interleavings.                *)
(***************************************************************************)
EXTENDS Integers, FiniteSets, Sequences

CONSTANTS
  Series,        \* symbols with candles
  Bare,          \* those the venue has no history for
  Watched,       \* those the browsers' charts show
  Contracts,     \* option contracts
  YearReads, GreeksReads, ReadNames,   \* one-shot reads, and what each names
  Browsers,
  Bars,          \* a snapshot's rows; their times are 1..Bars and the newest is sent first
  Limit,         \* CANDLE_PERIOD_LIMITS: bars a series keeps
  EndRows,       \* how an intraday snapshot ends: "priced", "pending" or "quiet"
  MaxSnapshots, MaxTicks, MaxDrops, MaxJoins   \* bounds

ASSUME SeriesAssumption ==
  /\ Bare \subseteq Series /\ Watched \subseteq Series
  /\ Series \cap Contracts = {} /\ YearReads \cap GreeksReads = {}
  /\ \A q \in YearReads : ReadNames[q] # {} /\ ReadNames[q] \subseteq Series
  /\ \A q \in GreeksReads : ReadNames[q] # {} /\ ReadNames[q] \subseteq Contracts
  /\ Bars \in Nat \ {0, 1} /\ Limit \in 2..Bars
  /\ EndRows \subseteq {"priced", "pending", "quiet"} /\ EndRows # {}

Reads == YearReads \cup GreeksReads

\* What the connection can be asked for: a chart's day, a read's year, a contract's Greeks.
Stream(n, period) == [name |-> n, period |-> period]
Streams == {Stream(n, "intraday") : n \in Watched} \cup {Stream(n, "daily") : n \in Series}
             \cup {Stream(n, "greeks") : n \in Contracts}

VARIABLES
  streams,      \* the streams the connection was asked for
  up,          \* the connection is configured
  wire,        \* of each stream, the rows sent and not yet received
  owed,        \* demand changed since the last reconcile
  relay,       \* the relay's memory: reads, pending years, cached candles
  browsers,    \* each browser's socket and chart
  sent,        \* history: snapshots sent, which is also the version they carry
  ticks, drops, joins   \* history: how much of each bound is used

seriesVars == <<streams, up, wire, owed, relay, browsers, sent, ticks, drops, joins>>

\* A row: its snapshot flags, its bar's time, and a close or none.
Row(flags, time, close) == [flags |-> flags, time |-> time, close |-> close]
NoClose == 0
NewClose == 99

(***************************************************************************)
(* Candle series                                                           *)
(***************************************************************************)

Newest(points) == {p \in points : Cardinality({r \in points : r.time > p.time}) < Limit}

UpdateCandleSeries(current, row) ==
  LET others == {p \in current : p.time # row.time}
  IN Newest(IF "remove" \in row.flags THEN others
            ELSE others \cup {[time |-> row.time, close |-> row.close]})

NotOpen == [open |-> FALSE, endSeen |-> FALSE, points |-> {}]

\* CandleSnapshotAccumulator.accept: the buffer a row leaves, and whether it closed it.
Buffered(buffer, row) ==
  LET begun == IF "begin" \in row.flags THEN [NotOpen EXCEPT !.open = TRUE] ELSE buffer
  IN [begun EXCEPT !.points = UpdateCandleSeries(@, row),
                   !.endSeen = @ \/ "end" \in row.flags]
Opens(buffer, row) == buffer.open \/ "begin" \in row.flags
Closes(buffer, row) == Buffered(buffer, row).endSeen /\ "pending" \notin row.flags

(***************************************************************************)
(* SymbolWaitRegistry                                                      *)
(***************************************************************************)

Waiting(m) == {q \in Reads : m.reads[q].state = "waiting"}
Registered(m) == {q \in Reads : m.reads[q].state # "away"}
IsDemanded(m, n) == \E q \in Registered(m) : n \in ReadNames[q]

NothingYet == [n \in {} |-> {}]
Away == [state |-> "away", received |-> NothingYet]

\* Each waiting read that named it keeps the value, and is settled by its last.
Deliver(m, n, value) ==
  [m EXCEPT !.reads = [q \in Reads |->
     IF q \notin Waiting(m) \/ n \notin ReadNames[q] THEN @[q]
     ELSE LET received == [x \in DOMAIN @[q].received \cup {n} |->
                             IF x = n THEN value ELSE @[q].received[x]]
          IN [state |-> IF DOMAIN received = ReadNames[q] THEN "answered" ELSE "waiting",
              received |-> received]]]

\* Mutant: the half-delivered year stays behind.
Remembered(m) == m

\* onForget: the last read of a symbol takes its half-delivered year with it.
Forget(m) ==
  [m EXCEPT !.pending = [n \in Series |-> IF IsDemanded(m, n) THEN @[n] ELSE NotOpen]]

Released(m, q) == Forget([m EXCEPT !.reads[q] = Away])

(***************************************************************************)
(* Rows at the relay                                                       *)
(***************************************************************************)

\* DailyCandleRequestRegistry.accept
AcceptDaily(m, n, row) ==
  IF ~IsDemanded(m, n) \/ ~Opens(m.pending[n], row) THEN m
  ELSE LET buffer == Buffered(m.pending[n], row)
       IN IF Closes(m.pending[n], row)
          THEN Deliver([m EXCEPT !.pending[n] = NotOpen], n, buffer.points)
          ELSE [m EXCEPT !.pending[n] = buffer]

\* eventFromRow: a row with neither a close nor a removal publishes nothing,
\* nor does one without an instant.
Publishes(row) == row.time # 0 /\ ("remove" \in row.flags \/ row.close # NoClose)

\* acceptDailyRow: the flags of such a row still open or close a year.
DailyRow(m, n, row) ==
  IF Publishes(row) THEN AcceptDaily(m, n, row)
  ELSE IF row.flags \cap {"begin", "end"} = {} THEN m
  ELSE AcceptDaily(m, n, [row EXCEPT !.flags = @ \cup {"remove"}])

CacheCandle(m, n, row) ==
  LET current == IF "begin" \in row.flags THEN {} ELSE m.cache[n]
  IN [m EXCEPT !.cache[n] = UpdateCandleSeries(current, row)]

RowAtRelay(m, s, row) ==
  CASE s.period = "greeks" -> Deliver(m, s.name, {row.close})
    [] s.period = "daily" -> DailyRow(m, s.name, row)
    [] s.period = "intraday" -> IF Publishes(row) THEN CacheCandle(m, s.name, row) ELSE m

(***************************************************************************)
(* Rows at a browser                                                       *)
(***************************************************************************)

Attached == {b \in Browsers : browsers[b].socket # "none"}

\* applyLiveMarketEvent, the candle of an event
Drawn(c, n, row) ==
  IF ~Opens(c.buffer[n], row) THEN [c EXCEPT !.chart[n] = UpdateCandleSeries(@, row)]
  ELSE LET buffer == Buffered(c.buffer[n], row)
       IN IF ~Closes(c.buffer[n], row) THEN [c EXCEPT !.buffer[n] = buffer]
          ELSE [c EXCEPT !.buffer[n] = NotOpen,
                         !.chart[n] = IF buffer.points = {} THEN @ ELSE buffer.points]

\* Mutant: what the browser was assembling is kept.
ReplayedOver(c, m) ==
  [c EXCEPT !.chart = [n \in Watched |-> IF m.cache[n] = {} THEN @[n] ELSE m.cache[n]]]

\* replayCandles at the relay, and the candleSnapshot of an event at the browser
Replayed(c, m) ==
  [c EXCEPT !.buffer = [n \in Watched |-> IF m.cache[n] = {} THEN @[n] ELSE NotOpen],
            !.chart = [n \in Watched |-> IF m.cache[n] = {} THEN @[n] ELSE m.cache[n]]]

(***************************************************************************)
(* The connection                                                          *)
(***************************************************************************)

\* desiredSubscriptions
Desired ==
  {Stream(n, "intraday") : n \in IF Attached = {} THEN {} ELSE Watched}
    \cup {Stream(n, "daily") : n \in UNION {ReadNames[q] : q \in Registered(relay) \cap YearReads}}
    \cup {Stream(n, "greeks") : n \in UNION {ReadNames[q] : q \in Registered(relay) \cap GreeksReads}}

EmptySnapshot == <<Row({"begin", "end", "remove"}, 0, NoClose)>>

\* Newest first; the last row closes it, or closes it in a batch still pending
\* that one more row completes, or a row of its own without a price does.
FullSnapshot(end, v) ==
  LET bars(flags) == [i \in 1..Bars |->
        Row(IF i = 1 THEN {"begin"} ELSE IF i = Bars THEN flags ELSE {}, Bars + 1 - i, v)]
  IN CASE end = "priced" -> bars({"end"})
       [] end = "pending" -> Append(bars({"end", "pending"}), Row({}, 1, v))
       [] end = "quiet" -> Append(bars({}), Row({"end"}, 0, NoClose))

Snapshot(s, end, observed, v) ==
  IF s.period = "greeks" THEN IF observed THEN <<Row({}, Bars, v)>> ELSE <<>>
  ELSE IF s.name \in Bare THEN EmptySnapshot
  ELSE FullSnapshot(IF s.period = "intraday" THEN end ELSE "priced", v)

Quiet == [s \in Streams |-> <<>>]

\* A stream that is added begins anew behind what is left of it; of one that is
\* removed the upstream has sent what it has sent.
Resubscribed(gone, cut, end, observed) ==
  [s \in Streams |-> IF s \in gone THEN SubSeq(wire[s], 1, cut[s])
                     ELSE IF s \in Desired \ streams
                          THEN wire[s] \o Snapshot(s, end, observed, sent + 1)
                          ELSE wire[s]]

\* reconcile over a configured connection: one frame of what changed.  Without
\* demand the connection is stopped.
Sync ==
  /\ owed /\ owed' = FALSE
  /\ \/ /\ Desired = {}
        /\ up' = FALSE /\ streams' = {} /\ wire' = Quiet /\ UNCHANGED sent
     \/ /\ Desired # {} /\ up /\ UNCHANGED up
        /\ LET gone == {s \in Streams \ Desired : wire[s] # <<>>}
           IN \E cut \in [gone -> UNION {0..Len(wire[s]) : s \in gone}], end \in EndRows, observed \in BOOLEAN :
                /\ \A s \in gone : cut[s] <= Len(wire[s])
                /\ wire' = Resubscribed(gone, cut, end, observed)
        /\ Desired \ streams # {} => sent < MaxSnapshots
        /\ streams' = Desired
        /\ sent' = IF Desired \ streams = {} THEN sent ELSE sent + 1
  /\ UNCHANGED <<relay, browsers, ticks, drops, joins>>

\* The channels of a new connection are configured.
Connects ==
  /\ ~up /\ Desired # {}
  /\ up' = TRUE /\ owed' = TRUE
  /\ UNCHANGED <<streams, wire, relay, browsers, sent, ticks, drops, joins>>

\* handleUpstreamClose: half-delivered years are dropped.
Dropped(m) == [m EXCEPT !.pending = [n \in Series |-> NotOpen]]

\* What is on the wire is lost: a frame whose last row is refused ends the
\* connection with its years taken and its charts not.
ConnectionEnds ==
  /\ up /\ drops < MaxDrops /\ drops' = drops + 1
  /\ up' = FALSE /\ streams' = {} /\ wire' = Quiet
  /\ relay' = Dropped(relay)
  /\ UNCHANGED <<owed, browsers, sent, ticks, joins>>

\* A row arrives: the relay takes it, and an intraday bar goes to every browser.
RowArrives(s) ==
  /\ wire[s] # <<>> /\ wire' = [wire EXCEPT ![s] = Tail(@)]
  /\ relay' = RowAtRelay(relay, s, Head(wire[s]))
  /\ browsers' = [b \in Browsers |->
       IF b \in Attached /\ s.period = "intraday" /\ Publishes(Head(wire[s]))
       THEN Drawn(browsers[b], s.name, Head(wire[s])) ELSE browsers[b]]
  /\ UNCHANGED <<streams, up, owed, sent, ticks, drops, joins>>

\* The market moves: the newest bar changes, is corrected away, or has no price,
\* behind what is left of a snapshot.
MarketTicks(s) ==
  /\ ticks < MaxTicks /\ ticks' = ticks + 1
  /\ s \in streams /\ s.period # "greeks" /\ s.name \notin Bare
  /\ \E change \in {"price", "removal", "quiet"} :
       wire' = [wire EXCEPT ![s] = Append(@, Row(IF change = "removal" THEN {"remove"} ELSE {}, Bars,
                                                 IF change = "price" THEN NewClose ELSE NoClose))]
  /\ UNCHANGED <<streams, up, owed, relay, browsers, sent, drops, joins>>

(***************************************************************************)
(* Reads and browsers                                                      *)
(***************************************************************************)

Joining == joins < MaxJoins /\ joins' = joins + 1

\* readOptionGreeks, readDailyCandles
Register(q) ==
  /\ relay.reads[q].state = "away" /\ Joining
  /\ relay' = [relay EXCEPT !.reads[q].state = "waiting"] /\ owed' = TRUE
  /\ UNCHANGED <<streams, up, wire, browsers, sent, ticks, drops>>

\* A year keeps what arrived; Greeks are all or nothing.
TimesOut(q) ==
  /\ relay.reads[q].state = "waiting"
  /\ relay' = [relay EXCEPT !.reads[q].state =
       IF q \in YearReads /\ relay.reads[q].received # NothingYet THEN "answered" ELSE "failed"]
  /\ UNCHANGED <<streams, up, wire, owed, browsers, sent, ticks, drops, joins>>

\* The caller has its answer: the lease is released.
Release(q) ==
  /\ relay.reads[q].state \in {"answered", "failed"}
  /\ relay' = Released(relay, q) /\ owed' = TRUE
  /\ UNCHANGED <<streams, up, wire, browsers, sent, ticks, drops, joins>>

\* fetch accepts the socket and reconciles, and only then replays.
Join(b) ==
  /\ browsers[b].socket = "none" /\ Joining
  /\ browsers' = [browsers EXCEPT ![b].socket = "accepted"] /\ owed' = TRUE
  /\ UNCHANGED <<streams, up, wire, relay, sent, ticks, drops>>

Replay(b) ==
  /\ browsers[b].socket = "accepted"
  /\ browsers' = [browsers EXCEPT ![b] = [Replayed(@, relay) EXCEPT !.socket = "joined"]]
  /\ UNCHANGED <<streams, up, wire, owed, relay, sent, ticks, drops, joins>>

\* A socket closes; the browser keeps its chart and what it was assembling.
Leave(b) ==
  /\ browsers[b].socket = "joined"
  /\ browsers' = [browsers EXCEPT ![b].socket = "none"] /\ owed' = TRUE
  /\ UNCHANGED <<streams, up, wire, relay, sent, ticks, drops, joins>>

SeriesInit ==
  /\ streams = {} /\ up = FALSE /\ wire = Quiet /\ owed = FALSE
  /\ relay = [reads |-> [q \in Reads |-> Away], pending |-> [n \in Series |-> NotOpen],
              cache |-> [n \in Watched |-> {}]]
  /\ browsers = [b \in Browsers |-> [socket |-> "none", buffer |-> [n \in Watched |-> NotOpen],
                                     chart |-> [n \in Watched |-> {}]]]
  /\ sent = 0 /\ ticks = 0 /\ drops = 0 /\ joins = 0

SeriesNext ==
  \/ Sync \/ Connects \/ ConnectionEnds
  \/ \E s \in Streams : RowArrives(s) \/ MarketTicks(s)
  \/ \E q \in Reads : Register(q) \/ TimesOut(q) \/ Release(q)
  \/ \E b \in Browsers : Join(b) \/ Replay(b) \/ Leave(b)

SeriesSpec == SeriesInit /\ [][SeriesNext]_seriesVars

(***************************************************************************)
(* Properties                                                              *)
(***************************************************************************)

\* The newest bars of one snapshot, or nothing for a symbol with no history.
Whole(n, points) ==
  IF n \in Bare THEN points = {}
  ELSE \E v \in 1..sent : points = {[time |-> t, close |-> v] : t \in (Bars - Limit + 1)..Bars}

\* What a one-shot read is answered with is whole: each year in it is one
\* snapshot from its BEGIN to its END, though the read came in the middle of
\* one, another read of the symbol left, or the connection ended between two
\* rows; and Greeks are answered for every contract named.
AnswersWhole ==
  /\ \A q \in YearReads : \A n \in DOMAIN relay.reads[q].received :
       Whole(n, relay.reads[q].received[n])
  /\ \A q \in GreeksReads :
       relay.reads[q].state = "answered" => DOMAIN relay.reads[q].received = ReadNames[q]

\* Nothing is on its way and every snapshot that was begun has been sent.
Settled == up /\ wire = Quiet /\ ~owed /\ \A b \in Browsers : browsers[b].socket # "accepted"

\* A browser that joined, or came back, in the middle of a snapshot ends with
\* the chart the relay has, as those that saw all of it do (replayCandles,
\* applyLiveMarketEvent).
ChartsAgree ==
  Settled => \A b \in Attached, n \in Watched \ Bare : browsers[b].chart[n] = relay.cache[n]

\* The series that are sent, in pieces and to readers that come and go, are whole
\* where they end up.
SeriesInv == AnswersWhole /\ ChartsAgree

\* A snapshot whose last row the upstream has sent is not left open in a
\* browser: its flags close it though the row has no price.
SnapshotsClose ==
  Settled => \A b \in Attached, n \in Watched : ~browsers[b].buffer[n].open
==============================================================================
