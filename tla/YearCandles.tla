------------------------------ MODULE YearCandles ------------------------------
(***************************************************************************)
(* The stored year of daily closes (scheduled-jobs.ts,                     *)
(* year-candle-store.ts): the schedule fires twice a day and the fire at   *)
(* the opening minute asks the feed for the closes of the most traded      *)
(* public symbols, then replaces the stored series in one batch.  Readers  *)
(* ask for the series of what is public at that moment and keep the answer *)
(* for as long as the page lives.                                          *)
(***************************************************************************)
EXTENDS Integers, FiniteSetsExt

CONSTANTS
  Tickers,       \* symbols, numbered in the order of the alphabet
  Traded,        \* of a symbol: its stored volume, or -1
  MaxSeries,     \* MAX_DAILY_CANDLE_SYMBOLS
  Offsets,       \* hours New York may be behind UTC
  Charts,        \* readers
  LastDay,       \* bound: market days
  MaxListings    \* bound: changes of the public list

ASSUME YearAssumption ==
  /\ Tickers \subseteq Nat /\ Traded \in [Tickers -> Int] /\ MaxSeries \in Nat \ {0}
  /\ Offsets \subseteq 0..23 /\ LastDay \in Nat /\ MaxListings \in Nat

VARIABLES
  day,
  behind,     \* New York's distance from UTC, in hours
  fires,      \* the UTC hours whose fire has come, at half past
  public,     \* the published universe
  listings,
  refresh,    \* the refresh that awaits the feed: its symbols and the day it began
  years,      \* of a symbol: the day its stored series is of
  chart,      \* of a reader: the read it is in, and the series it keeps
  passed      \* of a symbol: the last day a refresh left it out or found it has no year

yearVars == <<day, behind, fires, public, listings, refresh, years, chart, passed>>

NoSeries == 0
NoRefresh == [asked |-> {}, day |-> 0]
Unread == [step |-> "unread", of |-> {}, kept |-> {}]

YearInit ==
  /\ day = 1 /\ behind \in Offsets /\ fires = {}
  /\ public \in SUBSET Tickers /\ listings = 0
  /\ refresh = NoRefresh /\ years = [s \in Tickers |-> NoSeries]
  /\ chart = [r \in Charts |-> Unread] /\ passed = [s \in Tickers |-> 0]

(***************************************************************************)
(* The refresh                                                             *)
(***************************************************************************)

\* wrangler.jsonc's crons: 13:30 and 14:30 UTC, Monday to Friday.
FireHours == {13, 14}

\* isCashOpenMinute: half past nine in New York.
IsCashOpenMinute(utc) == utc - behind = 9

\* yearCandleSymbols: the most traded of the public symbols, then by the alphabet.
MoreTraded(s, t) == Traded[s] > Traded[t] \/ (Traded[s] = Traded[t] /\ s < t)
YearCandleSymbols == {s \in public : Cardinality({t \in public : MoreTraded(t, s)}) < MaxSeries}

\* server.ts, scheduled: at any other minute, or with nothing public, the fire does nothing.
Fires(utc) ==
  /\ utc \notin fires /\ \A earlier \in FireHours : earlier < utc => earlier \in fires
  /\ fires' = fires \cup {utc}
  /\ refresh' = IF IsCashOpenMinute(utc) /\ public # {}
                THEN [asked |-> YearCandleSymbols, day |-> day] ELSE refresh
  /\ UNCHANGED <<day, behind, public, listings, years, chart, passed>>

\* Mutant: a symbol no longer asked for keeps its row.
StillStored(asked, empty) == Tickers \ empty
\* The rows the batch does not delete.
StaysStored(asked, empty) == asked \ empty

\* replaceYearCandles.  Of the symbols asked for, a series may not have arrived, and
\* one that did may be empty: the feed has no year of the symbol.
ReplaceYearCandles ==
  /\ refresh # NoRefresh
  /\ \E arrived \in SUBSET refresh.asked : \E empty \in SUBSET arrived :
       LET stays == StaysStored(refresh.asked, empty) IN
       /\ years' = [s \in Tickers |->
            IF s \in arrived \ empty THEN refresh.day ELSE IF s \in stays THEN years[s] ELSE NoSeries]
       /\ passed' = [s \in Tickers |->
            IF s \in refresh.asked \ empty THEN passed[s] ELSE refresh.day]
  /\ refresh' = NoRefresh
  /\ UNCHANGED <<day, behind, fires, public, listings, chart>>

\* The feed or the store cannot answer: the series stored stay in place.
RefreshFails ==
  /\ refresh # NoRefresh /\ refresh' = NoRefresh
  /\ UNCHANGED <<day, behind, fires, public, listings, years, chart, passed>>

(***************************************************************************)
(* Its readers                                                             *)
(***************************************************************************)

\* api.public-year-candles: the universe is read first.
ReadsUniverse(r) ==
  /\ chart[r].step = "unread" /\ chart' = [chart EXCEPT ![r] = [step |-> "reading", of |-> public, kept |-> {}]]
  /\ UNCHANGED <<day, behind, fires, public, listings, refresh, years, passed>>

StoredSeries(names) == {s \in names : years[s] # NoSeries}

\* readYearCandleSeries: the oldest day stands for the whole answer.
SeriesAsOf(names) == Min({years[s] : s \in StoredSeries(names)})
Answer(names) == {<<s, SeriesAsOf(names)>> : s \in StoredSeries(names)}

ReadsSeries(r) ==
  /\ chart[r].step = "reading"
  /\ chart' = [chart EXCEPT ![r] = [step |-> "kept", of |-> {}, kept |-> Answer(chart[r].of)]]
  /\ UNCHANGED <<day, behind, fires, public, listings, refresh, years, passed>>

\* The request failed and is asked again on focus, or the page is loaded anew.
ReadAgain(r) ==
  /\ chart[r].step # "unread" /\ chart' = [chart EXCEPT ![r] = Unread]
  /\ UNCHANGED <<day, behind, fires, public, listings, refresh, years, passed>>

ListChanges ==
  /\ listings < MaxListings /\ listings' = listings + 1
  /\ \E s \in Tickers : public' = IF s \in public THEN public \ {s} ELSE public \cup {s}
  /\ UNCHANGED <<day, behind, fires, refresh, years, chart, passed>>

\* A read of the feed lasts seconds: no refresh sees the next morning.
NextDay ==
  /\ day < LastDay /\ fires = FireHours /\ refresh = NoRefresh
  /\ day' = day + 1 /\ fires' = {} /\ behind' \in Offsets
  /\ UNCHANGED <<public, listings, refresh, years, chart, passed>>

YearNext ==
  \/ ReplaceYearCandles \/ RefreshFails \/ ListChanges \/ NextDay
  \/ \E utc \in FireHours : Fires(utc)
  \/ \E r \in Charts : ReadsUniverse(r) \/ ReadsSeries(r) \/ ReadAgain(r)

YearSpec == YearInit /\ [][YearNext]_yearVars

\* A year served as current has been asked for by every refresh since it was stored,
\* and none of them heard that there is no such year: a symbol that leaves the list
\* and comes back, or loses its history, never shows the anchor of the day it left.
\* Missed answers and failed mornings keep it (replaceYearCandles).
AnchorsStand == \A s \in StoredSeries(Tickers) : years[s] > passed[s]
================================================================================
