---------------------------- MODULE TickerReadings -----------------------------
(***************************************************************************)
(* What a reader is shown of a symbol (tastytrade-market-normalization.ts).*)
(* One answer of the provider becomes the ticker shown at once and the     *)
(* records kept in the store; a ticker rebuilt from those records is what  *)
(* everyone is shown afterwards, days later too.  Each goes over the wire  *)
(* without its empty fields.                                               *)
(*                                                                         *)
(* Numbers are whole: percentages carry one more digit than is published,  *)
(* and a multiple of Fine has none to lose.                                *)
(***************************************************************************)
EXTENDS Integers, Sequences

CONSTANTS
  Symbols,
  Rows,       \* what the provider may report of a symbol
  Names,      \* what the instrument catalog may call one; "unnamed" is its placeholder
  Fine,       \* 10 ** -PROJECTED_DECIMAL_PLACES
  LastDay     \* bound: the last day

VARIABLES
  today,
  catalog,    \* of a symbol: its name there, or none
  stored,     \* of a symbol: its metric and quote records, or none
  told        \* of a symbol: the ticker of the build whose records these are

readingVars == <<today, catalog, stored, told>>

None == [is |-> "unreported", n |-> 0]
Malformed == [is |-> "malformed", n |-> 0]
Value(n) == [is |-> "value", n |-> n]

\* Fields by how they are read and kept.
Ratios == {"ivIndex", "ivIndex5DayChange"}
Reported == {"difference"}
Nonnegative == {"marketCap", "volume", "historicalVolatility"}
Positive == {"yearLow", "yearHigh"}
Required == {"price", "previousClose", "updatedAt"}
Fields == Ratios \cup Reported \cup Nonnegative \cup Positive \cup Required \cup {"metricsUpdatedAt"}

\* What a field of an answer may be.
Reading == {None, Malformed} \cup [is : {"value"}, n : Int]
TermReading == [expiry : {None, Malformed} \cup [is : {"value"}, n : Nat], iv : Reading, standard : BOOLEAN]

ASSUME ReadingsAssumption ==
  /\ Fine \in Nat \ {0} /\ LastDay \in Nat \ {0}
  /\ \A row \in Rows : /\ \A f \in Fields : row.fields[f] \in Reading
                       /\ row.term \in Seq(TermReading)
                       /\ row.earnings \in [visible : BOOLEAN, on : Int]

NoTerm == [front |-> 0, frontIv |-> 0, back |-> 0, backIv |-> 0]
Unstored == [fields |-> [f \in Fields |-> None], term |-> NoTerm, earnings |-> 0, has |-> FALSE]
Untold == [fields |-> [f \in Fields |-> None], term |-> NoTerm, earnings |-> 0,
           change |-> 0, percent |-> 0, name |-> "none"]

ReadingsInit ==
  /\ today = 1
  /\ catalog \in [Symbols -> Names \cup {"none"}]
  /\ stored = [s \in Symbols |-> Unstored] /\ told = [s \in Symbols |-> Untold]

(***************************************************************************)
(* Reading a row                                                           *)
(***************************************************************************)

\* Math.round of a number's published digits.
Projected(n) == ((2 * n + Fine) \div (2 * Fine)) * Fine

\* A ratio becomes percentage points; no capitalization is written as zero.
Normal(f, r) ==
  IF r.is = "value" /\ f \in Ratios THEN Value(Projected(r.n))
  ELSE IF f = "marketCap" /\ r = Value(0) THEN None ELSE r

\* The parsers of normalizeTastytradeMarketTicker: a field that is there must be believable.
Believed(f, r) ==
  /\ r # Malformed /\ (r = None => f \notin Required)
  /\ r.is = "value" => /\ f \in Nonnegative => r.n >= 0
                       /\ f \in Positive \cup Required => r.n > 0

\* Only an inverted range is a broken frame.
RangeHolds(fields) ==
  fields["yearLow"] = None \/ fields["yearHigh"] = None \/ fields["yearLow"].n <= fields["yearHigh"].n

\* A row of the term structure with no date or no volatility asserts nothing.
Complete(t) == t.expiry # None /\ t.iv # None
TermBelieved(term) ==
  \A i \in DOMAIN term :
    /\ term[i].expiry # Malformed /\ term[i].iv # Malformed
    /\ Complete(term[i]) => term[i].iv.n >= 0

\* Sorted with the standard chain first, the last row of a date stands for it.
StandsLast(t, u) == ~u.standard \/ t.standard
TermRow(term, d) ==
  LET rows == {i \in DOMAIN term : Complete(term[i]) /\ term[i].expiry.n = d}
  IN  term[CHOOSE i \in rows :
        \A j \in rows : /\ StandsLast(term[j], term[i])
                        /\ (StandsLast(term[i], term[j]) => j <= i)]

\* optionTermStructure: the two nearest dates, or nothing.
Nearest(days) == CHOOSE d \in days : \A e \in days : d <= e
TermOf(term) ==
  LET days == {term[i].expiry.n : i \in {j \in DOMAIN term : Complete(term[j])}}
      front == Nearest(days)
      back == Nearest(days \ {front})
  IN IF \A d, e \in days : d = e THEN NoTerm
     ELSE [front |-> front, frontIv |-> Projected(TermRow(term, front).iv.n),
           back |-> back, backIv |-> Projected(TermRow(term, back).iv.n)]

\* upcomingEarningsDate
Upcoming(e, day) == IF e.visible /\ e.on >= day THEN e.on ELSE 0

RowBelieved(row) ==
  /\ \A f \in Fields : Believed(f, row.fields[f])
  /\ RangeHolds(row.fields) /\ TermBelieved(row.term) /\ row.earnings.on >= 0

\* The move, which no record carries.
Change(fields) == Projected(fields["price"].n - fields["previousClose"].n)
Percent(fields) == Projected((100 * Change(fields)) \div fields["previousClose"].n)

LiveTicker(s, row) ==
  LET fields == [f \in Fields |-> Normal(f, row.fields[f])] IN
  [fields |-> fields, term |-> TermOf(row.term), earnings |-> Upcoming(row.earnings, today),
   change |-> Change(fields), percent |-> Percent(fields),
   name |-> IF catalog[s] = "unnamed" THEN row.name ELSE catalog[s]]

\* metricRecord and quoteRecord
Records(row) ==
  [fields |-> [f \in Fields |-> Normal(f, row.fields[f])], term |-> TermOf(row.term),
   earnings |-> Upcoming(row.earnings, today), has |-> TRUE]

\* Mutant: the published digits of a figure kept as the provider gave it.
RoundsEach(f, r) == IF r.is = "value" THEN Value(Projected(r.n)) ELSE r
\* projectedMetric: only of the figures that were converted.
Again(f, r) == IF r.is = "value" /\ f \in Ratios THEN Value(Projected(r.n)) ELSE r

\* tickerFromStoredRecords
StoredTicker(s, day) ==
  LET r == stored[s] IN
  [fields |-> [f \in Fields |-> Again(f, r.fields[f])],
   term |-> [r.term EXCEPT !.frontIv = Projected(@), !.backIv = Projected(@)],
   earnings |-> IF r.earnings >= day THEN r.earnings ELSE 0,
   change |-> Change(r.fields), percent |-> Percent(r.fields), name |-> catalog[s]]

\* slimPublicTicker leaves out what is empty, and tickerFromPublic puts it back.
Wire(t) == {<<f, t.fields[f]>> : f \in {g \in Fields : t.fields[g] # None}}
             \cup (IF t.earnings = 0 THEN {} ELSE {<<"earnings", Value(t.earnings)>>})
FromWire(w) ==
  [f \in Fields \cup {"earnings"} |->
     IF \E x \in w : x[1] = f THEN (CHOOSE x \in w : x[1] = f)[2] ELSE None]

(***************************************************************************)
(* A build                                                                 *)
(***************************************************************************)

\* loadAnsweredMarketFacts: one field that is not to be believed refuses the answer for every
\* symbol, as a row nobody asked for and a second one do.
Unbelievable(rows) == \E s \in DOMAIN rows : catalog[s] # "none" /\ ~RowBelieved(rows[s])

\* The symbols the provider answers for in both of its reads, and the catalog can name: the
\* others keep what they had.  One batch keeps all of it before anyone is shown it.
Build ==
  \E answered \in (SUBSET Symbols) \ {{}} : \E rows \in [answered -> Rows] :
    LET shown == {s \in answered : catalog[s] # "none"} IN
    /\ ~Unbelievable(rows) /\ shown # {}
    /\ stored' = [s \in Symbols |-> IF s \in shown THEN Records(rows[s]) ELSE stored[s]]
    /\ told' = [s \in Symbols |-> IF s \in shown THEN LiveTicker(s, rows[s]) ELSE told[s]]
    /\ UNCHANGED <<today, catalog>>

\* refreshTastytradeInstrumentCatalog, on its own schedule: a symbol it does not find gets
\* a placeholder, unless it has a name.
Catalogued ==
  /\ \E s \in Symbols, n \in Names :
       /\ n = "unnamed" => catalog[s] = "none"
       /\ catalog' = [catalog EXCEPT ![s] = n]
  /\ UNCHANGED <<today, stored, told>>

\* Midnight in New York.
DayPasses ==
  /\ today < LastDay /\ today' = today + 1
  /\ UNCHANGED <<catalog, stored, told>>

ReadingsNext == Build \/ Catalogued \/ DayPasses
ReadingsSpec == ReadingsInit /\ [][ReadingsNext]_readingVars

(***************************************************************************)
(* Properties                                                              *)
(***************************************************************************)

ReadingsTypeOK ==
  /\ today \in 1..LastDay /\ catalog \in [Symbols -> Names \cup {"none"}]
  /\ \A s \in Symbols : stored[s].has \in BOOLEAN /\ DOMAIN stored[s].fields = Fields

\* Whoever is served from the store is shown what the reader of the live answer was, whatever
\* has been refused or refreshed since, but for a report whose day has passed and the
\* name the catalog has come to give (tickerFromStoredRecords).
StoredAsLive ==
  \A s \in Symbols : stored[s].has =>
    LET then == [told[s] EXCEPT !.name = catalog[s],
                                !.earnings = IF @ >= today THEN @ ELSE 0]
    IN  StoredTicker(s, today) = then

\* Nothing a reader is shown is a provider's way of saying it has no figure, and no report is
\* behind the day it is shown on.
ShownIsReported ==
  \A s \in Symbols : stored[s].has =>
    LET w == FromWire(Wire(StoredTicker(s, today))) IN
      /\ w["marketCap"] # Value(0) /\ w["price"].n > 0 /\ w["previousClose"].n > 0
      /\ w["earnings"] # None => w["earnings"].n >= today
      /\ w["yearLow"] # None /\ w["yearHigh"] # None => w["yearLow"].n <= w["yearHigh"].n

ReadingsInv == ReadingsTypeOK /\ StoredAsLive /\ ShownIsReported
================================================================================
