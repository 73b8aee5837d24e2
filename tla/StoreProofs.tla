------------------------------ MODULE StoreProofs ------------------------------
(***************************************************************************)
(* What the one store keeps, for any number of symbols, calls, builds and  *)
(* readers: the year's anchors, the maintained list and its copy, the      *)
(* market rows and the catalog, and the one lookup that readers share.     *)
(***************************************************************************)
EXTENDS SymbolSearch, Watchlist, MarketStore, YearCandles,
        FiniteSetTheorems, SequenceTheorems, NaturalsInduction, WellFoundedInduction, TLAPS

(***************************************************************************)
(* The year of closes                                                      *)
(***************************************************************************)

YearShape ==
  /\ day \in Nat \ {0} /\ behind \in Int /\ fires \subseteq FireHours /\ refresh \in [asked : SUBSET Tickers, day : Nat]
  /\ years \in [Tickers -> Nat] /\ passed \in [Tickers -> Nat] /\ public \subseteq Tickers

\* No refresh of today has ended.
NoneEndedToday == \A s \in Tickers : passed[s] < day

\* A day has one opening minute: its refresh has not begun, is under way, or has ended.
OneRefreshADay ==
  /\ \A s \in Tickers : passed[s] <= day
  /\ behind + 9 \notin fires => refresh = NoRefresh /\ NoneEndedToday
  /\ refresh # NoRefresh => refresh.day = day /\ NoneEndedToday

YearIInv == YearShape /\ OneRefreshADay /\ AnchorsStand

LEMMA FiresKeeps ==
  ASSUME YearIInv, NEW utc \in FireHours, Fires(utc)
  PROVE  YearIInv'
<1>1. /\ utc \notin fires /\ fires' = fires \cup {utc} /\ UNCHANGED <<day, behind, public, years, passed>>
      /\ utc \in Int /\ behind \in Int /\ day \in Nat \ {0}
  BY DEF Fires, YearIInv, YearShape, FireHours
<1>2. CASE IsCashOpenMinute(utc) /\ public # {}
  <2>1. behind + 9 = utc /\ refresh' = [asked |-> YearCandleSymbols, day |-> day]
    BY <1>1, <1>2 DEF Fires, IsCashOpenMinute
  <2>2. NoneEndedToday
    BY <1>1, <2>1 DEF YearIInv, OneRefreshADay
  <2>3. YearCandleSymbols \subseteq Tickers
    BY DEF YearCandleSymbols, YearIInv, YearShape
  <2>4. YearShape'
    BY <1>1, <2>1, <2>3 DEF YearIInv, YearShape, FireHours
  <2>5. OneRefreshADay'
    BY <1>1, <2>1, <2>2 DEF OneRefreshADay, NoneEndedToday, YearIInv
  <2> QED
    BY <1>1, <2>4, <2>5 DEF YearIInv, AnchorsStand, StoredSeries
<1>3. CASE ~(IsCashOpenMinute(utc) /\ public # {})
  <2>1. refresh' = refresh
    BY <1>3 DEF Fires
  <2> QED
    BY <1>1, <2>1 DEF YearIInv, YearShape, OneRefreshADay, NoneEndedToday, AnchorsStand, StoredSeries, FireHours
<1> QED
  BY <1>2, <1>3

LEMMA ReplaceKeeps ==
  ASSUME YearIInv, ReplaceYearCandles
  PROVE  YearIInv'
<1>1. PICK arrived \in SUBSET refresh.asked, empty \in SUBSET refresh.asked :
        /\ empty \subseteq arrived
        /\ years' = [s \in Tickers |-> IF s \in arrived \ empty THEN refresh.day
                                       ELSE IF s \in StaysStored(refresh.asked, empty) THEN years[s] ELSE NoSeries]
        /\ passed' = [s \in Tickers |-> IF s \in refresh.asked \ empty THEN passed[s] ELSE refresh.day]
  BY DEF ReplaceYearCandles
<1>2. /\ refresh' = NoRefresh /\ UNCHANGED <<day, behind, fires, public>> /\ refresh.day = day /\ NoneEndedToday
      /\ refresh # NoRefresh /\ day \in Nat \ {0}
  BY DEF ReplaceYearCandles, YearIInv, OneRefreshADay, YearShape
<1>3. YearShape'
  BY <1>1, <1>2 DEF YearIInv, YearShape, NoRefresh, NoSeries
<1>4. behind + 9 \in fires
  BY <1>2 DEF YearIInv, OneRefreshADay
<1>5. \A s \in Tickers : passed'[s] \in {passed[s], day} /\ passed[s] \in Nat
  BY <1>1, <1>2 DEF YearIInv, YearShape
<1>6. OneRefreshADay'
  BY <1>2, <1>4, <1>5 DEF OneRefreshADay, NoneEndedToday
<1>7. ASSUME NEW s \in Tickers, years'[s] # NoSeries
      PROVE  years'[s] > passed'[s]
  <2>1. CASE s \in arrived \ empty
    BY <1>1, <1>2, <2>1 DEF NoneEndedToday, YearIInv, YearShape
  <2>2. CASE s \notin arrived \ empty
    BY <1>1, <1>7, <2>2 DEF StaysStored, YearIInv, AnchorsStand, StoredSeries
  <2> QED
    BY <2>1, <2>2
<1> QED
  BY <1>3, <1>6, <1>7 DEF YearIInv, AnchorsStand, StoredSeries

LEMMA YearStep ==
  ASSUME YearIInv, [YearNext]_yearVars
  PROVE  YearIInv'
<1>1. CASE UNCHANGED <<day, behind, fires, refresh, years, passed>> /\ public' \subseteq Tickers
  BY <1>1 DEF YearIInv, YearShape, OneRefreshADay, NoneEndedToday, AnchorsStand, StoredSeries
<1>2. CASE ListChanges
  BY <1>1, <1>2 DEF ListChanges, YearIInv, YearShape
<1>3. CASE \E r \in Charts : ReadsUniverse(r) \/ ReadsSeries(r) \/ ReadAgain(r)
  BY <1>1, <1>3 DEF ReadsUniverse, ReadsSeries, ReadAgain, YearIInv, YearShape
<1>4. CASE UNCHANGED yearVars
  BY <1>1, <1>4 DEF yearVars, YearIInv, YearShape
<1>5. CASE RefreshFails
  BY <1>5 DEF RefreshFails, NoRefresh, YearIInv, YearShape, OneRefreshADay, NoneEndedToday, AnchorsStand, StoredSeries
<1>6. CASE NextDay
  <2>1. /\ refresh = NoRefresh /\ day \in Nat \ {0} /\ day' = day + 1 /\ fires' = {} /\ behind' \in Int
        /\ UNCHANGED <<public, refresh, years, passed>>
    BY <1>6, YearAssumption DEF NextDay, YearIInv, YearShape
  <2>2. \A s \in Tickers : passed[s] \in Nat /\ passed[s] <= day
    BY DEF YearIInv, YearShape, OneRefreshADay
  <2>3. YearShape'
    BY <2>1 DEF YearIInv, YearShape
  <2> QED
    BY <2>1, <2>2, <2>3 DEF YearIInv, OneRefreshADay, NoneEndedToday, AnchorsStand, StoredSeries
<1> QED
  BY <1>2, <1>3, <1>4, <1>5, <1>6, FiresKeeps, ReplaceKeeps DEF YearNext

\* A year that is served as current has been asked for by every refresh since it was
\* stored, and none heard that there is no such year (replaceYearCandles), for any
\* symbols, volumes, days and readers.
THEOREM AnchorsHold == YearSpec => []AnchorsStand
<1>1. YearInit => YearIInv
  <2> SUFFICES ASSUME YearInit PROVE YearIInv
    OBVIOUS
  <2>1. YearShape
    BY YearAssumption DEF YearInit, YearShape, NoRefresh, NoSeries
  <2>2. OneRefreshADay /\ AnchorsStand
    BY DEF YearInit, OneRefreshADay, NoneEndedToday, AnchorsStand, StoredSeries
  <2> QED
    BY <2>1, <2>2 DEF YearIInv
<1>2. YearIInv /\ [YearNext]_yearVars => YearIInv'
  BY YearStep
<1>3. YearIInv => AnchorsStand
  BY DEF YearIInv
<1> QED
  BY <1>1, <1>2, <1>3, PTL DEF YearSpec

(***************************************************************************)
(* The first of an order                                                   *)
(***************************************************************************)

LEMMA LeastOf ==
  ASSUME NEW S \in SUBSET Nat, S # {}
  PROVE  \E least \in S : \A n \in S : least <= n
<1> DEFINE R == {p \in Nat \X Nat : p[1] < p[2]}
<1>1. IsWellFoundedOn(R, Nat)
  BY NatLessThanWellFounded DEF OpToRel
<1>2. \A m, n \in Nat : <<m, n>> \in R <=> m < n
  OBVIOUS
<1> HIDE DEF R
<1>3. PICK least \in S : \A n \in S : <<n, least>> \notin R
  BY <1>1, WFMin
<1>4. \A n \in S : least \in Nat /\ n \in Nat /\ ~(n < least)
  BY <1>2, <1>3
<1> QED
  BY <1>4

Orders(R, S) ==
  /\ \A a \in S : <<a, a>> \notin R
  /\ \A a, b \in S : a # b => <<a, b>> \in R \/ <<b, a>> \in R
  /\ \A a, b, c \in S : <<a, b>> \in R /\ <<b, c>> \in R => <<a, c>> \in R

Ahead(R, S, c) == {d \in S : <<d, c>> \in R}

\* No more than n are among the first n.
LEMMA FirstAreFew ==
  ASSUME NEW S, IsFiniteSet(S), NEW R, Orders(R, S), NEW n \in Nat,
         NEW first, first = {c \in S : Cardinality(Ahead(R, S, c)) < n}
  PROVE  IsFiniteSet(first) /\ Cardinality(first) <= n
<1>1. first \subseteq S /\ IsFiniteSet(first) /\ Cardinality(first) \in Nat
  <2>1. first \subseteq S
    OBVIOUS
  <2> QED
    BY <2>1, FS_Subset, FS_CardinalityType
<1>2. CASE first = {}
  BY <1>1, <1>2, FS_EmptySet
<1>3. CASE first # {}
  <2> DEFINE after(c) == {d \in first : <<c, d>> \in R}
             counts == {Cardinality(after(c)) : c \in first}
  <2>1. \A c \in first : IsFiniteSet(after(c)) /\ Cardinality(after(c)) \in Nat
    <3>1. \A c \in first : after(c) \subseteq first
      OBVIOUS
    <3> HIDE DEF after
    <3> QED
      BY <1>1, <3>1, FS_Subset, FS_CardinalityType
  <2>2. counts \subseteq Nat /\ counts # {}
    BY <1>3, <2>1
  <2>3. PICK least \in counts : \A k \in counts : least <= k
    BY <2>2, LeastOf
  <2>4. PICK last \in first : least = Cardinality(after(last))
    OBVIOUS
  <2>5. ASSUME NEW c \in first, <<last, c>> \in R
        PROVE  FALSE
    <3>1. after(c) \subseteq after(last) /\ c \in after(last) /\ c \notin after(c)
      BY <1>1, <2>5 DEF Orders
    <3>2. Cardinality(after(c)) \in counts
      OBVIOUS
    <3> HIDE DEF after, counts
    <3>3. Cardinality(after(c)) <= Cardinality(after(last)) /\ Cardinality(after(c)) # Cardinality(after(last))
      BY <2>1, <3>1, FS_Subset
    <3>4. Cardinality(after(last)) <= Cardinality(after(c))
      BY <2>3, <2>4, <3>2
    <3> QED
      BY <2>1, <3>3, <3>4
  <2>6. first \ {last} \subseteq Ahead(R, S, last)
    BY <1>1, <2>5 DEF Orders, Ahead
  <2>7. Ahead(R, S, last) \subseteq S
    BY DEF Ahead
  <2>8. IsFiniteSet(first \ {last}) /\ Cardinality(first \ {last}) = Cardinality(first) - 1
    BY <1>1, FS_RemoveElement
  <2>9. Cardinality(first \ {last}) <= Cardinality(Ahead(R, S, last)) /\ Cardinality(Ahead(R, S, last)) \in Nat
    BY <2>6, <2>7, FS_Subset, FS_CardinalityType
  <2>10. Cardinality(Ahead(R, S, last)) < n
    OBVIOUS
  <2> QED
    BY <1>1, <2>8, <2>9, <2>10
<1> QED
  BY <1>2, <1>3

(***************************************************************************)
(* The maintained list                                                     *)
(***************************************************************************)

LEMMA OriginsAre ==
  /\ ToSet(Origins) = {"tastytrade-seed", "visitor-search", "agent-discussion", "scheduled-research", "position-sync",
                       "trade-intent", "owner"}
  /\ \A o \in ToSet(Origins) : Priority[o] \in 1..7 /\ Origins[Priority[o]] = o
<1>1. DOMAIN Origins = 1..7 /\ Len(Origins) = 7
  BY DEF Origins
<1>2. ToSet(Origins) = {"tastytrade-seed", "visitor-search", "agent-discussion", "scheduled-research", "position-sync",
                        "trade-intent", "owner"}
  BY <1>1 DEF ToSet, Origins
<1>3. ASSUME NEW o \in ToSet(Origins)
      PROVE  Priority[o] \in 1..7 /\ Origins[Priority[o]] = o
  <2>1. PICK i \in 1..7 : Origins[i] = o
    BY <1>1, <1>3 DEF ToSet
  <2>2. \A j \in 1..7 : Origins[j] = o => i = j
    BY <2>1 DEF Origins
  <2>3. {j \in 1..7 : Origins[j] = o} = {i}
    BY <2>1, <2>2
  <2>4. Priority[o] = SelectInSeq(Origins, LAMBDA p : p = o)
    BY <1>3 DEF Priority
  <2>5. SelectInSeq(Origins, LAMBDA p : p = o) = i
    BY <1>1, <2>3 DEF SelectInSeq, Min
  <2> QED
    BY <2>1, <2>4, <2>5
<1> QED
  BY <1>2, <1>3

\* A touch never weakens a row's provenance.
LEMMA TouchedStaysProtected ==
  ASSUME NEW row \in Row, NEW origin \in ToSet(Origins), NEW now, row.origin \notin Prunable
  PROVE  Touched(row, origin, now).origin \notin Prunable
<1>1. row.origin \in ToSet(Origins) /\ row # NoRow
  BY WatchlistAssumption DEF Row
<1>2. /\ Priority[origin] \in 1..7 /\ Origins[Priority[origin]] = origin
      /\ Priority[row.origin] \in 1..7 /\ Origins[Priority[row.origin]] = row.origin
  BY <1>1, OriginsAre
<1>3. \A i \in 1..7 : Origins[i] \in Prunable <=> i <= 3
  BY DEF Origins, Prunable
<1>4. Priority[origin] > Priority[row.origin] => origin \notin Prunable
  BY <1>2, <1>3
<1>5. Touched(row, origin, now).origin = IF Priority[origin] > Priority[row.origin] THEN origin ELSE row.origin
  BY <1>1 DEF Touched
<1> QED
  BY <1>4, <1>5

Lists == [Symbols -> Row \cup {NoRow}]
ProtectedIn(table) == {s \in RowsOf(table) : table[s].origin \notin Prunable}

LEMMA RowsFinite ==
  ASSUME NEW table
  PROVE  /\ RowsOf(table) \subseteq Symbols /\ IsFiniteSet(RowsOf(table)) /\ Cardinality(RowsOf(table)) \in Nat
         /\ ProtectedIn(table) \subseteq RowsOf(table)
         /\ IsFiniteSet(ProtectedIn(table)) /\ Cardinality(ProtectedIn(table)) \in Nat
<1>1. RowsOf(table) \subseteq Symbols /\ ProtectedIn(table) \subseteq RowsOf(table)
  BY DEF RowsOf, ProtectedIn
<1> QED
  BY <1>1, FS_Subset, FS_CardinalityType, WatchlistAssumption

LEMMA RankShape ==
  ASSUME NEW table \in Lists, NEW s \in RowsOf(table)
  PROVE  /\ s \in Nat /\ Tier(table, s) \in 0..6 /\ Place(s) \in Nat /\ table[s].updated \in Nat
         /\ table[s].origin \in ToSet(Origins)
         /\ table[s].origin \notin Prunable <=> Tier(table, s) <= 1
<1>1. s \in Symbols /\ s \in Nat /\ table[s] \in Row
  BY WatchlistAssumption DEF RowsOf, Lists
<1>2. 2^30 \in Nat
  OBVIOUS
<1>3. Place(s) \in Nat
  BY <1>2, WatchlistAssumption DEF Place
<1>4. Tier(table, s) \in 0..6
  BY DEF Tier
<1>5. table[s].origin \notin Prunable <=> Tier(table, s) <= 1
  BY DEF Tier, Prunable
<1> QED
  BY <1>1, <1>3, <1>4, <1>5 DEF Row

RankPairs(table) == {p \in RowsOf(table) \X RowsOf(table) : RankedBefore(table, p[1], p[2])}

LEMMA RankingOrders ==
  ASSUME NEW table \in Lists
  PROVE  Orders(RankPairs(table), RowsOf(table))
<1> DEFINE before(s, t) == RankedBefore(table, s, t)
<1>1. \A s, t \in RowsOf(table) : <<s, t>> \in RankPairs(table) <=> before(s, t)
  BY DEF RankPairs
<1>2. ASSUME NEW a \in RowsOf(table), NEW b \in RowsOf(table), NEW c \in RowsOf(table)
      PROVE  /\ ~before(a, a) /\ (a # b => before(a, b) \/ before(b, a))
             /\ (before(a, b) /\ before(b, c) => before(a, c))
  <2>1. /\ a \in Nat /\ Tier(table, a) \in Nat /\ Place(a) \in Nat /\ table[a].updated \in Nat
        /\ b \in Nat /\ Tier(table, b) \in Nat /\ Place(b) \in Nat /\ table[b].updated \in Nat
        /\ c \in Nat /\ Tier(table, c) \in Nat /\ Place(c) \in Nat /\ table[c].updated \in Nat
    BY RankShape
  <2> QED
    BY <2>1 DEF RankedBefore
<1> HIDE DEF before
<1> QED
  BY <1>1, <1>2 DEF Orders

LEMMA FocusIs ==
  ASSUME NEW table \in Lists
  PROVE  /\ Focus(table) = {s \in RowsOf(table) : Cardinality(Ahead(RankPairs(table), RowsOf(table), s)) < Cap}
         /\ Cardinality(Focus(table)) <= Cap
<1>1. \A s \in RowsOf(table) :
        Ahead(RankPairs(table), RowsOf(table), s) = {t \in RowsOf(table) : RankedBefore(table, t, s)}
  BY DEF Ahead, RankPairs
<1>2. Focus(table) = {s \in RowsOf(table) : Cardinality(Ahead(RankPairs(table), RowsOf(table), s)) < Cap}
  BY <1>1 DEF Focus
<1>3. Cardinality(Focus(table)) <= Cap
  BY <1>2, RankingOrders, RowsFinite, FirstAreFew, WatchlistAssumption
<1> QED
  BY <1>2, <1>3

\* Protected rows head the ranking: while they fit, the prune leaves the focus.
LEMMA PrunedFits ==
  ASSUME NEW table \in Lists, Cardinality(ProtectedIn(table)) <= Cap
  PROVE  Pruned(table) \in Lists /\ Cardinality(RowsOf(Pruned(table))) <= Cap
<1>1. ASSUME NEW s \in ProtectedIn(table)
      PROVE  s \in Focus(table)
  <2> DEFINE ahead == Ahead(RankPairs(table), RowsOf(table), s)
  <2>1. s \in RowsOf(table) /\ Tier(table, s) \in Int /\ Tier(table, s) <= 1 /\ s \notin ahead
    BY RankShape, RankingOrders DEF ProtectedIn, Ahead, Orders
  <2>2. \A t \in ahead : t \in RowsOf(table) /\ Tier(table, t) <= Tier(table, s)
    <3>1. \A t \in RowsOf(table) : Tier(table, t) \in Int
      BY RankShape
    <3> QED
      BY <2>1, <3>1 DEF Ahead, RankPairs, RankedBefore
  <2>3. ahead \subseteq ProtectedIn(table) \ {s}
    <3> SUFFICES ASSUME NEW t \in ahead PROVE t \in ProtectedIn(table) \ {s}
      OBVIOUS
    <3>1. t \in RowsOf(table) /\ Tier(table, t) <= Tier(table, s) /\ Tier(table, t) \in Int
      BY <2>2, RankShape
    <3>2. Tier(table, t) <= 1
      BY <2>1, <3>1
    <3> QED
      BY <2>1, <3>1, <3>2, RankShape DEF ProtectedIn
  <2>4. IsFiniteSet(ProtectedIn(table) \ {s}) /\ Cardinality(ProtectedIn(table) \ {s}) = Cardinality(ProtectedIn(table)) - 1
    BY RowsFinite, FS_RemoveElement
  <2> HIDE DEF ahead
  <2>5. Cardinality(ahead) <= Cardinality(ProtectedIn(table)) - 1 /\ Cardinality(ahead) \in Nat
    BY <2>3, <2>4, FS_Subset, FS_CardinalityType
  <2>6. Cardinality(ahead) < Cap
    BY <2>5, RowsFinite, WatchlistAssumption
  <2> QED
    BY <2>1, <2>6, FocusIs DEF ahead
<1>2. Pruned(table) \in Lists
  BY DEF Pruned, Lists
<1>3. RowsOf(Pruned(table)) \subseteq Focus(table)
  <2> SUFFICES ASSUME NEW s \in RowsOf(Pruned(table)) PROVE s \in Focus(table)
    OBVIOUS
  <2>1. s \in Symbols /\ table[s] # NoRow /\ (table[s].origin \notin Prunable \/ s \in Focus(table))
    BY DEF RowsOf, Pruned
  <2> QED
    BY <1>1, <2>1 DEF ProtectedIn, RowsOf
<1>4. IsFiniteSet(Focus(table)) /\ Cardinality(Focus(table)) \in Nat
  <2>1. Focus(table) \subseteq RowsOf(table)
    BY DEF Focus
  <2> QED
    BY <2>1, RowsFinite, FS_Subset, FS_CardinalityType
<1>5. Cardinality(RowsOf(Pruned(table))) <= Cardinality(Focus(table))
  BY <1>3, <1>4, FS_Subset
<1>6. Cardinality(RowsOf(Pruned(table))) <= Cap
  BY <1>4, <1>5, FocusIs, RowsFinite, WatchlistAssumption
<1> QED
  BY <1>2, <1>6

\* Of the inputs, those that need a slot are admitted up to the capacity.
LEMMA AdmittedFit ==
  ASSUME NEW input \in Seq(Symbols), Capacity \in Nat
  PROVE  /\ IsFiniteSet({s \in Admitted(input) : NeedsSlot(s)})
         /\ Cardinality({s \in Admitted(input) : NeedsSlot(s)}) <= Capacity
         /\ Admitted(input) \subseteq Symbols
<1> DEFINE needing(i) == {j \in 1..i : NeedsSlot(input[j])}
           places == {i \in DOMAIN input : NeedsSlot(input[i]) /\ Cardinality(needing(i)) <= Capacity}
           new == {s \in Admitted(input) : NeedsSlot(s)}
           n == Len(input)
<1>1. n \in Nat /\ DOMAIN input = 1..n /\ \A i \in 1..n : input[i] \in Symbols
  OBVIOUS
<1>2. Admitted(input) \subseteq Symbols
  BY <1>1 DEF Admitted
<1>3. [i \in places |-> input[i]] \in Surjection(places, new)
  <2>1. \A i \in places : input[i] \in new
    BY DEF Admitted
  <2>2. \A s \in new : \E i \in places : input[i] = s
    BY DEF Admitted
  <2> HIDE DEF places, new
  <2> QED
    BY <2>1, <2>2 DEF Surjection
<1>4. IsFiniteSet(1..n) /\ places \subseteq 1..n
  BY <1>1, FS_Interval
<1> HIDE DEF new
<1>5. IsFiniteSet(places) /\ Cardinality(places) \in Nat
  <2> HIDE DEF places
  <2> QED
    BY <1>4, FS_Subset, FS_CardinalityType
<1>6. Cardinality(places) <= Capacity
  <2>1. CASE places = {}
    <3> HIDE DEF places
    <3>1. Cardinality(places) = 0
      BY <2>1, FS_EmptySet
    <3> QED
      BY <3>1
  <2>2. CASE places # {}
    <3> DEFINE bounds == {b \in Nat : \A i \in places : i <= b}
    <3>1. n \in bounds
      BY <1>1
    <3>2. PICK last \in bounds : \A b \in bounds : last <= b
      <4>1. bounds \in SUBSET Nat /\ bounds # {}
        BY <3>1
      <4> HIDE DEF bounds
      <4> QED
        BY <4>1, LeastOf
    <3>3. last \in places
      <4> SUFFICES ASSUME last \notin places PROVE FALSE
        OBVIOUS
      <4>1. \A i \in places : i \in Nat /\ i >= 1 /\ i <= last /\ i # last
        <5> HIDE DEF places
        <5>1. \A i \in places : i \in 1..n
          BY <1>4
        <5>2. \A i \in places : i <= last
          OBVIOUS
        <5> HIDE DEF bounds
        <5>3. \A i \in places : i # last
          OBVIOUS
        <5> QED
          BY <1>1, <5>1, <5>2, <5>3
      <4>2. last - 1 \in Nat /\ \A i \in places : i <= last - 1
        <5>1. PICK i \in places : TRUE
          BY <2>2
        <5> HIDE DEF places
        <5>2. last \in Nat
          OBVIOUS
        <5> QED
          BY <4>1, <5>1, <5>2
      <4>3. last - 1 \in bounds /\ last \in Nat
        BY <4>2
      <4> HIDE DEF bounds, places
      <4>4. last <= last - 1
        BY <3>2, <4>3
      <4> QED
        BY <4>3, <4>4
    <3>4. places \subseteq needing(last)
      BY <1>4, <3>2, <3>3
    <3>5. IsFiniteSet(needing(last)) /\ Cardinality(needing(last)) \in Nat
      <4>1. needing(last) \subseteq 1..last /\ IsFiniteSet(1..last)
        BY <3>2, FS_Interval
      <4> HIDE DEF needing
      <4> QED
        BY <4>1, FS_Subset, FS_CardinalityType
    <3>6. Cardinality(needing(last)) <= Capacity
      BY <3>3
    <3> HIDE DEF needing, places
    <3> QED
      BY <1>5, <3>4, <3>5, <3>6, FS_Subset
  <2> QED
    BY <2>1, <2>2
<1> HIDE DEF places
<1>7. IsFiniteSet(new) /\ Cardinality(new) <= Cardinality(places)
  BY <1>3, <1>5, FS_Surjection
<1>8. Cardinality(new) \in Nat
  BY <1>7, FS_CardinalityType
<1> QED
  BY <1>2, <1>5, <1>6, <1>7, <1>8 DEF new

ListShape == items \in Lists /\ op \in [Callers -> [step: {"idle", "ready", "written"}, now: Nat]]

LEMMA ShapeIs ==
  ASSUME WatchTypeOK
  PROVE  ListShape
<1>1. instant \in Nat
  BY DEF WatchTypeOK
<1>2. 0..instant \subseteq Nat
  BY <1>1
<1> QED
  BY <1>2 DEF WatchTypeOK, ListShape, Lists, Row

LEMMA UpsertedShape ==
  ASSUME items \in Lists, NEW input, NEW origin \in ToSet(Origins), NEW now \in Nat
  PROVE  Upserted(input, origin, now) \in Lists
<1>1. \A s \in Symbols : Touched(items[s], origin, now) \in Row
  BY DEF Touched, Row, Lists
<1> QED
  BY <1>1 DEF Upserted, Lists

\* The protected rows after an upsert are those before it and the admitted that needed a
\* slot: they fit.
LEMMA UpsertedFits ==
  ASSUME items \in Lists, Cardinality(Listed) <= Cap,
         NEW input \in Seq(Symbols), NEW origin \in ToSet(Origins), NEW now \in Nat
  PROVE  Cardinality(ProtectedIn(Upserted(input, origin, now))) <= Cap
<1> DEFINE table == Upserted(input, origin, now)
           new == {s \in Admitted(input) : NeedsSlot(s)}
<1>1. /\ Listed \subseteq Symbols /\ Protected \subseteq Listed /\ IsFiniteSet(Listed) /\ IsFiniteSet(Protected)
      /\ Cardinality(Protected) <= Cardinality(Listed) /\ Cardinality(Protected) \in Nat /\ Cardinality(Listed) \in Nat
  <2>1. Listed \subseteq Symbols /\ Protected \subseteq Listed
    BY DEF Listed, Protected
  <2>2. IsFiniteSet(Symbols)
    BY WatchlistAssumption
  <2> QED
    BY <2>1, <2>2, FS_Subset, FS_CardinalityType
<1>2. Capacity \in Nat /\ Cardinality(Protected) + Capacity = Cap /\ Cap \in Nat
  BY <1>1, WatchlistAssumption DEF Capacity
<1>3. IsFiniteSet(new) /\ Cardinality(new) <= Capacity /\ Cardinality(new) \in Nat
  BY <1>2, AdmittedFit, FS_CardinalityType
<1>4. ProtectedIn(table) \subseteq Protected \cup new
  <2> SUFFICES ASSUME NEW s \in ProtectedIn(table), s \notin Protected PROVE s \in new
    OBVIOUS
  <2>1. s \in Symbols /\ table[s] # NoRow /\ table[s].origin \notin Prunable
    BY DEF ProtectedIn, RowsOf
  <2>2. s \in Admitted(input)
    <3> SUFFICES ASSUME s \notin Admitted(input) PROVE FALSE
      OBVIOUS
    <3>1. table[s] = items[s]
      BY <2>1 DEF Upserted
    <3> QED
      BY <2>1, <3>1 DEF Protected, Listed
  <2> QED
    BY <2>2 DEF NeedsSlot
<1> HIDE DEF table, new
<1>5. IsFiniteSet(Protected \cup new) /\ Cardinality(Protected \cup new) <= Cardinality(Protected) + Cardinality(new)
  <2>1. IsFiniteSet(Protected \cup new) /\ IsFiniteSet(Protected \cap new)
        /\ Cardinality(Protected \cup new) = Cardinality(Protected) + Cardinality(new) - Cardinality(Protected \cap new)
    BY <1>1, <1>3, FS_Union, FS_Intersection
  <2>2. Cardinality(Protected \cap new) \in Nat
    BY <2>1, FS_CardinalityType
  <2> QED
    BY <1>1, <1>3, <2>1, <2>2
<1>6. Cardinality(ProtectedIn(table)) <= Cardinality(Protected \cup new) /\ Cardinality(Protected \cup new) \in Nat
      /\ Cardinality(ProtectedIn(table)) \in Nat
  BY <1>4, <1>5, FS_Subset, FS_CardinalityType
<1>7. Cardinality(ProtectedIn(table)) <= Cap
  BY <1>1, <1>2, <1>3, <1>5, <1>6
<1> QED
  BY <1>7 DEF table

\* A row never bears an instant to come.
LEMMA RowsBearThePast ==
  ASSUME WatchTypeOK, NEW c \in Callers, NEW origin \in ToSet(Origins), NEW input, NEW s \in Symbols
  PROVE  Pruned(Upserted(input, origin, op[c].now))[s] \in [origin: ToSet(Origins), updated: 0..instant] \cup {NoRow}
<1>1. op[c].now \in 0..instant /\ items[s] \in [origin: ToSet(Origins), updated: 0..instant] \cup {NoRow}
  BY DEF WatchTypeOK
<1>2. Touched(items[s], origin, op[c].now) \in [origin: ToSet(Origins), updated: 0..instant] \cup {NoRow}
  BY <1>1 DEF Touched
<1> QED
  BY <1>1, <1>2 DEF Pruned, Upserted

LEMMA CommitsKeep ==
  ASSUME WatchTypeOK, NEW c \in Callers, Commits(c)
  PROVE  /\ op' \in [Callers -> [step: {"idle", "ready", "written"}, now: 0..instant]] /\ torn' \in BOOLEAN
         /\ torn' # TRUE => op'[c].step = "written"
<1>1. /\ instant \in Nat /\ Written \in [step: {"idle", "ready", "written"}, now: 0..instant]
      /\ Idle \in [step: {"idle", "ready", "written"}, now: 0..instant]
  BY DEF WatchTypeOK, Written, Idle
<1>2. CASE op' = [op EXCEPT ![c] = Written] /\ UNCHANGED torn
  BY <1>1, <1>2 DEF WatchTypeOK, Written
<1>3. CASE op' = [op EXCEPT ![c] = Idle] /\ torn' = TRUE
  BY <1>1, <1>3 DEF WatchTypeOK
<1> QED
  BY <1>2, <1>3 DEF Commits

LEMMA EnsureKeeps ==
  ASSUME WatchlistInv, NEW c \in Callers, NEW input \in Inputs, NEW origin \in LiveOrigins, Ensure(c, origin, input)
  PROVE  WatchlistInv'
<1> DEFINE table == Upserted(input, origin, op[c].now)
<1>1. input \in Seq(Symbols) /\ origin \in ToSet(Origins) /\ items \in Lists /\ op[c].now \in Nat /\ WatchTypeOK
  BY ShapeIs, OriginsAre, WatchlistAssumption DEF WatchlistInv, ListShape, LiveOrigins
<1>2. items' = Pruned(table) /\ Commits(c) /\ UNCHANGED <<instant, delisted, universe>>
  BY DEF Ensure
<1>3. table \in Lists /\ Cardinality(ProtectedIn(table)) <= Cap
  BY <1>1, UpsertedShape, UpsertedFits DEF WatchlistInv, CapHolds
<1>4. Pruned(table) \in Lists /\ Cardinality(RowsOf(Pruned(table))) <= Cap
  BY <1>3, PrunedFits
<1>5. CapHolds'
  <2>1. Listed' = RowsOf(items')
    BY DEF Listed, RowsOf
  <2> QED
    BY <1>2, <1>4, <2>1 DEF CapHolds
<1>6. items' \in [Symbols -> [origin: ToSet(Origins), updated: 0..instant] \cup {NoRow}]
  <2>1. \A s \in Symbols : Pruned(table)[s] \in [origin: ToSet(Origins), updated: 0..instant] \cup {NoRow}
    BY <1>1, RowsBearThePast
  <2>2. Pruned(table) \in [Symbols -> Row \cup {NoRow}]
    BY <1>4 DEF Lists
  <2> HIDE DEF table
  <2> QED
    BY <1>2, <2>1, <2>2
<1>7. WatchTypeOK'
  BY <1>1, <1>2, <1>6, CommitsKeep DEF WatchTypeOK
<1>8. PublicIsCurrent'
  BY <1>1, <1>2, CommitsKeep DEF PublicIsCurrent
<1> QED
  BY <1>5, <1>7, <1>8 DEF WatchlistInv

LEMMA RemoveKeeps ==
  ASSUME WatchlistInv, NEW c \in Callers, NEW input \in Inputs, RemoveSymbols(c, input)
  PROVE  WatchlistInv'
<1>1. /\ items' = [s \in Symbols |-> IF s \in ToSet(input) THEN NoRow ELSE items[s]] /\ Commits(c)
      /\ UNCHANGED <<instant, delisted, universe>> /\ WatchTypeOK
  BY DEF RemoveSymbols, WatchlistInv
<1>2. Listed' \subseteq Listed /\ Listed \subseteq Symbols
  BY <1>1 DEF Listed
<1>3. IsFiniteSet(Listed) /\ Cardinality(Listed) \in Nat /\ Cardinality(Listed') \in Nat
      /\ Cardinality(Listed') <= Cardinality(Listed)
  BY <1>2, FS_Subset, FS_CardinalityType, WatchlistAssumption
<1>4. CapHolds'
  BY <1>3, WatchlistAssumption DEF CapHolds, WatchlistInv
<1>5. items' \in [Symbols -> [origin: ToSet(Origins), updated: 0..instant] \cup {NoRow}]
  BY <1>1 DEF WatchTypeOK
<1>6. WatchTypeOK' /\ PublicIsCurrent'
  BY <1>1, <1>5, CommitsKeep DEF WatchTypeOK, PublicIsCurrent
<1> QED
  BY <1>4, <1>6 DEF WatchlistInv

LEMMA PublishKeeps ==
  ASSUME WatchlistInv, NEW c \in Callers, Publish(c)
  PROVE  WatchlistInv'
<1>1. op' = [op EXCEPT ![c] = Idle] /\ UNCHANGED <<instant, items, delisted>> /\ WatchTypeOK /\ CapHolds
  BY DEF Publish, WatchlistInv
<1>2. Projection \subseteq Listed /\ Listed \subseteq Symbols
  BY DEF Projection, Listed
<1>3. Cardinality(Projection) <= Cap
  <2>1. IsFiniteSet(Listed) /\ Cardinality(Listed) \in Nat /\ Cardinality(Projection) \in Nat
        /\ Cardinality(Projection) <= Cardinality(Listed)
    BY <1>2, FS_Subset, FS_CardinalityType, WatchlistAssumption
  <2> QED
    BY <1>1, <2>1, WatchlistAssumption DEF CapHolds
<1>4. universe' = Projection /\ torn' = FALSE
  BY <1>3 DEF Publish
<1>5. op' \in [Callers -> [step: {"idle", "ready", "written"}, now: 0..instant]]
  BY <1>1 DEF WatchTypeOK, Idle
<1>6. Projection' = Projection /\ CapHolds'
  BY <1>1 DEF Projection, Listed, CapHolds
<1> QED
  BY <1>1, <1>2, <1>4, <1>5, <1>6 DEF WatchlistInv, WatchTypeOK, PublicIsCurrent, Projection

LEMMA WatchStep ==
  ASSUME WatchlistInv, [WatchNext]_watchVars
  PROVE  WatchlistInv'
<1>0. /\ WatchTypeOK /\ instant \in Nat /\ CapHolds /\ PublicIsCurrent
      /\ \A n \in Nat : n >= instant => /\ 0..instant \subseteq 0..n
  BY DEF WatchlistInv, WatchTypeOK
<1>1. ASSUME NEW c \in Callers, Call(c) \/ WriteFails(c) \/ Breaks(c)
      PROVE  WatchlistInv'
  <2>1. /\ UNCHANGED <<instant, items, delisted, universe>>
        /\ \/ op' = [op EXCEPT ![c] = [step |-> "ready", now |-> instant]] /\ op[c].step # "written" /\ torn' = torn
           \/ op' = [op EXCEPT ![c] = Idle] /\ op[c].step # "written" /\ torn' = torn
           \/ op' = [op EXCEPT ![c] = Idle] /\ torn' = TRUE
    BY <1>1 DEF Call, WriteFails, Breaks
  <2>2. op' \in [Callers -> [step: {"idle", "ready", "written"}, now: 0..instant]] /\ torn' \in BOOLEAN
    <3> DEFINE calls == [step: {"idle", "ready", "written"}, now: 0..instant]
    <3>1. op \in [Callers -> calls] /\ torn \in BOOLEAN
      BY <1>0 DEF WatchTypeOK
    <3>2. Idle \in calls /\ [step |-> "ready", now |-> instant] \in calls
      BY <1>0 DEF Idle
    <3> HIDE DEF calls
    <3>3. op' \in [Callers -> calls]
      BY <2>1, <3>1, <3>2
    <3>4. torn' \in BOOLEAN
      BY <2>1, <3>1
    <3> QED
      BY <3>3, <3>4 DEF calls
  <2>3. torn' # TRUE => \A d \in Callers : op'[d].step # "written" => op[d].step # "written"
    BY <1>0, <2>1 DEF WatchTypeOK
  <2>4. Projection' = Projection /\ CapHolds'
    BY <1>0, <2>1 DEF Projection, Listed, CapHolds
  <2>5. PublicIsCurrent'
    BY <1>0, <2>1, <2>3, <2>4 DEF PublicIsCurrent
  <2> QED
    BY <1>0, <2>1, <2>2, <2>4, <2>5 DEF WatchlistInv, WatchTypeOK
<1>2. ASSUME NEW s \in Symbols, Delists(s)
      PROVE  WatchlistInv'
  <2>1. Listed' = Listed /\ Projection' = Projection \ {s}
    BY <1>2 DEF Delists, Listed, Projection
  <2> QED
    BY <1>0, <1>2, <2>1 DEF Delists, WatchlistInv, WatchTypeOK, CapHolds, PublicIsCurrent
<1>3. CASE WatchTick
  <2>1. instant' \in Nat /\ instant' >= instant /\ UNCHANGED <<items, delisted, universe, op, torn>>
    BY <1>0, <1>3 DEF WatchTick
  <2>2. 0..instant \subseteq 0..instant'
    BY <1>0, <2>1
  <2>3. WatchTypeOK'
    BY <1>0, <2>1, <2>2 DEF WatchTypeOK
  <2> QED
    BY <1>0, <2>1, <2>3 DEF WatchlistInv, CapHolds, PublicIsCurrent, Projection, Listed
<1>4. CASE UNCHANGED watchVars
  BY <1>0, <1>4 DEF watchVars, WatchlistInv, WatchTypeOK, CapHolds, PublicIsCurrent, Projection, Listed
<1> QED
  BY <1>1, <1>2, <1>3, <1>4, EnsureKeeps, RemoveKeeps, PublishKeeps DEF WatchNext

LEMMA WatchBegin ==
  ASSUME WatchInit
  PROVE  WatchlistInv
<1>1. "tastytrade-seed" \in ToSet(Origins) /\ Listed \subseteq Symbols
  BY OriginsAre DEF Listed
<1>2. WatchTypeOK
  <2>1. instant = 0 /\ 0 \in 0..0
    BY DEF WatchInit
  <2>2. items \in [Symbols -> [origin: ToSet(Origins), updated: 0..instant] \cup {NoRow}]
    <3> HIDE DEF Origins
    <3>1. [origin |-> "tastytrade-seed", updated |-> 0] \in [origin: ToSet(Origins), updated: 0..instant]
      BY <1>1, <2>1
    <3> QED
      BY <3>1 DEF WatchInit
  <2>3. op \in [Callers -> [step: {"idle", "ready", "written"}, now: 0..instant]]
    BY <2>1 DEF WatchInit, Idle
  <2>4. instant \in Nat /\ torn \in BOOLEAN /\ delisted \subseteq Symbols /\ universe \subseteq Symbols
    BY <1>1 DEF WatchInit
  <2> QED
    BY <2>2, <2>3, <2>4 DEF WatchTypeOK
<1> QED
  BY <1>2 DEF WatchInit, WatchlistInv, CapHolds, PublicIsCurrent, Projection

\* The list never outgrows its cap, whatever calls overlap or break off, and what the
\* public sees is the list whenever no call is between its write and its copy
\* (ensureInternalWatchlistSymbols, publishInternalWatchlistUniverse): for any cap,
\* symbols, lists of them and callers.
THEOREM WatchlistHolds == WatchSpec => []WatchlistInv
<1>1. WatchInit => WatchlistInv
  BY WatchBegin
<1>2. WatchlistInv /\ [WatchNext]_watchVars => WatchlistInv'
  BY WatchStep
<1> QED
  BY <1>1, <1>2, PTL DEF WatchSpec

\* A step that is not the removal of a protected symbol keeps it protected.
LEMMA StaysProtected ==
  ASSUME WatchTypeOK, [WatchNext]_watchVars, NEW s \in Protected, s \notin Protected'
  PROVE  \E c \in Callers, input \in Inputs : RemoveSymbols(c, input) /\ s \in ToSet(input)
<1>1. s \in Symbols /\ items[s] # NoRow /\ items[s].origin \notin Prunable /\ items[s] \in Row /\ items \in Lists
  BY ShapeIs DEF Protected, Listed, ListShape, Lists
<1>2. items' # items
  BY <1>1 DEF Protected, Listed
<1>3. ASSUME NEW c \in Callers, NEW input \in Inputs, NEW origin \in LiveOrigins, Ensure(c, origin, input)
      PROVE  FALSE
  <2> DEFINE table == Upserted(input, origin, op[c].now)
  <2>1. origin \in ToSet(Origins) /\ op[c].now \in Nat
    BY ShapeIs, OriginsAre DEF ListShape, LiveOrigins
  <2>2. table[s] # NoRow /\ table[s].origin \notin Prunable
    <3>1. table[s] = items[s] \/ table[s] = Touched(items[s], origin, op[c].now)
      BY <1>1 DEF Upserted
    <3>2. Touched(items[s], origin, op[c].now).origin \notin Prunable /\ Touched(items[s], origin, op[c].now) \in Row
      <4>1. Touched(items[s], origin, op[c].now) \in Row
        BY <1>1, <2>1 DEF Touched, Row
      <4> QED
        BY <1>1, <2>1, <4>1, TouchedStaysProtected
    <3> QED
      BY <1>1, <3>1, <3>2, WatchlistAssumption
  <2>3. items' = Pruned(table)
    BY <1>3 DEF Ensure
  <2> HIDE DEF table
  <2>4. items'[s] = table[s]
    BY <1>1, <2>2, <2>3 DEF Pruned
  <2> QED
    BY <1>1, <2>2, <2>4 DEF Protected, Listed
<1>4. ASSUME NEW c \in Callers, NEW input \in Inputs, RemoveSymbols(c, input)
      PROVE  s \in ToSet(input)
  <2> SUFFICES ASSUME s \notin ToSet(input) PROVE FALSE
    OBVIOUS
  <2>1. items'[s] = items[s]
    BY <1>1, <1>4 DEF RemoveSymbols
  <2> QED
    BY <1>1, <2>1 DEF Protected, Listed
<1>5. \A c \in Callers : ~Call(c) /\ ~WriteFails(c) /\ ~Publish(c) /\ ~Breaks(c)
  BY <1>2 DEF Call, WriteFails, Publish, Breaks
<1>6. (\A t \in Symbols : ~Delists(t)) /\ ~WatchTick /\ ~UNCHANGED watchVars
  BY <1>2 DEF Delists, WatchTick, watchVars
<1> QED
  BY <1>3, <1>4, <1>5, <1>6 DEF WatchNext

\* A symbol that an owner added or a trade named stays protected until it is removed by
\* name (upsertSymbolsStatement, pruneStatement).
THEOREM ProtectionStands == WatchSpec => ProtectedStays
<1>1. WatchlistInv /\ [WatchNext]_watchVars =>
        [\A s \in Protected \ Protected' :
           \E c \in Callers, input \in Inputs : RemoveSymbols(c, input) /\ s \in ToSet(input)]_watchVars
  BY StaysProtected DEF WatchlistInv
<1> QED
  BY <1>1, WatchlistHolds, PTL DEF WatchSpec, ProtectedStays

(***************************************************************************)
(* The market rows                                                         *)
(***************************************************************************)

Identities == [is : {"none", "unresolved", "resolved"}, at : Nat]
MarketRows == [read : Nat, observed : Nat, dated : BOOLEAN]
BuildSteps == {"idle", "naming", "renaming", "recording", "asking", "earnings", "rows", "publishing", "admitting"}
BuildRecord ==
  [for : {"none", "owner", "public", "catalog", "search"}, step : BuildSteps, names : SUBSET Names,
   sought : SUBSET Names, found : SUBSET Names, answered : SUBSET Names, priced : SUBSET Names,
   dated : SUBSET Names, at : Nat]

MarketShape ==
  /\ hour \in Nat \ {0} /\ identity \in [Names -> Identities] /\ quotes \in [Names -> MarketRows]
  /\ earnings \subseteq Names /\ list \subseteq Names /\ shown \subseteq Names
  /\ build \in [Builds -> BuildRecord]
  /\ record \in [searched : SUBSET Names, author : [Names -> Builds \cup {"none"}], agreed : SUBSET Names]

\* The rows of a name were written no later after their reading than a build lives.
RowsAreTimely == \A s \in StoredNames : quotes[s].observed <= quotes[s].read + BuildLimit

\* What a build is for, by the step it is at.
ForItsStep(b) ==
  /\ At(b, "naming") => build[b].for \in {"owner", "search"}
  /\ At(b, "renaming") => build[b].for = "catalog"
  /\ At(b, "recording") => build[b].for \in {"owner", "search", "catalog"}
  /\ build[b].step \in {"asking", "earnings", "rows"} => build[b].for \in {"owner", "search", "public"}
  /\ At(b, "admitting") => build[b].for = "search"

\* What it read, it read lately and of the names it is for; the calendar says what it
\* wrote there of the names it was the last to write; a search's name is in the store
\* before it is listed.
BuildOk(b) ==
  /\ ForItsStep(b)
  /\ build[b].for = "search" => \E s \in Names : build[b].names = {s}
  /\ build[b].answered \subseteq build[b].names /\ build[b].priced \subseteq build[b].answered
  /\ build[b].dated \subseteq build[b].answered
  /\ build[b].step \in {"earnings", "rows"} =>
       build[b].priced # {} /\ build[b].at >= 1 /\ build[b].at <= hour /\ hour <= build[b].at + BuildLimit
  /\ At(b, "rows") =>
       \A s \in build[b].answered : record.author[s] = b => (s \in build[b].dated <=> s \in earnings)
  /\ At(b, "admitting") => build[b].names \subseteq StoredNames

MarketIInv ==
  MarketShape /\ RowsAreTimely /\ EarningsAgree /\ ListedIsPriced /\ \A b \in Builds : BuildOk(b)

\* A build that does not move is not disturbed by what the others write.
LEMMA OthersStay ==
  ASSUME NEW b \in Builds, BuildOk(b), build'[b] = build[b], hour' = hour, StoredNames \subseteq StoredNames',
         \A s \in build[b].answered :
           record'.author[s] = b => record.author[s] = b /\ (s \in earnings' <=> s \in earnings)
  PROVE  BuildOk(b)'
  BY DEF BuildOk, ForItsStep, At

LEMMA RestingIs ==
  ASSUME NEW b \in Builds, build'[b] = Resting0
  PROVE  BuildOk(b)' /\ Resting0 \in BuildRecord
<1>1. /\ Resting0 \in BuildRecord /\ Resting0.step = "idle" /\ Resting0.for = "none"
      /\ Resting0.answered = {} /\ Resting0.priced = {} /\ Resting0.dated = {}
  BY DEF Resting0, BuildRecord, BuildSteps
<1> QED
  BY <1>1 DEF BuildOk, ForItsStep, At

\* A step that only moves one build, to a state it may be in.
LEMMA OneMoves ==
  ASSUME MarketIInv, NEW b \in Builds, NEW m \in BuildRecord, build' = [build EXCEPT ![b] = m], BuildOk(b)',
         UNCHANGED <<hour, identity, quotes, earnings, list, shown, record>>
  PROVE  MarketIInv'
<1>1. build' \in [Builds -> BuildRecord] /\ \A c \in Builds \ {b} : build'[c] = build[c]
  BY DEF MarketIInv, MarketShape
<1>2. MarketShape'
  BY <1>1 DEF MarketIInv, MarketShape
<1>3. StoredNames' = StoredNames
  BY DEF StoredNames
<1>4. RowsAreTimely' /\ EarningsAgree' /\ ListedIsPriced'
  BY <1>3 DEF MarketIInv, RowsAreTimely, EarningsAgree, ListedIsPriced
<1>5. \A c \in Builds \ {b} : BuildOk(c)'
  BY <1>1, <1>3, OthersStay DEF MarketIInv
<1> QED
  BY <1>2, <1>4, <1>5 DEF MarketIInv

LEMMA RestKeeps ==
  ASSUME MarketIInv, NEW b \in Builds, Rest(b), UNCHANGED <<hour, identity, quotes, earnings, list, shown, record>>
  PROVE  MarketIInv'
<1>1. build' = [build EXCEPT ![b] = Resting0] /\ build'[b] = Resting0
  BY DEF Rest, MarketIInv, MarketShape
<1> QED
  BY <1>1, RestingIs, OneMoves

\* A new state of a build, but for what it is for and the names.
LEMMA BeginKeeps ==
  ASSUME MarketIInv, NEW b \in Builds, BeginBuild(b)
  PROVE  MarketIInv'
<1>1. ASSUME NEW for \in {"owner", "public", "catalog", "search"}, NEW names \in SUBSET Names, NEW step \in BuildSteps,
             Starts(b, for, names, step),
             for = "search" => \E s \in Names : names = {s},
             \/ for = "owner" /\ step = "naming"
             \/ for = "public" /\ step = "asking"
             \/ for = "catalog" /\ step = "renaming"
             \/ for = "search" /\ step \in {"naming", "asking"}
      PROVE  MarketIInv'
  <2> DEFINE m == [Resting0 EXCEPT !.for = for, !.names = names, !.step = step]
  <2>1. /\ m \in BuildRecord /\ m.for = for /\ m.names = names /\ m.step = step
        /\ m.answered = {} /\ m.priced = {} /\ m.dated = {}
    BY DEF Resting0, BuildRecord, BuildSteps
  <2>2. build' = [build EXCEPT ![b] = m]
    BY <1>1 DEF Starts
  <2> HIDE DEF m
  <2>3. build'[b] = m
    BY <2>2 DEF MarketIInv, MarketShape
  <2>4. BuildOk(b)'
    BY <1>1, <2>1, <2>3 DEF BuildOk, ForItsStep, At
  <2> QED
    BY <2>1, <2>2, <2>4, OneMoves DEF BeginBuild
<1>2. CASE OwnerBuild(b)
  BY <1>1, <1>2 DEF OwnerBuild, BuildSteps, MarketIInv, MarketShape
<1>3. CASE PublicBuild(b)
  BY <1>1, <1>3 DEF PublicBuild, BuildSteps, MarketIInv, MarketShape
<1>4. CASE CatalogRefresh(b)
  BY <1>1, <1>4 DEF CatalogRefresh, BuildSteps
<1>5. ASSUME NEW s \in Names, SymbolLookup(b, s)
      PROVE  MarketIInv'
  BY <1>1, <1>5 DEF SymbolLookup, BuildSteps
<1> QED
  BY <1>2, <1>3, <1>4, <1>5 DEF BeginBuild

LEMMA AskKeeps ==
  ASSUME MarketIInv, NEW b \in Builds, AskInstruments(b)
  PROVE  MarketIInv'
<1>1. PICK sought \in SUBSET Names, found \in SUBSET Names :
        build' = [build EXCEPT ![b] = [@ EXCEPT !.step = "recording", !.sought = sought, !.found = found, !.at = hour]]
  <2>1. build[b].names \subseteq Names
    BY DEF MarketIInv, MarketShape, BuildRecord
  <2>2. MissingFrom(build[b].names) \subseteq Names
    BY <2>1 DEF MissingFrom
  <2> QED
    BY <2>1, <2>2 DEF AskInstruments, FromPayload
<1> DEFINE old == build[b]
           m == [old EXCEPT !.step = "recording", !.sought = sought, !.found = found, !.at = hour]
<1>2. old \in BuildRecord /\ hour \in Nat /\ BuildOk(b) /\ (At(b, "naming") \/ At(b, "renaming"))
  BY DEF MarketIInv, MarketShape, AskInstruments
<1>3. build' = [build EXCEPT ![b] = m]
  BY <1>1
<1>4. old.for \in {"owner", "search", "catalog"}
  BY <1>2 DEF BuildOk, ForItsStep
<1>5. /\ (old.for = "search" => \E s \in Names : old.names = {s})
      /\ old.answered \subseteq old.names /\ old.priced \subseteq old.answered /\ old.dated \subseteq old.answered
  BY <1>2 DEF BuildOk
<1> HIDE DEF old
<1>6. /\ m \in BuildRecord /\ m.step = "recording" /\ m.for = old.for /\ m.names = old.names
      /\ m.answered = old.answered /\ m.priced = old.priced /\ m.dated = old.dated
  BY <1>2 DEF BuildRecord, BuildSteps
<1> HIDE DEF m
<1>7. build'[b] = m
  BY <1>3 DEF MarketIInv, MarketShape
<1>8. BuildOk(b)'
  BY <1>4, <1>5, <1>6, <1>7 DEF BuildOk, ForItsStep, At
<1> QED
  BY <1>3, <1>6, <1>8, OneMoves DEF AskInstruments

\* No write of the catalog, and none of the list, touches the rows.
LEMMA CatalogStays ==
  ASSUME MarketIInv, identity' \in [Names -> Identities], UNCHANGED <<hour, quotes, earnings, list, shown, record>>,
         \A b \in Builds : BuildOk(b)', build' \in [Builds -> BuildRecord]
  PROVE  MarketIInv'
<1>1. StoredNames' = StoredNames
  BY DEF StoredNames
<1> QED
  BY <1>1 DEF MarketIInv, MarketShape, RowsAreTimely, EarningsAgree, ListedIsPriced

LEMMA PersistCatalogKeeps ==
  ASSUME MarketIInv, NEW b \in Builds, PersistCatalog(b)
  PROVE  MarketIInv'
<1> DEFINE old == build[b]
           m == [old EXCEPT !.step = "asking", !.sought = {}, !.found = {}]
<1>1. old \in BuildRecord /\ BuildOk(b) /\ At(b, "recording") /\ UNCHANGED <<hour, quotes, earnings, list, shown, record>>
  BY DEF MarketIInv, MarketShape, PersistCatalog
<1>2. identity' \in [Names -> Identities]
  BY <1>1 DEF PersistCatalog, Placeholder, Identities, MarketIInv, MarketShape, BuildRecord
<1>3. StoredNames' = StoredNames
  BY <1>1 DEF StoredNames
<1>4. ASSUME NEW c \in Builds \ {b}, build'[c] = build[c]
      PROVE  BuildOk(c)'
  BY <1>1, <1>3, <1>4, OthersStay DEF MarketIInv
<1>5. CASE build' = [build EXCEPT ![b] = Resting0]
  <2>1. build'[b] = Resting0 /\ \A c \in Builds \ {b} : build'[c] = build[c]
    BY <1>5 DEF MarketIInv, MarketShape
  <2>2. \A c \in Builds : BuildOk(c)'
    BY <1>4, <2>1, RestingIs
  <2>3. build' \in [Builds -> BuildRecord]
    BY <1>5, <2>1, RestingIs DEF MarketIInv, MarketShape
  <2> QED
    BY <1>1, <1>2, <2>2, <2>3, CatalogStays
<1>6. CASE /\ build[b].for # "catalog"
           /\ build' = [build EXCEPT ![b] = [@ EXCEPT !.step = "asking", !.sought = {}, !.found = {}]]
  <2>1. build' = [build EXCEPT ![b] = m] /\ old.for \in {"owner", "search", "public"}
    BY <1>1, <1>6 DEF BuildOk, ForItsStep
  <2>2. /\ (old.for = "search" => \E s \in Names : old.names = {s})
        /\ old.answered \subseteq old.names /\ old.priced \subseteq old.answered /\ old.dated \subseteq old.answered
    BY <1>1 DEF BuildOk
  <2> HIDE DEF old
  <2>3. /\ m \in BuildRecord /\ m.step = "asking" /\ m.for = old.for /\ m.names = old.names
        /\ m.answered = old.answered /\ m.priced = old.priced /\ m.dated = old.dated
    BY <1>1 DEF BuildRecord, BuildSteps
  <2> HIDE DEF m
  <2>4. build'[b] = m /\ build' \in [Builds -> BuildRecord] /\ \A c \in Builds \ {b} : build'[c] = build[c]
    BY <2>1, <2>3 DEF MarketIInv, MarketShape
  <2>5. BuildOk(b)'
    BY <2>1, <2>2, <2>3, <2>4 DEF BuildOk, ForItsStep, At
  <2>6. \A c \in Builds : BuildOk(c)'
    BY <1>4, <2>4, <2>5
  <2> QED
    BY <1>1, <1>2, <2>4, <2>6, CatalogStays
<1> QED
  BY <1>5, <1>6 DEF PersistCatalog, Rest

LEMMA SweepKeeps ==
  ASSUME MarketIInv, SweepCatalog
  PROVE  MarketIInv'
<1>1. identity' \in [Names -> Identities] /\ UNCHANGED <<hour, quotes, earnings, list, shown, build, record>>
  BY DEF SweepCatalog, NoIdentity, Identities, MarketIInv, MarketShape
<1>2. StoredNames' = StoredNames
  BY <1>1 DEF StoredNames
<1>3. \A b \in Builds : BuildOk(b)'
  BY <1>1, <1>2, OthersStay DEF MarketIInv
<1> QED
  BY <1>1, <1>3, CatalogStays DEF MarketIInv, MarketShape

LEMMA ReadMarketKeeps ==
  ASSUME MarketIInv, NEW b \in Builds, ReadMarket(b)
  PROVE  MarketIInv'
<1>1. UNCHANGED <<hour, identity, quotes, earnings, list, shown, record>> /\ At(b, "asking")
  BY DEF ReadMarket
<1>2. CASE Rest(b)
  BY <1>1, <1>2, RestKeeps
<1>3. CASE \E answered \in SUBSET build[b].names : \E dated \in SUBSET answered : \E quoted \in SUBSET answered :
             /\ quoted # {}
             /\ build' = [build EXCEPT ![b] = [@ EXCEPT !.step = "earnings", !.answered = answered, !.dated = dated,
                                                        !.priced = quoted, !.at = hour]]
  <2>1. PICK answered \in SUBSET build[b].names, dated \in SUBSET build[b].names, quoted \in SUBSET build[b].names :
             /\ quoted # {} /\ dated \subseteq answered /\ quoted \subseteq answered
             /\ build' = [build EXCEPT ![b] = [@ EXCEPT !.step = "earnings", !.answered = answered, !.dated = dated,
                                                        !.priced = quoted, !.at = hour]]
    BY <1>3
  <2> DEFINE old == build[b]
             m == [old EXCEPT !.step = "earnings", !.answered = answered, !.dated = dated, !.priced = quoted, !.at = hour]
  <2>2. old \in BuildRecord /\ hour \in Nat \ {0} /\ BuildOk(b) /\ old.names \subseteq Names
    BY DEF MarketIInv, MarketShape, BuildRecord
  <2>3. build' = [build EXCEPT ![b] = m] /\ answered \subseteq old.names
    BY <2>1
  <2>4. old.for \in {"owner", "search", "public"} /\ (old.for = "search" => \E s \in Names : old.names = {s})
    BY <1>1, <2>2 DEF BuildOk, ForItsStep, At
  <2> HIDE DEF old
  <2>5. /\ m \in BuildRecord /\ m.step = "earnings" /\ m.for = old.for /\ m.names = old.names
        /\ m.answered = answered /\ m.priced = quoted /\ m.dated = dated /\ m.at = hour
    BY <2>1, <2>2, <2>3 DEF BuildRecord, BuildSteps
  <2> HIDE DEF m
  <2>6. build'[b] = m
    BY <2>3 DEF MarketIInv, MarketShape
  <2>7. hour' = hour /\ hour >= 1 /\ hour <= hour + BuildLimit
    BY <1>1, <2>2, MarketStoreAssumption
  <2>8. ForItsStep(b)'
    BY <2>4, <2>5, <2>6 DEF ForItsStep, At
  <2>9. /\ build'[b].for = "search" => \E s \in Names : build'[b].names = {s}
        /\ build'[b].answered \subseteq build'[b].names /\ build'[b].priced \subseteq build'[b].answered
        /\ build'[b].dated \subseteq build'[b].answered
        /\ build'[b].priced # {} /\ build'[b].at >= 1 /\ build'[b].at <= hour' /\ hour' <= build'[b].at + BuildLimit
        /\ build'[b].step = "earnings"
    <3>1. quoted # {} /\ dated \subseteq answered /\ quoted \subseteq answered /\ hour <= hour /\ hour' = hour
      BY <2>1, <2>2, <2>7
    <3>2. /\ build'[b].step = "earnings" /\ build'[b].for = old.for /\ build'[b].names = old.names
          /\ build'[b].answered = answered /\ build'[b].priced = quoted /\ build'[b].dated = dated /\ build'[b].at = hour
      BY <2>5, <2>6
    <3> QED
      BY <2>3, <2>4, <2>7, <3>1, <3>2
  <2>10. BuildOk(b)'
    BY <2>8, <2>9 DEF BuildOk, At
  <2> QED
    BY <1>1, <2>3, <2>5, <2>10, OneMoves
<1> QED
  BY <1>2, <1>3 DEF ReadMarket, Identified

LEMMA PersistEarningsKeeps ==
  ASSUME MarketIInv, NEW b \in Builds, PersistEarnings(b)
  PROVE  MarketIInv'
<1> DEFINE old == build[b]
           m == [old EXCEPT !.step = "rows"]
           author == [s \in Names |-> IF s \in old.answered THEN b ELSE record.author[s]]
<1>1. /\ old \in BuildRecord /\ BuildOk(b) /\ old.step = "earnings"
      /\ earnings' = (earnings \ old.answered) \cup old.dated
      /\ UNCHANGED <<hour, identity, quotes, list, shown>> /\ build' = [build EXCEPT ![b] = m]
  BY DEF PersistEarnings, RetiredBy, Goes, At, MarketIInv, MarketShape
<1>2. record \in [searched : SUBSET Names, author : [Names -> Builds \cup {"none"}], agreed : SUBSET Names]
  BY DEF MarketIInv, MarketShape
<1>3. record' = [record EXCEPT !.author = author, !.agreed = record.agreed \ old.answered]
  BY <1>2 DEF PersistEarnings
<1>4. author \in [Names -> Builds \cup {"none"}]
  BY <1>2
<1>5. /\ old.answered \subseteq Names /\ old.dated \subseteq old.answered /\ old.priced \subseteq old.answered
      /\ old.answered \subseteq old.names /\ old.for \in {"owner", "search", "public"}
      /\ (old.for = "search" => \E s \in Names : old.names = {s})
      /\ old.priced # {} /\ old.at >= 1 /\ old.at <= hour /\ hour <= old.at + BuildLimit
  BY <1>1 DEF BuildOk, ForItsStep, BuildRecord
<1>6. \A s \in Names : /\ s \in old.answered => (s \in old.dated <=> s \in earnings') /\ author[s] = b
                       /\ s \notin old.answered => (s \in earnings <=> s \in earnings') /\ author[s] = record.author[s]
  BY <1>1, <1>5
<1> HIDE DEF author, old
<1>7. /\ m \in BuildRecord /\ m.step = "rows" /\ m.for = old.for /\ m.names = old.names /\ m.at = old.at
      /\ m.answered = old.answered /\ m.priced = old.priced /\ m.dated = old.dated
  BY <1>1 DEF BuildRecord, BuildSteps
<1> HIDE DEF m
<1>8. /\ record'.author = author /\ record'.agreed = record.agreed \ old.answered /\ record'.searched = record.searched
      /\ record' \in [searched : SUBSET Names, author : [Names -> Builds \cup {"none"}], agreed : SUBSET Names]
  BY <1>2, <1>3, <1>4
<1>9. build'[b] = m /\ build' \in [Builds -> BuildRecord] /\ \A c \in Builds \ {b} : build'[c] = build[c]
  BY <1>1, <1>7 DEF MarketIInv, MarketShape
<1>10. StoredNames' = StoredNames
  BY <1>1 DEF StoredNames
<1>11. MarketShape'
  BY <1>1, <1>5, <1>8, <1>9 DEF MarketIInv, MarketShape
<1>12. RowsAreTimely' /\ ListedIsPriced'
  BY <1>1, <1>8, <1>10 DEF MarketIInv, RowsAreTimely, ListedIsPriced
<1>13. EarningsAgree'
  BY <1>1, <1>2, <1>6, <1>8 DEF MarketIInv, EarningsAgree
<1>14. BuildOk(b)'
  <2>1. ForItsStep(b)'
    BY <1>5, <1>7, <1>9 DEF ForItsStep, At
  <2>2. \A s \in build'[b].answered : s \in build'[b].dated <=> s \in earnings'
    BY <1>5, <1>6, <1>7, <1>9
  <2>3. hour' = hour
    BY <1>1
  <2> QED
    BY <1>5, <1>7, <1>9, <2>1, <2>2, <2>3 DEF BuildOk, At
<1>15. ASSUME NEW c \in Builds \ {b}
       PROVE  BuildOk(c)'
  <2>1. \A s \in build[c].answered : record'.author[s] = c => record.author[s] = c /\ (s \in earnings' <=> s \in earnings)
    <3>1. build[c].answered \subseteq Names
      BY DEF MarketIInv, MarketShape, BuildRecord
    <3> QED
      BY <1>6, <1>8, <3>1
  <2> QED
    BY <1>1, <1>9, <1>10, <2>1, OthersStay DEF MarketIInv
<1> QED
  BY <1>11, <1>12, <1>13, <1>14, <1>15 DEF MarketIInv

LEMMA PersistRowsKeeps ==
  ASSUME MarketIInv, NEW b \in Builds, PersistRows(b)
  PROVE  MarketIInv'
<1> DEFINE old == build[b]
           own == {s \in old.priced : record.author[s] = b}
           agreed == (record.agreed \ old.priced) \cup own
<1>1. /\ old \in BuildRecord /\ BuildOk(b) /\ old.step = "rows" /\ At(b, "rows")
      /\ quotes' = [s \in Names |-> IF s \notin old.priced THEN quotes[s] ELSE
                      [read |-> old.at, observed |-> hour, dated |-> s \in old.dated]]
      /\ record' = [record EXCEPT !.agreed = agreed]
      /\ UNCHANGED <<hour, identity, earnings, list, shown>> /\ hour \in Nat \ {0}
  BY DEF PersistRows, At, MarketIInv, MarketShape
<1>2. \/ build' = [build EXCEPT ![b] = Resting0]
      \/ build' = [build EXCEPT ![b] = [old EXCEPT !.step = "publishing"]] /\ old.for = "owner"
      \/ build' = [build EXCEPT ![b] = [old EXCEPT !.step = "admitting"]] /\ old.for = "search"
  BY <1>1 DEF PersistRows, Goes, Rest, BuildOk, ForItsStep
<1>3. record \in [searched : SUBSET Names, author : [Names -> Builds \cup {"none"}], agreed : SUBSET Names]
  BY DEF MarketIInv, MarketShape
<1>4. /\ old.answered \subseteq Names /\ old.dated \subseteq old.answered /\ old.priced \subseteq old.answered
      /\ old.answered \subseteq old.names /\ (old.for = "search" => \E s \in Names : old.names = {s})
      /\ old.priced # {} /\ old.at \in Nat /\ old.at >= 1 /\ old.at <= hour /\ hour <= old.at + BuildLimit
      /\ \A s \in old.answered : record.author[s] = b => (s \in old.dated <=> s \in earnings)
  BY <1>1 DEF BuildOk, BuildRecord
<1> HIDE DEF old
<1>5. /\ record' \in [searched : SUBSET Names, author : [Names -> Builds \cup {"none"}], agreed : SUBSET Names]
      /\ record'.author = record.author /\ record'.agreed = agreed /\ record'.searched = record.searched
  <2>1. agreed \subseteq Names
    BY <1>3, <1>4
  <2> HIDE DEF agreed
  <2> QED
    BY <1>1, <1>3, <2>1
<1>6. ASSUME NEW s \in Names
      PROVE  /\ s \notin old.priced => quotes'[s] = quotes[s]
             /\ s \in old.priced => /\ quotes'[s] \in MarketRows /\ quotes'[s].read = old.at /\ quotes'[s].observed = hour
                                    /\ (quotes'[s].dated = TRUE <=> s \in old.dated) /\ quotes'[s] # NoMarketRow
  <2>1. CASE s \notin old.priced
    BY <1>1, <2>1
  <2>2. CASE s \in old.priced
    <3> DEFINE dated0 == s \in old.dated
               row == [read |-> old.at, observed |-> hour, dated |-> dated0]
    <3>1. dated0 \in BOOLEAN /\ (dated0 = TRUE <=> s \in old.dated)
      OBVIOUS
    <3>2. quotes'[s] = row
      BY <1>1, <2>2
    <3> HIDE DEF dated0
    <3>3. row \in MarketRows /\ row.read = old.at /\ row.observed = hour /\ row.dated = dated0 /\ row # NoMarketRow
      BY <1>1, <1>4, <3>1 DEF MarketRows, NoMarketRow
    <3> HIDE DEF row
    <3> QED
      BY <2>2, <3>1, <3>2, <3>3
  <2> QED
    BY <2>1, <2>2
<1>7. quotes' \in [Names -> MarketRows]
  <2>1. \A s \in Names : quotes'[s] \in MarketRows
    BY <1>6 DEF MarketIInv, MarketShape
  <2>2. quotes' = [s \in Names |-> quotes'[s]]
    BY <1>1
  <2> QED
    BY <2>1, <2>2
<1>8. StoredNames' = StoredNames \cup old.priced
  BY <1>4, <1>6 DEF StoredNames
<1>9. RowsAreTimely'
  BY <1>1, <1>4, <1>6, <1>8 DEF MarketIInv, RowsAreTimely, StoredNames
<1>10. ListedIsPriced'
  BY <1>5, <1>8 DEF MarketIInv, ListedIsPriced
<1>11. ASSUME NEW s \in agreed
       PROVE  quotes'[s].dated = TRUE <=> s \in earnings
  <2>1. CASE s \in own
    BY <1>4, <1>6, <2>1
  <2>2. CASE s \in record.agreed \ old.priced
    <3>1. s \in Names /\ quotes'[s] = quotes[s]
      BY <1>3, <1>6, <2>2
    <3> QED
      BY <2>2, <3>1 DEF MarketIInv, MarketShape, MarketRows, EarningsAgree
  <2> QED
    BY <1>11, <2>1, <2>2
<1>12. \A s \in agreed : quotes'[s].dated \in BOOLEAN
  BY <1>3, <1>4, <1>7 DEF MarketRows
<1> HIDE DEF agreed, own
<1>13. EarningsAgree'
  BY <1>1, <1>5, <1>11, <1>12 DEF EarningsAgree
<1>14. \A c \in Builds \ {b} : build'[c] = build[c]
  BY <1>2 DEF MarketIInv, MarketShape
<1>15. \A c \in Builds \ {b} : BuildOk(c)'
  BY <1>1, <1>5, <1>8, <1>14, OthersStay DEF MarketIInv
<1>16. BuildOk(b)' /\ build'[b] \in BuildRecord
  <2>1. CASE build' = [build EXCEPT ![b] = Resting0]
    <3>1. build'[b] = Resting0
      BY <2>1 DEF MarketIInv, MarketShape
    <3> QED
      BY <3>1, RestingIs
  <2>2. ASSUME NEW step \in {"publishing", "admitting"}, build' = [build EXCEPT ![b] = [old EXCEPT !.step = step]],
               step = "admitting" => old.for = "search"
        PROVE  BuildOk(b)' /\ build'[b] \in BuildRecord
    <3> DEFINE m == [old EXCEPT !.step = step]
    <3>1. /\ m \in BuildRecord /\ m.step = step /\ m.for = old.for /\ m.names = old.names /\ m.at = old.at
          /\ m.answered = old.answered /\ m.priced = old.priced /\ m.dated = old.dated
      BY <1>1 DEF BuildRecord, BuildSteps
    <3>2. build' = [build EXCEPT ![b] = m]
      BY <2>2
    <3> HIDE DEF m
    <3>3. build'[b] = m
      BY <3>2 DEF MarketIInv, MarketShape
    <3>4. step = "admitting" => old.names \subseteq StoredNames'
      BY <1>4, <1>8, <2>2
    <3>5. ForItsStep(b)'
      BY <2>2, <3>1, <3>3 DEF ForItsStep, At
    <3> QED
      BY <1>4, <3>1, <3>3, <3>4, <3>5 DEF BuildOk, At
  <2> QED
    BY <1>2, <2>1, <2>2
<1>17. build' \in [Builds -> BuildRecord]
  <2>1. build' \in [Builds -> {build'[c] : c \in Builds}]
    BY <1>2 DEF MarketIInv, MarketShape
  <2>2. \A c \in Builds : build'[c] \in BuildRecord
    BY <1>14, <1>16 DEF MarketIInv, MarketShape
  <2> QED
    BY <2>1, <2>2
<1>18. MarketShape'
  BY <1>1, <1>5, <1>7, <1>17 DEF MarketIInv, MarketShape
<1> QED
  BY <1>9, <1>10, <1>13, <1>15, <1>16, <1>18 DEF MarketIInv

LEMMA AdmitKeeps ==
  ASSUME MarketIInv, NEW b \in Builds, AdmitSearched(b)
  PROVE  MarketIInv'
<1>1. /\ build' = [build EXCEPT ![b] = Resting0] /\ build'[b] = Resting0
      /\ UNCHANGED <<hour, identity, quotes, earnings>> /\ build[b].names \subseteq Names /\ build[b].names \subseteq StoredNames
      /\ record \in [searched : SUBSET Names, author : [Names -> Builds \cup {"none"}], agreed : SUBSET Names]
  BY DEF AdmitSearched, Rest, MarketIInv, MarketShape, BuildOk, BuildRecord
<1>2. CASE UNCHANGED <<list, shown, record>>
  BY <1>1, <1>2, RestKeeps DEF Rest
<1>3. CASE /\ list' = list \cup build[b].names /\ shown' = list'
           /\ record' = [record EXCEPT !.searched = @ \cup build[b].names]
  <2> DEFINE searched == record.searched \cup build[b].names
  <2>1. searched \subseteq Names /\ searched \subseteq StoredNames /\ record' = [record EXCEPT !.searched = searched]
    BY <1>1, <1>3 DEF MarketIInv, ListedIsPriced
  <2> HIDE DEF searched
  <2>2. /\ record' \in [searched : SUBSET Names, author : [Names -> Builds \cup {"none"}], agreed : SUBSET Names]
        /\ record'.author = record.author /\ record'.agreed = record.agreed /\ record'.searched = searched
    BY <1>1, <2>1
  <2>3. StoredNames' = StoredNames
    BY <1>1 DEF StoredNames
  <2>4. build' \in [Builds -> BuildRecord] /\ \A c \in Builds \ {b} : build'[c] = build[c]
    BY <1>1, RestingIs DEF MarketIInv, MarketShape
  <2>5. \A c \in Builds : BuildOk(c)'
    BY <1>1, <2>2, <2>3, <2>4, RestingIs, OthersStay DEF MarketIInv
  <2>6. MarketShape'
    BY <1>1, <1>3, <2>2, <2>4 DEF MarketIInv, MarketShape
  <2> QED
    BY <1>1, <2>1, <2>2, <2>3, <2>5, <2>6 DEF MarketIInv, RowsAreTimely, EarningsAgree, ListedIsPriced
<1> QED
  BY <1>2, <1>3 DEF AdmitSearched

LEMMA PublishListKeeps ==
  ASSUME MarketIInv, NEW b \in Builds, PublishList(b)
  PROVE  MarketIInv'
<1>1. /\ build' = [build EXCEPT ![b] = Resting0] /\ build'[b] = Resting0
      /\ UNCHANGED <<hour, identity, quotes, earnings, list, record>> /\ shown' = list
  BY DEF PublishList, Rest, MarketIInv, MarketShape
<1>2. StoredNames' = StoredNames
  BY <1>1 DEF StoredNames
<1>3. build' \in [Builds -> BuildRecord] /\ \A c \in Builds \ {b} : build'[c] = build[c]
  BY <1>1, RestingIs DEF MarketIInv, MarketShape
<1>4. \A c \in Builds : BuildOk(c)'
  BY <1>1, <1>2, <1>3, RestingIs, OthersStay DEF MarketIInv
<1> QED
  BY <1>1, <1>2, <1>3, <1>4 DEF MarketIInv, MarketShape, RowsAreTimely, EarningsAgree, ListedIsPriced

LEMMA UnlistKeeps ==
  ASSUME MarketIInv, NEW s \in Names, Unlist(s)
  PROVE  MarketIInv'
<1> DEFINE searched == record.searched \ {s}
<1>1. /\ record' = [record EXCEPT !.searched = searched] /\ list' = list \ {s} /\ shown' = list'
      /\ UNCHANGED <<hour, identity, quotes, earnings, build>>
      /\ record \in [searched : SUBSET Names, author : [Names -> Builds \cup {"none"}], agreed : SUBSET Names]
  BY DEF Unlist, MarketIInv, MarketShape
<1>2. searched \subseteq Names /\ searched \subseteq StoredNames
  BY <1>1 DEF MarketIInv, ListedIsPriced
<1> HIDE DEF searched
<1>3. /\ record' \in [searched : SUBSET Names, author : [Names -> Builds \cup {"none"}], agreed : SUBSET Names]
      /\ record'.author = record.author /\ record'.agreed = record.agreed /\ record'.searched = searched
  BY <1>1, <1>2
<1>4. StoredNames' = StoredNames
  BY <1>1 DEF StoredNames
<1>5. \A c \in Builds : BuildOk(c)'
  BY <1>1, <1>3, <1>4, OthersStay DEF MarketIInv
<1>6. MarketShape'
  BY <1>1, <1>3 DEF MarketIInv, MarketShape
<1> QED
  BY <1>1, <1>2, <1>3, <1>4, <1>5, <1>6 DEF MarketIInv, RowsAreTimely, EarningsAgree, ListedIsPriced

LEMMA HourKeeps ==
  ASSUME MarketIInv, HourPasses
  PROVE  MarketIInv'
<1>1. /\ hour' = hour + 1 /\ hour \in Nat \ {0} /\ UNCHANGED <<identity, quotes, earnings, list, shown, build, record>>
      /\ \A b \in Builds : build[b].step \in {"earnings", "rows"} => hour < build[b].at + BuildLimit
  BY DEF HourPasses, At, MarketIInv, MarketShape
<1>2. StoredNames' = StoredNames
  BY <1>1 DEF StoredNames
<1>3. \A b \in Builds : build[b].at \in Nat /\ BuildOk(b)
  BY DEF MarketIInv, MarketShape, BuildRecord
<1>4. BuildLimit \in Nat
  BY MarketStoreAssumption
<1>5. ASSUME NEW b \in Builds
      PROVE  BuildOk(b)'
  BY <1>1, <1>2, <1>3, <1>4 DEF BuildOk, ForItsStep, At
<1> QED
  BY <1>1, <1>2, <1>5 DEF MarketIInv, MarketShape, RowsAreTimely, EarningsAgree, ListedIsPriced

LEMMA MarketStep ==
  ASSUME MarketIInv, [MarketNext]_marketVars
  PROVE  MarketIInv'
<1>1. CASE UNCHANGED marketVars
  <2>1. UNCHANGED <<hour, identity, quotes, earnings, list, shown, build, record>>
    BY <1>1 DEF marketVars
  <2>2. StoredNames' = StoredNames
    BY <2>1 DEF StoredNames
  <2>3. \A c \in Builds : BuildOk(c)'
    BY <2>1, <2>2, OthersStay DEF MarketIInv
  <2> QED
    BY <2>1, <2>2, <2>3 DEF MarketIInv, MarketShape, RowsAreTimely, EarningsAgree, ListedIsPriced
<1>2. ASSUME NEW b \in Builds, BuildBreaks(b)
      PROVE  MarketIInv'
  BY <1>2, RestKeeps DEF BuildBreaks
<1> QED
  BY <1>1, <1>2, BeginKeeps, AskKeeps, PersistCatalogKeeps, SweepKeeps, ReadMarketKeeps, PersistEarningsKeeps,
     PersistRowsKeeps, AdmitKeeps, PublishListKeeps, UnlistKeeps, HourKeeps DEF MarketNext

LEMMA MarketBegin ==
  ASSUME MarketInit
  PROVE  MarketIInv
<1>1. StoredNames = {}
  BY DEF MarketInit, StoredNames
<1>2. Resting0 \in BuildRecord /\ Resting0.step = "idle" /\ Resting0.for = "none"
      /\ Resting0.answered = {} /\ Resting0.priced = {} /\ Resting0.dated = {}
  BY DEF Resting0, BuildRecord, BuildSteps
<1>3. identity \in [Names -> Identities]
  BY DEF MarketInit, NoIdentity, Identities
<1>4. quotes \in [Names -> MarketRows]
  BY DEF MarketInit, NoMarketRow, MarketRows
<1>5. record \in [searched : SUBSET Names, author : [Names -> Builds \cup {"none"}], agreed : SUBSET Names]
      /\ record.searched = {} /\ record.agreed = {}
  BY DEF MarketInit
<1>6. build \in [Builds -> BuildRecord] /\ \A b \in Builds : build[b] = Resting0
  BY <1>2 DEF MarketInit
<1>7. hour = 1 /\ earnings = {} /\ list \subseteq Names /\ shown \subseteq Names
  BY MarketStoreAssumption DEF MarketInit
<1>8. MarketShape
  BY <1>3, <1>4, <1>5, <1>6, <1>7 DEF MarketShape
<1>9. \A b \in Builds : BuildOk(b)
  BY <1>2, <1>6 DEF BuildOk, ForItsStep, At
<1> QED
  BY <1>1, <1>5, <1>8, <1>9 DEF MarketIInv, RowsAreTimely, EarningsAgree, ListedIsPriced

\* The oldest writing stands for the whole answer, and is no later than any reading it
\* stands for, but for what a build may take.
LEMMA OldestIsTimely ==
  ASSUME MarketIInv
  PROVE  SyncedAtBounds
<1> SUFFICES ASSUME NEW names \in (SUBSET StoredNames) \ {{}}, NEW s \in names
             PROVE  ObservedAt(names) <= quotes[s].read + BuildLimit
  BY DEF SyncedAtBounds
<1> DEFINE seen == {quotes[t].observed : t \in names}
<1>1. \A t \in names : t \in Names /\ quotes[t].observed \in Nat /\ quotes[t].read \in Nat
  BY DEF MarketIInv, MarketShape, MarketRows, StoredNames
<1>2. seen \subseteq Nat /\ quotes[s].observed \in seen /\ quotes[s].observed \in Nat /\ quotes[s].read \in Nat
  BY <1>1
<1> HIDE DEF seen
<1>3. PICK least \in seen : \A n \in seen : least <= n
  BY <1>2, LeastOf
<1>4. Min(seen) \in seen /\ \A n \in seen : Min(seen) <= n
  BY <1>3 DEF Min
<1>5. ObservedAt(names) = Min(seen)
  BY DEF ObservedAt, seen
<1>6. quotes[s].observed <= quotes[s].read + BuildLimit
  BY DEF MarketIInv, RowsAreTimely
<1>7. Min(seen) \in Nat /\ BuildLimit \in Nat
  BY <1>2, <1>4, MarketStoreAssumption
<1> QED
  BY <1>2, <1>4, <1>5, <1>6, <1>7

LEMMA ResolvedStays ==
  ASSUME MarketIInv, [MarketNext]_marketVars, NEW s \in Names, identity[s].is = "resolved"
  PROVE  identity'[s].is = "resolved"
<1>1. CASE SweepCatalog
  BY <1>1 DEF SweepCatalog, Lapsed
<1>2. ASSUME NEW b \in Builds, PersistCatalog(b)
      PROVE  identity'[s].is = "resolved"
  BY <1>2 DEF PersistCatalog, Placeholder
<1>3. CASE identity' = identity
  BY <1>3
<1>4. HourPasses \/ UNCHANGED marketVars => identity' = identity
  BY DEF HourPasses, marketVars
<1>5. \A t \in Names : Unlist(t) => identity' = identity
  BY DEF Unlist
<1>6. \A b \in Builds :
        BeginBuild(b) \/ AskInstruments(b) \/ ReadMarket(b) \/ PersistEarnings(b) \/ PersistRows(b)
        \/ PublishList(b) \/ AdmitSearched(b) \/ BuildBreaks(b) => identity' = identity
  BY DEF BeginBuild, AskInstruments, ReadMarket, PersistEarnings, PersistRows, PublishList, AdmitSearched, BuildBreaks
<1> QED
  BY <1>1, <1>2, <1>3, <1>4, <1>5, <1>6 DEF MarketNext

\* Whatever builds overlap, fail or are overtaken, no stored snapshot is later than a
\* reading it holds by more than a build lives, the calendar and the row of a name agree
\* when one build wrote both last, a searched name has its price before it is listed, and
\* a resolved identity is never lost (tastytrade.ts, tastytrade-market-store.ts): for any
\* names and builds.
THEOREM MarketStoreHolds == MarketSpec => MarketStoreKept
<1>1. MarketInit => MarketIInv
  BY MarketBegin
<1>2. MarketIInv /\ [MarketNext]_marketVars => MarketIInv'
  BY MarketStep
<1>3. MarketIInv => MarketStoreInv
  BY OldestIsTimely DEF MarketIInv, MarketStoreInv
<1>4. MarketIInv /\ [MarketNext]_marketVars =>
        [\A s \in Names : identity[s].is = "resolved" => identity'[s].is = "resolved"]_marketVars
  BY ResolvedStays
<1> QED
  BY <1>1, <1>2, <1>3, <1>4, PTL DEF MarketSpec, MarketStoreKept, IdentityKept

(***************************************************************************)
(* The search that readers share                                           *)
(***************************************************************************)

SeekerSteps == {"idle", "reading", "claiming", "waiting"} \cup Holding
SeekerRecord ==
  [step : SeekerSteps, place : Places \cup {"none"}, round : Nat, stored : BOOLEAN, claimed : Nat, asked : Nat]
CatalogRows == [is : {"none", "resolved", "inactive", "unresolved"}, at : Nat]

SearchShape ==
  /\ time \in Nat /\ claim \in Nat /\ catalog \in CatalogRows
  /\ seeker \in [Seekers -> SeekerRecord] /\ \A r \in Seekers : seeker[r].claimed <= time
  /\ history \in [found : Int, unlisted : Int, late : BOOLEAN, open : BOOLEAN]

Holds(r) == seeker[r].step \in Holding
Expiry(r) == seeker[r].claimed + LookupLease

\* The claim in the store is the one of each that holds one, unless its time is over; so is
\* the claim of the last lookup that found the symbol.
ClaimsInv ==
  /\ \A r \in Seekers : Holds(r) => claim = Expiry(r) \/ Expiry(r) <= time
  /\ \A r, s \in Seekers : r # s /\ Holds(r) /\ Holds(s) /\ Expiry(r) = Expiry(s) => Expiry(r) <= time
  /\ claim = history.found + LookupLease \/ history.found + LookupLease <= time
  /\ \A r \in Seekers : Holds(r) /\ seeker[r].claimed = history.found => Expiry(r) <= time

\* Until a lookup outlives its claim, all are within theirs.
InTime == \A r \in Seekers : Holds(r) \/ Is(r, "claiming") => time < Expiry(r)

\* A ticker the broker does not list has its placeholder, until the interval has passed.
PlaceholderStands ==
  \/ history.unlisted + RetryInterval <= time
  \/ catalog.is \in {"resolved", "inactive"}
  \/ catalog.is = "unresolved" /\ catalog.at = history.unlisted

SearchIInv ==
  /\ SearchShape /\ PlaceholderStands /\ JunkAskedOnce
  /\ history.open = FALSE => ClaimsInv
  /\ history.late = FALSE => InTime

LEMMA SearchFacts ==
  ASSUME SearchShape
  PROVE  /\ time \in Nat /\ claim \in Nat /\ LookupLease \in Nat /\ LookupLease > 0
         /\ RetryInterval \in Nat /\ RetryInterval > 0
         /\ history.found \in Int /\ history.unlisted \in Int /\ history.open \in BOOLEAN /\ history.late \in BOOLEAN
         /\ \A r \in Seekers : /\ seeker[r] \in SeekerRecord /\ seeker[r].claimed \in Nat /\ seeker[r].asked \in Nat
                               /\ seeker[r].claimed <= time /\ Expiry(r) \in Nat
  BY SearchAssumption DEF SearchShape, SeekerRecord, Expiry

\* Under its claim, and as long as none outlives its own, one request at a time looks up.
LEMMA OneHolds ==
  ASSUME SearchIInv, history.open = FALSE, history.late = FALSE,
         NEW r \in Seekers, NEW s \in Seekers, Holds(r), Holds(s)
  PROVE  r = s
<1>1. ClaimsInv /\ InTime /\ SearchShape
  BY DEF SearchIInv
<1>2. time < Expiry(r) /\ time < Expiry(s) /\ time \in Nat /\ Expiry(r) \in Nat /\ Expiry(s) \in Nat
  BY <1>1, SearchFacts DEF InTime
<1>3. ~(Expiry(r) <= time) /\ ~(Expiry(s) <= time)
  BY <1>2
<1>4. claim = Expiry(r) /\ claim = Expiry(s)
  BY <1>1, <1>3 DEF ClaimsInv
<1>5. r # s => Expiry(r) <= time
  BY <1>1, <1>4 DEF ClaimsInv
<1> QED
  BY <1>3, <1>5

\* A step that only moves one request, which does not take a claim by it.
LEMMA SeekerMoves ==
  ASSUME SearchIInv, NEW r \in Seekers, NEW m \in SeekerRecord, seeker' = [seeker EXCEPT ![r] = m],
         UNCHANGED <<time, claim, catalog, history>>,
         m.claimed <= time,
         m.step \in Holding => Holds(r) /\ m.claimed = seeker[r].claimed,
         m.step = "claiming" => m.claimed = time,
         m.step = "asking" => m.asked >= history.unlisted + RetryInterval
  PROVE  SearchIInv'
<1>1. SearchShape
  BY DEF SearchIInv
<1>2. seeker' \in [Seekers -> SeekerRecord] /\ seeker'[r] = m /\ \A s \in Seekers \ {r} : seeker'[s] = seeker[s]
  BY <1>1 DEF SearchShape
<1>3. SearchShape'
  BY <1>1, <1>2 DEF SearchShape
<1>4. \A s \in Seekers : Holds(s)' => Holds(s) /\ Expiry(s)' = Expiry(s) /\ seeker'[s].claimed = seeker[s].claimed
  BY <1>2 DEF Holds, Expiry
<1>5. ClaimsInv => ClaimsInv'
  BY <1>4 DEF ClaimsInv
<1>6. InTime => InTime'
  <2> SUFFICES ASSUME InTime, NEW s \in Seekers, Holds(s)' \/ Is(s, "claiming")'
               PROVE  time < Expiry(s)'
    BY DEF InTime
  <2>1. CASE s # r
    BY <1>2, <2>1 DEF InTime, Holds, Is, Expiry
  <2>2. CASE s = r /\ m.step \in Holding
    BY <1>4, <1>2, <2>2 DEF InTime, Holds
  <2>3. CASE s = r /\ m.step = "claiming"
    BY <1>1, <1>2, <2>3, SearchFacts DEF Expiry
  <2> QED
    BY <1>2, <2>1, <2>2, <2>3 DEF Holds, Is
<1>7. JunkAskedOnce'
  <2> SUFFICES ASSUME ~history.open, ~history.late, NEW s \in Seekers, seeker'[s].step = "asking"
               PROVE  seeker'[s].asked >= history.unlisted + RetryInterval
    BY DEF JunkAskedOnce, Is
  <2>1. CASE s = r
    BY <1>2, <2>1
  <2>2. CASE s # r
    BY <1>2, <2>2 DEF SearchIInv, JunkAskedOnce, Is
  <2> QED
    BY <2>1, <2>2
<1> QED
  BY <1>3, <1>5, <1>6, <1>7 DEF SearchIInv, PlaceholderStands

\* The request's fields, once it moves to another step.
LEMMA MovedTo ==
  ASSUME SearchShape, NEW r \in Seekers, NEW step \in SeekerSteps, Moves(r, step)
  PROVE  \E m \in SeekerRecord : /\ seeker' = [seeker EXCEPT ![r] = m]
                                 /\ m.step = step /\ m.claimed = seeker[r].claimed /\ m.asked = seeker[r].asked
<1> DEFINE old == seeker[r]
           m == [old EXCEPT !.step = step]
<1>1. old \in SeekerRecord /\ seeker' = [seeker EXCEPT ![r] = m]
  BY DEF SearchShape, Moves
<1> HIDE DEF old
<1>2. m \in SeekerRecord /\ m.step = step /\ m.claimed = old.claimed /\ m.asked = old.asked
  BY <1>1 DEF SeekerRecord
<1> QED
  BY <1>1, <1>2 DEF old

LEMMA RestedIs ==
  /\ Resting \in SeekerRecord /\ Resting.step = "idle" /\ Resting.claimed = 0
  BY DEF Resting, SeekerRecord, SeekerSteps

LEMMA RestsKeeps ==
  ASSUME SearchIInv, NEW r \in Seekers, Rests(r), UNCHANGED <<time, claim, catalog, history>>
  PROVE  SearchIInv'
<1>1. 0 <= time
  BY SearchFacts DEF SearchIInv
<1> QED
  BY <1>1, RestedIs, SeekerMoves DEF Rests, Holding, Lookup

\* A move to a step of the same claim, or to one without.
LEMMA MovesKeeps ==
  ASSUME SearchIInv, NEW r \in Seekers, NEW step \in SeekerSteps, Moves(r, step),
         UNCHANGED <<time, claim, catalog, history>>,
         step \in Holding => Holds(r), step \notin {"claiming", "asking"}
  PROVE  SearchIInv'
<1>1. PICK m \in SeekerRecord : /\ seeker' = [seeker EXCEPT ![r] = m]
                                /\ m.step = step /\ m.claimed = seeker[r].claimed /\ m.asked = seeker[r].asked
  BY MovedTo DEF SearchIInv
<1>2. seeker[r].claimed <= time
  BY SearchFacts DEF SearchIInv
<1> QED
  BY <1>1, <1>2, SeekerMoves

LEMMA SearchBegins ==
  ASSUME SearchIInv, NEW r \in Seekers, NEW p \in Places, Search(r, p)
  PROVE  SearchIInv'
<1> DEFINE m == [Resting EXCEPT !.step = "reading", !.place = p]
<1>1. seeker' = [seeker EXCEPT ![r] = m] /\ UNCHANGED <<time, claim, catalog, history>>
  BY DEF Search
<1>2. m \in SeekerRecord /\ m.step = "reading" /\ m.claimed = 0
  BY DEF Resting, SeekerRecord, SeekerSteps
<1> HIDE DEF m
<1>3. m.claimed <= time /\ m.step \notin Holding /\ m.step # "claiming" /\ m.step # "asking"
  BY <1>2, SearchFacts DEF SearchIInv, Holding, Lookup
<1> QED
  BY <1>1, <1>2, <1>3, SeekerMoves

LEMMA ReadStoreKeeps ==
  ASSUME SearchIInv, NEW r \in Seekers, ReadStore(r)
  PROVE  SearchIInv'
<1>1. PICK stored \in BOOLEAN :
        seeker' = [seeker EXCEPT ![r] = [@ EXCEPT !.step = "claiming", !.stored = stored, !.claimed = time]]
  BY DEF ReadStore, Held
<1> DEFINE old == seeker[r]
           m == [old EXCEPT !.step = "claiming", !.stored = stored, !.claimed = time]
<1>2. old \in SeekerRecord /\ time \in Nat /\ UNCHANGED <<time, claim, catalog, history>>
  BY SearchFacts DEF SearchIInv, ReadStore
<1>3. seeker' = [seeker EXCEPT ![r] = m]
  BY <1>1
<1> HIDE DEF old
<1>4. m \in SeekerRecord /\ m.step = "claiming" /\ m.claimed = time
  BY <1>2 DEF SeekerRecord, SeekerSteps
<1> HIDE DEF m
<1>5. m.claimed <= time /\ m.step \notin Holding /\ m.step # "asking"
  BY <1>2, <1>4 DEF Holding, Lookup
<1> QED
  BY <1>2, <1>3, <1>4, <1>5, SeekerMoves

LEMMA ClaimTakenKeeps ==
  ASSUME SearchIInv, NEW r \in Seekers, ClaimTaken(r)
  PROVE  SearchIInv'
<1>1. UNCHANGED <<time, claim, catalog, history>>
  BY DEF ClaimTaken
<1>2. CASE Rests(r)
  BY <1>1, <1>2, RestsKeeps
<1>3. CASE seeker' = [seeker EXCEPT ![r] =
               IF @.round = LastRound THEN Resting
               ELSE [Resting EXCEPT !.step = "waiting", !.place = seeker[r].place, !.round = seeker[r].round + 1]]
  <2> DEFINE next == seeker[r].round + 1
             place == seeker[r].place
             m == [Resting EXCEPT !.step = "waiting", !.place = place, !.round = next]
  <2>1. place \in Places \cup {"none"} /\ next \in Nat /\ 0 <= time
    BY SearchFacts DEF SearchIInv, SearchShape, SeekerRecord
  <2>2. seeker' = [seeker EXCEPT ![r] = m] \/ Rests(r)
    BY <1>3 DEF Rests
  <2> HIDE DEF next, place
  <2>3. m \in SeekerRecord /\ m.step = "waiting" /\ m.claimed = 0
    BY <2>1 DEF Resting, SeekerRecord, SeekerSteps
  <2> HIDE DEF m
  <2> QED
    BY <1>1, <2>1, <2>2, <2>3, RestsKeeps, SeekerMoves DEF Holding, Lookup
<1> QED
  BY <1>2, <1>3 DEF ClaimTaken

\* The placeholder answers until its interval has passed: then the broker may be asked.
LEMMA ResolveKeeps ==
  ASSUME SearchIInv, NEW r \in Seekers, Resolve(r)
  PROVE  SearchIInv'
<1>1. UNCHANGED <<time, claim, catalog, history>> /\ Holds(r) /\ SearchShape
  BY DEF Resolve, Is, Holds, Holding, Lookup, SearchIInv
<1>2. CASE Moves(r, "quoting") \/ Moves(r, "missing")
  BY <1>1, <1>2, MovesKeeps DEF SeekerSteps, Holding, Lookup
<1>3. CASE /\ catalog # Resolved /\ Due(time)
           /\ seeker' = [seeker EXCEPT ![r] = [@ EXCEPT !.step = "asking", !.asked = time]]
  <2> DEFINE old == seeker[r]
             m == [old EXCEPT !.step = "asking", !.asked = time]
  <2>1. old \in SeekerRecord /\ time \in Nat /\ old.claimed <= time
    BY <1>1, SearchFacts
  <2>2. seeker' = [seeker EXCEPT ![r] = m]
    BY <1>3
  <2>3. time >= history.unlisted + RetryInterval
    BY <1>1, <1>3, SearchFacts DEF Due, SearchIInv, PlaceholderStands
  <2> HIDE DEF old
  <2>4. m \in SeekerRecord /\ m.step = "asking" /\ m.claimed = old.claimed /\ m.asked = time
    BY <2>1 DEF SeekerRecord, SeekerSteps, Holding, Lookup
  <2> HIDE DEF m
  <2> QED
    BY <1>1, <2>1, <2>2, <2>3, <2>4, SeekerMoves DEF old
<1> QED
  BY <1>2, <1>3 DEF Resolve

LEMMA QuietKeeps ==
  ASSUME SearchIInv, NEW r \in Seekers,
         AnswerStored(r) \/ Awake(r) \/ Quote(r) \/ LookupFails(r) \/ KeepMissed(r) \/ Abandon(r)
  PROVE  SearchIInv'
<1>1. UNCHANGED <<time, claim, catalog, history>>
  BY DEF AnswerStored, Awake, Quote, LookupFails, KeepMissed, Abandon
<1>2. CASE Rests(r)
  BY <1>1, <1>2, RestsKeeps
<1>3. CASE Moves(r, "reading")
  BY <1>1, <1>3, MovesKeeps DEF SeekerSteps, Holding, Lookup
<1>4. CASE Holds(r) /\ (Moves(r, "keeping") \/ Moves(r, "missing") \/ Moves(r, "releasing"))
  BY <1>1, <1>4, MovesKeeps DEF SeekerSteps, Holding, Lookup
<1> QED
  BY <1>2, <1>3, <1>4 DEF AnswerStored, Awake, Quote, LookupFails, KeepMissed, Abandon, Is, Holds, Holding, Lookup

LEMMA GrantedIs ==
  ASSUME SearchShape, NEW r \in Seekers, Granted(r)
  PROVE  /\ seeker' \in [Seekers -> SeekerRecord] /\ \A s \in Seekers \ {r} : seeker'[s] = seeker[s]
         /\ seeker'[r].step = "resolving" /\ seeker'[r].claimed = seeker[r].claimed
<1> DEFINE old == seeker[r]
           m == [old EXCEPT !.step = "resolving", !.stored = FALSE, !.round = 0]
<1>1. old \in SeekerRecord /\ seeker' = [seeker EXCEPT ![r] = m]
  BY DEF SearchShape, Granted
<1> HIDE DEF old
<1>2. m \in SeekerRecord /\ m.step = "resolving" /\ m.claimed = old.claimed
  BY <1>1 DEF SeekerRecord, SeekerSteps, Holding, Lookup
<1> HIDE DEF m
<1> QED
  BY <1>1, <1>2 DEF SearchShape, old

LEMMA ClaimKeeps ==
  ASSUME SearchIInv, NEW r \in Seekers, ClaimLookup(r)
  PROVE  SearchIInv'
<1>1. /\ SearchShape /\ Is(r, "claiming") /\ claim <= seeker[r].claimed /\ claim' = Expiry(r)
      /\ UNCHANGED <<time, catalog, history>> /\ Granted(r) /\ seeker[r].step = "claiming"
  BY DEF SearchIInv, ClaimLookup, Expiry, Is
<1>2. /\ seeker' \in [Seekers -> SeekerRecord] /\ \A s \in Seekers \ {r} : seeker'[s] = seeker[s]
      /\ seeker'[r].step = "resolving" /\ seeker'[r].claimed = seeker[r].claimed
  BY <1>1, GrantedIs
<1>3. \A s \in Seekers : Expiry(s)' = Expiry(s) /\ seeker'[s].claimed = seeker[s].claimed
  BY <1>2 DEF Expiry
<1>4. \A s \in Seekers \ {r} : Holds(s)' <=> Holds(s)
  BY <1>2 DEF Holds
<1>5. SearchShape'
  BY <1>1, <1>2, <1>3, SearchFacts DEF SearchShape
<1>6. ASSUME ClaimsInv
      PROVE  ClaimsInv'
  <2>1. /\ time \in Nat /\ claim \in Nat /\ seeker[r].claimed \in Nat /\ seeker[r].claimed <= time /\ Expiry(r) \in Nat
        /\ history.found \in Int /\ LookupLease \in Nat /\ LookupLease > 0 /\ Expiry(r) > seeker[r].claimed
    BY <1>1, SearchFacts DEF Expiry
  <2>2. ASSUME NEW s \in Seekers \ {r}, Holds(s)
        PROVE  Expiry(s) <= time
    BY <1>1, <1>6, <2>1, <2>2 DEF ClaimsInv
  <2>3. history.found + LookupLease <= time
    BY <1>1, <1>6, <2>1 DEF ClaimsInv
  <2>4. seeker[r].claimed = history.found => Expiry(r) <= time
    BY <2>1, <2>3 DEF Expiry
  <2> QED
    BY <1>1, <1>3, <1>4, <2>2, <2>3, <2>4 DEF ClaimsInv
<1>7. InTime => InTime'
  BY <1>1, <1>2, <1>3, <1>4 DEF InTime, Is
<1>8. JunkAskedOnce'
  BY <1>1, <1>2 DEF SearchIInv, JunkAskedOnce, Is
<1> QED
  BY <1>1, <1>5, <1>6, <1>7, <1>8 DEF SearchIInv, PlaceholderStands

LEMMA ClaimUnansweredKeeps ==
  ASSUME SearchIInv, NEW r \in Seekers, ClaimUnanswered(r)
  PROVE  SearchIInv' /\ history'.open = TRUE
<1>1. /\ SearchShape /\ seeker[r].step = "claiming" /\ Granted(r) /\ history' = [history EXCEPT !.open = TRUE]
      /\ UNCHANGED <<time, claim, catalog>>
  BY DEF SearchIInv, ClaimUnanswered, Is
<1>2. /\ seeker' \in [Seekers -> SeekerRecord] /\ \A s \in Seekers \ {r} : seeker'[s] = seeker[s]
      /\ seeker'[r].step = "resolving" /\ seeker'[r].claimed = seeker[r].claimed
  BY <1>1, GrantedIs
<1>3. /\ history'.open = TRUE /\ history'.unlisted = history.unlisted /\ history'.late = history.late
      /\ history' \in [found : Int, unlisted : Int, late : BOOLEAN, open : BOOLEAN]
  BY <1>1 DEF SearchShape
<1>4. SearchShape'
  BY <1>1, <1>2, <1>3 DEF SearchShape
<1>5. InTime => InTime'
  BY <1>1, <1>2 DEF InTime, Is, Holds, Expiry
<1> QED
  BY <1>1, <1>3, <1>4, <1>5 DEF SearchIInv, PlaceholderStands, JunkAskedOnce

LEMMA AskUnlistedKeeps ==
  ASSUME SearchIInv, NEW r \in Seekers, Ask(r)
  PROVE  SearchIInv'
<1> DEFINE old == seeker[r]
           m == [old EXCEPT !.step = "quoting", !.asked = 0]
           unlisted == IF listed THEN history.unlisted ELSE old.asked
<1>1. /\ SearchShape /\ old \in SeekerRecord /\ old.step = "asking" /\ UNCHANGED <<time, claim>>
      /\ seeker' = [seeker EXCEPT ![r] = m] /\ old.asked \in Nat
      /\ history \in [found : Int, unlisted : Int, late : BOOLEAN, open : BOOLEAN]
  BY SearchFacts DEF SearchIInv, SearchShape, Ask, Is
<1>2. unlisted \in Int /\ history' = [history EXCEPT !.unlisted = unlisted]
  BY <1>1 DEF Ask
<1>3. /\ catalog' \in CatalogRows
      /\ \/ catalog'.is \in {"resolved", "inactive"}
         \/ catalog'.is = "unresolved" /\ catalog'.at = unlisted
  BY <1>1 DEF Ask, Resolved, Delisted, CatalogRows, SearchShape
<1> HIDE DEF unlisted, old
<1>4. /\ history'.found = history.found /\ history'.late = history.late /\ history'.open = history.open
      /\ history'.unlisted = unlisted /\ history' \in [found : Int, unlisted : Int, late : BOOLEAN, open : BOOLEAN]
  BY <1>1, <1>2
<1>5. m \in SeekerRecord /\ m.step = "quoting" /\ m.claimed = old.claimed
  BY <1>1 DEF SeekerRecord, SeekerSteps, Holding, Lookup
<1> HIDE DEF m
<1>6. seeker' \in [Seekers -> SeekerRecord] /\ seeker'[r] = m /\ \A s \in Seekers \ {r} : seeker'[s] = seeker[s]
  BY <1>1, <1>5 DEF SearchShape
<1>7. \A s \in Seekers : /\ Holds(s)' <=> Holds(s)
                         /\ Expiry(s)' = Expiry(s) /\ seeker'[s].claimed = seeker[s].claimed
  BY <1>1, <1>5, <1>6 DEF Holds, Expiry, old, Holding, Lookup
<1>8. SearchShape'
  BY <1>1, <1>3, <1>4, <1>6, <1>7 DEF SearchShape
<1>9. ClaimsInv => ClaimsInv'
  BY <1>1, <1>4, <1>7 DEF ClaimsInv
<1>10. InTime => InTime'
  BY <1>1, <1>5, <1>6, <1>7 DEF InTime, Is
<1>11. JunkAskedOnce'
  <2> SUFFICES ASSUME ~history'.open, ~history'.late, NEW s \in Seekers, seeker'[s].step = "asking" PROVE FALSE
    BY DEF JunkAskedOnce, Is
  <2>1. s # r /\ seeker[s].step = "asking"
    BY <1>5, <1>6
  <2>2. history.open = FALSE /\ history.late = FALSE
    BY <1>1, <1>4
  <2>3. Holds(s) /\ Holds(r)
    BY <1>1, <2>1 DEF Holds, Holding, Lookup, old
  <2> QED
    BY <2>1, <2>2, <2>3, OneHolds
<1>12. PlaceholderStands'
  BY <1>3, <1>4 DEF PlaceholderStands
<1> QED
  BY <1>4, <1>8, <1>9, <1>10, <1>11, <1>12 DEF SearchIInv

LEMMA KeepFoundKeeps ==
  ASSUME SearchIInv, NEW r \in Seekers, KeepFound(r)
  PROVE  SearchIInv'
<1> DEFINE found == Max({history.found, seeker[r].claimed})
<1>1. /\ SearchShape /\ Holds(r) /\ UNCHANGED <<time, claim, catalog>> /\ seeker' = [seeker EXCEPT ![r] = Resting]
      /\ history \in [found : Int, unlisted : Int, late : BOOLEAN, open : BOOLEAN]
  BY DEF SearchIInv, SearchShape, KeepFound, Is, Holds, Holding, Lookup, Rests
<1>2. history' = [history EXCEPT !.found = found]
  BY <1>1 DEF KeepFound
<1>3. history.found \in Int /\ seeker[r].claimed \in Int
  BY <1>1, SearchFacts
<1>4. found = history.found \/ found = seeker[r].claimed
  BY <1>3 DEF Max
<1> HIDE DEF found
<1>5. /\ history'.found = found /\ history'.late = history.late /\ history'.open = history.open
      /\ history'.unlisted = history.unlisted
      /\ history' \in [found : Int, unlisted : Int, late : BOOLEAN, open : BOOLEAN]
  BY <1>1, <1>2, <1>3, <1>4
<1>6. /\ seeker' \in [Seekers -> SeekerRecord] /\ seeker'[r] = Resting
      /\ \A s \in Seekers \ {r} : seeker'[s] = seeker[s]
  BY <1>1, RestedIs DEF SearchShape
<1>7. ~Holds(r)' /\ ~Is(r, "claiming")' /\ ~Is(r, "asking")'
  BY <1>6, RestedIs DEF Holds, Is, Holding, Lookup
<1>8. \A s \in Seekers \ {r} : /\ Holds(s)' <=> Holds(s)
                               /\ Expiry(s)' = Expiry(s) /\ seeker'[s].claimed = seeker[s].claimed
  BY <1>6 DEF Holds, Expiry
<1>9. SearchShape'
  <2>1. 0 <= time
    BY <1>1, SearchFacts
  <2> QED
    BY <1>1, <1>5, <1>6, <1>8, <2>1, RestedIs DEF SearchShape
<1>10. ASSUME ClaimsInv
       PROVE  ClaimsInv'
  <2>1. claim = found + LookupLease \/ found + LookupLease <= time
    BY <1>1, <1>4, <1>10 DEF ClaimsInv, Expiry
  <2>2. ASSUME NEW s \in Seekers \ {r}, Holds(s), seeker[s].claimed = found
        PROVE  Expiry(s) <= time
    <3>1. seeker[s].claimed = seeker[r].claimed => Expiry(s) = Expiry(r)
      BY DEF Expiry
    <3> QED
      BY <1>1, <1>4, <1>10, <2>2, <3>1 DEF ClaimsInv
  <2> QED
    BY <1>1, <1>5, <1>7, <1>8, <1>10, <2>1, <2>2 DEF ClaimsInv
<1>11. InTime => InTime'
  BY <1>1, <1>6, <1>7, <1>8 DEF InTime, Is
<1>12. JunkAskedOnce'
  BY <1>5, <1>6, <1>7 DEF SearchIInv, JunkAskedOnce, Is
<1> QED
  BY <1>1, <1>5, <1>9, <1>10, <1>11, <1>12 DEF SearchIInv, PlaceholderStands

LEMMA ReleaseKeeps ==
  ASSUME SearchIInv, NEW r \in Seekers, Release(r)
  PROVE  SearchIInv'
<1>1. /\ SearchShape /\ Holds(r) /\ UNCHANGED <<time, catalog, history>> /\ seeker' = [seeker EXCEPT ![r] = Resting]
      /\ claim' = claim \/ (claim = Expiry(r) /\ claim' = 0)
  BY DEF SearchIInv, Release, Is, Holds, Holding, Lookup, Rests, Expiry
<1>2. /\ seeker' \in [Seekers -> SeekerRecord] /\ seeker'[r] = Resting
      /\ \A s \in Seekers \ {r} : seeker'[s] = seeker[s]
  BY <1>1, RestedIs DEF SearchShape
<1>3. ~Holds(r)' /\ ~Is(r, "claiming")' /\ ~Is(r, "asking")'
  BY <1>2, RestedIs DEF Holds, Is, Holding, Lookup
<1>4. \A s \in Seekers \ {r} : /\ Holds(s)' <=> Holds(s)
                               /\ Expiry(s)' = Expiry(s) /\ seeker'[s].claimed = seeker[s].claimed
  BY <1>2 DEF Holds, Expiry
<1>5. SearchShape'
  <2>1. 0 <= time /\ claim' \in Nat
    BY <1>1, SearchFacts
  <2> QED
    BY <1>1, <1>2, <1>4, <2>1, RestedIs DEF SearchShape
<1>6. ASSUME ClaimsInv
      PROVE  ClaimsInv'
  <2>1. CASE claim' = claim
    BY <1>1, <1>3, <1>4, <1>6, <2>1 DEF ClaimsInv
  <2>2. CASE claim = Expiry(r)
    <3>1. ASSUME NEW s \in Seekers \ {r}, Holds(s)
          PROVE  Expiry(s) <= time
      BY <1>1, <1>6, <2>2, <3>1 DEF ClaimsInv
    <3>2. history.found + LookupLease <= time
      <4>1. history.found + LookupLease = Expiry(r) => seeker[r].claimed = history.found
        BY <1>1, SearchFacts DEF Expiry
      <4>2. history.found + LookupLease \in Int /\ Expiry(r) \in Int
        BY <1>1, SearchFacts
      <4> QED
        BY <1>1, <1>6, <2>2, <4>1, <4>2 DEF ClaimsInv
    <3> QED
      BY <1>1, <1>3, <1>4, <3>1, <3>2 DEF ClaimsInv
  <2> QED
    BY <1>1, <2>1, <2>2
<1>7. InTime => InTime'
  BY <1>1, <1>2, <1>3, <1>4 DEF InTime, Is
<1>8. JunkAskedOnce'
  BY <1>1, <1>2, <1>3 DEF SearchIInv, JunkAskedOnce, Is
<1> QED
  BY <1>1, <1>5, <1>6, <1>7, <1>8 DEF SearchIInv, PlaceholderStands

LEMMA SweepsKeep ==
  ASSUME SearchIInv, Sweep
  PROVE  SearchIInv'
<1>1. /\ SearchShape /\ UNCHANGED <<time, seeker, history>>
      /\ \/ claim <= time /\ claim' = 0 /\ UNCHANGED catalog
         \/ catalog.is = "unresolved" /\ catalog.at <= time - RetryInterval /\ catalog' = Unknown /\ UNCHANGED claim
  BY DEF SearchIInv, Sweep
<1>2. SearchShape'
  BY <1>1 DEF SearchShape, Unknown, CatalogRows
<1>3. ClaimsInv => ClaimsInv'
  <2>1. \A r \in Seekers : (Holds(r)' <=> Holds(r)) /\ Expiry(r)' = Expiry(r)
    BY <1>1 DEF Holds, Expiry
  <2>2. CASE claim' = claim
    BY <1>1, <2>1, <2>2 DEF ClaimsInv
  <2>3. CASE claim <= time /\ claim' = 0
    BY <1>1, <2>1, <2>3 DEF ClaimsInv
  <2> QED
    BY <1>1, <2>2, <2>3
<1>4. InTime => InTime'
  BY <1>1 DEF InTime, Is, Holds, Expiry
<1>5. PlaceholderStands'
  <2>1. CASE catalog' = catalog
    BY <1>1, <2>1 DEF SearchIInv, PlaceholderStands
  <2>2. CASE catalog.is = "unresolved" /\ catalog.at <= time - RetryInterval
    <3>1. time \in Nat /\ RetryInterval \in Nat /\ catalog.at \in Nat /\ history.unlisted \in Int
      BY <1>1, SearchFacts DEF SearchShape, CatalogRows
    <3>2. history.unlisted + RetryInterval <= time
      BY <2>2, <3>1 DEF SearchIInv, PlaceholderStands
    <3> QED
      BY <1>1, <3>2 DEF PlaceholderStands
  <2> QED
    BY <1>1, <2>1, <2>2
<1>6. JunkAskedOnce'
  BY <1>1 DEF SearchIInv, JunkAskedOnce, Is
<1> QED
  BY <1>1, <1>2, <1>3, <1>4, <1>5, <1>6 DEF SearchIInv

LEMMA PassKeeps ==
  ASSUME SearchIInv, Pass
  PROVE  SearchIInv'
<1> DEFINE late == \E r \in Seekers : seeker[r].step \in Holding \cup {"claiming"} /\ time' >= Expiry(r)
           now == history.late \/ late
<1>1. /\ SearchShape /\ time \in Nat /\ time' = time + 1 /\ UNCHANGED <<catalog, claim, seeker>>
      /\ history \in [found : Int, unlisted : Int, late : BOOLEAN, open : BOOLEAN]
  BY SearchFacts DEF SearchIInv, Pass, SearchShape
<1>2. now \in BOOLEAN /\ history' = [history EXCEPT !.late = now]
  BY <1>1 DEF Pass, Expiry
<1>3. now = FALSE => history.late = FALSE /\ ~late
  BY <1>1
<1> HIDE DEF now, late
<1>4. /\ history'.found = history.found /\ history'.late = now /\ history'.open = history.open
      /\ history'.unlisted = history.unlisted
      /\ history' \in [found : Int, unlisted : Int, late : BOOLEAN, open : BOOLEAN]
  BY <1>1, <1>2
<1>5. \A r \in Seekers : /\ Holds(r)' <=> Holds(r)
                         /\ Expiry(r)' = Expiry(r) /\ Expiry(r) \in Nat /\ seeker[r].claimed \in Nat /\ seeker[r].claimed <= time
  BY <1>1, SearchFacts DEF Holds, Expiry
<1>6. SearchShape'
  BY <1>1, <1>4, <1>5 DEF SearchShape
<1>7. history.found + LookupLease \in Int /\ history.unlisted + RetryInterval \in Int
  BY <1>1, SearchFacts
<1>8. \A n \in Int : n <= time => n <= time'
  BY <1>1
<1>9. ClaimsInv => ClaimsInv'
  BY <1>1, <1>4, <1>5, <1>7, <1>8 DEF ClaimsInv
<1>10. history'.late = FALSE => InTime'
  BY <1>1, <1>3, <1>4, <1>5 DEF late, InTime, Holds, Is
<1>11. PlaceholderStands'
  BY <1>1, <1>4, <1>7, <1>8 DEF SearchIInv, PlaceholderStands
<1>12. JunkAskedOnce'
  BY <1>1, <1>3, <1>4 DEF SearchIInv, JunkAskedOnce, Is
<1> QED
  BY <1>4, <1>6, <1>9, <1>10, <1>11, <1>12 DEF SearchIInv

LEMMA SearchStep ==
  ASSUME SearchIInv, [SearchNext]_searchVars
  PROVE  SearchIInv'
<1>1. CASE Listing \/ UNCHANGED searchVars
  <2>1. UNCHANGED <<time, claim, catalog, seeker, history>>
    BY <1>1 DEF Listing, searchVars
  <2> QED
    BY <2>1 DEF SearchIInv, SearchShape, ClaimsInv, InTime, PlaceholderStands, JunkAskedOnce, Holds, Expiry, Is
<1> QED
  BY <1>1, SearchBegins, ReadStoreKeeps, ClaimTakenKeeps, ResolveKeeps, QuietKeeps, ClaimKeeps, ClaimUnansweredKeeps,
     AskUnlistedKeeps, KeepFoundKeeps, ReleaseKeeps, SweepsKeep, PassKeeps DEF SearchNext

LEMMA SearchBegin ==
  ASSUME SearchInit
  PROVE  SearchIInv
<1>1. /\ time = 0 /\ claim = 0 /\ catalog \in {Unknown, Resolved} /\ seeker = [r \in Seekers |-> Resting]
      /\ history = [found |-> -LookupLease, unlisted |-> Never, late |-> FALSE, open |-> FALSE]
  BY DEF SearchInit
<1>2. \A r \in Seekers : /\ seeker[r] = Resting /\ ~Holds(r) /\ seeker[r].claimed = 0
                         /\ ~Is(r, "claiming") /\ ~Is(r, "asking")
  BY <1>1, RestedIs DEF Holds, Holding, Lookup, Is
<1>3. LookupLease \in Nat /\ RetryInterval \in Nat /\ Never \in Int /\ Never + RetryInterval = 0
      /\ -LookupLease \in Int /\ -LookupLease + LookupLease = 0
  BY SearchAssumption DEF Never
<1>4. SearchShape
  <2>1. catalog \in CatalogRows
    BY <1>1 DEF Unknown, Resolved, CatalogRows
  <2>2. history \in [found : Int, unlisted : Int, late : BOOLEAN, open : BOOLEAN]
    BY <1>1, <1>3
  <2>3. seeker \in [Seekers -> SeekerRecord]
    BY <1>1, RestedIs
  <2> QED
    BY <1>1, <1>2, <2>1, <2>2, <2>3 DEF SearchShape
<1>5. history.found + LookupLease <= time /\ history.unlisted + RetryInterval <= time
  BY <1>1, <1>3
<1> QED
  BY <1>2, <1>4, <1>5 DEF SearchIInv, ClaimsInv, InTime, PlaceholderStands, JunkAskedOnce

\* A lookup begins by a claim, or by one that the store did not answer.
LEMMA BeginsByClaim ==
  ASSUME SearchIInv, SearchNext, NEW r \in Seekers, ~Is(r, "resolving"), Is(r, "resolving")'
  PROVE  ClaimLookup(r) \/ ClaimUnanswered(r)
<1>1. SearchShape /\ seeker \in [Seekers -> SeekerRecord]
  BY DEF SearchIInv, SearchShape
<1>2. seeker' # seeker
  BY DEF Is
<1>3. ASSUME NEW s \in Seekers, NEW m, seeker' = [seeker EXCEPT ![s] = m]
      PROVE  s = r /\ m.step = "resolving"
  BY <1>1, <1>3 DEF Is
<1>4. ASSUME NEW s \in Seekers, Rests(s) PROVE FALSE
  BY <1>3, <1>4, RestedIs DEF Rests
<1>5. ASSUME NEW s \in Seekers, NEW step \in SeekerSteps, Moves(s, step) PROVE step = "resolving"
  <2>1. PICK m \in SeekerRecord : seeker' = [seeker EXCEPT ![s] = m] /\ m.step = step
    BY <1>1, <1>5, MovedTo
  <2> QED
    BY <1>3, <2>1
<1>6. ASSUME NEW s \in Seekers, Granted(s) PROVE s = r
  <2>1. PICK m : seeker' = [seeker EXCEPT ![s] = m]
    BY <1>6 DEF Granted
  <2> QED
    BY <1>3, <2>1
<1>7. \A s \in Seekers, p \in Places : ~Search(s, p)
  <2> SUFFICES ASSUME NEW s \in Seekers, NEW p \in Places, Search(s, p) PROVE FALSE
    OBVIOUS
  <2> DEFINE m == [Resting EXCEPT !.step = "reading", !.place = p]
  <2>1. seeker' = [seeker EXCEPT ![s] = m]
    BY DEF Search
  <2>2. m.step = "reading"
    BY DEF Resting
  <2> HIDE DEF m
  <2> QED
    BY <1>3, <2>1, <2>2
<1>8. \A s \in Seekers : seeker[s] \in SeekerRecord
  BY <1>1
<1>9. \A s \in Seekers : ~ReadStore(s) /\ ~ClaimTaken(s) /\ ~Resolve(s) /\ ~Ask(s)
  <2> SUFFICES ASSUME NEW s \in Seekers, ReadStore(s) \/ ClaimTaken(s) \/ Resolve(s) \/ Ask(s) PROVE FALSE
    OBVIOUS
  <2>1. ASSUME NEW stored, seeker' = [seeker EXCEPT ![s] = [@ EXCEPT !.step = "claiming", !.stored = stored, !.claimed = time]]
        PROVE  FALSE
    <3> DEFINE old == seeker[s]
               m == [old EXCEPT !.step = "claiming", !.stored = stored, !.claimed = time]
    <3>1. seeker' = [seeker EXCEPT ![s] = m] /\ old \in SeekerRecord
      BY <1>8, <2>1
    <3> HIDE DEF old
    <3>2. m.step = "claiming"
      BY <3>1 DEF SeekerRecord
    <3> HIDE DEF m
    <3> QED
      BY <1>3, <3>1, <3>2
  <2>2. ASSUME NEW place, NEW next, seeker' = [seeker EXCEPT ![s] = [Resting EXCEPT !.step = "waiting", !.place = place, !.round = next]]
        PROVE  FALSE
    <3> DEFINE m == [Resting EXCEPT !.step = "waiting", !.place = place, !.round = next]
    <3>1. seeker' = [seeker EXCEPT ![s] = m] /\ m.step = "waiting"
      BY <2>2 DEF Resting
    <3> HIDE DEF m
    <3> QED
      BY <1>3, <3>1
  <2>3. ASSUME seeker' = [seeker EXCEPT ![s] = [@ EXCEPT !.step = "asking", !.asked = time]]
        PROVE  FALSE
    <3> DEFINE old == seeker[s]
               m == [old EXCEPT !.step = "asking", !.asked = time]
    <3>1. seeker' = [seeker EXCEPT ![s] = m] /\ old \in SeekerRecord
      BY <1>8, <2>3
    <3> HIDE DEF old
    <3>2. m.step = "asking"
      BY <3>1 DEF SeekerRecord
    <3> HIDE DEF m
    <3> QED
      BY <1>3, <3>1, <3>2
  <2>4. ASSUME seeker' = [seeker EXCEPT ![s] = [@ EXCEPT !.step = "quoting", !.asked = 0]]
        PROVE  FALSE
    <3> DEFINE old == seeker[s]
               m == [old EXCEPT !.step = "quoting", !.asked = 0]
    <3>1. seeker' = [seeker EXCEPT ![s] = m] /\ old \in SeekerRecord
      BY <1>8, <2>4
    <3> HIDE DEF old
    <3>2. m.step = "quoting"
      BY <3>1 DEF SeekerRecord
    <3> HIDE DEF m
    <3> QED
      BY <1>3, <3>1, <3>2
  <2>5. CASE ReadStore(s)
    BY <2>1, <2>5 DEF ReadStore
  <2>6. CASE ClaimTaken(s)
    <3>1. Rests(s) \/ seeker' = [seeker EXCEPT ![s] = [Resting EXCEPT !.step = "waiting", !.place = seeker[s].place, !.round = seeker[s].round + 1]]
      BY <2>6 DEF ClaimTaken, Rests
    <3> QED
      BY <1>4, <2>2, <3>1
  <2>7. CASE Resolve(s)
    BY <1>5, <2>3, <2>7 DEF Resolve, SeekerSteps, Holding, Lookup
  <2>8. CASE Ask(s)
    BY <2>4, <2>8 DEF Ask
  <2> QED
    BY <2>5, <2>6, <2>7, <2>8
<1>10. \A s \in Seekers : ~AnswerStored(s) /\ ~Awake(s) /\ ~Quote(s) /\ ~LookupFails(s) /\ ~KeepMissed(s) /\ ~Abandon(s)
                         /\ ~KeepFound(s) /\ ~Release(s)
  BY <1>4, <1>5 DEF AnswerStored, Awake, Quote, LookupFails, KeepMissed, Abandon, KeepFound, Release, SeekerSteps, Holding, Lookup
<1>11. ~Sweep /\ ~Listing /\ ~Pass
  BY <1>2 DEF Sweep, Listing, Pass
<1> QED
  BY <1>6, <1>7, <1>9, <1>10, <1>11 DEF SearchNext, ClaimLookup, ClaimUnanswered

\* A claim granted finds no other within its time.
LEMMA ClaimFindsNone ==
  ASSUME SearchIInv, NEW r \in Seekers, ClaimLookup(r), history.open = FALSE
  PROVE  time >= history.found + LookupLease /\ \A s \in Seekers : ~InLease(s)
<1>1. SearchShape /\ ClaimsInv /\ claim <= seeker[r].claimed
  BY DEF SearchIInv, ClaimLookup
<1>2. time \in Nat /\ claim \in Nat /\ seeker[r].claimed \in Nat /\ seeker[r].claimed <= time /\ history.found + LookupLease \in Int
  BY <1>1, SearchFacts
<1>3. claim <= time
  BY <1>1, <1>2
<1>4. time >= history.found + LookupLease
  BY <1>1, <1>2, <1>3 DEF ClaimsInv
<1>5. ASSUME NEW s \in Seekers, InLease(s)
      PROVE  FALSE
  <2>1. Holds(s) /\ time < Expiry(s) /\ Expiry(s) \in Nat
    BY <1>1, <1>5, SearchFacts DEF InLease, Holds, Holding, Expiry
  <2>2. claim = Expiry(s) \/ Expiry(s) <= time
    BY <1>1, <2>1 DEF ClaimsInv
  <2> QED
    BY <1>2, <1>3, <2>1, <2>2
<1> QED
  BY <1>4, <1>5

\* Readers of many locations share one lookup at the provider, the answer it found and the
\* miss it left: none begins while another is within its claim or what was found still
\* answers, and a ticker that the broker does not list is put to it once per interval.
THEOREM SearchesAreShared == SearchSpec => SearchesShared
<1> DEFINE Begins == \A r \in Seekers :
       ~history'.open /\ ~Is(r, "resolving") /\ Is(r, "resolving")' =>
         /\ time >= history.found + LookupLease
         /\ \A s \in Seekers : ~InLease(s)
<1>1. SearchInit => SearchIInv
  BY SearchBegin
<1>2. SearchIInv /\ [SearchNext]_searchVars => SearchIInv'
  BY SearchStep
<1>3. SearchIInv /\ [SearchNext]_searchVars => [Begins]_searchVars
  <2> SUFFICES ASSUME SearchIInv, SearchNext, NEW r \in Seekers, ~history'.open,
                      ~Is(r, "resolving"), Is(r, "resolving")'
               PROVE  time >= history.found + LookupLease /\ \A s \in Seekers : ~InLease(s)
    OBVIOUS
  <2>1. ClaimLookup(r)
    BY BeginsByClaim, ClaimUnansweredKeeps
  <2>2. history.open = FALSE
    BY <2>1, SearchFacts DEF SearchIInv, ClaimLookup
  <2> QED
    BY <2>1, <2>2, ClaimFindsNone
<1>4. SearchIInv => JunkAskedOnce
  BY DEF SearchIInv
<1>5. (SearchInit /\ [][SearchNext]_searchVars) => [][Begins]_searchVars /\ []JunkAskedOnce
  BY <1>1, <1>2, <1>3, <1>4, PTL
<1> QED
  BY <1>5 DEF SearchSpec, SearchesShared, LookupsShared
===============================================================================
