------------------------------ MODULE MCStores ------------------------------
(* What many requests write to the one store, part by part: the attempts of a   *)
(* catalyst search, a symbol search from two locations, the maintained list,    *)
(* the market rows and the catalog, and the year of closes.  A behavior runs    *)
(* one of the parts.                                                            *)
EXTENDS CatalystRuns, SymbolSearch, Watchlist, MarketStore, YearCandles
CONSTANTS r1, r2, r3, early, moved, other, e1, e2, c1, c2, n1, n2
VARIABLE part

\* Three attempts; two dates of one kind of event and one date of another.  Each
\* answer is silent on some kind.
MCRuns == {r1, r2, r3}
MCEvents == {early, moved, other}
MCAnswers == {{early}, {moved, other}}
MCKind == [e \in MCEvents |-> IF e = other THEN "conference" ELSE "earnings"]

\* Two requests for one query, from two locations.
MCSeekers == {c1, c2}
MCPlaces == {e1, e2}

\* A list of two of three symbols: 1 on a private list, 2 on the volume list until
\* it is delisted.
MCSymbols == 1..3
MCPrivate == {1}
MCVolume == {2}
MCVolumeRank == [s \in {2} |-> 0]
MCInputs == {<<1>>, <<3>>, <<3, 2>>}

\* Two builds at once of two names, one of them listed.
MCNames == {n1, n2}
MCSeeded == {n1}
MCBuilds == MCSeekers

\* Two symbols, of which the refresh has room for the second; one page that charts.
MCTickers == 1..2
MCTraded == [s \in 1..2 |-> IF s = 2 THEN 5 ELSE -1]
MCCharts == {e1}

MCInit ==
  /\ part \in {"catalysts", "symbols", "watchlist", "market", "years"}
  /\ Init /\ SearchInit /\ WatchInit /\ MarketInit /\ YearInit
  /\ part # "symbols" => ~byTicker /\ ~listed /\ catalog = Unknown
  /\ part # "watchlist" => Listed = {}
  /\ part # "market" => \A s \in Names : identity[s] = NoIdentity
  /\ part # "years" => public = {} /\ \A o \in Offsets : behind <= o
MCNext ==
  /\ UNCHANGED part
  /\ \/ part = "catalysts" /\ Next /\ UNCHANGED <<searchVars, watchVars, marketVars, yearVars>>
     \/ part = "symbols" /\ SearchNext /\ UNCHANGED <<vars, watchVars, marketVars, yearVars>>
     \/ part = "watchlist" /\ WatchNext /\ UNCHANGED <<vars, searchVars, marketVars, yearVars>>
     \/ part = "market" /\ MarketNext /\ UNCHANGED <<vars, searchVars, watchVars, yearVars>>
     \/ part = "years" /\ YearNext /\ UNCHANGED <<vars, searchVars, watchVars, marketVars>>
MCSpec == MCInit /\ [][MCNext]_<<part, vars, searchVars, watchVars, marketVars, yearVars>>

Symmetry == Permutations(MCRuns) \cup Permutations(MCSeekers)
==============================================================================
