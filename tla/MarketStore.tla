------------------------------ MODULE MarketStore ------------------------------
(***************************************************************************)
(* The builds that fill the market store (tastytrade.ts): the owner's      *)
(* snapshot, the public one, the lookup of a searched symbol and the       *)
(* refresh of the instrument catalog.  Each reads the provider, then       *)
(* writes the catalog, the earnings of the calendar and the market rows   *)
(* in batches of their own, while others do the same.                      *)
(*                                                                         *)
(* A name's metric and quote rows are one row here: they are written by    *)
(* one batch.  Listing and pruning are the module Watchlist's.             *)
(***************************************************************************)
EXTENDS Integers, FiniteSetsExt, TLC

CONSTANTS
  Names,          \* symbols
  Builds,         \* invocations
  Seeded,         \* the names listed at first
  RetryAfter,     \* UNRESOLVED_INSTRUMENT_RETRY_MS
  BuildLimit,     \* the longest an invocation lives after its read
  LastHour,       \* bound: the last instant
  BuildFaults,    \* bound: builds that fail
  MaxBuilds       \* bound: builds begun

ASSUME MarketStoreAssumption ==
  /\ Seeded \subseteq Names /\ RetryAfter \in Nat \ {0}
  /\ BuildLimit \in Nat /\ LastHour \in Nat /\ BuildFaults \in Nat /\ MaxBuilds \in Nat

VARIABLES
  hour,
  identity,   \* of a name: its row of instrument_catalog
  quotes,       \* of a name: its row of the market tables
  earnings,   \* the names with an upcoming tastytrade row on the calendar
  list,       \* the maintained list
  shown,   \* its copy for the public
  build,
  begun,
  broken,
  record      \* the names a search put on the list, who wrote a name's earnings
              \* last, and the names whose market row that same build wrote last

marketVars == <<hour, identity, quotes, earnings, list, shown, build, begun, broken, record>>

NoIdentity == [is |-> "none", at |-> 0]
NoMarketRow == [read |-> 0, observed |-> 0, dated |-> FALSE]
Resting0 == [for |-> "none", step |-> "idle", names |-> {}, sought |-> {}, found |-> {},
             answered |-> {}, priced |-> {}, dated |-> {}, at |-> 0]

StoredNames == {s \in Names : quotes[s] # NoMarketRow}

MarketInit ==
  /\ hour = 1
  /\ \E known \in {{}, Seeded} :
       identity = [s \in Names |-> IF s \in known THEN [is |-> "resolved", at |-> 0] ELSE NoIdentity]
  /\ quotes = [s \in Names |-> NoMarketRow] /\ earnings = {}
  /\ list = Seeded /\ shown = Seeded
  /\ build = [b \in Builds |-> Resting0] /\ begun = 0 /\ broken = 0
  /\ record = [searched |-> {}, author |-> [s \in Names |-> "none"], agreed |-> {}]

At(b, step) == build[b].step = step
Goes(b, step) == build' = [build EXCEPT ![b] = [@ EXCEPT !.step = step]]
Rest(b) == build' = [build EXCEPT ![b] = Resting0]
Starts(b, for, names, step) ==
  At(b, "idle") /\ build' = [build EXCEPT ![b] = [Resting0 EXCEPT !.for = for, !.names = names, !.step = step]]

(***************************************************************************)
(* Beginning a build                                                       *)
(***************************************************************************)

OwnerBuild(b) == list # {} /\ Starts(b, "owner", list, "naming")
PublicBuild(b) == shown # {} /\ Starts(b, "public", shown, "asking")
CatalogRefresh(b) == Starts(b, "catalog", Names, "renaming")

\* catalogSymbolForQuery: a resolved ticker goes straight to the market read.
SymbolLookup(b, s) ==
  Starts(b, "search", {s}, IF identity[s].is = "resolved" THEN "asking" ELSE "naming")

BeginBuild(b) ==
  /\ begun < MaxBuilds /\ begun' = begun + 1
  /\ OwnerBuild(b) \/ PublicBuild(b) \/ CatalogRefresh(b) \/ \E s \in Names : SymbolLookup(b, s)
  /\ UNCHANGED <<hour, identity, quotes, earnings, list, shown, broken, record>>

(***************************************************************************)
(* The instrument catalog                                                  *)
(***************************************************************************)

\* missingInstrumentCatalogSymbols
Lapsed(s) == identity[s].is = "unresolved" /\ identity[s].at + RetryAfter <= hour
MissingFrom(names) == {s \in names : identity[s] = NoIdentity \/ Lapsed(s)}

\* instrumentCatalogFromPayload: the rows of an answer that is believed are of names
\* that were asked for, one row each and any of them; every other answer throws.
FromPayload(sought) == SUBSET sought

\* The names without an answer are put to the broker; an ops refresh puts them all.
AskInstruments(b) ==
  /\ At(b, "naming") \/ At(b, "renaming")
  /\ LET sought == IF At(b, "naming") THEN MissingFrom(build[b].names) ELSE build[b].names IN
     \E found \in FromPayload(sought) :
       build' = [build EXCEPT ![b] = [@ EXCEPT !.step = "recording", !.sought = sought, !.found = found, !.at = hour]]
  /\ UNCHANGED <<hour, identity, quotes, earnings, list, shown, begun, broken, record>>

\* Mutant: the placeholder of a name not found replaces whatever is stored.
PlaceholderOver(row, at) == [is |-> "unresolved", at |-> at]
\* unresolvedConflictClause: it only restamps a placeholder.
Placeholder(row, at) == IF row.is = "resolved" THEN row ELSE [is |-> "unresolved", at |-> at]

\* persistInstrumentCatalog, one batch; a search goes on with what it resolved.
PersistCatalog(b) ==
  /\ At(b, "recording")
  /\ identity' = [s \in Names |->
       IF s \in build[b].found THEN [is |-> "resolved", at |-> 0]
       ELSE IF s \in build[b].sought THEN Placeholder(identity[s], build[b].at) ELSE identity[s]]
  /\ IF \/ build[b].for = "catalog"
        \/ build[b].for = "search" /\ \E s \in build[b].names : identity'[s].is # "resolved"
     THEN Rest(b)
     ELSE build' = [build EXCEPT ![b] = [@ EXCEPT !.step = "asking", !.sought = {}, !.found = {}]]
  /\ UNCHANGED <<hour, quotes, earnings, list, shown, begun, broken, record>>

\* sweepStaleUnresolvedInstruments, on the schedule.
SweepCatalog ==
  /\ \E s \in Names : Lapsed(s)
  /\ identity' = [s \in Names |-> IF Lapsed(s) THEN NoIdentity ELSE identity[s]]
  /\ UNCHANGED <<hour, quotes, earnings, list, shown, build, begun, broken, record>>

(***************************************************************************)
(* The market facts                                                        *)
(***************************************************************************)

\* readInstrumentCatalog: the names the stored catalog has a row of, in either standing.
Identified(names) == {s \in names : identity[s] # NoIdentity}

\* loadAnsweredMarketFacts: of the names asked, some have a metrics row (a few of
\* them an upcoming report), and some of those a quote and a row of the catalog.
\* With none of these nothing is written.
ReadMarket(b) ==
  /\ At(b, "asking")
  /\ \E answered \in SUBSET build[b].names :
     \E dated \in SUBSET answered :
     \E priced \in SUBSET Identified(answered) :
       IF priced = {} THEN Rest(b)
       ELSE build' = [build EXCEPT ![b] = [@ EXCEPT !.step = "earnings", !.answered = answered, !.dated = dated,
                                                    !.priced = priced, !.at = hour]]
  /\ UNCHANGED <<hour, identity, quotes, earnings, list, shown, begun, broken, record>>

\* Mutant: a symbol whose metrics did not arrive loses its date too.
RetiredByRequest(b) == build[b].names
\* persistAndLoadCatalysts: only a symbol that was answered for.
RetiredBy(b) == build[b].answered

PersistEarnings(b) ==
  /\ At(b, "earnings")
  /\ earnings' = (earnings \ RetiredBy(b)) \cup build[b].dated
  /\ record' = [record EXCEPT !.author = [s \in Names |-> IF s \in build[b].answered THEN b ELSE @[s]],
                              !.agreed = @ \ build[b].answered]
  /\ Goes(b, "rows")
  /\ UNCHANGED <<hour, identity, quotes, list, shown, begun, broken>>

\* persistTastytradeMarketSnapshot: one batch, stamped as it is written.
PersistRows(b) ==
  /\ At(b, "rows")
  /\ LET priced == build[b].priced
         own == {s \in priced : record.author[s] = b}
     IN /\ quotes' = [s \in Names |-> IF s \notin priced THEN quotes[s] ELSE
                      [read |-> build[b].at, observed |-> hour, dated |-> s \in build[b].dated]]
        /\ record' = [record EXCEPT !.agreed = (@ \ priced) \cup own]
  /\ IF build[b].for = "public" THEN Rest(b)
     ELSE Goes(b, IF build[b].for = "owner" THEN "publishing" ELSE "admitting")
  /\ UNCHANGED <<hour, identity, earnings, list, shown, begun, broken>>

\* publishInternalWatchlistUniverse, after an owner's build.
PublishList(b) ==
  /\ At(b, "publishing") /\ shown' = list /\ Rest(b)
  /\ UNCHANGED <<hour, identity, quotes, earnings, list, begun, broken, record>>

\* ensureInternalWatchlistSymbols: what was priced is listed, if the cap allows it.
AdmitSearched(b) ==
  /\ At(b, "admitting") /\ Rest(b)
  /\ \/ /\ list' = list \cup build[b].names /\ shown' = list'
        /\ record' = [record EXCEPT !.searched = @ \cup build[b].names]
     \/ UNCHANGED <<list, shown, record>>
  /\ UNCHANGED <<hour, identity, quotes, earnings, begun, broken>>

Unlist(s) ==
  /\ s \in list /\ list' = list \ {s} /\ shown' = list'
  /\ record' = [record EXCEPT !.searched = @ \ {s}]
  /\ UNCHANGED <<hour, identity, quotes, earnings, build, begun, broken>>

\* A request or a statement fails, or the invocation is cut off: a build ends where it is.
BuildBreaks(b) ==
  /\ ~At(b, "idle") /\ broken < BuildFaults /\ broken' = broken + 1 /\ Rest(b)
  /\ UNCHANGED <<hour, identity, quotes, earnings, list, shown, begun, record>>

HourPasses ==
  /\ hour < LastHour /\ hour' = hour + 1
  /\ \A b \in Builds : (At(b, "earnings") \/ At(b, "rows")) => hour < build[b].at + BuildLimit
  /\ UNCHANGED <<identity, quotes, earnings, list, shown, build, begun, broken, record>>

MarketNext ==
  \/ SweepCatalog \/ HourPasses
  \/ \E s \in Names : Unlist(s)
  \/ \E b \in Builds :
       \/ BeginBuild(b) \/ AskInstruments(b) \/ PersistCatalog(b) \/ ReadMarket(b)
       \/ PersistEarnings(b) \/ PersistRows(b) \/ PublishList(b) \/ AdmitSearched(b)
       \/ BuildBreaks(b)

MarketSpec == MarketInit /\ [][MarketNext]_marketVars

(***************************************************************************)
(* What a reader is served                                                 *)
(***************************************************************************)

\* readStoredMarketRecords: observedAt, which storedSnapshotParts serves as syncedAt.
ObservedAt(names) == Min({quotes[s].observed : s \in names})

\* The instant a stored snapshot bears is no later than the reading of any of its
\* prices, but for the time a build may take from its read to its write: rows of
\* many builds, some of them slow or overtaken by others, are served together
\* (tastytrade-market-store.ts, storedSnapshotParts).
SyncedAtBounds ==
  \A names \in (SUBSET StoredNames) \ {{}} : \A s \in names :
    ObservedAt(names) <= quotes[s].read + BuildLimit

\* The calendar and the market row of a name speak of the same report whenever one
\* build wrote both last: the provider's silence on a name cancels nothing, and
\* other builds' failures between the two writes do not come between them
\* (persistAndLoadCatalysts, persistTastytradeMarketSnapshot).
EarningsAgree == \A s \in record.agreed : quotes[s].dated <=> s \in earnings

\* What a reader's search put on the list has a price in the store to be listed
\* with, whatever failed on the way (lookupPublicMarketSymbol).
ListedIsPriced == record.searched \subseteq StoredNames

\* What the store tells of a name, from whichever builds wrote it.
MarketStoreInv == SyncedAtBounds /\ EarningsAgree /\ ListedIsPriced

\* A resolved identity is never lost: not to a refresh that missed the name, to one
\* that began before it was resolved, nor to the sweep (persistInstrumentCatalog).
IdentityKept ==
  [][\A s \in Names : identity[s].is = "resolved" => identity'[s].is = "resolved"]_marketVars

\* What is kept of a name, whichever build wrote last.
MarketStoreKept == []MarketStoreInv /\ IdentityKept
================================================================================
