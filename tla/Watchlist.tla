------------------------------- MODULE Watchlist -------------------------------
(***************************************************************************)
(* The maintained watchlist and the public universe copied from it.        *)
(*                                                                         *)
(* Owners, member agents, readers' searches and accepted orders write the  *)
(* list from isolates of their own; each write is one transaction that     *)
(* admits what fits and prunes the tail of the one ranking.  The focus     *)
(* read and the copy for the public are statements of their own after it,  *)
(* and may fail or come late.                                              *)
(***************************************************************************)
EXTENDS Integers, FiniteSets, SequencesExt

CONSTANTS
  Symbols,      \* equities, numbered in alphabetical order
  Private,      \* those on an owner's private broker list in the retained seed
  Volume,       \* those on the High Options Volume list, ...
  VolumeRank,   \* ... and their place on it
  Cap,          \* MAX_WATCHLIST_SYMBOLS
  Callers,      \* calls of the list's operations
  Inputs,       \* bound: the symbols a call may name, in order and once each
  MayDelist,    \* bound: the symbols whose catalog row may lapse
  NoRow,
  WatchClock      \* bound: the last instant

\* INTERNAL_WATCHLIST_ORIGINS, the weakest first.
Origins == <<"tastytrade-seed", "visitor-search", "agent-discussion",
             "scheduled-research", "position-sync", "trade-intent", "owner">>
Prunable == {"tastytrade-seed", "visitor-search", "agent-discussion"}
LiveOrigins == {"visitor-search", "agent-discussion", "trade-intent", "owner"}

Row == [origin: ToSet(Origins), updated: Nat]

ASSUME WatchlistAssumption ==
  /\ Symbols \subseteq Nat /\ IsFiniteSet(Symbols)
  /\ Private \subseteq Symbols /\ Volume \subseteq Symbols /\ MayDelist \subseteq Symbols
  /\ VolumeRank \in [Volume -> Nat]
  /\ Cap \in Nat /\ WatchClock \in Nat
  /\ Inputs \subseteq Seq(Symbols) /\ NoRow \notin Row

VARIABLES
  instant,
  items,     \* internal_watchlist_items
  delisted,  \* symbols whose catalog row is not active
  universe,  \* the symbols of public_market_universe
  op,        \* the calls
  torn       \* history: a write was left without its copy, and none was made since

watchVars == <<instant, items, delisted, universe, op, torn>>

Idle == [step |-> "idle", now |-> 0]
Written == [step |-> "written", now |-> 0]

WatchTypeOK ==
  /\ instant \in Nat /\ torn \in BOOLEAN
  /\ items \in [Symbols -> [origin: ToSet(Origins), updated: 0..instant] \cup {NoRow}]
  /\ delisted \subseteq Symbols /\ universe \subseteq Symbols
  /\ op \in [Callers -> [step: {"idle", "ready", "written"}, now: 0..instant]]

Listed == {s \in Symbols : items[s] # NoRow}
Protected == {s \in Listed : items[s].origin \notin Prunable}

\* The seed as the retired importer left it, published.
WatchInit ==
  /\ instant = 0
  /\ items \in [Symbols -> {NoRow, [origin |-> "tastytrade-seed", updated |-> 0]}]
  /\ Cardinality(Listed) <= Cap
  /\ delisted = {} /\ universe = Listed
  /\ op = [c \in Callers |-> Idle]
  /\ torn = FALSE

(***************************************************************************)
(* The one ranking                                                         *)
(***************************************************************************)

\* The seed's lists count whatever the row's origin now says; the volume list
\* only while the catalog knows the name as active.
Tier(list, s) ==
  IF list[s].origin = "owner" THEN 0
  ELSE IF list[s].origin \notin Prunable THEN 1
  ELSE IF s \in Private THEN 2
  ELSE IF s \in Volume \ delisted THEN 3
  ELSE IF list[s].origin = "agent-discussion" THEN 4
  ELSE IF list[s].origin = "visitor-search" THEN 5
  ELSE 6

\* coalesce(volume_rank, 9223372036854775807)
Place(s) == IF s \in Volume \ delisted THEN VolumeRank[s] ELSE 2^30

\* Mutant: the most recently touched first, whatever its tier.
RankedByAge(list, s, t) ==
  \/ list[s].updated > list[t].updated
  \/ list[s].updated = list[t].updated /\ s < t

RankedBefore(list, s, t) ==
  \/ Tier(list, s) < Tier(list, t)
  \/ /\ Tier(list, s) = Tier(list, t)
     /\ \/ Place(s) < Place(t)
        \/ /\ Place(s) = Place(t)
           /\ \/ list[s].updated > list[t].updated
              \/ list[s].updated = list[t].updated /\ s < t

RowsOf(list) == {s \in Symbols : list[s] # NoRow}

\* The head of the ranking, MAX_WATCHLIST_SYMBOLS long.
Focus(list) ==
  {s \in RowsOf(list) : Cardinality({t \in RowsOf(list) : RankedBefore(list, t, s)}) < Cap}

\* pruneStatement
Pruned(list) ==
  LET kept == Focus(list)
  IN  [s \in Symbols |-> IF list[s] # NoRow /\ list[s].origin \in Prunable /\ s \notin kept
                         THEN NoRow ELSE list[s]]

(***************************************************************************)
(* upsertSymbolsStatement                                                  *)
(***************************************************************************)

Priority == [origin \in ToSet(Origins) |-> SelectInSeq(Origins, LAMBDA o : o = origin)]

NeedsSlot(s) == s \notin Protected

\* Mutant: the seed alone is counted as evictable.
CapacityBesideSeed == Cap - Cardinality({s \in Listed : items[s].origin # "tastytrade-seed"})

\* The slots that protected rows leave.
Capacity == Cap - Cardinality(Protected)

\* Mutant: every input is admitted.
AdmittedAll(input) == ToSet(input)

\* New symbols are admitted in input order up to the capacity.
Admitted(input) ==
  {input[i] : i \in {i \in DOMAIN input :
     NeedsSlot(input[i]) => Cardinality({j \in 1..i : NeedsSlot(input[j])}) <= Capacity}}

\* Mutant: the origin is overwritten whatever it was.
TouchedAlways(row, origin, now) == [origin |-> origin, updated |-> now]

\* The insert, or the conflict branch: provenance is only ever strengthened.
Touched(row, origin, now) ==
  IF row = NoRow THEN [origin |-> origin, updated |-> now]
  ELSE [origin  |-> IF Priority[origin] > Priority[row.origin] THEN origin ELSE row.origin,
        updated |-> IF Priority[origin] >= Priority[row.origin] THEN now ELSE row.updated]

Upserted(input, origin, now) ==
  LET admitted == Admitted(input)
  IN  [s \in Symbols |-> IF s \in admitted THEN Touched(items[s], origin, now) ELSE items[s]]

(***************************************************************************)
(* The operations                                                          *)
(***************************************************************************)

\* Mutant: the instant is stamped a step ahead.
CallAhead(c) ==
  /\ op[c].step = "idle"
  /\ op' = [op EXCEPT ![c] = [step |-> "ready", now |-> instant + 1]]
  /\ UNCHANGED <<instant, items, delisted, universe, torn>>

\* A call takes its instant when it is made.
Call(c) ==
  /\ op[c].step = "idle"
  /\ op' = [op EXCEPT ![c] = [step |-> "ready", now |-> instant]]
  /\ UNCHANGED <<instant, items, delisted, universe, torn>>

\* The transaction commits, and the call goes on to the copy, or breaks off before
\* it: the answer is lost, the focus cannot be read, the isolate dies.
Commits(c) ==
  /\ op[c].step = "ready"
  /\ \/ op' = [op EXCEPT ![c] = Written] /\ UNCHANGED torn
     \/ op' = [op EXCEPT ![c] = Idle] /\ torn' = TRUE

\* Some symbol, and no more than the list holds.
Accepted(input) == Len(input) \in 1..Cap

\* ensureInternalWatchlistSymbols: the upsert and the prune, one transaction.
Ensure(c, origin, input) ==
  /\ Accepted(input) /\ Commits(c)
  /\ items' = Pruned(Upserted(input, origin, op[c].now))
  /\ UNCHANGED <<instant, delisted, universe>>

\* removeInternalWatchlistSymbols: the deletes, one transaction.
RemoveSymbols(c, input) ==
  /\ Accepted(input) /\ Commits(c)
  /\ items' = [s \in Symbols |-> IF s \in ToSet(input) THEN NoRow ELSE items[s]]
  /\ UNCHANGED <<instant, delisted, universe>>

\* The transaction does not commit.
WriteFails(c) ==
  /\ op[c].step = "ready" /\ op' = [op EXCEPT ![c] = Idle]
  /\ UNCHANGED <<instant, items, delisted, universe, torn>>

Projection == Listed \ delisted

\* Mutant: what the copy already holds stays in it.
PublishAdditions(c) ==
  /\ op' = [op EXCEPT ![c] = Idle]
  /\ universe' = universe \cup Projection /\ torn' = FALSE
  /\ UNCHANGED <<instant, items, delisted>>

\* publishInternalWatchlistUniverse reads the list and writes its copy in one
\* statement, which copies nothing if the list is too long; a snapshot build
\* calls it with no write of its own.
Publish(c) ==
  /\ op' = [op EXCEPT ![c] = Idle]
  /\ IF Cardinality(Projection) <= Cap THEN universe' = Projection /\ torn' = FALSE
     ELSE torn' = TRUE /\ UNCHANGED universe
  /\ UNCHANGED <<instant, items, delisted>>

\* A call that has written ends before its copy is made.
Breaks(c) ==
  /\ op[c].step = "written" /\ op' = [op EXCEPT ![c] = Idle] /\ torn' = TRUE
  /\ UNCHANGED <<instant, items, delisted, universe>>

\* A catalog refresh learns that a name no longer trades.
Delists(s) ==
  /\ s \in MayDelist \ delisted /\ delisted' = delisted \cup {s}
  /\ UNCHANGED <<instant, items, universe, op, torn>>

WatchTick == instant < WatchClock /\ instant' = instant + 1 /\ UNCHANGED <<items, delisted, universe, op, torn>>

WatchNext ==
  \/ \E c \in Callers : \/ Call(c) \/ WriteFails(c)
                        \/ \E input \in Inputs : \/ \E origin \in LiveOrigins : Ensure(c, origin, input)
                                               \/ RemoveSymbols(c, input)
                        \/ Publish(c) \/ Breaks(c)
  \/ \E s \in Symbols : Delists(s)
  \/ WatchTick

WatchSpec == WatchInit /\ [][WatchNext]_watchVars

(***************************************************************************)
(* Properties                                                              *)
(***************************************************************************)

\* The list never outgrows its cap, however many calls each find a free slot, and
\* protected rows alone never outgrow it either: they could not be pruned back
\* (the capacity of the upsert, the prune of the same batch).
CapHolds == Cardinality(Listed) <= Cap

\* A symbol an owner added or a trade named stays protected until an owner removes it:
\* no search, discussion, prune or late write of a weaker origin evicts it or makes
\* it evictable.
ProtectedStays ==
  [][\A s \in Protected \ Protected' :
       \E c \in Callers, input \in Inputs : RemoveSymbols(c, input) /\ s \in ToSet(input)]_watchVars

\* An owner's or a trade's symbol is refused a place only when protected rows fill the
\* list: whatever searches and members' agents wrote gives way to it.
OnlyProtectedRefuse ==
  [][\A c \in Callers, input \in Inputs, origin \in {"owner", "trade-intent"} :
       \/ ToSet(input) \subseteq Listed'
       \/ Cardinality(Protected') = Cap
       \/ ~Ensure(c, origin, input)]_watchVars

Curated(s) == s \in Private \/ s \in Volume \ delisted

\* Weak provenance displaces nothing stronger: naming symbols on no curated list, a
\* member's agent evicts only discussed names, searches and seed rows, and a reader's
\* search only searches and seed rows (RANKED_ITEMS_CTE).
WeakerYields ==
  [][\A s \in Listed \ Listed', c \in Callers, input \in Inputs,
        origin \in {"agent-discussion", "visitor-search"} :
       \/ /\ ~Curated(s) /\ items[s].origin \in Prunable
          /\ origin = "visitor-search" => items[s].origin # "agent-discussion"
       \/ \E t \in ToSet(input) : Curated(t)
       \/ ~Ensure(c, origin, input)]_watchVars

\* Whatever calls overlap, once none is between its write and its copy and none
\* broke off there since the last copy, the public sees the list as it is, but for
\* names delisted since: the last copy is never of an earlier list, and any later
\* publication repairs one that was missed (publishInternalWatchlistUniverse).
PublicIsCurrent ==
  (\A c \in Callers : op[c].step # "written") /\ ~torn => universe \ delisted = Projection

\* The shapes, the cap and the public copy.
WatchlistInv == WatchTypeOK /\ CapHolds /\ PublicIsCurrent
================================================================================
