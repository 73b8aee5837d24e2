-------------------------- MODULE BrowserFavorites --------------------------
(***************************************************************************)
(* Favorites: what a reader stars before signing in is staged in the       *)
(* browser and merged into the member's account by each signed-in tab that *)
(* finds it; an account is shared by devices (data/favorites.ts,           *)
(* server/favorites.ts).                                                   *)
(*                                                                         *)
(* A tab sees what another stored before its own next step.                *)
(***************************************************************************)
EXTENDS Integers, FiniteSets

CONSTANTS
  Stars,          \* symbols
  Tabs,           \* signed-in tabs of this browser; another is not signed in
  FavoriteLimit,  \* MAX_FAVORITE_SYMBOLS
  MaxEdits,       \* bound: anonymous edits
  MaxElsewhere    \* bound: changes of the account by another device

ASSUME FavoriteAssumption ==
  /\ IsFiniteSet(Stars) /\ FavoriteLimit \in Nat \ {0} /\ MaxEdits \in Nat /\ MaxElsewhere \in Nat

VARIABLES
  stage,      \* the preference's pinned symbols, with the version that names them
  consumed,   \* the marker: the version that was merged
  account,    \* rows of user_favorite_symbols
  syncs,      \* each tab's queryFn
  starred,    \* history: starred here and neither unstarred nor removed since
  elsewhere   \* history: changes by another device

favoriteVars == <<stage, consumed, account, syncs, starred, elsewhere>>

NeverConsumed == -1
NoSync == [step |-> "off", version |-> NeverConsumed, symbols |-> {}, added |-> {}, held |-> {}]

\* Version 0 is the stage of a preference from before stages had versions, which is
\* named by its symbols; every edit makes a new one.
FavoriteInit ==
  /\ \E symbols \in SUBSET Stars : Cardinality(symbols) <= 1 /\ stage = [version |-> 0, symbols |-> symbols]
  /\ consumed = NeverConsumed /\ account = {} /\ syncs = [t \in Tabs |-> NoSync]
  /\ starred = stage.symbols /\ elsewhere = 0

\* stagedFavoriteSymbols
Pending == IF stage.version = consumed THEN {} ELSE stage.symbols

\* toggleAnonymousFavorite
ToggleAnonymous(s) ==
  /\ stage.version < MaxEdits
  /\ s \in Pending \/ Cardinality(Pending) < FavoriteLimit
  /\ stage' = [version |-> stage.version + 1, symbols |-> IF s \in Pending THEN Pending \ {s} ELSE Pending \cup {s}]
  /\ starred' = IF s \in Pending THEN starred \ {s} ELSE starred \cup {s}
  /\ UNCHANGED <<consumed, account, syncs, elsewhere>>

\* queryFn reads the stage; with symbols in it the request is a merge.
Fetch(t) ==
  /\ syncs[t].step = "off"
  /\ syncs' = [syncs EXCEPT ![t] =
       [NoSync EXCEPT !.step = IF Pending = {} THEN "reading" ELSE "merging",
                      !.version = IF stage.version = consumed THEN NeverConsumed ELSE stage.version,
                      !.symbols = Pending]]
  /\ UNCHANGED <<stage, consumed, account, starred, elsewhere>>

\* mergeFavoriteSymbols: inserts while there is room, in the order of the symbols.
InsertedBy(symbols) ==
  {all \in SUBSET (account \cup symbols) :
     /\ account \subseteq all
     /\ \/ all = account \cup symbols /\ Cardinality(all) <= FavoriteLimit
        \/ Cardinality(all) = FavoriteLimit}

Merge(t) ==
  /\ syncs[t].step = "merging"
  /\ account' \in InsertedBy(syncs[t].symbols)
  /\ syncs' = [syncs EXCEPT ![t].step = "reading"]
  /\ UNCHANGED <<stage, consumed, starred, elsewhere>>

\* readFavoriteSymbols, a statement of its own.
Read(t) ==
  /\ syncs[t].step = "reading"
  /\ syncs' = [syncs EXCEPT ![t].step = "answered", ![t].held = account]
  /\ UNCHANGED <<stage, consumed, account, starred, elsewhere>>

\* Mutant: the marker names whatever is staged by now.
NowStaged(t) == stage.version

SentStage(t) == syncs[t].version

Complete(t) == syncs[t].symbols \subseteq syncs[t].held

\* The answer has all of the stage: the stage that was sent is marked.
Consume(t) ==
  /\ syncs[t].step = "answered" /\ Complete(t)
  /\ consumed' = IF syncs[t].version = NeverConsumed THEN consumed ELSE SentStage(t)
  /\ syncs' = [syncs EXCEPT ![t] = NoSync]
  /\ UNCHANGED <<stage, account, starred, elsewhere>>

\* A request or its answer is lost, the answer is incomplete, the tab is closed, or the
\* marker cannot be stored: a later fetch sends the stage again.
FetchFails(t) ==
  /\ syncs[t].step # "off" /\ syncs' = [syncs EXCEPT ![t] = NoSync]
  /\ UNCHANGED <<stage, consumed, account, starred, elsewhere>>

\* onDelete and onInsert, or the same by another device.
Unstar(s) ==
  /\ s \in account /\ elsewhere < MaxElsewhere /\ elsewhere' = elsewhere + 1
  /\ account' = account \ {s} /\ starred' = starred \ {s}
  /\ UNCHANGED <<stage, consumed, syncs>>
Add(s) ==
  /\ s \notin account /\ elsewhere < MaxElsewhere /\ elsewhere' = elsewhere + 1
  /\ account' \in InsertedBy({s})
  /\ UNCHANGED <<stage, consumed, syncs, starred>>

FavoriteNext ==
  \/ \E s \in Stars : ToggleAnonymous(s) \/ Unstar(s) \/ Add(s)
  \/ \E t \in Tabs : Fetch(t) \/ Merge(t) \/ Read(t) \/ Consume(t) \/ FetchFails(t)

FavoriteSpec == FavoriteInit /\ [][FavoriteNext]_favoriteVars

(***************************************************************************)
(* Properties                                                              *)
(***************************************************************************)

\* No favorite is lost on its way into the account: until somebody takes it back it is
\* in the account or still staged, though another tab edited the stage while a merge of
\* the older one ran, the account was full, another device merged its own, or an answer
\* never came (anonymousFavoriteStage, markAnonymousStageConsumed).
StagedNotLost == starred \subseteq account \cup Pending
=============================================================================
