----------------------------- MODULE SymbolSearch -----------------------------
(***************************************************************************)
(* One public symbol search, asked from several locations at once          *)
(* (public-symbol-search.ts): each location keeps a copy of the answer,    *)
(* all share the store, and a claim in the store admits one lookup at the  *)
(* provider at a time.  A ticker the broker does not list leaves a         *)
(* placeholder in the instrument catalog, which answers for it until its   *)
(* retry interval has passed.                                              *)
(*                                                                         *)
(* The module models one query.  Claims of different queries have rows of  *)
(* their own and never meet.                                               *)
(***************************************************************************)
EXTENDS Integers, FiniteSetsExt

CONSTANTS
  Seekers,          \* requests of the search
  Places,           \* locations with an edge cache each
  LookupLease,      \* LOOKUP_LEASE_MS
  FoundRetention,   \* FOUND_RETENTION_SECONDS
  MissRetention,    \* MISSING_RETENTION_SECONDS
  RetryInterval,    \* UNRESOLVED_INSTRUMENT_RETRY_MS
  LastRound,        \* the length of COLD_STORE_RETRY_DELAYS_MS
  SearchClock,      \* bound: the last instant
  SearchFailures    \* bound: statements and calls that fail, and requests cut off

ASSUME SearchAssumption ==
  /\ LookupLease \in Nat \ {0} /\ FoundRetention \in Nat \ {0} /\ MissRetention \in Nat \ {0}
  /\ RetryInterval \in Nat \ {0} /\ LastRound \in Nat
  /\ SearchClock \in Nat /\ SearchFailures \in Nat

VARIABLES
  time,
  byTicker,   \* the query has the shape of a ticker (symbolCandidate)
  listed,     \* the broker lists the ticker
  catalog,    \* the query's row of instrument_catalog
  priced,     \* the store holds a quote of the symbol
  claim,      \* the expiry in the query's row of market_refresh_lease, or 0
  copies,     \* of a location: the answer at its edge
  seeker,     \* the requests
  faults,
  history     \* the claim of the last lookup that found the symbol, the last time the
              \* broker was asked for a ticker it did not list, and whether a lookup
              \* outlived its claim, the time to claim included, and whether one was
              \* granted unanswered

searchVars == <<time, byTicker, listed, catalog, priced, claim, copies, seeker, faults, history>>

Never == -RetryInterval
NoAnswer == [is |-> "none", until |-> 0]
Unknown == [is |-> "none", at |-> 0]
Resolved == [is |-> "resolved", at |-> 0]
Delisted == [is |-> "inactive", at |-> 0]
Resting == [step |-> "idle", place |-> "none", round |-> 0, stored |-> FALSE, claimed |-> 0, asked |-> 0]

Lookup == {"resolving", "asking", "quoting"}
Holding == Lookup \cup {"keeping", "missing", "releasing"}

SearchInit ==
  /\ time = 0 /\ byTicker \in BOOLEAN /\ listed \in BOOLEAN
  /\ catalog \in {Unknown, Resolved}
  /\ priced = FALSE /\ claim = 0 /\ copies = [p \in Places |-> NoAnswer]
  /\ seeker = [r \in Seekers |-> Resting] /\ faults = 0
  /\ history = [found |-> -LookupLease, unlisted |-> Never, late |-> FALSE, open |-> FALSE]

Fault == faults < SearchFailures /\ faults' = faults + 1
Is(r, step) == seeker[r].step = step
Moves(r, step) == seeker' = [seeker EXCEPT ![r] = [@ EXCEPT !.step = step]]
Rests(r) == seeker' = [seeker EXCEPT ![r] = Resting]

\* What the edge of a location answers: Pass drops what has been kept long enough.
AtEdge(p) == copies[p].is

\* The claim is granted; what was stored and the rounds no longer matter.
Granted(r) == seeker' = [seeker EXCEPT ![r] = [@ EXCEPT !.step = "resolving", !.stored = FALSE, !.round = 0]]

Keep(p, is, retention) ==
  \/ copies' = [copies EXCEPT ![p] = [is |-> is, until |-> time + retention]] /\ UNCHANGED faults
  \/ Fault /\ UNCHANGED copies

(***************************************************************************)
(* The request                                                             *)
(***************************************************************************)

\* servePublicSymbolSearch: a copy at the edge answers; without one, or when the
\* edge cannot be read, the store is.
Search(r, p) ==
  /\ Is(r, "idle")
  /\ AtEdge(p) = "none" \/ Fault
  /\ seeker' = [seeker EXCEPT ![r] = [Resting EXCEPT !.step = "reading", !.place = p]]
  /\ (AtEdge(p) = "none" => UNCHANGED faults)
  /\ UNCHANGED <<time, byTicker, listed, catalog, priced, claim, copies, history>>

\* lookupStoredMarketSymbol: an active row of the catalog, and a stored quote.
Held == catalog = Resolved /\ priced

\* The store is read, or fails to be, and the instant of the claim is taken.
ReadStore(r) ==
  /\ Is(r, "reading")
  /\ \E held \in {Held, FALSE} :
       /\ ~(held /\ seeker[r].round > 0)
       /\ IF held = Held THEN UNCHANGED faults ELSE Fault
       /\ seeker' = [seeker EXCEPT ![r] = [@ EXCEPT !.step = "claiming", !.stored = held, !.claimed = time]]
  /\ UNCHANGED <<time, byTicker, listed, catalog, priced, claim, copies, history>>

\* A request that waited is answered by what it finds, which is kept at its edge.
AnswerStored(r) ==
  /\ Is(r, "reading") /\ Held /\ seeker[r].round > 0
  /\ Keep(seeker[r].place, "found", FoundRetention) /\ Rests(r)
  /\ UNCHANGED <<time, byTicker, listed, catalog, priced, claim, history>>

\* Mutant: a claim does not look at the expiry of the one before.
ClaimHeld(r) ==
  /\ Is(r, "claiming") /\ claim' = seeker[r].claimed + LookupLease
  /\ Granted(r)
  /\ UNCHANGED <<time, byTicker, listed, catalog, priced, copies, faults, history>>

\* claimMarketRefresh: no row, or one expired at the claim's instant.
ClaimLookup(r) ==
  /\ Is(r, "claiming") /\ claim <= seeker[r].claimed
  /\ claim' = seeker[r].claimed + LookupLease
  /\ Granted(r)
  /\ UNCHANGED <<time, byTicker, listed, catalog, priced, copies, faults, history>>

\* A store that cannot answer grants the claim.
ClaimUnanswered(r) ==
  /\ Is(r, "claiming") /\ Fault /\ Granted(r)
  /\ history' = [history EXCEPT !.open = TRUE]
  /\ UNCHANGED <<time, byTicker, listed, catalog, priced, claim, copies>>

\* Another request holds the claim: what was stored answers, or the request waits a
\* round, until the last one ends with "busy".
ClaimTaken(r) ==
  /\ Is(r, "claiming") /\ claim > seeker[r].claimed
  /\ IF seeker[r].stored
     THEN Keep(seeker[r].place, "found", FoundRetention) /\ Rests(r)
     ELSE /\ seeker' = [seeker EXCEPT ![r] =
               IF @.round = LastRound THEN Resting
               ELSE [Resting EXCEPT !.step = "waiting", !.place = seeker[r].place, !.round = seeker[r].round + 1]]
          /\ UNCHANGED <<copies, faults>>
  /\ UNCHANGED <<time, byTicker, listed, catalog, priced, claim, history>>

\* awaitClaimWinner: the delay is over, and this edge has the winner's answer or not.
Awake(r) ==
  /\ Is(r, "waiting")
  /\ \/ AtEdge(seeker[r].place) # "none" /\ Rests(r) /\ UNCHANGED faults
     \/ AtEdge(seeker[r].place) = "none" /\ Moves(r, "reading") /\ UNCHANGED faults
     \/ AtEdge(seeker[r].place) # "none" /\ Fault /\ Moves(r, "reading")
  /\ UNCHANGED <<time, byTicker, listed, catalog, priced, claim, copies, history>>

(***************************************************************************)
(* lookupPublicMarketSymbol, under the claim                               *)
(***************************************************************************)

\* missingInstrumentCatalogSymbols: no row, or a placeholder past its interval.
Due(now) == catalog.is = "none" \/ (catalog.is = "unresolved" /\ catalog.at <= now - RetryInterval)

\* catalogSymbolForQuery; a ticker the catalog does not know is put to the broker.
Resolve(r) ==
  /\ Is(r, "resolving")
  /\ IF catalog # Resolved /\ byTicker /\ Due(time)
     THEN seeker' = [seeker EXCEPT ![r] = [@ EXCEPT !.step = "asking", !.asked = time]]
     ELSE Moves(r, IF catalog = Resolved THEN "quoting" ELSE "missing")
  /\ UNCHANGED <<time, byTicker, listed, catalog, priced, claim, copies, faults, history>>

\* Mutant: what the broker does not list leaves no row.
AskUnrecorded(r) ==
  /\ Is(r, "asking")
  /\ catalog' = IF listed THEN Resolved ELSE catalog
  /\ history' = [history EXCEPT !.unlisted = IF listed THEN @ ELSE seeker[r].asked]
  /\ seeker' = [seeker EXCEPT ![r] = [@ EXCEPT !.step = "quoting", !.asked = 0]]
  /\ UNCHANGED <<time, byTicker, listed, priced, claim, copies, faults>>

\* refreshTastytradeInstrumentCatalog: the row the broker sends, active or not, or a
\* placeholder stamped with the instant of the decision, which never takes the place
\* of a resolved row.
Ask(r) ==
  /\ Is(r, "asking")
  /\ catalog' \in IF listed THEN {Resolved, Delisted}
                  ELSE IF catalog.is \in {"resolved", "inactive"} THEN {catalog}
                  ELSE {[is |-> "unresolved", at |-> seeker[r].asked]}
  /\ history' = [history EXCEPT !.unlisted = IF listed THEN @ ELSE seeker[r].asked]
  /\ seeker' = [seeker EXCEPT ![r] = [@ EXCEPT !.step = "quoting", !.asked = 0]]
  /\ UNCHANGED <<time, byTicker, listed, priced, claim, copies, faults>>

\* The catalog is read again, and loadAnsweredMarketFacts stores the facts, or the
\* provider has no quote; a symbol with a quote is then admitted to the list (Watchlist
\* has the writes).
Quote(r) ==
  /\ Is(r, "quoting")
  /\ \/ catalog = Resolved /\ priced' = TRUE /\ Moves(r, "keeping")
     \/ UNCHANGED priced /\ Moves(r, "missing")
  /\ UNCHANGED <<time, byTicker, listed, catalog, claim, copies, faults, history>>

\* A step of the lookup throws; the claim is given back.
LookupFails(r) ==
  /\ seeker[r].step \in Lookup /\ Fault /\ Moves(r, "releasing")
  /\ UNCHANGED <<time, byTicker, listed, catalog, priced, claim, copies, history>>

\* Mutant: a found answer gives its claim back like a missed one.
KeepAndRelease(r) ==
  /\ Is(r, "keeping") /\ Keep(seeker[r].place, "found", FoundRetention) /\ Moves(r, "releasing")
  /\ history' = [history EXCEPT !.found = Max({@, seeker[r].claimed})]
  /\ UNCHANGED <<time, byTicker, listed, catalog, priced, claim>>

\* A found answer is kept, here and in the store, and so is its claim.
KeepFound(r) ==
  /\ Is(r, "keeping") /\ Keep(seeker[r].place, "found", FoundRetention) /\ Rests(r)
  /\ history' = [history EXCEPT !.found = Max({@, seeker[r].claimed})]
  /\ UNCHANGED <<time, byTicker, listed, catalog, priced, claim>>

\* A miss is kept at this edge alone, and only then is the claim given back.
KeepMissed(r) ==
  /\ Is(r, "missing") /\ Keep(seeker[r].place, "missing", MissRetention) /\ Moves(r, "releasing")
  /\ UNCHANGED <<time, byTicker, listed, catalog, priced, claim, history>>

\* Mutant: the row is deleted whoever's it is.
ReleaseAny(r) ==
  /\ Is(r, "releasing") /\ Rests(r) /\ claim' = 0
  /\ UNCHANGED <<time, byTicker, listed, catalog, priced, copies, faults, history>>

\* releaseMarketRefresh: the row with this claim's own expiry.
Release(r) ==
  /\ Is(r, "releasing") /\ Rests(r)
  /\ \/ /\ claim' = IF claim = seeker[r].claimed + LookupLease THEN 0 ELSE claim
        /\ UNCHANGED faults
     \/ Fault /\ UNCHANGED claim
  /\ UNCHANGED <<time, byTicker, listed, catalog, priced, copies, history>>

(***************************************************************************)
(* The rest of the system                                                  *)
(***************************************************************************)

\* The reader leaves, or the isolate ends.
Abandon(r) ==
  /\ ~Is(r, "idle") /\ Fault /\ Rests(r)
  /\ UNCHANGED <<time, byTicker, listed, catalog, priced, claim, copies, history>>

\* The scheduled sweeps: sweepExpiredSymbolRefreshLeases, sweepStaleUnresolvedInstruments.
Sweep ==
  /\ \/ claim # 0 /\ claim <= time /\ claim' = 0 /\ UNCHANGED catalog
     \/ /\ catalog.is = "unresolved" /\ catalog.at <= time - RetryInterval
        /\ catalog' = Unknown /\ UNCHANGED claim
  /\ UNCHANGED <<time, byTicker, listed, priced, copies, seeker, faults, history>>

Listing == /\ ~listed /\ listed' = TRUE
           /\ UNCHANGED <<time, byTicker, catalog, priced, claim, copies, seeker, faults, history>>

\* A lookup that is within the time its claim gives it.
InLease(r) == seeker[r].step \in Lookup /\ time < seeker[r].claimed + LookupLease

Pass == /\ time < SearchClock /\ time' = time + 1
        /\ history' = [history EXCEPT !.late =
             @ \/ \E r \in Seekers : seeker[r].step \in Holding \cup {"claiming"} /\ time' >= seeker[r].claimed + LookupLease]
        /\ copies' = [p \in Places |-> IF copies[p].until > time' THEN copies[p] ELSE NoAnswer]
        /\ UNCHANGED <<byTicker, listed, catalog, priced, claim, seeker, faults>>

SearchNext ==
  \/ \E r \in Seekers, p \in Places : Search(r, p)
  \/ \E r \in Seekers :
       \/ ReadStore(r) \/ AnswerStored(r) \/ Awake(r)
       \/ ClaimLookup(r) \/ ClaimUnanswered(r) \/ ClaimTaken(r)
       \/ Resolve(r) \/ Ask(r) \/ Quote(r) \/ LookupFails(r)
       \/ KeepFound(r) \/ KeepMissed(r) \/ Release(r) \/ Abandon(r)
  \/ Sweep \/ Listing \/ Pass

SearchSpec == SearchInit /\ [][SearchNext]_searchVars

(***************************************************************************)
(* Properties                                                              *)
(***************************************************************************)

\* One lookup at a time asks the provider, from however many locations the search
\* comes; a holder that outlived its lease takes nothing from the newer one by its
\* release; and once a lookup found the symbol, none begins before its claim has run
\* out, since the store answers by then (claimMarketRefresh, releaseMarketRefresh).
LookupsShared ==
  [][\A r \in Seekers :
       ~history'.open /\ ~Is(r, "resolving") /\ Is(r, "resolving")' =>
         /\ time >= history.found + LookupLease
         /\ \A s \in Seekers : ~InLease(s)]_searchVars

\* However often and from wherever a ticker that does not exist is searched, the
\* broker is asked for it once per interval: the claim orders the lookups, the
\* placeholder outlives the copies of the miss, and the sweeps free neither early, as
\* long as lookups end within their claims and the claims' store answers
\* (UNRESOLVED_INSTRUMENT_RETRY_MS).
JunkAskedOnce ==
  ~history.open /\ ~history.late =>
    \A r \in Seekers : Is(r, "asking") => seeker[r].asked >= history.unlisted + RetryInterval

\* What readers of many locations share, whichever they search: one lookup, and its miss.
SearchesShared == LookupsShared /\ []JunkAskedOnce
===============================================================================
