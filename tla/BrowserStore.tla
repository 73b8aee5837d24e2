---------------------------- MODULE BrowserStore ----------------------------
(***************************************************************************)
(* What one tab draws: the stored record of the last snapshot, which all   *)
(* tabs of the browser share, beside the rows of the live overlay, which   *)
(* is the tab's own.  A queue of operations replaces both, one operation   *)
(* at a time and in several steps each, while live frames, the poll and    *)
(* another tab go on (data/collections.ts, data/use-audience-market.ts).   *)
(*                                                                         *)
(* An audience never changes within a page: signing in or out is a         *)
(* navigation, which ends the page wherever it is and begins another.      *)
(* Instants stand for versions of the market: a snapshot's rows carry the  *)
(* one it was read at.                                                     *)
(***************************************************************************)
EXTENDS Integers, Sequences

CONSTANTS
  MarketClock,       \* bound: instants
  MaxPages,          \* bound: pages, one after the other
  MaxOthers,         \* bound: writes of another tab
  MaxChoices,        \* bound: selections of a searched symbol
  MaxStoreFailures   \* bound: statements of the browser's storage that fail

ASSUME BrowserStoreAssumption ==
  /\ MarketClock \in Nat \ {0} /\ MaxPages \in Nat \ {0}
  /\ MaxOthers \in Nat /\ MaxChoices \in Nat /\ MaxStoreFailures \in Nat

Audiences == {"owner", "public"}
Symbols == {"listed", "searched"}   \* on every list, and admitted by a search alone

VARIABLES
  record,    \* the stored snapshot, with the tab that wrote it
  overlay,   \* the rows of tickerCollection
  heldFor,   \* liveOverlayAudience
  selected,  \* the preference: a symbol, or none yet
  viewer,    \* the audience the session check named
  queue,     \* snapshotOperationTail: operations begun and waiting; the first runs
  poll,      \* the request of syncFromCloud
  tag,       \* cloudSnapshotEtag with its audience
  instant, served,   \* the market's instant, and the one of the server's snapshot
  spent      \* history: how much of each bound is used

storeVars == <<record, overlay, heldFor, selected, viewer, queue, poll, tag, instant, served, spent>>

\* `extra` is the instant of a searched symbol's row, or 0 without one; what another
\* tab wrote is not its own.
SnapshotOf(aud, ver, extra, own) == [aud |-> aud, ver |-> ver, extra |-> extra, own |-> own]
Nothing == SnapshotOf("none", 0, 0, TRUE)
NoRow == [auds |-> {}, at |-> 0]
NoTag == [aud |-> "none", ver |-> 0]
NoRows == [s \in Symbols |-> NoRow]
PollOff == [step |-> "off", tag |-> NoTag]

RowsOf(snapshot) ==
  [s \in Symbols |-> IF snapshot = Nothing \/ (s = "searched" /\ snapshot.extra = 0) THEN NoRow
                     ELSE [auds |-> {snapshot.aud},
                           at |-> IF s = "searched" THEN snapshot.extra ELSE snapshot.ver]]

\* An operation: what it is, its snapshot, where it is, and whether it replaces rows.
Operation(kind, snapshot) ==
  [kind |-> kind, snapshot |-> snapshot, step |-> "begin", forced |-> FALSE, before |-> Nothing]

Spends(what, limit) == spent[what] < limit /\ spent' = [spent EXCEPT ![what] = @ + 1]
StoreFails == Spends("failures", MaxStoreFailures)

StoreInit ==
  /\ record \in {Nothing, SnapshotOf("public", 1, 0, TRUE)}
  /\ overlay = NoRows /\ heldFor = "none" /\ selected = "none" /\ viewer = "unknown"
  /\ queue = <<Operation("preview", Nothing)>> /\ poll = PollOff /\ tag = NoTag
  /\ instant = 1 /\ served = 1
  /\ spent = [pages |-> 1, others |-> 0, choices |-> 0, failures |-> 0]

(***************************************************************************)
(* The overlay                                                             *)
(***************************************************************************)

\* Mutant: the snapshot's row is taken whole.
TakenRow(row, next) == next

\* Within one audience a newer tick keeps its price; every other field is the row's.
MergedRow(row, next) ==
  IF next # NoRow /\ row.at > next.at
  THEN [auds |-> next.auds \cup row.auds, at |-> row.at] ELSE next

\* replaceLiveTickers
Replaced(rows, replaceExisting) ==
  [s \in Symbols |-> IF replaceExisting THEN rows[s] ELSE MergedRow(overlay[s], rows[s])]

\* Mutant: rows are merged whatever audience the overlay holds.
MergesAll(forced, aud) == forced

\* replaceLiveOverlay: rows cross audiences by replacement.
ReplacesExisting(forced, aud) == forced \/ heldFor # aud

Swaps(rows, forced, aud) ==
  /\ overlay' = Replaced(rows, ReplacesExisting(forced, aud))
  /\ heldFor' = "none"

(***************************************************************************)
(* Operations                                                              *)
(***************************************************************************)

Running(kinds, step) == queue # <<>> /\ Head(queue).kind \in kinds /\ Head(queue).step = step
Continues(operation) == queue' = <<operation>> \o Tail(queue)
AtStep(step) == [Head(queue) EXCEPT !.step = step]
OpEnds == queue' = Tail(queue)
\* What becomes of the poll whose hydration this is.
Settles(step) == poll' = IF Running({"hydrate"}, Head(queue).step) THEN IF step = "off" THEN PollOff ELSE [poll EXCEPT !.step = step] ELSE poll
Queues(operation) == queue' = Append(queue, operation)

\* hydrateCollectionsImmediately, of the poll's snapshot or of the stored one with the
\* searched symbol in it.
BeginHydrate ==
  /\ Running({"hydrate"}, "begin")
  /\ IF record # Nothing /\ record.aud # Head(queue).snapshot.aud
     THEN /\ Continues([AtStep("swap") EXCEPT !.forced = TRUE])
          /\ record' = Nothing
     ELSE Continues(AtStep("swap")) /\ UNCHANGED record
  /\ UNCHANGED <<overlay, heldFor, selected, viewer, poll, tag, instant, served, spent>>

\* The other audience's record cannot be deleted.
HydrateFails ==
  /\ Running({"hydrate"}, "begin") /\ record.aud \notin {"none", Head(queue).snapshot.aud}
  /\ StoreFails /\ OpEnds /\ Settles("off")
  /\ UNCHANGED <<record, overlay, heldFor, selected, viewer, tag, instant, served>>

\* The overlay of any operation takes its rows.
Swap ==
  /\ Running({"preview", "restore", "hydrate", "retain"}, "swap")
  /\ LET operation == Head(queue)
     IN Swaps(RowsOf(operation.snapshot), operation.forced, operation.snapshot.aud)
  /\ Continues(AtStep("swapped"))
  /\ UNCHANGED <<record, selected, viewer, poll, tag, instant, served, spent>>

\* liveOverlayAudience is set; a hydration writes the record at once.
Swapped ==
  /\ Running({"preview", "restore", "hydrate", "retain"}, "swapped")
  /\ LET operation == Head(queue)
     IN /\ heldFor' = operation.snapshot.aud
        /\ IF operation.kind \in {"hydrate", "retain"}
           THEN /\ record' = operation.snapshot
                /\ Continues([AtStep("persisting") EXCEPT !.before = record])
           ELSE /\ UNCHANGED record
                /\ IF operation.kind = "restore" /\ operation.snapshot # Nothing
                   THEN Continues(AtStep("preferring")) ELSE OpEnds
  /\ UNCHANGED <<overlay, selected, viewer, poll, tag, instant, served, spent>>

\* The storage has it, or refuses it and the record is what it was.
Persist ==
  /\ Running({"hydrate", "retain"}, "persisting")
  /\ \/ Continues(AtStep("preferring")) /\ UNCHANGED <<record, poll, spent>>
     \/ /\ StoreFails /\ OpEnds /\ Settles("off")
        /\ record' = IF record = Head(queue).snapshot THEN Head(queue).before ELSE record
  /\ UNCHANGED <<overlay, heldFor, selected, viewer, tag, instant, served>>

\* Mutant: a choice is kept whether or not the snapshot carries it.
PreferredOnce(snapshot) == IF selected = "none" THEN "listed" ELSE selected

Preferred(snapshot) ==
  IF selected = "searched" /\ RowsOf(snapshot)[selected] # NoRow THEN selected ELSE "listed"

\* updateSnapshotPreference: a choice the snapshot carries is kept; then a selection
\* that brought a searched symbol is saved.
Prefer ==
  /\ Running({"restore", "hydrate", "retain"}, "preferring")
  /\ \/ /\ selected' = Preferred(Head(queue).snapshot) /\ UNCHANGED spent
        /\ IF Head(queue).kind = "retain" THEN Continues(AtStep("select")) ELSE OpEnds
        /\ Settles("stored")
     \/ StoreFails /\ OpEnds /\ Settles("off") /\ UNCHANGED selected
  /\ UNCHANGED <<record, overlay, heldFor, viewer, tag, instant, served>>

\* previewPublicSnapshotImmediately: an owner's record waits for the session check.
BeginPreview ==
  /\ Running({"preview"}, "begin")
  /\ IF record.aud = "public"
     THEN Continues([AtStep("swap") EXCEPT !.snapshot = record, !.forced = TRUE])
     ELSE OpEnds
  /\ UNCHANGED <<record, overlay, heldFor, selected, viewer, poll, tag, instant, served, spent>>

\* restoreOfflineSnapshotImmediately: the record of this audience is drawn; another's
\* is deleted, with whatever the overlay held.
BeginRestore ==
  /\ Running({"restore"}, "begin")
  /\ \/ /\ record.aud = viewer
        /\ Continues([AtStep("swap") EXCEPT !.snapshot = record])
        /\ UNCHANGED <<record, spent>>
     \/ /\ record.aud # viewer
        /\ record' = Nothing /\ UNCHANGED spent
        /\ Continues([AtStep("swap") EXCEPT !.snapshot = Nothing, !.forced = TRUE])
     \/ /\ record.aud \notin {viewer, "none"}
        /\ StoreFails /\ OpEnds /\ UNCHANGED record
  /\ UNCHANGED <<overlay, heldFor, selected, viewer, poll, tag, instant, served>>

\* retainSymbolLookupImmediately: into the stored snapshot, unless its row is there.
BeginRetain ==
  /\ Running({"retain"}, "begin")
  /\ IF record = Nothing THEN OpEnds
     ELSE IF overlay["searched"] # NoRow THEN Continues(AtStep("select"))
     ELSE Continues([AtStep("swap") EXCEPT !.snapshot = [record EXCEPT !.extra = instant]])
  /\ UNCHANGED <<record, overlay, heldFor, selected, viewer, poll, tag, instant, served, spent>>

\* selectTicker: its row, and a preference to change, or the choice fails.
Select ==
  /\ Running({"retain"}, "select") /\ OpEnds
  /\ \/ /\ selected' = IF overlay["searched"] # NoRow /\ selected # "none" THEN "searched" ELSE selected
        /\ UNCHANGED spent
     \/ StoreFails /\ UNCHANGED selected
  /\ UNCHANGED <<record, overlay, heldFor, viewer, poll, tag, instant, served>>

(***************************************************************************)
(* The page                                                                *)
(***************************************************************************)

\* The session check answers; what is stored for its audience is restored.
Resolved ==
  /\ viewer = "unknown" /\ viewer' \in Audiences
  /\ Queues(Operation("restore", Nothing))
  /\ UNCHANGED <<record, overlay, heldFor, selected, poll, tag, instant, served, spent>>

\* What a search found is chosen.
Choose ==
  /\ viewer # "unknown" /\ Spends("choices", MaxChoices)
  /\ Queues(Operation("retain", Nothing))
  /\ UNCHANGED <<record, overlay, heldFor, selected, viewer, poll, tag, instant, served>>

\* The tag is sent while the record is this audience's.
HeldTag == IF tag.aud = viewer /\ record.aud = viewer THEN tag ELSE NoTag

\* Once the restore is over, the query polls; one request at a time.
Poll ==
  /\ viewer # "unknown" /\ poll.step = "off"
  /\ \A i \in DOMAIN queue : queue[i].kind # "restore"
  /\ poll' = [step |-> "asked", tag |-> HeldTag]
  /\ UNCHANGED <<record, overlay, heldFor, selected, viewer, queue, tag, instant, served, spent>>

\* Unchanged: the record answers; or it went away, and the body is asked for.
Unchanged ==
  /\ poll.step = "asked" /\ poll.tag # NoTag /\ poll.tag.ver = served
  /\ IF record.aud = viewer THEN poll' = PollOff /\ UNCHANGED tag
     ELSE poll' = [poll EXCEPT !.tag = NoTag] /\ tag' = NoTag
  /\ UNCHANGED <<record, overlay, heldFor, selected, viewer, queue, instant, served, spent>>

\* Mutant: the tag is kept before its body is.
TagEarly(ver) == [aud |-> viewer, ver |-> ver]

TagOnBody(ver) == tag

\* A body arrives and its hydration is queued; a searched symbol may be on the list now.
Body ==
  /\ poll.step = "asked" /\ poll.tag.ver # served
  /\ \E extra \in {0, served} : Queues(Operation("hydrate", SnapshotOf(viewer, served, extra, TRUE)))
  /\ poll' = [poll EXCEPT !.step = "hydrating", !.tag = [aud |-> viewer, ver |-> served]]
  /\ tag' = TagOnBody(served)
  /\ UNCHANGED <<record, overlay, heldFor, selected, viewer, instant, served, spent>>

\* The hydration is over, and its body stored: the tag is kept.
Hydrated ==
  /\ poll.step = "stored" /\ poll' = PollOff /\ tag' = poll.tag
  /\ UNCHANGED <<record, overlay, heldFor, selected, viewer, queue, instant, served, spent>>

PollFails ==
  /\ poll.step = "asked" /\ poll' = PollOff
  /\ UNCHANGED <<record, overlay, heldFor, selected, viewer, queue, tag, instant, served, spent>>

\* applyLiveMarketEvent: a price no older than its row's, while the record is the
\* socket's audience's.
LiveFrame ==
  /\ record.aud = viewer
  /\ \E s \in Symbols :
       /\ overlay[s] # NoRow /\ overlay[s].at < instant
       /\ overlay' = [overlay EXCEPT ![s].at = instant]
  /\ UNCHANGED <<record, heldFor, selected, viewer, queue, poll, tag, instant, served, spent>>

(***************************************************************************)
(* The rest of the browser and the server                                  *)
(***************************************************************************)

\* Another tab stores its snapshot, or a newer bundle of the application retires the key.
OtherTab ==
  /\ Spends("others", MaxOthers)
  /\ \/ record' = Nothing
     \/ \E aud \in Audiences, ver \in 1..served : record' = SnapshotOf(aud, ver, 0, FALSE)
  /\ UNCHANGED <<overlay, heldFor, selected, viewer, queue, poll, tag, instant, served>>

\* The page ends where it is and another begins with what is stored.
NewPage ==
  /\ Spends("pages", MaxPages)
  /\ record' = IF Running({"hydrate", "retain"}, "persisting") /\ record = Head(queue).snapshot
               THEN [Head(queue).before EXCEPT !.own = TRUE] ELSE [record EXCEPT !.own = TRUE]
  /\ overlay' = NoRows /\ heldFor' = "none" /\ viewer' = "unknown"
  /\ queue' = <<Operation("preview", Nothing)>> /\ poll' = PollOff /\ tag' = NoTag
  /\ UNCHANGED <<selected, instant, served>>

MarketMoves == /\ instant < MarketClock /\ instant' = instant + 1
               /\ UNCHANGED <<record, overlay, heldFor, selected, viewer, queue, poll, tag, served, spent>>
ServerRefreshes == /\ served < instant /\ served' = instant
                   /\ UNCHANGED <<record, overlay, heldFor, selected, viewer, queue, poll, tag, instant, spent>>

StoreNext ==
  \/ BeginHydrate \/ HydrateFails \/ Swap \/ Swapped \/ Persist \/ Prefer
  \/ BeginPreview \/ BeginRestore \/ BeginRetain \/ Select
  \/ Resolved \/ Choose \/ Poll \/ Unchanged \/ Body \/ Hydrated \/ PollFails \/ LiveFrame
  \/ OtherTab \/ NewPage \/ MarketMoves \/ ServerRefreshes

StoreSpec == StoreInit /\ [][StoreNext]_storeVars

(***************************************************************************)
(* Properties                                                              *)
(***************************************************************************)

\* audienceMarketView: the record's rows are drawn if it is this audience's, or public
\* while the session check runs.
Shown == record.aud = IF viewer = "unknown" THEN "public" ELSE viewer

\* The audience's record is never drawn beside the other one's rows: not between two
\* steps of a replacement, not after one that failed, whatever the storage held when
\* the page began and though another tab stores the other audience's snapshot or
\* evicts the record meanwhile (hydrateCollectionsImmediately, replaceLiveOverlay).
AudiencesNotMixed ==
  Shown /\ record.own => \A s \in Symbols : overlay[s].auds \subseteq {record.aud}

\* An answer of "unchanged" is for what is stored: the tag a poll sends names no newer
\* body than this tab's record, after a storage that refused the body, or a record
\* that was deleted, replaced or rolled back while the request ran (syncFromCloud).
UnchangedIsCurrent ==
  poll.step = "asked" /\ poll.tag # NoTag /\ record.own /\ record.aud = viewer =>
    record.ver >= poll.tag.ver

\* What the page shows of an audience, and asks after, is that audience's own.
AudienceInv == AudiencesNotMixed /\ UnchangedIsCurrent

\* A live price is not pulled back by an older snapshot of the same audience, which a
\* poll, a restore or a search's admission may bring; only rows that replace the other
\* audience's begin again (replaceLiveTickers).
PriceNotPulledBack ==
  [][\A s \in Symbols :
       /\ overlay[s] # NoRow /\ overlay'[s] # NoRow /\ overlay'[s].auds = overlay[s].auds
       /\ ~(Running({"hydrate"}, "swap") /\ Head(queue).forced)
       => overlay'[s].at >= overlay[s].at]_storeVars
=============================================================================
