---------------------------- MODULE CatalystRuns ----------------------------
(***************************************************************************)
(* The catalyst searches of one symbol: the receipt that decides whether a *)
(* search is bought, the rows it writes, and the calendar read from them.  *)
(* Runs are requests in different isolates that meet only in the database, *)
(* one statement at a time.  A run stamps everything it writes with the    *)
(* instant it began.                                                       *)
(***************************************************************************)
EXTENDS Integers

CONSTANTS
  Runs,         \* refresh attempts for the symbol
  Events,       \* rows of the symbol, named by kind and date
  Answers,      \* what a search may report
  Kind,         \* the kind of an event
  Window,       \* CATALYST_REFRESH_INTERVAL_DAYS
  Budget,       \* CATALYST_RUN_BUDGET_MS
  Backoff,      \* CATALYST_FAILED_RETRY_MS
  NoRun,
  MaxClock      \* bound: the last instant a run may begin

ASSUME CatalystAssumption ==
  /\ NoRun \notin Runs /\ Answers \subseteq SUBSET Events /\ MaxClock \in Nat
  /\ Budget \in Nat \ {0} /\ Backoff \in Nat /\ Window \in Nat
  /\ Budget <= Backoff /\ Backoff <= Window

VARIABLES
  clock,    \* the present, from 1 on
  receipt,  \* the catalyst_runs row, with the run that claimed it last
  rows,     \* last_seen_at of the catalysts rows; 0 where there is no row
  run       \* the attempts

vars == <<clock, receipt, rows, run>>

Steps == {"idle", "asking", "searching", "found", "persisted", "failing", "over"}

Run == [step: Steps, now: Nat, reports: SUBSET Events,
        forced: BOOLEAN,    \* an owner asked for it on purpose
        claimed: BOOLEAN,   \* its claim is in the database
        stored: BOOLEAN,    \* so are its rows
        recorded: {"nothing", "complete", "failed"}]  \* and the outcome it closed the receipt with

TypeOK ==
  /\ clock \in Nat \ {0}
  /\ receipt \in [status: {"none", "running", "complete", "failed"}, ranAt: Nat, claimant: Runs \cup {NoRun}]
  /\ rows \in [Events -> Nat]
  /\ run \in [Runs -> Run]

Init ==
  /\ clock = 1
  /\ receipt = [status |-> "none", ranAt |-> 0, claimant |-> NoRun]
  /\ rows = [e \in Events |-> 0]
  /\ run = [r \in Runs |-> [step |-> "idle", now |-> 0, reports |-> {}, forced |-> FALSE,
                            claimed |-> FALSE, stored |-> FALSE, recorded |-> "nothing"]]

Becomes(r, step) == run' = [run EXCEPT ![r] = [@ EXCEPT !.step = step]]

\* attemptCatalystRefresh up to its claim: the instant is taken, then the
\* catalog and the watchlist are read.  Attempts may begin in one millisecond.
Start(r) ==
  /\ run[r].step = "idle" /\ clock <= MaxClock
  /\ \E forced \in BOOLEAN :
       run' = [run EXCEPT ![r] = [@ EXCEPT !.step = "asking", !.now = clock, !.forced = forced]]
  /\ UNCHANGED <<clock, receipt, rows>>

(***************************************************************************)
(* claimRun                                                                *)
(***************************************************************************)

\* Mutant: a failed receipt holds nothing back.
ClaimableAfterFailure(r) ==
  \/ run[r].forced
  \/ receipt.status \in {"none", "failed"}
  \/ receipt.status = "complete" /\ receipt.ranAt + Window <= run[r].now
  \/ receipt.status = "running" /\ receipt.ranAt + Budget <= run[r].now

Claimable(r) ==
  \/ run[r].forced
  \/ receipt.status = "none"
  \/ receipt.status = "complete" /\ receipt.ranAt + Window <= run[r].now
  \/ receipt.status = "running" /\ receipt.ranAt + Budget <= run[r].now
  \/ receipt.status = "failed" /\ receipt.ranAt + Backoff <= run[r].now

\* The guard and the write are one statement.  Its answer may be lost.
Claim(r) ==
  /\ run[r].step = "asking" /\ Claimable(r)
  /\ receipt' = [status |-> "running", ranAt |-> run[r].now, claimant |-> r]
  /\ \E step \in {"searching", "over"} :
       run' = [run EXCEPT ![r] = [@ EXCEPT !.step = step, !.claimed = TRUE]]
  /\ UNCHANGED <<clock, rows>>

\* The receipt holds the symbol: no search is bought.
Refused(r) ==
  /\ run[r].step = "asking" /\ ~Claimable(r)
  /\ Becomes(r, "over")
  /\ UNCHANGED <<clock, receipt, rows>>

(***************************************************************************)
(* The search and what it writes                                           *)
(***************************************************************************)

SearchAnswers(r) ==
  /\ run[r].step = "searching"
  /\ Becomes(r, "found")
  /\ UNCHANGED <<clock, receipt, rows>>

SearchFails(r) ==
  /\ run[r].step = "searching"
  /\ Becomes(r, "failing")
  /\ UNCHANGED <<clock, receipt, rows>>

\* Mutant: the last write wins.
UpsertAlways(now, found) == [e \in Events |-> IF e \in found THEN now ELSE rows[e]]

\* catalystUpsertStatements: a sighting never moves backwards.
Upsert(now, found) == [e \in Events |-> IF e \in found /\ now >= rows[e] THEN now ELSE rows[e]]

\* persistResearchCatalysts of what the search found, one batch.  Its answer may be lost.
Persist(r) ==
  /\ run[r].step = "found"
  /\ \E found \in Answers, step \in {"persisted", "failing"} :
       /\ rows' = Upsert(run[r].now, found)
       /\ run' = [run EXCEPT ![r] = [@ EXCEPT !.step = step, !.stored = TRUE, !.reports = found]]
  /\ UNCHANGED <<clock, receipt>>

PersistFails(r) ==
  /\ run[r].step = "found"
  /\ Becomes(r, "failing")
  /\ UNCHANGED <<clock, receipt, rows>>

(***************************************************************************)
(* recordRun                                                               *)
(***************************************************************************)

\* Mutant: any running receipt is closed, whoever claimed it.
AnyRunning(r) == receipt.status = "running"

\* The receipt it finds is the one it claimed, as far as its stamp tells.
OwnReceipt(r) == receipt.status = "running" /\ receipt.ranAt = run[r].now

Record(r, outcome, steps) ==
  /\ receipt' = IF OwnReceipt(r) THEN [receipt EXCEPT !.status = outcome] ELSE receipt
  /\ \E step \in steps :
       run' = [run EXCEPT ![r] = [@ EXCEPT !.step = step,
                                           !.recorded = IF OwnReceipt(r) THEN outcome ELSE run[r].recorded]]
  /\ UNCHANGED <<clock, rows>>

\* Mutant: the receipt is closed once the search has answered.
RecordBeforePersist(r) ==
  /\ run[r].step \in {"found", "persisted"}
  /\ Record(r, "complete", {"over", run[r].step})

\* A lost answer leads to the handler that records the failure.
RecordComplete(r) ==
  /\ run[r].step = "persisted"
  /\ Record(r, "complete", {"over", "failing"})

RecordCompleteFails(r) ==
  /\ run[r].step = "persisted"
  /\ Becomes(r, "failing")
  /\ UNCHANGED <<clock, receipt, rows>>

RecordFailed(r) == run[r].step = "failing" /\ Record(r, "failed", {"over"})

\* The invocation is cut off, or a statement outside the handler throws.
Dies(r) ==
  /\ run[r].step \notin {"idle", "over"}
  /\ Becomes(r, "over")
  /\ UNCHANGED <<clock, receipt, rows>>

Tick == clock <= MaxClock /\ clock' = clock + 1 /\ UNCHANGED <<receipt, rows, run>>

Step(r) == \/ Start(r) \/ Claim(r) \/ Refused(r)
           \/ SearchAnswers(r) \/ SearchFails(r) \/ Persist(r) \/ PersistFails(r)
           \/ RecordComplete(r) \/ RecordCompleteFails(r) \/ RecordFailed(r) \/ Dies(r)

Next == (\E r \in Runs : Step(r)) \/ Tick

Spec == Init /\ [][Next]_vars

(***************************************************************************)
(* Properties                                                              *)
(***************************************************************************)

\* CURRENT_CATALYSTS: of each kind, the rows of the latest sighting.
Shown == {e \in Events : rows[e] # 0 /\ \A f \in Events : Kind[f] = Kind[e] => rows[f] <= rows[e]}

Stored == {r \in Runs : run[r].stored}
Reporting(k) == {r \in Stored : \E e \in run[r].reports : Kind[e] = k}

\* The calendar never depends on the order in which runs finish: of each kind it
\* shows what the run that began last reported of it, however late an earlier
\* run's rows arrive (catalystUpsertStatements, CURRENT_CATALYSTS).
ShownIsLatest ==
  \A e \in Events :
    e \in Shown <=> \E r \in Stored : /\ e \in run[r].reports
                                      /\ \A q \in Reporting(Kind[e]) : run[q].now <= run[r].now

\* A receipt that says complete stands for rows that are in the store: a run that
\* died or failed on the way never keeps its symbol unsearched for the window.
CompleteIsStored ==
  receipt.status = "complete" => \E r \in Stored : run[r].claimed /\ run[r].now = receipt.ranAt

\* A receipt is closed by the run that claimed it last, never by one it superseded:
\* as long as that run is at work the receipt says so.  The stamp must tell the two
\* apart, which it does not when a forced run began in the same millisecond (recordRun).
ClosedByClaimant ==
  (\A r \in Runs : run[r].claimed /\ run[r].now = receipt.ranAt => r = receipt.claimant)
    => \/ receipt.status \in {"none", "running"}
       \/ \E r \in Runs : r = receipt.claimant /\ run[r].recorded = receipt.status

NoneForced == \A r \in Runs : ~run[r].forced

Hold(r) == CASE run[r].recorded = "complete" -> Window
             [] run[r].recorded = "failed" -> Backoff
             [] OTHER -> Budget

\* Attention buys a symbol's searches one at a time: after a search the next one
\* begins no sooner than its outcome allows - the window, the backoff, or the run
\* budget when it left none - whatever readers race, stall or die, as long as no
\* owner forces one (claimRun).
SearchesSpaced ==
  NoneForced =>
    \A r, s \in Runs :
      run[r].claimed /\ run[s].claimed /\ r # s =>
        \/ run[r].now + Hold(r) <= run[s].now
        \/ run[s].now + Hold(s) <= run[r].now

(***************************************************************************)
(* Inductive invariants                                                    *)
(***************************************************************************)

\* What an attempt has done by the step it is at.
LifeOf(r) ==
  /\ run[r].step \in {"idle", "asking"} => ~run[r].claimed
  /\ run[r].step \in {"idle", "asking", "searching", "found"} => ~run[r].stored
  /\ run[r].step \in {"searching", "found", "persisted", "failing"} => run[r].claimed
  /\ run[r].step = "persisted" => run[r].stored
  /\ run[r].stored => run[r].claimed
  /\ run[r].step # "idle" => run[r].now >= 1
  /\ run[r].step = "idle" => ~run[r].forced

Life == \A r \in Runs : LifeOf(r)

\* A row bears the stamp of the run that began last of those that reported it.
RowsAreLatest ==
  \A e \in Events :
    /\ rows[e] # 0 => \E r \in Stored : e \in run[r].reports /\ run[r].now = rows[e]
    /\ \A r \in Stored : e \in run[r].reports => run[r].now <= rows[e]

\* The calendar's invariant: whatever runs are at work, every row is the word of the
\* last run to have reported it, and a complete receipt has its rows (attemptCatalystRefresh).
CalendarInv == TypeOK /\ Life /\ RowsAreLatest /\ CompleteIsStored

\* The receipt is its claimant's, and says what that run recorded.
ReceiptIsClaimants ==
  IF receipt.claimant = NoRun
    THEN receipt.status = "none" /\ \A r \in Runs : ~run[r].claimed
    ELSE /\ run[receipt.claimant].claimed /\ run[receipt.claimant].now = receipt.ranAt
         /\ receipt.status = IF run[receipt.claimant].recorded = "nothing" THEN "running"
                             ELSE run[receipt.claimant].recorded

\* As long as none is forced, the receipt carries every earlier search with it: each
\* of them had run its course by the instant it was last claimed at (claimRun).
AttentionInv ==
  NoneForced =>
    /\ SearchesSpaced /\ ReceiptIsClaimants
    /\ \A r \in Runs : run[r].recorded # "nothing" => run[r].claimed
    /\ \A r \in Runs : run[r].claimed /\ r # receipt.claimant => run[r].now + Hold(r) <= receipt.ranAt

==============================================================================
