--------------------------- MODULE CatalystProofs ---------------------------
(***************************************************************************)
(* For any number of attempts, events and instants: the calendar shows the *)
(* last word on each kind, a complete receipt has its rows, and unforced   *)
(* searches are spaced.  What the calendar shows is no invariant of its    *)
(* own: it follows from what each row is, RowsAreLatest, which every write *)
(* keeps.  The spacing needs the receipt to carry all earlier searches     *)
(* with it (AttentionInv), for a claim is only compared with the receipt.  *)
(* Above them lie the dates: every row cites a page that its own run read, *)
(* and what an agent reads of the calendar is whole or says what it lacks. *)
(***************************************************************************)
EXTENDS CatalystCitations, FiniteSetTheorems, WellFoundedInduction, TLAPS

USE CatalystAssumption

(***************************************************************************)
(* What a step changes of its run                                          *)
(***************************************************************************)

\* Every other run stays as it is.
OthersKept(r) == \A s \in Runs \ {r} : run'[s] = run[s]

LEMMA OneRun ==
  ASSUME TypeOK, NEW r \in Runs, NEW x \in Run, run' = [run EXCEPT ![r] = x]
  PROVE  run' \in [Runs -> Run] /\ run'[r] = x /\ OthersKept(r)
  BY DEF TypeOK, OthersKept

\* Becomes, and the part of Start, Claim, Persist and Record that concerns the run:
\* the fields each sets, and those it keeps.
LEMMA Moved ==
  ASSUME TypeOK, NEW r \in Runs, NEW step \in Steps, Becomes(r, step)
  PROVE  /\ run' \in [Runs -> Run] /\ OthersKept(r)
         /\ run'[r].step = step /\ run'[r].now = run[r].now /\ run'[r].reports = run[r].reports
         /\ run'[r].claimed = run[r].claimed /\ run'[r].stored = run[r].stored
         /\ run'[r].recorded = run[r].recorded /\ run'[r].forced = run[r].forced
<1> DEFINE x == [run[r] EXCEPT !.step = step]
<1>1. run[r] \in Run
  BY DEF TypeOK
<1>2. /\ x \in Run /\ x.step = step /\ x.now = run[r].now /\ x.reports = run[r].reports
      /\ x.claimed = run[r].claimed /\ x.stored = run[r].stored /\ x.recorded = run[r].recorded
      /\ x.forced = run[r].forced
  BY <1>1 DEF Run
<1>3. run' = [run EXCEPT ![r] = x]
  BY DEF Becomes
<1> HIDE DEF x
<1> QED
  BY <1>2, <1>3, OneRun

LEMMA Started ==
  ASSUME TypeOK, NEW r \in Runs, Start(r)
  PROVE  /\ run' \in [Runs -> Run] /\ OthersKept(r)
         /\ run'[r].step = "asking" /\ run'[r].now = clock
         /\ run'[r].claimed = run[r].claimed /\ run'[r].stored = run[r].stored
         /\ run'[r].recorded = run[r].recorded
<1>1. PICK forced \in BOOLEAN :
        run' = [run EXCEPT ![r] = [run[r] EXCEPT !.step = "asking", !.now = clock, !.forced = forced]]
  BY DEF Start
<1> DEFINE x == [run[r] EXCEPT !.step = "asking", !.now = clock, !.forced = forced]
<1>2. run[r] \in Run /\ clock \in Nat
  BY DEF TypeOK
<1>3. /\ x \in Run /\ x.step = "asking" /\ x.now = clock
      /\ x.claimed = run[r].claimed /\ x.stored = run[r].stored /\ x.recorded = run[r].recorded
  BY <1>2 DEF Run, Steps
<1>4. run' = [run EXCEPT ![r] = x]
  BY <1>1
<1> HIDE DEF x
<1> QED
  BY <1>3, <1>4, OneRun

LEMMA Claimed ==
  ASSUME TypeOK, NEW r \in Runs, Claim(r)
  PROVE  /\ run' \in [Runs -> Run] /\ OthersKept(r)
         /\ run'[r].step \in {"searching", "over"} /\ run'[r].claimed
         /\ run'[r].now = run[r].now /\ run'[r].reports = run[r].reports
         /\ run'[r].stored = run[r].stored /\ run'[r].recorded = run[r].recorded
         /\ run'[r].forced = run[r].forced
<1>1. PICK step \in {"searching", "over"} :
        run' = [run EXCEPT ![r] = [run[r] EXCEPT !.step = step, !.claimed = TRUE]]
  BY DEF Claim
<1> DEFINE x == [run[r] EXCEPT !.step = step, !.claimed = TRUE]
<1>2. run[r] \in Run /\ step \in Steps
  BY DEF TypeOK, Steps
<1>3. /\ x \in Run /\ x.step = step /\ x.claimed /\ x.now = run[r].now
      /\ x.reports = run[r].reports /\ x.stored = run[r].stored /\ x.recorded = run[r].recorded
      /\ x.forced = run[r].forced
  BY <1>2 DEF Run
<1>4. run' = [run EXCEPT ![r] = x]
  BY <1>1
<1> HIDE DEF x
<1> QED
  BY <1>3, <1>4, OneRun

LEMMA Persisted ==
  ASSUME TypeOK, NEW r \in Runs, Persist(r)
  PROVE  \E found \in Answers :
           /\ rows' = Upsert(run[r].now, found)
           /\ run' \in [Runs -> Run] /\ OthersKept(r)
           /\ run'[r].step \in {"persisted", "failing"} /\ run'[r].stored /\ run'[r].reports = found
           /\ run'[r].now = run[r].now /\ run'[r].claimed = run[r].claimed
           /\ run'[r].recorded = run[r].recorded /\ run'[r].forced = run[r].forced
<1>1. PICK found \in Answers, step \in {"persisted", "failing"} :
        /\ rows' = Upsert(run[r].now, found)
        /\ run' = [run EXCEPT ![r] = [run[r] EXCEPT !.step = step, !.stored = TRUE, !.reports = found]]
  BY DEF Persist
<1> DEFINE x == [run[r] EXCEPT !.step = step, !.stored = TRUE, !.reports = found]
<1>2. run[r] \in Run /\ step \in Steps /\ found \in SUBSET Events
  BY DEF TypeOK, Steps
<1>3. /\ x \in Run /\ x.step = step /\ x.stored /\ x.now = run[r].now /\ x.reports = found
      /\ x.claimed = run[r].claimed /\ x.recorded = run[r].recorded /\ x.forced = run[r].forced
  BY <1>2 DEF Run
<1>4. run' = [run EXCEPT ![r] = x]
  BY <1>1
<1> HIDE DEF x
<1>5. /\ run' \in [Runs -> Run] /\ OthersKept(r)
      /\ run'[r].step \in {"persisted", "failing"} /\ run'[r].stored /\ run'[r].reports = found
      /\ run'[r].now = run[r].now /\ run'[r].claimed = run[r].claimed
      /\ run'[r].recorded = run[r].recorded /\ run'[r].forced = run[r].forced
  BY <1>3, <1>4, OneRun
<1> QED
  BY <1>1, <1>5

LEMMA Recorded ==
  ASSUME TypeOK, NEW r \in Runs, NEW outcome \in {"complete", "failed"},
         NEW steps \in SUBSET {"failing", "over"}, Record(r, outcome, steps)
  PROVE  /\ run' \in [Runs -> Run] /\ OthersKept(r)
         /\ run'[r].step \in {"failing", "over"}
         /\ run'[r].now = run[r].now /\ run'[r].reports = run[r].reports
         /\ run'[r].claimed = run[r].claimed /\ run'[r].stored = run[r].stored
         /\ run'[r].recorded = IF OwnReceipt(r) THEN outcome ELSE run[r].recorded
         /\ run'[r].forced = run[r].forced
<1> DEFINE answer == IF OwnReceipt(r) THEN outcome ELSE run[r].recorded
<1>1. PICK step \in steps :
        run' = [run EXCEPT ![r] = [run[r] EXCEPT !.step = step,
                                     !.recorded = IF OwnReceipt(r) THEN outcome ELSE run[r].recorded]]
  BY DEF Record
<1> DEFINE x == [run[r] EXCEPT !.step = step, !.recorded = answer]
<1>2. run[r] \in Run /\ step \in Steps /\ step \in {"failing", "over"}
  BY DEF TypeOK, Steps
<1>3. answer \in {"nothing", "complete", "failed"}
  BY <1>2 DEF Run
<1> HIDE DEF answer
<1>4. /\ x \in Run /\ x.step = step /\ x.now = run[r].now /\ x.reports = run[r].reports
      /\ x.claimed = run[r].claimed /\ x.stored = run[r].stored /\ x.recorded = answer
      /\ x.forced = run[r].forced
  BY <1>2, <1>3 DEF Run
<1>5. run' = [run EXCEPT ![r] = x]
  BY <1>1 DEF answer
<1> HIDE DEF x
<1> QED
  BY <1>2, <1>4, <1>5, OneRun DEF answer

(***************************************************************************)
(* The calendar                                                            *)
(***************************************************************************)

\* Nothing has been claimed or written.
LEMMA InitCalendarInv == Init => CalendarInv
<1> SUFFICES ASSUME Init PROVE CalendarInv
  OBVIOUS
<1>1. TypeOK
  BY DEF Init, TypeOK, Run, Steps
<1>2. Stored = {}
  BY DEF Init, Stored
<1> QED
  BY <1>1, <1>2 DEF Init, CalendarInv, Life, LifeOf, RowsAreLatest, CompleteIsStored

\* The runs a step leaves alone keep their lives.
LEMMA LifeKept ==
  ASSUME Life, NEW r \in Runs, OthersKept(r), LifeOf(r)'
  PROVE  Life'
<1> SUFFICES ASSUME NEW s \in Runs PROVE LifeOf(s)'
  BY DEF Life
<1>1. CASE s = r
  BY <1>1
<1>2. CASE s # r
  BY <1>2 DEF OthersKept, Life, LifeOf
<1> QED
  BY <1>1, <1>2

\* A step that stores no run and changes no row, nor what a stored run reported,
\* leaves the rows right; and the receipt, if it leaves it alone.
LEMMA RowsKept ==
  ASSUME RowsAreLatest, NEW r \in Runs, OthersKept(r), UNCHANGED rows,
         run'[r].stored = run[r].stored,
         run[r].stored => run'[r].now = run[r].now /\ run'[r].reports = run[r].reports
  PROVE  RowsAreLatest'
  BY DEF RowsAreLatest, Stored, OthersKept

LEMMA CompleteKept ==
  ASSUME CompleteIsStored, NEW r \in Runs, OthersKept(r), UNCHANGED receipt,
         run[r].stored => run'[r].stored /\ run'[r].claimed = run[r].claimed /\ run'[r].now = run[r].now
  PROVE  CompleteIsStored'
  BY DEF CompleteIsStored, Stored, OthersKept

\* The steps by which a run goes on, fails or ends without writing.
LEMMA MovesKeepCalendar ==
  ASSUME CalendarInv, NEW r \in Runs, NEW step \in {"found", "failing", "over"}, Becomes(r, step),
         UNCHANGED <<clock, receipt, rows>>, run[r].step # "idle",
         step # "over" => run[r].claimed, step = "found" => ~run[r].stored
  PROVE  CalendarInv'
<1> USE DEF CalendarInv
<1> DEFINE Kept ==
      /\ run' \in [Runs -> Run] /\ OthersKept(r)
      /\ run'[r].step = step /\ run'[r].now = run[r].now /\ run'[r].reports = run[r].reports
      /\ run'[r].claimed = run[r].claimed /\ run'[r].stored = run[r].stored
<1>1. Kept
  BY Moved DEF Steps
<1>2. TypeOK'
  BY <1>1 DEF TypeOK
<1>3. LifeOf(r)'
  BY <1>1 DEF Life, LifeOf
<1> QED
  BY <1>1, <1>2, <1>3, LifeKept, RowsKept, CompleteKept

\* Recording an outcome leaves the rows alone, and says complete only of a stored run.
LEMMA RecordKeepsCalendar ==
  ASSUME CalendarInv, NEW r \in Runs, NEW outcome \in {"complete", "failed"},
         NEW steps \in SUBSET {"failing", "over"}, Record(r, outcome, steps),
         run[r].step \in {"persisted", "failing"},
         outcome = "complete" => run[r].stored
  PROVE  CalendarInv'
<1> USE DEF CalendarInv
<1>1. /\ run' \in [Runs -> Run] /\ OthersKept(r)
      /\ run'[r].step \in {"failing", "over"}
      /\ run'[r].now = run[r].now /\ run'[r].reports = run[r].reports
      /\ run'[r].claimed = run[r].claimed /\ run'[r].stored = run[r].stored
  BY Recorded
<1>2. /\ receipt' = IF OwnReceipt(r) THEN [receipt EXCEPT !.status = outcome] ELSE receipt
      /\ UNCHANGED <<clock, rows>>
  BY DEF Record
<1>3. TypeOK'
  BY <1>1, <1>2 DEF TypeOK
<1>4. LifeOf(r)'
  BY <1>1 DEF Life, LifeOf
<1>5. CompleteIsStored'
  <2>1. CASE OwnReceipt(r) /\ outcome = "complete"
    <3>1. run[r].stored /\ run[r].claimed /\ run[r].now = receipt.ranAt
      BY <2>1 DEF OwnReceipt, Life, LifeOf
    <3>2. receipt'.ranAt = receipt.ranAt
      BY <1>2, <2>1 DEF TypeOK
    <3> QED
      BY <1>1, <3>1, <3>2 DEF CompleteIsStored, Stored
  <2>2. CASE OwnReceipt(r) /\ outcome = "failed"
    BY <1>2, <2>2 DEF CompleteIsStored, TypeOK
  <2>3. CASE ~OwnReceipt(r)
    BY <1>1, <1>2, <2>3, CompleteKept
  <2> QED
    BY <2>1, <2>2, <2>3
<1> QED
  BY <1>1, <1>2, <1>3, <1>4, <1>5, LifeKept, RowsKept

\* A run's rows land where no later run's stand.
LEMMA PersistKeepsRows ==
  ASSUME TypeOK, RowsAreLatest, NEW r \in Runs, NEW found, rows' = Upsert(run[r].now, found),
         OthersKept(r), ~run[r].stored, run'[r].stored, run'[r].reports = found, run'[r].now = run[r].now
  PROVE  RowsAreLatest'
<1>3. Stored' = Stored \cup {r} /\ r \notin Stored /\ Stored \subseteq Runs
  BY DEF Stored, OthersKept
<1>4. \A s \in Runs : run'[s].now = run[s].now /\ (s # r => run'[s].reports = run[s].reports)
  BY DEF OthersKept
<1> SUFFICES ASSUME NEW e \in Events
             PROVE  /\ rows'[e] # 0 => \E s \in Stored' : e \in run'[s].reports /\ run'[s].now = rows'[e]
                    /\ \A s \in Stored' : e \in run'[s].reports => run'[s].now <= rows'[e]
  BY DEF RowsAreLatest
<1>5. /\ rows[e] # 0 => \E s \in Stored : e \in run[s].reports /\ run[s].now = rows[e]
      /\ \A s \in Stored : e \in run[s].reports => run[s].now <= rows[e]
  BY DEF RowsAreLatest
<1>6. rows[e] \in Nat /\ \A s \in Runs : run[s].now \in Nat
  BY DEF TypeOK, Run
<1>7. CASE e \in found /\ run[r].now >= rows[e]
  <2>1. rows'[e] = run[r].now
    BY <1>7 DEF Upsert
  <2>2. r \in Stored' /\ e \in run'[r].reports /\ run'[r].now = rows'[e]
    BY <1>3, <1>7, <2>1
  <2>3. ASSUME NEW s \in Stored', e \in run'[s].reports PROVE run'[s].now <= rows'[e]
    <3>1. CASE s = r
      BY <1>6, <2>1, <2>2, <3>1
    <3>2. CASE s \in Stored
      <4>1. s \in Runs /\ e \in run[s].reports /\ run'[s].now = run[s].now
        BY <1>3, <1>4, <2>3, <3>2
      <4> QED
        BY <1>5, <1>6, <1>7, <2>1, <3>2, <4>1
    <3> QED
      BY <1>3, <3>1, <3>2
  <2> QED
    BY <2>2, <2>3
<1>8. CASE ~(e \in found /\ run[r].now >= rows[e])
  <2>1. rows'[e] = rows[e]
    BY <1>8 DEF Upsert
  <2>2. ASSUME rows[e] # 0
        PROVE  \E s \in Stored' : e \in run'[s].reports /\ run'[s].now = rows'[e]
    <3>1. PICK s \in Stored : e \in run[s].reports /\ run[s].now = rows[e]
      BY <1>5, <2>2
    <3>2. s \in Stored' /\ e \in run'[s].reports /\ run'[s].now = rows'[e]
      BY <1>3, <1>4, <2>1, <3>1
    <3> QED
      BY <3>2
  <2>3. ASSUME NEW s \in Stored', e \in run'[s].reports PROVE run'[s].now <= rows'[e]
    <3>1. s \in Runs /\ run'[s].now = run[s].now
      BY <1>3, <1>4
    <3>2. CASE s = r
      BY <1>6, <1>8, <2>1, <2>3, <3>1, <3>2
    <3>3. CASE s \in Stored
      <4>1. e \in run[s].reports
        BY <1>3, <1>4, <2>3, <3>1, <3>3
      <4> QED
        BY <1>5, <2>1, <3>1, <3>3, <4>1
    <3> QED
      BY <1>3, <3>2, <3>3
  <2> QED
    BY <2>1, <2>2, <2>3
<1> QED
  BY <1>7, <1>8

\* The invariant is never undone by a step.
LEMMA StepCalendarInv == CalendarInv /\ [Next]_vars => CalendarInv'
<1> SUFFICES ASSUME CalendarInv, [Next]_vars PROVE CalendarInv'
  OBVIOUS
<1> USE DEF CalendarInv
<1>1. ASSUME NEW r \in Runs, Start(r) PROVE CalendarInv'
  <2>1. /\ run' \in [Runs -> Run] /\ OthersKept(r)
        /\ run'[r].step = "asking" /\ run'[r].now = clock
        /\ run'[r].claimed = run[r].claimed /\ run'[r].stored = run[r].stored
    BY <1>1, Started
  <2>2. run[r].step = "idle" /\ UNCHANGED <<clock, receipt, rows>>
    BY <1>1 DEF Start
  <2>3. ~run[r].claimed /\ ~run[r].stored
    BY <2>2 DEF Life, LifeOf
  <2>4. TypeOK'
    BY <2>1, <2>2 DEF TypeOK
  <2>5. LifeOf(r)'
    BY <2>1, <2>3 DEF LifeOf, TypeOK
  <2> QED
    BY <2>1, <2>2, <2>3, <2>4, <2>5, LifeKept, RowsKept, CompleteKept
<1>2. ASSUME NEW r \in Runs, Claim(r) PROVE CalendarInv'
  <2>1. /\ run' \in [Runs -> Run] /\ OthersKept(r)
        /\ run'[r].step \in {"searching", "over"} /\ run'[r].claimed
        /\ run'[r].now = run[r].now /\ run'[r].reports = run[r].reports
        /\ run'[r].stored = run[r].stored
    BY <1>2, Claimed
  <2>2. /\ receipt' = [status |-> "running", ranAt |-> run[r].now, claimant |-> r]
        /\ run[r].step = "asking" /\ UNCHANGED <<clock, rows>>
    BY <1>2 DEF Claim
  <2>3. run[r].now \in Nat /\ ~run[r].stored /\ run[r].now >= 1
    BY <2>2 DEF TypeOK, Run, Life, LifeOf
  <2>4. TypeOK'
    BY <2>1, <2>2, <2>3 DEF TypeOK
  <2>5. LifeOf(r)'
    BY <2>1, <2>3 DEF LifeOf
  <2>6. CompleteIsStored'
    BY <2>2 DEF CompleteIsStored
  <2> QED
    BY <2>1, <2>2, <2>4, <2>5, <2>6, LifeKept, RowsKept
<1>3. ASSUME NEW r \in Runs, Refused(r) \/ Dies(r) PROVE CalendarInv'
  BY <1>3, MovesKeepCalendar DEF Refused, Dies
<1>4. ASSUME NEW r \in Runs,
             SearchAnswers(r) \/ SearchFails(r) \/ PersistFails(r) \/ RecordCompleteFails(r)
      PROVE  CalendarInv'
  <2>1. run[r].claimed /\ (SearchAnswers(r) => ~run[r].stored)
    BY <1>4 DEF SearchAnswers, SearchFails, PersistFails, RecordCompleteFails, Life, LifeOf
  <2> QED
    BY <1>4, <2>1, MovesKeepCalendar DEF SearchAnswers, SearchFails, PersistFails, RecordCompleteFails
<1>6. ASSUME NEW r \in Runs, Persist(r) PROVE CalendarInv'
  <2>1. PICK found \in Answers :
          /\ rows' = Upsert(run[r].now, found)
          /\ run' \in [Runs -> Run] /\ OthersKept(r)
          /\ run'[r].step \in {"persisted", "failing"} /\ run'[r].stored /\ run'[r].reports = found
          /\ run'[r].now = run[r].now /\ run'[r].claimed = run[r].claimed
    BY <1>6, Persisted
  <2>2. run[r].step = "found" /\ UNCHANGED <<clock, receipt>>
    BY <1>6 DEF Persist
  <2>3. ~run[r].stored /\ run[r].claimed /\ run[r].now >= 1
    BY <2>2 DEF Life, LifeOf
  <2>4. rows' \in [Events -> Nat]
    BY <2>1 DEF Upsert, TypeOK, Run
  <2>5. TypeOK'
    BY <2>1, <2>2, <2>4 DEF TypeOK
  <2>6. LifeOf(r)'
    BY <2>1, <2>3 DEF LifeOf
  <2>7. RowsAreLatest'
    BY <2>1, <2>3, PersistKeepsRows
  <2> QED
    BY <2>1, <2>2, <2>3, <2>5, <2>6, <2>7, LifeKept, CompleteKept
<1>7. ASSUME NEW r \in Runs, RecordComplete(r) PROVE CalendarInv'
  <2>1. run[r].step = "persisted" /\ Record(r, "complete", {"over", "failing"}) /\ run[r].stored
    BY <1>7 DEF RecordComplete, Life, LifeOf
  <2> QED
    BY <2>1, RecordKeepsCalendar
<1>8. ASSUME NEW r \in Runs, RecordFailed(r) PROVE CalendarInv'
  <2>1. run[r].step = "failing" /\ Record(r, "failed", {"over"})
    BY <1>8 DEF RecordFailed
  <2> QED
    BY <2>1, RecordKeepsCalendar
<1>9. CASE Tick \/ UNCHANGED vars
  <2>1. UNCHANGED <<receipt, rows, run>> /\ clock' \in Nat \ {0}
    BY <1>9 DEF Tick, vars, TypeOK
  <2> QED
    BY <2>1 DEF TypeOK, Life, LifeOf, RowsAreLatest, CompleteIsStored, Stored
<1> QED
  BY <1>1, <1>2, <1>3, <1>4, <1>6, <1>7, <1>8, <1>9 DEF Next, Step

\* The calendar's invariant holds throughout, and with it CompleteIsStored: no receipt
\* says complete for a search whose rows did not arrive (attemptCatalystRefresh).
THEOREM CalendarInvHolds == Spec => []CalendarInv
<1>1. Init => CalendarInv
  BY InitCalendarInv
<1>2. CalendarInv /\ [Next]_vars => CalendarInv'
  BY StepCalendarInv
<1> QED
  BY <1>1, <1>2, PTL DEF Spec

\* What the rows are decides what is shown.
LEMMA RowsDecideCalendar == CalendarInv => ShownIsLatest
<1> SUFFICES ASSUME CalendarInv, NEW e \in Events
             PROVE  e \in Shown <=> \E r \in Stored : /\ e \in run[r].reports
                                                      /\ \A q \in Reporting(Kind[e]) : run[q].now <= run[r].now
  BY DEF ShownIsLatest
<1>1. /\ \A f \in Events : rows[f] \in Nat
      /\ \A r \in Stored : run[r].now \in Nat /\ run[r].now >= 1 /\ run[r].reports \subseteq Events
      /\ \A f \in Events : /\ rows[f] # 0 => \E r \in Stored : f \in run[r].reports /\ run[r].now = rows[f]
                           /\ \A r \in Stored : f \in run[r].reports => run[r].now <= rows[f]
  <2>1. \A f \in Events : rows[f] \in Nat
    BY DEF CalendarInv, TypeOK
  <2>2. ASSUME NEW r \in Stored
        PROVE  run[r].now \in Nat /\ run[r].now >= 1 /\ run[r].reports \subseteq Events
    <3>1. r \in Runs /\ run[r] \in Run /\ run[r].stored /\ LifeOf(r)
      BY DEF CalendarInv, TypeOK, Life, Stored
    <3> QED
      BY <3>1 DEF LifeOf, Run
  <2> QED
    BY <2>1, <2>2 DEF CalendarInv, RowsAreLatest
<1>2. ASSUME e \in Shown
      PROVE  \E r \in Stored : /\ e \in run[r].reports
                               /\ \A q \in Reporting(Kind[e]) : run[q].now <= run[r].now
  <2>1. rows[e] # 0 /\ \A f \in Events : Kind[f] = Kind[e] => rows[f] <= rows[e]
    BY <1>2 DEF Shown
  <2>2. PICK r \in Stored : e \in run[r].reports /\ run[r].now = rows[e]
    BY <1>1, <2>1
  <2>3. ASSUME NEW q \in Reporting(Kind[e]) PROVE run[q].now <= run[r].now
    <3>1. q \in Stored /\ \E f \in run[q].reports : Kind[f] = Kind[e]
      BY DEF Reporting
    <3>2. PICK f \in run[q].reports : Kind[f] = Kind[e]
      BY <3>1
    <3>3. f \in Events /\ run[q].now <= rows[f] /\ rows[f] <= rows[e]
      BY <1>1, <2>1, <3>1, <3>2
    <3> QED
      BY <1>1, <2>2, <3>1, <3>3
  <2> QED
    BY <2>2, <2>3
<1>3. ASSUME NEW r \in Stored, e \in run[r].reports, \A q \in Reporting(Kind[e]) : run[q].now <= run[r].now
      PROVE  e \in Shown
  <2>1. rows[e] >= run[r].now /\ run[r].now >= 1
    BY <1>1, <1>3
  <2>2. ASSUME NEW f \in Events, Kind[f] = Kind[e], rows[f] # 0 PROVE rows[f] <= rows[e]
    <3>1. PICK q \in Stored : f \in run[q].reports /\ run[q].now = rows[f]
      BY <1>1, <2>2
    <3>2. q \in Reporting(Kind[e])
      BY <2>2, <3>1 DEF Reporting
    <3> QED
      BY <1>1, <1>3, <2>1, <3>1, <3>2
  <2> QED
    BY <1>1, <2>1, <2>2 DEF Shown
<1> QED
  BY <1>2, <1>3

\* The calendar shows, of each kind, what the run that began last reported of it, in
\* whatever order runs finish (catalystUpsertStatements, CURRENT_CATALYSTS).
THEOREM CalendarShowsLatest == Spec => []ShownIsLatest
  BY CalendarInvHolds, RowsDecideCalendar, PTL

(***************************************************************************)
(* Attention's searches                                                    *)
(***************************************************************************)

\* A claim finds every earlier search ended, and takes the receipt over.
LEMMA ClaimKeepsAttention ==
  ASSUME TypeOK, Life, AttentionInv, NEW r \in Runs, Claim(r)
  PROVE  AttentionInv'
<1>1. /\ OthersKept(r) /\ run'[r].claimed
      /\ run'[r].now = run[r].now /\ run'[r].recorded = run[r].recorded
      /\ run'[r].forced = run[r].forced
  BY Claimed
<1> SUFFICES ASSUME NoneForced, NoneForced' PROVE AttentionInv'
  BY <1>1 DEF AttentionInv, NoneForced, OthersKept
<1>2. /\ receipt' = [status |-> "running", ranAt |-> run[r].now, claimant |-> r]
      /\ run[r].step = "asking" /\ Claimable(r)
  BY DEF Claim
<1>3. ~run[r].claimed /\ run[r].recorded = "nothing"
  BY <1>2 DEF Life, LifeOf, AttentionInv, TypeOK, Run
<1>4. \A s \in Runs : run[s].now \in Nat /\ Hold(s) \in Nat /\ run[s].recorded \in {"nothing", "complete", "failed"}
  <2> SUFFICES ASSUME NEW s \in Runs
               PROVE  run[s].now \in Nat /\ Hold(s) \in Nat /\ run[s].recorded \in {"nothing", "complete", "failed"}
    OBVIOUS
  <2>1. run[s] \in Run
    BY DEF TypeOK
  <2> QED
    BY <2>1 DEF Run, Hold
<1>5. ASSUME NEW s \in Runs, run[s].claimed PROVE run[s].now + Hold(s) <= run[r].now
  <2>1. receipt.claimant # NoRun /\ receipt.claimant \in Runs /\ receipt.ranAt \in Nat
    BY <1>5 DEF AttentionInv, ReceiptIsClaimants, TypeOK
  <2>2. receipt.ranAt + Hold(receipt.claimant) <= run[r].now
    BY <1>2, <1>4, <2>1 DEF Claimable, AttentionInv, ReceiptIsClaimants, Hold, NoneForced
  <2>3. CASE s = receipt.claimant
    BY <2>1, <2>2, <2>3 DEF AttentionInv, ReceiptIsClaimants
  <2>4. CASE s # receipt.claimant
    <3>1. run[s].now + Hold(s) <= receipt.ranAt
      BY <1>5, <2>4 DEF AttentionInv
    <3> QED
      BY <1>4, <2>1, <2>2, <3>1
  <2> QED
    BY <2>3, <2>4
<1>6. \A s \in Runs \ {r} : run'[s] = run[s] /\ Hold(s)' = Hold(s)
  BY <1>1 DEF OthersKept, Hold
<1>7. ReceiptIsClaimants'
  <2>1. receipt'.claimant = r /\ receipt'.ranAt = run[r].now /\ receipt'.status = "running" /\ r # NoRun
    BY <1>2
  <2> QED
    BY <1>1, <1>3, <2>1 DEF ReceiptIsClaimants
<1>8. \A s \in Runs : run'[s].recorded # "nothing" => run'[s].claimed
  BY <1>1, <1>6 DEF AttentionInv
<1>9. ASSUME NEW s \in Runs, run'[s].claimed, s # receipt'.claimant
      PROVE  run'[s].now + Hold(s)' <= receipt'.ranAt
  <2>1. s \in Runs \ {r} /\ receipt'.ranAt = run[r].now
    BY <1>2, <1>9
  <2>2. run[s].claimed /\ run'[s].now = run[s].now /\ Hold(s)' = Hold(s)
    BY <1>6, <1>9, <2>1
  <2> QED
    BY <1>5, <2>1, <2>2
<1>10. SearchesSpaced'
  <2>1. \A s \in Runs : s # r /\ run'[s].claimed => run'[s].now + Hold(s)' <= run'[r].now
    BY <1>1, <1>5, <1>6
  <2>2. \A s \in Runs \ {r} : run'[s] = run[s] /\ Hold(s)' = Hold(s)
    BY <1>6
  <2> QED
    BY <2>1, <2>2 DEF AttentionInv, SearchesSpaced
<1> QED
  BY <1>7, <1>8, <1>9, <1>10 DEF AttentionInv

\* A run closes its own receipt or none: a superseded one bears another stamp.
LEMMA RecordKeepsAttention ==
  ASSUME TypeOK, AttentionInv, NEW r \in Runs, run[r].claimed, NEW outcome \in {"complete", "failed"},
         NEW steps \in SUBSET {"failing", "over"}, Record(r, outcome, steps)
  PROVE  AttentionInv'
<1>1. /\ OthersKept(r) /\ run'[r].claimed = run[r].claimed /\ run'[r].now = run[r].now
      /\ run'[r].recorded = IF OwnReceipt(r) THEN outcome ELSE run[r].recorded
      /\ run'[r].forced = run[r].forced
  BY Recorded
<1> SUFFICES ASSUME NoneForced, NoneForced' PROVE AttentionInv'
  BY <1>1 DEF AttentionInv, NoneForced, OthersKept
<1>2. receipt' = IF OwnReceipt(r) THEN [receipt EXCEPT !.status = outcome] ELSE receipt
  BY DEF Record
<1>3. \A s \in Runs \ {r} : run'[s] = run[s] /\ Hold(s)' = Hold(s)
  BY <1>1 DEF OthersKept, Hold
<1>4. \A s \in Runs : run'[s].claimed = run[s].claimed /\ run'[s].now = run[s].now
  BY <1>1, <1>3
<1>5. receipt'.claimant = receipt.claimant /\ receipt'.ranAt = receipt.ranAt
  BY <1>2 DEF TypeOK
<1>6. CASE ~OwnReceipt(r)
  <2>1. receipt' = receipt /\ \A s \in Runs : run'[s].recorded = run[s].recorded /\ Hold(s)' = Hold(s)
    BY <1>1, <1>2, <1>3, <1>6 DEF Hold
  <2> QED
    BY <1>4, <2>1 DEF AttentionInv, SearchesSpaced, ReceiptIsClaimants, TypeOK
<1>7. CASE OwnReceipt(r)
  <2>1. receipt.status = "running" /\ receipt.ranAt = run[r].now
    BY <1>7 DEF OwnReceipt
  <2>2. receipt.claimant # NoRun
    BY <2>1 DEF AttentionInv, ReceiptIsClaimants
  <2>3. r = receipt.claimant
    <3> SUFFICES ASSUME r # receipt.claimant PROVE FALSE
      OBVIOUS
    <3>1. run[r].now + Hold(r) <= run[r].now
      BY <2>1 DEF AttentionInv
    <3>2. run[r].now \in Nat /\ Hold(r) \in Nat \ {0}
      BY DEF TypeOK, Run, Hold
    <3> QED
      BY <3>1, <3>2
  <2>4. receipt'.status = outcome /\ run'[r].recorded = outcome
    BY <1>1, <1>2, <1>7 DEF TypeOK
  <2>5. ReceiptIsClaimants'
    BY <1>4, <1>5, <2>1, <2>2, <2>3, <2>4 DEF ReceiptIsClaimants
  <2>6. \A s \in Runs : run'[s].recorded # "nothing" => run'[s].claimed
    BY <1>1, <1>3, <1>4 DEF AttentionInv
  <2>7. \A s \in Runs : run'[s].claimed /\ s # receipt'.claimant => run'[s].now + Hold(s)' <= receipt'.ranAt
    BY <1>3, <1>4, <1>5, <2>3 DEF AttentionInv
  <2>8. SearchesSpaced'
    <3>1. \A s \in Runs \ {r} : run'[s].claimed => run'[s].now + Hold(s)' <= run'[r].now
      BY <1>1, <1>5, <2>1, <2>3, <2>7
    <3> QED
      BY <1>3, <3>1 DEF AttentionInv, SearchesSpaced
  <2> QED
    BY <2>5, <2>6, <2>7, <2>8 DEF AttentionInv
<1> QED
  BY <1>6, <1>7

\* A step that neither claims nor records leaves the receipt and the searches alone.
LEMMA AttentionKept ==
  ASSUME TypeOK, AttentionInv, NEW r \in Runs, OthersKept(r), UNCHANGED receipt,
         run'[r].claimed = run[r].claimed, run'[r].recorded = run[r].recorded,
         run[r].claimed => run'[r].now = run[r].now,
         run'[r].forced = run[r].forced \/ ~run[r].forced
  PROVE  AttentionInv'
<1> SUFFICES ASSUME NoneForced, NoneForced' PROVE AttentionInv'
  BY DEF AttentionInv, NoneForced, OthersKept
<1>1. \A s \in Runs : /\ run'[s].claimed = run[s].claimed /\ run'[s].recorded = run[s].recorded
                      /\ Hold(s)' = Hold(s)
                      /\ run[s].claimed => run'[s].now = run[s].now
  BY DEF OthersKept, Hold
<1>2. ReceiptIsClaimants'
  BY <1>1 DEF AttentionInv, ReceiptIsClaimants, TypeOK
<1> QED
  BY <1>1, <1>2 DEF AttentionInv, SearchesSpaced

\* The spacing is never undone by a step.
LEMMA StepAttentionInv ==
  ASSUME CalendarInv, AttentionInv, [Next]_vars
  PROVE  AttentionInv'
<1> USE DEF CalendarInv
<1>1. ASSUME NEW r \in Runs, Start(r) PROVE AttentionInv'
  <2>1. ~run[r].claimed /\ ~run[r].forced /\ UNCHANGED receipt
    BY <1>1 DEF Start, Life, LifeOf
  <2> QED
    BY <1>1, <2>1, Started, AttentionKept
<1>2. ASSUME NEW r \in Runs, Claim(r) PROVE AttentionInv'
  BY <1>2, ClaimKeepsAttention
<1>3. ASSUME NEW r \in Runs, NEW step \in {"found", "failing", "over"}, Becomes(r, step), UNCHANGED receipt
      PROVE  AttentionInv'
  <2>1. step \in Steps
    BY DEF Steps
  <2> QED
    BY <1>3, <2>1, Moved, AttentionKept
<1>5. ASSUME NEW r \in Runs, Persist(r) PROVE AttentionInv'
  <2>1. UNCHANGED receipt
    BY <1>5 DEF Persist
  <2> QED
    BY <1>5, <2>1, Persisted, AttentionKept
<1>6. ASSUME NEW r \in Runs, RecordComplete(r) PROVE AttentionInv'
  <2>1. run[r].claimed /\ Record(r, "complete", {"over", "failing"})
    BY <1>6 DEF RecordComplete, Life, LifeOf
  <2> QED
    BY <2>1, RecordKeepsAttention
<1>7. ASSUME NEW r \in Runs, RecordFailed(r) PROVE AttentionInv'
  <2>1. run[r].claimed /\ Record(r, "failed", {"over"})
    BY <1>7 DEF RecordFailed, Life, LifeOf
  <2> QED
    BY <2>1, RecordKeepsAttention
<1>8. CASE Tick \/ UNCHANGED vars
  <2>1. UNCHANGED <<receipt, run>>
    BY <1>8 DEF Tick, vars
  <2> QED
    BY <2>1 DEF AttentionInv, SearchesSpaced, ReceiptIsClaimants, Hold, NoneForced
<1> QED
  BY <1>1, <1>2, <1>3, <1>5, <1>6, <1>7, <1>8
     DEF Next, Step, Refused, Dies, SearchAnswers, SearchFails, PersistFails, RecordCompleteFails

\* As long as nothing is forced, the receipt is its last claimant's and every other search
\* had run its course when it was claimed (claimRun, recordRun).
THEOREM AttentionInvHolds == Spec => []AttentionInv
<1>1. Init => AttentionInv
  BY DEF Init, AttentionInv, SearchesSpaced, ReceiptIsClaimants
<1>2. CalendarInv /\ AttentionInv /\ [Next]_vars => AttentionInv'
  BY StepAttentionInv
<1> QED
  BY <1>1, <1>2, CalendarInvHolds, PTL DEF Spec

\* Attention's searches of a symbol are spaced by what each left behind: the window, the
\* backoff or the run budget (claimRun).
THEOREM AttentionIsSpaced == Spec => []SearchesSpaced
<1>1. AttentionInv => SearchesSpaced
  BY DEF AttentionInv, SearchesSpaced
<1> QED
  BY <1>1, AttentionInvHolds, PTL

(***************************************************************************)
(* Whose receipt is closed                                                 *)
(***************************************************************************)

\* Only a claim changes whose the receipt is, and it leaves it running; a record that
\* finds the claimant's stamp is the claimant's own.
LEMMA StepClosedByClaimant ==
  ASSUME CalendarInv, ClosedByClaimant, [Next]_vars
  PROVE  ClosedByClaimant'
<1> USE DEF CalendarInv
<1>1. ASSUME NEW r \in Runs, OthersKept(r), UNCHANGED receipt, run'[r].recorded = run[r].recorded,
             run[r].claimed => run'[r].claimed /\ run'[r].now = run[r].now
      PROVE  ClosedByClaimant'
  BY <1>1 DEF ClosedByClaimant, OthersKept, TypeOK
<1>2. ASSUME NEW r \in Runs, Start(r) PROVE ClosedByClaimant'
  <2>1. ~run[r].claimed /\ UNCHANGED receipt
    BY <1>2 DEF Start, Life, LifeOf
  <2> QED
    BY <1>1, <1>2, <2>1, Started
<1>3. ASSUME NEW r \in Runs, Claim(r) PROVE ClosedByClaimant'
  <2>1. receipt' = [status |-> "running", ranAt |-> run[r].now, claimant |-> r]
    BY <1>3 DEF Claim
  <2> QED
    BY <2>1 DEF ClosedByClaimant
<1>4. ASSUME NEW r \in Runs, NEW step \in {"found", "failing", "over"}, Becomes(r, step), UNCHANGED receipt
      PROVE  ClosedByClaimant'
  <2>1. step \in Steps
    BY DEF Steps
  <2> QED
    BY <1>1, <1>4, <2>1, Moved
<1>5. ASSUME NEW r \in Runs, Persist(r) PROVE ClosedByClaimant'
  <2>1. UNCHANGED receipt
    BY <1>5 DEF Persist
  <2> QED
    BY <1>1, <1>5, <2>1, Persisted
<1>6. ASSUME NEW r \in Runs, run[r].claimed, NEW outcome \in {"complete", "failed"},
             NEW steps \in SUBSET {"failing", "over"}, Record(r, outcome, steps)
      PROVE  ClosedByClaimant'
  <2>1. /\ OthersKept(r) /\ run'[r].claimed = run[r].claimed /\ run'[r].now = run[r].now
        /\ run'[r].recorded = IF OwnReceipt(r) THEN outcome ELSE run[r].recorded
    BY <1>6, Recorded
  <2>2. receipt' = IF OwnReceipt(r) THEN [receipt EXCEPT !.status = outcome] ELSE receipt
    BY <1>6 DEF Record
  <2>3. CASE OwnReceipt(r)
    <3>1. receipt'.status = outcome /\ receipt'.ranAt = run[r].now /\ run'[r].recorded = outcome
      BY <2>1, <2>2, <2>3 DEF OwnReceipt, TypeOK
    <3>2. run'[r].claimed /\ run'[r].now = receipt'.ranAt
      BY <1>6, <2>1, <3>1
    <3> QED
      BY <3>1, <3>2 DEF ClosedByClaimant
  <2>4. CASE ~OwnReceipt(r)
    BY <1>1, <2>1, <2>2, <2>4
  <2> QED
    BY <2>3, <2>4
<1>7. ASSUME NEW r \in Runs, RecordComplete(r) \/ RecordFailed(r) PROVE ClosedByClaimant'
  <2>1. run[r].claimed
    BY <1>7 DEF RecordComplete, RecordFailed, Life, LifeOf
  <2> QED
    BY <1>6, <1>7, <2>1 DEF RecordComplete, RecordFailed
<1>8. CASE Tick \/ UNCHANGED vars
  BY <1>8 DEF Tick, vars, ClosedByClaimant
<1> QED
  BY <1>2, <1>3, <1>4, <1>5, <1>7, <1>8
     DEF Next, Step, Refused, Dies, SearchAnswers, SearchFails, PersistFails, RecordCompleteFails

\* No run closes the receipt of another that claimed it since, as long as the stamp
\* tells the two apart (recordRun).
THEOREM ClaimantCloses == Spec => []ClosedByClaimant
<1>1. Init => ClosedByClaimant
  BY DEF Init, ClosedByClaimant
<1>2. CalendarInv /\ ClosedByClaimant /\ [Next]_vars => ClosedByClaimant'
  BY StepClosedByClaimant
<1> QED
  BY <1>1, <1>2, CalendarInvHolds, PTL DEF Spec

(***************************************************************************)
(* Sightings of one event                                                  *)
(***************************************************************************)

Producers == {"exa", "member-research", "tastytrade"}
Sighting == [by : Producers, event : Events, confirmed : BOOLEAN, at : Nat]

\* Of an event each producer has one sighting at most.
OneEach(S) ==
  S \subseteq Sighting /\ \A x, y \in S : x.by = y.by /\ x.event = y.event => x = y

\* Of two producers' sightings one stands above the other, and standing is an order.
LEMMA StandingOrders ==
  ASSUME NEW x \in Sighting, NEW y \in Sighting, NEW z \in Sighting
  PROVE  /\ ~(Outranks(x, y) /\ Outranks(y, x))
         /\ Outranks(x, y) /\ Outranks(y, z) => Outranks(x, z)
         /\ x.by # y.by => Outranks(x, y) \/ Outranks(y, x)
<1> DEFINE c(u) == IF u.confirmed = TRUE THEN 1 ELSE 0
           b(u) == IdOrder[u.by]
<1>1. \A u, v \in Sighting :
        Outranks(u, v) <=> \/ c(u) > c(v)
                           \/ c(u) = c(v) /\ u.at > v.at
                           \/ c(u) = c(v) /\ u.at = v.at /\ b(u) < b(v)
  <2> SUFFICES ASSUME NEW u \in Sighting, NEW v \in Sighting
               PROVE  Outranks(u, v) <=> \/ c(u) > c(v)
                                         \/ c(u) = c(v) /\ u.at > v.at
                                         \/ c(u) = c(v) /\ u.at = v.at /\ b(u) < b(v)
    OBVIOUS
  <2>1. u.confirmed \in BOOLEAN /\ v.confirmed \in BOOLEAN /\ u.at \in Nat /\ v.at \in Nat
    BY DEF Sighting
  <2>2. u.confirmed # v.confirmed <=> c(u) # c(v)
    BY <2>1
  <2>3. c(u) # c(v) => (u.confirmed <=> c(u) > c(v))
    BY <2>1
  <2>4. c(u) = c(v) \/ c(u) > c(v) \/ c(v) > c(u)
    OBVIOUS
  <2>5. c(u) = c(v) => ~(c(u) > c(v))
    OBVIOUS
  <2>6. u.at # v.at => ~(u.at = v.at)
    OBVIOUS
  <2>7. u.at = v.at => ~(u.at > v.at)
    BY <2>1
  <2> HIDE DEF c, b
  <2>8. CASE c(u) # c(v)
    <3>1. Outranks(u, v) <=> u.confirmed
      BY <2>2, <2>8 DEF Outranks
    <3> QED
      BY <2>3, <2>8, <3>1
  <2>9. CASE c(u) = c(v) /\ u.at # v.at
    <3>1. Outranks(u, v) <=> u.at > v.at
      BY <2>2, <2>9 DEF Outranks
    <3> QED
      BY <2>5, <2>9, <3>1
  <2>10. CASE c(u) = c(v) /\ u.at = v.at
    <3>1. Outranks(u, v) <=> b(u) < b(v)
      BY <2>2, <2>10 DEF Outranks, b
    <3> QED
      BY <2>5, <2>7, <2>10, <3>1
  <2> QED
    BY <2>8, <2>9, <2>10
<1>2. \A u \in Sighting : u.at \in Nat /\ c(u) \in Nat /\ b(u) \in Nat
  BY DEF Sighting, Producers, IdOrder
<1>3. \A u, v \in Sighting : u.by # v.by => b(u) # b(v)
  BY DEF Sighting, Producers, IdOrder
<1> HIDE DEF c, b
<1> QED
  BY <1>1, <1>2, <1>3

\* An event that was seen has a sighting that stands above its others.
LEMMA OneStandsHighest ==
  ASSUME NEW S, OneEach(S), NEW x \in S
  PROVE  \E y \in S : y.event = x.event /\ \A z \in S : z.event = x.event => z = y \/ Outranks(y, z)
<1> DEFINE T == {z \in S : z.event = x.event}
           Above(y, B) == \A z \in T : z.by \in B => z = y \/ Outranks(y, z)
<1>1. T \subseteq Sighting /\ x \in T /\ \A y, z \in T : y.by = z.by => y = z
  BY DEF OneEach
<1> HIDE DEF T
<1>2. ASSUME NEW y \in T, NEW B, NEW b, Above(y, B)
      PROVE  \E w \in T : Above(w, B \cup {b})
  <2>1. CASE \A z \in T : z.by = b => z = y \/ Outranks(y, z)
    BY <1>2, <2>1
  <2>2. CASE \E z \in T : z.by = b /\ z # y /\ ~Outranks(y, z)
    <3>1. PICK w \in T : w.by = b /\ w # y /\ ~Outranks(y, w)
      BY <2>2
    <3>2. Outranks(w, y)
      BY <1>1, <3>1, StandingOrders
    <3>3. ASSUME NEW z \in T, z.by \in B \cup {b}
          PROVE  z = w \/ Outranks(w, z)
      <4>1. CASE z.by = b
        BY <1>1, <3>1, <4>1
      <4>2. CASE z.by \in B
        <5>1. z = y \/ Outranks(y, z)
          BY <1>2, <4>2
        <5> QED
          BY <1>1, <3>2, <5>1, StandingOrders
      <4> QED
        BY <3>3, <4>1, <4>2
    <3> QED
      BY <3>3
  <2> QED
    BY <2>1, <2>2
<1>3. Above(x, {})
  OBVIOUS
<1> HIDE DEF Above
<1>4. PICK y1 \in T : Above(y1, {} \cup {"exa"})
  BY <1>1, <1>2, <1>3
<1>5. PICK y2 \in T : Above(y2, {} \cup {"exa"} \cup {"member-research"})
  BY <1>2, <1>4
<1>6. PICK y3 \in T : Above(y3, {} \cup {"exa"} \cup {"member-research"} \cup {"tastytrade"})
  BY <1>2, <1>5
<1>7. \A z \in T : z.by \in {} \cup {"exa"} \cup {"member-research"} \cup {"tastytrade"}
  BY <1>1 DEF Sighting, Producers
<1>8. \A z \in T : z = y3 \/ Outranks(y3, z)
  BY <1>6, <1>7 DEF Above
<1> QED
  BY <1>8 DEF T

\* Each event is read once, by the sighting that stands above its others.
LEMMA DistinctStand ==
  ASSUME NEW S, OneEach(S)
  PROVE  /\ Distinct(S) \subseteq S
         /\ \A x \in S : \E y \in Distinct(S) : y.event = x.event
         /\ \A x \in Distinct(S), y \in S : x.event = y.event => x = y \/ Outranks(x, y)
         /\ \A x, y \in Distinct(S) : x.event = y.event => x = y
<1>1. Distinct(S) \subseteq S
  BY DEF Distinct
<1>2. ASSUME NEW x \in S
      PROVE  \E y \in Distinct(S) : y.event = x.event
  <2>1. PICK y \in S : y.event = x.event /\ \A z \in S : z.event = x.event => z = y \/ Outranks(y, z)
    BY OneStandsHighest
  <2> QED
    BY <2>1 DEF Distinct
<1>3. \A x \in Distinct(S), y \in S : x.event = y.event => x = y \/ Outranks(x, y)
  BY DEF Distinct
<1>4. ASSUME NEW x \in Distinct(S), NEW y \in Distinct(S), x.event = y.event, x # y
      PROVE  FALSE
  <2>1. Outranks(x, y) /\ Outranks(y, x)
    BY <1>1, <1>3, <1>4
  <2>2. x \in Sighting /\ y \in Sighting
    BY <1>1 DEF OneEach
  <2> QED
    BY <2>1, <2>2, StandingOrders
<1> QED
  BY <1>1, <1>2, <1>3, <1>4

(***************************************************************************)
(* The rank of an event                                                    *)
(***************************************************************************)

RankOf(e, E) == 1 + Cardinality({d \in E : Sooner(d, e)})

\* Two events differ in their day or in their kind.
LEMMA SoonerOrders ==
  ASSUME NEW d \in Events, NEW e \in Events, NEW f \in Events
  PROVE  /\ ~Sooner(e, e)
         /\ Sooner(d, e) /\ Sooner(e, f) => Sooner(d, f)
         /\ d = e \/ Sooner(d, e) \/ Sooner(e, d)
<1>1. \A g \in Events : Day[g] \in Nat /\ Kind[g] \in Nat
  BY CitationsAssumption
<1>2. Day[d] = Day[e] /\ Kind[d] = Kind[e] => d = e
  BY CitationsAssumption
<1> QED
  BY <1>1, <1>2 DEF Sooner

LEMMA RankRises ==
  ASSUME NEW E \in SUBSET Events, NEW d \in E, NEW e \in E
  PROVE  /\ RankOf(e, E) \in Nat \ {0}
         /\ Sooner(d, e) => RankOf(d, E) < RankOf(e, E)
         /\ RankOf(d, E) = RankOf(e, E) => d = e
<1> DEFINE Before(g) == {h \in E : Sooner(h, g)}
<1>1. IsFiniteSet(E)
  BY CitationsAssumption, FS_Subset
<1>2. \A g \in E : IsFiniteSet(Before(g)) /\ Cardinality(Before(g)) \in Nat
  <2> SUFFICES ASSUME NEW g \in E PROVE IsFiniteSet(Before(g)) /\ Cardinality(Before(g)) \in Nat
    OBVIOUS
  <2>1. Before(g) \in SUBSET E
    OBVIOUS
  <2> HIDE DEF Before
  <2> QED
    BY <1>1, <2>1, FS_Subset, FS_CardinalityType
<1>3. \A g, h \in E : Sooner(g, h) => Cardinality(Before(g)) < Cardinality(Before(h))
  <2> SUFFICES ASSUME NEW g \in E, NEW h \in E, Sooner(g, h)
               PROVE  Cardinality(Before(g)) < Cardinality(Before(h))
    OBVIOUS
  <2>1. Before(g) \in SUBSET Before(h)
    BY SoonerOrders
  <2>2. g \in Before(h) /\ g \notin Before(g)
    BY SoonerOrders
  <2> HIDE DEF Before
  <2>3. Cardinality(Before(g)) <= Cardinality(Before(h)) /\ Cardinality(Before(h)) # Cardinality(Before(g))
    BY <1>2, <2>1, <2>2, FS_Subset
  <2> QED
    BY <1>2, <2>3
<1>4. \A g \in E : RankOf(g, E) = 1 + Cardinality(Before(g))
  BY DEF RankOf
<1> HIDE DEF Before
<1>5. RankOf(e, E) \in Nat \ {0} /\ (Sooner(d, e) => RankOf(d, E) < RankOf(e, E))
  BY <1>2, <1>3, <1>4
<1>6. Sooner(e, d) => RankOf(e, E) < RankOf(d, E)
  BY <1>2, <1>3, <1>4
<1>7. RankOf(d, E) \in Nat
  BY <1>2, <1>4
<1> QED
  BY <1>5, <1>6, <1>7, SoonerOrders

\* As many as have ranks up to n, one for each event, are no more than n.
LEMMA FewRanked ==
  ASSUME NEW E \in SUBSET Events, NEW n \in Nat, NEW B, NEW event \in [B -> E],
         \A x, y \in B : event[x] = event[y] => x = y,
         \A x \in B : RankOf(event[x], E) <= n
  PROVE  IsFiniteSet(B) /\ Cardinality(B) <= n
<1> DEFINE f == [x \in B |-> RankOf(event[x], E)]
<1>1. \A x \in B : event[x] \in E
  OBVIOUS
<1>2. \A x \in B : RankOf(event[x], E) \in Nat \ {0}
  BY <1>1, RankRises
<1>3. f \in [B -> 1..n]
  BY <1>2
<1>4. \A x, y \in B : f[x] = f[y] => x = y
  BY <1>1, RankRises
<1>5. f \in Injection(B, 1..n)
  BY <1>3, <1>4 DEF Injection, IsInjective
<1> HIDE DEF f
<1>6. IsFiniteSet(1..n) /\ Cardinality(1..n) = n
  BY FS_Interval
<1> QED
  BY <1>5, <1>6, FS_Injection

\* Of some numbers one is the least.
LEMMA LeastIsOne ==
  ASSUME NEW S \in SUBSET Nat, S # {}
  PROVE  \E m \in S : \A n \in S : m <= n
<1> DEFINE R == OpToRel(<, Nat)
<1>1. IsWellFoundedOn(R, Nat)
  BY NatLessThanWellFounded
<1>2. \A i, j \in Nat : <<i, j>> \in R <=> i < j
  BY DEF OpToRel
<1> HIDE DEF R
<1>3. PICK m \in S : \A n \in S : <<n, m>> \notin R
  BY <1>1, WFMin
<1>4. ASSUME NEW n \in S PROVE m <= n
  <2>1. m \in Nat /\ n \in Nat /\ <<n, m>> \notin R
    BY <1>3
  <2>2. ~(n < m)
    BY <1>2, <2>1
  <2> QED
    BY <2>1, <2>2
<1> QED
  BY <1>4

\* The ranks leave no gap: past n there is an event of rank n + 1.
LEMMA RanksDense ==
  ASSUME NEW E \in SUBSET Events, NEW n \in Nat, NEW e \in E, RankOf(e, E) > n
  PROVE  \E f \in E : RankOf(f, E) = n + 1
<1> DEFINE Past == {f \in E : RankOf(f, E) > n}
           Ranks == {RankOf(f, E) : f \in Past}
<1>1. Ranks \in SUBSET Nat /\ Ranks # {}
  <2>1. \A f \in E : RankOf(f, E) \in Nat
    BY RankRises
  <2> QED
    BY <2>1
<1>2. PICK m \in Ranks : \A k \in Ranks : m <= k
  BY <1>1, LeastIsOne
<1>3. PICK f \in Past : m = RankOf(f, E)
  BY <1>2
<1>4. \A g \in E : RankOf(g, E) < RankOf(f, E) => RankOf(g, E) <= n
  <2> SUFFICES ASSUME NEW g \in E, RankOf(g, E) < RankOf(f, E), RankOf(g, E) > n PROVE FALSE
    BY RankRises
  <2>1. RankOf(g, E) \in Ranks
    OBVIOUS
  <2>2. RankOf(f, E) <= RankOf(g, E)
    BY <1>2, <1>3, <2>1
  <2> QED
    BY <2>2, RankRises
<1> DEFINE B == {g \in E : Sooner(g, f)}
           event == [g \in B |-> g]
<1>5. f \in E /\ RankOf(f, E) > n /\ RankOf(f, E) \in Nat
  BY RankRises
<1>6. \A g \in B : RankOf(g, E) <= n
  BY <1>4, <1>5, RankRises
<1>7. event \in [B -> E] /\ \A x, y \in B : event[x] = event[y] => x = y
  OBVIOUS
<1>8. \A x \in B : RankOf(event[x], E) <= n
  BY <1>6
<1>9. RankOf(f, E) = 1 + Cardinality(B)
  BY DEF RankOf
<1> HIDE DEF B, event
<1>10. IsFiniteSet(B) /\ Cardinality(B) <= n
  BY <1>7, <1>8, FewRanked
<1>11. Cardinality(B) \in Nat
  BY <1>10, FS_CardinalityType
<1> QED
  BY <1>5, <1>9, <1>10, <1>11

(***************************************************************************)
(* What one read returns                                                   *)
(***************************************************************************)

Within(S, n) == {x \in S : Rank(x, S) <= n}
Given(S) == Distinct(Within(S, MaxCatalysts))
CutOff(S) == \E x \in Within(S, MaxCatalysts + 1) : Rank(x, S) > MaxCatalysts

\* Whatever was there to read: each event once by its highest sighting, no more than the
\* ceiling, the nearest first; and what is left out is told of.
LEMMA ReadIsWhole ==
  ASSUME NEW S, OneEach(S)
  PROVE  /\ Given(S) \subseteq S /\ Cardinality(Given(S)) <= MaxCatalysts
         /\ \A x \in Given(S), y \in S : x.event = y.event => x = y \/ Outranks(x, y)
         /\ \A e, f \in EventsOf(S) :
              e \in EventsOf(Given(S)) /\ f \notin EventsOf(Given(S)) => CutOff(S) /\ Day[e] <= Day[f]
         /\ ~CutOff(S) => EventsOf(S) \subseteq EventsOf(Given(S))
<1> DEFINE E == EventsOf(S)
           K == Within(S, MaxCatalysts)
           given == Given(S)
           cut == CutOff(S)
<1>1. S \subseteq Sighting /\ MaxCatalysts \in Nat
  BY CitationsAssumption DEF OneEach
<1>2. E \in SUBSET Events /\ \A x \in S : x.event \in E
  BY <1>1 DEF EventsOf, Sighting
<1>3. \A x \in S : Rank(x, S) = RankOf(x.event, E)
  BY DEF Rank, RankOf
<1>4. K \subseteq S /\ OneEach(K) /\ \A x \in K : RankOf(x.event, E) <= MaxCatalysts
  BY <1>3 DEF Within, OneEach
<1>5. \A x \in S : RankOf(x.event, E) <= MaxCatalysts => x \in K
  BY <1>3 DEF Within
<1>6. \A x \in S : RankOf(x.event, E) = MaxCatalysts + 1 => cut
  <2> SUFFICES ASSUME NEW x \in S, RankOf(x.event, E) = MaxCatalysts + 1 PROVE cut
    OBVIOUS
  <2>1. Rank(x, S) = MaxCatalysts + 1
    BY <1>3
  <2>2. x \in Within(S, MaxCatalysts + 1) /\ Rank(x, S) > MaxCatalysts
    BY <1>1, <2>1 DEF Within
  <2> QED
    BY <2>2 DEF CutOff
<1> HIDE DEF K
<1>7. given \subseteq K /\ (\A x \in K : \E y \in given : y.event = x.event)
      /\ \A x, y \in given : x.event = y.event => x = y
  BY <1>4, DistinctStand DEF K, Given
<1>8. \A x \in given, y \in K : x.event = y.event => x = y \/ Outranks(x, y)
  BY <1>4, DistinctStand DEF K, Given
<1> HIDE DEF E, given, cut
<1>9. \A e \in E : \E x \in S : x.event = e
  BY DEF E, EventsOf
<1>10. \A e \in E : e \in EventsOf(given) <=> RankOf(e, E) <= MaxCatalysts
  <2> SUFFICES ASSUME NEW e \in E
               PROVE  e \in EventsOf(given) <=> RankOf(e, E) <= MaxCatalysts
    OBVIOUS
  <2>1. e \in EventsOf(given) => RankOf(e, E) <= MaxCatalysts
    BY <1>4, <1>7 DEF EventsOf
  <2>2. ASSUME RankOf(e, E) <= MaxCatalysts PROVE e \in EventsOf(given)
    <3>1. PICK x \in S : x.event = e
      BY <1>9
    <3>2. PICK y \in given : y.event = e
      BY <1>5, <1>7, <2>2, <3>1
    <3> QED
      BY <3>2 DEF EventsOf
  <2> QED
    BY <2>1, <2>2
<1>11. \A e \in E : RankOf(e, E) > MaxCatalysts => cut
  <2> SUFFICES ASSUME NEW e \in E, RankOf(e, E) > MaxCatalysts PROVE cut
    OBVIOUS
  <2>1. PICK f \in E : RankOf(f, E) = MaxCatalysts + 1
    BY <1>1, <1>2, RanksDense
  <2> QED
    BY <1>6, <1>9, <2>1
<1>12. Cardinality(given) <= MaxCatalysts
  <2> DEFINE event == [x \in given |-> x.event]
  <2>1. event \in [given -> E]
    BY <1>2, <1>4, <1>7
  <2>2. \A x, y \in given : event[x] = event[y] => x = y
    BY <1>7
  <2>3. \A x \in given : RankOf(event[x], E) <= MaxCatalysts
    BY <1>4, <1>7
  <2> HIDE DEF event
  <2> QED
    BY <1>1, <1>2, <2>1, <2>2, <2>3, FewRanked
<1>13. \A x \in given, y \in S : x.event = y.event => x = y \/ Outranks(x, y)
  <2> SUFFICES ASSUME NEW x \in given, NEW y \in S, x.event = y.event PROVE x = y \/ Outranks(x, y)
    OBVIOUS
  <2>1. y \in K
    BY <1>4, <1>5, <1>7
  <2> QED
    BY <1>8, <2>1
<1>14. ASSUME NEW e \in E, NEW f \in E, e \in EventsOf(given), f \notin EventsOf(given)
       PROVE  cut /\ Day[e] <= Day[f]
  <2>1. RankOf(e, E) <= MaxCatalysts /\ ~(RankOf(f, E) <= MaxCatalysts)
    BY <1>10, <1>14
  <2>2. RankOf(e, E) \in Nat /\ RankOf(f, E) \in Nat
    BY <1>2, RankRises
  <2>3. cut
    BY <1>1, <1>11, <2>1, <2>2
  <2>4. ~Sooner(f, e)
    BY <1>1, <1>2, <2>1, <2>2, RankRises
  <2>5. Day[e] \in Nat /\ Day[f] \in Nat
    BY <1>2, CitationsAssumption
  <2>6. ~(Day[f] < Day[e])
    BY <2>4 DEF Sooner
  <2>7. \A i, j \in Nat : ~(j < i) => i <= j
    OBVIOUS
  <2> QED
    BY <2>3, <2>5, <2>6, <2>7
<1>15. ASSUME ~cut, NEW e \in E PROVE e \in EventsOf(given)
  <2>1. RankOf(e, E) \in Nat /\ ~(RankOf(e, E) > MaxCatalysts)
    BY <1>2, <1>11, <1>15, RankRises
  <2> QED
    BY <1>1, <1>10, <2>1
<1> QED
  BY <1>4, <1>7, <1>12, <1>13, <1>14, <1>15 DEF E, given, cut

(***************************************************************************)
(* What the parties to the calendar hold                                   *)
(***************************************************************************)

PageRecord == [of : {"unread", "unopened", "whole", "part"}, states : [Days -> Forms]]
DigRecord == [phase : {"none", "reading", "bound"}, events : Seq(Submission), toRead : SUBSET Pages,
              pages : [Pages -> PageRecord]]
MemberRecord ==
  [step : {"idle", "reading", "rejected", "recorded", "lost"}, now : Nat, events : Seq(Submission),
   toRead : SUBSET Pages, pages : [Pages -> PageRecord]]
AskRecord ==
  [step : {"idle", "rows", "told"}, now : Nat, horizon : Nat, seen : Runs \cup {NoRun},
   finished : BOOLEAN, current : SUBSET Sighting, rows : SUBSET Sighting, truncated : BOOLEAN,
   state : {"none", "unsearched", "running", "complete", "failed"}]

CiteShape ==
  /\ web \in [Pages -> Texts] /\ edited \in BOOLEAN /\ dig \in [Runs -> DigRecord]
  /\ cite \in [Events -> [page : Pages \cup {NoPage}, by : Runs \cup {NoRun}]]
  /\ member \in MemberRecord
  /\ recorded \in [Events -> [page : Pages \cup {NoPage}, now : Nat]]
  /\ broker \in [day : Nat, confirmed : BOOLEAN, updatedAt : Nat]
  /\ ask \in AskRecord

\* The run a row names has stored its rows, so it reads no page any more.
RowsCited ==
  \A e \in Events :
    rows[e] # 0 => LET r == cite[e].by
                   IN /\ r \in Runs /\ run[r].stored /\ run[r].now = rows[e]
                      /\ Vouches(dig[r].pages[cite[e].page], e)

\* As long as a member's agent may still read, nothing of its recording is kept.
MemberCited ==
  /\ member.step \in {"idle", "reading", "rejected"} => \A e \in Events : recorded[e] = Unrecorded
  /\ member.step = "reading" => member.now >= 1
  /\ \A e \in Events : recorded[e] # Unrecorded => Vouches(member.pages[recorded[e].page], e)
  /\ RecordingWhole

RecordedStored == \A r \in Runs : run[r].recorded = "complete" => run[r].stored

\* What the rows have of the search that had been recorded when they were read.
ReadWhole ==
  /\ ReadStands
  /\ ask.step # "idle" /\ ask.finished /\ ~ask.truncated /\ NoneForced =>
       /\ ask.seen \in Stored
       /\ {e \in run[ask.seen].reports : Day[e] <= 1 + ask.horizon} \subseteq EventsOf(ask.rows)

CitationsIInv == CiteShape /\ RowsCited /\ MemberCited /\ RecordedStored /\ ReadWhole

LEMMA CitationsIInvGives ==
  ASSUME CalendarInv, CitationsIInv
  PROVE  CitationsInv
<1> USE DEF CitationsIInv
<1>1. CitationsTypeOK
  <2>1. \A r \in Runs : dig[r] \in DigRecord
    BY DEF CiteShape
  <2>2. \A e \in Events : /\ cite[e] \in [page : Pages \cup {NoPage}, by : Runs \cup {NoRun}]
                          /\ recorded[e] \in [page : Pages \cup {NoPage}, now : Nat]
    BY DEF CiteShape
  <2>3. member.step \in {"idle", "reading", "rejected", "recorded", "lost"}
    BY DEF CiteShape, MemberRecord
  <2>4. ask.state \in {"none", "unsearched", "running", "complete", "failed"}
    BY DEF CiteShape, AskRecord
  <2>5. \A r \in Runs : dig[r].phase \in {"none", "reading", "bound"} /\ dig[r].toRead \subseteq Pages
    BY <2>1 DEF DigRecord
  <2> QED
    BY <2>2, <2>3, <2>4, <2>5 DEF CitationsTypeOK, CalendarInv, CiteShape
<1>2. DatesCited
  BY CatalystAssumption DEF DatesCited, RowsCited, MemberCited
<1>3. CompleteReadHasRows
  BY DEF CompleteReadHasRows, ReadWhole
<1> QED
  BY <1>1, <1>2, <1>3 DEF CitationsInv, MemberCited, ReadWhole

\* Nothing is read, cited, recorded or asked yet.
LEMMA InitCitationsIInv == CitationsInit => CitationsIInv
<1> SUFFICES ASSUME CitationsInit PROVE CitationsIInv
  OBVIOUS
<1> USE DEF CitationsInit
<1>1. NoText \in [Days -> Forms]
  BY DEF NoText, Forms
<1>2. Unread \in PageRecord
  BY <1>1 DEF Unread, PageRecord
<1>3. NoDig \in DigRecord
  BY <1>2 DEF NoDig, DigRecord
<1>4. member \in MemberRecord
  BY <1>2 DEF MemberRecord
<1>5. ask \in AskRecord
  BY DEF NoAsk, AskRecord
<1>6. broker \in [day : Nat, confirmed : BOOLEAN, updatedAt : Nat]
  BY DEF NoBrokerRow
<1>7. recorded \in [Events -> [page : Pages \cup {NoPage}, now : Nat]]
  BY DEF Unrecorded
<1>8. CiteShape
  BY <1>3, <1>4, <1>5, <1>6, <1>7 DEF CiteShape
<1>9. RowsCited
  BY DEF RowsCited, Init
<1>10. \A e \in Events : recorded[e] = Unrecorded
  OBVIOUS
<1>11. {e \in Events : recorded[e] # Unrecorded} = {}
  BY <1>10
<1>12. MemberCited
  BY <1>10, <1>11 DEF MemberCited, RecordingWhole
<1>13. RecordedStored
  BY DEF RecordedStored, Init
<1>14. ReadWhole
  BY DEF ReadWhole, ReadStands, NoAsk
<1> QED
  BY <1>8, <1>9, <1>12, <1>13, <1>14 DEF CitationsIInv

(***************************************************************************)
(* Binding an event to a page                                              *)
(***************************************************************************)

\* What a page yields is a text.
LEMMA PageIsText ==
  ASSUME web \in [Pages -> Texts], NEW p \in Pages
  PROVE  PageReads(p) \subseteq PageRecord
<1>1. NoText \in [Days -> Forms]
  BY DEF NoText, Forms
<1>2. web[p] \in [Days -> Forms]
  BY CitationsAssumption
<1>3. \A t \in Cuts(web[p]) : t \in [Days -> Forms]
  BY <1>1 DEF Cuts, Forms
<1> QED
  BY <1>1, <1>2, <1>3 DEF PageReads, PageRecord, Unopened

\* An event that was bound has a page, and the page was read and states its day.
LEMMA BoundVouches ==
  ASSUME NEW events \in Seq(Submission), NEW pages, NEW e \in BoundEvents(events, pages)
  PROVE  /\ e \in Events /\ PageFor(e, events, pages) \in Pages
         /\ Vouches(pages[PageFor(e, events, pages)], e)
<1> DEFINE j == CHOOSE i \in Bound(events, pages) : events[i].event = e
<1>1. \E i \in Bound(events, pages) : events[i].event = e
  BY DEF BoundEvents
<1>2. j \in Bound(events, pages) /\ events[j].event = e
  BY <1>1
<1>3. PageFor(e, events, pages) = PageOf[events[j].address]
  BY DEF PageFor
<1> HIDE DEF j
<1>4. j \in DOMAIN events /\ Binds(events[j], pages)
  BY <1>2 DEF Bound
<1>5. events[j] \in Submission
  BY <1>4
<1>6. events[j].address \in Addresses /\ events[j].event \in Events
  BY <1>5 DEF Submission
<1>7. PageOf[events[j].address] \in Pages
  BY <1>4, <1>6, CitationsAssumption DEF Binds
<1> QED
  BY <1>2, <1>3, <1>4, <1>6, <1>7 DEF Binds, Vouches

LEMMA CitedPages ==
  ASSUME NEW events \in Seq(Submission)
  PROVE  Cited(events) \subseteq Pages
<1>1. \A i \in DOMAIN events : events[i] \in Submission
  OBVIOUS
<1>2. \A i \in DOMAIN events : PageOf[events[i].address] \in Pages \cup {NoPage}
  BY <1>1, CitationsAssumption DEF Submission
<1> QED
  BY <1>2 DEF Cited

(***************************************************************************)
(* What the runs' own steps keep                                           *)
(***************************************************************************)

\* A step of the calendar is one of the runs', or leaves them as they are.
LEMMA StepOfRuns ==
  ASSUME [CitationsNext]_citeVars
  PROVE  [Next]_vars
<1>1. ASSUME NEW r \in Runs, SearchStep(r) PROVE [Next]_vars
  <2>1. CASE BeginRun(r)
    BY <2>1 DEF BeginRun, Next, Step
  <2>2. CASE SearchMissing(r)
    BY <2>2 DEF SearchMissing, Next, Step
  <2>3. CASE SearchReturns(r) \/ \E p \in Pages : SearchReads(r, p)
    BY <2>3 DEF SearchReturns, SearchReads
  <2>4. CASE SearchBinds(r)
    BY <2>4 DEF SearchBinds, Next, Step
  <2>5. CASE SearchPersists(r)
    BY <2>5 DEF SearchPersists, Next, Step
  <2>6. CASE EndRun(r)
    BY <2>6 DEF EndRun, Next, Step
  <2> QED
    BY <1>1, <2>1, <2>2, <2>3, <2>4, <2>5, <2>6 DEF SearchStep
<1>2. CASE MemberBegins \/ MemberReads \/ MemberRejected \/ MemberWrites
  BY <1>2 DEF MemberBegins, MemberReads, MemberRejected, MemberWrites, aside
<1>3. CASE BrokerAnswers \/ AskRows \/ AskReceipt \/ Edit
  BY <1>3 DEF BrokerAnswers, AskRows, AskReceipt, Edit
<1>4. CASE Later
  BY <1>4 DEF Later, Next
<1>5. CASE UNCHANGED citeVars
  BY <1>5 DEF citeVars
<1> QED
  BY <1>1, <1>2, <1>3, <1>4, <1>5 DEF CitationsNext

\* A run that has stored its rows keeps what it stored, and one that was forced stays so.
StoredStand ==
  /\ \A r \in Runs : run[r].stored => /\ run'[r].stored /\ run'[r].now = run[r].now
                                      /\ run'[r].reports = run[r].reports
  /\ NoneForced' => NoneForced

LEMMA OneStands ==
  ASSUME NEW r \in Runs, OthersKept(r), RecordedStored,
         run[r].stored => /\ run'[r].stored /\ run'[r].now = run[r].now
                          /\ run'[r].reports = run[r].reports,
         run[r].forced => run'[r].forced,
         run'[r].recorded = "complete" => run'[r].stored
  PROVE  StoredStand /\ RecordedStored'
BY DEF StoredStand, OthersKept, NoneForced, RecordedStored

LEMMA RunsStand ==
  ASSUME CalendarInv, RecordedStored, [Next]_vars
  PROVE  StoredStand /\ RecordedStored'
<1> USE DEF CalendarInv
<1>1. ASSUME NEW r \in Runs, Start(r) PROVE StoredStand /\ RecordedStored'
  <2>1. ~run[r].stored /\ ~run[r].forced
    BY <1>1 DEF Start, Life, LifeOf
  <2>2. run[r].recorded # "complete"
    BY <2>1 DEF RecordedStored
  <2> QED
    BY <1>1, <2>1, <2>2, Started, OneStands
<1>2. ASSUME NEW r \in Runs, Claim(r) PROVE StoredStand /\ RecordedStored'
  <2>1. /\ OthersKept(r) /\ run'[r].now = run[r].now /\ run'[r].reports = run[r].reports
        /\ run'[r].stored = run[r].stored /\ run'[r].recorded = run[r].recorded
        /\ run'[r].forced = run[r].forced
    BY <1>2, Claimed
  <2> QED
    BY <2>1, OneStands DEF RecordedStored
<1>3. ASSUME NEW r \in Runs, NEW step \in {"found", "failing", "over"}, Becomes(r, step)
      PROVE  StoredStand /\ RecordedStored'
  <2>1. step \in Steps
    BY DEF Steps
  <2>2. /\ OthersKept(r) /\ run'[r].now = run[r].now /\ run'[r].reports = run[r].reports
        /\ run'[r].stored = run[r].stored /\ run'[r].recorded = run[r].recorded
        /\ run'[r].forced = run[r].forced
    BY <1>3, <2>1, Moved
  <2> QED
    BY <2>2, OneStands DEF RecordedStored
<1>4. ASSUME NEW r \in Runs, Persist(r) PROVE StoredStand /\ RecordedStored'
  <2>1. ~run[r].stored
    BY <1>4 DEF Persist, Life, LifeOf
  <2>2. OthersKept(r) /\ run'[r].stored /\ run'[r].forced = run[r].forced
    BY <1>4, Persisted
  <2> QED
    BY <2>1, <2>2, OneStands
<1>5. ASSUME NEW r \in Runs, NEW outcome \in {"complete", "failed"}, outcome = "complete" => run[r].stored,
             NEW steps \in SUBSET {"failing", "over"}, Record(r, outcome, steps)
      PROVE  StoredStand /\ RecordedStored'
  <2>1. /\ OthersKept(r) /\ run'[r].now = run[r].now /\ run'[r].reports = run[r].reports
        /\ run'[r].stored = run[r].stored
        /\ run'[r].recorded = IF OwnReceipt(r) THEN outcome ELSE run[r].recorded
        /\ run'[r].forced = run[r].forced
    BY <1>5, Recorded
  <2>2. run'[r].recorded = "complete" => run'[r].stored
    BY <1>5, <2>1 DEF RecordedStored
  <2> QED
    BY <2>1, <2>2, OneStands
<1>6. ASSUME NEW r \in Runs, RecordComplete(r) PROVE StoredStand /\ RecordedStored'
  <2>1. run[r].stored /\ Record(r, "complete", {"over", "failing"})
    BY <1>6 DEF RecordComplete, Life, LifeOf
  <2> QED
    BY <1>5, <2>1
<1>7. ASSUME NEW r \in Runs, RecordFailed(r) PROVE StoredStand /\ RecordedStored'
  <2>1. Record(r, "failed", {"over"})
    BY <1>7 DEF RecordFailed
  <2> QED
    BY <1>5, <2>1
<1>8. CASE Tick \/ UNCHANGED vars
  <2>1. UNCHANGED run
    BY <1>8 DEF Tick, vars
  <2> QED
    BY <2>1 DEF StoredStand, RecordedStored, NoneForced
<1> QED
  BY <1>1, <1>2, <1>3, <1>4, <1>6, <1>7, <1>8
     DEF Next, Step, Refused, Dies, SearchAnswers, SearchFails, PersistFails, RecordCompleteFails

\* What was read of the calendar stays true of the search it was read after.
LEMMA ReadStays ==
  ASSUME ReadWhole, StoredStand, UNCHANGED ask, ask.seen \in Runs \cup {NoRun}
  PROVE  ReadWhole'
<1>1. ReadStands'
  BY DEF ReadWhole, ReadStands, EventsOf, Outranks
<1>2. ASSUME ask.step # "idle", ask.finished, ~ask.truncated, NoneForced'
      PROVE  /\ ask.seen \in Stored'
             /\ {e \in run'[ask.seen].reports : Day[e] <= 1 + ask.horizon} \subseteq EventsOf(ask.rows)
  <2>1. /\ ask.seen \in Stored
        /\ {e \in run[ask.seen].reports : Day[e] <= 1 + ask.horizon} \subseteq EventsOf(ask.rows)
    BY <1>2 DEF ReadWhole, StoredStand
  <2> QED
    BY <2>1 DEF StoredStand, Stored
<1> QED
  BY <1>1, <1>2 DEF ReadWhole, EventsOf

LEMMA MemberStays ==
  ASSUME MemberCited, UNCHANGED <<member, recorded>>
  PROVE  MemberCited'
BY DEF MemberCited, RecordingWhole, SubmittedEvents, Vouches, States

\* The rows keep their pages as long as the runs that stored them read nothing.
LEMMA RowsStayCited ==
  ASSUME RowsCited, StoredStand, UNCHANGED <<rows, cite>>,
         \A r \in Stored : dig'[r] = dig[r]
  PROVE  RowsCited'
<1> SUFFICES ASSUME NEW e \in Events, rows[e] # 0
             PROVE  /\ cite[e].by \in Runs /\ run'[cite[e].by].stored /\ run'[cite[e].by].now = rows[e]
                    /\ Vouches(dig'[cite[e].by].pages[cite[e].page], e)
  BY DEF RowsCited, Vouches, States
<1>1. /\ cite[e].by \in Runs /\ run[cite[e].by].stored /\ run[cite[e].by].now = rows[e]
      /\ Vouches(dig[cite[e].by].pages[cite[e].page], e)
  BY DEF RowsCited
<1>2. cite[e].by \in Stored
  BY <1>1 DEF Stored
<1>3. dig'[cite[e].by] = dig[cite[e].by]
  BY <1>2
<1> QED
  BY <1>1, <1>3 DEF StoredStand

\* A search that was recorded complete, and that no other superseded, is what the calendar
\* shows of its events.
LEMMA CompleteIsShown ==
  ASSUME CalendarInv, AttentionInv, RecordedStored, NoneForced, receipt.status = "complete"
  PROVE  /\ receipt.claimant \in Stored
         /\ run[receipt.claimant].reports \subseteq Shown
<1> DEFINE c == receipt.claimant
<1>1. c \in Runs /\ run[c].recorded = "complete" /\ run[c].now = receipt.ranAt
  BY DEF AttentionInv, ReceiptIsClaimants, CalendarInv, TypeOK
<1>2. run[c].stored /\ run[c].claimed /\ run[c].now >= 1
  BY <1>1 DEF RecordedStored, CalendarInv, Life, LifeOf
<1> HIDE DEF c
<1>3. \A s \in Stored : s \in Runs /\ run[s].now \in Nat /\ run[s].now <= run[c].now
  <2> SUFFICES ASSUME NEW s \in Stored PROVE s \in Runs /\ run[s].now \in Nat /\ run[s].now <= run[c].now
    OBVIOUS
  <2>1. s \in Runs /\ run[s].claimed
    BY DEF Stored, CalendarInv, Life, LifeOf
  <2>2. run[s].now \in Nat /\ run[c].now \in Nat
    BY <1>1, <2>1 DEF CalendarInv, TypeOK, Run
  <2>3. Hold(s) \in Nat
    BY <2>1, CatalystAssumption DEF Hold
  <2>4. s # c => run[s].now + Hold(s) <= run[c].now
    BY <1>1, <2>1 DEF AttentionInv, c
  <2> QED
    BY <2>1, <2>2, <2>3, <2>4
<1>4. c \in Stored /\ run[c].now \in Nat /\ run[c].reports \subseteq Events
  BY <1>1, <1>2 DEF Stored, CalendarInv, TypeOK, Run
<1>5. \A e \in Events : rows[e] \in Nat /\ rows[e] <= run[c].now
  <2> SUFFICES ASSUME NEW e \in Events PROVE rows[e] \in Nat /\ rows[e] <= run[c].now
    OBVIOUS
  <2>1. rows[e] \in Nat
    BY DEF CalendarInv, TypeOK
  <2>2. rows[e] # 0 => \E s \in Stored : run[s].now = rows[e]
    BY DEF CalendarInv, RowsAreLatest
  <2> QED
    BY <1>3, <1>4, <2>1, <2>2
<1>6. \A e \in run[c].reports : e \in Events /\ run[c].now <= rows[e]
  BY <1>4 DEF CalendarInv, RowsAreLatest
<1>7. ASSUME NEW e \in run[c].reports PROVE e \in Shown
  <2>1. e \in Events /\ rows[e] = run[c].now
    BY <1>4, <1>5, <1>6
  <2>2. rows[e] # 0 /\ \A f \in Events : rows[f] <= rows[e]
    BY <1>2, <1>4, <1>5, <2>1
  <2> QED
    BY <2>1, <2>2 DEF Shown
<1> QED
  BY <1>4, <1>7 DEF c

(***************************************************************************)
(* The searches' steps                                                     *)
(***************************************************************************)

\* A run that still searches has no row on the calendar: whatever it reads, none moves.
LEMMA SearchGoes ==
  ASSUME CalendarInv, CitationsIInv, StoredStand, RecordedStored', NEW r \in Runs, NEW d \in DigRecord,
         dig' = [dig EXCEPT ![r] = d], run[r].step = "searching",
         UNCHANGED <<rows, web, edited, cite, member, recorded, broker, ask>>
  PROVE  CitationsIInv'
<1> USE DEF CitationsIInv
<1>1. \A s \in Stored : dig'[s] = dig[s]
  BY DEF Stored, CalendarInv, Life, LifeOf, CiteShape
<1>2. CiteShape'
  BY DEF CiteShape
<1>3. RowsCited'
  BY <1>1, RowsStayCited
<1>4. MemberCited'
  BY MemberStays
<1>5. ReadWhole'
  BY ReadStays DEF CiteShape, AskRecord
<1> QED
  BY <1>2, <1>3, <1>4, <1>5

LEMMA ReturnKeepsCitations ==
  ASSUME CalendarInv, CitationsIInv, StoredStand, RecordedStored', NEW r \in Runs, SearchReturns(r)
  PROVE  CitationsIInv'
<1>1. PICK f \in Findings :
        dig' = [dig EXCEPT ![r] = [dig[r] EXCEPT !.phase = "reading", !.events = f.events,
                  !.toRead = Cited(f.events) \cap {PageOf[a] : a \in f.returned}]]
  BY DEF SearchReturns
<1> DEFINE old == dig[r]
           toRead == Cited(f.events) \cap {PageOf[a] : a \in f.returned}
           events == f.events
           d == [old EXCEPT !.phase = "reading", !.events = events, !.toRead = toRead]
<1>2. dig' = [dig EXCEPT ![r] = d]
  BY <1>1
<1>3. old \in DigRecord
  BY DEF CitationsIInv, CiteShape
<1>4. events \in Seq(Submission)
  BY CitationsAssumption
<1>5. toRead \in SUBSET Pages
  BY <1>4, CitedPages
<1> HIDE DEF old, toRead, events
<1>6. d \in DigRecord
  BY <1>3, <1>4, <1>5 DEF DigRecord
<1> HIDE DEF d
<1>7. /\ run[r].step = "searching"
      /\ UNCHANGED <<rows, web, edited, cite, member, recorded, broker, ask>>
  BY DEF SearchReturns, vars, citesOnly
<1> QED
  BY <1>2, <1>6, <1>7, SearchGoes

LEMMA SearchReadKeepsCitations ==
  ASSUME CalendarInv, CitationsIInv, StoredStand, RecordedStored', NEW r \in Runs, NEW p \in Pages,
         SearchReads(r, p)
  PROVE  CitationsIInv'
<1>1. PICK page \in PageReads(p) :
        dig' = [dig EXCEPT ![r] = [dig[r] EXCEPT !.toRead = dig[r].toRead \ {p}, !.pages[p] = page]]
  BY DEF SearchReads
<1> DEFINE old == dig[r]
           d == [old EXCEPT !.toRead = dig[r].toRead \ {p}, !.pages[p] = page]
<1>2. dig' = [dig EXCEPT ![r] = d]
  BY <1>1
<1>3. old \in DigRecord
  BY DEF CitationsIInv, CiteShape
<1>4. page \in PageRecord
  BY PageIsText DEF CitationsIInv, CiteShape
<1> HIDE DEF old
<1>5. d \in DigRecord
  <2>1. dig[r].toRead \in SUBSET Pages
    BY <1>3 DEF DigRecord, old
  <2> QED
    BY <1>3, <1>4, <2>1 DEF DigRecord
<1> HIDE DEF d
<1>6. /\ run[r].step = "searching"
      /\ UNCHANGED <<rows, web, edited, cite, member, recorded, broker, ask>>
  BY DEF SearchReads, vars, citesOnly
<1> QED
  BY <1>2, <1>5, <1>6, SearchGoes

LEMMA BindKeepsCitations ==
  ASSUME CalendarInv, CitationsIInv, StoredStand, RecordedStored', NEW r \in Runs, SearchBinds(r)
  PROVE  CitationsIInv'
<1> DEFINE old == dig[r]
           d == [old EXCEPT !.phase = "bound"]
<1>1. dig' = [dig EXCEPT ![r] = d]
  BY DEF SearchBinds
<1>2. old \in DigRecord
  BY DEF CitationsIInv, CiteShape
<1> HIDE DEF old
<1>3. d \in DigRecord
  BY <1>2 DEF DigRecord
<1> HIDE DEF d
<1>4. /\ run[r].step = "searching"
      /\ UNCHANGED <<rows, web, edited, cite, member, recorded, broker, ask>>
  BY DEF SearchBinds, SearchAnswers, citesOnly
<1> QED
  BY <1>1, <1>3, <1>4, SearchGoes

\* The steps of a run that touch neither what it read nor the rows.
LEMMA RunKeepsCitations ==
  ASSUME CalendarInv, CitationsIInv, StoredStand, RecordedStored', UNCHANGED <<rows, dig, citesOnly>>
  PROVE  CitationsIInv'
<1> USE DEF CitationsIInv
<1>1. UNCHANGED <<rows, dig, web, edited, cite, member, recorded, broker, ask>>
  BY DEF citesOnly
<1>2. CiteShape'
  BY <1>1 DEF CiteShape
<1>3. RowsCited'
  BY <1>1, RowsStayCited
<1>4. MemberCited'
  BY <1>1, MemberStays
<1>5. ReadWhole'
  BY <1>1, ReadStays DEF CiteShape, AskRecord
<1> QED
  BY <1>2, <1>3, <1>4, <1>5

\* What a run stores it has bound, so each row it moves has a page that vouches for it.
LEMMA PersistKeepsCitations ==
  ASSUME CalendarInv, CitationsIInv, StoredStand, RecordedStored', NEW r \in Runs, SearchPersists(r)
  PROVE  CitationsIInv'
<1> USE DEF CitationsIInv
<1> DEFINE bound == BoundEvents(dig[r].events, dig[r].pages)
           pageOf(e) == PageFor(e, dig[r].events, dig[r].pages)
<1>1. /\ Persist(r) /\ run'[r].reports = bound
      /\ cite' = [e \in Events |-> IF e \in {f \in bound : run[r].now >= rows[f]}
                                   THEN [page |-> pageOf(e), by |-> r] ELSE cite[e]]
      /\ UNCHANGED <<web, edited, dig, member, recorded, broker, ask>>
  BY DEF SearchPersists
<1>2. dig[r].events \in Seq(Submission)
  <2>1. dig[r] \in DigRecord
    BY DEF CiteShape
  <2> QED
    BY <2>1 DEF DigRecord
<1>3. \A e \in bound : /\ e \in Events /\ pageOf(e) \in Pages
                       /\ Vouches(dig[r].pages[pageOf(e)], e)
  BY <1>2, BoundVouches
<1> HIDE DEF bound, pageOf
<1>4. /\ rows' = [e \in Events |-> IF e \in bound /\ run[r].now >= rows[e] THEN run[r].now ELSE rows[e]]
      /\ run'[r].stored /\ run'[r].now = run[r].now
  BY <1>1, Persisted DEF Upsert, CalendarInv
<1>5. CiteShape'
  <2>1. \A e \in Events : cite'[e] \in [page : Pages \cup {NoPage}, by : Runs \cup {NoRun}]
    <3> SUFFICES ASSUME NEW e \in Events
                 PROVE  cite'[e] \in [page : Pages \cup {NoPage}, by : Runs \cup {NoRun}]
      OBVIOUS
    <3>1. cite[e] \in [page : Pages \cup {NoPage}, by : Runs \cup {NoRun}]
      BY DEF CiteShape
    <3>2. cite'[e] = IF e \in {f \in bound : run[r].now >= rows[f]}
                     THEN [page |-> pageOf(e), by |-> r] ELSE cite[e]
      BY <1>1
    <3> QED
      BY <1>3, <3>1, <3>2
  <2>2. cite' \in [Events -> [page : Pages \cup {NoPage}, by : Runs \cup {NoRun}]]
    BY <1>1, <2>1
  <2> QED
    BY <1>1, <2>2 DEF CiteShape
<1>6. ASSUME NEW e \in Events, rows'[e] # 0
      PROVE  /\ cite'[e].by \in Runs /\ run'[cite'[e].by].stored /\ run'[cite'[e].by].now = rows'[e]
             /\ Vouches(dig[cite'[e].by].pages[cite'[e].page], e)
  <2>1. CASE e \in bound /\ run[r].now >= rows[e]
    <3>1. cite'[e] = [page |-> pageOf(e), by |-> r] /\ rows'[e] = run[r].now
      BY <1>1, <1>4, <2>1
    <3>2. cite'[e].by = r /\ cite'[e].page = pageOf(e)
      BY <3>1
    <3> QED
      BY <1>3, <1>4, <2>1, <3>1, <3>2
  <2>2. CASE ~(e \in bound /\ run[r].now >= rows[e])
    <3>1. cite'[e] = cite[e] /\ rows'[e] = rows[e]
      BY <1>1, <1>4, <2>2
    <3>2. /\ cite[e].by \in Runs /\ run[cite[e].by].stored /\ run[cite[e].by].now = rows[e]
          /\ Vouches(dig[cite[e].by].pages[cite[e].page], e)
      BY <1>6, <3>1 DEF RowsCited
    <3> QED
      BY <3>1, <3>2 DEF StoredStand
  <2> QED
    BY <2>1, <2>2
<1>7. RowsCited'
  BY <1>1, <1>6 DEF RowsCited, Vouches, States
<1>8. MemberCited'
  BY <1>1, MemberStays
<1>9. ReadWhole'
  BY <1>1, ReadStays DEF CiteShape, AskRecord
<1> QED
  BY <1>5, <1>7, <1>8, <1>9

(***************************************************************************)
(* The member's recording                                                  *)
(***************************************************************************)

\* Whatever a member does, the search's rows and the agent's read are untouched.
LEMMA MemberGoes ==
  ASSUME CitationsIInv, UNCHANGED aside, member' \in MemberRecord,
         recorded' \in [Events -> [page : Pages \cup {NoPage}, now : Nat]], MemberCited'
  PROVE  CitationsIInv'
<1> USE DEF CitationsIInv
<1>1. UNCHANGED <<rows, run, dig, web, edited, cite, broker, ask>>
  BY DEF aside, vars
<1>2. CiteShape'
  BY <1>1 DEF CiteShape
<1>3. StoredStand /\ RecordedStored'
  BY <1>1 DEF StoredStand, NoneForced, RecordedStored
<1>4. RowsCited'
  BY <1>1, <1>3, RowsStayCited
<1>5. ReadWhole'
  BY <1>1, <1>3, ReadStays DEF CiteShape, AskRecord
<1> QED
  BY <1>2, <1>3, <1>4, <1>5

\* Until it is written nothing of a recording is kept.
LEMMA Unwritten ==
  ASSUME CitationsIInv, NEW m \in MemberRecord, member' = m, UNCHANGED <<aside, recorded>>,
         member.step \in {"idle", "reading"}, m.step \in {"reading", "rejected", "lost"},
         m.step = "reading" => m.now >= 1
  PROVE  CitationsIInv'
<1>1. \A e \in Events : recorded[e] = Unrecorded
  BY DEF CitationsIInv, MemberCited
<1>2. {e \in Events : recorded'[e] # Unrecorded} = {} /\ \A e \in Events : recorded'[e] = Unrecorded
  BY <1>1
<1>3. MemberCited'
  BY <1>2 DEF MemberCited, RecordingWhole, Unrecorded
<1>4. recorded' \in [Events -> [page : Pages \cup {NoPage}, now : Nat]] /\ UNCHANGED aside
  BY DEF CitationsIInv, CiteShape
<1> QED
  BY <1>3, <1>4, MemberGoes

LEMMA MemberBeginKeepsCitations ==
  ASSUME CalendarInv, CitationsIInv, MemberBegins
  PROVE  CitationsIInv'
<1>1. PICK s \in Recordings :
        member' = [member EXCEPT !.now = clock, !.events = s, !.toRead = Cited(s),
                     !.step = IF \A i \in DOMAIN s : PageOf[s[i].address] # NoPage
                              THEN "reading" ELSE "rejected"]
  BY DEF MemberBegins
<1> DEFINE toRead == Cited(s)
           step == IF \A i \in DOMAIN s : PageOf[s[i].address] # NoPage THEN "reading" ELSE "rejected"
           m == [member EXCEPT !.now = clock, !.events = s, !.toRead = toRead, !.step = step]
<1>2. member' = m
  BY <1>1
<1>3. member \in MemberRecord /\ clock \in Nat /\ clock >= 1
  BY DEF CitationsIInv, CiteShape, CalendarInv, TypeOK
<1>4. s \in Seq(Submission)
  BY CitationsAssumption
<1>5. toRead \in SUBSET Pages /\ step \in {"reading", "rejected"}
  BY <1>4, CitedPages
<1> HIDE DEF toRead, step
<1>6. m \in MemberRecord /\ m.step = step /\ m.now = clock
  BY <1>3, <1>4, <1>5 DEF MemberRecord
<1> HIDE DEF m
<1>7. member.step = "idle" /\ UNCHANGED <<aside, recorded>>
  BY DEF MemberBegins
<1> QED
  BY <1>2, <1>3, <1>5, <1>6, <1>7, Unwritten

LEMMA MemberReadKeepsCitations ==
  ASSUME CitationsIInv, MemberReads
  PROVE  CitationsIInv'
<1>1. PICK p \in member.toRead : \E page \in PageReads(p) :
        member' = [member EXCEPT !.toRead = member.toRead \ {p}, !.pages[p] = page]
  BY DEF MemberReads
<1>2. PICK page \in PageReads(p) :
        member' = [member EXCEPT !.toRead = member.toRead \ {p}, !.pages[p] = page]
  BY <1>1
<1> DEFINE m == [member EXCEPT !.toRead = member.toRead \ {p}, !.pages[p] = page]
<1>3. member \in MemberRecord
  BY DEF CitationsIInv, CiteShape
<1>4. p \in Pages
  BY <1>3 DEF MemberRecord
<1>5. page \in PageRecord
  BY <1>4, PageIsText DEF CitationsIInv, CiteShape
<1>6. m \in MemberRecord /\ m.step = member.step /\ m.now = member.now
  BY <1>3, <1>4, <1>5 DEF MemberRecord
<1>7. member' = m
  BY <1>2
<1> HIDE DEF m
<1>8. member.step = "reading" /\ UNCHANGED <<aside, recorded>>
  BY DEF MemberReads
<1>9. member.now >= 1
  BY <1>8 DEF CitationsIInv, MemberCited
<1> QED
  BY <1>6, <1>7, <1>8, <1>9, Unwritten

LEMMA MemberStepOf ==
  ASSUME CitationsIInv, NEW step \in {"rejected", "recorded", "lost"},
         member' = [member EXCEPT !.step = step]
  PROVE  /\ member' \in MemberRecord /\ member'.step = step /\ member'.now = member.now
         /\ member'.events = member.events /\ member'.pages = member.pages
<1>1. member \in MemberRecord
  BY DEF CitationsIInv, CiteShape
<1> QED
  BY <1>1 DEF MemberRecord

LEMMA MemberRejectKeepsCitations ==
  ASSUME CitationsIInv, MemberRejected
  PROVE  CitationsIInv'
<1>1. member' = [member EXCEPT !.step = "rejected"] /\ member.step = "reading" /\ UNCHANGED <<aside, recorded>>
  BY DEF MemberRejected
<1>2. member' \in MemberRecord /\ member'.step = "rejected"
  BY <1>1, MemberStepOf
<1> QED
  BY <1>1, <1>2, Unwritten

\* Every event of a recording is bound when it is written, so all of it is.
LEMMA MemberWriteKeepsCitations ==
  ASSUME CitationsIInv, MemberWrites
  PROVE  CitationsIInv'
<1> DEFINE bound == BoundEvents(member.events, member.pages)
           pageOf(e) == PageFor(e, member.events, member.pages)
<1>1. /\ member.step = "reading" /\ UNCHANGED aside
      /\ Bound(member.events, member.pages) = DOMAIN member.events
  BY DEF MemberWrites, AllBind
<1>2. member \in MemberRecord /\ recorded \in [Events -> [page : Pages \cup {NoPage}, now : Nat]]
  BY DEF CitationsIInv, CiteShape
<1>3. member.events \in Seq(Submission) /\ member.now \in Nat
  BY <1>2 DEF MemberRecord
<1>4. \A e \in bound : e \in Events /\ pageOf(e) \in Pages /\ Vouches(member.pages[pageOf(e)], e)
  BY <1>3, BoundVouches
<1>5. bound = SubmittedEvents
  BY <1>1 DEF BoundEvents, SubmittedEvents
<1>6. member.now >= 1 /\ \A e \in Events : recorded[e] = Unrecorded
  BY <1>1 DEF CitationsIInv, MemberCited
<1>7. ASSUME NEW step \in {"recorded", "lost"}, member' = [member EXCEPT !.step = step],
             recorded' = [e \in Events |-> IF e \in bound /\ member.now >= recorded[e].now
                                           THEN [page |-> pageOf(e), now |-> member.now]
                                           ELSE recorded[e]]
      PROVE  CitationsIInv'
  <2> HIDE DEF bound, pageOf
  <2>1. /\ member' \in MemberRecord /\ member'.step = step
        /\ member'.events = member.events /\ member'.pages = member.pages
    BY <1>7, MemberStepOf
  <2>2. \A e \in Events : member.now >= recorded[e].now
    BY <1>3, <1>6 DEF Unrecorded
  <2>3. \A e \in Events : recorded'[e] = IF e \in bound THEN [page |-> pageOf(e), now |-> member.now]
                                         ELSE Unrecorded
    BY <1>6, <1>7, <2>2
  <2>4. \A e \in bound : /\ recorded'[e] = [page |-> pageOf(e), now |-> member.now]
                         /\ recorded'[e].page = pageOf(e) /\ recorded'[e].now # 0
    BY <1>3, <1>4, <1>6, <2>3
  <2>5. \A e \in bound : recorded'[e] # Unrecorded
    <3>1. Unrecorded.now = 0
      BY DEF Unrecorded
    <3> QED
      BY <2>4, <3>1
  <2>6. {e \in Events : recorded'[e] # Unrecorded} = bound
    BY <1>4, <2>3, <2>5
  <2>7. recorded' \in [Events -> [page : Pages \cup {NoPage}, now : Nat]]
    <3> DEFINE Row == [page : Pages \cup {NoPage}, now : Nat]
    <3>1. Unrecorded \in Row
      BY DEF Unrecorded
    <3>2. \A e \in bound : [page |-> pageOf(e), now |-> member.now] \in Row
      BY <1>3, <1>4
    <3> HIDE DEF Row
    <3>3. \A e \in Events : recorded'[e] \in Row
      BY <2>3, <3>1, <3>2
    <3>4. recorded' \in [Events -> Row]
      BY <1>7, <3>3
    <3> QED
      BY <3>4 DEF Row
  <2>8. SubmittedEvents' = bound
    BY <1>5, <2>1 DEF SubmittedEvents
  <2>9. RecordingWhole'
    BY <2>1, <2>5, <2>6, <2>8 DEF RecordingWhole
  <2>10. \A e \in Events : recorded'[e] # Unrecorded => Vouches(member'.pages[recorded'[e].page], e)
    BY <1>4, <2>1, <2>3, <2>4
  <2>11. MemberCited'
    BY <2>1, <2>9, <2>10 DEF MemberCited, Vouches, States
  <2> QED
    BY <1>1, <2>1, <2>7, <2>11, MemberGoes
<1>8. ASSUME member' = [member EXCEPT !.step = "lost"], UNCHANGED recorded
      PROVE  CitationsIInv'
  <2>1. member' \in MemberRecord /\ member'.step = "lost"
    BY <1>8, MemberStepOf
  <2> QED
    BY <1>1, <1>8, <2>1, Unwritten
<1> QED
  BY <1>7, <1>8 DEF MemberWrites

(***************************************************************************)
(* The agent's read                                                        *)
(***************************************************************************)

\* A producer has one row of an event.
LEMMA CurrentIsOneEach ==
  ASSUME CalendarInv, CiteShape
  PROVE  OneEach(Current)
<1>1. ASSUME NEW x \in Current
      PROVE  /\ x \in Sighting
             /\ x.by = "exa" => x = [by |-> "exa", event |-> x.event, confirmed |-> FALSE, at |-> rows[x.event]]
             /\ x.by = "member-research" =>
                  x = [by |-> "member-research", event |-> x.event, confirmed |-> FALSE, at |-> recorded[x.event].now]
             /\ x.by = "tastytrade" =>
                  x = [by |-> "tastytrade", event |-> x.event, confirmed |-> broker.confirmed, at |-> broker.updatedAt]
  <2>1. CASE \E e \in Shown : x = [by |-> "exa", event |-> e, confirmed |-> FALSE, at |-> rows[e]]
    <3>1. PICK e \in Shown : x = [by |-> "exa", event |-> e, confirmed |-> FALSE, at |-> rows[e]]
      BY <2>1
    <3>2. e \in Events /\ rows[e] \in Nat
      BY DEF Shown, CalendarInv, TypeOK
    <3> QED
      BY <3>1, <3>2 DEF Sighting, Producers
  <2>2. CASE \E e \in Events : x = [by |-> "member-research", event |-> e, confirmed |-> FALSE, at |-> recorded[e].now]
    <3>1. PICK e \in Events :
            x = [by |-> "member-research", event |-> e, confirmed |-> FALSE, at |-> recorded[e].now]
      BY <2>2
    <3>2. recorded[e] \in [page : Pages \cup {NoPage}, now : Nat]
      BY DEF CiteShape
    <3>3. recorded[e].now \in Nat
      BY <3>2
    <3> QED
      BY <3>1, <3>3 DEF Sighting, Producers
  <2>3. CASE \E e \in Events :
               x = [by |-> "tastytrade", event |-> e, confirmed |-> broker.confirmed, at |-> broker.updatedAt]
    <3>1. PICK e \in Events :
            x = [by |-> "tastytrade", event |-> e, confirmed |-> broker.confirmed, at |-> broker.updatedAt]
      BY <2>3
    <3>2. broker.confirmed \in BOOLEAN /\ broker.updatedAt \in Nat
      BY DEF CiteShape
    <3> QED
      BY <3>1, <3>2 DEF Sighting, Producers
  <2> QED
    BY <2>1, <2>2, <2>3 DEF Current
<1>2. \A x \in Current : x \in Sighting
  BY <1>1
<1>3. ASSUME NEW x \in Current, NEW y \in Current, x.by = y.by, x.event = y.event PROVE x = y
  <2>1. x.by \in {"exa", "member-research", "tastytrade"}
    BY <1>2 DEF Sighting, Producers
  <2>2. CASE x.by = "exa"
    BY <1>1, <1>3, <2>2
  <2>3. CASE x.by = "member-research"
    BY <1>1, <1>3, <2>3
  <2>4. CASE x.by = "tastytrade"
    BY <1>1, <1>3, <2>4
  <2> QED
    BY <2>1, <2>2, <2>3, <2>4
<1> QED
  BY <1>2, <1>3 DEF OneEach

\* Neither what the searches wrote nor what the member did is touched by a read.
LEMMA AskGoes ==
  ASSUME CitationsIInv, UNCHANGED <<vars, web, edited, dig, cite, member, recorded>>,
         broker' \in [day : Nat, confirmed : BOOLEAN, updatedAt : Nat], ask' \in AskRecord, ReadWhole'
  PROVE  CitationsIInv'
<1> USE DEF CitationsIInv
<1>1. UNCHANGED <<rows, run, web, edited, dig, cite, member, recorded>>
  BY DEF vars
<1>2. CiteShape'
  BY <1>1 DEF CiteShape
<1>3. StoredStand /\ RecordedStored'
  BY <1>1 DEF StoredStand, NoneForced, RecordedStored
<1>4. RowsCited'
  BY <1>1, <1>3, RowsStayCited
<1>5. MemberCited'
  BY <1>1, MemberStays
<1> QED
  BY <1>2, <1>3, <1>4, <1>5

\* What the first statement returns is whole, and what a recorded search bound is in it.
LEMMA AskRowsKeepsCitations ==
  ASSUME CalendarInv, AttentionInv, CitationsIInv, AskRows
  PROVE  CitationsIInv'
<1> USE DEF CitationsIInv
<1>1. PICK h \in 1..Horizon :
        LET within == {x \in Current : Day[x.event] <= 1 + h}
            ranked == {x \in within : Rank(x, within) <= MaxCatalysts + 1}
        IN ask' = [ask EXCEPT !.step = "rows", !.now = clock, !.horizon = h,
                     !.seen = receipt.claimant, !.finished = receipt.status = "complete",
                     !.current = within,
                     !.rows = Distinct({x \in ranked : Rank(x, within) <= MaxCatalysts}),
                     !.truncated = \E x \in ranked : Rank(x, within) > MaxCatalysts]
  BY DEF AskRows
<1> DEFINE within == {x \in Current : Day[x.event] <= 1 + h}
           ranked == {x \in within : Rank(x, within) <= MaxCatalysts + 1}
           near == {x \in ranked : Rank(x, within) <= MaxCatalysts}
           given == Distinct(near)
           cut == \E x \in ranked : Rank(x, within) > MaxCatalysts
           finished == receipt.status = "complete"
           seen == receipt.claimant
           a == [ask EXCEPT !.step = "rows", !.now = clock, !.horizon = h, !.seen = seen,
                   !.finished = finished, !.current = within, !.rows = given, !.truncated = cut]
<1>2. ask' = a
  BY <1>1
<1>3. OneEach(Current)
  BY CurrentIsOneEach
<1>4. OneEach(within) /\ within \in SUBSET Sighting
  BY <1>3 DEF OneEach
<1>5. cut \in BOOLEAN /\ finished \in BOOLEAN
  OBVIOUS
<1>6. near = Within(within, MaxCatalysts) /\ ranked = Within(within, MaxCatalysts + 1)
  <2>1. \A x \in within : Rank(x, within) <= MaxCatalysts => Rank(x, within) <= MaxCatalysts + 1
    <3> SUFFICES ASSUME NEW x \in within, Rank(x, within) <= MaxCatalysts
                 PROVE  Rank(x, within) <= MaxCatalysts + 1
      OBVIOUS
    <3>1. x.event \in EventsOf(within) /\ EventsOf(within) \in SUBSET Events
      BY <1>4 DEF EventsOf, Sighting
    <3>2. Rank(x, within) = RankOf(x.event, EventsOf(within))
      BY DEF Rank, RankOf
    <3> HIDE DEF within
    <3>3. Rank(x, within) \in Nat
      BY <3>1, <3>2, RankRises
    <3>4. MaxCatalysts \in Nat
      BY CitationsAssumption
    <3> QED
      BY <3>3, <3>4
  <2> HIDE DEF within
  <2> QED
    BY <2>1 DEF Within
<1>7. given = Given(within)
  BY <1>6 DEF Given
<1>8. cut <=> CutOff(within)
  BY <1>6 DEF CutOff
<1>9. \A e \in Shown : Day[e] <= 1 + h => e \in EventsOf(within)
  <2> SUFFICES ASSUME NEW e \in Shown, Day[e] <= 1 + h PROVE e \in EventsOf(within)
    OBVIOUS
  <2> DEFINE x == [by |-> "exa", event |-> e, confirmed |-> FALSE, at |-> rows[e]]
  <2>1. x \in Current /\ x.event = e
    BY DEF Current
  <2> HIDE DEF x
  <2> QED
    BY <2>1 DEF EventsOf
<1> HIDE DEF within, given, cut, finished
<1>10. /\ given \subseteq within /\ Cardinality(given) <= MaxCatalysts
       /\ \A x \in given, y \in within : x.event = y.event => x = y \/ Outranks(x, y)
       /\ \A e, f \in EventsOf(within) :
            e \in EventsOf(given) /\ f \notin EventsOf(given) => cut /\ Day[e] <= Day[f]
       /\ ~cut => EventsOf(within) \subseteq EventsOf(given)
  BY <1>4, <1>7, <1>8, ReadIsWhole
<1>11. ask \in AskRecord /\ clock \in Nat /\ h \in Nat /\ seen \in Runs \cup {NoRun}
  BY CitationsAssumption DEF CiteShape, CalendarInv, TypeOK
<1> HIDE DEF seen
<1>12. /\ a \in AskRecord /\ a.step = "rows" /\ a.horizon = h /\ a.seen = seen /\ a.finished = finished
       /\ a.current = within /\ a.rows = given /\ a.truncated = cut
  BY <1>4, <1>5, <1>10, <1>11 DEF AskRecord
<1> HIDE DEF a
<1>13. UNCHANGED <<vars, web, edited, dig, cite, member, recorded, broker>>
  BY DEF AskRows
<1>14. ReadStands'
  BY <1>2, <1>10, <1>12 DEF ReadStands, EventsOf, Outranks
<1>15. ASSUME finished, ~cut, NoneForced
       PROVE  seen \in Stored /\ {e \in run[seen].reports : Day[e] <= 1 + h} \subseteq EventsOf(given)
  <2>1. receipt.status = "complete"
    BY <1>15 DEF finished
  <2>2. seen \in Stored /\ run[seen].reports \subseteq Shown
    BY <1>15, <2>1, CompleteIsShown DEF seen
  <2> QED
    BY <1>9, <1>10, <1>15, <2>2
<1>16. UNCHANGED run
  BY <1>13 DEF vars
<1>17. ReadWhole'
  BY <1>2, <1>12, <1>14, <1>15, <1>16 DEF ReadWhole, NoneForced, Stored, EventsOf
<1>18. broker' \in [day : Nat, confirmed : BOOLEAN, updatedAt : Nat]
  BY <1>13 DEF CiteShape
<1> QED
  BY <1>2, <1>12, <1>13, <1>17, <1>18, AskGoes

LEMMA AskReceiptKeepsCitations ==
  ASSUME CalendarInv, CitationsIInv, AskReceipt
  PROVE  CitationsIInv'
<1> USE DEF CitationsIInv
<1> DEFINE state == IF receipt.status = "none" THEN "unsearched"
                    ELSE IF receipt.status = "running" /\ receipt.ranAt + Budget <= ask.now THEN "failed"
                    ELSE receipt.status
           a == [ask EXCEPT !.step = "told", !.state = state]
<1>1. ask' = a /\ ask.step = "rows" /\ UNCHANGED <<vars, web, edited, dig, cite, member, recorded, broker>>
  BY DEF AskReceipt
<1>2. ask \in AskRecord /\ receipt.status \in {"none", "running", "complete", "failed"}
  BY DEF CiteShape, CalendarInv, TypeOK
<1>3. state \in {"none", "unsearched", "running", "complete", "failed"}
  BY <1>2
<1> HIDE DEF state
<1>4. /\ a \in AskRecord /\ a.step = "told" /\ a.horizon = ask.horizon /\ a.seen = ask.seen
      /\ a.finished = ask.finished /\ a.current = ask.current /\ a.rows = ask.rows
      /\ a.truncated = ask.truncated
  BY <1>2, <1>3 DEF AskRecord
<1> HIDE DEF a
<1>5. UNCHANGED run
  BY <1>1 DEF vars
<1>6. ReadStands'
  BY <1>1, <1>4 DEF ReadWhole, ReadStands, EventsOf, Outranks
<1>7. ReadWhole'
  BY <1>1, <1>4, <1>5, <1>6 DEF ReadWhole, NoneForced, Stored, EventsOf
<1>8. broker' \in [day : Nat, confirmed : BOOLEAN, updatedAt : Nat]
  BY <1>1 DEF CiteShape
<1> QED
  BY <1>1, <1>4, <1>7, <1>8, AskGoes

LEMMA BrokerKeepsCitations ==
  ASSUME CitationsIInv, BrokerAnswers
  PROVE  CitationsIInv'
<1> USE DEF CitationsIInv
<1>1. PICK e \in Events, confirmed \in BOOLEAN, at \in 0..1 :
        broker' = IF Kind[e] = Earnings THEN [day |-> Day[e], confirmed |-> confirmed, updatedAt |-> at]
                  ELSE NoBrokerRow
  BY DEF BrokerAnswers
<1>2. Day[e] \in Nat /\ at \in Nat
  BY CitationsAssumption
<1>3. broker' \in [day : Nat, confirmed : BOOLEAN, updatedAt : Nat]
  BY <1>1, <1>2 DEF NoBrokerRow
<1>4. UNCHANGED <<vars, web, edited, dig, cite, member, recorded, ask>>
  BY DEF BrokerAnswers
<1>5. StoredStand /\ ask.seen \in Runs \cup {NoRun} /\ ask' \in AskRecord
  BY <1>4 DEF vars, StoredStand, NoneForced, CiteShape, AskRecord
<1>6. ReadWhole'
  BY <1>4, <1>5, ReadStays
<1> QED
  BY <1>3, <1>4, <1>5, <1>6, AskGoes

LEMMA EditKeepsCitations ==
  ASSUME CitationsIInv, Edit
  PROVE  CitationsIInv'
<1> USE DEF CitationsIInv
<1>1. UNCHANGED <<vars, dig, cite, member, recorded, broker, ask>> /\ edited' = TRUE
  BY DEF Edit
<1>2. web' \in [Pages -> Texts]
  BY DEF Edit, CiteShape
<1>3. CiteShape'
  BY <1>1, <1>2 DEF CiteShape
<1>4. UNCHANGED <<rows, run>>
  BY <1>1 DEF vars
<1>5. StoredStand /\ RecordedStored' /\ ask.seen \in Runs \cup {NoRun}
  BY <1>4 DEF StoredStand, NoneForced, RecordedStored, CiteShape, AskRecord
<1>6. RowsCited'
  BY <1>1, <1>4, <1>5, RowsStayCited
<1>7. MemberCited'
  BY <1>1, MemberStays
<1>8. ReadWhole'
  BY <1>1, <1>5, ReadStays
<1> QED
  BY <1>3, <1>5, <1>6, <1>7, <1>8

(***************************************************************************)
(* Together                                                                *)
(***************************************************************************)

LEMMA StepCitationsIInv ==
  ASSUME CalendarInv, AttentionInv, CitationsIInv, [CitationsNext]_citeVars
  PROVE  CitationsIInv'
<1>1. [Next]_vars
  BY StepOfRuns
<1>2. StoredStand /\ RecordedStored'
  BY <1>1, RunsStand DEF CitationsIInv
<1>3. ASSUME NEW r \in Runs, SearchStep(r) PROVE CitationsIInv'
  <2>1. CASE BeginRun(r) \/ SearchMissing(r) \/ EndRun(r)
    <3>1. UNCHANGED <<rows, dig, citesOnly>>
      BY <2>1 DEF BeginRun, Start, Claim, Refused, SearchMissing, SearchFails, EndRun, PersistFails,
                  RecordComplete, RecordCompleteFails, RecordFailed, Record, Dies
    <3> QED
      BY <1>2, <3>1, RunKeepsCitations
  <2>2. CASE SearchReturns(r)
    BY <1>2, <2>2, ReturnKeepsCitations
  <2>3. CASE \E p \in Pages : SearchReads(r, p)
    BY <1>2, <2>3, SearchReadKeepsCitations
  <2>4. CASE SearchBinds(r)
    BY <1>2, <2>4, BindKeepsCitations
  <2>5. CASE SearchPersists(r)
    BY <1>2, <2>5, PersistKeepsCitations
  <2> QED
    BY <1>3, <2>1, <2>2, <2>3, <2>4, <2>5 DEF SearchStep
<1>4. CASE Later \/ UNCHANGED citeVars
  <2>1. UNCHANGED <<rows, dig, citesOnly>>
    BY <1>4 DEF Later, Tick, citeVars, vars, citesOnly
  <2> QED
    BY <1>2, <2>1, RunKeepsCitations
<1> QED
  BY <1>3, <1>4, MemberBeginKeepsCitations, MemberReadKeepsCitations, MemberRejectKeepsCitations,
     MemberWriteKeepsCitations, AskRowsKeepsCitations, AskReceiptKeepsCitations, BrokerKeepsCitations,
     EditKeepsCitations DEF CitationsNext

\* Each bound row cites a page its own run read after it began and that stated its date;
\* a member's recording is kept whole or not at all; an agent reads of each event the
\* sighting that stands, the nearest first, and is told of what is left out; and told that
\* an unforced search is complete it has what that search bound (bindCatalystCandidates,
\* recordResearchCatalysts, readCatalysts).
THEOREM CitationsHold == CitationsSpec => []CitationsInv
<1>1. CitationsInit => Init /\ CitationsIInv
  BY InitCitationsIInv DEF CitationsInit
<1>2. [CitationsNext]_citeVars => [Next]_vars
  BY StepOfRuns
<1>3. CitationsSpec => Spec
  BY <1>1, <1>2, PTL DEF CitationsSpec, Spec
<1>4. CitationsSpec => []CalendarInv /\ []AttentionInv
  BY <1>3, CalendarInvHolds, AttentionInvHolds, PTL
<1>5. CalendarInv /\ AttentionInv /\ CitationsIInv /\ [CitationsNext]_citeVars => CitationsIInv'
  BY StepCitationsIInv
<1>6. CalendarInv /\ CitationsIInv => CitationsInv
  BY CitationsIInvGives
<1> QED
  BY <1>1, <1>4, <1>5, <1>6, PTL DEF CitationsSpec
==============================================================================
