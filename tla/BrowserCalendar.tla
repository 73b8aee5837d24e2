-------------------------- MODULE BrowserCalendar --------------------------
(***************************************************************************)
(* What a page knows of one symbol's catalysts: the rows it read, which it *)
(* keeps for the session, and the searches it asked for, which may change  *)
(* what the server has while a read is on its way (data/public-catalysts.ts, *)
(* data/catalyst-refresh.ts).  A read is answered by the browser's own     *)
(* HTTP cache, the edge or the server.                                     *)
(***************************************************************************)
EXTENDS Integers, FiniteSets

CONSTANTS
  ReadIds,      \* requests of rows that may be under way at once
  BrowserAge,   \* CATALYSTS_BROWSER_MAX_AGE_SECONDS
  EdgeAge,      \* CATALYSTS_EDGE_MAX_AGE_SECONDS
  MaxSearches   \* bound: searches that run

ASSUME CalendarAssumption ==
  /\ BrowserAge \in Nat \ {0} /\ EdgeAge \in Nat /\ BrowserAge <= EdgeAge /\ MaxSearches \in Nat

VARIABLES
  calendar,   \* the page's sets and maps for the symbol
  reads,      \* its requests of rows
  asks,       \* its requests of a search: the one a look makes, and the owner's
  ran,        \* searches that ran, which is the version of the server's rows
  copies      \* the browser's and the edge's copy of the rows

calendarVars == <<calendar, reads, asks, ran, copies>>

Asks == {"look", "owner"}
Unread == -1
Forever == BrowserAge + EdgeAge + 1
NoRead == [step |-> "off", ver |-> Unread, revision |-> 0]
NoAsk == [step |-> "off", outcome |-> "none", ver |-> 0]
NothingKept == [ver |-> Unread, age |-> Forever]
MaxAge == [browser |-> BrowserAge, edge |-> EdgeAge]

CalendarInit ==
  /\ calendar = [cache |-> Unread, of |-> 0, revision |-> 0, inflight |-> {},
                 asked |-> FALSE, ranEmpty |-> FALSE, searched |-> FALSE, failed |-> FALSE,
                 answer |-> "none"]
  /\ reads = [r \in ReadIds |-> NoRead] /\ asks = [a \in Asks |-> NoAsk]
  /\ ran = 0 /\ copies = [place \in {"browser", "edge"} |-> NothingKept]

(***************************************************************************)
(* Rows                                                                    *)
(***************************************************************************)

\* loadPublicCatalysts, with nothing cached and nothing under way.
Load(r) ==
  /\ reads[r].step = "off" /\ calendar.cache = Unread /\ calendar.inflight = {}
  /\ reads' = [reads EXCEPT ![r] = [NoRead EXCEPT !.step = "sent", !.revision = calendar.revision]]
  /\ calendar' = [calendar EXCEPT !.inflight = {r}]
  /\ UNCHANGED <<asks, ran, copies>>

FreshAt(place) == copies[place].age < MaxAge[place]

\* From the browser's copy, else the edge's, which the browser keeps with its age, else
\* the server's, which both keep.
Answer(r) ==
  /\ reads[r].step = "sent"
  /\ LET fetched == IF FreshAt("browser") THEN copies["browser"]
                    ELSE IF FreshAt("edge") THEN copies["edge"]
                    ELSE [ver |-> ran, age |-> 0]
     IN /\ reads' = [reads EXCEPT ![r].step = "answered", ![r].ver = fetched.ver]
        /\ copies' = [place \in {"browser", "edge"} |->
             IF FreshAt(place) THEN copies[place]
             ELSE IF place = "browser" THEN [fetched EXCEPT !.age = IF @ < BrowserAge THEN @ ELSE Forever]
             ELSE IF FreshAt("browser") THEN copies[place] ELSE fetched]
  /\ UNCHANGED <<calendar, asks, ran>>

\* Mutant: whichever request is answered is kept.
AnyRequest(r) == TRUE

\* current: only the request still registered settles the symbol.
Current(r) == r \in calendar.inflight

Settle(r) ==
  /\ reads[r].step = "answered"
  /\ calendar' = IF Current(r) THEN [calendar EXCEPT !.cache = reads[r].ver, !.of = reads[r].revision,
                                                     !.inflight = {}]
                 ELSE calendar
  /\ reads' = [reads EXCEPT ![r] = NoRead]
  /\ UNCHANGED <<asks, ran, copies>>

\* Refused, or nothing this bundle can parse: nothing is kept.
RowsFail(r) ==
  /\ reads[r].step \in {"sent", "answered"}
  /\ calendar' = IF r \in calendar.inflight THEN [calendar EXCEPT !.inflight = {}] ELSE calendar
  /\ reads' = [reads EXCEPT ![r] = NoRead]
  /\ UNCHANGED <<asks, ran, copies>>

(***************************************************************************)
(* Searches                                                                *)
(***************************************************************************)

\* seedCatalystSearch, forceCatalystSearch: one of each at a time.
Seek(a) ==
  /\ asks[a].step = "off" /\ (a = "look" => ~calendar.asked)
  /\ asks' = [asks EXCEPT ![a].step = "sent"]
  /\ calendar' = IF a = "look" THEN [calendar EXCEPT !.asked = TRUE] ELSE calendar
  /\ UNCHANGED <<reads, ran, copies>>

\* A search runs and binds something or nothing, is refused by its receipt, or fails.
Searched(a) ==
  /\ asks[a].step = "sent"
  /\ \/ /\ ran < MaxSearches /\ ran' = ran + 1
        /\ \E outcome \in {"bound", "empty"} :
             asks' = [asks EXCEPT ![a] = [step |-> "answered", outcome |-> outcome, ver |-> ran']]
     \/ /\ UNCHANGED ran
        /\ \E outcome \in {"refused", "failed"} :
             asks' = [asks EXCEPT ![a] = [step |-> "answered", outcome |-> outcome, ver |-> ran]]
  /\ UNCHANGED <<calendar, reads, copies>>

Ran(outcome) == outcome \in {"bound", "empty"}

\* forgetPublicCatalysts
Forgotten(c) == [c EXCEPT !.cache = Unread, !.inflight = {}, !.revision = @ + 1]

\* record
Record(a) ==
  /\ asks[a].step = "answered"
  /\ LET outcome == asks[a].outcome
         kept == IF Ran(outcome) THEN Forgotten(calendar) ELSE calendar
     IN /\ calendar' = [kept EXCEPT
             !.answer = IF outcome = "failed" THEN @ ELSE IF outcome = "bound" THEN "bound" ELSE "empty",
             !.searched = Ran(outcome), !.ranEmpty = outcome = "empty",
             !.failed = outcome = "failed", !.asked = @ /\ outcome # "failed"]
  /\ asks' = [asks EXCEPT ![a] = NoAsk]
  /\ UNCHANGED <<reads, ran, copies>>

Minute ==
  /\ copies' = [place \in {"browser", "edge"} |-> [copies[place] EXCEPT !.age = IF @ < Forever THEN @ + 1 ELSE @]]
  /\ UNCHANGED <<calendar, reads, asks, ran>>

CalendarNext ==
  \/ \E r \in ReadIds : Load(r) \/ Answer(r) \/ Settle(r) \/ RowsFail(r)
  \/ \E a \in Asks : Seek(a) \/ Searched(a) \/ Record(a)
  \/ Minute

CalendarSpec == CalendarInit /\ [][CalendarNext]_calendarVars

(***************************************************************************)
(* Properties                                                              *)
(***************************************************************************)

\* confirmedEmpty
ConfirmedEmpty == calendar.searched /\ calendar.answer # "bound"

\* The rows a page holds were asked for after the last search it recorded as run: a
\* read that such a search overtook neither fills the cache nor clears the newer read.
\* And a reader is told that nothing is coming by a search that ran and bound nothing,
\* and by no refusal or failure that came after it (forgetPublicCatalysts, record).
CalendarFollowsSearch ==
  /\ calendar.cache # Unread => calendar.of = calendar.revision
  /\ \A r \in calendar.inflight : reads[r].step # "off" /\ reads[r].revision = calendar.revision
  /\ ConfirmedEmpty => calendar.ranEmpty
=============================================================================
