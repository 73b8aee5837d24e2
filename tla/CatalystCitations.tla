-------------------------- MODULE CatalystCitations ---------------------------
(***************************************************************************)
(* Where the calendar's dates come from.  A search (CatalystRuns gives its *)
(* receipt and its rows) and a member's agent both submit what a model     *)
(* wrote; the Worker reads each cited page through its own browser and     *)
(* keeps an event only if the text it read states the date.  The broker's  *)
(* earnings row joins them.  An agent then reads the calendar, folded to   *)
(* one row for an event, and asks next how the search stands.              *)
(*                                                                         *)
(* One symbol and one market day: every date counts from today, 1.         *)
(***************************************************************************)
EXTENDS CatalystRuns, Sequences, FiniteSets

CONSTANTS
  Day,          \* the date of an event; kinds are numbers in alphabetical order
  Earnings,     \* the kind of the broker's row
  Horizon,      \* CATALYST_HORIZON_DAYS
  MaxCatalysts, \* MAX_CATALYSTS, the events one read returns
  Pages, NoPage,
  Addresses,    \* addresses a model may cite
  PageOf,       \* citedPageKey: the page of an address, NoPage where it is not citable
  Texts,        \* what a page may state of each day
  Findings,     \* answers of the search: the events, and the addresses it returned
  Recordings    \* what a member's agent submits: a sequence of events with their addresses

Days == {Day[e] : e \in Events}

\* How a page can mention a day: nowhere, with its year, as a month and a day with
\* no year beside them, or with the year of another date.
Forms == {"absent", "dated", "yearless", "otherYear"}

\* An event as a model submits it.
Submission == [event : Events, address : Addresses]

\* An event is its kind and its day.
ASSUME CitationsAssumption ==
  /\ NoPage \notin Pages /\ PageOf \in [Addresses -> Pages \cup {NoPage}]
  /\ IsFiniteSet(Events) /\ Kind \in [Events -> Nat] /\ Day \in [Events -> Nat \ {0}]
  /\ \A e, f \in Events : Kind[e] = Kind[f] /\ Day[e] = Day[f] => e = f
  /\ Horizon \in Nat \ {0} /\ MaxCatalysts \in Nat \ {0}
  /\ Texts \subseteq [Days -> Forms]
  /\ Findings \subseteq [events : Seq(Submission), returned : SUBSET Addresses]
  /\ Recordings \subseteq Seq(Submission)

VARIABLES
  web,      \* what each page states now
  edited,   \* bound: one edit of a page
  dig,      \* of a search: what it found and the pages it has read
  cite,     \* the page a row of the search cites, and the run that wrote it
  member,   \* the recording of a member's agent
  recorded, \* its rows: of an event the page and the instant, or nothing
  broker,   \* the broker's earnings row
  ask       \* an agent's read of the calendar

citeVars == <<vars, web, edited, dig, cite, member, recorded, broker, ask>>

NoText == [d \in Days |-> "absent"]
Unread == [of |-> "unread", states |-> NoText]
Unopened == [of |-> "unopened", states |-> NoText]
NoDig == [phase |-> "none", events |-> <<>>, toRead |-> {}, pages |-> [p \in Pages |-> Unread]]
Unrecorded == [page |-> NoPage, now |-> 0]
NoBrokerRow == [day |-> 0, confirmed |-> FALSE, updatedAt |-> 0]
NoAsk == [step |-> "idle", now |-> 0, horizon |-> 0, seen |-> NoRun, finished |-> FALSE,
          current |-> {}, rows |-> {}, truncated |-> FALSE, state |-> "none"]

CitationsInit ==
  /\ Init
  /\ web \in [Pages -> Texts] /\ edited = FALSE
  /\ dig = [r \in Runs |-> NoDig]
  /\ cite = [e \in Events |-> [page |-> NoPage, by |-> NoRun]]
  /\ member = [step |-> "idle", now |-> 0, events |-> <<>>, toRead |-> {},
               pages |-> [p \in Pages |-> Unread]]
  /\ recorded = [e \in Events |-> Unrecorded]
  /\ broker = NoBrokerRow
  /\ ask = NoAsk

Edit ==
  /\ ~edited /\ edited' = TRUE
  /\ \E p \in Pages, t \in Texts : web' = [web EXCEPT ![p] = t]
  /\ UNCHANGED <<vars, dig, cite, member, recorded, broker, ask>>

(***************************************************************************)
(* Reading a page and binding an event to it                               *)
(***************************************************************************)

\* What a text cut at its length has left: the page's days lie past the cut, or it falls
\* between a day and its year.
Cuts(t) == {NoText, [d \in Days |-> IF t[d] = "absent" THEN "absent" ELSE "yearless"]}

\* readResearchPageMarkdown: the text, a text cut at its length, or nothing.
PageReads(p) ==
  {Unopened, [of |-> "whole", states |-> web[p]]} \cup {[of |-> "part", states |-> t] : t \in Cuts(web[p])}

\* textMentionsDateWithinHorizon, of a date inside the horizon.
States(page, d) == page.states[d] \in {"dated", "yearless"}

Ahead(d) == d \in 1..(1 + Horizon)

\* Mutant: a page that was not read vouches for what it is cited for.
BindUnread(c, pages) ==
  /\ PageOf[c.address] # NoPage /\ Ahead(Day[c.event])
  /\ pages[PageOf[c.address]].of = "unread" \/ States(pages[PageOf[c.address]], Day[c.event])

\* bindCatalystCandidates, for one event: read on this run, ahead, and on the page.
Binds(c, pages) ==
  /\ PageOf[c.address] # NoPage /\ pages[PageOf[c.address]].of \in {"whole", "part"}
  /\ Ahead(Day[c.event]) /\ States(pages[PageOf[c.address]], Day[c.event])

\* The positions it accepts: a second sighting of an event is refused.
Bound(events, pages) ==
  {i \in DOMAIN events :
     /\ Binds(events[i], pages)
     /\ \A j \in 1..(i - 1) : events[j].event = events[i].event => ~Binds(events[j], pages)}

BoundEvents(events, pages) == {events[i].event : i \in Bound(events, pages)}

PageFor(e, events, pages) ==
  PageOf[events[CHOOSE i \in Bound(events, pages) : events[i].event = e].address]

Cited(events) == {PageOf[events[i].address] : i \in DOMAIN events} \ {NoPage}

(***************************************************************************)
(* runExaCatalystSearch                                                    *)
(***************************************************************************)

citesOnly == <<web, edited, cite, member, recorded, broker, ask>>

\* attemptCatalystRefresh around the search.
BeginRun(r) == (Start(r) \/ Claim(r) \/ Refused(r)) /\ UNCHANGED <<dig, citesOnly>>

\* No browser, no answer, or an answer without its events: the run fails.
SearchMissing(r) == dig[r].phase = "none" /\ SearchFails(r) /\ UNCHANGED <<dig, citesOnly>>

\* The pages an event cites and the search returned will be read.
SearchReturns(r) ==
  /\ run[r].step = "searching" /\ dig[r].phase = "none"
  /\ \E f \in Findings :
       dig' = [dig EXCEPT ![r] = [@ EXCEPT !.phase = "reading", !.events = f.events,
                 !.toRead = Cited(f.events) \cap {PageOf[a] : a \in f.returned}]]
  /\ UNCHANGED <<vars, citesOnly>>

\* The reads run at once; each ends on its own.
SearchReads(r, p) ==
  /\ run[r].step = "searching" /\ p \in dig[r].toRead
  /\ \E page \in PageReads(p) :
       dig' = [dig EXCEPT ![r] = [@ EXCEPT !.toRead = dig[r].toRead \ {p}, !.pages[p] = page]]
  /\ UNCHANGED <<vars, citesOnly>>

SearchBinds(r) ==
  /\ dig[r].phase = "reading" /\ dig[r].toRead = {} /\ SearchAnswers(r)
  /\ dig' = [dig EXCEPT ![r].phase = "bound"]
  /\ UNCHANGED citesOnly

\* Every event stands or falls on its own page: what bound is stored, if anything did.
SearchPersists(r) ==
  LET found == BoundEvents(dig[r].events, dig[r].pages)
      kept == {e \in found : run[r].now >= rows[e]}
  IN /\ Persist(r) /\ run'[r].reports = found
     /\ cite' = [e \in Events |->
                   IF e \in kept THEN [page |-> PageFor(e, dig[r].events, dig[r].pages), by |-> r]
                   ELSE cite[e]]
     /\ UNCHANGED <<web, edited, dig, member, recorded, broker, ask>>

EndRun(r) ==
  /\ PersistFails(r) \/ RecordComplete(r) \/ RecordCompleteFails(r) \/ RecordFailed(r) \/ Dies(r)
  /\ UNCHANGED <<dig, citesOnly>>

(***************************************************************************)
(* recordResearchCatalysts                                                 *)
(***************************************************************************)

aside == <<vars, web, edited, dig, cite, broker, ask>>

\* retainCitedPages: one address that is not citable refuses all before any is read.
MemberBegins ==
  /\ member.step = "idle" /\ clock <= MaxClock
  /\ \E s \in Recordings :
       member' = [member EXCEPT !.now = clock, !.events = s, !.toRead = Cited(s),
                    !.step = IF \A i \in DOMAIN s : PageOf[s[i].address] # NoPage
                             THEN "reading" ELSE "rejected"]
  /\ UNCHANGED <<aside, recorded>>

\* One page after another, the rest too when one does not open.
MemberReads ==
  /\ member.step = "reading"
  /\ \E p \in member.toRead : \E page \in PageReads(p) :
       member' = [member EXCEPT !.toRead = @ \ {p}, !.pages[p] = page]
  /\ UNCHANGED <<aside, recorded>>

AllOpened == \A p \in Cited(member.events) : member.pages[p].of # "unopened"

\* Every page opened, and every event is bound.
AllBind == AllOpened /\ Bound(member.events, member.pages) = DOMAIN member.events

MemberRejected ==
  /\ member.step = "reading" /\ member.toRead = {} /\ ~AllBind
  /\ member' = [member EXCEPT !.step = "rejected"]
  /\ UNCHANGED <<aside, recorded>>

\* One batch, whose answer may be lost; or it fails.
MemberWrites ==
  /\ member.step = "reading" /\ member.toRead = {} /\ AllBind
  /\ \/ /\ recorded' = [e \in Events |->
              IF e \in BoundEvents(member.events, member.pages) /\ member.now >= recorded[e].now
              THEN [page |-> PageFor(e, member.events, member.pages), now |-> member.now]
              ELSE recorded[e]]
        /\ \E step \in {"recorded", "lost"} : member' = [member EXCEPT !.step = step]
     \/ member' = [member EXCEPT !.step = "lost"] /\ UNCHANGED recorded
  /\ UNCHANGED aside

\* persistAndLoadCatalysts: the broker's word on the symbol's earnings, or that it has none.
BrokerAnswers ==
  /\ \E e \in Events, confirmed \in BOOLEAN, at \in 0..1 :
       broker' = IF Kind[e] = Earnings THEN [day |-> Day[e], confirmed |-> confirmed, updatedAt |-> at]
                 ELSE NoBrokerRow
  /\ UNCHANGED <<vars, web, edited, dig, cite, member, recorded, ask>>

(***************************************************************************)
(* readCatalysts                                                           *)
(***************************************************************************)

\* What every reader selects from: the search's latest sightings, each member's
\* rows and the broker's.  A row of a broker's date stands for the event it names.
Current ==
  {[by |-> "exa", event |-> e, confirmed |-> FALSE, at |-> rows[e]] : e \in Shown}
    \cup {[by |-> "member-research", event |-> e, confirmed |-> FALSE, at |-> recorded[e].now] :
            e \in {f \in Events : recorded[f] # Unrecorded}}
    \cup {[by |-> "tastytrade", event |-> e, confirmed |-> broker.confirmed, at |-> broker.updatedAt] :
            e \in {f \in Events : Kind[f] = Earnings /\ Day[f] = broker.day}}

EventsOf(S) == {x.event : x \in S}

Sooner(e, f) == Day[e] < Day[f] \/ (Day[e] = Day[f] /\ Kind[e] < Kind[f])

\* CALENDAR_EVENT_RANK: a dense rank, one number for an event however many saw it.
Rank(x, S) == 1 + Cardinality({e \in EventsOf(S) : Sooner(e, x.event)})

\* ORDER BY id: the producer's name comes first in it.
IdOrder ==
  [by \in {"exa", "member-research", "tastytrade"} |->
     IF by = "exa" THEN 1 ELSE IF by = "member-research" THEN 2 ELSE 3]

\* compareCatalystStanding: confirmed, then the more recent, then the id.
Outranks(x, y) ==
  IF x.confirmed # y.confirmed THEN x.confirmed
  ELSE IF x.at # y.at THEN x.at > y.at ELSE IdOrder[x.by] < IdOrder[y.by]

\* distinctCatalysts: of each event the sighting that stands.
Distinct(S) == {x \in S : \A y \in S : y.event = x.event => y = x \/ Outranks(x, y)}

\* The first statement: the rows up to the horizon, one event past the ceiling.
AskRows ==
  /\ ask.step = "idle"
  /\ \E h \in 1..Horizon :
       LET within == {x \in Current : Day[x.event] <= 1 + h}
           ranked == {x \in within : Rank(x, within) <= MaxCatalysts + 1}
       IN ask' = [ask EXCEPT !.step = "rows", !.now = clock, !.horizon = h,
                    !.seen = receipt.claimant, !.finished = receipt.status = "complete",
                    !.current = within,
                    !.rows = Distinct({x \in ranked : Rank(x, within) <= MaxCatalysts}),
                    !.truncated = \E x \in ranked : Rank(x, within) > MaxCatalysts]
  /\ UNCHANGED <<vars, web, edited, dig, cite, member, recorded, broker>>

\* The second: the receipt, and what it means by the instant of the read.
AskReceipt ==
  /\ ask.step = "rows"
  /\ ask' = [ask EXCEPT !.step = "told",
       !.state = IF receipt.status = "none" THEN "unsearched"
                 ELSE IF receipt.status = "running" /\ receipt.ranAt + Budget <= ask.now THEN "failed"
                 ELSE receipt.status]
  /\ UNCHANGED <<vars, web, edited, dig, cite, member, recorded, broker>>

(***************************************************************************)
(* The calendar's steps                                                    *)
(***************************************************************************)

Later == Tick /\ UNCHANGED <<dig, citesOnly>>

SearchStep(r) ==
  \/ BeginRun(r) \/ SearchMissing(r) \/ SearchReturns(r) \/ SearchBinds(r)
  \/ SearchPersists(r) \/ EndRun(r) \/ \E p \in Pages : SearchReads(r, p)

CitationsNext ==
  \/ \E r \in Runs : SearchStep(r)
  \/ MemberBegins \/ MemberReads \/ MemberRejected \/ MemberWrites
  \/ BrokerAnswers \/ AskRows \/ AskReceipt \/ Edit \/ Later

CitationsSpec == CitationsInit /\ [][CitationsNext]_citeVars

(***************************************************************************)
(* Properties                                                              *)
(***************************************************************************)

CitationsTypeOK ==
  /\ TypeOK /\ web \in [Pages -> Texts] /\ edited \in BOOLEAN
  /\ \A r \in Runs : dig[r].phase \in {"none", "reading", "bound"} /\ dig[r].toRead \subseteq Pages
  /\ \A e \in Events : cite[e].page \in Pages \cup {NoPage} /\ recorded[e].page \in Pages \cup {NoPage}
  /\ member.step \in {"idle", "reading", "rejected", "recorded", "lost"}
  /\ ask.state \in {"none", "unsearched", "running", "complete", "failed"}

\* Vouched for: the text was read, by whoever wrote the row, and has the day ahead.
Vouches(page, e) == page.of \in {"whole", "part"} /\ States(page, Day[e]) /\ Ahead(Day[e])

\* Nothing on the calendar rests on a model's word: each bound row cites a page that its
\* own run read after it began and that stated its date, though pages change, answers
\* are lost, and a superseded run writes late (bindCatalystCandidates).
DatesCited ==
  \A e \in Events :
    /\ rows[e] # 0 => LET r == cite[e].by
                      IN r # NoRun /\ run[r].now = rows[e] /\ Vouches(dig[r].pages[cite[e].page], e)
    /\ recorded[e] # Unrecorded => Vouches(member.pages[recorded[e].page], e)

SubmittedEvents == {member.events[i].event : i \in DOMAIN member.events}

\* A member's recording is kept whole or not at all; told it was recorded, all of it
\* is there, and told of a rejection, none is (recordResearchCatalysts).
RecordingWhole ==
  /\ {e \in Events : recorded[e] # Unrecorded} \in {{}, SubmittedEvents}
  /\ member.step = "recorded" => \A e \in SubmittedEvents : recorded[e] # Unrecorded
  /\ member.step = "rejected" => \A e \in Events : recorded[e] = Unrecorded

\* A read shows each event once, by the sighting that stands highest of all there are,
\* and what the ceiling leaves out is told of and lies no nearer than what it shows.
ReadStands ==
  ask.step # "idle" =>
    /\ \A x \in ask.rows, y \in ask.current :
         x.event = y.event => x = y \/ Outranks(x, y)
    /\ \A e, f \in EventsOf(ask.current) :
         e \in EventsOf(ask.rows) /\ f \notin EventsOf(ask.rows) => ask.truncated /\ Day[e] <= Day[f]
    /\ Cardinality(ask.rows) <= MaxCatalysts

\* Told that the search is complete, an agent that began to read after it had been has
\* every event that search bound up to the horizon, or is told there were more.  A forced
\* search can break it: it may share the stamp of the one it supersedes, which then closes
\* its receipt, or claim after one that began later, whose rows hide what it bound.
CompleteReadHasRows ==
  ask.step = "told" /\ ask.state = "complete" /\ ask.finished /\ ~ask.truncated /\ NoneForced =>
    /\ ask.seen \in Stored
    /\ {e \in run[ask.seen].reports : Day[e] <= 1 + ask.horizon} \subseteq EventsOf(ask.rows)

\* The calendar's dates and what is told of them, as the code keeps them.
CitationsInv == CitationsTypeOK /\ DatesCited /\ RecordingWhole /\ ReadStands /\ CompleteReadHasRows
==============================================================================
