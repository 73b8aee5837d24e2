---------------------------- MODULE SymbolEvidence -----------------------------
(***************************************************************************)
(* Evidence cards: a passage a member's agent quotes from a page, for every*)
(* reader of a symbol (symbol-evidence-tool.ts).  The Worker reads the page*)
(* itself and refuses a quote it does not find; a card is the passage, so  *)
(* recording it again refreshes the card that is there.                    *)
(*                                                                         *)
(* One symbol.  A quote is known by the words it normalizes to, and the    *)
(* note, the title and the byline of a card by the call that wrote them.   *)
(***************************************************************************)
EXTENDS Integers, FiniteSets

CONSTANTS
  Calls,        \* calls of record_evidence
  Author,       \* of a call: the member whose token it carries
  Sources,      \* pages
  Quotes,       \* passages as an agent may write them
  Words,        \* what passages normalize to
  WordsOf,      \* normalizedCitationText; NoWords of a quote that is markup alone
  NoWords,
  CardClock     \* bound: the last instant

ASSUME EvidenceAssumption ==
  /\ NoWords \notin Words /\ WordsOf \in [Quotes -> Words \cup {NoWords}]
  /\ CardClock \in Nat \ {0}

VARIABLES
  moment,
  text,       \* the words on each page now
  rewritten,  \* bound: one page changes
  call,       \* the calls, with the words they found on their page
  card,       \* of a page and words: its row of symbol_evidence
  first       \* of a page and words: the quote a reader was first shown

evidenceVars == <<moment, text, rewritten, call, card, first>>

Uncalled == [step |-> "idle", source |-> "none", quote |-> "none", now |-> 0, read |-> {}]
NoCard == [quote |-> "none", by |-> "none", at |-> 0]
Ids == Sources \X (Words \cup {NoWords})

EvidenceInit ==
  /\ moment = 1 /\ text \in [Sources -> SUBSET Words] /\ rewritten = FALSE
  /\ call = [c \in Calls |-> Uncalled]
  /\ card = [id \in Ids |-> NoCard] /\ first = [id \in Ids |-> "none"]

\* Mutant: nothing but markup is on every page.
FoundAnywhere(q, words) == WordsOf[q] = NoWords \/ WordsOf[q] \in words
\* quoteBindingRefusal: a quote has words, and the page has them.
FoundOn(q, words) == WordsOf[q] # NoWords /\ WordsOf[q] \in words

\* An address that is no page is refused before a read is spent on it.
CallBegins(c) ==
  /\ call[c].step = "idle"
  /\ \E s \in Sources, q \in Quotes, citable \in BOOLEAN :
       call' = [call EXCEPT ![c] = [step |-> IF citable THEN "reading" ELSE "rejected",
                                    source |-> s, quote |-> q, now |-> moment, read |-> {}]]
  /\ UNCHANGED <<moment, text, rewritten, card, first>>

\* The page as it is now, in part where the read was cut; or it does not open.
CallReads(c) ==
  /\ call[c].step = "reading"
  /\ \/ \E words \in SUBSET text[call[c].source] :
          call' = [call EXCEPT ![c].read = words,
                     ![c].step = IF FoundOn(call[c].quote, words) THEN "writing" ELSE "rejected"]
     \/ call' = [call EXCEPT ![c].step = "rejected"]
  /\ UNCHANGED <<moment, text, rewritten, card, first>>

\* upsertSymbolEvidence: a conflict updates everything but the passage.
Refreshed(old, c) ==
  [quote |-> IF old = NoCard THEN call[c].quote ELSE old.quote,
   by |-> c, at |-> call[c].now]

\* The answer may be lost after the row is written, or the row is not written.
CallWrites(c) ==
  /\ call[c].step = "writing"
  /\ \/ /\ LET id == <<call[c].source, WordsOf[call[c].quote]>> IN
            /\ card' = [card EXCEPT ![id] = Refreshed(@, c)]
            /\ first' = [first EXCEPT ![id] = IF card[id] = NoCard THEN call[c].quote ELSE @]
        /\ \E step \in {"recorded", "lost"} : call' = [call EXCEPT ![c].step = step]
     \/ call' = [call EXCEPT ![c].step = "lost"] /\ UNCHANGED <<card, first>>
  /\ UNCHANGED <<moment, text, rewritten>>

\* An agent that did not hear an answer asks the same again.
CallRetried(c) ==
  /\ \E d \in Calls : /\ call[c].step = "idle" /\ call[d].step = "lost" /\ Author[c] = Author[d]
                      /\ call' = [call EXCEPT ![c] = [step |-> "reading", source |-> call[d].source,
                                                       quote |-> call[d].quote, now |-> moment, read |-> {}]]
  /\ UNCHANGED <<moment, text, rewritten, card, first>>

PageRewritten ==
  /\ ~rewritten /\ rewritten' = TRUE
  /\ \E s \in Sources, words \in SUBSET Words : text' = [text EXCEPT ![s] = words]
  /\ UNCHANGED <<moment, call, card, first>>

MomentPasses ==
  /\ moment < CardClock /\ moment' = moment + 1
  /\ UNCHANGED <<text, rewritten, call, card, first>>

EvidenceNext ==
  \/ PageRewritten \/ MomentPasses
  \/ \E c \in Calls : CallBegins(c) \/ CallReads(c) \/ CallWrites(c) \/ CallRetried(c)

EvidenceSpec == EvidenceInit /\ [][EvidenceNext]_evidenceVars

(***************************************************************************)
(* Properties                                                              *)
(***************************************************************************)

Cards == {id \in Ids : card[id] # NoCard}

EvidenceTypeOK ==
  /\ moment \in 1..CardClock /\ text \in [Sources -> SUBSET Words]
  /\ \A c \in Calls : call[c].step \in {"idle", "reading", "rejected", "writing", "recorded", "lost"}

\* A card is its page's own words: whoever is shown to stand behind it now has read them there,
\* and the instant is of that same recording, though pages
\* change, recordings overtake each other and lost ones are made again (recordSymbolEvidence).
CardsQuoted ==
  \A id \in Cards :
    LET c == card[id].by IN
      /\ id = <<call[c].source, WordsOf[call[c].quote]>> /\ id[2] \in call[c].read
      /\ card[id].at = call[c].now

\* One passage is one card, and the quote a reader has seen is not reworded by a recording
\* that normalizes to it (symbolEvidenceId).
QuotesStand == \A id \in Cards : card[id].quote = first[id] /\ WordsOf[card[id].quote] = id[2]

\* An agent told that its passage was recorded has a card for it (recordSymbolEvidence).
RecordedHasCard ==
  \A c \in Calls : call[c].step = "recorded" => <<call[c].source, WordsOf[call[c].quote]>> \in Cards

EvidenceInv == EvidenceTypeOK /\ CardsQuoted /\ QuotesStand /\ RecordedHasCard
================================================================================
