--------------------------- MODULE ResearchProofs ---------------------------
(***************************************************************************)
(* For any number of pages, passages and recordings: a card is its page's  *)
(* own words, one passage is one card, and whoever was told of a recording *)
(* has one.  For any number of agents and names: no tool call buys more    *)
(* than its budget, and what it left was left for want of it.  For any     *)
(* rows, names and days: a ticker rebuilt from the store is the one told.  *)
(***************************************************************************)
EXTENDS SymbolEvidence, SymbolAttention, TickerReadings, FiniteSetTheorems, SequenceTheorems,
  WellFoundedInduction, TLAPS

(***************************************************************************)
(* Evidence cards                                                          *)
(***************************************************************************)

CallSteps == {"idle", "reading", "rejected", "writing", "recorded", "lost"}

\* A call that has begun names a page and a quote; one that is idle names nothing yet.
Call == [step : CallSteps, source : Sources, quote : Quotes, now : Nat \ {0}, read : SUBSET Words]

CardShape ==
  /\ moment \in 1..CardClock /\ text \in [Sources -> SUBSET Words]
  /\ DOMAIN call = Calls /\ DOMAIN card = Ids /\ DOMAIN first = Ids
  /\ \A c \in Calls : call[c] = Uncalled \/ (call[c] \in Call /\ call[c].step # "idle")

\* A call about to write has found its quote, and one that may have written keeps what it found.
Found(c) == FoundOn(call[c].quote, call[c].read)
WritersFound ==
  \A c \in Calls : call[c].step \in {"writing", "recorded"} => Found(c)

\* The call behind a card has written: nothing changes it any more.
CardsSettled ==
  \A id \in Cards :
    /\ card[id].by \in Calls /\ call[card[id].by].step \in {"recorded", "lost"}
    /\ Found(card[id].by)

EvidenceIInv ==
  /\ CardShape /\ WritersFound /\ CardsSettled /\ CardsQuoted /\ QuotesStand /\ RecordedHasCard

LEMMA EvidenceInitially == EvidenceInit => EvidenceIInv
  BY EvidenceAssumption
  DEF EvidenceInit, EvidenceIInv, CardShape, WritersFound, CardsSettled, CardsQuoted, QuotesStand,
      RecordedHasCard, Cards, Uncalled, Found

LEMMA EvidenceTypes == EvidenceIInv => EvidenceInv
  BY DEF EvidenceIInv, EvidenceInv, EvidenceTypeOK, CardShape, Call, CallSteps, Uncalled

\* What a step leaves alone keeps every card: it moves calls that stand behind none.
LEMMA CardsKept ==
  ASSUME EvidenceIInv, UNCHANGED <<card, first>>, DOMAIN call' = Calls,
         \A c \in Calls : call[c].step \in {"recorded", "lost"} => call'[c] = call[c],
         \A c \in Calls : call'[c].step \in {"recorded", "lost"} => call'[c].step = "lost" \/ call'[c] = call[c]
  PROVE  CardsSettled' /\ CardsQuoted' /\ QuotesStand' /\ RecordedHasCard'
<1>1. Cards' = Cards
  BY DEF Cards
<1>2. \A id \in Cards : card[id].by \in Calls /\ call'[card[id].by] = call[card[id].by]
  BY DEF EvidenceIInv, CardsSettled
<1>3. CardsSettled' /\ CardsQuoted' /\ QuotesStand'
  BY <1>1, <1>2 DEF EvidenceIInv, CardsSettled, CardsQuoted, QuotesStand, Found, FoundOn
<1>4. RecordedHasCard'
  BY <1>1 DEF EvidenceIInv, RecordedHasCard
<1> QED
  BY <1>3, <1>4

LEMMA BeginKeeps ==
  ASSUME EvidenceIInv, NEW c \in Calls, CallBegins(c)
  PROVE  EvidenceIInv'
<1>1. PICK s \in Sources, q \in Quotes, citable \in BOOLEAN :
        call' = [call EXCEPT ![c] = [step |-> IF citable THEN "reading" ELSE "rejected",
                                     source |-> s, quote |-> q, now |-> moment, read |-> {}]]
  BY DEF CallBegins
<1>2. /\ call[c].step = "idle" /\ DOMAIN call' = Calls
      /\ call'[c] \in Call /\ call'[c].step \in {"reading", "rejected"}
      /\ \A d \in Calls \ {c} : call'[d] = call[d]
  BY <1>1, EvidenceAssumption DEF EvidenceIInv, CardShape, Call, CallSteps, CallBegins
<1>3. CardShape'
  BY <1>2 DEF EvidenceIInv, CardShape, CallBegins
<1>4. WritersFound'
  BY <1>2 DEF EvidenceIInv, WritersFound, Found
<1>5. CardsSettled' /\ CardsQuoted' /\ QuotesStand' /\ RecordedHasCard'
  BY <1>2, CardsKept DEF CallBegins
<1> QED
  BY <1>3, <1>4, <1>5 DEF EvidenceIInv

LEMMA ReadKeeps ==
  ASSUME EvidenceIInv, NEW c \in Calls, CallReads(c)
  PROVE  EvidenceIInv'
<1>1. call[c] \in Call /\ call[c].step = "reading"
  BY DEF CallReads, EvidenceIInv, CardShape, Uncalled
<1>2. /\ DOMAIN call' = Calls /\ \A d \in Calls \ {c} : call'[d] = call[d]
      /\ call'[c] \in Call /\ call'[c].step \in {"writing", "rejected"}
      /\ call'[c].step = "writing" => Found(c)'
  <2>1. CASE call' = [call EXCEPT ![c].step = "rejected"]
    BY <1>1, <2>1 DEF EvidenceIInv, CardShape, Call, CallSteps
  <2>2. CASE \E words \in SUBSET text[call[c].source] :
               call' = [call EXCEPT ![c].read = words,
                          ![c].step = IF FoundOn(call[c].quote, words) THEN "writing" ELSE "rejected"]
    <3>1. PICK words \in SUBSET text[call[c].source] :
            call' = [call EXCEPT ![c].read = words,
                       ![c].step = IF FoundOn(call[c].quote, words) THEN "writing" ELSE "rejected"]
      BY <2>2
    <3>2. words \in SUBSET Words
      BY <1>1 DEF EvidenceIInv, CardShape, Call
    <3> QED
      BY <1>1, <3>1, <3>2 DEF EvidenceIInv, CardShape, Call, CallSteps, Found, FoundOn
  <2> QED
    BY <2>1, <2>2 DEF CallReads
<1>3. CardShape'
  BY <1>2 DEF EvidenceIInv, CardShape, CallReads
<1>4. WritersFound'
  BY <1>2 DEF EvidenceIInv, WritersFound, Found
<1>5. CardsSettled' /\ CardsQuoted' /\ QuotesStand' /\ RecordedHasCard'
  BY <1>1, <1>2, CardsKept DEF CallReads
<1> QED
  BY <1>3, <1>4, <1>5 DEF EvidenceIInv

LEMMA RetryKeeps ==
  ASSUME EvidenceIInv, NEW c \in Calls, CallRetried(c)
  PROVE  EvidenceIInv'
<1>1. PICK d \in Calls : /\ call[c].step = "idle" /\ call[d].step = "lost"
                         /\ call' = [call EXCEPT ![c] =
                              [step |-> "reading", source |-> call[d].source, quote |-> call[d].quote,
                               now |-> moment, read |-> {}]]
  BY DEF CallRetried
<1>2. call[d] \in Call
  BY <1>1 DEF EvidenceIInv, CardShape, Uncalled
<1>3. /\ DOMAIN call' = Calls /\ \A e \in Calls \ {c} : call'[e] = call[e]
      /\ call'[c] \in Call /\ call'[c].step = "reading"
  BY <1>1, <1>2, EvidenceAssumption DEF EvidenceIInv, CardShape, Call, CallSteps
<1>4. CardShape'
  BY <1>3 DEF EvidenceIInv, CardShape, CallRetried
<1>5. WritersFound'
  BY <1>3 DEF EvidenceIInv, WritersFound, Found
<1>6. CardsSettled' /\ CardsQuoted' /\ QuotesStand' /\ RecordedHasCard'
  BY <1>1, <1>3, CardsKept DEF CallRetried
<1> QED
  BY <1>4, <1>5, <1>6 DEF EvidenceIInv

LEMMA WriteKeeps ==
  ASSUME EvidenceIInv, NEW c \in Calls, CallWrites(c)
  PROVE  EvidenceIInv'
<1>1. call[c] \in Call /\ call[c].step = "writing" /\ Found(c)
  BY DEF CallWrites, EvidenceIInv, CardShape, Uncalled, WritersFound
<1>2. PICK step \in {"recorded", "lost"} : call' = [call EXCEPT ![c].step = step]
  BY DEF CallWrites
<1>3. /\ DOMAIN call' = Calls /\ \A d \in Calls \ {c} : call'[d] = call[d]
      /\ call'[c] \in Call /\ call'[c].step = step
      /\ call'[c].source = call[c].source /\ call'[c].quote = call[c].quote
      /\ call'[c].now = call[c].now /\ call'[c].read = call[c].read
  BY <1>1, <1>2 DEF EvidenceIInv, CardShape, Call, CallSteps
<1>4. WritersFound'
  BY <1>1, <1>3 DEF EvidenceIInv, WritersFound, Found
<1>5. CASE call' = [call EXCEPT ![c].step = "lost"] /\ UNCHANGED <<card, first>>
  <2>1. call'[c].step = "lost"
    BY <1>1, <1>3, <1>5 DEF EvidenceIInv, CardShape
  <2>2. CardShape'
    BY <1>3, <1>5, <2>1 DEF EvidenceIInv, CardShape, CallWrites
  <2>3. CardsSettled' /\ CardsQuoted' /\ QuotesStand' /\ RecordedHasCard'
    BY <1>1, <1>3, <1>5, <2>1, CardsKept
  <2> QED
    BY <1>4, <2>2, <2>3 DEF EvidenceIInv
<1> DEFINE id0 == <<call[c].source, WordsOf[call[c].quote]>>
<1>6. CASE /\ card' = [card EXCEPT ![id0] = Refreshed(@, c)]
           /\ first' = [first EXCEPT ![id0] = IF card[id0] = NoCard THEN call[c].quote ELSE @]
  <2>1. id0 \in Ids /\ id0[2] \in call[c].read
    BY <1>1, EvidenceAssumption DEF Call, Ids, Found, FoundOn
  <2>2. CardShape'
    BY <1>3, <1>6 DEF EvidenceIInv, CardShape, CallWrites
  <2>3. /\ card'[id0].by = c /\ card'[id0].at = call[c].now
        /\ card'[id0].quote = IF card[id0] = NoCard THEN call[c].quote ELSE card[id0].quote
        /\ first'[id0] = IF card[id0] = NoCard THEN call[c].quote ELSE first[id0]
        /\ \A id \in Ids \ {id0} : card'[id] = card[id] /\ first'[id] = first[id]
    BY <1>6, <2>1 DEF EvidenceIInv, CardShape, Refreshed
  <2>4. Cards' = Cards \cup {id0}
    BY <1>1, <2>1, <2>3 DEF Cards, NoCard, Call
  <2>5. \A id \in Cards \ {id0} : card[id].by \in Calls /\ call'[card[id].by] = call[card[id].by]
    BY <1>1, <1>3 DEF EvidenceIInv, CardsSettled
  <2>6. \A id \in Cards \ {id0} : id \in Ids
    BY DEF Cards
  <2>7. CardsSettled'
    BY <1>1, <1>3, <2>3, <2>4, <2>5, <2>6 DEF EvidenceIInv, CardsSettled, Found
  <2>8. CardsQuoted'
    BY <1>1, <1>3, <2>1, <2>3, <2>4, <2>5, <2>6 DEF EvidenceIInv, CardsQuoted
  <2>9. QuotesStand'
    BY <2>1, <2>3, <2>4, <2>6 DEF EvidenceIInv, QuotesStand, Cards
  <2>10. RecordedHasCard'
    BY <1>3, <2>4 DEF EvidenceIInv, RecordedHasCard
  <2> QED
    BY <1>4, <2>2, <2>7, <2>8, <2>9, <2>10 DEF EvidenceIInv
<1> QED
  BY <1>5, <1>6 DEF CallWrites

LEMMA PassingKeeps ==
  ASSUME EvidenceIInv, PageRewritten \/ MomentPasses \/ UNCHANGED evidenceVars
  PROVE  EvidenceIInv'
<1>1. CardShape'
  <2>1. CASE PageRewritten
    BY <2>1 DEF EvidenceIInv, CardShape, PageRewritten
  <2>2. CASE MomentPasses
    BY <2>2, EvidenceAssumption DEF EvidenceIInv, CardShape, MomentPasses
  <2>3. CASE UNCHANGED evidenceVars
    BY <2>3 DEF EvidenceIInv, CardShape, evidenceVars
  <2> QED
    BY <2>1, <2>2, <2>3
<1>2. UNCHANGED <<call, card, first>>
  BY DEF PageRewritten, MomentPasses, evidenceVars
<1>3. WritersFound' /\ CardsSettled' /\ CardsQuoted' /\ QuotesStand' /\ RecordedHasCard'
  BY <1>2 DEF EvidenceIInv, WritersFound, CardsSettled, CardsQuoted, QuotesStand, RecordedHasCard,
              Found, FoundOn, Cards
<1> QED
  BY <1>1, <1>3 DEF EvidenceIInv

\* A card is its page's words, once, in the quote that was first shown, and whoever was told
\* of a recording has its card: for any number of recordings, whatever is lost, retried,
\* overtaken or rewritten on the way (recordSymbolEvidence, upsertSymbolEvidence).
THEOREM EvidenceHolds == EvidenceSpec => []EvidenceInv
<1>1. EvidenceInit => EvidenceIInv
  BY EvidenceInitially
<1>2. EvidenceIInv /\ [EvidenceNext]_evidenceVars => EvidenceIInv'
  <2> SUFFICES ASSUME EvidenceIInv, [EvidenceNext]_evidenceVars PROVE EvidenceIInv'
    OBVIOUS
  <2> QED
    BY BeginKeeps, ReadKeeps, WriteKeeps, RetryKeeps, PassingKeeps DEF EvidenceNext
<1> QED
  BY <1>1, <1>2, EvidenceTypes, PTL DEF EvidenceSpec

(***************************************************************************)
(* The searches an agent's calls buy                                       *)
(***************************************************************************)

Visit == [step : {"idle", "visiting", "done", "cut"}, words : Seq(STRING), left : SUBSET Nat,
          searches : Nat]

\* A receipt names the call that claimed it, and no more.
VisitShape ==
  /\ visit \in [ToolCalls -> Visit]
  /\ \A c \in ToolCalls : visit[c].left \subseteq NamedSymbols(visit[c].words)
  /\ DOMAIN receipts = Tickers
  /\ \A s \in Tickers : receipts[s] = {} \/ \E c \in ToolCalls : receipts[s] = {c}
  /\ DOMAIN threw = ToolCalls

\* What a call has spent its budget on.
Paid(c) == Bought(c) \cup threw[c]

\* The count is what was paid, and every name behind the call has been seen to.
CallSpend(c) ==
  /\ Paid(c) \subseteq Named(c) /\ IsFiniteSet(Paid(c)) /\ Cardinality(Paid(c)) <= MaxSearches
  /\ visit[c].step = "idle" => Paid(c) = {}
  /\ visit[c].step \in {"visiting", "done"} =>
       /\ visit[c].searches = Cardinality(Paid(c))
       /\ \A i \in NamedSymbols(visit[c].words) \ visit[c].left :
            LET s == visit[c].words[i] IN s \in Untracked \/ receipts[s] # {} \/ s \in threw[c]
  /\ visit[c].step = "visiting" => \A i \in visit[c].left : visit[c].words[i] \notin Paid(c)
  /\ visit[c].step = "done" => visit[c].searches >= MaxSearches \/ visit[c].left = {}

SpendIInv == VisitShape /\ \A c \in ToolCalls : CallSpend(c)

LEMMA PlaceFound ==
  ASSUME NEW T \in SUBSET Nat, T # {}
  PROVE  \E i \in T : \A j \in T : i <= j
<1> DEFINE R == {ss \in Nat \X Nat : ss[1] < ss[2]}
<1>1. IsWellFoundedOn(R, Nat)
  BY NatLessThanWellFounded DEF OpToRel
<1>2. \A i, j \in Nat : <<i, j>> \in R <=> i < j
  OBVIOUS
<1> HIDE DEF R
<1>3. PICK i \in T : \A j \in T : <<j, i>> \notin R
  BY <1>1, WFMin
<1>4. \A j \in T : i \in Nat /\ j \in Nat /\ ~(j < i)
  BY <1>2, <1>3
<1>5. \A j \in T : i <= j
  BY <1>4
<1> QED
  BY <1>5

\* One place for a ticker.
LEMMA PlacesDiffer ==
  ASSUME NEW words \in Seq(STRING), NEW i \in NamedSymbols(words), NEW j \in NamedSymbols(words),
         words[i] = words[j]
  PROVE  i = j
<1>1. i \in 1..Len(words) /\ j \in 1..Len(words) /\ Len(words) \in Nat
  BY LenProperties DEF NamedSymbols
<1>2. ~(i < j) /\ ~(j < i)
  BY <1>1 DEF NamedSymbols
<1> QED
  BY <1>1, <1>2

LEMMA SpendInitially == AttentionInit => SpendIInv
<1> SUFFICES ASSUME AttentionInit PROVE SpendIInv
  OBVIOUS
<1>1. VisitShape
  BY EmptySeq DEF AttentionInit, VisitShape, Visit
<1>2. ASSUME NEW c \in ToolCalls PROVE CallSpend(c)
  <2>1. Paid(c) = {} /\ visit[c].step = "idle"
    BY DEF AttentionInit, Paid, Bought
  <2> QED
    BY <2>1, FS_EmptySet, AttentionAssumption DEF CallSpend
<1> QED
  BY <1>1, <1>2 DEF SpendIInv

LEMMA SpendImplies == SpendIInv => SpendInv
<1> SUFFICES ASSUME SpendIInv PROVE SpendInv
  OBVIOUS
<1>1. ASSUME NEW s \in Tickers PROVE Cardinality(receipts[s]) <= 1
  <2>1. CASE receipts[s] = {}
    <3>1. Cardinality(receipts[s]) = 0
      BY <2>1, FS_EmptySet
    <3> QED
      BY <3>1
  <2>2. CASE \E c \in ToolCalls : receipts[s] = {c}
    <3>1. Cardinality(receipts[s]) = 1
      BY <2>2, FS_Singleton
    <3> QED
      BY <3>1
  <2> QED
    BY <2>1, <2>2 DEF SpendIInv, VisitShape
<1>2. ASSUME NEW c \in ToolCalls
      PROVE  /\ Cardinality(Bought(c)) <= MaxSearches /\ Bought(c) \subseteq Named(c)
             /\ visit[c].step = "done" =>
                  \/ Cardinality(Bought(c) \cup threw[c]) = MaxSearches
                  \/ \A s \in Named(c) \ Untracked : receipts[s] # {} \/ s \in threw[c]
  <2>1. CallSpend(c) /\ visit[c] \in Visit
    BY DEF SpendIInv, VisitShape
  <2>2. Bought(c) \in SUBSET Paid(c)
    BY DEF Paid
  <2>3. /\ IsFiniteSet(Bought(c)) /\ Cardinality(Bought(c)) <= Cardinality(Paid(c))
        /\ Cardinality(Bought(c)) \in Nat /\ Cardinality(Paid(c)) \in Nat
    BY <2>1, <2>2, FS_Subset, FS_CardinalityType DEF CallSpend
  <2>4. Cardinality(Bought(c)) <= MaxSearches /\ Bought(c) \subseteq Named(c)
    BY <2>1, <2>2, <2>3, AttentionAssumption DEF CallSpend
  <2>5. ASSUME visit[c].step = "done", visit[c].searches >= MaxSearches
        PROVE  Cardinality(Paid(c)) = MaxSearches
    BY <2>1, <2>3, <2>5, AttentionAssumption DEF CallSpend
  <2>6. ASSUME visit[c].step = "done", visit[c].left = {}, NEW s \in Named(c) \ Untracked
        PROVE  receipts[s] # {} \/ s \in threw[c]
    <3>1. PICK i \in NamedSymbols(visit[c].words) : s = visit[c].words[i]
      BY DEF Named
    <3> QED
      BY <2>1, <2>6, <3>1 DEF CallSpend
  <2>7. visit[c].step = "done" => visit[c].searches >= MaxSearches \/ visit[c].left = {}
    BY <2>1 DEF CallSpend
  <2> QED
    BY <2>4, <2>5, <2>6, <2>7 DEF Paid
<1> QED
  BY <1>1, <1>2 DEF SpendInv, AttentionSpent

\* One call claims at most one name, that nobody had claimed, and every other call stands.
Claim(c, s) == receipts[s] = {} /\ receipts' = [receipts EXCEPT ![s] = {c}]

LEMMA OthersStand ==
  ASSUME SpendIInv, NEW c \in ToolCalls, NEW s \in Tickers, UNCHANGED receipts \/ Claim(c, s),
         NEW d \in ToolCalls \ {c}, visit'[d] = visit[d], threw'[d] = threw[d]
  PROVE  CallSpend(d)'
<1>1. CallSpend(d)
  BY DEF SpendIInv
<1>2. \A r \in Tickers : (d \in receipts'[r] <=> d \in receipts[r]) /\ (receipts[r] # {} => receipts'[r] # {})
  BY DEF SpendIInv, VisitShape, Claim
<1>3. Bought(d)' = Bought(d) /\ Paid(d)' = Paid(d) /\ Named(d)' = Named(d)
  BY <1>2 DEF Bought, Paid, Named, NamedSymbols
<1>4. \A i \in NamedSymbols(visit[d].words) : visit[d].words[i] \in Tickers
  BY DEF NamedSymbols
<1> QED
  BY <1>1, <1>2, <1>3, <1>4 DEF CallSpend, NamedSymbols

\* The receipts stay one call's each.
LEMMA ReceiptsKept ==
  ASSUME SpendIInv, NEW c \in ToolCalls, NEW s \in Tickers, UNCHANGED receipts \/ Claim(c, s)
  PROVE  /\ DOMAIN receipts' = Tickers
         /\ \A r \in Tickers : receipts'[r] = {} \/ \E d \in ToolCalls : receipts'[r] = {d}
BY DEF SpendIInv, VisitShape, Claim

LEMMA NotesKeeps ==
  ASSUME SpendIInv, NEW c \in ToolCalls, Notes(c)
  PROVE  SpendIInv'
<1>1. PICK words \in Seq(STRING) :
        visit' = [visit EXCEPT ![c] = [step |-> "visiting", words |-> words,
                                       left |-> NamedSymbols(words), searches |-> 0]]
  BY AttentionAssumption, EmptySeq DEF Notes
<1>2. NamedSymbols(words) \in SUBSET Nat
  BY LenProperties DEF NamedSymbols
<1>3. /\ visit' \in [ToolCalls -> Visit] /\ UNCHANGED <<receipts, threw>>
      /\ visit'[c] = [step |-> "visiting", words |-> words, left |-> NamedSymbols(words), searches |-> 0]
      /\ \A d \in ToolCalls \ {c} : visit'[d] = visit[d]
  BY <1>1, <1>2 DEF SpendIInv, VisitShape, Visit, Notes
<1>4. VisitShape'
  BY <1>3 DEF SpendIInv, VisitShape, NamedSymbols
<1>5. CallSpend(c)'
  <2>1. Paid(c) = {} /\ Paid(c)' = {}
    BY <1>3 DEF SpendIInv, CallSpend, Notes, Paid, Bought
  <2> QED
    BY <1>3, <2>1, FS_EmptySet, AttentionAssumption DEF CallSpend, NamedSymbols
<1>6. ASSUME NEW d \in ToolCalls \ {c} PROVE CallSpend(d)'
  <2>1. CallSpend(d) /\ Paid(d)' = Paid(d) /\ Named(d)' = Named(d)
    BY <1>3 DEF SpendIInv, Paid, Bought, Named, NamedSymbols
  <2> QED
    BY <1>3, <2>1 DEF CallSpend, NamedSymbols
<1> QED
  BY <1>4, <1>5, <1>6 DEF SpendIInv

\* The name in turn is a ticker at a place of its own, and nothing was paid for it.
LEMMA NameNextFound ==
  ASSUME SpendIInv, NEW c \in ToolCalls, Going(c)
  PROVE  /\ Place(c) \in visit[c].left /\ Place(c) \in NamedSymbols(visit[c].words)
         /\ NameNext(c) \in Tickers /\ NameNext(c) \in Named(c) /\ NameNext(c) \notin Paid(c)
         /\ \A i \in NamedSymbols(visit[c].words) \ {Place(c)} : visit[c].words[i] # NameNext(c)
<1>1. visit[c] \in Visit /\ visit[c].left \subseteq NamedSymbols(visit[c].words)
  BY DEF SpendIInv, VisitShape
<1>2. Place(c) \in visit[c].left
  BY <1>1, PlaceFound DEF Going, Place, Visit
<1>3. NameNext(c) = visit[c].words[Place(c)] /\ visit[c].words \in Seq(STRING)
  BY <1>1 DEF NameNext, Visit
<1>4. NameNext(c) \in Tickers /\ NameNext(c) \in Named(c)
  BY <1>1, <1>2, <1>3 DEF Named, NamedSymbols
<1>5. NameNext(c) \notin Paid(c)
  BY <1>2, <1>3 DEF SpendIInv, CallSpend, Going
<1> QED
  BY <1>1, <1>2, <1>3, <1>4, <1>5, PlacesDiffer

LEMMA VisitsKeeps ==
  ASSUME SpendIInv, NEW c \in ToolCalls, Visits(c)
  PROVE  SpendIInv'
<1> DEFINE s == NameNext(c)
           due == s \notin Untracked /\ receipts[s] = {}
<1>1. Going(c) /\ visit[c] \in Visit /\ CallSpend(c)
  BY DEF Visits, SpendIInv, VisitShape
<1>2. s \in Tickers /\ s \in Named(c) /\ s \notin Paid(c) /\ Place(c) \in visit[c].left
  BY <1>1, NameNextFound
<1>3. UNCHANGED receipts \/ Claim(c, s)
  BY DEF Visits, Claim
<1>4. PICK cost \in {0, 1} :
        visit' = [visit EXCEPT ![c].left = @ \ {Place(c)}, ![c].searches = @ + cost]
  BY DEF Visits, Costs
<1> DEFINE behind == [visit EXCEPT ![c].left = @ \ {Place(c)}]
<1>11. /\ behind \in [ToolCalls -> Visit] /\ behind[c].step = visit[c].step
       /\ behind[c].words = visit[c].words /\ behind[c].left = visit[c].left \ {Place(c)}
       /\ behind[c].searches = visit[c].searches
       /\ \A d \in ToolCalls \ {c} : behind[d] = visit[d]
  BY DEF SpendIInv, VisitShape, Visit
<1>12. visit' = [behind EXCEPT ![c].searches = @ + cost]
  BY <1>4
<1> HIDE DEF behind
<1>5. /\ visit' \in [ToolCalls -> Visit] /\ visit'[c].step = "visiting"
      /\ visit'[c].words = visit[c].words /\ visit'[c].left = visit[c].left \ {Place(c)}
      /\ visit'[c].searches = visit[c].searches + cost
      /\ \A d \in ToolCalls \ {c} : visit'[d] = visit[d]
  <2>1. visit[c].searches + cost \in Nat
    BY <1>1, <1>4 DEF Visit
  <2>2. visit' = [behind EXCEPT ![c].searches = behind[c].searches + cost]
    BY <1>12
  <2>3. behind[c].searches + cost \in Nat
    BY <1>11, <2>1
  <2>4. visit' \in [ToolCalls -> Visit]
    BY <1>11, <2>2, <2>3 DEF Visit
  <2>5. /\ visit'[c].step = behind[c].step /\ visit'[c].words = behind[c].words
        /\ visit'[c].left = behind[c].left /\ visit'[c].searches = behind[c].searches + cost
        /\ \A d \in ToolCalls \ {c} : visit'[d] = behind[d]
    BY <1>11, <2>2 DEF Visit
  <2> QED
    BY <1>1, <1>11, <2>4, <2>5 DEF Going
<1>6. DOMAIN threw' = ToolCalls /\ \A d \in ToolCalls \ {c} : threw'[d] = threw[d]
  BY DEF Visits, SpendIInv, VisitShape
<1>7. VisitShape'
  <2>1. \A d \in ToolCalls : visit'[d].left \subseteq NamedSymbols(visit'[d].words)
    BY <1>5 DEF SpendIInv, VisitShape
  <2> QED
    BY <1>2, <1>3, <1>5, <1>6, <2>1, ReceiptsKept DEF VisitShape, NamedSymbols
<1>8. \/ /\ Paid(c)' = Paid(c) /\ visit'[c].searches = visit[c].searches
         /\ s \in Untracked \/ receipts[s] # {}
      \/ /\ Paid(c)' = Paid(c) \cup {s} /\ visit'[c].searches = visit[c].searches + 1
         /\ receipts'[s] # {} \/ s \in threw'[c]
  <2>1. CASE /\ receipts' = IF due THEN [receipts EXCEPT ![s] = {c}] ELSE receipts
             /\ visit' = [visit EXCEPT ![c].left = @ \ {Place(c)}, ![c].searches = @ + Costs(due)]
             /\ UNCHANGED threw
    <3>1. visit'[c].searches = visit[c].searches + Costs(due)
      BY <1>1, <2>1 DEF SpendIInv, VisitShape, Visit
    <3>2. CASE due
      <4>1. Bought(c)' = Bought(c) \cup {s} /\ receipts'[s] # {}
        BY <1>2, <2>1, <3>2 DEF SpendIInv, VisitShape, Bought
      <4> QED
        BY <2>1, <3>1, <3>2, <4>1 DEF Paid, Costs
    <3>3. CASE ~due
      <4>1. Bought(c)' = Bought(c)
        BY <2>1, <3>3 DEF Bought
      <4> QED
        BY <1>1, <2>1, <3>1, <3>3, <4>1 DEF Paid, Costs, Visit
    <3> QED
      BY <3>2, <3>3
  <2>2. CASE /\ \/ UNCHANGED receipts
                \/ due /\ receipts' = [receipts EXCEPT ![s] = {c}]
             /\ visit' = [visit EXCEPT ![c].left = @ \ {Place(c)}, ![c].searches = @ + Costs(TRUE)]
             /\ threw' = [threw EXCEPT ![c] = @ \cup {s}]
    <3>1. visit'[c].searches = visit[c].searches + 1
      BY <1>1, <2>2 DEF SpendIInv, VisitShape, Visit, Costs
    <3>2. Bought(c)' = Bought(c) \/ Bought(c)' = Bought(c) \cup {s}
      BY <1>2, <2>2 DEF SpendIInv, VisitShape, Bought
    <3>3. threw'[c] = threw[c] \cup {s}
      BY <2>2 DEF SpendIInv, VisitShape
    <3> QED
      BY <3>1, <3>2, <3>3 DEF Paid
  <2> QED
    BY <2>1, <2>2 DEF Visits
<1>9. CallSpend(c)'
  <2>1. /\ IsFiniteSet(Paid(c)) /\ Cardinality(Paid(c)) \in Nat
        /\ visit[c].searches = Cardinality(Paid(c)) /\ Cardinality(Paid(c)) < MaxSearches
    BY <1>1, FS_CardinalityType DEF CallSpend, Going
  <2>2. /\ IsFiniteSet(Paid(c)') /\ Cardinality(Paid(c)') = visit'[c].searches
        /\ Cardinality(Paid(c)') <= MaxSearches
    <3>1. CASE Paid(c)' = Paid(c) /\ visit'[c].searches = visit[c].searches
      BY <2>1, <3>1, AttentionAssumption
    <3>2. CASE Paid(c)' = Paid(c) \cup {s} /\ visit'[c].searches = visit[c].searches + 1
      <4>1. IsFiniteSet(Paid(c) \cup {s}) /\ Cardinality(Paid(c) \cup {s}) = Cardinality(Paid(c)) + 1
        BY <1>2, <2>1, FS_AddElement
      <4> QED
        BY <2>1, <3>2, <4>1, AttentionAssumption
    <3> QED
      BY <1>8, <3>1, <3>2
  <2>3. Named(c)' = Named(c) /\ Paid(c)' \subseteq Named(c)
    BY <1>1, <1>2, <1>5, <1>8 DEF CallSpend, Named, NamedSymbols
  <2>4. ASSUME NEW i \in visit'[c].left PROVE visit[c].words[i] \notin Paid(c)'
    <3>1. i \in visit[c].left /\ i # Place(c) /\ i \in NamedSymbols(visit[c].words)
      BY <1>5 DEF SpendIInv, VisitShape
    <3>2. visit[c].words[i] # s
      BY <1>1, <3>1, NameNextFound
    <3> QED
      BY <1>1, <1>8, <3>1, <3>2 DEF CallSpend, Going
  <2>5. ASSUME NEW i \in NamedSymbols(visit[c].words) \ visit'[c].left
        PROVE  \/ visit[c].words[i] \in Untracked \/ receipts'[visit[c].words[i]] # {}
               \/ visit[c].words[i] \in threw'[c]
    <3>1. CASE i = Place(c)
      <4>1. receipts[s] # {} => receipts'[s] # {}
        BY <1>3 DEF Claim
      <4> QED
        BY <1>8, <3>1, <4>1 DEF NameNext
    <3>2. CASE i # Place(c)
      <4>1. visit[c].words[i] \in Tickers /\ i \notin visit[c].left
        BY <1>5, <3>2 DEF NamedSymbols
      <4>2. receipts[visit[c].words[i]] # {} => receipts'[visit[c].words[i]] # {}
        BY <1>3, <1>2, <4>1 DEF Claim, SpendIInv, VisitShape
      <4>3. threw[c] \subseteq threw'[c]
        <5>1. UNCHANGED threw \/ threw' = [threw EXCEPT ![c] = @ \cup {s}]
          BY DEF Visits
        <5> QED
          BY <5>1 DEF SpendIInv, VisitShape
      <4> QED
        BY <1>1, <4>1, <4>2, <4>3 DEF CallSpend, Going
    <3> QED
      BY <3>1, <3>2
  <2> QED
    BY <1>5, <2>2, <2>3, <2>4, <2>5 DEF CallSpend, NamedSymbols
<1>10. ASSUME NEW d \in ToolCalls \ {c} PROVE CallSpend(d)'
  BY <1>2, <1>3, <1>5, <1>6, OthersStand
<1> QED
  BY <1>7, <1>9, <1>10 DEF SpendIInv

LEMMA FinishesKeeps ==
  ASSUME SpendIInv, NEW c \in ToolCalls, Finishes(c)
  PROVE  SpendIInv'
<1>1. /\ visit' \in [ToolCalls -> Visit] /\ visit'[c].step = "done" /\ visit[c].step = "visiting"
      /\ visit'[c].words = visit[c].words /\ visit'[c].left = visit[c].left
      /\ visit'[c].searches = visit[c].searches /\ UNCHANGED <<receipts, threw>>
      /\ \A d \in ToolCalls \ {c} : visit'[d] = visit[d]
  BY DEF SpendIInv, VisitShape, Visit, Finishes
<1>2. VisitShape'
  BY <1>1 DEF SpendIInv, VisitShape, NamedSymbols
<1>3. ASSUME NEW d \in ToolCalls PROVE CallSpend(d)'
  <2>1. CallSpend(d) /\ Paid(d)' = Paid(d) /\ Named(d)' = Named(d)
    BY <1>1 DEF SpendIInv, Paid, Bought, Named, NamedSymbols
  <2>2. visit[c].searches \in Nat
    BY DEF SpendIInv, VisitShape, Visit
  <2> QED
    BY <1>1, <2>1, <2>2, AttentionAssumption DEF CallSpend, NamedSymbols, Finishes, Going
<1> QED
  BY <1>2, <1>3 DEF SpendIInv

LEMMA CutOffKeeps ==
  ASSUME SpendIInv, NEW c \in ToolCalls, CutOff(c)
  PROVE  SpendIInv'
<1>1. /\ visit' \in [ToolCalls -> Visit] /\ visit'[c].step = "cut" /\ visit[c].step = "visiting"
      /\ visit'[c].words = visit[c].words /\ visit'[c].left = visit[c].left /\ UNCHANGED threw
      /\ \A d \in ToolCalls \ {c} : visit'[d] = visit[d]
  BY DEF SpendIInv, VisitShape, Visit, CutOff
<1>2. visit[c] \in Visit /\ CallSpend(c)
  BY DEF SpendIInv, VisitShape
<1>3. CASE UNCHANGED receipts
  <2>1. VisitShape'
    BY <1>1, <1>3 DEF SpendIInv, VisitShape, NamedSymbols
  <2>2. ASSUME NEW d \in ToolCalls PROVE CallSpend(d)'
    <3>1. CallSpend(d) /\ Paid(d)' = Paid(d) /\ Named(d)' = Named(d)
      BY <1>1, <1>3 DEF SpendIInv, Paid, Bought, Named, NamedSymbols
    <3> QED
      BY <1>1, <1>3, <3>1 DEF CallSpend, NamedSymbols
  <2> QED
    BY <2>1, <2>2 DEF SpendIInv
<1>4. CASE Going(c) /\ Claim(c, NameNext(c))
  <2>1. NameNext(c) \in Tickers /\ NameNext(c) \in Named(c) /\ NameNext(c) \notin Paid(c)
    BY <1>4, NameNextFound
  <2>2. VisitShape'
    <3>1. \A d \in ToolCalls : visit'[d].left \subseteq NamedSymbols(visit'[d].words)
      BY <1>1 DEF SpendIInv, VisitShape
    <3> QED
      BY <1>1, <1>4, <2>1, <3>1, ReceiptsKept DEF VisitShape, NamedSymbols, SpendIInv
  <2>3. Paid(c)' = Paid(c) \cup {NameNext(c)}
    BY <1>1, <1>4, <2>1 DEF Claim, Paid, Bought, SpendIInv, VisitShape
  <2>4. Named(c)' = Named(c)
    BY <1>1 DEF Named, NamedSymbols
  <2>5. IsFiniteSet(Paid(c)') /\ Cardinality(Paid(c)') <= MaxSearches
    <3>1. Cardinality(Paid(c)) \in Nat /\ Cardinality(Paid(c)) < MaxSearches
      BY <1>2, <1>4, FS_CardinalityType DEF CallSpend, Going
    <3>2. /\ IsFiniteSet(Paid(c) \cup {NameNext(c)})
          /\ Cardinality(Paid(c) \cup {NameNext(c)}) = Cardinality(Paid(c)) + 1
      BY <1>2, <2>1, FS_AddElement DEF CallSpend
    <3> QED
      BY <2>3, <3>1, <3>2, AttentionAssumption
  <2>6. CallSpend(c)'
    BY <1>1, <1>2, <2>1, <2>3, <2>4, <2>5 DEF CallSpend
  <2>7. ASSUME NEW d \in ToolCalls \ {c} PROVE CallSpend(d)'
    BY <1>1, <1>4, <2>1, OthersStand
  <2> QED
    BY <2>2, <2>6, <2>7 DEF SpendIInv
<1> QED
  BY <1>3, <1>4 DEF CutOff, Claim

\* No call buys more than its budget or a name it did not look at, a name has one receipt, and
\* what a finished call did not try was left for want of budget: for any number of calls at
\* once, each cut off wherever the runtime likes (noteSymbolAttention).
THEOREM SpendHolds == AttentionSpec => []SpendInv
<1>1. AttentionInit => SpendIInv
  BY SpendInitially
<1>2. SpendIInv /\ [AttentionNext]_attentionVars => SpendIInv'
  <2> SUFFICES ASSUME SpendIInv, [AttentionNext]_attentionVars PROVE SpendIInv'
    OBVIOUS
  <2>1. CASE UNCHANGED attentionVars
    <3>1. UNCHANGED <<visit, receipts, threw>>
      BY <2>1 DEF attentionVars
    <3>2. VisitShape'
      BY <3>1 DEF SpendIInv, VisitShape, NamedSymbols
    <3>3. ASSUME NEW c \in ToolCalls PROVE CallSpend(c)'
      <4>1. CallSpend(c) /\ Paid(c)' = Paid(c) /\ Named(c)' = Named(c)
        BY <3>1 DEF SpendIInv, Paid, Bought, Named, NamedSymbols
      <4> QED
        BY <3>1, <4>1 DEF CallSpend, NamedSymbols
    <3> QED
      BY <3>2, <3>3 DEF SpendIInv
  <2> QED
    BY <2>1, NotesKeeps, VisitsKeeps, FinishesKeeps, CutOffKeeps DEF AttentionNext
<1> QED
  BY <1>1, <1>2, SpendImplies, PTL DEF AttentionSpec

(***************************************************************************)
(* What a reader is shown of a symbol                                      *)
(***************************************************************************)

\* A figure that has its published digits has them when it is read again.
LEMMA ProjectedTwice ==
  ASSUME NEW n \in Int
  PROVE  Projected(n) \in Int /\ Projected(Projected(n)) = Projected(n)
<1> DEFINE k == (2 * n + Fine) \div (2 * Fine)
<1>1. Fine \in Nat \ {0} /\ 2 * Fine \in Nat \ {0}
  BY ReadingsAssumption
<1>2. k \in Int
  BY <1>1
<1> HIDE DEF k
<1>3. (2 * (k * Fine) + Fine) \div (2 * Fine) = k
  BY <1>1, <1>2
<1>4. Projected(n) = k * Fine
  BY DEF Projected, k
<1>5. Projected(k * Fine) = k * Fine
  BY <1>3 DEF Projected
<1> QED
  BY <1>1, <1>2, <1>4, <1>5

\* Of some dates one is the nearest.
LEMMA NearestIsOne ==
  ASSUME NEW days \in SUBSET Nat, days # {}
  PROVE  Nearest(days) \in days /\ \A d \in days : Nearest(days) <= d
<1> DEFINE R == OpToRel(<, Nat)
<1>1. IsWellFoundedOn(R, Nat)
  BY NatLessThanWellFounded
<1>2. \A i, j \in Nat : <<i, j>> \in R <=> i < j
  BY DEF OpToRel
<1> HIDE DEF R
<1>3. PICK d \in days : \A e \in days : <<e, d>> \notin R
  BY <1>1, WFMin
<1>4. \A e \in days : d <= e
  <2> SUFFICES ASSUME NEW e \in days PROVE d <= e
    OBVIOUS
  <2>1. d \in Nat /\ e \in Nat /\ <<e, d>> \notin R
    BY <1>3
  <2>2. ~(e < d)
    BY <1>2, <2>1
  <2> QED
    BY <2>1, <2>2
<1> QED
  BY <1>4 DEF Nearest

\* Of some rows one is the last.
LEMMA LastRow ==
  ASSUME NEW size \in Nat, NEW S \in SUBSET (1..size), S # {}
  PROVE  \E i \in S : \A j \in S : j <= i
<1> DEFINE left == {size - i : i \in S}
<1>1. left \in SUBSET Nat /\ left # {}
  <2>1. \A i \in S : i \in 1..size
    OBVIOUS
  <2>2. \A i \in 1..size : size - i \in Nat
    OBVIOUS
  <2>3. PICK i \in S : TRUE
    OBVIOUS
  <2> QED
    BY <2>1, <2>2, <2>3
<1>2. Nearest(left) \in left /\ \A d \in left : Nearest(left) <= d
  BY <1>1, NearestIsOne
<1>3. PICK i \in S : Nearest(left) = size - i
  BY <1>2
<1>4. \A j \in S : size - i <= size - j
  BY <1>2, <1>3
<1>5. \A j \in S : j \in Int /\ i \in Int
  OBVIOUS
<1> QED
  BY <1>4, <1>5

\* The row that stands for a date is one of its rows.
LEMMA TermRowStands ==
  ASSUME NEW term \in Seq(TermReading), NEW d \in Nat,
         \E i \in DOMAIN term : Complete(term[i]) /\ term[i].expiry.n = d
  PROVE  \E i \in DOMAIN term : TermRow(term, d) = term[i] /\ Complete(term[i])
<1> DEFINE S == {i \in DOMAIN term : Complete(term[i]) /\ term[i].expiry.n = d}
           Odd == {i \in S : ~term[i].standard}
<1>1. Len(term) \in Nat /\ DOMAIN term = 1..Len(term) /\ S # {}
  OBVIOUS
<1>2. \E i \in S : \A j \in S : StandsLast(term[j], term[i]) /\ (StandsLast(term[i], term[j]) => j <= i)
  <2>1. CASE Odd # {}
    <3>1. PICK i \in Odd : \A j \in Odd : j <= i
      BY <1>1, <2>1, LastRow
    <3> QED
      BY <3>1 DEF StandsLast
  <2>2. CASE Odd = {}
    <3>1. PICK i \in S : \A j \in S : j <= i
      BY <1>1, LastRow
    <3> QED
      BY <2>2, <3>1 DEF StandsLast
  <2> QED
    BY <2>1, <2>2
<1>3. TermRow(term, d) = term[CHOOSE i \in S :
        \A j \in S : StandsLast(term[j], term[i]) /\ (StandsLast(term[i], term[j]) => j <= i)]
  BY DEF TermRow
<1> QED
  BY <1>2, <1>3

\* A term that is told has whole dates, and figures with their published digits.
Told(term) ==
  /\ term \in [front : Nat, frontIv : Int, back : Nat, backIv : Int]
  /\ Projected(term.frontIv) = term.frontIv /\ Projected(term.backIv) = term.backIv

LEMMA TermTold ==
  ASSUME NEW term \in Seq(TermReading), TermBelieved(term)
  PROVE  Told(TermOf(term))
<1> DEFINE days == {term[i].expiry.n : i \in {j \in DOMAIN term : Complete(term[j])}}
           front == Nearest(days)
           back == Nearest(days \ {front})
<1>1. \A i \in DOMAIN term : term[i] \in TermReading
  OBVIOUS
<1>2. days \in SUBSET Nat
  BY <1>1 DEF TermReading, None, Malformed
<1>3. ASSUME NEW d \in days
      PROVE  TermRow(term, d).iv.n \in Int
  <2>1. PICK i \in DOMAIN term : TermRow(term, d) = term[i] /\ Complete(term[i])
    BY <1>2, <1>3, TermRowStands
  <2>2. term[i].iv \in [is : {"value"}, n : Int]
    BY <1>1, <2>1 DEF TermReading, Reading, Complete, TermBelieved
  <2> QED
    BY <2>1, <2>2
<1>4. CASE \A d, e \in days : d = e
  <2>1. TermOf(term) = NoTerm
    BY <1>4 DEF TermOf
  <2>2. Fine \in Nat \ {0}
    BY ReadingsAssumption
  <2>3. (2 * (0 * Fine) + Fine) \div (2 * Fine) = 0
    BY <2>2
  <2>4. Projected(0) = 0
    BY <2>2, <2>3 DEF Projected
  <2> QED
    BY <2>1, <2>4 DEF Told, NoTerm
<1>5. CASE ~\A d, e \in days : d = e
  <2>1. front \in days /\ back \in days
    <3> HIDE DEF days
    <3>1. days # {} /\ days \ {front} # {}
      BY <1>5
    <3> QED
      BY <1>2, <3>1, NearestIsOne
  <2> DEFINE a == TermRow(term, front).iv.n
             b == TermRow(term, back).iv.n
  <2>2. TermOf(term) = [front |-> front, frontIv |-> Projected(a), back |-> back, backIv |-> Projected(b)]
    BY <1>5 DEF TermOf
  <2>3. a \in Int /\ b \in Int
    BY <1>3, <2>1
  <2>4. front \in Nat /\ back \in Nat
    BY <1>2, <2>1
  <2> HIDE DEF a, b, front, back, days
  <2> QED
    BY <2>2, <2>3, <2>4, ProjectedTwice DEF Told
<1> QED
  BY <1>4, <1>5

(***************************************************************************)
(* What is kept of an answer                                               *)
(***************************************************************************)

\* The figures of a row that was believed, as they are told and kept.
Figures(row) == [f \in Fields |-> Normal(f, row.fields[f])]
Kept(fields) ==
  /\ fields \in [Fields -> Reading] /\ RangeHolds(fields)
  /\ \A f \in Fields : Again(f, fields[f]) = fields[f]
  /\ fields["marketCap"] # Value(0) /\ fields["price"].n > 0 /\ fields["previousClose"].n > 0

LEMMA FiguresKept ==
  ASSUME NEW row \in Rows, RowBelieved(row)
  PROVE  Kept(Figures(row))
<1>1. \A f \in Fields : row.fields[f] \in Reading /\ Believed(f, row.fields[f])
  BY ReadingsAssumption DEF RowBelieved
<1>2. ASSUME NEW f \in Fields
      PROVE  Normal(f, row.fields[f]) \in Reading /\ Again(f, Normal(f, row.fields[f])) = Normal(f, row.fields[f])
  <2> DEFINE r == row.fields[f]
  <2>1. r \in Reading
    BY <1>1
  <2> HIDE DEF r
  <2>2. CASE r.is = "value" /\ f \in Ratios
    <3>1. r.n \in Int
      BY <2>1, <2>2 DEF Reading, None, Malformed
    <3>2. Normal(f, r) = Value(Projected(r.n)) /\ Projected(r.n) \in Int
          /\ Projected(Projected(r.n)) = Projected(r.n)
      BY <2>2, <3>1, ProjectedTwice DEF Normal
    <3> QED
      BY <2>2, <3>2 DEF Again, Reading, Value, r
  <2>3. CASE ~(r.is = "value" /\ f \in Ratios)
    <3>1. Normal(f, r) = r \/ Normal(f, r) = None
      BY <2>3 DEF Normal
    <3> QED
      BY <2>1, <2>3, <3>1 DEF Again, Reading, None, r
  <2> QED
    BY <2>2, <2>3
<1>3. Figures(row) \in [Fields -> Reading] /\ \A f \in Fields : Again(f, Figures(row)[f]) = Figures(row)[f]
  BY <1>2 DEF Figures
<1>4. {"marketCap", "price", "previousClose", "yearLow", "yearHigh"} \subseteq Fields
  BY DEF Fields, Nonnegative, Required, Positive
<1>5. Figures(row)["marketCap"] # Value(0)
  BY <1>4 DEF Figures, Normal, Ratios, None, Value
<1>6. \A f \in {"price", "previousClose", "yearLow", "yearHigh"} : Figures(row)[f] = row.fields[f]
  BY <1>4 DEF Figures, Normal, Ratios
<1>7. \A f \in {"price", "previousClose"} : row.fields[f].n > 0
  <2> SUFFICES ASSUME NEW f \in {"price", "previousClose"} PROVE row.fields[f].n > 0
    OBVIOUS
  <2>1. f \in Required /\ row.fields[f] \in Reading /\ Believed(f, row.fields[f])
    BY <1>1, <1>4 DEF Required
  <2>2. row.fields[f].is = "value"
    BY <2>1 DEF Believed, Reading
  <2> QED
    BY <2>1, <2>2 DEF Believed
<1>8. RangeHolds(Figures(row))
  BY <1>6 DEF RowBelieved, RangeHolds
<1> QED
  BY <1>3, <1>5, <1>6, <1>7, <1>8 DEF Kept

(***************************************************************************)
(* The store and what was told                                             *)
(***************************************************************************)

StoredRecord ==
  [fields : [Fields -> Reading], term : [front : Nat, frontIv : Int, back : Nat, backIv : Int],
   earnings : Nat, has : BOOLEAN]

\* What was told of a symbol is what its records say.
ToldAsKept(record, ticker) ==
  ticker = [fields |-> record.fields, term |-> record.term, earnings |-> record.earnings,
            change |-> Change(record.fields), percent |-> Percent(record.fields),
            name |-> ticker.name]

RecordsStand(record, ticker) ==
  record.has = TRUE => Kept(record.fields) /\ Told(record.term) /\ ToldAsKept(record, ticker)

ReadingsIInv ==
  /\ today \in 1..LastDay
  /\ catalog \in [Symbols -> Names \cup {"none"}]
  /\ stored \in [Symbols -> StoredRecord]
  /\ \A s \in Symbols : RecordsStand(stored[s], told[s])

LEMMA ReadingsStart == ReadingsInit => ReadingsIInv
<1> SUFFICES ASSUME ReadingsInit PROVE ReadingsIInv
  OBVIOUS
<1>1. LastDay \in Nat \ {0}
  BY ReadingsAssumption
<1>2. None \in Reading
  BY DEF Reading
<1>3. Unstored \in StoredRecord /\ Unstored.has = FALSE
  BY <1>2 DEF Unstored, StoredRecord, NoTerm
<1> QED
  BY <1>1, <1>3 DEF ReadingsInit, ReadingsIInv, RecordsStand

LEMMA BuildStands ==
  ASSUME ReadingsIInv, Build
  PROVE  ReadingsIInv'
<1>p. PICK answered \in (SUBSET Symbols) \ {{}} : \E rows \in [answered -> Rows] :
        LET shown == {s \in answered : catalog[s] # "none"} IN
        /\ ~Unbelievable(rows) /\ shown # {}
        /\ stored' = [s \in Symbols |-> IF s \in shown THEN Records(rows[s]) ELSE stored[s]]
        /\ told' = [s \in Symbols |-> IF s \in shown THEN LiveTicker(s, rows[s]) ELSE told[s]]
        /\ UNCHANGED <<today, catalog>>
  BY DEF Build
<1> DEFINE shown == {s \in answered : catalog[s] # "none"}
<1>r. PICK rows \in [answered -> Rows] :
        /\ ~Unbelievable(rows) /\ shown # {}
        /\ stored' = [s \in Symbols |-> IF s \in shown THEN Records(rows[s]) ELSE stored[s]]
        /\ told' = [s \in Symbols |-> IF s \in shown THEN LiveTicker(s, rows[s]) ELSE told[s]]
        /\ UNCHANGED <<today, catalog>>
  BY <1>p
<1>1. ASSUME NEW s \in Symbols, s \in shown
      PROVE  Records(rows[s]) \in StoredRecord /\ RecordsStand(Records(rows[s]), LiveTicker(s, rows[s]))
  <2> DEFINE row == rows[s]
  <2>1. row \in Rows /\ RowBelieved(row)
    BY <1>r, <1>1 DEF Unbelievable
  <2>2. row.term \in Seq(TermReading) /\ row.earnings \in [visible : BOOLEAN, on : Int]
    BY <2>1, ReadingsAssumption
  <2> HIDE DEF row
  <2>3. Kept(Figures(row))
    BY <2>1, FiguresKept
  <2>4. Told(TermOf(row.term))
    BY <2>1, <2>2, TermTold DEF RowBelieved
  <2>5. Upcoming(row.earnings, today) \in Nat
    BY <2>1, <2>2 DEF Upcoming, RowBelieved
  <2>6. Records(row) = [fields |-> Figures(row), term |-> TermOf(row.term),
                        earnings |-> Upcoming(row.earnings, today), has |-> TRUE]
    BY DEF Records, Figures
  <2>7. LiveTicker(s, row) =
          [fields |-> Figures(row), term |-> TermOf(row.term), earnings |-> Upcoming(row.earnings, today),
           change |-> Change(Figures(row)), percent |-> Percent(Figures(row)),
           name |-> IF catalog[s] = "unnamed" THEN row.name ELSE catalog[s]]
    BY DEF LiveTicker, Figures
  <2> DEFINE F == Figures(row)
             T == TermOf(row.term)
             e == Upcoming(row.earnings, today)
             n == IF catalog[s] = "unnamed" THEN row.name ELSE catalog[s]
             c == Change(F)
             p == Percent(F)
  <2>8. F \in [Fields -> Reading] /\ T \in [front : Nat, frontIv : Int, back : Nat, backIv : Int]
    BY <2>3, <2>4 DEF Kept, Told
  <2>9. Records(row) = [fields |-> F, term |-> T, earnings |-> e, has |-> TRUE]
    BY <2>6
  <2>10. LiveTicker(s, row) = [fields |-> F, term |-> T, earnings |-> e,
                               change |-> c, percent |-> p, name |-> n]
    BY <2>7
  <2>11. c = Change(F) /\ p = Percent(F)
    OBVIOUS
  <2> HIDE DEF F, T, e, n, c, p
  <2>12. Records(row).fields = F /\ Records(row).term = T /\ Records(row).earnings = e
    BY <2>9
  <2>13. LiveTicker(s, row).name = n
    BY <2>10
  <2>14. ToldAsKept(Records(row), LiveTicker(s, row))
    BY <2>10, <2>11, <2>12, <2>13 DEF ToldAsKept
  <2>15. Records(row) \in StoredRecord
    BY <2>5, <2>8, <2>9 DEF StoredRecord, e
  <2>16. Kept(Records(row).fields) /\ Told(Records(row).term)
    BY <2>3, <2>4, <2>12 DEF F, T
  <2> QED
    BY <2>14, <2>15, <2>16 DEF RecordsStand, row
<1>2. stored' \in [Symbols -> StoredRecord]
  BY <1>1, <1>r DEF ReadingsIInv
<1>3. ASSUME NEW s \in Symbols
      PROVE  RecordsStand(stored'[s], told'[s])
  <2>1. CASE s \in shown
    <3>1. stored'[s] = Records(rows[s]) /\ told'[s] = LiveTicker(s, rows[s])
      BY <1>r, <2>1
    <3> QED
      BY <1>1, <2>1, <3>1
  <2>2. CASE s \notin shown
    <3>1. stored'[s] = stored[s] /\ told'[s] = told[s]
      BY <1>r, <2>2
    <3> QED
      BY <3>1 DEF ReadingsIInv
  <2> QED
    BY <2>1, <2>2
<1> QED
  BY <1>r, <1>2, <1>3 DEF ReadingsIInv

LEMMA ReadingsStep ==
  ASSUME ReadingsIInv, [ReadingsNext]_readingVars
  PROVE  ReadingsIInv'
<1>1. CASE Build
  BY <1>1, BuildStands
<1>2. CASE Catalogued
  <2>1. PICK s \in Symbols, n \in Names : catalog' = [catalog EXCEPT ![s] = n]
    BY <1>2 DEF Catalogued
  <2>2. catalog' \in [Symbols -> Names \cup {"none"}]
    BY <2>1 DEF ReadingsIInv
  <2> QED
    BY <1>2, <2>2 DEF Catalogued, ReadingsIInv
<1>3. CASE DayPasses
  <2>1. today' \in 1..LastDay
    BY <1>3, ReadingsAssumption DEF DayPasses, ReadingsIInv
  <2> QED
    BY <1>3, <2>1 DEF DayPasses, ReadingsIInv
<1>4. CASE UNCHANGED readingVars
  BY <1>4 DEF readingVars, ReadingsIInv
<1> QED
  BY <1>1, <1>2, <1>3, <1>4 DEF ReadingsNext

(***************************************************************************)
(* What is shown                                                           *)
(***************************************************************************)

\* A ticker rebuilt from records that stand is the records themselves, on the day it is read.
LEMMA RebuiltAsKept ==
  ASSUME ReadingsIInv, NEW s \in Symbols, stored[s].has
  PROVE  StoredTicker(s, today) =
           [fields |-> stored[s].fields, term |-> stored[s].term,
            earnings |-> IF stored[s].earnings >= today THEN stored[s].earnings ELSE 0,
            change |-> Change(stored[s].fields), percent |-> Percent(stored[s].fields),
            name |-> catalog[s]]
<1> DEFINE r == stored[s]
           F == r.fields
           T == r.term
<1>1. r \in StoredRecord /\ Kept(F) /\ Told(T)
  BY DEF ReadingsIInv, RecordsStand, StoredRecord
<1> HIDE DEF F, T
<1>2. [f \in Fields |-> Again(f, F[f])] = F
  BY <1>1 DEF Kept
<1>3. [T EXCEPT !.frontIv = Projected(@), !.backIv = Projected(@)] = T
  BY <1>1 DEF Told
<1>4. StoredTicker(s, today) =
        [fields |-> [f \in Fields |-> Again(f, F[f])],
         term |-> [T EXCEPT !.frontIv = Projected(@), !.backIv = Projected(@)],
         earnings |-> IF r.earnings >= today THEN r.earnings ELSE 0,
         change |-> Change(F), percent |-> Percent(F), name |-> catalog[s]]
  BY DEF StoredTicker, F, T
<1> HIDE DEF r
<1>5. StoredTicker(s, today) =
        [fields |-> F, term |-> T,
         earnings |-> IF r.earnings >= today THEN r.earnings ELSE 0,
         change |-> Change(F), percent |-> Percent(F), name |-> catalog[s]]
  BY <1>2, <1>3, <1>4
<1> QED
  BY <1>5 DEF F, T, r

LEMMA LiveIsStored == ReadingsIInv => StoredAsLive
<1> SUFFICES ASSUME ReadingsIInv, NEW s \in Symbols, stored[s].has
             PROVE  StoredTicker(s, today) =
                      [told[s] EXCEPT !.name = catalog[s], !.earnings = IF @ >= today THEN @ ELSE 0]
  BY DEF StoredAsLive
<1> DEFINE F == stored[s].fields
           T == stored[s].term
           e == stored[s].earnings
           c == Change(F)
           p == Percent(F)
           n == told[s].name
           t == told[s]
<1>1. t = [fields |-> F, term |-> T, earnings |-> e, change |-> c, percent |-> p, name |-> n]
  BY DEF ReadingsIInv, RecordsStand, ToldAsKept, StoredRecord
<1>2. StoredTicker(s, today) =
        [fields |-> F, term |-> T, earnings |-> IF e >= today THEN e ELSE 0,
         change |-> c, percent |-> p, name |-> catalog[s]]
  BY RebuiltAsKept
<1> HIDE DEF F, T, e, c, p, n, t
<1> DEFINE z == IF e >= today THEN e ELSE 0
           q == catalog[s]
<1>4. t.earnings = e
  BY <1>1
<1>5. [t EXCEPT !.name = catalog[s], !.earnings = IF @ >= today THEN @ ELSE 0]
        = [t EXCEPT !.name = q, !.earnings = z]
  BY <1>4
<1>6. StoredTicker(s, today) =
        [fields |-> F, term |-> T, earnings |-> z, change |-> c, percent |-> p, name |-> q]
  BY <1>2
<1> HIDE DEF z, q
<1> DEFINE u == [t EXCEPT !.name = q]
<1>7. [t EXCEPT !.name = q, !.earnings = z] =
        [fields |-> F, term |-> T, earnings |-> z, change |-> c, percent |-> p, name |-> q]
  <2>1. [t EXCEPT !.name = q, !.earnings = z] = [u EXCEPT !.earnings = z]
    OBVIOUS
  <2>2. u = [fields |-> F, term |-> T, earnings |-> e, change |-> c, percent |-> p, name |-> q]
    BY <1>1
  <2> HIDE DEF u
  <2>3. [u EXCEPT !.earnings = z] =
          [fields |-> F, term |-> T, earnings |-> z, change |-> c, percent |-> p, name |-> q]
    BY <2>2
  <2> QED
    BY <2>1, <2>3
<1> QED
  BY <1>5, <1>6, <1>7 DEF t

\* What leaves out its empty fields is read back as it was.
LEMMA WiredBack ==
  ASSUME NEW t, NEW f \in Fields
  PROVE  FromWire(Wire(t))[f] = t.fields[f]
<1> DEFINE w == Wire(t)
<1>1. f # "earnings"
  BY DEF Fields, Ratios, Reported, Nonnegative, Positive, Required
<1>2. \A x \in w : x[1] = f => x[2] = t.fields[f] /\ t.fields[f] # None
  BY <1>1 DEF Wire
<1>3. t.fields[f] # None => <<f, t.fields[f]>> \in w
  BY DEF Wire
<1>4. FromWire(w)[f] = IF \E x \in w : x[1] = f THEN (CHOOSE x \in w : x[1] = f)[2] ELSE None
  BY DEF FromWire
<1> HIDE DEF w
<1>5. CASE \E x \in w : x[1] = f
  <2> DEFINE x == CHOOSE y \in w : y[1] = f
  <2>1. x \in w /\ x[1] = f
    BY <1>5
  <2> HIDE DEF x
  <2>2. FromWire(w)[f] = x[2]
    BY <1>4, <1>5 DEF x
  <2> QED
    BY <1>2, <2>1, <2>2 DEF w
<1>6. CASE ~\E x \in w : x[1] = f
  <2>1. t.fields[f] = None
    <3> SUFFICES ASSUME t.fields[f] # None PROVE FALSE
      OBVIOUS
    <3>1. <<f, t.fields[f]>>[1] = f
      OBVIOUS
    <3> QED
      BY <1>3, <1>6, <3>1
  <2> QED
    BY <1>4, <1>6, <2>1 DEF w
<1> QED
  BY <1>5, <1>6

LEMMA ReportedBack ==
  ASSUME NEW t
  PROVE  FromWire(Wire(t))["earnings"] = IF t.earnings = 0 THEN None ELSE Value(t.earnings)
<1> DEFINE w == Wire(t)
<1>1. "earnings" \notin Fields
  BY DEF Fields, Ratios, Reported, Nonnegative, Positive, Required
<1>2. \A x \in w : x[1] = "earnings" => t.earnings # 0 /\ x[2] = Value(t.earnings)
  BY <1>1 DEF Wire
<1>3. t.earnings # 0 => <<"earnings", Value(t.earnings)>> \in w
  BY DEF Wire
<1>4. FromWire(w)["earnings"] =
        IF \E x \in w : x[1] = "earnings" THEN (CHOOSE x \in w : x[1] = "earnings")[2] ELSE None
  BY DEF FromWire
<1> HIDE DEF w
<1>5. CASE \E x \in w : x[1] = "earnings"
  <2> DEFINE x == CHOOSE y \in w : y[1] = "earnings"
  <2>1. x \in w /\ x[1] = "earnings"
    BY <1>5
  <2> HIDE DEF x
  <2>2. FromWire(w)["earnings"] = x[2]
    BY <1>4, <1>5 DEF x
  <2> QED
    BY <1>2, <2>1, <2>2 DEF w
<1>6. CASE ~\E x \in w : x[1] = "earnings"
  <2>1. t.earnings = 0
    <3> SUFFICES ASSUME t.earnings # 0 PROVE FALSE
      OBVIOUS
    <3>1. <<"earnings", Value(t.earnings)>>[1] = "earnings"
      OBVIOUS
    <3> QED
      BY <1>3, <1>6, <3>1
  <2> QED
    BY <1>4, <1>6, <2>1 DEF w
<1> QED
  BY <1>5, <1>6

LEMMA ReportShown == ReadingsIInv => ShownIsReported
<1> SUFFICES ASSUME ReadingsIInv, NEW s \in Symbols, stored[s].has
             PROVE  LET w == FromWire(Wire(StoredTicker(s, today))) IN
                      /\ w["marketCap"] # Value(0) /\ w["price"].n > 0 /\ w["previousClose"].n > 0
                      /\ w["earnings"] # None => w["earnings"].n >= today
                      /\ w["yearLow"] # None /\ w["yearHigh"] # None => w["yearLow"].n <= w["yearHigh"].n
  BY DEF ShownIsReported
<1> DEFINE F == stored[s].fields
           t == StoredTicker(s, today)
           w == FromWire(Wire(t))
           e == IF stored[s].earnings >= today THEN stored[s].earnings ELSE 0
<1>1. Kept(F)
  BY DEF ReadingsIInv, RecordsStand, StoredRecord
<1>2. t.fields = F /\ t.earnings = e
  BY RebuiltAsKept
<1>3. stored[s].earnings \in Nat /\ today \in Int
  BY DEF ReadingsIInv, StoredRecord
<1>4. e # 0 => e >= today
  BY <1>3
<1> HIDE DEF F, t, e
<1>5. {"marketCap", "price", "previousClose", "yearLow", "yearHigh"} \subseteq Fields
  BY DEF Fields, Nonnegative, Required, Positive
<1>6. \A f \in Fields : w[f] = F[f]
  BY <1>2, WiredBack
<1>7. w["earnings"] = IF e = 0 THEN None ELSE Value(e)
  BY <1>2, ReportedBack
<1> HIDE DEF w
<1>8. w["marketCap"] # Value(0) /\ w["price"].n > 0 /\ w["previousClose"].n > 0
  BY <1>1, <1>5, <1>6 DEF Kept
<1>9. w["earnings"] # None => w["earnings"].n >= today
  BY <1>4, <1>7 DEF Value
<1>10. w["yearLow"] # None /\ w["yearHigh"] # None => w["yearLow"].n <= w["yearHigh"].n
  BY <1>1, <1>5, <1>6 DEF Kept, RangeHolds
<1> QED
  BY <1>8, <1>9, <1>10 DEF w, t

LEMMA ReadingsFollow == ReadingsIInv => ReadingsInv
<1> SUFFICES ASSUME ReadingsIInv PROVE ReadingsInv
  OBVIOUS
<1>1. ReadingsTypeOK
  BY DEF ReadingsIInv, ReadingsTypeOK, StoredRecord
<1> QED
  BY <1>1, LiveIsStored, ReportShown DEF ReadingsInv

\* Whatever rows the provider answers with, whatever the catalog comes to call a symbol and
\* however many days pass, a ticker rebuilt from the store says what the live answer said, and
\* what goes over the wire is what was reported.
THEOREM ReadingsHold == ReadingsSpec => []ReadingsInv
<1>1. ReadingsIInv /\ [ReadingsNext]_readingVars => ReadingsIInv'
  BY ReadingsStep
<1> QED
  BY <1>1, ReadingsStart, ReadingsFollow, PTL DEF ReadingsSpec
===============================================================================
