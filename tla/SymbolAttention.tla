---------------------------- MODULE SymbolAttention ----------------------------
(***************************************************************************)
(* What an agent's tool calls buy (symbol-attention.ts): after the answer, *)
(* one name after another of those a call looked at is put to the catalyst *)
(* search, which costs money when it claims the name's receipt.  Calls of  *)
(* many agents do so at once, and the runtime cuts any of them off.        *)
(*                                                                         *)
(* Within one refresh window.  CatalystRuns has the search of one name.    *)
(***************************************************************************)
EXTENDS Integers, Sequences, FiniteSets

CONSTANTS
  ToolCalls,
  Tickers,
  Untracked,      \* tickers off the watchlist or unknown to the catalog
  Namings,        \* what a call may name: a tool, and words in their order
  AttentionTools, \* ATTENTION_TOOLS
  MaxSearches     \* MAX_ATTENTION_SEARCHES

ASSUME AttentionAssumption ==
  /\ Untracked \subseteq Tickers /\ MaxSearches \in Nat \ {0}
  /\ \A naming \in Namings : naming.words \in Seq(STRING)

VARIABLES
  visit,    \* of a call: its words, the places of the names left among them, and its count
  receipts, \* of a ticker: nothing, or the call that claimed its search
  threw     \* of a call: the names whose attempt threw

attentionVars == <<visit, receipts, threw>>

AttentionInit ==
  /\ visit = [c \in ToolCalls |-> [step |-> "idle", words |-> <<>>, left |-> {}, searches |-> 0]]
  /\ receipts = [s \in Tickers |-> {}]
  /\ threw = [c \in ToolCalls |-> {}]

\* Every distinct ticker by its first place; what is no ticker is dropped.
NamedSymbols(words) ==
  {i \in DOMAIN words : words[i] \in Tickers /\ \A j \in 1..(i - 1) : words[j] # words[i]}

\* The call is answered, and its work goes on behind the answer.
Notes(c) ==
  /\ visit[c].step = "idle"
  /\ \E naming \in Namings :
       LET words == IF naming.tool \in AttentionTools THEN naming.words ELSE <<>> IN
       visit' = [visit EXCEPT ![c] = [step |-> "visiting", words |-> words,
                                      left |-> NamedSymbols(words), searches |-> 0]]
  /\ UNCHANGED <<receipts, threw>>

Going(c) == visit[c].step = "visiting" /\ visit[c].left # {} /\ visit[c].searches < MaxSearches
Place(c) == CHOOSE i \in visit[c].left : \A j \in visit[c].left : i <= j
NameNext(c) == visit[c].words[Place(c)]

\* Mutant: every name costs.
CountsNames(claimed) == 1
\* A claimed search costs, and an attempt that threw may have claimed.
Costs(claimed) == IF claimed THEN 1 ELSE 0

\* One loop of noteSymbolAttention: the claim is one statement, and its search is over, or
\* has thrown, before the next name.
Visits(c) ==
  /\ Going(c)
  /\ LET s == NameNext(c)
         due == s \notin Untracked /\ receipts[s] = {}
     IN \/ /\ receipts' = IF due THEN [receipts EXCEPT ![s] = {c}] ELSE receipts
           /\ visit' = [visit EXCEPT ![c].left = @ \ {Place(c)}, ![c].searches = @ + Costs(due)]
           /\ UNCHANGED threw
        \/ /\ \/ UNCHANGED receipts
              \/ due /\ receipts' = [receipts EXCEPT ![s] = {c}]
           /\ visit' = [visit EXCEPT ![c].left = @ \ {Place(c)}, ![c].searches = @ + Costs(TRUE)]
           /\ threw' = [threw EXCEPT ![c] = @ \cup {s}]

Finishes(c) ==
  /\ visit[c].step = "visiting" /\ ~Going(c)
  /\ visit' = [visit EXCEPT ![c].step = "done"]
  /\ UNCHANGED <<receipts, threw>>

\* About 30 seconds after the response, wherever it is: a name in flight keeps its claim.
CutOff(c) ==
  /\ visit[c].step = "visiting"
  /\ \/ UNCHANGED receipts
     \/ /\ Going(c) /\ NameNext(c) \notin Untracked /\ receipts[NameNext(c)] = {}
        /\ receipts' = [receipts EXCEPT ![NameNext(c)] = {c}]
  /\ visit' = [visit EXCEPT ![c].step = "cut"]
  /\ UNCHANGED threw

AttentionNext == \E c \in ToolCalls : Notes(c) \/ Visits(c) \/ Finishes(c) \/ CutOff(c)
AttentionSpec == AttentionInit /\ [][AttentionNext]_attentionVars

(***************************************************************************)
(* Properties                                                              *)
(***************************************************************************)

Bought(c) == {s \in Tickers : c \in receipts[s]}
Named(c) == {visit[c].words[i] : i \in NamedSymbols(visit[c].words)}

\* What is spent: no call buys more than its budget, and only searches of names it looked at;
\* a name it ended without trying, or that nobody's search covers, was left only when
\* the budget had gone on claims and throws (noteSymbolAttention).
AttentionSpent ==
  \A c \in ToolCalls :
    /\ Cardinality(Bought(c)) <= MaxSearches /\ Bought(c) \subseteq Named(c)
    /\ visit[c].step = "done" =>
         \/ Cardinality(Bought(c) \cup threw[c]) = MaxSearches
         \/ \A s \in Named(c) \ Untracked : receipts[s] # {} \/ s \in threw[c]

SpendInv == AttentionSpent /\ \A s \in Tickers : Cardinality(receipts[s]) <= 1
================================================================================
