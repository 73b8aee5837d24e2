----------------------------- MODULE MCResearch -----------------------------
(* What is read from the outside and kept, part by part: the calendar's dates,   *)
(* the cards members quote, the searches their calls buy, and the tickers.      *)
(* The parts share no state, and a behavior runs one of them.                   *)
EXTENDS CatalystCitations, SymbolEvidence, SymbolAttention, TickerReadings, TLC
CONSTANTS s1, s2, e1, e2, e3, p1, p2, none, m1, m2, x1, x2, k1, k2
VARIABLE part
\* Two kinds of event, and two dates of the broker's; the second ends the horizon.
MCEvents == {e1, e2, e3}
MCAnswers == SUBSET MCEvents
MCKind == (e1 :> 1) @@ (e2 :> 2) @@ (e3 :> 2)
MCDay == (e1 :> 2) @@ (e2 :> 2) @@ (e3 :> 4)
MCAddresses == {"a", "a?utm", "b", "ftp"}
MCPageOf == [x \in MCAddresses |-> IF x = "ftp" THEN none ELSE IF x = "b" THEN p2 ELSE p1]
MCBothDays == (2 :> "dated") @@ (4 :> "yearless")
MCTexts == {MCBothDays, (2 :> "otherYear") @@ (4 :> "absent")}
MCBoth == <<[event |-> e1, address |-> "b"], [event |-> e2, address |-> "b"]>>
MCFindings ==
  {[events |-> <<>>, returned |-> {"a"}],
   [events |-> <<[event |-> e1, address |-> "a?utm"], [event |-> e2, address |-> "b"]>>,
    returned |-> {"a", "b"}],
   [events |-> <<[event |-> e1, address |-> "ftp"], [event |-> e2, address |-> "a"],
                 [event |-> e2, address |-> "b"]>>, returned |-> {"a"}],
   [events |-> <<[event |-> e3, address |-> "a"], [event |-> e1, address |-> "a"]>>,
    returned |-> {"a"}]}
MCRecordings ==
  {MCBoth, <<[event |-> e2, address |-> "a"], [event |-> e1, address |-> "b"]>>,
   <<[event |-> e1, address |-> "a"], [event |-> e2, address |-> "ftp"]>>}
\* Two wordings of one passage, another passage, and markup alone; two calls, or one
\* and its retry.
MCCalls == {k1, k2}
MCAuthor == [c \in MCCalls |-> m1]
MCQuotes == {"quote", "*quote*", "other", "**"}
MCWordsOf == ("quote" :> "q") @@ ("*quote*" :> "q") @@ ("other" :> "o") @@ ("**" :> "blank")
\* Three names to buy, one off the list, and a tool that names nothing by a name.
MCTickers == {"A", "B", "C", "U"}
MCNamings ==
  {[tool |-> "read_catalysts", words |-> <<"U", "A", "A", "B", "C">>],
   [tool |-> "read_option_greeks", words |-> <<"C", "Apple", "U">>],
   [tool |-> "search_symbols", words |-> <<"A", "B">>]}
MCAttentionTools == {"read_catalysts", "read_option_greeks"}
\* A row for each rule of the reading: what has no figure, what is refused, what is past.
MCBase ==
  [price |-> Value(11), previousClose |-> Value(10), updatedAt |-> Value(1),
   metricsUpdatedAt |-> None, ivIndex |-> Value(7), ivIndex5DayChange |-> None,
   difference |-> Value(-3), marketCap |-> Value(5), volume |-> None,
   historicalVolatility |-> Value(7), yearLow |-> Value(3), yearHigh |-> None]
MCRow(fields, visible, on, term) ==
  [fields |-> fields, earnings |-> [visible |-> visible, on |-> on], term |-> term, name |-> "quoted"]
MCTerm(d) ==
  <<[expiry |-> d, iv |-> Value(5), standard |-> TRUE],
    [expiry |-> Value(1), iv |-> Value(3), standard |-> FALSE],
    [expiry |-> Value(2), iv |-> Value(6), standard |-> TRUE]>>
MCRows ==
  {MCRow([MCBase EXCEPT !["marketCap"] = Value(0)], FALSE, 0, MCTerm(Value(1))),
   MCRow([MCBase EXCEPT !["price"] = None], FALSE, 0, <<>>),
   MCRow([MCBase EXCEPT !["volume"] = Value(-1)], FALSE, 0, <<>>),
   MCRow([MCBase EXCEPT !["yearHigh"] = Value(2)], FALSE, 0, <<>>),
   MCRow(MCBase, TRUE, 2, MCTerm(None)), MCRow(MCBase, FALSE, 2, <<>>),
   MCRow(MCBase, TRUE, 1, MCTerm(Malformed))}
parts == <<citeVars, evidenceVars, attentionVars, readingVars>>
MCInit ==
  /\ part \in {"search", "member", "calendar", "cards", "attention", "tickers"}
  /\ CitationsInit /\ EvidenceInit /\ AttentionInit /\ ReadingsInit
  /\ part \notin {"search", "member"} => web = [p \in Pages |-> MCBothDays]
  /\ text = [s \in Sources |-> Words]
  /\ part # "tickers" => catalog = [s \in Symbols |-> "none"]
\* Every page opens and states both days; the broker has answered before anyone begins,
\* and of the search and the member one is over before the other begins.
OnCalendar ==
  /\ UNCHANGED <<web, edited>> /\ ask.step # "told"
  /\ \A r \in Runs, p \in Pages : dig'[r].pages[p].of \in {"unread", "whole"}
  /\ \A p \in Pages : member'.pages[p].of \in {"unread", "whole"}
  /\ broker' # broker => broker = NoBrokerRow /\ member.step = "idle" /\ \A r \in Runs : run[r].step = "idle"
  /\ member'.events \in {<<>>, MCBoth}
  /\ member' # member => \A r \in Runs : run[r].step \in {"idle", "over"}
  /\ run'[s2].step # "idle" => /\ NoneForced' /\ member'.step = "idle" /\ broker' = NoBrokerRow /\ ask'.horizon \in {0, Horizon}
                               /\ \A r \in Runs : dig'[r].events # <<>> => dig'[r].events[1].address # "ftp"
                               /\ \A r \in Runs : dig[r].toRead # {} => dig'[r] # dig[r]
  /\ clock' > 2 => run'[s2].step # "idle"
  /\ run' # run => member.step # "reading"
MCNext ==
  /\ UNCHANGED part
  /\ \/ /\ part \in {"search", "member", "calendar"} /\ CitationsNext
        /\ part = "search" => UNCHANGED <<member, broker, ask>>
        /\ part = "member" => UNCHANGED <<run, broker, ask>>
        /\ IF part = "calendar" THEN OnCalendar ELSE clock' <= 2 /\ run'[s2] = run[s2]
        /\ UNCHANGED <<evidenceVars, attentionVars, readingVars>>
     \/ part = "cards" /\ EvidenceNext /\ UNCHANGED <<citeVars, attentionVars, readingVars>>
     \/ part = "attention" /\ AttentionNext /\ UNCHANGED <<citeVars, evidenceVars, readingVars>>
     \/ part = "tickers" /\ ReadingsNext /\ UNCHANGED <<citeVars, evidenceVars, attentionVars>>
MCSpec == MCInit /\ [][MCNext]_<<part, parts>>
==============================================================================
