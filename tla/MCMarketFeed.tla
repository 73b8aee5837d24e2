---------------------------- MODULE MCMarketFeed ----------------------------
(* Browsers, at most one option read, two upstream sockets. *)
EXTENDS MarketFeed
CONSTANTS b1, b2, g1

OneReader == {b1}
TwoReaders == {b1, b2}
OneSymbol == {1}
TwoSymbols == {1, 2}
OnlyTwo == {2}
TwoLinks == {1, 2}

NoReads == {}
OneRead == {g1}
GreeksRead == [q \in {g1} |-> "Greeks"]
Contract == [q \in {g1} |-> {11}]
NoReadType == [q \in {} |-> "Greeks"]
NoReadSymbols == [q \in {} |-> {11}]

\* Quote stands for Quote and Trade, which readers' symbols share alike.
QuoteAndCandle == {"Quote", "Candle"}
QuoteAndGreeks == {"Quote", "Greeks"}
QuoteOnly == {"Quote"}
ThreeTypes == {"Quote", "Candle", "Greeks"}
==============================================================================
