------------------------------- MODULE MCOrders -------------------------------
(* The orders of one account, part by part: two placements of one ticket and a  *)
(* reconciling agent, and what placements and replacements say of the orders    *)
(* that fill, are cancelled and are moved beside them.                          *)
EXTENDS MCOrderPlacement, OrderIntent
CONSTANTS Parts, shares, low, high
VARIABLE part

\* A sale and a purchase of one contract, a vertical of width two, and a sale that
\* calls itself a debit.
Option(side, effect, price) ==
  [kind |-> "option", side |-> side, strikes |-> <<1>>, quantity |-> 1, effect |-> effect, price |-> price]
Vertical == [kind |-> "spread", side |-> "none", strikes |-> <<1, 3>>, quantity |-> 1, effect |-> "Debit", price |-> 1]
SharesSold == [kind |-> "equity", side |-> "Sell to Close", strikes |-> <<>>, quantity |-> 1, effect |-> "Credit", price |-> 1]
MCTickets == {Option("Buy to Open", "Debit", 1), Option("Sell to Close", "Credit", 1),
              Option("Sell to Close", "Debit", 1), Vertical, SharesSold}
MCPrices == 1..2

\* A chain as it was when the day began, and one in which the low strike may only be closed.
Listing(strike, symbol, closingOnly) ==
  [strike |-> strike, symbol |-> symbol, active |-> TRUE, closingOnly |-> closingOnly, shares |-> 100]
MCChains == {{Listing(1, low, closing), Listing(3, high, FALSE)} : closing \in BOOLEAN}
Quote(bid, ask) == [bid |-> bid, ask |-> ask, fresh |-> TRUE]
MCQuotes == {[s \in {shares, low, high} |-> IF s = high THEN Quote(0, 1) ELSE Quote(1, 2)]}
MCTickRules == {[threshold |-> 0, value |-> 1]}
MCPositions == [s \in {shares, low, high} |-> IF s = high THEN 0 ELSE 1]

MCInit == part \in Parts /\ OrderInit /\ IntentInit
MCNext ==
  /\ UNCHANGED part
  /\ \/ part = "placement" /\ OrderNext /\ UNCHANGED intentVars
     \/ part = "intent" /\ IntentNext /\ UNCHANGED orderVars
MCSpec == MCInit /\ [][MCNext]_<<part, orderVars, intentVars>>
==============================================================================
