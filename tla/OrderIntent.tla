------------------------------ MODULE OrderIntent ------------------------------
(***************************************************************************)
(* What a placement sends, and what is believed of it afterwards.          *)
(*                                                                         *)
(* A ticket names an underlying, strikes, a side and a limit; the contract *)
(* it means is read from the live chain, the guards judge it against the   *)
(* account and the market, and the body that is sent is kept beside the    *)
(* ticket in broker_submissions.  A replacement names only an order and a  *)
(* price: its shape is rebuilt from the row of the order it replaces.      *)
(*                                                                         *)
(* Placements hold the account's mutation lease (MutationLease), so there  *)
(* is one at a time; OrderPlacement has the lease, the deadline and the    *)
(* late arrivals.  Meanwhile orders fill, the member trades from the       *)
(* broker's own app, and a cancellation needs no lease.                    *)
(***************************************************************************)
EXTENDS Integers, Sequences, FiniteSets

CONSTANTS
  Tickets,     \* the fresh orders a caller may ask for, well formed or not
  Prices,      \* limit prices of a replacement
  Chains,      \* answers of the option chain: sets of listings
  Quotes,      \* answers of the market, one quote per symbol
  TickRules,   \* the tick schedule of the underlying's options
  Share,       \* the symbol of the underlying's shares
  Positions,   \* the account's positions to begin with
  MaxAsks,     \* bound: placements
  MaxStirs     \* bound: the member's own actions in the broker's app

Buys == {"Buy to Open", "Buy to Close"}
Closes == {"Sell to Close", "Buy to Close"}
Symbols == DOMAIN Positions

\* A fresh order: shares have no strike, an option has one and a vertical has two.
StrikeCount == [equity |-> 0, option |-> 1, spread |-> 2]
FreshOrder ==
  {t \in [kind : DOMAIN StrikeCount, side : Buys \cup Closes \cup {"none"}, strikes : Seq(Int),
          quantity : Nat \ {0}, effect : {"Debit", "Credit"}, price : Int] :
     Len(t.strikes) = StrikeCount[t.kind]}

ASSUME IntentAssumption ==
  /\ Tickets \subseteq FreshOrder /\ Prices \subseteq Int
  /\ Positions \in [Symbols -> Int] /\ Share \in Symbols
  /\ \A chain \in Chains : \A l \in chain : l.symbol \in Symbols

VARIABLES
  held,     \* the account's position in each symbol, negative when short
  book,     \* the broker's orders of the account; an order's id is its place
  ledger,   \* the broker_submissions rows of the account
  call,     \* the placement that holds the lease
  asks,     \* placements so far
  stirs     \* the member's own actions so far
intentVars == <<held, book, ledger, call, asks, stirs>>

NoPayload == [legs |-> <<>>, effect |-> "Debit", price |-> 0, strict |-> FALSE]
Idle == [step |-> "idle"]
Asking(action, ticket) ==
  [step |-> "resolving", action |-> action, source |-> ticket, ticket |-> ticket,
   payload |-> NoPayload, order |-> 0]

\* The member asks for a fresh order, or for another price of order #`order`.
Replacements == [kind: {"replace"}, order: DOMAIN book, price: Prices]

IntentInit ==
  /\ held = Positions
  /\ book = <<>> /\ ledger = <<>>
  /\ call = Idle
  /\ asks = 0 /\ stirs = 0

-----------------------------------------------------------------------------
(* The order as the program builds it.                                     *)

\* FreshOrderPlacementSchema's refinements, for calls: a buy is a debit, a sale a
\* credit; a vertical is a debit below its width.
WellFormed(t) ==
  IF t.kind = "spread"
  THEN t.strikes[1] < t.strikes[2] /\ t.price < t.strikes[2] - t.strikes[1]
  ELSE t.effect = (IF t.side \in Buys THEN "Debit" ELSE "Credit")

\* equityOptionContractFromChainTuple: the listings a strike may mean.
Candidates(chain, strike, opening) ==
  {l \in chain : l.strike = strike /\ l.active /\ (opening => ~l.closingOnly)}

Opens(t) == t.kind = "spread" \/ t.side \notin Closes

\* resolveFreshOrder: one contract for each strike, of one multiplier.
Resolves(t, chain) ==
  LET found == [k \in DOMAIN t.strikes |-> Candidates(chain, t.strikes[k], Opens(t))]
  IN  /\ \A k \in DOMAIN found : Cardinality(found[k]) = 1
      /\ \A j, k \in DOMAIN found : \A l \in found[j], m \in found[k] : l.shares = m.shares
ResolvedSymbols(t, chain) ==
  IF t.kind = "equity" THEN <<Share>>
  ELSE [k \in DOMAIN t.strikes |->
         (CHOOSE l \in Candidates(chain, t.strikes[k], Opens(t)) : TRUE).symbol]

\* buildOrderPayload: the legs in order; a closing leg is never to open instead.
BuildOrderPayload(t, symbols) ==
  LET sides == IF t.kind = "spread" THEN <<"Buy to Open", "Sell to Open">> ELSE <<t.side>>
  IN  [legs |-> [k \in DOMAIN symbols |->
                  [side |-> sides[k], symbol |-> symbols[k], quantity |-> t.quantity]],
       effect |-> t.effect, price |-> t.price,
       strict |-> \E k \in DOMAIN sides : sides[k] \in Closes]
SymbolsOf(payload) == [k \in DOMAIN payload.legs |-> payload.legs[k].symbol]

\* echoesOrderPayload: the broker's order states what was built.
EchoesOrderPayload(o, payload) ==
  o.legs = payload.legs /\ o.effect = payload.effect /\ o.price = payload.price

\* replacementOrderPayload: everything but the legs, which the broker keeps.
PriceAlone(payload) ==
  [effect |-> payload.effect, price |-> payload.price, strict |-> FALSE]
ReplacementOrderPayload(payload) ==
  [effect |-> payload.effect, price |-> payload.price, strict |-> payload.strict]

\* A stored action carries the whole order a replacement stood for.
Stored(action, whole) ==
  IF action.kind # "replace" THEN action
  ELSE [kind |-> "replace", order |-> action.order, price |-> action.price, of |-> whole]
StoredAction(c) == Stored(c.action, c.ticket)
EffectiveStoredOrder(action) == IF action.kind = "replace" THEN action.of ELSE action

\* sourceOrderAction: the executed rows of this account that carry the order's id.
SourceRows(n) == {i \in DOMAIN ledger : ledger[i].status = "executed" /\ ledger[i].order = n}

\* assertReplaceableOrder: the order still works, whole, as it was sent.
Replaceable(o, payload) == o.state = "live" /\ EchoesOrderPayload(o, payload) /\ o.filled = 0

-----------------------------------------------------------------------------
(* The guards.                                                             *)

\* assessPortfolioAction: a close up to the position it closes, an open only at a
\* debit; neither an open nor a sale beside short exposure.
ClosingPosition(t, symbol) ==
  IF t.side = "Sell to Close" THEN held[symbol] >= t.quantity ELSE -held[symbol] >= t.quantity
Unsupported == \E s \in Symbols : held[s] < 0
AssessPortfolioAction(t, symbols) ==
  IF t.kind # "spread" /\ t.side \in Closes
  THEN ClosingPosition(t, symbols[1]) /\ (t.side = "Sell to Close" => ~Unsupported)
  ELSE (t.kind = "spread" \/ (t.side = "Buy to Open" /\ t.effect = "Debit")) /\ ~Unsupported

\* tickSizeAt: an option's thresholds are exclusive upper cutoffs, and the tier
\* without one applies from the last cutoff up; a share's are lower floors.
Bounded == {r \in TickRules : r.threshold # 0}
TickSizeAt(price, kind) ==
  LET above == {r \in Bounded : price < r.threshold}
      below == {r \in Bounded : price >= r.threshold}
      base == CHOOSE r \in TickRules : r.threshold = 0
  IN  IF kind = "equity"
      THEN IF below = {} THEN base.value
           ELSE (CHOOSE r \in below : \A q \in below : q.threshold <= r.threshold).value
      ELSE IF above = {} THEN base.value
           ELSE (CHOOSE r \in above : \A q \in above : r.threshold <= q.threshold).value

\* orderMarketFromPayloads, spreadOrderMarketFromPayloads: fresh two-sided quotes,
\* the limit on its tick and within them; a spread's are the legs' natural ones.
NotBelowZero(n) == IF n < 0 THEN 0 ELSE n
MarketSafe(t, symbols, quotes) ==
  LET q == [k \in DOMAIN symbols |-> quotes[symbols[k]]]
      bid == IF t.kind = "spread" THEN NotBelowZero(q[1].bid - q[2].ask) ELSE q[1].bid
      ask == IF t.kind = "spread" THEN q[1].ask - q[2].bid ELSE q[1].ask
  IN  /\ \A k \in DOMAIN q : q[k].fresh /\ q[k].ask > 0 /\ q[k].bid <= q[k].ask
      /\ ask > 0
      /\ t.price % TickSizeAt(t.price, t.kind) = 0
      /\ bid <= t.price /\ t.price <= ask

-----------------------------------------------------------------------------
(* A placement, step by step under the lease.                              *)

Proceeds(record) == call' = record /\ UNCHANGED <<held, book, ledger, asks, stirs>>
At(step) == call.step = step

\* placeBrokerageOrder parses what it is given; a replacement needs the one row
\* that tells the shape of its order.
Ask ==
  /\ At("idle") /\ asks < MaxAsks
  /\ asks' = asks + 1
  /\ \/ \E t \in Tickets :
          /\ WellFormed(t)
          /\ call' = Asking(t, t)
     \/ \E a \in Replacements :
          /\ Cardinality(SourceRows(a.order)) = 1
          /\ \E i \in SourceRows(a.order) :
               call' = Asking(a, EffectiveStoredOrder(ledger[i].action))
  /\ UNCHANGED <<held, book, ledger, stirs>>

ResolveFreshOrder ==
  /\ At("resolving")
  /\ \E chain \in Chains :
       /\ Resolves(call.ticket, chain)
       /\ Proceeds([call EXCEPT
            !.step = IF call.action.kind = "replace" THEN "reading" ELSE "guarding",
            !.payload = BuildOrderPayload(call.ticket, ResolvedSymbols(call.ticket, chain))])

\* expandReplacement: the live order is what was sent; only its price will differ,
\* and the ticket with that price must pass the same refinements.
ExpandReplacement ==
  /\ At("reading")
  /\ Replaceable(book[call.action.order], call.payload)
  /\ LET replacement == [call.source EXCEPT !.price = call.action.price]
     IN  /\ WellFormed(replacement)
         /\ Proceeds([call EXCEPT !.step = "guarding", !.ticket = replacement,
                                  !.payload = BuildOrderPayload(replacement, SymbolsOf(call.payload))])

AssertPortfolioActionAllowed ==
  /\ At("guarding")
  /\ AssessPortfolioAction(call.ticket, SymbolsOf(call.payload))
  /\ Proceeds([call EXCEPT !.step = "pricing"])

AssertOrderMarketSafe ==
  /\ At("pricing")
  /\ \E quotes \in Quotes : MarketSafe(call.ticket, SymbolsOf(call.payload), quotes)
  /\ Proceeds([call EXCEPT !.step = "dryRun"])

\* Any read may fail, any guard refuse, the broker's dry run come back with an
\* error, a warning or another order; or the isolate ends.  Nothing was sent.
EndsUnsent ==
  /\ call.step \in {"resolving", "reading", "guarding", "pricing", "dryRun"}
  /\ Proceeds(Idle)

\* The dry run was clean; the claim is written, unless the account has one unresolved.
ClaimRow ==
  /\ At("dryRun")
  /\ \A i \in DOMAIN ledger : ledger[i].status # "unresolved"
  /\ ledger' = Append(ledger, [action |-> StoredAction(call), payload |-> call.payload,
                               status |-> "unresolved", order |-> 0, since |-> Len(book)])
  /\ call' = [call EXCEPT !.step = "sending"]
  /\ UNCHANGED <<held, book, asks, stirs>>

\* The broker's answer to the request: an exact receipt, an exact echo that says
\* rejected, a refusal, or nothing this program can verify, in which case the
\* order may be there or not.
Works(n) == n \in DOMAIN book /\ book[n].state = "live"
PlacedOrder(payload, replaces, state) ==
  [legs |-> payload.legs, effect |-> payload.effect, price |-> payload.price,
   strict |-> payload.strict, filled |-> 0, state |-> state, replaces |-> replaces]
Receives(state) ==
  IF call.action.kind # "replace"
  THEN book' = Append(book, PlacedOrder(call.payload, 0, state))
  ELSE LET n == call.action.order
           body == ReplacementOrderPayload(call.payload)
           o == [book[n] EXCEPT !.effect = body.effect, !.price = body.price, !.strict = body.strict]
       IN  /\ Works(n) /\ book[n].filled = 0
           /\ book' = Append(IF state = "live" THEN [book EXCEPT ![n].state = "replaced"] ELSE book,
                             PlacedOrder(o, n, state))

\* validatePlacedOrderResponse, validateReplacementReceipt.
SendOrder ==
  /\ At("sending")
  /\ \/ \E state \in {"live", "rejected"} :
          /\ Receives(state)
          /\ LET o == book'[Len(book')]
                 exact == EchoesOrderPayload(o, call.payload)
             IN  \/ /\ exact
                    /\ call' = [call EXCEPT !.step = "settling",
                                            !.order = IF state = "live" THEN Len(book') ELSE 0]
                 \/ call' = Idle                          \* lost, late or not an exact receipt
     \/ UNCHANGED book /\ call' = [call EXCEPT !.step = "settling"]   \* refused
     \/ UNCHANGED book /\ call' = Idle                    \* never sent, and nobody knows
  /\ UNCHANGED <<held, ledger, asks, stirs>>

\* settleSubmission, in the one row the lease leaves unresolved; the write may fail.
Recorded(i, n) == [ledger EXCEPT ![i].status = IF n = 0 THEN "failed" ELSE "executed", ![i].order = n]
SettleRow ==
  /\ At("settling")
  /\ ledger' = Recorded(Len(ledger), call.order) \/ UNCHANGED ledger
  /\ call' = Idle
  /\ UNCHANGED <<held, book, asks, stirs>>

-----------------------------------------------------------------------------
(* Everything beside it.                                                   *)

\* resolveStoredOrderFingerprint: the stored body must be the stored action's.
Fingerprint(row) ==
  BuildOrderPayload(EffectiveStoredOrder(row.action), SymbolsOf(row.payload)) = row.payload

\* The orders of the history that may be the row's: of its window, exact, of the
\* order it replaces, and owned by no other row.
MatchesOf(row) ==
  {n \in DOMAIN book : /\ n > row.since
                       /\ EchoesOrderPayload(book[n], row.payload)
                       /\ row.action.kind = "replace" => book[n].replaces = row.action.order
                       /\ \A i \in DOMAIN ledger : ledger[i].order # n}

\* reconcileUnderLease, when the wait for absence is over: one match settles the
\* row, none settles it as failed, more leave it.
Reconcile ==
  /\ At("idle")
  /\ \E i \in DOMAIN ledger :
       /\ ledger[i].status = "unresolved" /\ Fingerprint(ledger[i])
       /\ \/ MatchesOf(ledger[i]) = {} /\ ledger' = Recorded(i, 0)
          \/ \E n \in MatchesOf(ledger[i]) :
               /\ MatchesOf(ledger[i]) = {n}
               /\ ledger' = Recorded(i, IF book[n].state = "rejected" THEN 0 ELSE n)
  /\ UNCHANGED <<held, book, call, asks, stirs>>

\* cancelBrokerageOrder: outside the lease, sent once, whatever the answer.
CancelOrder ==
  /\ \E n \in DOMAIN book : Works(n) /\ book' = [book EXCEPT ![n].state = "cancelled"]
  /\ UNCHANGED <<held, ledger, call, asks, stirs>>

\* The broker fills one unit of an order, all its legs; a strict order it can no
\* longer fill as the close it was is removed.
Signed(side) == IF side \in Buys THEN 1 ELSE -1
Closing(leg) == leg.side \in Closes
CanClose(leg) == IF leg.side = "Sell to Close" THEN held[leg.symbol] > 0 ELSE held[leg.symbol] < 0
Fill ==
  /\ \E n \in DOMAIN book :
       LET o == book[n]
           beyond == o.strict /\ \E k \in DOMAIN o.legs : Closing(o.legs[k]) /\ ~CanClose(o.legs[k])
           last == o.filled + 1 = o.legs[1].quantity
       IN  /\ Works(n)
           /\ IF beyond
              THEN book' = [book EXCEPT ![n].state = "rejected"] /\ UNCHANGED held
              ELSE /\ book' = [book EXCEPT ![n].filled = o.filled + 1,
                                           ![n].state = IF last THEN "filled" ELSE "live"]
                   /\ held' = [s \in Symbols |->
                        LET legs == {k \in DOMAIN o.legs : o.legs[k].symbol = s}
                        IN  IF legs = {} THEN held[s]
                            ELSE held[s] + Signed(o.legs[CHOOSE k \in legs : TRUE].side)]
  /\ UNCHANGED <<ledger, call, asks, stirs>>

\* From the broker's own app the member sells, or moves an order to another price.
AppTrades ==
  /\ stirs < MaxStirs /\ stirs' = stirs + 1
  /\ \/ \E s \in Symbols : held[s] > 0 /\ held' = [held EXCEPT ![s] = @ - 1] /\ UNCHANGED book
     \/ \E n \in DOMAIN book, p \in Prices :
          /\ Works(n) /\ book[n].filled = 0
          /\ book' = Append([book EXCEPT ![n].state = "replaced"],
                            PlacedOrder([book[n] EXCEPT !.price = p], n, "live"))
          /\ UNCHANGED held
  /\ UNCHANGED <<ledger, call, asks>>

IntentNext ==
  \/ Ask \/ ResolveFreshOrder \/ ExpandReplacement
  \/ AssertPortfolioActionAllowed \/ AssertOrderMarketSafe \/ EndsUnsent
  \/ ClaimRow \/ SendOrder \/ SettleRow
  \/ Reconcile \/ CancelOrder \/ Fill \/ AppTrades

IntentSpec == IntentInit /\ [][IntentNext]_intentVars

-----------------------------------------------------------------------------
\* A row the program wrote is never refused by the fingerprint it is reconciled by:
\* a quarantine could not end otherwise.
RowsRebuild == \A i \in DOMAIN ledger : Fingerprint(ledger[i])

\* A row settled as executed tells the order it names, and no other row names it;
\* a replacement's names the order that stands in the place of the one it replaced,
\* with its legs.
ExecutedIsOwn ==
  \A i \in DOMAIN ledger : ledger[i].status = "executed" =>
    LET o == book[ledger[i].order]
    IN  /\ EchoesOrderPayload(o, ledger[i].payload)
        /\ SourceRows(ledger[i].order) = {i}
        /\ ledger[i].action.kind = "replace" =>
             o.replaces = ledger[i].action.order /\ o.legs = book[o.replaces].legs

\* What the rows say of the orders, however often an order was replaced, by whom,
\* and whatever answers were lost.
IntentInv == RowsRebuild /\ ExecutedIsOwn

\* A closing order only ever brings its position nearer to nothing, also when it was
\* replaced, and when the position moved after the guard had seen it.
ClosesOnlyClose ==
  [][\A n \in DOMAIN book : book'[n].filled > book[n].filled =>
       \A k \in DOMAIN book[n].legs :
         LET leg == book[n].legs[k]
         IN  Closing(leg) => IF leg.side = "Sell to Close" THEN held'[leg.symbol] >= 0
                             ELSE held'[leg.symbol] <= 0]_intentVars

\* A replaced order stays what its member meant: its row can be told, and its close closes.
IntentKept == []IntentInv /\ ClosesOnlyClose
==============================================================================
