----------------------------- MODULE AccountReads -----------------------------
(***************************************************************************)
(* What an agent is told when it reads (brokerage-read-tools.ts over       *)
(* brokers/tastytrade.ts): the account, from four pages the broker answers *)
(* at four instants of a market that moves; the account's history, page by *)
(* page while rows arrive and leave the window; the contracts of an option *)
(* chain with their activity; quotes and metrics.  A read refuses what it  *)
(* cannot believe, whole; it never answers a part for the whole.           *)
(*                                                                         *)
(* One reader is modelled: readers share nothing but the account.          *)
(***************************************************************************)
EXTENDS Integers, Sequences, FiniteSets

CONSTANTS
  Held,             \* symbols a position can have
  Placed,           \* orders that can be at the broker
  Complex,          \* of Placed: the orders of a complex order, with which they are listed
  PageSize,         \* BROKER_ACCOUNT_PAGE_SIZE
  PageLimit,        \* limit, the rows of a page of history
  OptionListing,    \* contracts of a chain: [expiry, strike, optionType]
  MaxContracts,     \* MAX_OPTION_CONTRACTS
  MaxExpirations,   \* MAX_OPTION_EXPIRATIONS
  ChunkSize,        \* BROKER_SYMBOL_CHUNK_SIZE
  Quoted,           \* symbols that can be asked for
  MaxMoves,         \* bound: changes of the account during a read
  MaxRows           \* bound: rows of history, the ones that arrive included

ASSUME AccountReadsAssumption ==
  /\ IsFiniteSet(Held) /\ IsFiniteSet(Placed) /\ IsFiniteSet(Quoted) /\ Complex \subseteq Placed
  /\ IsFiniteSet(OptionListing) /\ OptionListing \subseteq [expiry : Nat, strike : Nat, optionType : Nat]
  /\ PageSize \in Nat \ {0} /\ PageLimit \in Nat \ {0} /\ ChunkSize \in Nat \ {0}
  /\ MaxContracts \in Nat \ {0} /\ MaxExpirations \in Nat \ {0}
  /\ MaxMoves \in Nat /\ MaxRows \in Nat

VARIABLES
  holding,    \* of a symbol: "none", an "open" position, or a row left "flat"
  orders,     \* of an order: "none", "working" or "done", still listed for the day
  moves,
  snapshot,   \* readAccountSnapshot: what each page answered, the answer, and what was
              \* true from the first request on, or at some instant since
  history,       \* the rows of the account's history, the newest first
  arrived,
  paging,     \* the reader of the history: its next page and what it was shown
  lookup      \* the last read of a chain, of quotes or of metrics

readsVars == <<holding, orders, moves, snapshot, history, arrived, paging, lookup>>

None == "none"
Unbelieved == "refused"
Parts == {"positions", "balances", "orders", "complex-orders"}

Open(h) == {s \in Held : h[s] = "open"}
Working(o) == {i \in Placed : o[i] = "working"}
Facts(h, o) == [positions |-> Open(h), orders |-> Working(o)]

NoFacts == [positions |-> {}, orders |-> {}]
NoRead == [step |-> "idle", pages |-> [p \in Parts |-> [is |-> None, rows |-> {}]],
           answer |-> NoFacts, steady |-> NoFacts, ever |-> NoFacts]
NoPaging == [step |-> "idle", page |-> 0, seen |-> {}, steady |-> {}]
NoLookup == [kind |-> None, listed |-> {}, matching |-> {}, activity |-> <<>>,
             near |-> 0, answer |-> {}, missing |-> {}, truncated |-> FALSE]

ReadsInit ==
  /\ holding \in [Held -> {None, "open", "flat"}] /\ orders \in [Placed -> {None, "working"}] /\ moves = 0
  /\ snapshot = NoRead
  /\ history \in {[i \in 1..n |-> n + 1 - i] : n \in 0..MaxRows} /\ arrived = Len(history)
  /\ paging = NoPaging /\ lookup = NoLookup

(***************************************************************************)
(* A page of the broker, and what of it is believed                        *)
(***************************************************************************)

\* pagination.total-items: the declared total, none, or one that cannot be read.
Undeclared == -1
Unreadable == -2
Totals(n) == {n, Undeclared, Unreadable}

\* The broker's page: all that is listed, or as many as a page takes.
PagesOf(listed, size) ==
  {page \in SUBSET listed : Cardinality(page) = IF Cardinality(listed) < size THEN Cardinality(listed) ELSE size}

FullPageBelieved(page, total) == total \in {Undeclared, Cardinality(page)}

\* completeAccountRows: a page short of its total, or a full one that declares
\* none, may not be the whole account.
CompleteAccountRows(page, total) ==
  /\ total # Unreadable
  /\ total = Undeclared => Cardinality(page) < PageSize
  /\ total # Undeclared => total = Cardinality(page)

\* positionFromRecord: a flat row holds nothing.
NormalizedPositions(page) == {s \in page : holding[s] = "open"}
\* workingOrderRecords: only a row verified as terminal is left out, and a complex
\* order stands for the orders nested in it.
WorkingOrderRecords(page) == {i \in page : orders[i] = "working"}

\* What a part of the account lists; the orders of a complex order are one row of
\* its page.
ComplexOrder == "complex"
Listed(part) ==
  CASE part = "positions" -> {s \in Held : holding[s] # None}
    [] part = "orders" -> {i \in Placed \ Complex : orders[i] # None}
    [] part = "complex-orders" -> IF \E i \in Complex : orders[i] # None THEN {ComplexOrder} ELSE {}
    [] OTHER -> {}
Normalized(part, page) ==
  CASE part = "positions" -> NormalizedPositions(page)
    [] part = "orders" -> WorkingOrderRecords(page)
    [] part = "complex-orders" -> IF page = {} THEN {} ELSE WorkingOrderRecords(Complex)
    [] OTHER -> {}

(***************************************************************************)
(* The account snapshot                                                    *)
(***************************************************************************)

\* The four requests leave together, once the account number is resolved.
LoadAccountSnapshot ==
  /\ snapshot.step = "idle"
  /\ snapshot' = [NoRead EXCEPT !.step = "reading", !.steady = Facts(holding, orders), !.ever = Facts(holding, orders)]
  /\ UNCHANGED <<holding, orders, moves, history, arrived, paging, lookup>>

PageAnswers(part, is, found) ==
  snapshot' = [snapshot EXCEPT !.pages[part] = [is |-> is, rows |-> found]]

\* The broker answers one of them, at an instant of its own.
PageAnswered(part) ==
  /\ snapshot.step = "reading" /\ snapshot.pages[part].is = None
  /\ \E page \in PagesOf(Listed(part), PageSize) : \E total \in Totals(Cardinality(Listed(part))) :
       IF part = "balances" \/ CompleteAccountRows(page, total)
       THEN PageAnswers(part, "read", Normalized(part, page))
       ELSE PageAnswers(part, "page", {})
  /\ UNCHANGED <<holding, orders, moves, history, arrived, paging, lookup>>

\* A record that cannot be read, or a balance of another account, refuses its part.
RecordRefused(part) ==
  /\ snapshot.step = "reading" /\ snapshot.pages[part].is = None
  /\ part = "balances" \/ Listed(part) # {}
  /\ PageAnswers(part, "record", {})
  /\ UNCHANGED <<holding, orders, moves, history, arrived, paging, lookup>>

\* A request that is not answered fails the read at once (Promise.all).
RequestFails ==
  /\ snapshot.step = "reading" /\ \E p \in Parts : snapshot.pages[p].is = None
  /\ snapshot' = NoRead
  /\ UNCHANGED <<holding, orders, moves, history, arrived, paging, lookup>>

\* normalizedOrders: both pages together; an order in both is one order.
SnapshotOf(pages) ==
  [positions |-> pages["positions"].rows, orders |-> pages["orders"].rows \cup pages["complex-orders"].rows]

\* All four have answered: the snapshot is complete, or refused.
SnapshotEnds ==
  /\ snapshot.step = "reading" /\ \A p \in Parts : snapshot.pages[p].is # None
  /\ snapshot' = IF \A p \in Parts : snapshot.pages[p].is = "read"
                 THEN [snapshot EXCEPT !.step = "answered", !.answer = SnapshotOf(snapshot.pages)]
                 ELSE NoRead
  /\ UNCHANGED <<holding, orders, moves, history, arrived, paging, lookup>>

SnapshotTaken ==
  /\ snapshot.step = "answered" /\ snapshot' = NoRead
  /\ UNCHANGED <<holding, orders, moves, history, arrived, paging, lookup>>

Both(a, b) == [positions |-> a.positions \cap b.positions, orders |-> a.orders \cap b.orders]
Either(a, b) == [positions |-> a.positions \cup b.positions, orders |-> a.orders \cup b.orders]

\* The market and the member go on: an order is placed, ends, or fills and opens or
\* closes a position.
AccountMoves ==
  /\ snapshot.step = "reading" /\ moves < MaxMoves /\ moves' = moves + 1
  /\ \/ \E i \in Placed : orders[i] = None /\ orders' = [orders EXCEPT ![i] = "working"] /\ UNCHANGED holding
     \/ \E i \in Placed : /\ orders[i] = "working" /\ orders' = [orders EXCEPT ![i] = "done"]
                          /\ \/ UNCHANGED holding
                             \/ \E s \in Held : \E now \in {"open", "flat"} :
                                  holding' = [holding EXCEPT ![s] = now]
  /\ snapshot' = [snapshot EXCEPT !.steady = Both(@, Facts(holding', orders')),
                                  !.ever = Either(@, Facts(holding', orders'))]
  /\ UNCHANGED <<history, arrived, paging, lookup>>

(***************************************************************************)
(* The account's history, followed page by page                            *)
(***************************************************************************)

RowsOf(s) == {s[i] : i \in 1..Len(s)}

FollowHistory ==
  /\ paging.step = "idle"
  /\ paging' = [NoPaging EXCEPT !.step = "reading", !.steady = RowsOf(history)]
  /\ UNCHANGED <<holding, orders, moves, snapshot, history, arrived, lookup>>

\* A page of the broker: PageLimit rows of the list as it is now, or more of them
\* than were asked for.
PageRows(offset, extra) ==
  SubSeq(history, offset * PageLimit + 1,
         IF offset * PageLimit + PageLimit + extra < Len(history) THEN offset * PageLimit + PageLimit + extra ELSE Len(history))

\* readAccountHistory: the rows of the page that are returned, and whether there may
\* be more behind them.
Items(page) == SubSeq(page, 1, IF Len(page) < PageLimit THEN Len(page) ELSE PageLimit)
Truncated(offset, page, total) ==
  \/ Len(page) > PageLimit
  \/ IF total = Undeclared THEN Len(page) = PageLimit
     ELSE offset * PageLimit + Len(Items(page)) < total

ReadAccountHistory ==
  /\ paging.step = "reading"
  /\ \E extra \in 0..1 : \E total \in {Len(history), Undeclared} :
       LET page == PageRows(paging.page, extra)
       IN paging' = [paging EXCEPT !.page = @ + 1, !.seen = @ \cup RowsOf(Items(page)),
                                   !.step = IF Truncated(paging.page, page, total) THEN "reading" ELSE "done"]
  /\ UNCHANGED <<holding, orders, moves, snapshot, history, arrived, lookup>>

\* A total or a row that cannot be read, a row of another kind than was asked for, or
\* no answer: the page is refused, and the reader gives up.
HistoryRefused ==
  /\ paging.step \in {"reading", "done"} /\ paging' = NoPaging
  /\ UNCHANGED <<holding, orders, moves, snapshot, history, arrived, lookup>>

RowArrives ==
  /\ paging.step = "reading" /\ arrived < MaxRows /\ arrived' = arrived + 1
  /\ history' = <<arrived + 1>> \o history
  /\ UNCHANGED <<holding, orders, moves, snapshot, paging, lookup>>

\* The day turns, and the oldest row leaves the window (dateDaysAgo).
RowLeaves ==
  /\ paging.step = "reading" /\ Len(history) > 0
  /\ history' = SubSeq(history, 1, Len(history) - 1)
  /\ paging' = [paging EXCEPT !.steady = @ \cap RowsOf(history')]
  /\ UNCHANGED <<holding, orders, moves, snapshot, arrived, lookup>>

(***************************************************************************)
(* The contracts of a chain                                                *)
(***************************************************************************)

NoCount == -1
Distance(a, b) == IF a < b THEN b - a ELSE a - b

\* The first n of S in the order Before.
First(S, Before(_, _), n) == {c \in S : Cardinality({d \in S : Before(d, c)}) < n}

\* By expiration, then by distance when there is a strike to look near, then by
\* activity: compareCountDesc puts a missing count behind every reading, zero included.
Key(near, activity, c) ==
  <<c.expiry, IF near = 0 THEN 0 ELSE Distance(c.strike, near), -activity[c], c.strike, c.optionType>>
Precedes(near, activity, c, d) ==
  LET k == Key(near, activity, c)
      l == Key(near, activity, d)
  IN \E i \in 1..5 : k[i] < l[i] /\ \A j \in 1..(i - 1) : k[j] = l[j]
NoActivity == [c \in OptionListing |-> NoCount]

CutBeforeRanking(near, matching) ==
  LET before(c, d) == Precedes(near, NoActivity, c, d) IN First(matching, before, MaxContracts)

\* The rows that are asked for their activity: nearStrike picks the window, and
\* activity only orders it; without it the whole listed set is ranked, then cut.
Candidates(near, matching) ==
  IF near = 0 THEN matching
  ELSE LET before(c, d) == Precedes(near, NoActivity, c, d) IN First(matching, before, MaxContracts)
Ranked(near, activity, candidates) ==
  LET before(c, d) == Precedes(near, activity, c, d) IN First(candidates, before, MaxContracts)

\* readOptionActivity: the candidates are asked for ChunkSize at a time, and a chunk
\* that answers nothing for a contract leaves it without a count.
Chunks(candidates) == (Cardinality(candidates) + ChunkSize - 1) \div ChunkSize
ReadOptionActivity(candidates, told) ==
  [c \in OptionListing |-> IF c \in candidates /\ Chunks(candidates) > 0 THEN told[c] ELSE NoCount]

\* Of the chain, only contracts of the standard chain that are active count.
Chains == [OptionListing -> {"active", "other"}]
ParseActiveStandardOption(chain) == {c \in OptionListing : chain[c] = "active"}

\* What of them is asked for; 0 stands for a field that was left out.
Discoverable(standard, optionType, strike) ==
  {c \in standard : (optionType # 0 => c.optionType = optionType) /\ (strike # 0 => c.strike = strike)}

\* findOptionContracts, of a strike, near a strike, or of one expiration.
FindOptionContracts ==
  /\ lookup.kind = None
  /\ \E chain \in Chains : \E told \in [OptionListing -> NoCount..1] :
     \E near, strike \in {0, 2} : \E expiry, optionType \in {0, 1} :
       LET standard == ParseActiveStandardOption(chain)
           matching == {c \in Discoverable(standard, optionType, strike) : expiry # 0 => c.expiry = expiry}
           candidates == Candidates(near, matching)
           activity == ReadOptionActivity(candidates, told)
           found == Ranked(near, activity, candidates)
       IN /\ near # 0 \/ strike # 0 \/ expiry # 0
          /\ lookup' = [NoLookup EXCEPT !.kind = "contracts", !.listed = standard, !.matching = matching,
                          !.activity = told, !.near = near, !.answer = found,
                          !.truncated = Cardinality(found) < Cardinality(matching)]
  /\ UNCHANGED <<holding, orders, moves, snapshot, history, arrived, paging>>

\* The same, with neither: the expirations there are.
FindExpirations ==
  /\ lookup.kind = None
  /\ \E chain \in Chains : \E optionType \in {0, 1} :
       LET standard == ParseActiveStandardOption(chain)
           dates == {c.expiry : c \in Discoverable(standard, optionType, 0)}
           before(d, e) == d < e
       IN lookup' = [NoLookup EXCEPT !.kind = "expirations", !.listed = standard, !.matching = dates,
                       !.answer = First(dates, before, MaxExpirations),
                       !.truncated = Cardinality(dates) > MaxExpirations]
  /\ UNCHANGED <<holding, orders, moves, snapshot, history, arrived, paging>>

(***************************************************************************)
(* Quotes and metrics                                                      *)
(***************************************************************************)

\* A field of a row, as it was sent: optionalText, optionalNumber and their kin refuse
\* what they cannot read and tell a field that was not sent as one that was not; a
\* field that is required (requiredText, requiredTimestamp) refuses that as well.
Fields == {"sent", "absent", "junk"}
OptionalField(field) == IF field = "junk" THEN Unbelieved ELSE field
RequiredField(field) == IF OptionalField(field) = "sent" THEN "sent" ELSE Unbelieved

\* Of a symbol: its row, or none.  A bid above its ask is junk, as is a row of another
\* kind of instrument.
NoRow == [reading |-> None, at |-> None]
BrokerRows == [Quoted -> {NoRow} \cup [reading : Fields, at : Fields]]
RowsIn(answer) == {s \in Quoted : answer[s] # NoRow}

QuoteFromRecord(row) == RequiredField(row.reading) # Unbelieved /\ RequiredField(row.at) # Unbelieved
CompactMetric(row) == OptionalField(row.reading) # Unbelieved /\ OptionalField(row.at) # Unbelieved

\* readInstrumentQuotes: every instrument has its row, and there is no other.
ReadInstrumentQuotes ==
  /\ lookup.kind = None
  /\ \E asked \in (SUBSET Quoted) \ {{}} : \E answer \in BrokerRows :
       /\ RowsIn(answer) = asked /\ \A s \in asked : QuoteFromRecord(answer[s])
       /\ lookup' = [NoLookup EXCEPT !.kind = "quotes", !.matching = asked, !.answer = RowsIn(answer)]
  /\ UNCHANGED <<holding, orders, moves, snapshot, history, arrived, paging>>

\* readMarketMetrics: no row but of the symbols asked for, and the ones without a row
\* are named.
ReadMarketMetrics ==
  /\ lookup.kind = None
  /\ \E asked \in (SUBSET Quoted) \ {{}} : \E answer \in BrokerRows :
       /\ RowsIn(answer) \subseteq asked /\ \A s \in RowsIn(answer) : CompactMetric(answer[s])
       /\ lookup' = [NoLookup EXCEPT !.kind = "metrics", !.matching = asked,
                       !.answer = {s \in asked : answer[s].reading = "sent"}, !.missing = asked \ RowsIn(answer)]
  /\ UNCHANGED <<holding, orders, moves, snapshot, history, arrived, paging>>

\* searchSymbols: the broker's rows, no more than were asked for, and how many there
\* were.
SearchSymbols ==
  /\ lookup.kind = None
  /\ \E listed \in SUBSET Quoted : \E few \in PagesOf(listed, PageLimit) :
       lookup' = [NoLookup EXCEPT !.kind = "search", !.matching = listed, !.answer = few,
                    !.truncated = Cardinality(few) < Cardinality(listed)]
  /\ UNCHANGED <<holding, orders, moves, snapshot, history, arrived, paging>>

LookupTaken ==
  /\ lookup.kind # None /\ lookup' = NoLookup
  /\ UNCHANGED <<holding, orders, moves, snapshot, history, arrived, paging>>

SnapshotReads ==
  \/ LoadAccountSnapshot \/ RequestFails \/ SnapshotEnds \/ SnapshotTaken \/ AccountMoves
  \/ \E part \in Parts : PageAnswered(part) \/ RecordRefused(part)
HistoryReads == FollowHistory \/ ReadAccountHistory \/ HistoryRefused \/ RowArrives \/ RowLeaves
Lookups == FindOptionContracts \/ FindExpirations \/ ReadInstrumentQuotes \/ ReadMarketMetrics
           \/ SearchSymbols \/ LookupTaken
ReadsNext == SnapshotReads \/ HistoryReads \/ Lookups
ReadsSpec == ReadsInit /\ [][ReadsNext]_readsVars

(***************************************************************************)
(* Properties                                                              *)
(***************************************************************************)

ReadsTypeOK ==
  /\ holding \in [Held -> {None, "open", "flat"}] /\ orders \in [Placed -> {None, "working", "done"}]
  /\ moves \in 0..MaxMoves /\ arrived \in 0..MaxRows /\ RowsOf(history) \subseteq 1..arrived
  /\ snapshot.step \in {"idle", "reading", "answered"} /\ paging.step \in {"idle", "reading", "done"}

\* A snapshot that is answered, not refused, holds every position and every working
\* order that was there from its first request to its last page, and nothing that
\* never was, however the account moved between its four pages.
SnapshotWhole ==
  snapshot.step = "answered" =>
    /\ snapshot.steady.positions \subseteq snapshot.answer.positions
    /\ snapshot.steady.orders \subseteq snapshot.answer.orders
    /\ snapshot.answer.positions \subseteq snapshot.ever.positions
    /\ snapshot.answer.orders \subseteq snapshot.ever.orders

\* A reader who follows the history until it is no longer truncated has seen every row
\* that was in the window all along, though rows arrive and leave between its pages.
HistoryWhole == paging.step = "done" => paging.steady \subseteq paging.seen

\* The account is read whole or not at all (readAccountSnapshot, readAccountHistory).
ReadsWhole == ReadsTypeOK /\ SnapshotWhole /\ HistoryWhole

\* No contract is left out of an answer in favour of one that is later, farther from
\* the strike that was named or, where none was, less active, and an answer that was
\* cut says so (findOptionContracts, searchSymbols); a quote is given for all that was
\* asked for, and a metric that is neither given nor missing was not sent.
LookupsHonest ==
  /\ lookup.kind = "contracts" =>
       /\ lookup.answer \subseteq lookup.listed
       /\ \A c \in lookup.matching \ lookup.answer : \A d \in lookup.answer :
            /\ d.expiry <= c.expiry
            /\ (d.expiry = c.expiry /\ lookup.near # 0) =>
                 Distance(d.strike, lookup.near) <= Distance(c.strike, lookup.near)
            /\ (d.expiry = c.expiry /\ lookup.near = 0) => lookup.activity[d] >= lookup.activity[c]
  /\ lookup.kind \in {"contracts", "expirations", "search"} => (lookup.truncated <=> lookup.answer # lookup.matching)
  /\ lookup.kind = "quotes" => lookup.answer = lookup.matching
  /\ lookup.kind = "metrics" => lookup.answer \cap lookup.missing = {} /\ lookup.answer \subseteq lookup.matching

\* What a reader is told is whole, and is what was asked for.
ReadsInv == ReadsWhole /\ LookupsHonest
=============================================================================
