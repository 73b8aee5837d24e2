--------------------------- MODULE ProviderProofs ---------------------------
(***************************************************************************)
(* What the provider is asked for: the permits that space the requests to  *)
(* it, the one connection of the live feed, and the refreshes of the       *)
(* public snapshot, for any number of callers, browsers, reads, symbols,   *)
(* readers and isolates.                                                   *)
(*                                                                         *)
(* The feed's invariant is about one record, the relay, so it is stated of *)
(* a record, and each method of the relay is a lemma about the record it   *)
(* leaves.  Whatever changed meanwhile, the last run of reconcile puts     *)
(* everything right (ReconcileOnceIs); in between, what must hold is that  *)
(* nobody believes in a connection that is not authorized (Unbelieved).    *)
(***************************************************************************)
EXTENDS PermitQueue, MarketFeed, PublicSnapshot, FiniteSetTheorems, WellFoundedInduction, TLAPS

(***************************************************************************)
(* The permits                                                             *)
(*                                                                         *)
(* PermitInv is inductive: PermitsSpaced alone is not, for a new slot is   *)
(* apart from the old ones only because all of them lie before             *)
(* nextPermitAt, and after an eviction only because those that survive it  *)
(* lie before what was written.                                            *)
(***************************************************************************)

\* The schedule starts empty.
LEMMA InitPermitInv == Init => PermitInv
  BY PermitAssumption DEF Init, PermitInv, TypeOK, PermitsSpaced, Holders

\* The schedule is never undone by a step.
LEMMA StepPermitInv == PermitInv /\ [Next]_vars => PermitInv'
<1> SUFFICES ASSUME PermitInv, [Next]_vars PROVE PermitInv'
  OBVIOUS
<1> USE PermitAssumption DEF PermitInv, TypeOK, PermitsSpaced, Holders
<1>1. ASSUME NEW c \in Calls, Acquire(c) PROVE PermitInv'
  <2> DEFINE at == Later(clock, nextPermitAt)
  <2>1. at \in Nat /\ at >= nextPermitAt
    BY DEF Later
  <2>2. /\ state[c] = "idle"
        /\ permitAt' = [permitAt EXCEPT ![c] = at]
        /\ nextPermitAt' = at + PermitInterval
        /\ state' = [state EXCEPT ![c] = "writing"]
        /\ UNCHANGED <<clock, stored, evictions>>
    BY <1>1 DEF Acquire
  <2> HIDE DEF at
  <2>3. Holders' = Holders \cup {c}
    BY <2>2
  <2>4. TypeOK'
    BY <2>1, <2>2
  <2>5. PermitsSpaced'
    BY <2>1, <2>2
  <2>6. /\ (stored <= nextPermitAt)'
        /\ (\A d \in Holders : permitAt[d] + PermitInterval <= nextPermitAt)'
    BY <2>1, <2>2
  <2>7. /\ (\A d \in Holders : state[d] # "writing" => permitAt[d] + PermitInterval <= stored)'
        /\ (\A d \in Calls : state[d] = "writing" => permitAt[d] >= stored)'
    BY <2>1, <2>2
  <2> QED
    BY <2>4, <2>5, <2>6, <2>7
<1>2. ASSUME NEW c \in Calls, Written(c) PROVE PermitInv'
  <2>1. /\ state[c] = "writing"
        /\ stored' = permitAt[c] + PermitInterval
        /\ state' = [d \in Calls |->
             IF state[d] = "writing" /\ permitAt[d] <= permitAt[c] THEN "waiting" ELSE state[d]]
        /\ UNCHANGED <<clock, nextPermitAt, permitAt, evictions>>
    BY <1>2 DEF Written
  <2>2. Holders' = Holders
    BY <2>1
  <2>3. TypeOK' /\ PermitsSpaced'
    BY <2>1, <2>2
  <2>4. /\ (stored <= nextPermitAt)'
        /\ (\A d \in Holders : permitAt[d] + PermitInterval <= nextPermitAt)'
    BY <2>1, <2>2
  \* Every slot answered for before lies below the one now written.
  <2>5. (\A d \in Holders : state[d] # "writing" => permitAt[d] + PermitInterval <= stored)'
    BY <2>1
  <2>6. (\A d \in Calls : state[d] = "writing" => permitAt[d] >= stored)'
    BY <2>1
  <2> QED
    BY <2>3, <2>4, <2>5, <2>6
<1>3. ASSUME NEW c \in Calls, Grant(c) PROVE PermitInv'
  BY <1>3 DEF Grant
<1>4. CASE Evict
  BY <1>4 DEF Evict
<1>5. CASE Tick
  BY <1>5 DEF Tick
<1>6. CASE UNCHANGED vars
  BY <1>6 DEF vars
<1> QED
  BY <1>1, <1>2, <1>3, <1>4, <1>5, <1>6 DEF Next

\* What is durable covers every permit that may be answered, in every state.
THEOREM PermitScheduleHolds == Spec => []PermitInv
  BY InitPermitInv, StepPermitInv, PTL DEF Spec

\* No two permits, answered or about to be, are closer than the interval,
\* whatever the interleaving of calls, writes and evictions.
THEOREM PermitsStaySpaced == Spec => []PermitsSpaced
<1>1. PermitInv => PermitsSpaced
  BY DEF PermitInv
<1> QED
  BY <1>1, PermitScheduleHolds, PTL

(***************************************************************************)
(* The feed: demand                                                        *)
(***************************************************************************)

\* A reader whose socket is listed asks for something.
Asking(m) == \A r \in Sockets(m) : m.readers[r].asks # {}

SameReaders(m, n) ==
  \A r \in Readers : n.readers[r].state = m.readers[r].state /\ n.readers[r].asks = m.readers[r].asks

\* Nobody asks for more or less.
SameDemand(m, n) == n.universe = m.universe /\ n.reading = m.reading /\ SameReaders(m, n)

LEMMA DemandIsFinite ==
  ASSUME NEW m \in Relay
  PROVE  /\ DownstreamDemand(m) \subseteq Symbols /\ IsFiniteSet(DownstreamDemand(m))
         /\ \A x : Askers(m, x) \in Nat
         /\ RelayedDownstream(m) \subseteq DownstreamDemand(m)
<1>1. \A r \in Readers : m.readers[r].asks \subseteq Symbols
  BY DEF Relay, Reader
<1>2. DownstreamDemand(m) \subseteq Symbols
  BY <1>1 DEF DownstreamDemand, Sockets
<1>3. IsFiniteSet(Symbols) /\ IsFiniteSet(Readers)
  BY FeedAssumption
<1>4. IsFiniteSet(DownstreamDemand(m))
  BY <1>2, <1>3, FS_Subset
<1>5. ASSUME NEW x
      PROVE  Askers(m, x) \in Nat
  <2> DEFINE A == {r \in Sockets(m) : x \in m.readers[r].asks}
  <2>1. A \in SUBSET Readers
    BY DEF Sockets
  <2> HIDE DEF A
  <2>2. Cardinality(A) \in Nat
    BY <1>3, <2>1, FS_Subset, FS_CardinalityType
  <2> QED
    BY <2>2 DEF Askers, A
<1>6. RelayedDownstream(m) \subseteq DownstreamDemand(m)
  BY DEF RelayedDownstream
<1> QED
  BY <1>2, <1>4, <1>5, <1>6

Before(m, x) == {y \in DownstreamDemand(m) : RankedBefore(m, y, x)}

\* The rank is an order of the symbols.
LEMMA RankIsOrder ==
  ASSUME NEW m \in Relay, NEW x \in Symbols, NEW y \in Symbols, NEW z \in Symbols
  PROVE  /\ ~RankedBefore(m, x, x)
         /\ RankedBefore(m, x, y) /\ RankedBefore(m, y, z) => RankedBefore(m, x, z)
<1>1. x \in Nat /\ y \in Nat /\ z \in Nat
  BY FeedAssumption
<1>2. Askers(m, x) \in Nat /\ Askers(m, y) \in Nat /\ Askers(m, z) \in Nat
  BY DemandIsFinite
<1> QED
  BY <1>1, <1>2 DEF RankedBefore

LEMMA BeforeIsFinite ==
  ASSUME NEW m \in Relay, NEW x \in DownstreamDemand(m)
  PROVE  /\ IsFiniteSet(Before(m, x)) /\ Cardinality(Before(m, x)) \in Nat
         /\ Before(m, x) \subseteq DownstreamDemand(m) /\ x \notin Before(m, x)
         /\ x \in RelayedDownstream(m) <=> Cardinality(Before(m, x)) < MaxRelayed
<1>1. IsFiniteSet(DownstreamDemand(m)) /\ DownstreamDemand(m) \subseteq Symbols
  BY DemandIsFinite
<1>2. Before(m, x) \subseteq DownstreamDemand(m)
  BY DEF Before
<1>3. IsFiniteSet(Before(m, x)) /\ Cardinality(Before(m, x)) \in Nat
  BY <1>1, <1>2, FS_Subset, FS_CardinalityType
<1>4. x \notin Before(m, x)
  BY <1>1, RankIsOrder DEF Before
<1>5. x \in RelayedDownstream(m) <=> Cardinality(Before(m, x)) < MaxRelayed
  BY DEF RelayedDownstream, Before
<1> QED
  BY <1>2, <1>3, <1>4, <1>5

\* What is not crowded is relayed whole, and of any demand something is relayed.
LEMMA RelayedIs ==
  ASSUME NEW m \in Relay
  PROVE  /\ ~Crowded(m) => RelayedDownstream(m) = DownstreamDemand(m)
         /\ DownstreamDemand(m) # {} => RelayedDownstream(m) # {}
<1> DEFINE D == DownstreamDemand(m)
<1>1. IsFiniteSet(D) /\ D \subseteq Symbols /\ Cardinality(D) \in Nat /\ RelayedDownstream(m) \subseteq D
  BY DemandIsFinite, FS_CardinalityType
<1>2. MaxRelayed \in Nat /\ MaxRelayed # 0
  BY FeedAssumption
<1>3. ASSUME NEW x \in D, ~Crowded(m)
      PROVE  x \in RelayedDownstream(m)
    <2>1. /\ IsFiniteSet(Before(m, x)) /\ Cardinality(Before(m, x)) \in Nat /\ Before(m, x) \in SUBSET D
          /\ x \notin Before(m, x) /\ (x \in RelayedDownstream(m) <=> Cardinality(Before(m, x)) < MaxRelayed)
      BY BeforeIsFinite
    <2>2. Cardinality(Before(m, x)) <= Cardinality(D) /\ Cardinality(Before(m, x)) # Cardinality(D)
      BY <1>1, <1>3, <2>1, FS_Subset
    <2>3. Cardinality(D) <= MaxRelayed
      BY <1>1, <1>2, <1>3 DEF Crowded
    <2> QED
      BY <1>1, <1>2, <2>1, <2>2, <2>3
<1>4. ASSUME D # {}
      PROVE  RelayedDownstream(m) # {}
  <2> DEFINE Ranks == {Cardinality(Before(m, x)) : x \in D}
             R == {p \in Nat \X Nat : p[1] < p[2]}
  <2>1. Ranks \in SUBSET Nat /\ Ranks # {}
    BY <1>4, BeforeIsFinite
  <2>2. IsWellFoundedOn(R, Nat)
    BY NatLessThanWellFounded DEF OpToRel
  <2>3. \A i, j \in Nat : <<i, j>> \in R <=> i < j
    OBVIOUS
  <2> HIDE DEF R
  <2>4. PICK k \in Ranks : \A j \in Ranks : <<j, k>> \notin R
    BY <2>1, <2>2, WFMin
  <2>5. PICK x \in D : k = Cardinality(Before(m, x))
    OBVIOUS
  <2>6. /\ IsFiniteSet(Before(m, x)) /\ k \in Nat /\ Before(m, x) \subseteq D /\ x \in Symbols
        /\ x \in RelayedDownstream(m) <=> Cardinality(Before(m, x)) < MaxRelayed
    BY <1>1, <2>5, BeforeIsFinite
  <2>7. ASSUME NEW y \in Before(m, x)
        PROVE  FALSE
    <3>1. y \in D /\ y \in Symbols /\ RankedBefore(m, y, x)
      BY <1>1, <2>6 DEF Before
    <3>2. Before(m, y) \subseteq Before(m, x)
      <4> SUFFICES ASSUME NEW z \in Before(m, y)
                   PROVE  z \in Before(m, x)
        OBVIOUS
      <4>1. z \in D /\ z \in Symbols /\ RankedBefore(m, z, y)
        BY <1>1 DEF Before
      <4>2. RankedBefore(m, z, x)
        BY <2>6, <3>1, <4>1, RankIsOrder
      <4> QED
        BY <4>1, <4>2 DEF Before
    <3>3. y \notin Before(m, y) /\ Cardinality(Before(m, y)) \in Nat
      BY <3>1, BeforeIsFinite
    <3>4. Cardinality(Before(m, y)) <= k /\ Cardinality(Before(m, y)) # k
      BY <2>5, <2>6, <2>7, <3>2, <3>3, FS_Subset
    <3> DEFINE j == Cardinality(Before(m, y))
    <3>5. j \in Ranks
      BY <3>1
    <3> HIDE DEF j, Ranks
    <3>6. j \in Nat /\ j < k
      BY <2>6, <3>3, <3>4 DEF j
    <3>7. <<j, k>> \in R
      BY <2>3, <2>6, <3>6
    <3> QED
      BY <2>4, <3>5, <3>7
  <2>8. Before(m, x) = {}
    BY <2>7
  <2>9. Cardinality(Before(m, x)) = 0
    BY <2>8, FS_EmptySet
  <2> QED
    BY <1>2, <2>6, <2>9
<1> QED
  BY <1>1, <1>3, <1>4

\* A reader that is listed is demand, and one that is cut shows that there is too much.
LEMMA ListedIsDemand ==
  ASSUME NEW m \in Relay, NEW r \in Sockets(m)
  PROVE  /\ IsTruncated(m, r) => Crowded(m)
         /\ Asking(m) => HasDemand(m)
<1>1. m.readers[r].asks \subseteq DownstreamDemand(m)
  BY DEF DownstreamDemand
<1>2. IsTruncated(m, r) => Crowded(m)
  BY <1>1, RelayedIs DEF IsTruncated
<1>3. Asking(m) => HasDemand(m)
  BY <1>1, RelayedIs DEF Asking, HasDemand
<1> QED
  BY <1>2, <1>3

LEMMA DemandIs ==
  ASSUME NEW m \in Relay, NEW n \in Relay, SameDemand(m, n)
  PROVE  /\ Sockets(n) = Sockets(m) /\ Hearing(n) = Hearing(m) /\ (Asking(n) <=> Asking(m))
         /\ DownstreamDemand(n) = DownstreamDemand(m) /\ RelayedDownstream(n) = RelayedDownstream(m)
         /\ (HasDemand(n) <=> HasDemand(m)) /\ (Crowded(n) <=> Crowded(m))
         /\ \A r \in Readers : IsTruncated(n, r) <=> IsTruncated(m, r)
         /\ \A t \in FeedTypes : Desired(n, t) = Desired(m, t)
<1>1. Sockets(n) = Sockets(m) /\ Hearing(n) = Hearing(m)
  BY DEF SameDemand, SameReaders, Sockets, Hearing
<1>2. \A r \in Sockets(m) : r \in Readers /\ n.readers[r].asks = m.readers[r].asks
  BY DEF SameDemand, SameReaders, Sockets
<1>3. DownstreamDemand(n) = DownstreamDemand(m)
  BY <1>1, <1>2 DEF DownstreamDemand
<1>4. \A x : {r \in Sockets(n) : x \in n.readers[r].asks} = {r \in Sockets(m) : x \in m.readers[r].asks}
  BY <1>1, <1>2
<1>5. \A x : Askers(n, x) = Askers(m, x)
  BY <1>4 DEF Askers
<1>6. \A x, y : RankedBefore(n, x, y) <=> RankedBefore(m, x, y)
  BY <1>5 DEF RankedBefore, SameDemand
<1>7. RelayedDownstream(n) = RelayedDownstream(m)
  <2>1. \A x : Before(n, x) = Before(m, x)
    BY <1>3, <1>6 DEF Before
  <2> QED
    BY <1>3, <2>1 DEF RelayedDownstream, Before
<1>8. \A t \in FeedTypes : Desired(n, t) = Desired(m, t)
  BY <1>7 DEF Desired, ReadDemand, SameDemand
<1> QED
  BY <1>1, <1>2, <1>3, <1>7, <1>8 DEF Asking, HasDemand, Crowded, IsTruncated, SameDemand, SameReaders

(***************************************************************************)
(* The feed: the relay's record                                            *)
(***************************************************************************)

\* No reader believes that the feed is live; none that is cut does.
Unbelieved(m) == \A r \in Hearing(m) : m.readers[r].told # "live"
CutUnbelieving(m) == \A r \in Hearing(m) : IsTruncated(m, r) => m.readers[r].told # "live"

\* What the fields of the connection say of each other.
Wire(m) ==
  /\ m.up = NoLink => m.open = FALSE /\ m.opened = {} /\ m.setup = FALSE
  /\ m.broken = TRUE => m.open = TRUE
  /\ m.keepalive = TRUE => m.open = TRUE /\ m.auth = "authorized"
  /\ m.opened # {} => m.open = TRUE /\ m.auth = "authorized"
  /\ m.configured \subseteq m.opened
  /\ m.alive \subseteq {m.up} /\ m.up \notin m.late
  /\ m.served = m.subscribed

Base(m) == m \in Relay /\ Asking(m) /\ Wire(m)

SameWire(m, n) ==
  /\ n.up = m.up /\ n.open = m.open /\ n.broken = m.broken /\ n.linkToken = m.linkToken
  /\ n.alive = m.alive /\ n.late = m.late /\ n.auth = m.auth /\ n.opened = m.opened
  /\ n.configured = m.configured /\ n.subscribed = m.subscribed /\ n.served = m.served
  /\ n.keepalive = m.keepalive /\ n.setup = m.setup /\ n.token = m.token

SameRun(m, n) == n.alarm = m.alarm /\ n.reconciling = m.reconciling /\ n.needed = m.needed /\ n.fresh = m.fresh

LEMMA FieldsAre ==
  ASSUME NEW m \in Relay
  PROVE  /\ m.readers \in [Readers -> Reader] /\ m.reading \in SUBSET Reads /\ m.up \in Links \cup {NoLink}
         /\ m.open \in BOOLEAN /\ m.broken \in BOOLEAN /\ m.linkToken \in {"good", "bad"}
         /\ m.alive \in SUBSET Links /\ m.late \in SUBSET Links
         /\ m.auth \in {"awaiting", "initial-unauthorized", "authorized"}
         /\ m.opened \in SUBSET FeedTypes /\ m.configured \in SUBSET FeedTypes
         /\ m.subscribed \in [FeedTypes -> SUBSET (Symbols \cup ReadNames)]
         /\ m.served \in [FeedTypes -> SUBSET (Symbols \cup ReadNames)]
         /\ m.keepalive \in BOOLEAN /\ m.setup \in BOOLEAN /\ m.alarm \in BOOLEAN
         /\ m.token \in {"good", "bad", NoToken} /\ m.feed \in States
         /\ m.reconciling \in {"no", "universe", "credentials"} /\ m.needed \in BOOLEAN
         /\ m.universe \in SUBSET Symbols /\ m.fresh \in BOOLEAN
  BY DEF Relay

LEMMA SameKeeps ==
  ASSUME NEW m, Base(m), NEW n \in Relay, SameDemand(m, n), SameWire(m, n)
  PROVE  Base(n)
<1>1. Asking(n)
  BY DemandIs DEF Base
<1>2. Wire(n)
  BY DEF Base, Wire, SameWire
<1> QED
  BY <1>1, <1>2 DEF Base

\* What readers are told, and nothing else.
Told(m, told) == [r \in Readers |-> [m.readers[r] EXCEPT !.told = told[r]]]
FeedTold(m, st, told) == [m EXCEPT !.feed = st, !.readers = Told(m, told)]

LEMMA ToldIs ==
  ASSUME NEW m \in Relay, NEW told \in [Readers -> States \cup {"nothing"}], NEW st \in States
  PROVE  \E n \in Relay :
           /\ n = FeedTold(m, st, told) /\ SameWire(m, n) /\ SameRun(m, n) /\ SameDemand(m, n) /\ n.feed = st
           /\ \A r \in Readers : n.readers[r].told = told[r]
<1> DEFINE rs == Told(m, told)
           n == [m EXCEPT !.feed = st, !.readers = rs]
<1>1. m.readers \in [Readers -> Reader]
  BY FieldsAre
<1>2. ASSUME NEW r \in Readers
      PROVE  rs[r] \in Reader /\ rs[r].state = m.readers[r].state /\ rs[r].asks = m.readers[r].asks /\ rs[r].told = told[r]
  <2> DEFINE x == m.readers[r]
             v == told[r]
  <2>1. x \in Reader /\ v \in States \cup {"nothing"} /\ rs[r] = [x EXCEPT !.told = v]
    BY <1>1 DEF Told
  <2> HIDE DEF x, v
  <2>2. rs[r] \in Reader /\ rs[r].state = x.state /\ rs[r].asks = x.asks /\ rs[r].told = v
    BY <2>1 DEF Reader
  <2> QED
    BY <2>2 DEF x, v
<1>3. rs \in [Readers -> Reader]
  BY <1>2 DEF Told
<1> HIDE DEF rs
<1>4. n \in Relay
  BY <1>3 DEF Relay
<1>5. n.feed = st /\ n.readers = rs /\ n.universe = m.universe /\ n.reading = m.reading
  BY DEF Relay
<1>6. SameWire(m, n) /\ SameRun(m, n)
  BY DEF Relay, SameWire, SameRun
<1>7. SameDemand(m, n)
  BY <1>2, <1>5 DEF SameDemand, SameReaders
<1>8. n = FeedTold(m, st, told)
  BY DEF FeedTold, rs
<1> HIDE DEF n
<1> QED
  BY <1>2, <1>4, <1>5, <1>6, <1>7, <1>8

LEMMA BroadcastIs ==
  ASSUME NEW m \in Relay, NEW st \in States
  PROVE  \E n \in Relay :
           /\ n = BroadcastStatus(m, st) /\ SameDemand(m, n) /\ SameWire(m, n) /\ SameRun(m, n) /\ n.feed = st
           /\ st # "live" => Unbelieved(n)
           /\ CutUnbelieving(n)
<1> DEFINE told == [r \in Readers |-> IF r \in Hearing(m) THEN StatusFor(m, r, st) ELSE m.readers[r].told]
<1>1. m.readers \in [Readers -> Reader]
  BY FieldsAre
<1>2. \A r \in Readers : m.readers[r].told \in States \cup {"nothing"} /\ StatusFor(m, r, st) \in States
  BY <1>1 DEF Reader, StatusFor, States
<1>3. told \in [Readers -> States \cup {"nothing"}]
  BY <1>2
<1>4. \A r \in Readers : told[r] = IF r \in Hearing(m) THEN StatusFor(m, r, st) ELSE m.readers[r].told
  OBVIOUS
<1> HIDE DEF told
<1>5. ASSUME NEW r \in Readers
      PROVE  Told(m, told)[r] = IF r \in Hearing(m) THEN [m.readers[r] EXCEPT !.told = StatusFor(m, r, st)] ELSE m.readers[r]
  <2> DEFINE x == m.readers[r]
  <2>1. x \in Reader /\ Told(m, told)[r] = [x EXCEPT !.told = told[r]]
    BY <1>1 DEF Told
  <2>2. CASE r \in Hearing(m)
    BY <1>4, <2>1, <2>2
  <2>3. CASE r \notin Hearing(m)
    <3>1. told[r] = x.told
      BY <1>4, <2>3
    <3> HIDE DEF x
    <3>2. [x EXCEPT !.told = told[r]] = x
      BY <2>1, <3>1 DEF Reader
    <3> QED
      BY <2>1, <2>3, <3>2 DEF x
  <2> QED
    BY <2>2, <2>3
<1>6. Told(m, told) = [r \in Readers |-> IF r \in Hearing(m) THEN [m.readers[r] EXCEPT !.told = StatusFor(m, r, st)] ELSE m.readers[r]]
  BY <1>5 DEF Told
<1>7. FeedTold(m, st, told) = BroadcastStatus(m, st)
  BY <1>1, <1>6 DEF FeedTold, BroadcastStatus, Relay
<1>8. PICK n \in Relay : /\ n = FeedTold(m, st, told)
                        /\ SameWire(m, n) /\ SameRun(m, n) /\ SameDemand(m, n) /\ n.feed = st
                        /\ \A r \in Readers : n.readers[r].told = told[r]
  BY <1>3, ToldIs
<1>9. Hearing(n) = Hearing(m) /\ Hearing(m) \subseteq Readers /\ \A r \in Readers : IsTruncated(n, r) <=> IsTruncated(m, r)
  BY <1>8, DemandIs DEF Hearing
<1>10. st # "live" => Unbelieved(n)
  BY <1>4, <1>8, <1>9 DEF Unbelieved, StatusFor
<1>11. CutUnbelieving(n)
  BY <1>4, <1>8, <1>9 DEF CutUnbelieving, StatusFor
<1> QED
  BY <1>7, <1>8, <1>10, <1>11

LEMMA ReportIs ==
  ASSUME NEW m \in Relay
  PROVE  \E n \in Relay :
           /\ n = ReportTruncation(m) /\ SameDemand(m, n) /\ SameWire(m, n) /\ SameRun(m, n) /\ n.feed = m.feed
           /\ Unbelieved(m) => Unbelieved(n)
           /\ CutUnbelieving(n)
<1>1. CASE ~Crowded(m)
  <2>1. ReportTruncation(m) = m
    BY <1>1 DEF ReportTruncation
  <2>2. Hearing(m) \subseteq Sockets(m)
    BY DEF Hearing, Sockets
  <2>3. CutUnbelieving(m)
    BY <1>1, <2>2, ListedIsDemand DEF CutUnbelieving
  <2> QED
    BY <2>1, <2>3 DEF SameDemand, SameReaders, SameWire, SameRun
<1>2. CASE Crowded(m)
  <2> DEFINE told == [r \in Readers |-> IF r \in Hearing(m) /\ IsTruncated(m, r) THEN "degraded" ELSE m.readers[r].told]
  <2>1. m.readers \in [Readers -> Reader] /\ m.feed \in States
    BY FieldsAre
  <2>2. told \in [Readers -> States \cup {"nothing"}]
    BY <2>1 DEF Reader, States
  <2>3. \A r \in Readers : told[r] = IF r \in Hearing(m) /\ IsTruncated(m, r) THEN "degraded" ELSE m.readers[r].told
    OBVIOUS
  <2> HIDE DEF told
  <2>4. ASSUME NEW r \in Readers
        PROVE  Told(m, told)[r] = IF r \in Hearing(m) /\ IsTruncated(m, r)
                                  THEN [m.readers[r] EXCEPT !.told = "degraded"] ELSE m.readers[r]
    <3> DEFINE x == m.readers[r]
    <3>1. x \in Reader /\ Told(m, told)[r] = [x EXCEPT !.told = told[r]]
      BY <2>1 DEF Told
    <3>2. CASE r \in Hearing(m) /\ IsTruncated(m, r)
      BY <2>3, <3>1, <3>2
    <3>3. CASE ~(r \in Hearing(m) /\ IsTruncated(m, r))
      <4>1. told[r] = x.told
        BY <2>3, <3>3
      <4> HIDE DEF x
      <4>2. [x EXCEPT !.told = told[r]] = x
        BY <3>1, <4>1 DEF Reader
      <4> QED
        BY <3>1, <3>3, <4>2 DEF x
    <3> QED
      BY <3>2, <3>3
  <2>5. Told(m, told) = [r \in Readers |-> IF r \in Hearing(m) /\ IsTruncated(m, r)
                                           THEN [m.readers[r] EXCEPT !.told = "degraded"] ELSE m.readers[r]]
    BY <2>4 DEF Told
  <2>6. FeedTold(m, m.feed, told) = ReportTruncation(m)
    <3>1. ReportTruncation(m) = [m EXCEPT !.readers = Told(m, told)]
      BY <1>2, <2>1, <2>5 DEF ReportTruncation, Relay
    <3>2. FeedTold(m, m.feed, told) = [m EXCEPT !.readers = Told(m, told)]
      BY DEF FeedTold, Relay
    <3> QED
      BY <3>1, <3>2
  <2>7. PICK n \in Relay : /\ n = FeedTold(m, m.feed, told)
                          /\ SameWire(m, n) /\ SameRun(m, n) /\ SameDemand(m, n) /\ n.feed = m.feed
                          /\ \A r \in Readers : n.readers[r].told = told[r]
    BY <2>1, <2>2, ToldIs
  <2>8. Hearing(n) = Hearing(m) /\ Hearing(m) \subseteq Readers /\ \A r \in Readers : IsTruncated(n, r) <=> IsTruncated(m, r)
    BY <2>7, DemandIs DEF Hearing
  <2>9. (Unbelieved(m) => Unbelieved(n)) /\ CutUnbelieving(n)
    BY <2>3, <2>7, <2>8 DEF Unbelieved, CutUnbelieving
  <2> QED
    BY <2>6, <2>7, <2>9
<1> QED
  BY <1>1, <1>2

(***************************************************************************)
(* The feed: the connection                                                *)
(***************************************************************************)

\* The run of reconcile and the copy of the universe are left alone.
SameReconcile(m, n) == n.reconciling = m.reconciling /\ n.needed = m.needed /\ n.fresh = m.fresh

LEMMA AlarmIs ==
  ASSUME NEW m \in Relay, NEW v \in BOOLEAN
  PROVE  \E n \in Relay :
           /\ n = [m EXCEPT !.alarm = v] /\ SameDemand(m, n) /\ SameWire(m, n) /\ SameReconcile(m, n)
           /\ n.feed = m.feed /\ n.readers = m.readers /\ n.alarm = v
<1> DEFINE n == [m EXCEPT !.alarm = v]
<1>1. n \in Relay
  BY DEF Relay
<1>2. n.alarm = v /\ n.feed = m.feed /\ n.readers = m.readers
  BY DEF Relay
<1>3. SameDemand(m, n) /\ SameWire(m, n) /\ SameReconcile(m, n)
  BY DEF Relay, SameDemand, SameReaders, SameWire, SameReconcile
<1> QED
  BY <1>1, <1>2, <1>3

LEMMA NoLinkIs == NoLink \notin Links
  BY FeedAssumption

LEMMA ResetIs ==
  ASSUME NEW m \in Relay, Asking(m), m.alive = {}
  PROVE  \E n \in Relay :
           /\ n = ResetUpstreamState(m) /\ Base(n) /\ SameDemand(m, n) /\ SameRun(m, n)
           /\ n.up = NoLink /\ n.feed = m.feed /\ n.readers = m.readers
<1> DEFINE n == ResetUpstreamState(m)
<1>1. Nothing \in [FeedTypes -> SUBSET (Symbols \cup ReadNames)]
  BY DEF Nothing
<1>2. n \in Relay
  BY <1>1 DEF ResetUpstreamState, Relay
<1>3. /\ n.up = NoLink /\ n.open = FALSE /\ n.broken = FALSE /\ n.opened = {} /\ n.configured = {}
      /\ n.keepalive = FALSE /\ n.setup = FALSE /\ n.served = n.subscribed
      /\ n.alive = m.alive /\ n.late = m.late /\ n.feed = m.feed /\ n.readers = m.readers
      /\ n.universe = m.universe /\ n.reading = m.reading
  BY DEF ResetUpstreamState, Relay
<1>4. SameRun(m, n)
  BY DEF ResetUpstreamState, Relay, SameRun
<1> HIDE DEF n
<1>5. SameDemand(m, n)
  BY <1>3 DEF SameDemand, SameReaders
<1>6. Asking(n)
  BY <1>2, <1>5, DemandIs
<1>7. n.up \notin n.late
  BY <1>2, <1>3, NoLinkIs, FieldsAre
<1>8. Wire(n)
  BY <1>3, <1>7 DEF Wire
<1> QED
  BY <1>2, <1>3, <1>4, <1>5, <1>6, <1>8 DEF Base, n

\* The connection is over: whoever wants the feed knows, and the next one is scheduled.
Closed(m, n) ==
  /\ Base(n) /\ SameDemand(m, n) /\ SameReconcile(m, n)
  /\ n.up = NoLink /\ Unbelieved(n)
  /\ HasDemand(m) => n.alarm = TRUE

\* Without demand nobody listens.
LEMMA NobodyHears ==
  ASSUME NEW m \in Relay, Asking(m), ~HasDemand(m)
  PROVE  Sockets(m) = {} /\ Unbelieved(m) /\ CutUnbelieving(m)
<1>1. Sockets(m) = {}
  BY ListedIsDemand
<1>2. Hearing(m) = {}
  BY <1>1 DEF Hearing, Sockets
<1> QED
  BY <1>1, <1>2 DEF Unbelieved, CutUnbelieving

LEMMA SameDemandTwice ==
  ASSUME NEW m, NEW n, NEW o, SameDemand(m, n), SameDemand(n, o)
  PROVE  SameDemand(m, o)
  BY DEF SameDemand, SameReaders

LEMMA HandleIs ==
  ASSUME NEW m \in Relay, Asking(m), m.alive = {}, m.up # NoLink
  PROVE  \E n \in Relay : n = HandleUpstreamClose(m, m.up) /\ Closed(m, n)
<1> DEFINE v == IF m.auth = "authorized" THEN m.token ELSE NoToken
           k == [m EXCEPT !.token = v]
<1>1. v \in {"good", "bad", NoToken}
  BY FieldsAre
<1> HIDE DEF v
<1>2. k \in Relay
  BY <1>1 DEF Relay
<1>3. /\ k.alive = {} /\ k.universe = m.universe /\ k.reading = m.reading /\ k.readers = m.readers
      /\ SameReconcile(m, k)
  BY DEF Relay, SameReconcile
<1> HIDE DEF k
<1>4. SameDemand(m, k)
  BY <1>3 DEF SameDemand, SameReaders
<1>5. Asking(k)
  BY <1>2, <1>4, DemandIs
<1>6. PICK o \in Relay : /\ o = ResetUpstreamState(k) /\ Base(o) /\ SameDemand(k, o) /\ SameRun(k, o)
                         /\ o.up = NoLink
  BY <1>2, <1>3, <1>5, ResetIs
<1>7. SameDemand(m, o) /\ SameReconcile(m, o)
  BY <1>3, <1>4, <1>6, SameDemandTwice DEF SameRun, SameReconcile
<1>8. HandleUpstreamClose(m, m.up) =
        IF HasDemand(o) THEN [BroadcastStatus(o, "reconnecting") EXCEPT !.alarm = TRUE] ELSE [o EXCEPT !.alarm = FALSE]
  BY <1>6 DEF HandleUpstreamClose, k, v
<1>9. HasDemand(o) <=> HasDemand(m)
  BY <1>7, DemandIs
<1>10. CASE HasDemand(o)
  <2>1. "reconnecting" \in States /\ "reconnecting" # "live"
    BY DEF States
  <2>2. PICK b \in Relay : /\ b = BroadcastStatus(o, "reconnecting") /\ SameDemand(o, b) /\ SameWire(o, b)
                           /\ SameRun(o, b) /\ Unbelieved(b)
    BY <2>1, BroadcastIs
  <2>3. PICK n \in Relay : /\ n = [b EXCEPT !.alarm = TRUE] /\ SameDemand(b, n) /\ SameWire(b, n) /\ SameReconcile(b, n)
                           /\ n.readers = b.readers /\ n.alarm = TRUE
    BY AlarmIs
  <2>4. Base(b) /\ SameDemand(m, b)
    BY <1>6, <1>7, <2>2, SameKeeps, SameDemandTwice
  <2>5. Base(n) /\ SameDemand(m, n)
    BY <2>3, <2>4, SameKeeps, SameDemandTwice
  <2>6. Unbelieved(n)
    BY <2>2, <2>3 DEF Unbelieved, Hearing
  <2>7. SameReconcile(m, n) /\ n.up = NoLink
    BY <1>6, <1>7, <2>2, <2>3 DEF SameReconcile, SameRun, SameWire
  <2> QED
    BY <1>8, <1>10, <2>2, <2>3, <2>5, <2>6, <2>7 DEF Closed
<1>11. CASE ~HasDemand(o)
  <2>1. PICK n \in Relay : /\ n = [o EXCEPT !.alarm = FALSE] /\ SameDemand(o, n) /\ SameWire(o, n) /\ SameReconcile(o, n)
    BY AlarmIs
  <2>2. Base(n) /\ SameDemand(m, n)
    BY <1>6, <1>7, <2>1, SameKeeps, SameDemandTwice
  <2>3. ~HasDemand(n)
    BY <1>11, <2>1, DemandIs
  <2>4. Unbelieved(n)
    BY <2>2, <2>3, NobodyHears DEF Base
  <2>5. SameReconcile(m, n) /\ n.up = NoLink
    BY <1>6, <1>7, <2>1 DEF SameReconcile, SameWire
  <2> QED
    BY <1>8, <1>9, <1>11, <2>1, <2>2, <2>4, <2>5 DEF Closed
<1> QED
  BY <1>10, <1>11

LEMMA CloseLinkIs ==
  ASSUME NEW m, Base(m), m.up # NoLink
  PROVE  \E n \in Relay :
           /\ n = CloseLink(m) /\ Asking(n) /\ SameDemand(m, n) /\ SameRun(m, n)
           /\ n.alive = {} /\ n.up = m.up /\ n.feed = m.feed
<1> DEFINE n == CloseLink(m)
<1>1. m \in Relay /\ m.up \in Links /\ m.alive \ {m.up} = {} /\ Asking(m)
  BY FieldsAre DEF Base, Wire
<1>2. n \in Relay
  BY <1>1 DEF CloseLink, Relay
<1>3. /\ n.alive = m.alive \ {m.up} /\ n.up = m.up /\ n.feed = m.feed
      /\ n.universe = m.universe /\ n.reading = m.reading /\ n.readers = m.readers
  BY <1>1 DEF CloseLink, Relay
<1>4. SameRun(m, n)
  BY <1>1 DEF CloseLink, Relay, SameRun
<1> HIDE DEF n
<1>5. SameDemand(m, n)
  BY <1>3 DEF SameDemand, SameReaders
<1>6. Asking(n)
  BY <1>1, <1>2, <1>5, DemandIs
<1> QED
  BY <1>1, <1>2, <1>3, <1>4, <1>5, <1>6 DEF n

LEMMA CloseIs ==
  ASSUME NEW m, Base(m), m.up # NoLink
  PROVE  \E n \in Relay : n = CloseUpstream(m) /\ Closed(m, n)
<1>1. PICK c \in Relay : /\ c = CloseLink(m) /\ Asking(c) /\ SameDemand(m, c) /\ SameRun(m, c)
                         /\ c.alive = {} /\ c.up = m.up
  BY CloseLinkIs
<1>2. PICK n \in Relay : n = HandleUpstreamClose(c, c.up) /\ Closed(c, n)
  BY <1>1, HandleIs
<1>3. n = CloseUpstream(m)
  BY <1>1, <1>2 DEF CloseUpstream
<1>4. m \in Relay /\ (HasDemand(c) <=> HasDemand(m))
  BY <1>1, DemandIs DEF Base
<1>5. Closed(m, n)
  BY <1>1, <1>2, <1>4, SameDemandTwice DEF Closed, SameRun, SameReconcile
<1> QED
  BY <1>3, <1>5

LEMMA StopIs ==
  ASSUME NEW m, Base(m), ~HasDemand(m)
  PROVE  \E n \in Relay :
           /\ n = StopUpstream(m) /\ Base(n) /\ SameDemand(m, n) /\ SameReconcile(m, n) /\ n.up = NoLink
<1>1. PICK c \in Relay : /\ c = IF m.up = NoLink THEN m ELSE CloseLink(m)
                         /\ Asking(c) /\ SameDemand(m, c) /\ SameReconcile(m, c) /\ c.alive = {}
  <2>1. CASE m.up # NoLink
    <3>1. PICK c \in Relay : /\ c = CloseLink(m) /\ Asking(c) /\ SameDemand(m, c) /\ SameRun(m, c) /\ c.alive = {}
      BY <2>1, CloseLinkIs
    <3> QED
      BY <2>1, <3>1 DEF SameRun, SameReconcile
  <2>2. CASE m.up = NoLink
    <3>1. m \in Relay /\ m.alive = {}
      BY <2>2, NoLinkIs, FieldsAre DEF Base, Wire
    <3> QED
      BY <2>2, <3>1 DEF Base, SameDemand, SameReaders, SameReconcile
  <2> QED
    BY <2>1, <2>2
<1>2. PICK o \in Relay : /\ o = ResetUpstreamState(c) /\ Base(o) /\ SameDemand(c, o) /\ SameRun(c, o) /\ o.up = NoLink
  BY <1>1, ResetIs
<1>3. PICK n \in Relay : /\ n = [o EXCEPT !.alarm = FALSE] /\ SameDemand(o, n) /\ SameWire(o, n) /\ SameReconcile(o, n)
  BY AlarmIs
<1>4. n = StopUpstream(m)
  BY <1>1, <1>2, <1>3 DEF StopUpstream
<1>5. Base(n)
  BY <1>2, <1>3, SameKeeps
<1>6. SameDemand(m, n)
  BY <1>1, <1>2, <1>3, SameDemandTwice
<1>7. SameReconcile(m, n) /\ n.up = NoLink
  BY <1>1, <1>2, <1>3 DEF SameReconcile, SameRun, SameWire
<1> QED
  BY <1>4, <1>5, <1>6, <1>7

LEMMA FailIs ==
  ASSUME NEW m, Base(m), m.up # NoLink
  PROVE  \E n \in Relay : n = FailProtocol(m) /\ Closed(m, n)
<1>1. m \in Relay /\ "degraded" \in States /\ "degraded" # "live"
  BY DEF Base, States
<1>2. PICK b \in Relay : /\ b = BroadcastStatus(m, "degraded") /\ SameDemand(m, b) /\ SameWire(m, b) /\ SameRun(m, b)
  BY <1>1, BroadcastIs
<1>3. Base(b) /\ b.up # NoLink
  BY <1>2, SameKeeps DEF SameWire
<1>4. PICK c \in Relay : c = CloseUpstream(b) /\ Closed(b, c)
  BY <1>3, CloseIs
<1>5. PICK d \in Relay : /\ d = BroadcastStatus(c, "degraded") /\ SameDemand(c, d) /\ SameWire(c, d) /\ SameRun(c, d)
                         /\ Unbelieved(d)
  BY <1>1, BroadcastIs
<1>6. PICK n \in Relay : n = FailProtocol(m) /\ (n = c \/ n = d)
  BY <1>2, <1>4, <1>5 DEF FailProtocol
<1>7. Closed(b, d)
  BY <1>4, <1>5, SameKeeps, SameDemandTwice DEF Closed, SameWire, SameRun, SameReconcile
<1>8. Closed(b, n)
  BY <1>4, <1>6, <1>7
<1>9. HasDemand(b) <=> HasDemand(m)
  BY <1>1, <1>2, DemandIs
<1>10. Closed(m, n)
  BY <1>2, <1>8, <1>9, SameDemandTwice DEF Closed, SameRun, SameReconcile
<1> QED
  BY <1>6, <1>10

LEMMA DesiredIs ==
  ASSUME NEW m \in Relay, NEW t \in FeedTypes
  PROVE  Desired(m, t) \in SUBSET (Symbols \cup ReadNames)
<1>1. ReadDemand(m, t) \subseteq ReadNames
  <2>1. m.reading \subseteq Reads
    BY FieldsAre
  <2> QED
    BY <2>1 DEF ReadDemand, ReadNames
<1>2. RelayedDownstream(m) \subseteq Symbols
  BY DemandIsFinite
<1> QED
  BY <1>1, <1>2 DEF Desired

\* The connection is asked for what is wanted, or is over.
Synced(m, n) ==
  /\ Base(n) /\ SameDemand(m, n) /\ SameRun(m, n)
  /\ n.up = m.up /\ n.auth = m.auth /\ n.configured = m.configured /\ n.feed = m.feed /\ n.readers = m.readers
  /\ \A t \in n.opened : n.served[t] = Desired(n, t)

LEMMA SyncIs ==
  ASSUME NEW m, Base(m), m.up # NoLink
  PROVE  \E n \in Relay : n = SyncSubscriptions(m) /\ (Closed(m, n) \/ Synced(m, n))
<1> DEFINE changed == {t \in m.opened : Desired(m, t) # m.subscribed[t]}
           told == [t \in FeedTypes |->
                     IF t \in changed
                     THEN (m.served[t] \cup (Desired(m, t) \ m.subscribed[t])) \ (m.subscribed[t] \ Desired(m, t))
                     ELSE m.served[t]]
           next == [t \in FeedTypes |-> IF t \in m.opened THEN Desired(m, t) ELSE m.subscribed[t]]
<1>1. /\ m \in Relay /\ Asking(m) /\ Wire(m) /\ m.served = m.subscribed /\ m.opened \subseteq FeedTypes
      /\ m.served \in [FeedTypes -> SUBSET (Symbols \cup ReadNames)]
  BY FieldsAre DEF Base, Wire
<1>2. CASE changed = {}
  <2>1. SyncSubscriptions(m) = m
    BY <1>2 DEF SyncSubscriptions
  <2>2. \A t \in m.opened : m.served[t] = Desired(m, t)
    BY <1>1, <1>2
  <2> QED
    BY <1>1, <2>1, <2>2 DEF Synced, Base, SameDemand, SameReaders, SameRun
<1>3. CASE changed # {} /\ m.broken = TRUE
  <2>1. SyncSubscriptions(m) = CloseUpstream(m)
    BY <1>3 DEF SyncSubscriptions, Sent
  <2> QED
    BY <2>1, CloseIs
<1>4. CASE changed # {} /\ m.broken # TRUE
  <2>1. \A t \in FeedTypes : Desired(m, t) \in SUBSET (Symbols \cup ReadNames)
    BY <1>1, DesiredIs
  <2>2. next \in [FeedTypes -> SUBSET (Symbols \cup ReadNames)]
    BY <1>1, <2>1
  <2>3. ASSUME NEW t \in FeedTypes
        PROVE  told[t] = next[t]
    BY <1>1
  <2>4. told = next
    BY <2>3
  <2>5. \A t \in m.opened : next[t] = Desired(m, t)
    BY <1>1
  <2> DEFINE n == [m EXCEPT !.subscribed = next, !.served = told]
  <2>6. SyncSubscriptions(m) = n
    BY <1>1, <1>4, FieldsAre DEF SyncSubscriptions, Sent
  <2> HIDE DEF next, told
  <2>7. n \in Relay
    BY <1>1, <2>2, <2>4 DEF Relay
  <2>8. /\ n.subscribed = next /\ n.served = told /\ n.up = m.up /\ n.open = m.open /\ n.broken = m.broken
        /\ n.alive = m.alive /\ n.late = m.late /\ n.auth = m.auth /\ n.opened = m.opened /\ n.configured = m.configured
        /\ n.keepalive = m.keepalive /\ n.setup = m.setup /\ n.feed = m.feed /\ n.readers = m.readers
        /\ n.universe = m.universe /\ n.reading = m.reading
    BY <1>1 DEF Relay
  <2>9. SameRun(m, n)
    BY <1>1 DEF Relay, SameRun
  <2> HIDE DEF n
  <2>10. SameDemand(m, n)
    BY <2>8 DEF SameDemand, SameReaders
  <2>11. Asking(n) /\ \A t \in FeedTypes : Desired(n, t) = Desired(m, t)
    BY <1>1, <2>7, <2>10, DemandIs
  <2>12. Wire(n)
    BY <1>1, <2>4, <2>8 DEF Wire
  <2>13. \A t \in n.opened : n.served[t] = Desired(n, t)
    BY <1>1, <2>4, <2>5, <2>8, <2>11
  <2> QED
    BY <2>6, <2>7, <2>8, <2>9, <2>10, <2>11, <2>12, <2>13 DEF Synced, Base
<1> QED
  BY <1>2, <1>3, <1>4

(***************************************************************************)
(* The feed: reconcile                                                     *)
(***************************************************************************)

\* Only readers ask, and for something that is streamed.
ForReaders == Reads = {} /\ StreamTypes # {}

\* Nobody believes in a connection that is still shaking hands, and one that has every
\* channel of the readers configured has been announced; none is awaited with readers
\* that believe in the last, though a run that awaits the universe may find some that do.
Announced(m) ==
  /\ m.up # NoLink /\ m.auth # "authorized" => m.feed # "live" /\ Unbelieved(m)
  /\ m.up # NoLink /\ ForReaders /\ StreamTypes \subseteq m.configured => m.feed = "live"
CredentialsUnlinked(m) == m.reconciling = "credentials" => m.feed # "live" /\ m.up = NoLink
UnlinkedUnbelieved(m) == m.reconciling # "universe" /\ m.up = NoLink => Unbelieved(m)

Kept(m) == Base(m) /\ Announced(m) /\ CredentialsUnlinked(m) /\ UnlinkedUnbelieved(m)

\* Demand is followed, and no reader that is cut is told the feed is live.
Settled(m) ==
  /\ \A t \in m.opened : m.served[t] = Desired(m, t)
  /\ ~HasDemand(m) => m.up = NoLink
  /\ HasDemand(m) => m.up # NoLink \/ m.alarm = TRUE
  /\ CutUnbelieving(m)

NoClosers(m) == \A r \in Readers : m.readers[r].state \notin {"closing", "gone"}

Good(m) ==
  /\ Kept(m)
  /\ m.reconciling = "no" => m.needed = FALSE
  /\ m.reconciling = "no" /\ NoClosers(m) => Settled(m)

\* The end of a run.
Settling(m, n) == Kept(n) /\ SameDemand(m, n) /\ n.needed = m.needed /\ n.reconciling = "no" /\ Settled(n)

LEMMA ReconcilingIs ==
  ASSUME NEW m \in Relay, NEW v \in {"no", "universe", "credentials"}
  PROVE  \E n \in Relay :
           /\ n = [m EXCEPT !.reconciling = v] /\ SameDemand(m, n) /\ SameWire(m, n)
           /\ n.reconciling = v /\ n.needed = m.needed /\ n.alarm = m.alarm
           /\ n.feed = m.feed /\ n.readers = m.readers /\ n.fresh = m.fresh
<1> DEFINE n == [m EXCEPT !.reconciling = v]
<1>1. n \in Relay
  BY DEF Relay
<1>2. /\ n.reconciling = v /\ n.needed = m.needed /\ n.alarm = m.alarm
      /\ n.feed = m.feed /\ n.readers = m.readers /\ n.fresh = m.fresh
  BY DEF Relay
<1>3. SameDemand(m, n) /\ SameWire(m, n)
  BY DEF Relay, SameDemand, SameReaders, SameWire
<1> QED
  BY <1>1, <1>2, <1>3

LEMMA NeededIs ==
  ASSUME NEW m \in Relay, NEW v \in BOOLEAN
  PROVE  \E n \in Relay :
           /\ n = [m EXCEPT !.needed = v] /\ SameDemand(m, n) /\ SameWire(m, n)
           /\ n.needed = v /\ n.reconciling = m.reconciling /\ n.alarm = m.alarm
           /\ n.feed = m.feed /\ n.readers = m.readers /\ n.fresh = m.fresh
<1> DEFINE n == [m EXCEPT !.needed = v]
<1>1. n \in Relay
  BY DEF Relay
<1>2. /\ n.needed = v /\ n.reconciling = m.reconciling /\ n.alarm = m.alarm
      /\ n.feed = m.feed /\ n.readers = m.readers /\ n.fresh = m.fresh
  BY DEF Relay
<1>3. SameDemand(m, n) /\ SameWire(m, n)
  BY DEF Relay, SameDemand, SameReaders, SameWire
<1> QED
  BY <1>1, <1>2, <1>3

\* The last report of a run that leaves its connection, or the lack of one, in order.
LEMMA FinishIs ==
  ASSUME NEW m, Base(m), Announced(m), m.up = NoLink => Unbelieved(m),
         \A t \in m.opened : m.served[t] = Desired(m, t),
         ~HasDemand(m) => m.up = NoLink, HasDemand(m) => m.up # NoLink \/ m.alarm = TRUE
  PROVE  \E n \in Relay : n = Finish(ReportTruncation(m)) /\ Settling(m, n)
<1>0. m \in Relay
  BY DEF Base
<1>1. PICK o \in Relay : /\ o = ReportTruncation(m) /\ SameDemand(m, o) /\ SameWire(m, o) /\ SameRun(m, o)
                         /\ o.feed = m.feed /\ (Unbelieved(m) => Unbelieved(o)) /\ CutUnbelieving(o)
  BY <1>0, ReportIs
<1>2. PICK n \in Relay : /\ n = [o EXCEPT !.reconciling = "no"] /\ SameDemand(o, n) /\ SameWire(o, n)
                         /\ n.reconciling = "no" /\ n.needed = o.needed /\ n.alarm = o.alarm
                         /\ n.feed = o.feed /\ n.readers = o.readers
  BY ReconcilingIs
<1>3. Base(o) /\ Base(n) /\ SameDemand(m, n)
  BY <1>1, <1>2, SameKeeps, SameDemandTwice
<1>4. /\ n.up = m.up /\ n.auth = m.auth /\ n.opened = m.opened /\ n.served = m.served
      /\ n.configured = m.configured
      /\ n.needed = m.needed /\ n.alarm = m.alarm /\ n.feed = m.feed
  BY <1>1, <1>2 DEF SameWire, SameRun
<1>5. /\ \A r \in Readers : IsTruncated(n, r) <=> IsTruncated(o, r)
      /\ HasDemand(n) <=> HasDemand(m)
      /\ \A t \in FeedTypes : Desired(n, t) = Desired(m, t)
  BY <1>0, <1>2, <1>3, DemandIs
<1>6. (Unbelieved(m) => Unbelieved(n)) /\ CutUnbelieving(n)
  BY <1>1, <1>2, <1>5 DEF Unbelieved, CutUnbelieving, Hearing
<1>7. Kept(n)
  BY <1>2, <1>3, <1>4, <1>6 DEF Kept, Announced, CredentialsUnlinked, UnlinkedUnbelieved
<1>8. Settled(n)
  <2>1. m.opened \subseteq FeedTypes
    BY <1>0, FieldsAre
  <2> QED
    BY <1>4, <1>5, <1>6, <2>1 DEF Settled
<1> QED
  BY <1>1, <1>2, <1>3, <1>4, <1>7, <1>8 DEF Settling, Finish

\* A connection is opened, for whoever still wants one.
LEMMA OpenUpstreamIs ==
  ASSUME NEW m, Base(m), m.up = NoLink, m.feed # "live", Unbelieved(m), m.token \in {"good", "bad"}
  PROVE  \E n \in Relay : n = OpenUpstream(m) /\ Settling(m, n)
<1>0. m \in Relay /\ Asking(m) /\ Wire(m)
  BY DEF Base
<1>1. CASE ~HasDemand(m)
  <2>1. m.opened = {}
    BY <1>0 DEF Wire
  <2>2. PICK n \in Relay : n = Finish(ReportTruncation(m)) /\ Settling(m, n)
    BY <1>1, <2>1, FinishIs DEF Announced
  <2> QED
    BY <1>1, <2>2 DEF OpenUpstream
<1>2. CASE HasDemand(m)
  <2> DEFINE l == FreshLink(m)
             k == [m EXCEPT !.up = l, !.open = FALSE, !.broken = FALSE, !.linkToken = m.token,
                            !.alive = m.alive \cup {l}, !.late = m.late \ {l}, !.auth = "awaiting",
                            !.opened = {}, !.configured = {}, !.setup = TRUE]
  <2>1. OpenUpstream(m) = Finish(ReportTruncation(k))
    BY <1>0, <1>2 DEF OpenUpstream, Relay
  <2>2. l \in Links
    <3> DEFINE unheard == Links \ (m.late \cup {m.up})
    <3>1. \E x \in Links : x # m.up /\ (unheard # {} => x \in unheard)
      BY NoLinkIs, FeedAssumption
    <3> HIDE DEF unheard
    <3>2. (CHOOSE x \in Links : x # m.up /\ (unheard # {} => x \in unheard)) \in Links
      BY <3>1
    <3> QED
      BY <3>2 DEF FreshLink, unheard
  <2> HIDE DEF l
  <2>3. m.alive = {} /\ m.open = FALSE /\ m.keepalive # TRUE /\ m.served = m.subscribed
    BY <1>0, NoLinkIs, FieldsAre DEF Wire
  <2>4. k \in Relay
    BY <1>0, <2>2 DEF Relay
  <2>5. /\ k.up = l /\ k.open = FALSE /\ k.broken = FALSE /\ k.alive = m.alive \cup {l} /\ k.late = m.late \ {l}
        /\ k.auth = "awaiting" /\ k.opened = {} /\ k.configured = {} /\ k.setup = TRUE
        /\ k.keepalive = m.keepalive /\ k.served = m.served /\ k.subscribed = m.subscribed
        /\ k.universe = m.universe /\ k.reading = m.reading /\ k.readers = m.readers
        /\ k.feed = m.feed /\ k.needed = m.needed
    BY <1>0 DEF Relay
  <2> HIDE DEF k
  <2>6. SameDemand(m, k)
    BY <2>5 DEF SameDemand, SameReaders
  <2>7. Asking(k) /\ HasDemand(k)
    BY <1>0, <1>2, <2>4, <2>6, DemandIs
  <2>8. Wire(k)
    BY <2>2, <2>3, <2>5, NoLinkIs DEF Wire
  <2>9. Unbelieved(k)
    BY <2>5 DEF Unbelieved, Hearing
  <2>10. PICK n \in Relay : n = Finish(ReportTruncation(k)) /\ Settling(k, n)
    BY <2>2, <2>4, <2>5, <2>7, <2>8, <2>9, NoLinkIs, FinishIs DEF Base, Announced, ForReaders
  <2>11. Settling(m, n)
    BY <2>5, <2>6, <2>10, SameDemandTwice DEF Settling
  <2> QED
    BY <2>1, <2>10, <2>11
<1> QED
  BY <1>1, <1>2

\* A run that awaits the quote token leaves readers that know.
LEMMA ConnectAndSyncIs ==
  ASSUME NEW m, Base(m), Announced(m)
  PROVE  \E n \in Relay :
           /\ n = ConnectAndSync(m) /\ Kept(n) /\ SameDemand(m, n) /\ n.needed = m.needed
           /\ n.reconciling \in {"no", "credentials"} /\ (n.reconciling = "no" => Settled(n))
<1>0. m \in Relay /\ Asking(m) /\ Wire(m)
  BY DEF Base
<1>1. CASE ~HasDemand(m)
  <2>1. PICK o \in Relay : /\ o = StopUpstream(m) /\ Base(o) /\ SameDemand(m, o) /\ SameReconcile(m, o) /\ o.up = NoLink
    BY <1>1, StopIs
  <2>2. PICK n \in Relay : /\ n = [o EXCEPT !.reconciling = "no"] /\ SameDemand(o, n) /\ SameWire(o, n)
                           /\ n.reconciling = "no" /\ n.needed = o.needed
    BY ReconcilingIs
  <2>3. Base(n) /\ SameDemand(m, n) /\ n.needed = m.needed /\ n.up = NoLink
    BY <2>1, <2>2, SameKeeps, SameDemandTwice DEF SameReconcile, SameWire
  <2>4. ~HasDemand(n) /\ Asking(n)
    BY <1>0, <1>1, <2>3, DemandIs
  <2>5. Unbelieved(n) /\ CutUnbelieving(n)
    BY <2>4, NobodyHears
  <2>6. n.opened = {}
    BY <2>3 DEF Base, Wire
  <2>7. Kept(n) /\ Settled(n)
    BY <2>2, <2>3, <2>4, <2>5, <2>6 DEF Kept, Announced, CredentialsUnlinked, UnlinkedUnbelieved, Settled
  <2>8. n = ConnectAndSync(m)
    BY <1>1, <2>1, <2>2 DEF ConnectAndSync, Finish
  <2> QED
    BY <2>2, <2>3, <2>7, <2>8
<1>2. CASE HasDemand(m) /\ m.up # NoLink
  <2>1. PICK o \in Relay : /\ o = IF m.open /\ m.opened # {} THEN SyncSubscriptions(m) ELSE m
                           /\ Closed(m, o) \/ Synced(m, o)
    <3>1. PICK o \in Relay : o = SyncSubscriptions(m) /\ (Closed(m, o) \/ Synced(m, o))
      BY <1>2, SyncIs
    <3>2. CASE m.open /\ m.opened # {}
      BY <3>1, <3>2
    <3>3. CASE ~(m.open /\ m.opened # {})
      <4>1. m.opened = {}
        BY <1>0, <3>3 DEF Wire
      <4>2. Synced(m, m)
        BY <1>0, <4>1 DEF Synced, Base, SameDemand, SameReaders, SameRun
      <4> QED
        BY <1>0, <3>3, <4>2
    <3> QED
      BY <3>2, <3>3
  <2>2. Base(o) /\ SameDemand(m, o) /\ o.needed = m.needed
    BY <2>1 DEF Closed, Synced, SameRun, SameReconcile
  <2>3. HasDemand(o)
    BY <1>0, <1>2, <2>2, DemandIs
  <2>4. CASE Closed(m, o)
    <3>1. o.up = NoLink /\ Unbelieved(o) /\ o.alarm = TRUE
      BY <1>2, <2>4 DEF Closed
    <3>2. o.opened = {}
      BY <2>2, <3>1 DEF Base, Wire
    <3>3. PICK n \in Relay : n = Finish(ReportTruncation(o)) /\ Settling(o, n)
      BY <2>2, <2>3, <3>1, <3>2, FinishIs DEF Announced
    <3>4. n = ConnectAndSync(m)
      BY <1>2, <2>1, <3>3 DEF ConnectAndSync
    <3> QED
      BY <2>2, <3>3, <3>4, SameDemandTwice DEF Settling
  <2>5. CASE Synced(m, o)
    <3>1. /\ o.up = m.up /\ o.auth = m.auth /\ o.configured = m.configured /\ o.feed = m.feed /\ o.readers = m.readers
          /\ \A t \in o.opened : o.served[t] = Desired(o, t)
      BY <2>5 DEF Synced
    <3>2. Announced(o)
      BY <3>1 DEF Announced, Unbelieved, Hearing
    <3>3. PICK n \in Relay : n = Finish(ReportTruncation(o)) /\ Settling(o, n)
      BY <1>2, <2>2, <2>3, <3>1, <3>2, FinishIs
    <3>4. n = ConnectAndSync(m)
      BY <1>2, <2>1, <3>3 DEF ConnectAndSync
    <3> QED
      BY <2>2, <3>3, <3>4, SameDemandTwice DEF Settling
  <2> QED
    BY <2>1, <2>4, <2>5
<1>3. CASE HasDemand(m) /\ m.up = NoLink
  <2>1. "connecting" \in States /\ "connecting" # "live"
    BY DEF States
  <2>2. PICK o \in Relay : /\ o = BroadcastStatus(m, "connecting") /\ SameDemand(m, o) /\ SameWire(m, o)
                           /\ SameRun(m, o) /\ o.feed = "connecting" /\ Unbelieved(o)
    BY <1>0, <2>1, BroadcastIs
  <2>3. Base(o) /\ o.up = NoLink /\ o.needed = m.needed
    BY <1>3, <2>2, SameKeeps DEF SameWire, SameRun
  <2>4. CASE o.token = NoToken
    <3>1. PICK n \in Relay : /\ n = [o EXCEPT !.reconciling = "credentials"] /\ SameDemand(o, n) /\ SameWire(o, n)
                             /\ n.reconciling = "credentials" /\ n.needed = o.needed
                             /\ n.feed = o.feed /\ n.readers = o.readers
      BY ReconcilingIs
    <3>2. Base(n) /\ SameDemand(m, n) /\ n.up = NoLink
      <4>1. Base(n)
        BY <2>3, <3>1, SameKeeps
      <4>2. SameDemand(m, n)
        BY <2>2, <3>1, SameDemandTwice
      <4> QED
        BY <2>3, <3>1, <4>1, <4>2 DEF SameWire
    <3>3. Unbelieved(n)
      BY <2>2, <3>1 DEF Unbelieved, Hearing
    <3>4. Kept(n)
      BY <2>1, <2>2, <3>1, <3>2, <3>3 DEF Kept, Announced, CredentialsUnlinked, UnlinkedUnbelieved
    <3>5. n = ConnectAndSync(m)
      BY <1>3, <2>2, <2>4, <3>1 DEF ConnectAndSync
    <3> QED
      BY <2>3, <3>1, <3>2, <3>4, <3>5
  <2>5. CASE o.token # NoToken
    <3>1. o.token \in {"good", "bad"}
      BY <2>5, FieldsAre
    <3>2. PICK n \in Relay : n = OpenUpstream(o) /\ Settling(o, n)
      BY <2>1, <2>2, <2>3, <3>1, OpenUpstreamIs
    <3>3. n = ConnectAndSync(m)
      BY <1>3, <2>2, <2>5, <3>2 DEF ConnectAndSync
    <3> QED
      BY <2>2, <2>3, <3>2, <3>3, SameDemandTwice DEF Settling
  <2> QED
    BY <2>4, <2>5
<1> QED
  BY <1>1, <1>2, <1>3

LEMMA ReconcileOnceIs ==
  ASSUME NEW m, Base(m), Announced(m), m.reconciling = "no"
  PROVE  \E n \in Relay : n = ReconcileOnce(m) /\ Good(n)
<1>0. m \in Relay
  BY DEF Base
<1>1. PICK o \in Relay : /\ o = [m EXCEPT !.needed = FALSE] /\ SameDemand(m, o) /\ SameWire(m, o)
                         /\ o.needed = FALSE /\ o.reconciling = m.reconciling
                         /\ o.feed = m.feed /\ o.readers = m.readers
  BY <1>0, NeededIs
<1>2. Base(o) /\ Announced(o)
  BY <1>1, SameKeeps DEF Announced, Unbelieved, Hearing, SameWire
<1>3. CASE Crowded(o) /\ ~o.fresh
  <2>1. PICK n \in Relay : /\ n = [o EXCEPT !.reconciling = "universe"] /\ SameDemand(o, n) /\ SameWire(o, n)
                           /\ n.reconciling = "universe" /\ n.feed = o.feed /\ n.readers = o.readers
    BY ReconcilingIs
  <2>2. Base(n) /\ Announced(n)
    BY <1>2, <2>1, SameKeeps DEF Announced, Unbelieved, Hearing, SameWire
  <2>3. Good(n)
    BY <2>1, <2>2 DEF Good, Kept, CredentialsUnlinked, UnlinkedUnbelieved
  <2> QED
    BY <1>1, <1>3, <2>1, <2>3 DEF ReconcileOnce
<1>4. CASE ~(Crowded(o) /\ ~o.fresh)
  <2>1. PICK n \in Relay : /\ n = ConnectAndSync(o) /\ Kept(n) /\ n.needed = o.needed
                           /\ n.reconciling \in {"no", "credentials"} /\ (n.reconciling = "no" => Settled(n))
    BY <1>2, ConnectAndSyncIs
  <2>2. Good(n)
    BY <1>1, <2>1 DEF Good
  <2> QED
    BY <1>1, <1>4, <2>1, <2>2 DEF ReconcileOnce
<1> QED
  BY <1>3, <1>4

LEMMA SettleIs ==
  ASSUME NEW m, Kept(m), m.reconciling = "no" => Settled(m)
  PROVE  \E n \in Relay : n = Settle(m) /\ Good(n)
<1>1. m \in Relay /\ m.needed \in BOOLEAN /\ Base(m) /\ Announced(m)
  BY FieldsAre DEF Kept, Base
<1>2. CASE m.reconciling = "no" /\ m.needed
  <2>1. PICK n \in Relay : n = ReconcileOnce(m) /\ Good(n)
    BY <1>1, <1>2, ReconcileOnceIs
  <2> QED
    BY <1>2, <2>1 DEF Settle
<1>3. CASE ~(m.reconciling = "no" /\ m.needed)
  <2>1. Good(m)
    BY <1>1, <1>3 DEF Good
  <2> QED
    BY <1>1, <1>3, <2>1 DEF Settle
<1> QED
  BY <1>2, <1>3

\* Whatever was changed before it, as long as a run that awaits its token left nobody
\* believing.
LEMMA ReconcileIs ==
  ASSUME NEW m, Base(m), Announced(m), CredentialsUnlinked(m),
         m.reconciling = "credentials" => Unbelieved(m)
  PROVE  \E n \in Relay : n = Reconcile(m) /\ Good(n)
<1>0. m \in Relay
  BY DEF Base
<1>1. CASE m.reconciling = "no"
  <2>1. PICK n \in Relay : n = ReconcileOnce(m) /\ Good(n)
    BY <1>1, ReconcileOnceIs
  <2> QED
    BY <1>1, <2>1 DEF Reconcile
<1>2. CASE m.reconciling # "no"
  <2>1. PICK n \in Relay : /\ n = [m EXCEPT !.needed = TRUE] /\ SameDemand(m, n) /\ SameWire(m, n)
                           /\ n.needed = TRUE /\ n.reconciling = m.reconciling
                           /\ n.feed = m.feed /\ n.readers = m.readers
    BY <1>0, NeededIs
  <2>2. Base(n) /\ n.up = m.up /\ n.auth = m.auth /\ n.configured = m.configured /\ (Unbelieved(m) => Unbelieved(n))
    BY <2>1, SameKeeps DEF Unbelieved, Hearing, SameWire
  <2>3. n.reconciling # "no" /\ (n.reconciling # "universe" => n.reconciling = "credentials")
    BY <1>2, <2>1, FieldsAre
  <2>4. Good(n)
    BY <2>1, <2>2, <2>3 DEF Good, Kept, Announced, CredentialsUnlinked, UnlinkedUnbelieved
  <2> QED
    BY <1>2, <2>1, <2>4 DEF Reconcile
<1> QED
  BY <1>1, <1>2

\* A close while a run is under way, or when none is.
LEMMA ClosedIsGood ==
  ASSUME NEW m, Good(m), m.up # NoLink, NEW n \in Relay, Closed(m, n)
  PROVE  Good(n)
<1>0. m \in Relay /\ m.reconciling # "credentials" /\ (m.reconciling = "no" => m.needed = FALSE)
  BY DEF Good, Kept, Base, CredentialsUnlinked
<1>1. /\ Base(n) /\ n.reconciling = m.reconciling /\ n.needed = m.needed /\ n.up = NoLink /\ Unbelieved(n)
      /\ HasDemand(n) => n.alarm = TRUE
  BY <1>0, DemandIs DEF Closed, SameReconcile
<1>2. n.opened = {}
  BY <1>1 DEF Base, Wire
<1>3. Kept(n)
  BY <1>0, <1>1 DEF Kept, Announced, CredentialsUnlinked, UnlinkedUnbelieved
<1>4. Settled(n)
  BY <1>1, <1>2 DEF Settled, CutUnbelieving, Unbelieved
<1> QED
  BY <1>0, <1>1, <1>3, <1>4 DEF Good

\* What neither demand, nor what readers are told, nor the run depends on.
LEMMA GoodStays ==
  ASSUME NEW m, Good(m), NEW n \in Relay, SameDemand(m, n), SameRun(m, n), Wire(n),
         n.up = m.up, n.auth # "authorized" => m.auth # "authorized", n.opened = m.opened,
         ForReaders /\ StreamTypes \subseteq n.configured => StreamTypes \subseteq m.configured,
         n.served = m.served, n.feed = m.feed, n.readers = m.readers
  PROVE  Good(n)
<1>0. m \in Relay /\ Base(m) /\ m.opened \subseteq FeedTypes
  BY FieldsAre DEF Good, Kept, Base
<1>1. /\ Asking(n) /\ (HasDemand(n) <=> HasDemand(m))
      /\ \A r \in Readers : IsTruncated(n, r) <=> IsTruncated(m, r)
      /\ \A t \in FeedTypes : Desired(n, t) = Desired(m, t)
  BY <1>0, DemandIs DEF Base
<1>2. n.reconciling = m.reconciling /\ n.needed = m.needed /\ n.alarm = m.alarm
  BY DEF SameRun
<1>3. (Unbelieved(m) => Unbelieved(n)) /\ (CutUnbelieving(m) => CutUnbelieving(n)) /\ (NoClosers(n) => NoClosers(m))
  BY <1>1 DEF Unbelieved, CutUnbelieving, Hearing, NoClosers
<1>4. Kept(n)
  BY <1>1, <1>2, <1>3 DEF Good, Kept, Base, Announced, CredentialsUnlinked, UnlinkedUnbelieved
<1>5. Settled(m) => Settled(n)
  BY <1>0, <1>1, <1>2, <1>3 DEF Settled
<1> QED
  BY <1>2, <1>3, <1>4, <1>5 DEF Good

(***************************************************************************)
(* The feed: its steps                                                     *)
(***************************************************************************)

\* One reader is changed.
LEMMA ReaderIs ==
  ASSUME NEW m \in Relay, NEW r \in Readers, NEW x \in Reader
  PROVE  \E n \in Relay :
           /\ n = [m EXCEPT !.readers[r] = x] /\ SameWire(m, n) /\ SameRun(m, n)
           /\ n.feed = m.feed /\ n.universe = m.universe /\ n.reading = m.reading
           /\ n.readers[r] = x /\ \A p \in Readers : p # r => n.readers[p] = m.readers[p]
<1> DEFINE rs == [m.readers EXCEPT ![r] = x]
           n == [m EXCEPT !.readers = rs]
<1>1. m.readers \in [Readers -> Reader]
  BY FieldsAre
<1>2. rs \in [Readers -> Reader] /\ rs[r] = x /\ \A p \in Readers : p # r => rs[p] = m.readers[p]
  BY <1>1
<1> HIDE DEF rs
<1>3. n \in Relay
  BY <1>2 DEF Relay
<1>4. n.readers = rs /\ n.feed = m.feed /\ n.universe = m.universe /\ n.reading = m.reading
  BY DEF Relay
<1>5. SameWire(m, n) /\ SameRun(m, n)
  BY DEF Relay, SameWire, SameRun
<1>6. n = [m EXCEPT !.readers[r] = x]
  BY DEF rs
<1> HIDE DEF n
<1> QED
  BY <1>2, <1>3, <1>4, <1>5, <1>6

\* Whatever the readers have become, the connection is as it was.
LEMMA WireStays ==
  ASSUME NEW m, Wire(m), NEW n, SameWire(m, n)
  PROVE  Wire(n)
  BY DEF Wire, SameWire

\* A step of the readers, as long as those that hear are told nothing new of the feed.
LEMMA ReadersChange ==
  ASSUME NEW m, Good(m), NEW n \in Relay, SameWire(m, n), SameRun(m, n), n.feed = m.feed, Asking(n),
         m.feed # "live" /\ Unbelieved(m) => Unbelieved(n)
  PROVE  \E o \in Relay : o = Reconcile(n) /\ Good(o)
<1>1. Base(n)
  BY WireStays DEF Good, Kept, Base
<1>2. n.up = m.up /\ n.auth = m.auth /\ n.configured = m.configured /\ n.reconciling = m.reconciling
  BY DEF SameWire, SameRun
<1>3. Announced(n) /\ CredentialsUnlinked(n) /\ (n.reconciling = "credentials" => Unbelieved(n))
  BY <1>2 DEF Good, Kept, Announced, CredentialsUnlinked, UnlinkedUnbelieved
<1> QED
  BY <1>1, <1>3, ReconcileIs

LEMMA ReaderJoinsIs ==
  ASSUME Good(relay), NEW r \in Readers, ReaderJoins(r)
  PROVE  Good(relay')
<1>00. relay \in Relay
  BY DEF Good, Kept, Base
<1>0. relay \in Relay /\ relay.readers \in [Readers -> Reader] /\ relay.feed \in States /\ Asking(relay)
  BY FieldsAre DEF Good, Kept, Base
<1>1. PICK asks \in (SUBSET Symbols) \ {{}} :
        relay' = Reconcile(Tell([relay EXCEPT !.readers[r] = [state |-> "open", asks |-> asks, told |-> "nothing"]],
                                r, [relay EXCEPT !.readers[r] = [state |-> "open", asks |-> asks, told |-> "nothing"]].feed))
  BY DEF ReaderJoins
<1> DEFINE x == [state |-> "open", asks |-> asks, told |-> "nothing"]
<1>2. x \in Reader /\ x.state = "open" /\ x.asks = asks
  BY DEF Reader
<1> HIDE DEF x
<1>3. PICK m \in Relay : /\ m = [relay EXCEPT !.readers[r] = x] /\ SameWire(relay, m) /\ SameRun(relay, m)
                         /\ m.feed = relay.feed
                         /\ m.readers[r] = x /\ \A p \in Readers : p # r => m.readers[p] = relay.readers[p]
  BY <1>00, <1>2, ReaderIs
<1>4. relay' = Reconcile(Tell(m, r, relay.feed))
  BY <1>1, <1>3 DEF x
<1> DEFINE st == StatusFor(m, r, relay.feed)
           y == [x EXCEPT !.told = st]
<1>5. st \in States /\ (relay.feed # "live" => st # "live")
  BY <1>0 DEF StatusFor, States
<1> HIDE DEF st
<1>6. y \in Reader /\ y.state = "open" /\ y.asks = asks /\ y.told = st
  BY <1>2, <1>5 DEF Reader
<1> HIDE DEF y
<1>7. PICK n \in Relay : /\ n = [m EXCEPT !.readers[r] = y] /\ SameWire(m, n) /\ SameRun(m, n)
                         /\ n.feed = m.feed
                         /\ n.readers[r] = y /\ \A p \in Readers : p # r => n.readers[p] = m.readers[p]
  BY <1>6, ReaderIs
<1>8. n = Tell(m, r, relay.feed)
  BY <1>3, <1>7, FieldsAre DEF Tell, y, st, Relay
<1>9. SameWire(relay, n) /\ SameRun(relay, n) /\ n.feed = relay.feed
  BY <1>3, <1>7 DEF SameWire, SameRun
<1>10. \A p \in Readers : p # r => n.readers[p] = relay.readers[p]
  BY <1>3, <1>7
<1>11. Asking(n)
  <2>1. \A p \in Sockets(n) : p \in Readers /\ (p # r => p \in Sockets(relay))
    BY <1>10 DEF Sockets
  <2>2. asks # {}
    <3>1. asks \in (SUBSET Symbols) \ {{}}
      BY <1>1
    <3> QED
      BY <3>1
  <2>3. \A p \in Sockets(relay) : relay.readers[p].asks # {}
    BY <1>0 DEF Asking
  <2> QED
    BY <1>6, <1>7, <1>10, <2>1, <2>2, <2>3 DEF Asking
<1>12. relay.feed # "live" /\ Unbelieved(relay) => Unbelieved(n)
  BY <1>5, <1>6, <1>7, <1>10 DEF Unbelieved, Hearing
<1>13. PICK o \in Relay : o = Reconcile(n) /\ Good(o)
  BY <1>9, <1>11, <1>12, ReadersChange
<1> QED
  BY <1>4, <1>8, <1>13

LEMMA ReaderResubscribesIs ==
  ASSUME Good(relay), NEW r \in Readers, ReaderResubscribes(r)
  PROVE  Good(relay')
<1>00. relay \in Relay
  BY DEF Good, Kept, Base
<1>0. relay \in Relay /\ relay.readers \in [Readers -> Reader] /\ Asking(relay)
  BY FieldsAre DEF Good, Kept, Base
<1>1. PICK asks \in (SUBSET Symbols) \ {{}, relay.readers[r].asks} :
        relay' = Reconcile([relay EXCEPT !.readers[r].asks = asks])
  BY DEF ReaderResubscribes
<1> DEFINE old == relay.readers[r]
           x == [old EXCEPT !.asks = asks]
<1>2. old \in Reader /\ [relay EXCEPT !.readers[r].asks = asks] = [relay EXCEPT !.readers[r] = x]
  BY <1>0
<1> HIDE DEF old
<1>3. x \in Reader /\ x.asks = asks /\ x.state = old.state /\ x.told = old.told
  BY <1>1, <1>2 DEF Reader
<1> HIDE DEF x
<1>4. PICK n \in Relay : /\ n = [relay EXCEPT !.readers[r] = x] /\ SameWire(relay, n) /\ SameRun(relay, n)
                         /\ n.feed = relay.feed
                         /\ n.readers[r] = x /\ \A p \in Readers : p # r => n.readers[p] = relay.readers[p]
  BY <1>00, <1>3, ReaderIs
<1>5. Asking(n)
  <2>1. \A p \in Sockets(n) : p \in Readers /\ (p # r => p \in Sockets(relay))
    BY <1>4 DEF Sockets
  <2>2. asks # {}
    <3>1. asks \in (SUBSET Symbols) \ {{}}
      BY <1>1
    <3> QED
      BY <3>1
  <2>3. \A p \in Sockets(relay) : relay.readers[p].asks # {}
    BY <1>0 DEF Asking
  <2> QED
    BY <1>3, <1>4, <2>1, <2>2, <2>3 DEF Asking
<1>6. Unbelieved(relay) => Unbelieved(n)
  <2>1. \A p \in Readers : n.readers[p].state = relay.readers[p].state /\ n.readers[p].told = relay.readers[p].told
    BY <1>3, <1>4 DEF old
  <2> QED
    BY <2>1 DEF Unbelieved, Hearing
<1>7. PICK o \in Relay : o = Reconcile(n) /\ Good(o)
  BY <1>4, <1>5, <1>6, ReadersChange
<1> QED
  BY <1>1, <1>2, <1>4, <1>7

LEMMA ReaderClosesIs ==
  ASSUME Good(relay), NEW r \in Readers, ReaderCloses(r)
  PROVE  Good(relay')
<1>00. relay \in Relay
  BY DEF Good, Kept, Base
<1>0. relay \in Relay /\ Asking(relay)
  BY DEF Good, Kept, Base
<1>1. relay' = Reconcile([relay EXCEPT !.readers[r] = Away])
  BY DEF ReaderCloses, Becomes
<1>2. Away \in Reader /\ Away.state = "away"
  BY DEF Away, Reader
<1>3. PICK n \in Relay : /\ n = [relay EXCEPT !.readers[r] = Away] /\ SameWire(relay, n) /\ SameRun(relay, n)
                         /\ n.feed = relay.feed
                         /\ n.readers[r] = Away /\ \A p \in Readers : p # r => n.readers[p] = relay.readers[p]
  BY <1>00, <1>2, ReaderIs
<1>4. Asking(n) /\ (Unbelieved(relay) => Unbelieved(n))
  <2>1. \A p \in Sockets(n) : p \in Readers /\ p # r
    BY <1>2, <1>3 DEF Sockets
  <2>2. \A p \in Hearing(n) : p \in Readers /\ p # r
    BY <1>2, <1>3 DEF Hearing
  <2>3. Asking(n)
    BY <1>0, <1>3, <2>1 DEF Asking, Sockets
  <2>4. Unbelieved(relay) => Unbelieved(n)
    BY <1>3, <2>2 DEF Unbelieved, Hearing
  <2> QED
    BY <2>3, <2>4
<1>5. PICK o \in Relay : o = Reconcile(n) /\ Good(o)
  BY <1>3, <1>4, ReadersChange
<1> QED
  BY <1>1, <1>3, <1>5

\* A reader that is no longer listened to leaves everything as it was; what it wants is
\* looked at again when its close comes.
LEMMA ReaderLeft ==
  ASSUME NEW m, Good(m), NEW n \in Relay, SameWire(m, n), SameRun(m, n), n.feed = m.feed, Asking(n),
         Unbelieved(m) => Unbelieved(n), ~NoClosers(n)
  PROVE  Good(n)
<1>1. Base(n)
  BY WireStays DEF Good, Kept, Base
<1>2. n.up = m.up /\ n.auth = m.auth /\ n.configured = m.configured /\ n.reconciling = m.reconciling /\ n.needed = m.needed
  BY DEF SameWire, SameRun
<1>3. Kept(n)
  BY <1>1, <1>2 DEF Good, Kept, Announced, CredentialsUnlinked, UnlinkedUnbelieved
<1> QED
  BY <1>2, <1>3 DEF Good

LEMMA ReaderRefusedIs ==
  ASSUME Good(relay), NEW r \in Readers, ReaderRefused(r)
  PROVE  Good(relay')
<1>00. relay \in Relay
  BY DEF Good, Kept, Base
<1>0. relay \in Relay /\ relay.readers \in [Readers -> Reader] /\ Asking(relay)
  BY FieldsAre DEF Good, Kept, Base
<1>1. PICK closed \in {"closing", "gone"} :
        relay' = [relay EXCEPT !.readers[r].state = closed, !.readers[r].told = "degraded"]
  BY DEF ReaderRefused, Becomes
<1> DEFINE old == relay.readers[r]
           x == [old EXCEPT !.state = closed, !.told = "degraded"]
<1>2. old \in Reader /\ old.state = "open" /\ relay' = [relay EXCEPT !.readers[r] = x]
  BY <1>0, <1>1 DEF ReaderRefused
<1> HIDE DEF old
<1>3. x \in Reader /\ x.state = closed /\ x.asks = old.asks
  BY <1>2 DEF Reader, States
<1> HIDE DEF x
<1>4. PICK n \in Relay : /\ n = [relay EXCEPT !.readers[r] = x] /\ SameWire(relay, n) /\ SameRun(relay, n)
                         /\ n.feed = relay.feed
                         /\ n.readers[r] = x /\ \A p \in Readers : p # r => n.readers[p] = relay.readers[p]
  BY <1>00, <1>3, ReaderIs
<1>5. Asking(n)
  <2>1. \A p \in Sockets(n) : p \in Sockets(relay) /\ n.readers[p].asks = relay.readers[p].asks
    BY <1>2, <1>3, <1>4 DEF Sockets, old
  <2> QED
    BY <1>0, <2>1 DEF Asking
<1>6. Unbelieved(relay) => Unbelieved(n)
  <2>1. \A p \in Hearing(n) : p \in Readers /\ p # r
    BY <1>3, <1>4 DEF Hearing
  <2> QED
    BY <1>4, <2>1 DEF Unbelieved, Hearing
<1>7. ~NoClosers(n)
  BY <1>3, <1>4 DEF NoClosers
<1> QED
  BY <1>2, <1>4, <1>5, <1>6, <1>7, ReaderLeft

LEMMA ReaderCrashesIs ==
  ASSUME Good(relay), NEW r \in Readers, ReaderCrashes(r)
  PROVE  Good(relay')
<1>00. relay \in Relay
  BY DEF Good, Kept, Base
<1>0. relay \in Relay /\ relay.readers \in [Readers -> Reader] /\ Base(relay) /\ relay.opened \subseteq FeedTypes
  BY FieldsAre DEF Good, Kept, Base
<1>1. relay.readers[r].state = "open" /\ relay' = [relay EXCEPT !.readers[r].state = "silent"]
  BY DEF ReaderCrashes, Becomes
<1> DEFINE old == relay.readers[r]
           x == [old EXCEPT !.state = "silent"]
<1>2. old \in Reader /\ old.state = "open" /\ relay' = [relay EXCEPT !.readers[r] = x]
  BY <1>0, <1>1
<1> HIDE DEF old
<1>3. x \in Reader /\ x.state = "silent" /\ x.asks = old.asks /\ x.told = old.told
  BY <1>2 DEF Reader
<1> HIDE DEF x
<1>4. PICK n \in Relay : /\ n = [relay EXCEPT !.readers[r] = x] /\ SameWire(relay, n) /\ SameRun(relay, n)
                         /\ n.feed = relay.feed /\ n.universe = relay.universe /\ n.reading = relay.reading
                         /\ n.readers[r] = x /\ \A p \in Readers : p # r => n.readers[p] = relay.readers[p]
  BY <1>00, <1>3, ReaderIs
<1>5. \A p \in Readers : n.readers[p].asks = relay.readers[p].asks /\ n.readers[p].told = relay.readers[p].told
  BY <1>3, <1>4 DEF old
<1>6. Sockets(n) = Sockets(relay) /\ Hearing(n) = Hearing(relay) /\ (NoClosers(n) => NoClosers(relay))
  <2>1. \A p \in Readers : \/ n.readers[p].state = relay.readers[p].state
                           \/ n.readers[p].state = "silent" /\ relay.readers[p].state = "open"
    BY <1>2, <1>3, <1>4 DEF old
  <2> QED
    BY <2>1 DEF Sockets, Hearing, NoClosers
<1>7. Asking(n)
  BY <1>0, <1>5, <1>6 DEF Base, Asking, Sockets
<1>8. /\ \A t \in FeedTypes : Desired(n, t) = Desired(relay, t)
      /\ HasDemand(n) <=> HasDemand(relay)
      /\ \A p \in Readers : IsTruncated(n, p) <=> IsTruncated(relay, p)
  <2>1. DownstreamDemand(n) = DownstreamDemand(relay)
    BY <1>5, <1>6 DEF DownstreamDemand, Sockets
  <2>2. \A y : {p \in Sockets(n) : y \in n.readers[p].asks} = {p \in Sockets(relay) : y \in relay.readers[p].asks}
    BY <1>5, <1>6 DEF Sockets
  <2>3. \A y : Askers(n, y) = Askers(relay, y)
    BY <2>2 DEF Askers
  <2>4. \A y, z : RankedBefore(n, y, z) <=> RankedBefore(relay, y, z)
    BY <1>4, <2>3 DEF RankedBefore
  <2>5. \A y : Before(n, y) = Before(relay, y)
    BY <2>1, <2>4 DEF Before
  <2>6. RelayedDownstream(n) = RelayedDownstream(relay)
    BY <2>1, <2>5 DEF RelayedDownstream, Before
  <2> QED
    BY <1>4, <1>5, <2>6 DEF Desired, ReadDemand, HasDemand, IsTruncated
<1>9. (Unbelieved(relay) => Unbelieved(n)) /\ (CutUnbelieving(relay) => CutUnbelieving(n))
  BY <1>5, <1>6, <1>8 DEF Unbelieved, CutUnbelieving, Hearing
<1>10. /\ n.up = relay.up /\ n.auth = relay.auth /\ n.configured = relay.configured /\ n.opened = relay.opened /\ n.served = relay.served
       /\ n.reconciling = relay.reconciling /\ n.needed = relay.needed /\ n.alarm = relay.alarm
  BY <1>4 DEF SameWire, SameRun
<1>11. Base(n)
  BY <1>0, <1>4, <1>7, WireStays DEF Base
<1>12. Kept(n)
  BY <1>4, <1>9, <1>10, <1>11 DEF Good, Kept, Announced, CredentialsUnlinked, UnlinkedUnbelieved
<1>13. Settled(relay) => Settled(n)
  BY <1>0, <1>8, <1>9, <1>10 DEF Settled
<1>14. Good(n)
  BY <1>6, <1>10, <1>12, <1>13 DEF Good
<1> QED
  BY <1>2, <1>4, <1>14

\* What is read changes what is wanted, and no reader is told.
LEMMA ReadIs ==
  ASSUME Good(relay), NEW q \in Reads, ReadStarts(q) \/ ReadEnds(q)
  PROVE  Good(relay')
<1>0. relay \in Relay /\ relay.reading \in SUBSET Reads /\ Asking(relay)
  BY FieldsAre DEF Good, Kept, Base
<1>1. PICK reading \in SUBSET Reads : relay' = Reconcile([relay EXCEPT !.reading = reading])
  <2>1. CASE ReadStarts(q)
    <3>1. relay.reading \cup {q} \in SUBSET Reads /\ relay' = Reconcile([relay EXCEPT !.reading = relay.reading \cup {q}])
      BY <1>0, <2>1 DEF ReadStarts
    <3> QED
      BY <3>1
  <2>2. CASE ReadEnds(q)
    <3>1. relay.reading \ {q} \in SUBSET Reads /\ relay' = Reconcile([relay EXCEPT !.reading = relay.reading \ {q}])
      BY <1>0, <2>2 DEF ReadEnds, Becomes
    <3> QED
      BY <3>1
  <2> QED
    BY <2>1, <2>2
<1> DEFINE n == [relay EXCEPT !.reading = reading]
<1>2. n \in Relay
  BY <1>0 DEF Relay
<1>3. n.feed = relay.feed /\ n.readers = relay.readers /\ SameWire(relay, n) /\ SameRun(relay, n)
  BY <1>0 DEF Relay, SameWire, SameRun
<1> HIDE DEF n
<1>4. Asking(n) /\ (Unbelieved(relay) => Unbelieved(n))
  BY <1>0, <1>3 DEF Asking, Sockets, Unbelieved, Hearing
<1>5. PICK o \in Relay : o = Reconcile(n) /\ Good(o)
  BY <1>2, <1>3, <1>4, ReadersChange
<1> QED
  BY <1>1, <1>5 DEF n

LEMMA UniverseReadIs ==
  ASSUME Good(relay), UniverseRead
  PROVE  Good(relay')
<1>0. relay \in Relay
  BY DEF Good, Kept, Base
<1>1. PICK copy \in {Published, relay.universe} :
        relay' = Settle(ConnectAndSync([relay EXCEPT !.universe = copy, !.fresh = TRUE]))
  BY DEF UniverseRead, Becomes
<1> DEFINE m == [relay EXCEPT !.universe = copy, !.fresh = TRUE]
<1>2. m \in Relay
  <2>1. copy \in SUBSET Symbols
    BY <1>0, <1>1, FieldsAre, FeedAssumption
  <2> QED
    BY <1>0, <2>1 DEF Relay
<1>3. m.feed = relay.feed /\ m.readers = relay.readers /\ SameWire(relay, m)
  BY <1>0 DEF Relay, SameWire
<1> HIDE DEF m
<1>4. Base(m)
  <2>1. Asking(m)
    BY <1>3 DEF Good, Kept, Base, Asking, Sockets
  <2> QED
    BY <1>2, <1>3, <2>1, WireStays DEF Good, Kept, Base
<1>5. Announced(m)
  BY <1>3 DEF Good, Kept, Announced, SameWire, Unbelieved, Hearing
<1>6. PICK n \in Relay : /\ n = ConnectAndSync(m) /\ Kept(n)
                         /\ n.reconciling = "no" => Settled(n)
  BY <1>4, <1>5, ConnectAndSyncIs
<1>7. PICK o \in Relay : o = Settle(n) /\ Good(o)
  BY <1>6, SettleIs
<1> QED
  BY <1>1, <1>6, <1>7 DEF m

LEMMA CredentialsLoadedIs ==
  ASSUME Good(relay), CredentialsLoaded
  PROVE  Good(relay')
<1>0. relay \in Relay
  BY DEF Good, Kept, Base
<1>1. relay.reconciling = "credentials" /\ relay' = Settle(OpenUpstream([relay EXCEPT !.token = "good"]))
  BY DEF CredentialsLoaded, Becomes
<1>2. relay.up = NoLink /\ relay.feed # "live" /\ Unbelieved(relay)
  BY <1>1 DEF Good, Kept, CredentialsUnlinked, UnlinkedUnbelieved
<1> DEFINE m == [relay EXCEPT !.token = "good"]
<1>3. m \in Relay
  BY <1>0 DEF Relay
<1>4. /\ m.feed = relay.feed /\ m.readers = relay.readers /\ m.universe = relay.universe
      /\ m.reading = relay.reading /\ m.token = "good"
      /\ m.up = relay.up /\ m.open = relay.open /\ m.broken = relay.broken /\ m.alive = relay.alive
      /\ m.late = relay.late /\ m.auth = relay.auth /\ m.opened = relay.opened /\ m.configured = relay.configured
      /\ m.subscribed = relay.subscribed /\ m.served = relay.served /\ m.keepalive = relay.keepalive
      /\ m.setup = relay.setup
  BY <1>0 DEF Relay
<1> HIDE DEF m
<1>5. Base(m)
  <2>1. Asking(m) /\ Wire(m)
    BY <1>4 DEF Good, Kept, Base, Asking, Sockets, Wire
  <2> QED
    BY <1>3, <2>1 DEF Base
<1>6. Unbelieved(m)
  BY <1>2, <1>4 DEF Unbelieved, Hearing
<1>7. PICK n \in Relay : n = OpenUpstream(m) /\ Settling(m, n)
  BY <1>2, <1>4, <1>5, <1>6, OpenUpstreamIs
<1>8. PICK o \in Relay : o = Settle(n) /\ Good(o)
  BY <1>7, SettleIs DEF Settling
<1> QED
  BY <1>1, <1>7, <1>8 DEF m

LEMMA CredentialsFailIs ==
  ASSUME Good(relay), CredentialsFail
  PROVE  Good(relay')
<1>0. relay \in Relay /\ Base(relay) /\ relay.reconciling = "credentials" /\ relay.up = NoLink
  BY DEF Good, Kept, Base, CredentialsFail, CredentialsUnlinked
<1>1. "degraded" \in States /\ "degraded" # "live"
  BY DEF States
<1>2. PICK m \in Relay : /\ m = BroadcastStatus(relay, "degraded") /\ SameDemand(relay, m) /\ SameWire(relay, m)
                         /\ Unbelieved(m)
  BY <1>0, <1>1, BroadcastIs
<1>3. Base(m)
  BY <1>0, <1>2, SameKeeps
<1>4. PICK k \in Relay : /\ k = IF HasDemand(m) THEN [m EXCEPT !.alarm = TRUE] ELSE m
                         /\ Base(k) /\ SameDemand(m, k) /\ k.up = NoLink /\ Unbelieved(k)
                         /\ HasDemand(m) => k.alarm = TRUE
  <2>1. PICK k \in Relay : /\ k = [m EXCEPT !.alarm = TRUE] /\ SameDemand(m, k) /\ SameWire(m, k)
                           /\ k.readers = m.readers /\ k.alarm = TRUE
    BY AlarmIs
  <2>2. Base(k)
    BY <1>3, <2>1, SameKeeps
  <2>3. Unbelieved(k) /\ k.up = NoLink /\ m.up = NoLink
    BY <1>0, <1>2, <2>1 DEF Unbelieved, Hearing, SameWire
  <2>4. SameDemand(m, m)
    BY DEF SameDemand, SameReaders
  <2>5. CASE HasDemand(m)
    BY <2>1, <2>2, <2>3, <2>5
  <2>6. CASE ~HasDemand(m)
    BY <1>2, <1>3, <2>3, <2>4, <2>6
  <2> QED
    BY <2>5, <2>6
<1>5. k.opened = {} /\ (HasDemand(k) <=> HasDemand(m))
  BY <1>4, DemandIs DEF Base, Wire
<1>6. PICK n \in Relay : n = Finish(ReportTruncation(k)) /\ Settling(k, n)
  BY <1>4, <1>5, FinishIs DEF Announced
<1>7. PICK o \in Relay : o = Settle(n) /\ Good(o)
  BY <1>6, SettleIs DEF Settling
<1>8. relay' = o
  BY <1>2, <1>4, <1>6, <1>7 DEF CredentialsFail, Fault
<1> QED
  BY <1>7, <1>8

\* One field of no account.
LEMMA AlarmFiresIs ==
  ASSUME Good(relay), AlarmFires
  PROVE  Good(relay')
<1>0. relay \in Relay /\ Base(relay)
  BY DEF Good, Kept, Base
<1>1. relay' = Reconcile([relay EXCEPT !.alarm = FALSE])
  BY DEF AlarmFires, Becomes
<1>2. PICK n \in Relay : /\ n = [relay EXCEPT !.alarm = FALSE] /\ SameDemand(relay, n) /\ SameWire(relay, n)
                         /\ SameReconcile(relay, n) /\ n.feed = relay.feed /\ n.readers = relay.readers
  BY <1>0, AlarmIs
<1>3. Base(n)
  BY <1>0, <1>2, SameKeeps
<1>4. Announced(n) /\ CredentialsUnlinked(n) /\ (n.reconciling = "credentials" => Unbelieved(n))
  BY <1>2 DEF Good, Kept, Announced, CredentialsUnlinked, UnlinkedUnbelieved,
              Unbelieved, Hearing, SameWire, SameReconcile
<1>5. PICK o \in Relay : o = Reconcile(n) /\ Good(o)
  BY <1>3, <1>4, ReconcileIs
<1> QED
  BY <1>1, <1>2, <1>5

LEMMA SetupTimesOutIs ==
  ASSUME Good(relay), SetupTimesOut
  PROVE  Good(relay')
<1>0. relay \in Relay /\ Wire(relay) /\ relay.setup = TRUE
  BY FieldsAre DEF Good, Kept, Base, SetupTimesOut
<1> DEFINE n == [relay EXCEPT !.setup = FALSE]
<1>1. n \in Relay
  BY <1>0 DEF Relay
<1>2. /\ n.feed = relay.feed /\ n.readers = relay.readers /\ n.universe = relay.universe
      /\ n.reading = relay.reading /\ n.setup = FALSE
      /\ n.up = relay.up /\ n.open = relay.open /\ n.broken = relay.broken /\ n.alive = relay.alive
      /\ n.late = relay.late /\ n.auth = relay.auth /\ n.opened = relay.opened /\ n.configured = relay.configured
      /\ n.subscribed = relay.subscribed /\ n.served = relay.served /\ n.keepalive = relay.keepalive
      /\ SameRun(relay, n)
  BY <1>0 DEF Relay, SameRun
<1>3. relay' = n \/ relay' = CloseUpstream(n)
  BY DEF SetupTimesOut, Becomes, Fault
<1> HIDE DEF n
<1>4. SameDemand(relay, n) /\ Wire(n)
  BY <1>0, <1>2 DEF SameDemand, SameReaders, Wire
<1>5. Good(n)
  BY <1>1, <1>2, <1>4, GoodStays
<1>6. n.up # NoLink
  BY <1>0, <1>2 DEF Wire
<1>7. PICK o \in Relay : o = CloseUpstream(n) /\ Closed(n, o)
  BY <1>5, <1>6, CloseIs DEF Good, Kept
<1>8. Good(o)
  BY <1>5, <1>6, <1>7, ClosedIsGood
<1> QED
  BY <1>3, <1>5, <1>7, <1>8

\* A send leaves things as they are or ends the connection.
LEMMA SentIs ==
  ASSUME NEW m, Good(m), m.up # NoLink, NEW then \in Relay, Good(then)
  PROVE  \E n \in Relay : n = Sent(m, then) /\ Good(n) /\ (n = then \/ Closed(m, n))
<1>1. PICK o \in Relay : o = CloseUpstream(m) /\ Closed(m, o)
  BY CloseIs DEF Good, Kept
<1>2. Good(o)
  BY <1>1, ClosedIsGood
<1>3. CASE m.broken
  BY <1>1, <1>2, <1>3 DEF Sent
<1>4. CASE ~m.broken
  BY <1>4 DEF Sent
<1> QED
  BY <1>3, <1>4

LEMMA KeepaliveBeatsIs ==
  ASSUME Good(relay), KeepaliveBeats
  PROVE  Good(relay')
<1>0. relay \in Relay /\ Wire(relay) /\ relay.keepalive = TRUE
  BY FieldsAre DEF Good, Kept, Base, KeepaliveBeats
<1>1. relay.up # NoLink
  BY <1>0 DEF Wire
<1>2. PICK m \in Relay : m = Sent(relay, relay) /\ Good(m)
  BY <1>0, <1>1, SentIs
<1> DEFINE silent == {r \in Readers : m.readers[r].state = "silent"}
<1>3. PICK closed \in {"closing", "gone"} :
        relay' = IF silent = {} THEN m
                 ELSE Reconcile([m EXCEPT !.readers = [r \in Readers |->
                        IF r \in silent THEN [m.readers[r] EXCEPT !.state = closed] ELSE m.readers[r]]])
  BY <1>2 DEF KeepaliveBeats, Becomes
<1> DEFINE rs == [r \in Readers |-> IF r \in silent THEN [m.readers[r] EXCEPT !.state = closed] ELSE m.readers[r]]
           n == [m EXCEPT !.readers = rs]
<1>4. CASE silent = {}
  BY <1>2, <1>3, <1>4
<1>5. CASE silent # {}
  <2>1. relay' = Reconcile(n)
    BY <1>3, <1>5
  <2>2. ASSUME NEW r \in Readers
        PROVE  /\ rs[r] \in Reader /\ rs[r].asks = m.readers[r].asks /\ rs[r].told = m.readers[r].told
               /\ rs[r].state = m.readers[r].state \/ (rs[r].state = closed /\ m.readers[r].state = "silent")
    <3> DEFINE x == m.readers[r]
    <3>1. x \in Reader /\ rs[r] = IF r \in silent THEN [x EXCEPT !.state = closed] ELSE x
      BY FieldsAre
    <3>2. r \in silent <=> x.state = "silent"
      OBVIOUS
    <3> HIDE DEF x, rs, silent
    <3>3. CASE r \in silent
      BY <1>3, <3>1, <3>2, <3>3 DEF Reader, x
    <3>4. CASE r \notin silent
      BY <3>1, <3>4 DEF x
    <3> QED
      BY <3>3, <3>4
  <2>3. rs \in [Readers -> Reader]
    BY <2>2
  <2> HIDE DEF rs
  <2>4. n \in Relay
    BY <2>3 DEF Relay
  <2>5. n.readers = rs /\ n.feed = m.feed /\ SameWire(m, n) /\ SameRun(m, n)
    BY DEF Relay, SameWire, SameRun
  <2> HIDE DEF n
  <2>6. Sockets(n) \subseteq Sockets(m) /\ Hearing(n) \subseteq Hearing(m)
    <3>1. closed # "open" /\ closed # "silent"
      BY <1>3
    <3> QED
      BY <2>2, <2>5, <3>1 DEF Sockets, Hearing
  <2>7. Asking(n)
    <3>1. Asking(m) /\ \A r \in Sockets(n) : r \in Readers
      BY <1>2 DEF Good, Kept, Base, Sockets
    <3> QED
      BY <2>2, <2>5, <2>6, <3>1 DEF Asking
  <2>8. Unbelieved(m) => Unbelieved(n)
    <3>1. \A r \in Hearing(n) : r \in Readers
      BY DEF Hearing
    <3> QED
      BY <2>2, <2>5, <2>6, <3>1 DEF Unbelieved
  <2>9. PICK o \in Relay : o = Reconcile(n) /\ Good(o)
    BY <1>2, <2>4, <2>5, <2>7, <2>8, ReadersChange
  <2> QED
    BY <2>1, <2>9
<1> QED
  BY <1>4, <1>5

LEMMA LinkOpensIs ==
  ASSUME Good(relay), LinkOpens
  PROVE  Good(relay')
<1>0. relay \in Relay /\ Wire(relay) /\ relay.up # NoLink /\ relay.open = FALSE /\ relay.broken = FALSE
  BY FieldsAre DEF Good, Kept, Base, LinkOpens, Wire
<1> DEFINE n == [relay EXCEPT !.open = TRUE]
<1>1. n \in Relay
  BY <1>0 DEF Relay
<1>2. /\ n.feed = relay.feed /\ n.readers = relay.readers /\ n.universe = relay.universe
      /\ n.reading = relay.reading /\ n.setup = relay.setup
      /\ n.up = relay.up /\ n.open = TRUE /\ n.broken = relay.broken /\ n.alive = relay.alive
      /\ n.late = relay.late /\ n.auth = relay.auth /\ n.opened = relay.opened /\ n.configured = relay.configured
      /\ n.subscribed = relay.subscribed /\ n.served = relay.served /\ n.keepalive = relay.keepalive
      /\ SameRun(relay, n)
  BY <1>0 DEF Relay, SameRun
<1>3. relay' = Sent(n, n)
  BY DEF LinkOpens, Becomes
<1> HIDE DEF n
<1>4. SameDemand(relay, n) /\ Wire(n)
  BY <1>0, <1>2 DEF SameDemand, SameReaders, Wire
<1>5. Good(n)
  BY <1>1, <1>2, <1>4, GoodStays
<1> QED
  BY <1>0, <1>1, <1>2, <1>3, <1>5, SentIs

LEMMA InitialUnauthorizedIs ==
  ASSUME Good(relay), InitialUnauthorized
  PROVE  Good(relay')
<1>0. relay \in Relay /\ Wire(relay) /\ relay.open = TRUE /\ relay.auth = "awaiting"
  BY FieldsAre DEF Good, Kept, Base, InitialUnauthorized
<1> DEFINE n == [relay EXCEPT !.auth = "initial-unauthorized"]
<1>1. n \in Relay
  BY <1>0 DEF Relay
<1>2. /\ n.feed = relay.feed /\ n.readers = relay.readers /\ n.universe = relay.universe
      /\ n.reading = relay.reading /\ n.setup = relay.setup
      /\ n.up = relay.up /\ n.open = relay.open /\ n.broken = relay.broken /\ n.alive = relay.alive
      /\ n.late = relay.late /\ n.opened = relay.opened /\ n.configured = relay.configured
      /\ n.subscribed = relay.subscribed /\ n.served = relay.served /\ n.keepalive = relay.keepalive
      /\ n.auth = "initial-unauthorized" /\ SameRun(relay, n)
  BY <1>0 DEF Relay, SameRun
<1>3. relay' = n
  BY DEF InitialUnauthorized, Becomes
<1> HIDE DEF n
<1>4. SameDemand(relay, n) /\ Wire(n)
  BY <1>0, <1>2 DEF SameDemand, SameReaders, Wire
<1> QED
  BY <1>0, <1>1, <1>2, <1>3, <1>4, GoodStays

LEMMA AuthorizedIs ==
  ASSUME Good(relay), Authorized
  PROVE  Good(relay')
<1>0. relay \in Relay /\ Wire(relay) /\ relay.open = TRUE
  BY FieldsAre DEF Good, Kept, Base, Authorized
<1> DEFINE m == [relay EXCEPT !.auth = "authorized", !.keepalive = FALSE]
           n == [m EXCEPT !.keepalive = TRUE]
<1>1. m \in Relay
  BY <1>0 DEF Relay
<1>2. /\ m.feed = relay.feed /\ m.readers = relay.readers /\ m.universe = relay.universe
      /\ m.reading = relay.reading /\ m.setup = relay.setup
      /\ m.up = relay.up /\ m.open = relay.open /\ m.broken = relay.broken /\ m.alive = relay.alive
      /\ m.late = relay.late /\ m.opened = relay.opened /\ m.configured = relay.configured
      /\ m.subscribed = relay.subscribed /\ m.served = relay.served /\ m.keepalive = FALSE
      /\ m.auth = "authorized" /\ SameRun(relay, m)
  BY <1>0 DEF Relay, SameRun
<1>3. relay' = Sent(m, n)
  BY DEF Authorized, Becomes
<1> HIDE DEF m
<1>4. n \in Relay
  BY <1>1 DEF Relay
<1>5. /\ n.feed = relay.feed /\ n.readers = relay.readers /\ n.universe = relay.universe
      /\ n.reading = relay.reading /\ n.setup = relay.setup
      /\ n.up = relay.up /\ n.open = relay.open /\ n.broken = relay.broken /\ n.alive = relay.alive
      /\ n.late = relay.late /\ n.opened = relay.opened /\ n.configured = relay.configured
      /\ n.subscribed = relay.subscribed /\ n.served = relay.served /\ n.keepalive = TRUE
      /\ n.auth = "authorized" /\ SameRun(relay, n)
  BY <1>1, <1>2 DEF Relay, SameRun
<1> HIDE DEF n
<1>6. SameDemand(relay, m) /\ Wire(m) /\ SameDemand(relay, n) /\ Wire(n)
  BY <1>0, <1>2, <1>5 DEF SameDemand, SameReaders, Wire
<1>7. Good(m)
  BY <1>1, <1>2, <1>6, GoodStays
<1>8. Good(n)
  BY <1>4, <1>5, <1>6, GoodStays
<1>9. m.up # NoLink
  BY <1>0, <1>2 DEF Wire
<1> QED
  BY <1>3, <1>4, <1>7, <1>8, <1>9, SentIs

\* The protocol fails, whatever becomes of the token.
LEMMA FailsIs ==
  ASSUME NEW m, Good(m), m.open = TRUE
  PROVE  \E n \in Relay : n = FailProtocol(m) /\ Good(n)
<1>1. Base(m) /\ m.up # NoLink
  BY DEF Good, Kept, Base, Wire
<1>2. PICK n \in Relay : n = FailProtocol(m) /\ Closed(m, n)
  BY <1>1, FailIs
<1> QED
  BY <1>1, <1>2, ClosedIsGood

LEMMA TokenIs ==
  ASSUME NEW m, Good(m), NEW v \in {"good", "bad", NoToken}
  PROVE  \E n \in Relay : n = [m EXCEPT !.token = v] /\ Good(n) /\ n.open = m.open
<1>0. m \in Relay /\ Wire(m)
  BY DEF Good, Kept, Base
<1> DEFINE n == [m EXCEPT !.token = v]
<1>1. n \in Relay
  BY <1>0 DEF Relay
<1>2. /\ n.feed = m.feed /\ n.readers = m.readers /\ n.universe = m.universe
      /\ n.reading = m.reading /\ n.setup = m.setup
      /\ n.up = m.up /\ n.open = m.open /\ n.broken = m.broken /\ n.alive = m.alive
      /\ n.late = m.late /\ n.opened = m.opened /\ n.configured = m.configured
      /\ n.subscribed = m.subscribed /\ n.served = m.served /\ n.keepalive = m.keepalive
      /\ n.auth = m.auth /\ SameRun(m, n)
  BY <1>0 DEF Relay, SameRun
<1> HIDE DEF n
<1>3. SameDemand(m, n) /\ Wire(n)
  BY <1>0, <1>2 DEF SameDemand, SameReaders, Wire
<1>4. Good(n)
  BY <1>1, <1>2, <1>3, GoodStays
<1> QED
  BY <1>1, <1>2, <1>4 DEF n

LEMMA AuthorizationFailsIs ==
  ASSUME Good(relay), AuthorizationFails
  PROVE  Good(relay')
<1>1. relay \in Relay /\ relay.open = TRUE
  BY FieldsAre DEF Good, Kept, Base, AuthorizationFails
<1>2. PICK m \in Relay : m = [relay EXCEPT !.token = NoToken] /\ Good(m) /\ m.open = relay.open
  BY TokenIs
<1>3. PICK n \in Relay : n = FailProtocol(m) /\ Good(n)
  BY <1>1, <1>2, FailsIs
<1> QED
  BY <1>2, <1>3 DEF AuthorizationFails, Becomes

LEMMA ChannelOpenedIs ==
  ASSUME Good(relay), NEW t \in FeedTypes, ChannelOpened(t)
  PROVE  Good(relay')
<1>0. /\ relay \in Relay /\ Wire(relay) /\ Asking(relay) /\ relay.auth = "authorized" /\ relay.open = TRUE
      /\ relay.opened \in SUBSET FeedTypes /\ relay.configured \in SUBSET FeedTypes
  BY FieldsAre DEF Good, Kept, Base, Wire, ChannelOpened
<1> DEFINE os == relay.opened \cup {t}
           cs == relay.configured \ {t}
           n == [relay EXCEPT !.opened = os, !.configured = cs]
<1>1. os \in SUBSET FeedTypes /\ cs \in SUBSET FeedTypes
  BY <1>0
<1>2. relay' = IF n.broken THEN CloseUpstream(n) ELSE Reconcile(n)
  BY <1>0 DEF ChannelOpened, Becomes
<1>3. cs \subseteq os
  BY <1>0 DEF Wire
<1> HIDE DEF os, cs
<1>4. n \in Relay
  BY <1>0, <1>1 DEF Relay
<1>5. /\ n.feed = relay.feed /\ n.readers = relay.readers /\ n.universe = relay.universe
      /\ n.reading = relay.reading /\ n.setup = relay.setup
      /\ n.up = relay.up /\ n.open = relay.open /\ n.broken = relay.broken /\ n.alive = relay.alive
      /\ n.late = relay.late /\ n.opened = os /\ n.configured = cs
      /\ n.subscribed = relay.subscribed /\ n.served = relay.served /\ n.keepalive = relay.keepalive
      /\ n.auth = relay.auth /\ SameRun(relay, n)
  BY <1>0 DEF Relay, SameRun
<1> HIDE DEF n
<1>6. SameDemand(relay, n) /\ Wire(n) /\ n.up # NoLink
  BY <1>0, <1>3, <1>5 DEF SameDemand, SameReaders, Wire
<1>7. Base(n)
  BY <1>0, <1>4, <1>6, DemandIs DEF Base
<1>8. n.reconciling # "credentials" /\ relay.reconciling # "credentials"
  BY <1>5, <1>6 DEF Good, Kept, CredentialsUnlinked, SameRun
<1>9. CASE n.broken
  <2>1. PICK o \in Relay : o = CloseUpstream(n) /\ Closed(n, o)
    BY <1>6, <1>7, CloseIs
  <2>2. (HasDemand(n) <=> HasDemand(relay)) /\ SameReconcile(relay, n)
    BY <1>0, <1>4, <1>5, <1>6, DemandIs DEF SameRun, SameReconcile
  <2>3. Closed(relay, o)
    BY <1>6, <2>1, <2>2, SameDemandTwice DEF Closed, SameReconcile
  <2>4. Good(o)
    BY <1>5, <1>6, <2>3, ClosedIsGood
  <2> QED
    BY <1>2, <1>9, <2>1, <2>4
<1>10. CASE ~n.broken
  <2>1. n.configured \subseteq relay.configured
    BY <1>5 DEF cs
  <2>2. Announced(n)
    BY <1>0, <1>5, <1>6, <2>1 DEF Good, Kept, Announced
  <2>3. PICK o \in Relay : o = Reconcile(n) /\ Good(o)
    BY <1>7, <1>8, <2>2, ReconcileIs DEF CredentialsUnlinked
  <2> QED
    BY <1>2, <1>10, <2>3
<1> QED
  BY <1>9, <1>10

LEMMA FeedConfigIs ==
  ASSUME Good(relay), NEW t \in FeedTypes, FeedConfig(t)
  PROVE  Good(relay')
<1>0. /\ relay \in Relay /\ Wire(relay) /\ Asking(relay) /\ relay.auth = "authorized" /\ relay.up # NoLink
      /\ relay.opened \in SUBSET FeedTypes /\ relay.configured \in SUBSET FeedTypes /\ t \in relay.opened
  BY FieldsAre DEF Good, Kept, Base, Wire, FeedConfig
<1> DEFINE cs == relay.configured \cup {t}
           m == [relay EXCEPT !.configured = cs]
           k == [m EXCEPT !.setup = FALSE]
<1>1. cs \in SUBSET FeedTypes /\ cs \subseteq relay.opened
  BY <1>0 DEF Wire
<1>2. relay' = IF DemandIsConfigured(m) THEN BroadcastStatus(k, "live") ELSE m
  BY DEF FeedConfig, Becomes
<1> HIDE DEF cs
<1>3. m \in Relay
  BY <1>0, <1>1 DEF Relay
<1>4. /\ m.feed = relay.feed /\ m.readers = relay.readers /\ m.universe = relay.universe
      /\ m.reading = relay.reading /\ m.setup = relay.setup
      /\ m.up = relay.up /\ m.open = relay.open /\ m.broken = relay.broken /\ m.alive = relay.alive
      /\ m.late = relay.late /\ m.opened = relay.opened /\ m.configured = cs
      /\ m.subscribed = relay.subscribed /\ m.served = relay.served /\ m.keepalive = relay.keepalive
      /\ m.auth = relay.auth /\ SameRun(relay, m)
  BY <1>0 DEF Relay, SameRun
<1> HIDE DEF m
<1>5. SameDemand(relay, m) /\ Wire(m)
  BY <1>0, <1>1, <1>4 DEF SameDemand, SameReaders, Wire
<1>6. CASE ~DemandIsConfigured(m)
  <2>1. ForReaders => ~(StreamTypes \subseteq m.configured)
    <3>1. ASSUME ForReaders, StreamTypes \subseteq m.configured
          PROVE  DemandIsConfigured(m)
      <4>1. \A c \in FeedTypes : ReadDemand(m, c) = {}
        BY <1>3, <3>1, FieldsAre DEF ReadDemand, ForReaders
      <4> QED
        BY <3>1, <4>1 DEF DemandIsConfigured, Desired
    <3> QED
      BY <1>6, <3>1
  <2>2. Good(m)
    BY <1>3, <1>4, <1>5, <2>1, GoodStays
  <2> QED
    BY <1>2, <1>6, <2>2
<1>7. k \in Relay
  BY <1>3 DEF Relay
<1>8. /\ k.feed = m.feed /\ k.readers = m.readers /\ k.universe = m.universe
      /\ k.reading = m.reading /\ k.setup = FALSE
      /\ k.up = m.up /\ k.open = m.open /\ k.broken = m.broken /\ k.alive = m.alive
      /\ k.late = m.late /\ k.opened = m.opened /\ k.configured = m.configured
      /\ k.subscribed = m.subscribed /\ k.served = m.served /\ k.keepalive = m.keepalive
      /\ k.auth = m.auth /\ SameRun(m, k)
  BY <1>3 DEF Relay, SameRun
<1> HIDE DEF k
<1>9. SameDemand(m, k) /\ Wire(k)
  BY <1>5, <1>8 DEF SameDemand, SameReaders, Wire
<1>10. SameDemand(relay, k)
  BY <1>5, <1>9, SameDemandTwice
<1>11. "live" \in States
  BY DEF States
<1>12. PICK n \in Relay : /\ n = BroadcastStatus(k, "live") /\ SameDemand(k, n) /\ SameWire(k, n) /\ SameRun(k, n)
                          /\ n.feed = "live" /\ CutUnbelieving(n)
  BY <1>7, <1>11, BroadcastIs
<1>13. /\ n.up = relay.up /\ n.opened = relay.opened /\ n.served = relay.served
       /\ n.reconciling = relay.reconciling /\ n.needed = relay.needed /\ n.alarm = relay.alarm
       /\ n.up # NoLink /\ n.auth = "authorized"
  BY <1>0, <1>4, <1>8, <1>12 DEF SameWire, SameRun
<1>14. SameDemand(relay, n) /\ Base(n)
  <2>1. Base(k)
    BY <1>0, <1>7, <1>9, <1>10, DemandIs DEF Base
  <2> QED
    BY <1>10, <1>12, <2>1, SameKeeps, SameDemandTwice
<1>15. Kept(n)
  BY <1>0, <1>12, <1>13, <1>14 DEF Good, Kept, Announced, CredentialsUnlinked, UnlinkedUnbelieved
<1>16. /\ HasDemand(n) <=> HasDemand(relay)
       /\ \A c \in FeedTypes : Desired(n, c) = Desired(relay, c)
       /\ NoClosers(n) => NoClosers(relay)
  <2>1. NoClosers(n) => NoClosers(relay)
    BY <1>14 DEF NoClosers, SameDemand, SameReaders
  <2> QED
    BY <1>0, <1>12, <1>14, <2>1, DemandIs
<1>17. Settled(relay) => Settled(n)
  BY <1>0, <1>12, <1>13, <1>16 DEF Settled
<1>18. Good(n)
  BY <1>13, <1>15, <1>16, <1>17 DEF Good
<1> QED
  BY <1>2, <1>6, <1>12, <1>18

LEMMA LateCloseIs ==
  ASSUME Good(relay), NEW l \in Links, LateClose(l)
  PROVE  Good(relay')
<1>0. relay \in Relay /\ Wire(relay) /\ l \in relay.late /\ relay.late \in SUBSET Links
  BY FieldsAre DEF Good, Kept, Base, LateClose
<1> DEFINE ls == relay.late \ {l}
           n == [relay EXCEPT !.late = ls]
<1>1. ls \in SUBSET Links /\ l # relay.up /\ relay.up \notin ls
  BY <1>0 DEF Wire
<1> HIDE DEF ls
<1>2. n \in Relay
  BY <1>0, <1>1 DEF Relay
<1>3. /\ n.feed = relay.feed /\ n.readers = relay.readers /\ n.universe = relay.universe
      /\ n.reading = relay.reading /\ n.setup = relay.setup
      /\ n.up = relay.up /\ n.open = relay.open /\ n.broken = relay.broken /\ n.alive = relay.alive
      /\ n.late = ls /\ n.opened = relay.opened /\ n.configured = relay.configured
      /\ n.subscribed = relay.subscribed /\ n.served = relay.served /\ n.keepalive = relay.keepalive
      /\ n.auth = relay.auth /\ SameRun(relay, n)
  BY <1>0 DEF Relay, SameRun
<1>4. relay' = n
  <2>1. relay' = HandleUpstreamClose(n, l)
    BY DEF LateClose, Becomes, ls
  <2> QED
    BY <1>1, <1>3, <2>1 DEF HandleUpstreamClose
<1> HIDE DEF n
<1>5. SameDemand(relay, n) /\ Wire(n)
  BY <1>0, <1>1, <1>3 DEF SameDemand, SameReaders, Wire
<1> QED
  BY <1>2, <1>3, <1>4, <1>5, GoodStays

LEMMA LinkClosesIs ==
  ASSUME Good(relay), LinkCloses
  PROVE  Good(relay')
<1>0. relay \in Relay /\ Wire(relay) /\ Asking(relay) /\ relay.up # NoLink /\ relay.alive \in SUBSET Links
  BY FieldsAre DEF Good, Kept, Base, LinkCloses
<1> DEFINE ls == relay.alive \ {relay.up}
           m == [relay EXCEPT !.alive = ls]
<1>1. ls = {}
  BY <1>0 DEF Wire
<1>2. relay' = HandleUpstreamClose(m, relay.up)
  BY <1>0 DEF LinkCloses, Fault, Relay
<1> HIDE DEF ls
<1>3. m \in Relay
  BY <1>0, <1>1 DEF Relay
<1>4. /\ m.readers = relay.readers /\ m.universe = relay.universe
      /\ m.reading = relay.reading /\ m.up = relay.up /\ m.alive = ls /\ SameRun(relay, m)
  BY <1>0 DEF Relay, SameRun
<1> HIDE DEF m
<1>5. SameDemand(relay, m)
  BY <1>4 DEF SameDemand, SameReaders
<1>6. Asking(m) /\ (HasDemand(m) <=> HasDemand(relay))
  BY <1>0, <1>3, <1>5, DemandIs
<1>7. PICK n \in Relay : n = HandleUpstreamClose(m, m.up) /\ Closed(m, n)
  BY <1>0, <1>1, <1>3, <1>4, <1>6, HandleIs
<1>8. Closed(relay, n)
  BY <1>4, <1>5, <1>6, <1>7, SameDemandTwice DEF Closed, SameReconcile, SameRun
<1>9. Good(n)
  BY <1>0, <1>8, ClosedIsGood
<1> QED
  BY <1>2, <1>4, <1>7, <1>9

LEMMA LinkBreaksIs ==
  ASSUME Good(relay), LinkBreaks
  PROVE  Good(relay')
<1>0. relay \in Relay /\ Wire(relay) /\ relay.open = TRUE
  BY FieldsAre DEF Good, Kept, Base, LinkBreaks
<1> DEFINE n == [relay EXCEPT !.broken = TRUE]
<1>1. n \in Relay
  BY <1>0 DEF Relay
<1>2. /\ n.feed = relay.feed /\ n.readers = relay.readers /\ n.universe = relay.universe
      /\ n.reading = relay.reading /\ n.setup = relay.setup
      /\ n.up = relay.up /\ n.open = relay.open /\ n.broken = TRUE /\ n.alive = relay.alive
      /\ n.late = relay.late /\ n.opened = relay.opened /\ n.configured = relay.configured
      /\ n.subscribed = relay.subscribed /\ n.served = relay.served /\ n.keepalive = relay.keepalive
      /\ n.auth = relay.auth /\ SameRun(relay, n)
  BY <1>0 DEF Relay, SameRun
<1>3. relay' = n
  BY DEF LinkBreaks, Fault
<1> HIDE DEF n
<1>4. SameDemand(relay, n) /\ Wire(n)
  BY <1>0, <1>2 DEF SameDemand, SameReaders, Wire
<1> QED
  BY <1>1, <1>2, <1>3, <1>4, GoodStays

LEMMA UniverseAgesIs ==
  ASSUME Good(relay), UniverseAges
  PROVE  Good(relay')
<1>0. relay \in Relay /\ Base(relay) /\ relay.opened \subseteq FeedTypes
  BY FieldsAre DEF Good, Kept, Base
<1> DEFINE n == [relay EXCEPT !.fresh = FALSE]
<1>1. n \in Relay /\ relay' = n
  BY <1>0 DEF Relay, UniverseAges, Fault
<1>2. /\ n.feed = relay.feed /\ n.readers = relay.readers /\ n.universe = relay.universe
      /\ n.reading = relay.reading /\ SameWire(relay, n)
      /\ n.reconciling = relay.reconciling /\ n.needed = relay.needed /\ n.alarm = relay.alarm
  BY <1>0 DEF Relay, SameWire
<1> HIDE DEF n
<1>3. SameDemand(relay, n)
  BY <1>2 DEF SameDemand, SameReaders
<1>4. /\ Base(n) /\ (HasDemand(n) <=> HasDemand(relay))
      /\ \A r \in Readers : IsTruncated(n, r) <=> IsTruncated(relay, r)
      /\ \A t \in FeedTypes : Desired(n, t) = Desired(relay, t)
  BY <1>0, <1>1, <1>2, <1>3, DemandIs, SameKeeps
<1>5. /\ Unbelieved(relay) => Unbelieved(n)
      /\ CutUnbelieving(relay) => CutUnbelieving(n)
      /\ NoClosers(n) => NoClosers(relay)
  BY <1>2, <1>4 DEF Unbelieved, CutUnbelieving, Hearing, NoClosers
<1>6. Kept(n)
  BY <1>2, <1>4, <1>5 DEF Good, Kept, Announced, CredentialsUnlinked, UnlinkedUnbelieved, SameWire
<1>7. Settled(relay) => Settled(n)
  BY <1>0, <1>2, <1>4, <1>5 DEF Settled, SameWire
<1> QED
  BY <1>1, <1>2, <1>5, <1>6, <1>7 DEF Good

\* What is left after a restart, with the readers' sockets and the alarm that were there.
LEMMA InitiallyIs ==
  ASSUME NEW readers \in [Readers -> Reader], NEW alarm \in BOOLEAN,
         \A r \in Readers : readers[r].state \in {"open", "silent", "closing"} => readers[r].asks # {}
  PROVE  \E n \in Relay :
           /\ n = Initially(readers, alarm) /\ Base(n) /\ n.up = NoLink /\ n.reconciling = "no"
           /\ n.needed = FALSE /\ n.readers = readers
<1> DEFINE n == Initially(readers, alarm)
<1>1. Nothing \in [FeedTypes -> SUBSET (Symbols \cup ReadNames)]
  BY DEF Nothing
<1>2. n \in Relay
  <2>1. "connecting" \in States
    BY DEF States
  <2> QED
    BY <1>1, <2>1 DEF Initially, Relay
<1>3. /\ n.readers = readers /\ n.up = NoLink /\ n.open = FALSE /\ n.broken = FALSE /\ n.opened = {}
      /\ n.configured = {} /\ n.keepalive = FALSE /\ n.setup = FALSE /\ n.served = n.subscribed
      /\ n.alive = {} /\ n.late = {} /\ n.reconciling = "no" /\ n.needed = FALSE
  BY DEF Initially
<1> HIDE DEF n
<1>4. Wire(n)
  BY <1>3 DEF Wire
<1>5. Asking(n)
  BY <1>3 DEF Asking, Sockets
<1> QED
  BY <1>2, <1>3, <1>4, <1>5 DEF Base, n

\* Nobody listens.
LEMMA UnheardIsGood ==
  ASSUME NEW m, Base(m), m.up = NoLink, m.reconciling = "no", m.needed = FALSE, Hearing(m) = {},
         HasDemand(m) => m.alarm = TRUE
  PROVE  Good(m)
<1>1. Unbelieved(m) /\ CutUnbelieving(m)
  BY DEF Unbelieved, CutUnbelieving
<1>2. m.opened = {}
  BY DEF Base, Wire
<1>3. Kept(m)
  BY <1>1 DEF Kept, Announced, CredentialsUnlinked, UnlinkedUnbelieved
<1>4. Settled(m)
  BY <1>1, <1>2 DEF Settled
<1> QED
  BY <1>3, <1>4 DEF Good

LEMMA NoSocketsNoDemand ==
  ASSUME NEW m \in Relay, Sockets(m) = {}, m.reading = {}
  PROVE  ~HasDemand(m) /\ Hearing(m) = {}
<1>1. DownstreamDemand(m) = {}
  BY DEF DownstreamDemand
<1>2. RelayedDownstream(m) = {}
  BY <1>1, DemandIsFinite
<1> QED
  BY <1>2 DEF HasDemand, Hearing, Sockets

LEMMA RestartsIs ==
  ASSUME Good(relay), Restarts
  PROVE  Good(relay')
<1>0. relay \in Relay /\ relay.readers \in [Readers -> Reader] /\ relay.alarm \in BOOLEAN /\ Asking(relay)
  BY FieldsAre DEF Good, Kept, Base
<1>1. \A r \in Readers : relay.readers[r].state \in {"open", "silent", "closing"} => relay.readers[r].asks # {}
  BY <1>0 DEF Asking, Sockets
<1>2. PICK m \in Relay : /\ m = Initially(relay.readers, relay.alarm) /\ Base(m) /\ m.up = NoLink /\ m.reconciling = "no"
                         /\ m.needed = FALSE
  BY <1>0, <1>1, InitiallyIs
<1>3. m.reading = {}
  BY <1>2 DEF Initially
<1>4. relay' = IF Sockets(m) = {} THEN m ELSE Reconcile(m)
  BY <1>2 DEF Restarts, Fault
<1>5. CASE Sockets(m) = {}
  <2>1. Good(m)
    BY <1>2, <1>3, <1>5, NoSocketsNoDemand, UnheardIsGood
  <2> QED
    BY <1>4, <1>5, <2>1
<1>6. CASE Sockets(m) # {}
  <2>1. PICK o \in Relay : o = Reconcile(m) /\ Good(o)
    BY <1>2, ReconcileIs DEF Announced, CredentialsUnlinked
  <2> QED
    BY <1>4, <1>6, <2>1
<1> QED
  BY <1>5, <1>6

LEMMA FeedBegins ==
  ASSUME FeedInit
  PROVE  Good(relay)
<1> DEFINE readers == [r \in Readers |-> Away]
<1>1. Away \in Reader /\ Away.state = "away"
  BY DEF Away, Reader
<1>2. readers \in [Readers -> Reader] /\ \A r \in Readers : readers[r].state = "away"
  BY <1>1
<1>3. relay = Initially(readers, FALSE)
  BY DEF FeedInit
<1> HIDE DEF readers
<1>4. PICK m \in Relay : /\ m = Initially(readers, FALSE) /\ Base(m) /\ m.up = NoLink /\ m.reconciling = "no"
                         /\ m.needed = FALSE /\ m.readers = readers
  BY <1>2, InitiallyIs
<1>5. Sockets(m) = {} /\ m.reading = {}
  BY <1>2, <1>4 DEF Sockets, Initially
<1>6. Good(m)
  BY <1>4, <1>5, NoSocketsNoDemand, UnheardIsGood
<1> QED
  BY <1>3, <1>4, <1>6

FeedBounds == failures \in 0..MaxFailures /\ starts \in 0..MaxRejoins

LEMMA FeedStays ==
  ASSUME Good(relay), UNCHANGED feedVars
  PROVE  Good(relay')
<1>1. relay' = relay
  BY DEF feedVars
<1> QED
  BY <1>1

LEMMA BoundsStay ==
  ASSUME FeedBounds, [FeedNext]_feedVars
  PROVE  FeedBounds'
<1>0. MaxFailures \in Nat /\ MaxRejoins \in Nat
  BY FeedAssumption
<1>1. \/ failures' = failures /\ starts' = starts
      \/ failures < MaxFailures /\ failures' = failures + 1 /\ starts' = starts
      \/ starts < MaxRejoins /\ starts' = starts + 1 /\ failures' = failures
  <2>1. CASE \E r \in Readers : \/ ReaderJoins(r) \/ ReaderResubscribes(r) \/ ReaderRefused(r)
                                \/ ReaderCloses(r) \/ ReaderCrashes(r)
    BY <2>1 DEF ReaderJoins, ReaderResubscribes, ReaderRefused, ReaderCloses, ReaderCrashes, Starting, Becomes
  <2>2. CASE \E q \in Reads : ReadStarts(q) \/ ReadEnds(q)
    BY <2>2 DEF ReadStarts, ReadEnds, Starting, Becomes
  <2>3. CASE UniverseRead \/ CredentialsLoaded \/ AlarmFires \/ SetupTimesOut \/ KeepaliveBeats
    BY <2>3 DEF UniverseRead, CredentialsLoaded, AlarmFires, SetupTimesOut, KeepaliveBeats, Becomes, Fault
  <2>4. CASE \/ LinkOpens \/ InitialUnauthorized \/ Authorized \/ AuthorizationFails
             \/ \E t \in FeedTypes : ChannelOpened(t) \/ FeedConfig(t)
             \/ \E l \in Links : LateClose(l)
    BY <2>4 DEF LinkOpens, InitialUnauthorized, Authorized, AuthorizationFails, ChannelOpened, FeedConfig,
                LateClose, Becomes
  <2>5. CASE Faults
    BY <2>5 DEF Faults, LinkCloses, LinkBreaks, BadFrame, CredentialsFail, TokenRevoked, TokenExpires,
                UniverseAges, Restarts, Fault
  <2>6. CASE UNCHANGED feedVars
    BY <2>6 DEF feedVars
  <2> QED
    BY <2>1, <2>2, <2>3, <2>4, <2>5, <2>6 DEF FeedNext
<1> QED
  BY <1>0, <1>1 DEF FeedBounds

LEMMA GoodHolds ==
  ASSUME Good(relay), [FeedNext]_feedVars
  PROVE  Good(relay')
<1>1. CASE \E r \in Readers : \/ ReaderJoins(r) \/ ReaderResubscribes(r) \/ ReaderRefused(r)
                              \/ ReaderCloses(r) \/ ReaderCrashes(r)
  BY <1>1, ReaderJoinsIs, ReaderResubscribesIs, ReaderRefusedIs, ReaderClosesIs, ReaderCrashesIs
<1>2. CASE \E q \in Reads : ReadStarts(q) \/ ReadEnds(q)
  BY <1>2, ReadIs
<1>3. CASE UniverseRead \/ CredentialsLoaded \/ AlarmFires \/ SetupTimesOut \/ KeepaliveBeats
  BY <1>3, UniverseReadIs, CredentialsLoadedIs, AlarmFiresIs, SetupTimesOutIs, KeepaliveBeatsIs
<1>4. CASE LinkOpens \/ InitialUnauthorized \/ Authorized \/ AuthorizationFails
  BY <1>4, LinkOpensIs, InitialUnauthorizedIs, AuthorizedIs, AuthorizationFailsIs
<1>5. CASE \E t \in FeedTypes : ChannelOpened(t) \/ FeedConfig(t)
  BY <1>5, ChannelOpenedIs, FeedConfigIs
<1>6. CASE \E l \in Links : LateClose(l)
  BY <1>6, LateCloseIs
<1>7. CASE Faults
  <2>1. CASE BadFrame
    <3>1. relay.open = TRUE /\ relay' = FailProtocol(relay)
      BY <2>1, FieldsAre DEF BadFrame, Fault, Good, Kept, Base
    <3> QED
      BY <3>1, FailsIs
  <2>2. CASE TokenRevoked
    <3>1. relay' = [relay EXCEPT !.token = "bad"]
      BY <2>2 DEF TokenRevoked, Fault
    <3>2. PICK n \in Relay : n = [relay EXCEPT !.token = "bad"] /\ Good(n)
      BY TokenIs
    <3> QED
      BY <3>1, <3>2
  <2>3. CASE TokenExpires
    <3>1. relay' = [relay EXCEPT !.token = NoToken]
      BY <2>3 DEF TokenExpires, Fault
    <3>2. PICK n \in Relay : n = [relay EXCEPT !.token = NoToken] /\ Good(n)
      BY TokenIs
    <3> QED
      BY <3>1, <3>2
  <2> QED
    BY <1>7, <2>1, <2>2, <2>3, LinkClosesIs, LinkBreaksIs, CredentialsFailIs, UniverseAgesIs, RestartsIs DEF Faults
<1>8. CASE UNCHANGED feedVars
  BY <1>8, FeedStays
<1> QED
  BY <1>1, <1>2, <1>3, <1>4, <1>5, <1>6, <1>7, <1>8 DEF FeedNext

\* Whatever readers and reads come and go and whatever fails, for any number of them, the
\* relay has one connection open at most; whenever it is at rest no reader that is cut
\* believes the feed is live, and none believes in a connection that is gone or not
\* authorized (handleUpstreamClose, broadcastStatus, reportTruncation).
THEOREM FeedHolds == FeedSpec => []FeedInv
<1>1. FeedInit => Good(relay) /\ FeedBounds
  <2>1. 0 \in 0..MaxFailures /\ 0 \in 0..MaxRejoins
    BY FeedAssumption
  <2>2. FeedInit => FeedBounds
    BY <2>1 DEF FeedInit, FeedBounds
  <2> QED
    BY <2>2, FeedBegins
<1>2. Good(relay) /\ FeedBounds /\ [FeedNext]_feedVars => (Good(relay) /\ FeedBounds)'
  BY GoodHolds, BoundsStay
<1>3. Good(relay) /\ FeedBounds => FeedInv
  <2> SUFFICES ASSUME Good(relay), FeedBounds
               PROVE  FeedInv
    OBVIOUS
  <2>1. FeedTypeOK /\ OneLink
    BY DEF Good, Kept, Base, Wire, FeedBounds, FeedTypeOK, OneLink
  <2>2. CutReaderNotLive
    BY DEF Good, Settled, CutUnbelieving, CutReaderNotLive, AtRest, NoClosers
  <2>3. LiveMeansLinked
    BY DEF Good, Kept, Announced, UnlinkedUnbelieved, Unbelieved, LiveMeansLinked, AtRest
  <2> QED
    BY <2>1, <2>2, <2>3 DEF FeedInv
<1> QED
  BY <1>1, <1>2, <1>3, PTL DEF FeedSpec

\* Whenever the relay is at rest the connection is asked for exactly what its readers and
\* reads want; without demand there is none, and with demand there is one or the alarm
\* that opens the next (reconcile, syncSubscriptions, scheduleReconnect).
THEOREM DemandHolds == FeedSpec => []DemandFollowed
<1>1. FeedInit => Good(relay)
  BY FeedBegins
<1>2. Good(relay) /\ [FeedNext]_feedVars => Good(relay)'
  BY GoodHolds
<1>3. Good(relay) => DemandFollowed
  BY DEF Good, Settled, NoClosers, AtRest, DemandFollowed, SubscriptionsMatchDemand, NoIdleUpstream, DemandPursued
<1> QED
  BY <1>1, <1>2, <1>3, PTL DEF FeedSpec

\* Without reads, and with something streamed, a connection on which every channel that is
\* wanted is configured has been announced to its readers, whatever channels nobody wants
\* are still missing (demandIsConfigured).
THEOREM SetupEndsForReaders ==
  ASSUME Reads = {}, StreamTypes # {}
  PROVE  FeedSpec => []SetupEnds
<1>1. FeedInit => Good(relay)
  BY FeedBegins
<1>2. Good(relay) /\ [FeedNext]_feedVars => Good(relay)'
  BY GoodHolds
<1>3. Good(relay) => SetupEnds
  <2> SUFFICES ASSUME Good(relay), relay.up # NoLink, HasDemand(relay), DemandIsConfigured(relay)
               PROVE  relay.feed = "live"
    BY DEF SetupEnds
  <2>1. relay \in Relay /\ relay.reading = {}
    BY FieldsAre DEF Good, Kept, Base
  <2>2. RelayedDownstream(relay) # {}
    BY <2>1 DEF HasDemand
  <2>3. \A t \in StreamTypes : t \in FeedTypes /\ Desired(relay, t) # {}
    BY <2>2, FeedAssumption DEF Desired
  <2>4. StreamTypes \subseteq relay.configured
    BY <2>3 DEF DemandIsConfigured
  <2> QED
    BY <2>4 DEF Good, Kept, Announced, ForReaders
<1> QED
  BY <1>1, <1>2, <1>3, PTL DEF FeedSpec

(***************************************************************************)
(* The public snapshot                                                     *)
(*                                                                         *)
(* A copy is honest because a flow is: what it read is no older than the   *)
(* flow (FlowsHonest).  One build runs because the lease outlives what is  *)
(* left of the build that claimed it (LeaseCovers).                        *)
(***************************************************************************)

FlowRecord == [step: Steps, at: Isolates \cup {"none"}, age: 0..MaxLag, read: 0..MaxLag,
               session: Sessions \cup {"none"}]

\* What a flow read is no older than the flow, and a flow runs in an isolate.
Honest(x) == x \in FlowRecord /\ x.read <= x.age /\ (x.step # "idle" => x.at \in Isolates)
FlowsHonest == \A f \in Flows : Honest(flow[f])

\* A build still within its lease has the lease in force for the rest of that time.
LeaseCovers ==
  faults = 0 => \A f \in Flows : At(f, "building") => LeaseMs <= lease + flow[f].age

SnapshotIInv == SnapshotTypeOK /\ CopyHonest /\ FlowsHonest /\ OneBuild /\ LeaseCovers

LEMMA SnapshotNumbers ==
  /\ MaxLag \in Nat /\ LeaseMs \in Nat /\ FreshMs \in Nat /\ MaxFaults \in Nat /\ Old \in Nat
  /\ RetentionMs \in Nat /\ MaxLag <= Old /\ 0 \in 0..Old /\ 0 \in 0..MaxLag /\ 0 \in 0..LeaseMs
  /\ LeaseMs \in 0..LeaseMs /\ RetentionMs \in 1..RetentionMs /\ 0 \in 0..MaxFaults /\ LeaseMs # 0
  BY SnapshotAssumption DEF Old, RetentionMs

LEMMA StoredIs ==
  ASSUME SnapshotTypeOK
  PROVE  /\ store.age \in 0..Old /\ store.session \in Sessions \cup {"none"}
         /\ store = [age |-> store.age, session |-> store.session]
         /\ Warm => store.session \in Sessions
         /\ ~Warm => store.age = Old /\ store.session = "none"
<1>1. CASE store = Cold
  BY <1>1, SnapshotNumbers DEF Cold, Warm
<1>2. CASE store # Cold
  <2>1. store \in [age: 0..Old, session: Sessions]
    BY <1>2 DEF SnapshotTypeOK
  <2> QED
    BY <1>2, <2>1 DEF Warm
<1> QED
  BY <1>1, <1>2

LEMMA NewRows ==
  ASSUME NEW age \in 0..Old, NEW session \in Sessions
  PROVE  [age |-> age, session |-> session] \in [age: 0..Old, session: Sessions]
  OBVIOUS

LEMMA IdleIs ==
  /\ Honest(Idle) /\ Idle.step = "idle"
  /\ \A i \in Isolates : Honest(Task(i)) /\ Task(i).step = "reading"
<1>1. Honest(Idle) /\ Idle.step = "idle"
  BY SnapshotNumbers DEF Idle, Honest, FlowRecord, Steps
<1>2. ASSUME NEW i \in Isolates
      PROVE  Honest(Task(i)) /\ Task(i).step = "reading"
  <2> DEFINE x == Idle
  <2>1. Honest(x) /\ x.step = "idle" /\ Task(i) = [x EXCEPT !.step = "reading", !.at = i]
    BY <1>1 DEF Task
  <2> HIDE DEF x
  <2>2. "reading" \in Steps
    BY DEF Steps
  <2> QED
    BY <2>1, <2>2 DEF Honest, FlowRecord
<1> QED
  BY <1>1, <1>2

\* Another step of the same flow, with what it read then or now.
Stepped(f, s) == [flow[f] EXCEPT !.step = s]
Unread(f, s, v) == [flow[f] EXCEPT !.step = s, !.session = v]
Reread(f, s, v) == [flow[f] EXCEPT !.step = s, !.read = 0, !.session = v]
Built(f, s, v) == [flow[f] EXCEPT !.step = s, !.session = v, !.read = 0]

LEMMA FlowIs ==
  ASSUME FlowsHonest, NEW f \in Flows, flow[f].step # "idle", NEW s \in Steps, NEW v \in Sessions \cup {"none"}
  PROVE  /\ Honest(Stepped(f, s)) /\ Stepped(f, s).step = s /\ Stepped(f, s).age = flow[f].age
         /\ Honest(Unread(f, s, v)) /\ Unread(f, s, v).step = s
         /\ Honest(Reread(f, s, v)) /\ Reread(f, s, v).step = s
         /\ Honest(Built(f, s, v)) /\ Built(f, s, v).step = s
<1> DEFINE x == flow[f]
           z == 0
<1>1. /\ x \in FlowRecord /\ x.read <= x.age /\ x.age \in 0..MaxLag /\ x.at \in Isolates
      /\ z \in 0..MaxLag /\ z <= x.age
  BY SnapshotNumbers DEF FlowsHonest, Honest, FlowRecord
<1> HIDE DEF x, z
<1> DEFINE a == [x EXCEPT !.step = s]
           b == [x EXCEPT !.step = s, !.session = v]
           c == [x EXCEPT !.step = s, !.read = z, !.session = v]
           d == [x EXCEPT !.step = s, !.session = v, !.read = z]
<1>2. Honest(a) /\ a.step = s /\ a.age = x.age
  BY <1>1 DEF Honest, FlowRecord
<1>3. Honest(b) /\ b.step = s
  BY <1>1 DEF Honest, FlowRecord
<1>4. Honest(c) /\ c.step = s
  BY <1>1 DEF Honest, FlowRecord
<1>5. Honest(d) /\ d.step = s
  BY <1>1 DEF Honest, FlowRecord
<1> QED
  BY <1>2, <1>3, <1>4, <1>5 DEF x, z, Stepped, Unread, Reread, Built

\* The flows after a step that starts no build.
NoNewBuild ==
  /\ flow' \in [Flows -> FlowRecord] /\ \A f \in Flows : Honest(flow'[f])
  /\ \A f \in Flows : flow'[f].step = "building" => flow[f].step = "building" /\ flow'[f].age = flow[f].age

FaultsCounted == faults' \in 0..MaxFaults /\ (faults' = 0 => faults = 0)

LEMMA FailsCounts ==
  ASSUME SnapshotTypeOK, UNCHANGED faults \/ Fails
  PROVE  FaultsCounted /\ (Fails => faults' # 0)
<1>1. MaxFaults \in Nat /\ faults \in 0..MaxFaults
  BY SnapshotAssumption DEF SnapshotTypeOK
<1> QED
  BY <1>1 DEF FaultsCounted, Fails

\* A step that starts no build and takes no lease.
LEMMA QuietStep ==
  ASSUME SnapshotIInv, NoNewBuild, FaultsCounted, lease' = lease, inFlight' \subseteq Isolates,
         market' \in {"open", "shut"}, store' \in [age: 0..Old, session: Sessions] \cup {Cold},
         edge' \in [label: 0..Old, read: 0..Old, left: 1..RetentionMs] \cup {NoCopy}, CopyHonest'
  PROVE  SnapshotIInv'
<1>1. SnapshotTypeOK'
  BY DEF SnapshotIInv, SnapshotTypeOK, NoNewBuild, FaultsCounted, FlowRecord
<1>2. FlowsHonest'
  BY DEF NoNewBuild, FlowsHonest
<1>3. OneBuild' /\ LeaseCovers'
  BY DEF SnapshotIInv, OneBuild, LeaseCovers, At, NoNewBuild, FaultsCounted
<1> QED
  BY <1>1, <1>2, <1>3 DEF SnapshotIInv

\* After a fault builds may overlap.
LEMMA FaultyStep ==
  ASSUME SnapshotIInv, Fails, flow' \in [Flows -> FlowRecord], \A f \in Flows : Honest(flow'[f]),
         lease' \in 0..LeaseMs, inFlight' \subseteq Isolates, UNCHANGED <<market, store, edge>>
  PROVE  SnapshotIInv'
<1>1. faults' \in 0..MaxFaults /\ faults' # 0
  BY FailsCounts DEF SnapshotIInv, FaultsCounted
<1>2. SnapshotTypeOK' /\ CopyHonest' /\ FlowsHonest'
  BY <1>1 DEF SnapshotIInv, SnapshotTypeOK, CopyHonest, FlowsHonest, FlowRecord
<1> QED
  BY <1>1, <1>2 DEF SnapshotIInv, OneBuild, LeaseCovers

LEMMA FlowsAre ==
  ASSUME SnapshotIInv
  PROVE  flow \in [Flows -> FlowRecord] /\ FlowsHonest /\ (UNCHANGED flow => NoNewBuild)
  BY DEF SnapshotIInv, SnapshotTypeOK, FlowsHonest, FlowRecord, NoNewBuild

LEMMA GoesIs ==
  ASSUME SnapshotIInv, NEW f \in Flows, NEW x, Goes(f, x), Honest(x)
  PROVE  /\ flow' \in [Flows -> FlowRecord] /\ (\A g \in Flows : Honest(flow'[g]))
         /\ flow'[f] = x /\ \A g \in Flows : g # f => flow'[g] = flow[g]
         /\ x.step # "building" => NoNewBuild
  BY FlowsAre DEF Goes, Honest, FlowsHonest, NoNewBuild

LEMMA SchedulesIs ==
  ASSUME SnapshotIInv, NEW r \in Viewers, NEW i \in Isolates, NEW x, Honest(x), x.step # "building",
         Schedules(r, i, x)
  PROVE  NoNewBuild /\ inFlight' \subseteq Isolates
<1>1. inFlight \subseteq Isolates /\ r \in Flows /\ i \in Flows
  BY DEF SnapshotIInv, SnapshotTypeOK, Flows
<1>2. CASE i \in inFlight
  BY <1>1, <1>2, GoesIs DEF Schedules
<1>3. CASE i \notin inFlight
  <2> DEFINE t == Task(i)
  <2>1. flow' = [flow EXCEPT ![r] = x, ![i] = t] /\ inFlight' = inFlight \cup {i}
    BY <1>3 DEF Schedules
  <2>2. Honest(t) /\ t.step = "reading"
    BY IdleIs
  <2> HIDE DEF t
  <2>3. x \in FlowRecord /\ t \in FlowRecord
    BY <2>2 DEF Honest
  <2>4. flow \in [Flows -> FlowRecord] /\ \A g \in Flows : Honest(flow[g])
    BY FlowsAre DEF FlowsHonest
  <2>5. /\ flow' \in [Flows -> FlowRecord]
        /\ \A g \in Flows : flow'[g] = x \/ flow'[g] = t \/ flow'[g] = flow[g]
    BY <1>1, <2>1, <2>3, <2>4
  <2>6. NoNewBuild
    BY <2>2, <2>4, <2>5 DEF NoNewBuild
  <2> QED
    BY <1>1, <2>1, <2>6
<1> QED
  BY <1>2, <1>3

LEMMA EndsIs ==
  ASSUME SnapshotIInv, NEW f \in Flows, Ends(f)
  PROVE  NoNewBuild /\ inFlight' \subseteq Isolates
<1>1. inFlight' \subseteq Isolates
  BY DEF SnapshotIInv, SnapshotTypeOK, Ends
<1>2. Goes(f, Idle) /\ Honest(Idle) /\ Idle.step = "idle"
  BY IdleIs DEF Ends
<1> QED
  BY <1>1, <1>2, GoesIs

LEMMA RestIs ==
  ASSUME SnapshotIInv
  PROVE  /\ market \in {"open", "shut"} /\ store \in [age: 0..Old, session: Sessions] \cup {Cold}
         /\ edge \in [label: 0..Old, read: 0..Old, left: 1..RetentionMs] \cup {NoCopy}
         /\ CopyHonest /\ inFlight \subseteq Isolates /\ SnapshotTypeOK
         /\ UNCHANGED edge => CopyHonest'
  BY DEF SnapshotIInv, SnapshotTypeOK, CopyHonest

LEMMA RequestKeeps ==
  ASSUME SnapshotIInv, NEW r \in Viewers, NEW i \in Isolates, Request(r, i)
  PROVE  SnapshotIInv'
<1>1. UNCHANGED <<market, store, lease, edge>> /\ (UNCHANGED faults \/ Fails) /\ r \in Flows
  BY DEF Request, Flows
<1>2. NoNewBuild /\ inFlight' \subseteq Isolates
  <2>1. CASE UNCHANGED <<flow, inFlight>>
    BY <2>1, FlowsAre, RestIs
  <2>2. CASE Schedules(r, i, Idle)
    BY <2>2, IdleIs, SchedulesIs
  <2>3. CASE Goes(r, [Idle EXCEPT !.step = "reading", !.at = i]) /\ UNCHANGED inFlight
    <3>1. Goes(r, Task(i)) /\ Honest(Task(i)) /\ Task(i).step = "reading"
      BY <2>3, IdleIs DEF Task
    <3> QED
      BY <1>1, <2>3, <3>1, GoesIs, RestIs
  <2> QED
    BY <2>1, <2>2, <2>3 DEF Request
<1>3. FaultsCounted
  BY <1>1, FailsCounts DEF SnapshotIInv
<1> QED
  BY <1>1, <1>2, <1>3, QuietStep, RestIs

LEMMA WithStoredIs ==
  ASSUME SnapshotIInv, NEW f \in Flows, flow[f].step # "idle", NEW s \in Steps
  PROVE  Honest(WithStored(f, s)) /\ WithStored(f, s).step = s /\ Honest(ToRetain(f)) /\ ToRetain(f).step = "retaining"
<1> DEFINE v == IF s = "retaining" THEN "none" ELSE store.session
<1>1. v \in Sessions \cup {"none"} /\ "none" \in Sessions \cup {"none"}
  BY StoredIs DEF SnapshotIInv
<1>2. WithStored(f, s) = Reread(f, s, v) /\ ToRetain(f) = Unread(f, "retaining", "none")
  BY DEF WithStored, ToRetain, Reread, Unread
<1> HIDE DEF v
<1>3. "retaining" \in Steps /\ FlowsHonest
  BY FlowsAre DEF Steps
<1> QED
  BY <1>1, <1>2, <1>3, FlowIs

LEMMA ReaderReadsKeeps ==
  ASSUME SnapshotIInv, NEW r \in Flows, ReaderReads(r)
  PROVE  SnapshotIInv'
<1>1. /\ UNCHANGED <<market, store, lease, edge, faults>> /\ r \in Viewers
      /\ flow[r].step # "idle" /\ flow[r].at \in Isolates
  BY FlowsAre DEF ReaderReads, At, FlowsHonest, Honest
<1>2. Honest(WithStored(r, "retaining")) /\ WithStored(r, "retaining").step = "retaining"
  <2>1. "retaining" \in Steps
    BY DEF Steps
  <2> QED
    BY <1>1, <2>1, WithStoredIs
<1>3. CASE Schedules(r, flow[r].at, WithStored(r, "retaining"))
  BY <1>1, <1>2, <1>3, SchedulesIs, QuietStep, RestIs, FailsCounts
<1>4. CASE Goes(r, WithStored(r, "retaining")) /\ UNCHANGED inFlight
  BY <1>1, <1>2, <1>4, GoesIs, QuietStep, RestIs, FailsCounts
<1> QED
  BY <1>3, <1>4 DEF ReaderReads

LEMMA ReaderFindsColdKeeps ==
  ASSUME SnapshotIInv, NEW r \in Flows, ReaderFindsCold(r)
  PROVE  SnapshotIInv'
<1>1. /\ UNCHANGED <<market, store, lease, edge, inFlight, faults>> /\ Goes(r, Stepped(r, "cold"))
      /\ flow[r].step # "idle"
  BY DEF ReaderFindsCold, GoTo, Stepped, At
<1>2. Honest(Stepped(r, "cold")) /\ Stepped(r, "cold").step = "cold"
  <2>1. "cold" \in Steps /\ "none" \in Sessions \cup {"none"}
    BY DEF Steps
  <2> QED
    BY <1>1, <2>1, FlowsAre, FlowIs
<1> QED
  BY <1>1, <1>2, GoesIs, QuietStep, RestIs, FailsCounts

LEMMA TaskReadsKeeps ==
  ASSUME SnapshotIInv, NEW i \in Flows, TaskReads(i)
  PROVE  SnapshotIInv'
<1>1. UNCHANGED <<market, store, lease, edge, faults>> /\ flow[i].step # "idle"
  BY DEF TaskReads, At
<1>2. CASE Ends(i)
  BY <1>1, <1>2, EndsIs, QuietStep, RestIs, FailsCounts
<1>3. CASE ~Ends(i)
  <2>1. PICK s \in {"claiming", "retagging", "retaining"} : Goes(i, WithStored(i, s))
    BY <1>3 DEF TaskReads
  <2>2. s \in Steps /\ s # "building" /\ UNCHANGED inFlight
    BY <1>3 DEF Steps, TaskReads
  <2>3. Honest(WithStored(i, s)) /\ WithStored(i, s).step = s
    BY <1>1, <2>2, WithStoredIs
  <2> QED
    BY <1>1, <2>1, <2>2, <2>3, GoesIs, QuietStep, RestIs, FailsCounts
<1> QED
  BY <1>2, <1>3

LEMMA ReadFailsKeeps ==
  ASSUME SnapshotIInv, NEW f \in Flows, ReadFails(f)
  PROVE  SnapshotIInv'
<1>1. UNCHANGED <<market, store, lease, edge>> /\ Fails /\ Ends(f)
  BY DEF ReadFails
<1> QED
  BY <1>1, EndsIs, QuietStep, RestIs, FailsCounts

LEMMA BuildingIs ==
  ASSUME SnapshotIInv, NEW f \in Flows, Claims(f), GoTo(f, "building")
  PROVE  /\ flow' \in [Flows -> FlowRecord] /\ \A g \in Flows : Honest(flow'[g])
         /\ \A g \in Flows : g # f => flow'[g] = flow[g]
<1>1. flow[f].step # "idle" /\ Goes(f, Stepped(f, "building"))
  BY DEF Claims, GoTo, Stepped
<1>2. "building" \in Steps /\ "none" \in Sessions \cup {"none"} /\ FlowsHonest
  BY FlowsAre DEF Steps
<1>3. Honest(Stepped(f, "building")) /\ Stepped(f, "building").age = flow[f].age
  BY <1>1, <1>2, FlowIs
<1> QED
  BY <1>1, <1>3, GoesIs

\* The lease it takes outlasts the build, and whoever else builds is past the lease.
LEMMA ClaimKeeps ==
  ASSUME SnapshotIInv, NEW f \in Flows, Claim(f)
  PROVE  SnapshotIInv'
<1>1. /\ UNCHANGED <<market, store, edge, inFlight, faults>> /\ Claims(f) /\ GoTo(f, "building")
      /\ lease = 0 /\ lease' = LeaseMs
  BY DEF Claim
<1>2. /\ flow' \in [Flows -> FlowRecord] /\ \A g \in Flows : Honest(flow'[g])
      /\ \A g \in Flows : g # f => flow'[g] = flow[g]
  BY <1>1, BuildingIs
<1>3. SnapshotTypeOK' /\ CopyHonest' /\ FlowsHonest'
  BY <1>1, <1>2, SnapshotNumbers DEF SnapshotIInv, SnapshotTypeOK, CopyHonest, FlowsHonest, FlowRecord
<1>4. \A g \in Flows : flow[g].age \in Nat /\ flow'[g].age \in Nat
  <2>1. \A g \in Flows : flow[g].age \in 0..MaxLag /\ flow'[g].age \in 0..MaxLag
    BY <1>2, FlowsAre DEF FlowRecord
  <2> QED
    BY <2>1, SnapshotNumbers
<1>5. LeaseMs \in Nat
  BY SnapshotNumbers
<1>6. LeaseCovers'
  <2> SUFFICES ASSUME faults' = 0, NEW g \in Flows, flow'[g].step = "building"
               PROVE  LeaseMs <= lease' + flow'[g].age
    BY DEF LeaseCovers, At
  <2> QED
    BY <1>1, <1>4, <1>5
<1>7. OneBuild'
  <2> SUFFICES ASSUME faults' = 0
               PROVE  \A g \in Flows : flow'[g].step = "building" /\ flow'[g].age < LeaseMs => g = f
    BY <1>1 DEF OneBuild, At
  <2> SUFFICES ASSUME NEW g \in Flows, flow'[g].step = "building", flow'[g].age < LeaseMs, g # f
               PROVE  FALSE
    OBVIOUS
  <2>1. flow[g].step = "building" /\ flow[g].age < LeaseMs
    BY <1>2
  <2>2. LeaseMs <= lease + flow[g].age
    BY <1>1, <2>1 DEF SnapshotIInv, LeaseCovers, At
  <2> QED
    BY <1>1, <1>4, <1>5, <2>1, <2>2
<1> QED
  BY <1>3, <1>6, <1>7 DEF SnapshotIInv

LEMMA ClaimFailsOpenKeeps ==
  ASSUME SnapshotIInv, NEW f \in Flows, ClaimFailsOpen(f)
  PROVE  SnapshotIInv'
<1>1. /\ UNCHANGED <<market, store, edge, inFlight>> /\ Claims(f) /\ GoTo(f, "building") /\ Fails
      /\ lease' = lease \/ lease' = LeaseMs
  BY DEF ClaimFailsOpen
<1>2. flow' \in [Flows -> FlowRecord] /\ \A g \in Flows : Honest(flow'[g])
  BY <1>1, BuildingIs
<1>3. lease' \in 0..LeaseMs /\ inFlight' \subseteq Isolates
  BY <1>1, SnapshotNumbers DEF SnapshotIInv, SnapshotTypeOK
<1> QED
  BY <1>1, <1>2, <1>3, FaultyStep

LEMMA WithoutBuildIs ==
  ASSUME SnapshotIInv, NEW f \in Flows, flow[f].step # "idle"
  PROVE  Honest(WithoutBuild(f)) /\ WithoutBuild(f).step # "building"
<1>1. "retagging" \in Steps /\ "none" \in Sessions \cup {"none"} /\ FlowsHonest
  BY FlowsAre DEF Steps
<1>2. Honest(Stepped(f, "retagging")) /\ Stepped(f, "retagging").step = "retagging"
  BY <1>1, FlowIs
<1>3. Honest(ToRetain(f)) /\ ToRetain(f).step = "retaining"
  BY <1>1, WithStoredIs
<1>4. Honest(Idle) /\ Idle.step = "idle"
  BY IdleIs
<1>5. WithoutBuild(f) = Idle \/ WithoutBuild(f) = Stepped(f, "retagging") \/ WithoutBuild(f) = ToRetain(f)
  BY DEF WithoutBuild, Stepped
<1> QED
  BY <1>2, <1>3, <1>4, <1>5

LEMMA ClaimLostKeeps ==
  ASSUME SnapshotIInv, NEW f \in Flows, ClaimLost(f)
  PROVE  SnapshotIInv'
<1>1. UNCHANGED <<market, store, lease, edge, inFlight, faults>> /\ flow[f].step # "idle"
  BY DEF ClaimLost, Claims
<1>2. "wait1" \in Steps /\ "none" \in Sessions \cup {"none"} /\ FlowsHonest
  BY FlowsAre DEF Steps
<1>3. Honest(Stepped(f, "wait1")) /\ Stepped(f, "wait1").step = "wait1"
  BY <1>1, <1>2, FlowIs
<1>4. Honest(WithoutBuild(f)) /\ WithoutBuild(f).step # "building"
  BY <1>1, WithoutBuildIs
<1>5. Goes(f, Stepped(f, "wait1")) \/ Goes(f, WithoutBuild(f))
  BY DEF ClaimLost, GoTo, Stepped
<1> QED
  BY <1>1, <1>3, <1>4, <1>5, GoesIs, QuietStep, RestIs, FailsCounts

LEMMA WaitsKeeps ==
  ASSUME SnapshotIInv, NEW r \in Flows, Waits(r)
  PROVE  SnapshotIInv'
<1>1. UNCHANGED <<market, store, lease, edge, inFlight, faults>> /\ flow[r].step # "idle"
  BY DEF Waits
<1>2. "wait2" \in Steps /\ "retaining" \in Steps /\ "none" \in Sessions \cup {"none"} /\ FlowsHonest
  BY FlowsAre DEF Steps
<1>3. Honest(Stepped(r, "wait2")) /\ Stepped(r, "wait2").step = "wait2"
  BY <1>1, <1>2, FlowIs
<1>4. Honest(WithStored(r, "retaining")) /\ WithStored(r, "retaining").step = "retaining"
  BY <1>1, <1>2, WithStoredIs
<1>5. Honest(Idle) /\ Idle.step = "idle"
  BY IdleIs
<1>6. Goes(r, Stepped(r, "wait2")) \/ Goes(r, WithStored(r, "retaining")) \/ Goes(r, Idle)
  BY DEF Waits, GoTo, Stepped
<1> QED
  BY <1>1, <1>3, <1>4, <1>5, <1>6, GoesIs, QuietStep, RestIs, FailsCounts

LEMMA ReportedIs ==
  ASSUME SnapshotIInv
  PROVE  Reported \in Sessions /\ Unlabelled \in Sessions
<1>1. Reported \in Sessions
  BY DEF Reported, Sessions
<1>2. Unlabelled \in Sessions
  BY StoredIs DEF SnapshotIInv, Unlabelled, Sessions
<1> QED
  BY <1>1, <1>2

\* The rows are written anew.
LEMMA RowsAre ==
  ASSUME SnapshotIInv, NEW s \in Sessions, store' = [age |-> 0, session |-> s]
  PROVE  store' \in [age: 0..Old, session: Sessions] \cup {Cold}
  BY SnapshotNumbers

LEMMA BuildKeeps ==
  ASSUME SnapshotIInv, NEW f \in Flows, Build(f)
  PROVE  SnapshotIInv'
<1>1. /\ UNCHANGED <<market, lease, edge, inFlight>> /\ flow[f].step # "idle"
      /\ UNCHANGED faults \/ Fails
      /\ Goes(f, [ToRetain(f) EXCEPT !.read = 0])
      /\ store' = [age |-> 0, session |-> Reported] \/ store' = [age |-> 0, session |-> Unlabelled]
  BY DEF Build, At
<1>2. store' \in [age: 0..Old, session: Sessions] \cup {Cold}
  BY <1>1, ReportedIs, RowsAre
<1>3. "retaining" \in Steps /\ "none" \in Sessions \cup {"none"} /\ FlowsHonest
  BY FlowsAre DEF Steps
<1>4. Honest(Built(f, "retaining", "none")) /\ Built(f, "retaining", "none").step = "retaining"
  BY <1>1, <1>3, FlowIs
<1>5. Built(f, "retaining", "none") = [ToRetain(f) EXCEPT !.read = 0]
  BY DEF Built, ToRetain
<1> QED
  BY <1>1, <1>2, <1>4, <1>5, GoesIs, QuietStep, RestIs, FailsCounts

LEMMA BuildFailsKeeps ==
  ASSUME SnapshotIInv, NEW f \in Flows, BuildFails(f)
  PROVE  SnapshotIInv'
<1>1. /\ UNCHANGED <<market, lease, edge, inFlight>> /\ flow[f].step # "idle" /\ Fails
      /\ Goes(f, WithoutBuild(f))
  BY DEF BuildFails, At
<1>2. store' \in [age: 0..Old, session: Sessions] \cup {Cold}
  <2>1. CASE UNCHANGED store
    BY <2>1, RestIs
  <2>2. CASE \E session \in {Reported, Unlabelled} : store' = [age |-> 0, session |-> session]
    BY <2>2, ReportedIs, RowsAre
  <2> QED
    BY <2>1, <2>2 DEF BuildFails
<1>3. Honest(WithoutBuild(f)) /\ WithoutBuild(f).step # "building"
  BY <1>1, WithoutBuildIs
<1> QED
  BY <1>1, <1>2, <1>3, GoesIs, QuietStep, RestIs, FailsCounts

LEMMA RetagKeeps ==
  ASSUME SnapshotIInv, NEW i \in Flows, Retag(i)
  PROVE  SnapshotIInv'
<1>1. /\ UNCHANGED <<market, lease, edge, inFlight>> /\ flow[i].step # "idle" /\ (UNCHANGED faults \/ Fails)
      /\ Goes(i, ToRetain(i))
  BY DEF Retag, At
<1>2. store' \in [age: 0..Old, session: Sessions] \cup {Cold}
  <2>1. CASE UNCHANGED store
    BY <2>1, RestIs
  <2>2. CASE store' = [store EXCEPT !.session = Reported]
    <3>1. store' = [age |-> store.age, session |-> Reported] /\ store.age \in 0..Old
      BY <2>2, StoredIs DEF SnapshotIInv
    <3> QED
      BY <3>1, ReportedIs, NewRows
  <2> QED
    BY <2>1, <2>2 DEF Retag
<1>3. Honest(ToRetain(i)) /\ ToRetain(i).step = "retaining"
  <2>1. "retaining" \in Steps
    BY DEF Steps
  <2> QED
    BY <1>1, <2>1, WithStoredIs
<1> QED
  BY <1>1, <1>2, <1>3, GoesIs, QuietStep, RestIs, FailsCounts

\* A copy holds what its flow read, under the flow's own instant.
LEMMA RetainKeeps ==
  ASSUME SnapshotIInv, NEW f \in Flows, Retain(f)
  PROVE  SnapshotIInv'
<1>1. UNCHANGED <<market, store, lease>> /\ Ends(f) /\ (UNCHANGED faults \/ Fails)
  BY DEF Retain
<1>2. edge' \in [label: 0..Old, read: 0..Old, left: 1..RetentionMs] \cup {NoCopy} /\ CopyHonest'
  <2>1. CASE UNCHANGED edge
    BY <2>1, RestIs
  <2>2. CASE edge' = Copy(f, flow[f].age)
    <3>1. flow[f].read \in 0..MaxLag /\ flow[f].age \in 0..MaxLag /\ flow[f].read <= flow[f].age
      BY FlowsAre DEF FlowsHonest, Honest, FlowRecord
    <3>2. flow[f].read \in 0..Old /\ flow[f].age \in 0..Old /\ RetentionMs \in 1..RetentionMs
      BY <3>1, SnapshotNumbers
    <3>3. edge' = [label |-> flow[f].age, read |-> flow[f].read, left |-> RetentionMs]
      BY <2>2 DEF Copy
    <3> QED
      BY <3>1, <3>2, <3>3 DEF CopyHonest
  <2> QED
    BY <2>1, <2>2 DEF Retain
<1> QED
  BY <1>1, <1>2, EndsIs, QuietStep, RestIs, FailsCounts

LEMMA EvictedKeeps ==
  ASSUME SnapshotIInv, NEW i \in Isolates, Evicted(i)
  PROVE  SnapshotIInv'
<1>1. /\ UNCHANGED <<market, store, lease, edge>> /\ Fails /\ inFlight' \subseteq Isolates
      /\ flow' = [f \in Flows |-> IF flow[f].at = i THEN Idle ELSE flow[f]]
  BY DEF Evicted, SnapshotIInv, SnapshotTypeOK
<1>2. /\ Honest(Idle) /\ Idle.step = "idle" /\ flow \in [Flows -> FlowRecord] /\ FlowsHonest
  BY IdleIs, FlowsAre
<1>3. /\ flow' \in [Flows -> FlowRecord]
      /\ \A f \in Flows : Honest(flow'[f])
  BY <1>1, <1>2 DEF FlowsHonest, Honest
<1>4. lease' \in 0..LeaseMs
  BY <1>1 DEF SnapshotIInv, SnapshotTypeOK
<1> QED
  BY <1>1, <1>3, <1>4, FaultyStep

LEMMA CutOffKeeps ==
  ASSUME SnapshotIInv, NEW f \in Flows, CutOff(f)
  PROVE  SnapshotIInv'
<1>1. UNCHANGED <<market, store, lease, edge, inFlight>> /\ Fails
  BY DEF CutOff
<1>2. PICK x : Goes(f, x) /\ Honest(x)
  <2>1. CASE f \in Viewers
    BY <2>1, IdleIs DEF CutOff
  <2>2. CASE f \notin Viewers
    <3> DEFINE o == Idle
    <3>1. Honest(o) /\ f \in Isolates /\ Goes(f, [o EXCEPT !.step = "cut", !.at = f])
      BY <2>2, IdleIs DEF CutOff, Flows
    <3> HIDE DEF o
    <3> DEFINE x == [o EXCEPT !.step = "cut", !.at = f]
    <3>2. Honest(x)
      BY <3>1 DEF Honest, FlowRecord, Steps
    <3> QED
      BY <3>1, <3>2
  <2> QED
    BY <2>1, <2>2
<1>3. lease' \in 0..LeaseMs /\ inFlight' \subseteq Isolates
  BY <1>1 DEF SnapshotIInv, SnapshotTypeOK
<1> QED
  BY <1>1, <1>2, <1>3, GoesIs, FaultyStep

LEMMA EdgeDropsKeeps ==
  ASSUME SnapshotIInv, EdgeDrops
  PROVE  SnapshotIInv'
<1>1. UNCHANGED <<market, store, lease, flow, inFlight>> /\ Fails /\ edge' = NoCopy
  BY DEF EdgeDrops
<1>2. CopyHonest'
  BY <1>1 DEF CopyHonest
<1> QED
  BY <1>1, <1>2, FlowsAre, QuietStep, RestIs, FailsCounts

LEMMA BellKeeps ==
  ASSUME SnapshotIInv, Bell
  PROVE  SnapshotIInv'
<1> DEFINE Rings(session) == IF session = "waiting" THEN "rung" ELSE session
<1>1. /\ UNCHANGED <<lease, edge, inFlight, faults>> /\ market' = "open"
      /\ store' = [store EXCEPT !.session = Rings(store.session)]
      /\ flow' = [f \in Flows |-> [flow[f] EXCEPT !.session = Rings(flow[f].session)]]
  BY DEF Bell
<1>2. store' \in [age: 0..Old, session: Sessions] \cup {Cold}
  <2> DEFINE v == Rings(store.session)
  <2>1. store.age \in 0..Old /\ (Warm => v \in Sessions) /\ (~Warm => store.age = Old /\ v = "none")
    BY StoredIs DEF SnapshotIInv, Sessions
  <2>2. store' = [age |-> store.age, session |-> v]
    BY <1>1, StoredIs DEF SnapshotIInv
  <2> HIDE DEF v
  <2>3. CASE Warm
    BY <2>1, <2>2, <2>3, NewRows
  <2>4. CASE ~Warm
    BY <2>1, <2>2, <2>4 DEF Cold
  <2> QED
    BY <2>3, <2>4
<1>3. ASSUME NEW f \in Flows
      PROVE  Honest(flow'[f]) /\ flow'[f].step = flow[f].step /\ flow'[f].age = flow[f].age
  <2> DEFINE x == flow[f]
             v == Rings(x.session)
  <2>1. Honest(x) /\ flow'[f] = [x EXCEPT !.session = v]
    BY <1>1, FlowsAre DEF FlowsHonest
  <2>2. v \in Sessions \cup {"none"}
    <3>1. x.session \in Sessions \cup {"none"}
      BY <2>1 DEF Honest, FlowRecord
    <3> QED
      BY <3>1 DEF Sessions
  <2> HIDE DEF x, v
  <2>3. Honest(flow'[f]) /\ flow'[f].step = x.step /\ flow'[f].age = x.age
    BY <2>1, <2>2 DEF Honest, FlowRecord
  <2> QED
    BY <2>3 DEF x
<1>4. NoNewBuild
  <2>1. flow' \in [Flows -> FlowRecord]
    BY <1>1, <1>3 DEF Honest
  <2> QED
    BY <1>3, <2>1 DEF NoNewBuild
<1> QED
  BY <1>1, <1>2, <1>4, QuietStep, RestIs, FailsCounts

LEMMA CloseKeeps ==
  ASSUME SnapshotIInv, Close
  PROVE  SnapshotIInv'
<1>1. UNCHANGED <<store, lease, edge, flow, inFlight, faults>> /\ market' = "shut"
  BY DEF Close
<1> QED
  BY <1>1, FlowsAre, QuietStep, RestIs, FailsCounts

LEMMA OlderIs ==
  ASSUME NEW last \in Nat, NEW age \in 0..last
  PROVE  /\ Older(age, last) \in 0..last /\ age <= Older(age, last)
         /\ \A young \in 0..last : young <= age => Older(young, last) <= Older(age, last)
         /\ Older(last, last) = last
  BY DEF Older

\* What was claimed is used up no sooner than the build that claimed it grows old.
LEMMA TickKeeps ==
  ASSUME SnapshotIInv, SnapshotTick
  PROVE  SnapshotIInv'
<1> DEFINE Still(f) == flow[f].step \in {"idle", "cut"}
<1>1. /\ UNCHANGED <<market, inFlight, faults>>
      /\ store' = [store EXCEPT !.age = Older(store.age, Old)]
      /\ lease' = IF lease > 0 THEN lease - 1 ELSE 0
      /\ edge' = IF edge = NoCopy \/ edge.left = 1 THEN NoCopy
                 ELSE [label |-> Older(edge.label, Old), read |-> Older(edge.read, Old), left |-> edge.left - 1]
      /\ flow' = [f \in Flows |-> IF Still(f) THEN flow[f] ELSE [flow[f] EXCEPT !.age = @ + 1, !.read = @ + 1]]
      /\ \A f \in Flows : ~Still(f) => flow[f].age < MaxLag
  BY DEF SnapshotTick
<1>2. /\ MaxLag \in Nat /\ LeaseMs \in Nat /\ Old \in Nat /\ RetentionMs \in Nat /\ LeaseMs # 0
      /\ lease \in 0..LeaseMs
  BY SnapshotNumbers DEF SnapshotIInv, SnapshotTypeOK
<1>3. store' \in [age: 0..Old, session: Sessions] \cup {Cold}
  <2> DEFINE v == Older(store.age, Old)
  <2>1. store.age \in 0..Old /\ v \in 0..Old /\ Older(Old, Old) = Old
    BY <1>2, StoredIs, OlderIs DEF SnapshotIInv
  <2>2. store' = [age |-> v, session |-> store.session]
    BY <1>1, StoredIs DEF SnapshotIInv
  <2>3. CASE Warm
    BY <2>1, <2>2, <2>3, StoredIs, NewRows DEF SnapshotIInv
  <2>4. CASE ~Warm
    BY <2>1, <2>2, <2>4, StoredIs DEF SnapshotIInv, Cold
  <2> QED
    BY <2>3, <2>4
<1>4. edge' \in [label: 0..Old, read: 0..Old, left: 1..RetentionMs] \cup {NoCopy} /\ CopyHonest'
  <2>1. CASE edge = NoCopy \/ edge.left = 1
    BY <1>1, <2>1 DEF CopyHonest
  <2>2. CASE ~(edge = NoCopy \/ edge.left = 1)
    <3> DEFINE l == Older(edge.label, Old)
               d == Older(edge.read, Old)
               k == edge.left - 1
    <3>1. edge.label \in 0..Old /\ edge.read \in 0..Old /\ edge.left \in 1..RetentionMs /\ edge.read <= edge.label
      BY <2>2, RestIs DEF CopyHonest
    <3>2. l \in 0..Old /\ d \in 0..Old /\ d <= l
      BY <1>2, <3>1, OlderIs
    <3>3. k \in 1..RetentionMs
      BY <1>2, <2>2, <3>1
    <3>4. edge' = [label |-> l, read |-> d, left |-> k]
      BY <1>1, <2>2
    <3> HIDE DEF l, d, k
    <3> QED
      BY <3>2, <3>3, <3>4 DEF CopyHonest
  <2> QED
    BY <2>1, <2>2
<1>5. ASSUME NEW f \in Flows
      PROVE  /\ Honest(flow'[f]) /\ flow'[f].step = flow[f].step
             /\ flow'[f].step = "building" => flow'[f].age = flow[f].age + 1
  <2> DEFINE x == flow[f]
             a == x.age + 1
             d == x.read + 1
  <2>1. Honest(x) /\ flow'[f] = IF Still(f) THEN x ELSE [x EXCEPT !.age = a, !.read = d]
    BY <1>1, FlowsAre DEF FlowsHonest
  <2>2. CASE Still(f)
    BY <2>1, <2>2
  <2>3. CASE ~Still(f)
    <3>1. x.age \in 0..MaxLag /\ x.read \in 0..MaxLag /\ x.read <= x.age /\ x.age < MaxLag
      BY <1>1, <2>1, <2>3 DEF Honest, FlowRecord
    <3>2. a \in 0..MaxLag /\ d \in 0..MaxLag /\ d <= a
      BY <1>2, <3>1
    <3>3. flow'[f] = [x EXCEPT !.age = a, !.read = d]
      BY <2>1, <2>3
    <3> HIDE DEF x, a, d
    <3>4. Honest(flow'[f]) /\ flow'[f].step = x.step /\ flow'[f].age = a
      BY <2>1, <3>2, <3>3 DEF Honest, FlowRecord
    <3> QED
      BY <3>4 DEF x, a
  <2> QED
    BY <2>2, <2>3
<1>6. flow' \in [Flows -> FlowRecord]
  BY <1>1, <1>5 DEF Honest
<1>7. lease' \in 0..LeaseMs /\ (lease > 0 => lease' = lease - 1) /\ (lease = 0 => lease' = 0)
  <2>1. lease' = IF lease > 0 THEN lease - 1 ELSE 0
    BY <1>1
  <2> QED
    BY <1>2, <2>1
<1>8. SnapshotTypeOK' /\ FlowsHonest'
  BY <1>1, <1>3, <1>4, <1>5, <1>6, <1>7 DEF SnapshotIInv, SnapshotTypeOK, FlowsHonest, FlowRecord
<1>9. \A f \in Flows : flow[f].age \in Nat
  <2>1. \A f \in Flows : flow[f].age \in 0..MaxLag
    BY FlowsAre DEF FlowRecord
  <2> QED
    BY <1>2, <2>1
<1>10. OneBuild'
  <2> SUFFICES ASSUME faults' = 0, NEW f \in Flows, NEW g \in Flows,
                      flow'[f].step = "building", flow'[f].age < LeaseMs,
                      flow'[g].step = "building", flow'[g].age < LeaseMs
               PROVE  f = g
    BY DEF OneBuild, At
  <2>1. /\ faults = 0 /\ flow[f].step = "building" /\ flow[g].step = "building"
        /\ flow[f].age + 1 < LeaseMs /\ flow[g].age + 1 < LeaseMs
    BY <1>1, <1>5
  <2>2. flow[f].age < LeaseMs /\ flow[g].age < LeaseMs
    BY <1>2, <1>9, <2>1
  <2> QED
    BY <2>1, <2>2 DEF SnapshotIInv, OneBuild, At
<1>11. LeaseCovers'
  <2> SUFFICES ASSUME faults' = 0, NEW f \in Flows, flow'[f].step = "building"
               PROVE  LeaseMs <= lease' + flow'[f].age
    BY DEF LeaseCovers, At
  <2>1. flow[f].step = "building" /\ flow'[f].age = flow[f].age + 1 /\ faults = 0
    BY <1>1, <1>5
  <2>2. LeaseMs <= lease + flow[f].age
    BY <2>1 DEF SnapshotIInv, LeaseCovers, At
  <2> QED
    BY <1>2, <1>7, <1>9, <2>1, <2>2
<1> QED
  BY <1>4, <1>8, <1>10, <1>11 DEF SnapshotIInv

LEMMA SnapshotStays ==
  ASSUME SnapshotIInv, UNCHANGED snapshotVars
  PROVE  SnapshotIInv'
  BY DEF SnapshotIInv, SnapshotTypeOK, CopyHonest, FlowsHonest, OneBuild, LeaseCovers, At, snapshotVars

\* For any number of readers and isolates and any times to live, a copy at the edge is
\* labelled no younger than what it holds, and as long as the claim's store answers one
\* flow at most is building within its lease (retain, claimMarketRefresh).
THEOREM SnapshotHolds == SnapshotSpec => []SnapshotInv
<1>1. SnapshotInit => SnapshotIInv
  <2> SUFFICES ASSUME SnapshotInit
               PROVE  SnapshotIInv
    OBVIOUS
  <2>1. Honest(Idle) /\ Idle.step = "idle" /\ flow = [f \in Flows |-> Idle]
    BY IdleIs DEF SnapshotInit
  <2>2. flow \in [Flows -> FlowRecord] /\ FlowsHonest /\ \A f \in Flows : flow[f].step = "idle"
    BY <2>1 DEF Honest, FlowsHonest
  <2>3. SnapshotTypeOK
    BY <2>2, SnapshotNumbers DEF SnapshotInit, SnapshotTypeOK, FlowRecord
  <2>4. CopyHonest /\ OneBuild /\ LeaseCovers
    BY <2>2 DEF SnapshotInit, CopyHonest, OneBuild, LeaseCovers, At
  <2> QED
    BY <2>2, <2>3, <2>4 DEF SnapshotIInv
<1>2. SnapshotIInv /\ [SnapshotNext]_snapshotVars => SnapshotIInv'
  <2> SUFFICES ASSUME SnapshotIInv, [SnapshotNext]_snapshotVars
               PROVE  SnapshotIInv'
    OBVIOUS
  <2>1. CASE \E r \in Viewers, i \in Isolates : Request(r, i)
    BY <2>1, RequestKeeps
  <2>2. CASE \E f \in Flows : FlowStep(f)
    <3> SUFFICES ASSUME NEW f \in Flows, FlowStep(f)
                 PROVE  SnapshotIInv'
      BY <2>2
    <3> QED
      BY ReaderReadsKeeps, ReaderFindsColdKeeps, TaskReadsKeeps, ReadFailsKeeps, ClaimKeeps, ClaimFailsOpenKeeps,
         ClaimLostKeeps, WaitsKeeps, BuildKeeps, BuildFailsKeeps, RetagKeeps, RetainKeeps DEF FlowStep
  <2>3. CASE \E f \in Flows : CutOff(f)
    BY <2>3, CutOffKeeps
  <2>4. CASE \E i \in Isolates : Evicted(i)
    BY <2>4, EvictedKeeps
  <2>5. CASE EdgeDrops \/ Bell \/ Close \/ SnapshotTick
    BY <2>5, EdgeDropsKeeps, BellKeeps, CloseKeeps, TickKeeps
  <2>6. CASE UNCHANGED snapshotVars
    BY <2>6, SnapshotStays
  <2> QED
    BY <2>1, <2>2, <2>3, <2>4, <2>5, <2>6 DEF SnapshotNext
<1>3. SnapshotIInv => SnapshotInv
  BY DEF SnapshotIInv, SnapshotInv
<1> QED
  BY <1>1, <1>2, <1>3, PTL DEF SnapshotSpec
===============================================================================
