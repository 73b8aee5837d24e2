--------------------------- MODULE MCOrderPlacement ---------------------------
(* Two placements and one reconciling agent on one account. *)
EXTENDS OrderPlacement, TLC
CONSTANTS p1, p2, r1, o1, t1, t2

TwoPlacements == {p1, p2}
OnePlacement == {p1}
OneReconcile == {r1}
NoneOutside == {}
OneOutside == {o1}

\* The same ticket sent twice, from this program or from the broker's app.
SameTicket == [m \in {p1, p2, o1} |-> t1]
Symmetry == Permutations(TwoPlacements)

\* Every placement asks for something else.
OwnTickets == [m \in {p1, p2, o1} |-> IF m = p1 THEN t1 ELSE t2]
==============================================================================
