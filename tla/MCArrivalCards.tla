--------------------------- MODULE MCArrivalCards ---------------------------
(* An instance of ArrivalCards with five calls.  Two of display_arrivals      *)
(* carry a query, one its stops; two of display_route ask the same.  Three    *)
(* calls are made, or two and a reload, and two things only where a route is  *)
(* among them.                                                                *)
EXTENDS ArrivalCards, TLC

CONSTANTS a1, a2, i1, r1, r2, q1, q2, q3, q4

ThreeArrivals == {a1, a2, i1}
OneInline == {i1}
TwoRoutes == {r1, r2}
FourQueries == {q1, q2, q3, q4}
Asks == [c \in Calls |-> CASE c = a1 -> q1 [] c = a2 -> q2 [] c = i1 -> q3 [] OTHER -> q4]

Swap(x, y) == x :> y @@ y :> x
SwapArrivals == Swap(a1, a2) @@ Swap(q1, q2)
SwapRoutes == Swap(r1, r2)
Symmetry == {SwapArrivals, SwapRoutes, SwapArrivals @@ SwapRoutes}
FewCalls ==
    /\ Cardinality(made) + reloads <= 3
    /\ Routes \cap made # {} => Cardinality(made) + reloads <= 2
=============================================================================
