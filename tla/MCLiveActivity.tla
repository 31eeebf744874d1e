--------------------------- MODULE MCLiveActivity ---------------------------
(* An instance of LiveActivity: two trips of one route, a screen for one of *)
(* them, and no more than two refreshes under way at a time, one after the  *)
(* app was killed.                                                          *)
EXTENDS LiveActivity, TLC

CONSTANTS r, a, b, c1, c2, here

OneRoute == {r}
TwoStops == {a, b}
TwoTrips == [route : {r}, stop : {a, b}]
OneScreen == {here}
Pages == [s \in Screens |-> [route |-> r, stop |-> a]]
TwoCalls == {c1, c2}
Alike == Permutations(Calls)
FewRefreshes == Cardinality(asked) + Cardinality(updates) <= 2 - kills
=============================================================================
