----------------------------- MODULE MCFeedSync -----------------------------
(* A bus operator and the minibuses, which share a stop.                     *)
EXTENDS FeedSync

CONSTANTS kmb, gmb, s1, s2

BothClients == {kmb, gmb}
TwoStops == {s1, s2}
SharedStop == {[op |-> kmb, code |-> "1", region |-> 0, stops |-> {s1}],
               [op |-> gmb, code |-> "A", region |-> 1, stops |-> {s1, s2}]}
=============================================================================
