----------------------------- MODULE MCWaSender -----------------------------
(* Instances of WaSender: two pods (p2's clock is ahead by one) that share  *)
(* the queue, and a single pod with exact clocks.                           *)
EXTENDS WaSender, TLC

CONSTANTS p1, p2, m1, m2

TwoPods == {p1, p2}
OnePod == {p1}
TwoMsgs == {m1, m2}
HomeOfTwo == [m \in Msgs |-> p2]
HomeOfOne == [m \in Msgs |-> p1]
SkewOfTwo == [p \in Pods |-> IF p = p2 THEN 1 ELSE 0]
Alike == Permutations(Msgs)
SkewOfOne == [p \in Pods |-> 0]
=============================================================================
