--------------------------- MODULE MCTransitGraph ---------------------------
(* Three stops on one route, the last two also within walking distance.     *)
EXTENDS TransitGraph

CONSTANTS s1, s2, s3, job, pod

ThreeStops == {s1, s2, s3}
OneRoute == {[route |-> "r", stop |-> s1, seq |-> 1],
             [route |-> "r", stop |-> s2, seq |-> 2],
             [route |-> "r", stop |-> s3, seq |-> 3]}
OnePair == {{s2, s3}}
OneSync == {job}
OneServer == {pod}
=============================================================================
