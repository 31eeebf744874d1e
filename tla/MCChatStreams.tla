--------------------------- MODULE MCChatStreams ---------------------------
(* An instance of ChatStreams: three requests, two of them of one chat.     *)
EXTENDS ChatStreams

CONSTANTS p1, p2, p3, x, y

ThreeRequests == {p1, p2, p3}
TwoChats == {x, y}
ChatOf == [r \in Requests |-> IF r = p3 THEN y ELSE x]
=============================================================================
