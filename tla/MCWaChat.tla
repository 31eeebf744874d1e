------------------------------ MODULE MCWaChat ------------------------------
(* Instances of WaChat: two turns of one chat, and of two chats.            *)
EXTENDS WaChat

CONSTANTS t1, t2, ann, bob

TwoTurns == {t1, t2}
BothJids == {ann, bob}
SameChat == [t \in Turns |-> ann]
OwnChats == [t \in Turns |-> IF t = t1 THEN ann ELSE bob]
=============================================================================
