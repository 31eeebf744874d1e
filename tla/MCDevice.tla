------------------------------ MODULE MCDevice ------------------------------
(* An instance of Device: two languages and two services, one of which is   *)
(* named alike in one of them.  The halves share the language only: either  *)
(* dictation is used in the transport tab before the location is known, or  *)
(* not at all; what was tracked matters once the location and the language  *)
(* were read; and the last word comes when no call of start is in flight.   *)
EXTENDS Device

CONSTANTS en, tc, s1, s2

TwoLocales == {en, tc}
TwoServices == {s1, s2}
Names == s1 :> {en, tc} @@ s2 :> {en}
VoiceRests == ~visible /\ starts = {} /\ heard = Silent /\ spoken = 0
InTurn ==
    /\ VoiceRests \/ (geo = "permission" /\ focus = "transport" /\ tracks = 0)
    /\ spoken = MaxWords => starts = {}
    /\ tracks > 0 => geo = "found" /\ watch = "on" /\ ~reading
=============================================================================
