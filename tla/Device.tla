------------------------------- MODULE Device -------------------------------
(***************************************************************************)
(* The screens of the mobile app beside the chat, composed: dictation      *)
(* (VoiceInput), the arrivals near by with the history of what was tracked *)
(* (Nearby), and the language they share (I18n).  The sheet of dictation   *)
(* covers the transport tab: while it shows, nothing else is tapped, and   *)
(* it starts anew when the language changes.                               *)
(***************************************************************************)
EXTENDS VoiceInput, Nearby

vars == <<i18n, voice, nearby>>

Init == I18nInit /\ VoiceInit /\ NearbyInit

(* A change of the language runs the effect of the sheet. *)
Language(l) ==
    /\ LocaleRead(l) \/ (~visible /\ SetLocale(l))
    /\ IF l = locale THEN UNCHANGED voice ELSE Appear(visible, l)
    /\ UNCHANGED nearby

Voice ==
    /\ VoiceNext
    /\ visible' /\ ~visible => focus = "transport"
    /\ UNCHANGED nearby

Screens ==
    /\ NearbyNext
    /\ visible => focus' = focus
    /\ UNCHANGED voice

Next == Voice \/ Screens \/ \E l \in Locales : Language(l)

Spec == Init /\ [][Next]_vars

(* Types. *)
TypeOK == I18nTypeOK /\ VoiceTypeOK /\ NearbyTypeOK
=============================================================================
