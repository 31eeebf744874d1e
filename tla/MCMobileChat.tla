---------------------------- MODULE MCMobileChat ----------------------------
(* An instance of MobileChat: both tabs, two sessions, two turns.  Which    *)
(* session is which does not matter.  The history tab takes part in         *)
(* behaviours with one turn and no kill.                                    *)
EXTENDS MobileChat, TLC

CONSTANTS transport, history_, s1, s2

BothTabs == {transport, history_}
TwoSessions == {s1, s2}
TwoTurns == 1..2

Symmetry == Permutations(Sessions)
Bound == Cardinality(DOMAIN home) + kills > 1 => session[history_] = None
=============================================================================
