--------------------------- MODULE MC_SessionTurns ---------------------------
(* What TLC checks of SessionTurns.  The .cfg files give it requests that   *)
(* share a session and one that does not, on one account with few slots.    *)
EXTENDS SessionTurns
=============================================================================
