--------------------------- MODULE MC_PlannedTurns ---------------------------
(* What TLC checks of PlannedTurns by itself, with one request more than in   *)
(* MC_Replies: what a continuation leaves out must be known upstream.         *)
EXTENDS PlannedTurns
==============================================================================
