--------------------------- MODULE MC_AnswerMerge ----------------------------
(* What TLC checks of AnswerMerge by itself: the whole of an answer, tail     *)
(* and images, whichever way upstream closes the turn.                        *)
EXTENDS AnswerMerge
==============================================================================
