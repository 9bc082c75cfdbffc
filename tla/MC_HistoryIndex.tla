--------------------------- MODULE MC_HistoryIndex ---------------------------
(* What TLC checks of HistoryIndex by itself.  Clients are interchangeable,   *)
(* and so are the replies they may get.                                       *)
EXTENDS HistoryIndex, TLC

IndexSymmetry == Permutations(Talks) \cup Permutations(Replies)
==============================================================================
