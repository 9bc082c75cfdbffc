--------------------------- MODULE MC_SessionFlush ---------------------------
(* What TLC checks of SessionFlush.  The number of timer threads is what    *)
(* distinguishes the runs: one when every write ends within flush_interval, *)
(* two when a slow write may overlap the next timer's.                      *)
EXTENDS SessionFlush
=============================================================================
