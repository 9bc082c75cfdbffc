---------------------------- MODULE MC_CloudSweep ----------------------------
(* What TLC checks of CloudSweep by itself, with two cleanups at a time.      *)
(* Accounts are interchangeable, and so are cleanups.                         *)
EXTENDS CloudSweep, TLC

SweepSymmetry == Permutations(Tenants) \cup Permutations(Cleaners)
==============================================================================
