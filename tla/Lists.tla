--------------------------------- MODULE Lists --------------------------------
(* A list comprehension, as SelectSeq computes it, said by positions.        *)
EXTENDS Integers, FiniteSets

\* The members of a list at some of its positions, in its order.
Selected(seq, left) ==
  LET Nth(n) == CHOOSE i \in left : Cardinality({j \in left : j <= i}) = n
  IN [n \in 1..Cardinality(left) |-> seq[Nth(n)]]
=============================================================================
