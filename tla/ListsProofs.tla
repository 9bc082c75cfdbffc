------------------------------ MODULE ListsProofs -----------------------------
(***************************************************************************)
(* What the proofs about several models need of numbers and lists: two     *)
(* forms of induction over the naturals, and what Selected makes of a      *)
(* list.                                                                   *)
(***************************************************************************)
EXTENDS Lists, Sequences, Functions,
        FiniteSetTheorems, SequenceTheorems, WellFoundedInduction, TLAPS

-----------------------------------------------------------------------------
(* Numbers, and the positions of a list.                                   *)

(* A set of naturals that is not empty has a smallest member.              *)
LEMMA Smallest ==
  ASSUME NEW T \in SUBSET Nat, T # {}
  PROVE  \E m \in T : \A n \in T : m <= n
  <1> DEFINE R == {ss \in Nat \X Nat : ss[1] < ss[2]}
  <1>1. IsWellFoundedOn(R, Nat)
    BY NatLessThanWellFounded DEF OpToRel
  <1>2. \E x \in T : \A y \in T : ~ (<<y, x>> \in R)
    <2> HIDE DEF R
    <2> QED BY <1>1, WFMin
  <1>3. ASSUME NEW x \in T, NEW y \in T, <<y, x>> \notin R PROVE x <= y
    BY <1>3
  <1> QED BY <1>2, <1>3

(* A set that contains 0 and with every number the next one contains all.  *)
LEMMA Counting ==
  ASSUME NEW T, 0 \in T, \A n \in Nat : n \in T => n + 1 \in T
  PROVE  Nat \subseteq T
  <1> DEFINE S == Nat \ T
  <1>1. S = {} \/ \E m \in S : \A n \in S : m <= n BY Smallest
  <1>2. ASSUME NEW m \in S, \A n \in S : m <= n PROVE FALSE
    <2>1. m # 0 /\ m \in Nat OBVIOUS
    <2>2. m - 1 \in Nat /\ ~ (m <= m - 1) BY <2>1
    <2>3. m - 1 \in T BY <1>2, <2>2
    <2>4. (m - 1) + 1 \in T BY <2>2, <2>3
    <2> QED BY <2>1, <2>4
  <1> QED BY <1>1, <1>2

(* Some positions of a list are finitely many.                              *)
LEMMA PositionsFinite ==
  ASSUME NEW len \in Nat, NEW left \in SUBSET (1..len)
  PROVE  IsFiniteSet(left) /\ Cardinality(left) \in Nat
  <1>1. IsFiniteSet(1..len)
    <2>1. 1 \in Int /\ len \in Int OBVIOUS
    <2> QED BY <2>1, FS_Interval
  <1>2. IsFiniteSet(left) BY <1>1, FS_Subset
  <1> QED BY <1>2, FS_CardinalityType

UpTo(left, k) == {j \in left : j <= k}

(* The positions up to the next one: that one more, if it is among them.   *)
LEMMA UpToNext ==
  ASSUME NEW len \in Nat, NEW left \in SUBSET (1..len)
  PROVE  /\ UpTo(left, len) = left
         /\ UpTo(left, 0) = {}
         /\ \A m \in Nat \ {0} :
              /\ m \in left => /\ UpTo(left, m) = UpTo(left, m - 1) \cup {m}
                              /\ m \notin UpTo(left, m - 1)
              /\ m \notin left => UpTo(left, m) = UpTo(left, m - 1)
  <1>1. \A j \in left : j \in Int /\ 1 <= j /\ j <= len OBVIOUS
  <1>2. ASSUME NEW m \in Nat \ {0}, NEW j \in left PROVE j <= m <=> j <= m - 1 \/ j = m
    BY <1>1
  <1>3. ASSUME NEW m \in Nat \ {0} PROVE ~ (m <= m - 1) BY <1>3
  <1>4. UpTo(left, len) = left BY <1>1 DEF UpTo
  <1>5. UpTo(left, 0) = {}
    <2>1. \A j \in left : ~ (j <= 0) BY <1>1
    <2> QED BY <2>1, Zenon DEF UpTo
  <1>6. ASSUME NEW m \in Nat \ {0}
        PROVE  /\ m \in left => /\ UpTo(left, m) = UpTo(left, m - 1) \cup {m}
                               /\ m \notin UpTo(left, m - 1)
               /\ m \notin left => UpTo(left, m) = UpTo(left, m - 1)
    <2>1. \A j \in left : j <= m <=> j <= m - 1 \/ j = m BY <1>2
    <2>2. m <= m BY <1>6
    <2> QED BY <1>3, <2>1, <2>2, Zenon DEF UpTo
  <1> QED BY <1>4, <1>5, <1>6

(* Among the positions of a list, the n-th of any set of them exists: the  *)
(* first one up to which there are n.                                      *)
LEMMA NthExists ==
  ASSUME NEW len \in Nat, NEW left \in SUBSET (1..len), NEW n \in 1..Cardinality(left)
  PROVE  \E i \in left : Cardinality(UpTo(left, i)) = n
  <1>1. IsFiniteSet(left) /\ Cardinality(left) \in Nat /\ n \in Nat \ {0} /\ n <= Cardinality(left)
    <2>1. IsFiniteSet(left) /\ Cardinality(left) \in Nat BY PositionsFinite
    <2> QED BY <2>1
  <1>2. ASSUME NEW k \in Nat
        PROVE  IsFiniteSet(UpTo(left, k)) /\ Cardinality(UpTo(left, k)) \in Nat
    <2>1. UpTo(left, k) \in SUBSET (1..len) BY DEF UpTo
    <2> QED BY <2>1, PositionsFinite
  <1> DEFINE Enough == {k \in Nat : Cardinality(UpTo(left, k)) >= n}
  <1>3. len \in Enough BY <1>1, UpToNext
  <1>4. Enough \in SUBSET Nat /\ Enough # {} BY <1>3
  <1> HIDE DEF Enough
  <1>5. PICK m \in Enough : \A k \in Enough : m <= k BY <1>4, Smallest
  <1>6. m \in Nat /\ Cardinality(UpTo(left, m)) >= n BY DEF Enough
  <1>7. m # 0
    <2>1. Cardinality(UpTo(left, 0)) = 0 BY UpToNext, FS_EmptySet
    <2> QED BY <1>1, <1>6, <2>1
  <1>8. m - 1 \in Nat /\ Cardinality(UpTo(left, m - 1)) < n
    <2>1. m - 1 \in Nat /\ ~ (m <= m - 1) BY <1>6, <1>7
    <2>2. m - 1 \notin Enough BY <1>5, <2>1
    <2> QED BY <1>1, <1>2, <2>1, <2>2 DEF Enough
  <1>9. m \in left
    <2> SUFFICES ASSUME m \notin left PROVE FALSE OBVIOUS
    <2>1. UpTo(left, m) = UpTo(left, m - 1) BY <1>6, <1>7, UpToNext
    <2> QED BY <1>1, <1>2, <1>6, <1>8, <2>1
  <1>10. Cardinality(UpTo(left, m)) = n
    <2>1. UpTo(left, m) = UpTo(left, m - 1) \cup {m} /\ m \notin UpTo(left, m - 1)
      BY <1>6, <1>7, <1>9, UpToNext
    <2>2. Cardinality(UpTo(left, m)) = Cardinality(UpTo(left, m - 1)) + 1
      BY <1>2, <1>8, <2>1, FS_AddElement
    <2> QED BY <1>1, <1>2, <1>6, <1>8, <2>2
  <1> QED BY <1>9, <1>10

(* No two positions have the same number before them.                      *)
LEMMA NthUnique ==
  ASSUME NEW len \in Nat, NEW left \in SUBSET (1..len), NEW i \in left, NEW k \in left,
         Cardinality(UpTo(left, i)) = Cardinality(UpTo(left, k))
  PROVE  i = k
  <1>1. ASSUME NEW a \in left, NEW b \in left, a < b,
               Cardinality(UpTo(left, a)) = Cardinality(UpTo(left, b))
        PROVE  FALSE
    <2>1. a \in Int /\ b \in Int /\ b <= b /\ ~ (b <= a) BY <1>1
    <2>2. \A j \in left : j <= a => j <= b BY <1>1, <2>1
    <2>3. UpTo(left, a) \in SUBSET UpTo(left, b) /\ b \in UpTo(left, b) /\ b \notin UpTo(left, a)
      BY <2>1, <2>2, Zenon DEF UpTo
    <2>4. IsFiniteSet(UpTo(left, b))
      <3>1. UpTo(left, b) \in SUBSET (1..len) BY DEF UpTo
      <3> QED BY <3>1, PositionsFinite
    <2>5. UpTo(left, a) = UpTo(left, b) BY <1>1, <2>3, <2>4, FS_Subset
    <2> QED BY <2>3, <2>5
  <1>2. i \in Int /\ k \in Int OBVIOUS
  <1>3. i < k \/ k < i \/ i = k BY <1>2
  <1> QED BY <1>1, <1>3

(* The selected members are those at the positions, each of them.          *)
LEMMA SelectedIs ==
  ASSUME NEW X, NEW seq \in Seq(X), NEW left \in SUBSET DOMAIN seq
  PROVE  /\ Selected(seq, left) \in Seq(X)
         /\ Len(Selected(seq, left)) = Cardinality(left)
         /\ DOMAIN Selected(seq, left) = 1..Cardinality(left)
         /\ Cardinality(left) \in Nat
         /\ \A n \in 1..Cardinality(left) :
              \E i \in left : Cardinality(UpTo(left, i)) = n /\ Selected(seq, left)[n] = seq[i]
         /\ \A i \in left : /\ Cardinality(UpTo(left, i)) \in 1..Cardinality(left)
                            /\ Selected(seq, left)[Cardinality(UpTo(left, i))] = seq[i]
  <1> DEFINE Nth(n) == CHOOSE i \in left : Cardinality(UpTo(left, i)) = n
             rest == [n \in 1..Cardinality(left) |-> seq[Nth(n)]]
  <1>1. Selected(seq, left) = rest BY DEF Selected, UpTo
  <1>2. Len(seq) \in Nat /\ DOMAIN seq = 1..Len(seq) OBVIOUS
  <1>3. left \in SUBSET (1..Len(seq)) BY <1>2
  <1>4. IsFiniteSet(left) /\ Cardinality(left) \in Nat BY <1>2, <1>3, PositionsFinite
  <1>5. ASSUME NEW n \in 1..Cardinality(left)
        PROVE  Nth(n) \in left /\ Cardinality(UpTo(left, Nth(n))) = n
    <2>1. \E i \in left : Cardinality(UpTo(left, i)) = n BY <1>2, <1>3, NthExists
    <2> QED BY <2>1
  <1> HIDE DEF Nth
  <1>6. \A n \in 1..Cardinality(left) : rest[n] = seq[Nth(n)] /\ rest[n] \in X
    BY <1>5
  <1>7. rest \in Seq(X) BY <1>4, <1>6
  <1>8. DOMAIN rest = 1..Cardinality(left) /\ Len(rest) = Cardinality(left) BY <1>4
  <1> HIDE DEF rest
  <1>9. ASSUME NEW i \in left
        PROVE  /\ Cardinality(UpTo(left, i)) \in 1..Cardinality(left)
               /\ rest[Cardinality(UpTo(left, i))] = seq[i]
    <2>1. UpTo(left, i) \in SUBSET left /\ i \in UpTo(left, i)
      <3>1. i \in Int BY <1>3
      <3> QED BY <3>1 DEF UpTo
    <2>2. IsFiniteSet(UpTo(left, i)) /\ Cardinality(UpTo(left, i)) <= Cardinality(left)
      BY <1>4, <2>1, FS_Subset
    <2>3. Cardinality(UpTo(left, i)) \in Nat /\ Cardinality(UpTo(left, i)) # 0
      BY <2>1, <2>2, FS_CardinalityType, FS_EmptySet
    <2> PICK n : n = Cardinality(UpTo(left, i)) OBVIOUS
    <2>4. n \in 1..Cardinality(left) BY <1>4, <2>2, <2>3
    <2>5. Nth(n) \in left /\ Cardinality(UpTo(left, Nth(n))) = n BY <1>5, <2>4
    <2>6. Nth(n) = i BY <1>2, <1>3, <2>5, NthUnique
    <2> QED BY <1>6, <2>4, <2>6
  <1> QED BY <1>1, <1>4, <1>5, <1>6, <1>7, <1>8, <1>9

LEMMA SelectedAs ==
  ASSUME NEW X, NEW seq \in Seq(X), NEW left \in SUBSET DOMAIN seq,
         NEW rest, rest = Selected(seq, left)
  PROVE  /\ rest \in Seq(X) /\ Len(rest) = Cardinality(left) /\ DOMAIN rest = 1..Cardinality(left)
         /\ \A i \in left : rest[Cardinality(UpTo(left, i))] = seq[i]
  BY SelectedIs

(* What all pass is left as it is, and one at the head that does not goes. *)
LEMMA SelectedAll ==
  ASSUME NEW X, NEW seq \in Seq(X)
  PROVE  Selected(seq, DOMAIN seq) = seq
  <1> PICK left : left = DOMAIN seq OBVIOUS
  <1>1. Len(seq) \in Nat /\ left = 1..Len(seq) OBVIOUS
  <1>2. ASSUME NEW n \in Nat, n <= Len(seq) PROVE Cardinality(UpTo(left, n)) = n
    <2>1. UpTo(left, n) = 1..n BY <1>1, <1>2 DEF UpTo
    <2> QED BY <2>1, FS_Interval
  <1>3. UpTo(left, Len(seq)) = left BY <1>1 DEF UpTo
  <1>4. Cardinality(left) = Len(seq) BY <1>1, <1>2, <1>3
  <1> PICK rest : rest = Selected(seq, left) OBVIOUS
  <1>5. /\ rest \in Seq(X) /\ Len(rest) = Len(seq) /\ DOMAIN rest = 1..Len(seq)
        /\ \A i \in left : rest[Cardinality(UpTo(left, i))] = seq[i]
    BY <1>4, SelectedIs
  <1>6. \A i \in 1..Len(seq) : rest[i] = seq[i]
    BY <1>1, <1>2, <1>5
  <1> QED BY <1>5, <1>6

LEMMA SelectedTail ==
  ASSUME NEW X, NEW long \in Seq(X), NEW seq \in Seq(X), Len(long) = Len(seq) + 1,
         \A i \in 1..Len(seq) : long[i + 1] = seq[i]
  PROVE  Selected(long, 2..(Len(seq) + 1)) = seq
  <1> PICK left : left = 2..(Len(seq) + 1) OBVIOUS
  <1>1. Len(seq) \in Nat /\ DOMAIN long = 1..(Len(seq) + 1) OBVIOUS
  <1>2. left \in SUBSET DOMAIN long BY <1>1
  <1>3. ASSUME NEW n \in Nat, n <= Len(seq) PROVE Cardinality(UpTo(left, n + 1)) = n
    <2>1. UpTo(left, n + 1) = 2..(n + 1) BY <1>1, <1>3 DEF UpTo
    <2> QED BY <2>1, FS_Interval
  <1>4. UpTo(left, Len(seq) + 1) = left BY <1>1 DEF UpTo
  <1>5. Cardinality(left) = Len(seq) BY <1>1, <1>3, <1>4
  <1> PICK rest : rest = Selected(long, left) OBVIOUS
  <1>6. /\ rest \in Seq(X) /\ Len(rest) = Cardinality(left) /\ DOMAIN rest = 1..Cardinality(left)
        /\ \A i \in left : rest[Cardinality(UpTo(left, i))] = long[i]
    <2>1. \A l \in SUBSET DOMAIN long : \A r : r = Selected(long, l) =>
            /\ r \in Seq(X) /\ Len(r) = Cardinality(l) /\ DOMAIN r = 1..Cardinality(l)
            /\ \A i \in l : r[Cardinality(UpTo(l, i))] = long[i]
      BY SelectedAs
    <2> QED BY <1>2, <2>1
  <1>7. \A i \in 1..Len(seq) : rest[i] = seq[i]
    <2> SUFFICES ASSUME NEW i \in 1..Len(seq) PROVE rest[i] = seq[i] OBVIOUS
    <2>1. i + 1 \in left /\ i \in Nat /\ i <= Len(seq) BY <1>1
    <2> QED BY <1>1, <1>3, <1>6, <2>1
  <1> QED BY <1>5, <1>6, <1>7, SeqEqual

(* The values of a selection are those at its positions.                   *)
LEMMA SelectedRange ==
  ASSUME NEW X, NEW seq \in Seq(X), NEW left \in SUBSET DOMAIN seq
  PROVE  Range(Selected(seq, left)) = {seq[i] : i \in left}
  <1>1. DOMAIN Selected(seq, left) = 1..Cardinality(left) BY SelectedIs
  <1>2. \A n \in 1..Cardinality(left) : \E i \in left : Selected(seq, left)[n] = seq[i]
    BY SelectedIs
  <1>3. \A i \in left : \E n \in 1..Cardinality(left) : Selected(seq, left)[n] = seq[i]
    BY SelectedIs
  <1>4. Range(Selected(seq, left)) = {Selected(seq, left)[n] : n \in 1..Cardinality(left)}
    BY <1>1 DEF Range
  <1> PICK val : val = [n \in 1..Cardinality(left) |-> Selected(seq, left)[n]] OBVIOUS
  <1>5. \A n \in 1..Cardinality(left) : val[n] = Selected(seq, left)[n] OBVIOUS
  <1>6. Range(Selected(seq, left)) = {val[n] : n \in 1..Cardinality(left)} BY <1>4, <1>5
  <1>7. \A n \in 1..Cardinality(left) : \E i \in left : val[n] = seq[i] BY <1>2, <1>5
  <1>8. \A i \in left : \E n \in 1..Cardinality(left) : val[n] = seq[i] BY <1>3, <1>5
  <1>9. {val[n] : n \in 1..Cardinality(left)} = {seq[i] : i \in left} BY <1>7, <1>8
  <1> QED BY <1>6, <1>9
===============================================================================
