-------------------------- MODULE SessionTurnsProofs --------------------------
(***************************************************************************)
(* Proofs about the turns of accounts and of conversations, for every      *)
(* finite set of turns, any accounts, sessions and limits, and any number  *)
(* of limit changes: what AccountTurns promises of the slots; that the     *)
(* steps of SessionTurns are steps of AccountTurns, so that it holds there *)
(* too; and that a prompt is posted once, and an answer given in the       *)
(* knowledge of the history before it.                                     *)
(*                                                                         *)
(* The lemmas about the slots are of a list of gates G and a function of   *)
(* turns T, so that a step that frees a slot and passes it on is two       *)
(* applications: one turn changes, then PassKeeps.                         *)
(***************************************************************************)
EXTENDS SessionTurns, FiniteSetTheorems, TLAPS

-----------------------------------------------------------------------------
(* The inductive invariant *)

Gate == [account : Accounts, limit : Nat \ {0}, free : Nat, line : Seq(Turns)]

Row(n) == [at : States, account : Accounts, gate : 0..n, since : 0..n]

Typed(G, T) == G \in Seq(Gate) /\ T \in [Turns -> Row(Len(G))]

Running(T, a) == {t \in Turns : T[t].account = a /\ T[t].at = "running"}

Pending(T, a) == {t \in Turns : T[t].account = a /\ T[t].at \in {"queued", "woken"}}

Users(T, g) == {t \in Turns : T[t].gate = g /\ T[t].at \in {"running", "woken"}}

\* A line holds its gate's queued turns, each of them once.
LineHolds(G, T, g) ==
  \A i \in 1..Len(G[g].line) :
    /\ T[G[g].line[i]].at = "queued" /\ T[G[g].line[i]].gate = g
    /\ \A j \in 1..Len(G[g].line) : G[g].line[i] = G[g].line[j] => i = j

InLine(G, T, t) ==
  \E i \in 1..Len(G[T[t].gate].line) : G[T[t].gate].line[i] = t

Lined(G, T) ==
  /\ \A g \in DOMAIN G : LineHolds(G, T, g)
  /\ \A t \in Turns : T[t].at = "queued" => T[t].gate # 0 /\ InLine(G, T, t)

Owned(G, T) ==
  \A t \in Turns :
    /\ T[t].gate # 0 => G[T[t].gate].account = T[t].account
    /\ T[t].at = "woken" => T[t].gate # 0
    /\ T[t].at = "idle" => T[t].gate = 0

Slots(G, T) ==
  \A g \in DOMAIN G : G[g].free + Cardinality(Users(T, g)) = G[g].limit

Good(G, T) == Typed(G, T) /\ Lined(G, T) /\ Owned(G, T) /\ Slots(G, T)

Books(run, wait, T) ==
  /\ run \in [Accounts -> Int] /\ wait \in [Accounts -> Int]
  /\ \A a \in Accounts : /\ run[a] = Cardinality(Running(T, a))
                         /\ wait[a] = Cardinality(Pending(T, a))

Pointed(at, G) ==
  /\ at \in [Accounts -> 0..Len(G)]
  /\ \A a \in Accounts : at[a] # 0 => G[at[a]].account = a

Inv ==
  /\ limit \in Limits /\ changes \in 0..MaxChanges
  /\ Pointed(current, gates)
  /\ Good(gates, turn)
  /\ Books(inflight, waiting, turn)
-----------------------------------------------------------------------------
(* Counting *)

(* A set of turns is finite, and counts one more with one turn more.       *)
LEMMA AddOne ==
  ASSUME NEW S, S \subseteq Turns, NEW t \in Turns, t \notin S
  PROVE  Cardinality(S) \in Nat /\ Cardinality(S \cup {t}) = Cardinality(S) + 1
<1>1. IsFiniteSet(S)
  BY FS_Subset, TurnsAssumption
<1> QED
  BY <1>1, FS_CardinalityType, FS_AddElement

(* It counts one less with one turn less.                                  *)
LEMMA RemoveOne ==
  ASSUME NEW S, S \subseteq Turns, NEW t \in S
  PROVE  Cardinality(S) \in Nat /\ Cardinality(S \ {t}) = Cardinality(S) - 1
<1>1. IsFiniteSet(S)
  BY FS_Subset, TurnsAssumption
<1> QED
  BY <1>1, FS_CardinalityType, FS_RemoveElement

(* Its number of elements is a natural number.                             *)
LEMMA Counts ==
  ASSUME NEW S, S \subseteq Turns
  PROVE  Cardinality(S) \in Nat
  BY FS_Subset, FS_CardinalityType, TurnsAssumption

-----------------------------------------------------------------------------
(* A free slot passes to the head of the line *)

PassedOn(G, g) == [G EXCEPT ![g] = Passed(@)]

(* Passing a slot on keeps the gates and turns consistent, and leaves the  *)
(* numbers of running and of waiting turns alone.                          *)
LEMMA PassKeeps ==
  ASSUME NEW G, NEW T, NEW g \in DOMAIN G, Good(G, T),
         current \in [Accounts -> 0..Len(G)]
  PROVE  /\ Good(PassedOn(G, g), Awake(G[g], T))
         /\ Len(PassedOn(G, g)) = Len(G)
         /\ \A k \in DOMAIN G : PassedOn(G, g)[k].account = G[k].account
         /\ \A a \in Accounts : /\ Running(Awake(G[g], T), a) = Running(T, a)
                                /\ Pending(Awake(G[g], T), a) = Pending(T, a)
<1>1. /\ G \in Seq(Gate) /\ T \in [Turns -> Row(Len(G))]
      /\ DOMAIN G = 1..Len(G) /\ Len(G) \in Nat
      /\ g \in 1..Len(G) /\ G[g] \in Gate
  BY DEF Good, Typed
<1>2. CASE ~ (G[g].free > 0 /\ G[g].line # <<>>)
  <2>1. Passed(G[g]) = G[g] /\ Awake(G[g], T) = T
    BY <1>2 DEF Passed, Awake
  <2>2. PassedOn(G, g) = G
    BY <2>1, <1>1 DEF PassedOn
  <2> QED
    BY <2>1, <2>2
<1>3. CASE G[g].free > 0 /\ G[g].line # <<>>
  <2> DEFINE L == G[g].line
             h == Head(L)
             G2 == PassedOn(G, g)
             T2 == Awake(G[g], T)
  <2>1. /\ L \in Seq(Turns) /\ Len(L) \in Nat /\ Len(L) >= 1
        /\ h = L[1] /\ h \in Turns
    BY <1>1, <1>3 DEF Gate
  <2>2. T[h].at = "queued" /\ T[h].gate = g /\ T[h] \in Row(Len(G))
    BY <1>1, <2>1 DEF Good, Lined, LineHolds
  <2>3. \A i \in 1..Len(L) : i # 1 => L[i] # h
    BY <1>1, <2>1 DEF Good, Lined, LineHolds
  <2>4. /\ Tail(L) \in Seq(Turns) /\ Len(Tail(L)) = Len(L) - 1
        /\ \A i \in 1..Len(L) - 1 : Tail(L)[i] = L[i + 1]
    BY <2>1
  <2> DEFINE s2 == [G[g] EXCEPT !.free = G[g].free - 1, !.line = Tail(L)]
  <2>5. /\ G2 = [G EXCEPT ![g] = s2]
        /\ T2 = [T EXCEPT ![h].at = "woken", ![h].since = current[G[g].account]]
    BY <1>1, <1>3 DEF PassedOn, Passed, Awake
  <2>50. s2 \in Gate
    <3>1. G[g].free \in Nat /\ G[g].free - 1 \in Nat
      BY <1>1, <1>3 DEF Gate
    <3> DEFINE f == G[g].free - 1
               l == Tail(L)
    <3>2. f \in Nat /\ l \in Seq(Turns)
      BY <3>1, <2>4
    <3> HIDE DEF f, l
    <3>3. [G[g] EXCEPT !.free = f, !.line = l] \in Gate
      BY <3>2, <1>1 DEF Gate
    <3> QED
      BY <3>3 DEF f, l
  <2>51. /\ s2.account = G[g].account /\ s2.limit = G[g].limit
         /\ s2.free = G[g].free - 1 /\ s2.line = Tail(L)
    BY <1>1 DEF Gate
  <2> HIDE DEF s2
  <2>6. /\ G2[g].account = G[g].account /\ G2[g].limit = G[g].limit
        /\ G2[g].free = G[g].free - 1 /\ G2[g].line = Tail(L)
        /\ \A k \in DOMAIN G : k # g => G2[k] = G[k]
        /\ DOMAIN G2 = DOMAIN G
    BY <1>1, <2>5, <2>51
  <2>7. G2 \in Seq(Gate) /\ Len(G2) = Len(G)
    <3>1. G2[g] \in Gate
      BY <2>5, <2>50, <1>1
    <3>2. G2 = [k \in 1..Len(G) |-> G2[k]]
      BY <1>1, <2>5
    <3>3. \A k \in 1..Len(G) : G2[k] \in Gate
      BY <3>1, <2>6, <1>1
    <3>4. Len(G) \in Nat
      BY <1>1
    <3>5. PICK F : F = G2
      OBVIOUS
    <3>6. F = [k \in 1..Len(G) |-> F[k]] /\ \A k \in 1..Len(G) : F[k] \in Gate
      BY ONLY <3>2, <3>3, <3>5
    <3>7. F \in Seq(Gate) /\ Len(F) = Len(G)
      BY ONLY <3>4, <3>6
    <3> HIDE DEF G2
    <3> QED
      BY <3>5, <3>7
  <2>8. /\ T2[h].at = "woken" /\ T2[h].gate = g /\ T2[h].account = T[h].account
        /\ \A u \in Turns : u # h => T2[u] = T[u]
    <3> DEFINE n == current[G[g].account]
    <3>1. T2 = [T EXCEPT ![h] = [T[h] EXCEPT !.at = "woken", !.since = n]]
      BY <1>1, <2>1, <2>5
    <3>2. T \in [Turns -> Row(Len(G))] /\ h \in Turns
      BY <1>1, <2>1
    <3> HIDE DEF G2, T2, h, L, n
    <3>3. /\ [T[h] EXCEPT !.at = "woken", !.since = n].at = "woken"
          /\ [T[h] EXCEPT !.at = "woken", !.since = n].gate = T[h].gate
          /\ [T[h] EXCEPT !.at = "woken", !.since = n].account = T[h].account
      BY <2>2 DEF Row
    <3>4. /\ T2[h] = [T[h] EXCEPT !.at = "woken", !.since = n]
          /\ \A u \in Turns : u # h => T2[u] = T[u]
      BY <3>1, <3>2
    <3> QED
      BY <2>2, <3>3, <3>4
  <2>9. T2 \in [Turns -> Row(Len(G2))]
    <3>1. current[G[g].account] \in 0..Len(G)
      BY <1>1 DEF Gate
    <3>2. T2[h] \in Row(Len(G))
      <4>1. [T[h] EXCEPT !.at = "woken", !.since = current[G[g].account]]
              \in Row(Len(G))
        BY <3>1, <2>2 DEF Row, States
      <4> QED
        BY <4>1, <2>5, <1>1, <2>1
    <3>3. T2 = [u \in Turns |-> T2[u]]
      BY <1>1, <2>5
    <3> QED
      BY <3>2, <3>3, <2>7, <2>8, <1>1
  <2> HIDE DEF G2, T2, h
  <2>10. \A k \in DOMAIN G2 : LineHolds(G2, T2, k)
    <3> SUFFICES ASSUME NEW k \in DOMAIN G2
                 PROVE  LineHolds(G2, T2, k)
      OBVIOUS
    <3>0. LineHolds(G, T, k)
      BY <2>6 DEF Good, Lined
    <3>1. CASE k # g
      <4>0. G2[k] = G[k] /\ G[k] \in Gate
        BY <3>1, <2>6, <1>1
      <4>1. G2[k] = G[k] /\ G[k].line \in Seq(Turns)
        BY <4>0 DEF Gate
      <4>2. \A i \in 1..Len(G[k].line) : G[k].line[i] # h /\ G[k].line[i] \in Turns
        BY <3>0, <3>1, <2>2, <4>1 DEF LineHolds
      <4> QED
        BY <4>1, <4>2, <3>0, <2>8 DEF LineHolds
    <3>2. CASE k = g
      <4>1. \A i \in 1..Len(L) - 1 :
              /\ L[i + 1] \in Turns /\ L[i + 1] # h
              /\ T[L[i + 1]].at = "queued" /\ T[L[i + 1]].gate = g
              /\ \A j \in 1..Len(L) - 1 : L[i + 1] = L[j + 1] => i = j
        BY <3>0, <3>2, <2>1, <2>3 DEF LineHolds
      <4> QED
        BY <4>1, <3>2, <2>1, <2>4, <2>6, <2>8 DEF LineHolds
    <3> QED
      BY <3>1, <3>2
  <2>11. ASSUME NEW u \in Turns, T2[u].at = "queued"
         PROVE  T2[u].gate # 0 /\ InLine(G2, T2, u)
    <3>1. u # h /\ T2[u] = T[u]
      BY <2>8, <2>11
    <3>2. T[u].gate # 0 /\ InLine(G, T, u) /\ T[u].gate \in 0..Len(G)
      BY <3>1, <2>11, <1>1 DEF Good, Lined, Row
    <3>3. CASE T[u].gate # g
      BY <3>1, <3>2, <3>3, <2>6, <1>1 DEF InLine
    <3>4. CASE T[u].gate = g
      <4>1. PICK i \in 1..Len(L) : L[i] = u
        BY <3>2, <3>4 DEF InLine
      <4>2. i # 1
        BY <4>1, <3>1, <2>1
      <4>0. i - 1 \in 1..Len(L) - 1 /\ (i - 1) + 1 = i
        BY <4>1, <4>2, <2>1
      <4>3. i - 1 \in 1..Len(L) - 1 /\ Tail(L)[i - 1] = u
        BY ONLY <4>0, <4>1, <2>4
      <4>4. T2[u].gate = g /\ g # 0 /\ G2[g].line = Tail(L)
        BY <3>1, <3>2, <3>4, <2>6
      <4>5. Len(G2[g].line) = Len(L) - 1 /\ G2[g].line[i - 1] = u
        BY ONLY <4>3, <4>4, <2>4
      <4> QED
        BY ONLY <4>3, <4>4, <4>5 DEF InLine
    <3> QED
      BY <3>3, <3>4
  <2>12. Lined(G2, T2)
    BY <2>10, <2>11 DEF Lined
  <2>13. \A k \in DOMAIN G : G2[k].account = G[k].account
    BY <2>6
  <2>14. Owned(G2, T2)
    <3> SUFFICES ASSUME NEW u \in Turns
                 PROVE  /\ T2[u].gate # 0 => G2[T2[u].gate].account = T2[u].account
                        /\ T2[u].at = "woken" => T2[u].gate # 0
                        /\ T2[u].at = "idle" => T2[u].gate = 0
      BY DEF Owned
    <3>1. /\ T[u].gate # 0 => G[T[u].gate].account = T[u].account
          /\ T[u].at = "woken" => T[u].gate # 0
          /\ T[u].at = "idle" => T[u].gate = 0
          /\ T[u].gate \in 0..Len(G)
      BY <1>1 DEF Good, Owned, Row
    <3>2. CASE u = h
      BY <3>1, <3>2, <2>2, <2>8, <2>13, <1>1
    <3>3. CASE u # h
      BY <3>1, <3>3, <2>8, <2>13, <1>1
    <3> QED
      BY <3>2, <3>3
  <2>15. Slots(G2, T2)
    <3> SUFFICES ASSUME NEW k \in DOMAIN G2
                 PROVE  G2[k].free + Cardinality(Users(T2, k)) = G2[k].limit
      BY DEF Slots
    <3>1. G[k].free + Cardinality(Users(T, k)) = G[k].limit /\ k \in DOMAIN G
      BY <2>6 DEF Good, Slots
    <3>2. CASE k # g
      <4>1. Users(T2, k) = Users(T, k)
        BY <3>2, <2>2, <2>8 DEF Users
      <4> QED
        BY <4>1, <3>1, <3>2, <2>6
    <3>3. CASE k = g
      <4>1. Users(T2, g) = Users(T, g) \cup {h} /\ h \notin Users(T, g)
        BY <2>1, <2>2, <2>8 DEF Users
      <4>2. Users(T, g) \subseteq Turns
        BY DEF Users
      <4>3. Cardinality(Users(T2, g)) = Cardinality(Users(T, g)) + 1
            /\ Cardinality(Users(T, g)) \in Nat
        BY <4>1, <4>2, <2>1, AddOne
      <4>4. G[g].free \in Nat /\ G[g].limit \in Nat
        BY <1>1 DEF Gate
      <4>5. /\ G[g].free + Cardinality(Users(T, g)) = G[g].limit
            /\ G2[g].free = G[g].free - 1 /\ G2[g].limit = G[g].limit
        BY <3>1, <3>3, <2>6
      <4>6. G2[g].free + Cardinality(Users(T2, g)) = G2[g].limit
        BY ONLY <4>3, <4>4, <4>5
      <4> QED
        BY <4>6, <3>3
    <3> QED
      BY <3>2, <3>3
  <2>16. \A a \in Accounts : /\ Running(T2, a) = Running(T, a)
                             /\ Pending(T2, a) = Pending(T, a)
    <3>1. \A u \in Turns :
            /\ T2[u].account = T[u].account
            /\ T2[u].at = "running" <=> T[u].at = "running"
            /\ T2[u].at \in {"queued", "woken"} <=> T[u].at \in {"queued", "woken"}
      BY ONLY <2>2, <2>8
    <3> QED
      BY ONLY <3>1 DEF Running, Pending
  <2> QED
    BY <2>7, <2>9, <2>12, <2>13, <2>14, <2>15, <2>16 DEF Good, Typed, G2, T2
<1> QED
  BY <1>2, <1>3

-----------------------------------------------------------------------------
(* A step of one turn *)

\* T2 is T but for the row of turn t, which stays with its account.
Moves(T, T2, t) ==
  /\ \A u \in Turns : u # t => T2[u] = T[u]
  /\ T2[t].account = T[t].account

One(state) == IF state = "running" THEN 1 ELSE 0

Wait(state) == IF state \in {"queued", "woken"} THEN 1 ELSE 0

\* f2 is f but for account a, which has n more.
Counted(f, f2, a, n) ==
  /\ f2 \in [Accounts -> Int]
  /\ f2[a] = f[a] + n
  /\ \A b \in Accounts : b # a => f2[b] = f[b]

(* The books stay balanced when the numbers of the turn's account change   *)
(* by what the turn did.                                                   *)
LEMMA BooksMove ==
  ASSUME NEW T, NEW T2, NEW t \in Turns, Moves(T, T2, t),
         NEW run, NEW run2, NEW wait, NEW wait2, Books(run, wait, T),
         T[t].account \in Accounts,
         Counted(run, run2, T[t].account, One(T2[t].at) - One(T[t].at)),
         Counted(wait, wait2, T[t].account, Wait(T2[t].at) - Wait(T[t].at))
  PROVE  Books(run2, wait2, T2)
<1> DEFINE a == T[t].account
<1>1. ASSUME NEW b \in Accounts, b # a
      PROVE  /\ run2[b] = Cardinality(Running(T2, b))
             /\ wait2[b] = Cardinality(Pending(T2, b))
  <2>1. Running(T2, b) = Running(T, b) /\ Pending(T2, b) = Pending(T, b)
    BY <1>1 DEF Moves, Running, Pending
  <2> QED
    BY <2>1, <1>1 DEF Books, Counted
<1>2. run2[a] = Cardinality(Running(T2, a))
  <2>0. /\ Running(T, a) \subseteq Turns
        /\ run[a] = Cardinality(Running(T, a)) /\ run[a] \in Int
        /\ run2[a] = run[a] + (One(T2[t].at) - One(T[t].at))
    BY DEF Running, Books, Counted
  <2>1. CASE T[t].at = "running" /\ T2[t].at = "running"
    <3>1. Running(T2, a) = Running(T, a)
      BY <2>1 DEF Moves, Running
    <3> QED
      BY <3>1, <2>0, <2>1 DEF One
  <2>2. CASE T[t].at = "running" /\ T2[t].at # "running"
    <3>1. Running(T2, a) = Running(T, a) \ {t} /\ t \in Running(T, a)
      BY <2>2 DEF Moves, Running
    <3>2. Cardinality(Running(T2, a)) = Cardinality(Running(T, a)) - 1
      BY <3>1, <2>0, RemoveOne
    <3> QED
      BY <3>2, <2>0, <2>2 DEF One
  <2>3. CASE T[t].at # "running" /\ T2[t].at = "running"
    <3>1. Running(T2, a) = Running(T, a) \cup {t} /\ t \notin Running(T, a)
      BY <2>3 DEF Moves, Running
    <3>2. Cardinality(Running(T2, a)) = Cardinality(Running(T, a)) + 1
      BY <3>1, <2>0, AddOne
    <3> QED
      BY <3>2, <2>0, <2>3 DEF One
  <2>4. CASE T[t].at # "running" /\ T2[t].at # "running"
    <3>1. Running(T2, a) = Running(T, a)
      BY <2>4 DEF Moves, Running
    <3> QED
      BY <3>1, <2>0, <2>4 DEF One
  <2> QED
    BY <2>1, <2>2, <2>3, <2>4
<1>3. wait2[a] = Cardinality(Pending(T2, a))
  <2> DEFINE W == {"queued", "woken"}
  <2>0. /\ Pending(T, a) \subseteq Turns
        /\ wait[a] = Cardinality(Pending(T, a)) /\ wait[a] \in Int
        /\ wait2[a] = wait[a] + (Wait(T2[t].at) - Wait(T[t].at))
    BY DEF Pending, Books, Counted
  <2>1. CASE T[t].at \in W /\ T2[t].at \in W
    <3>1. Pending(T2, a) = Pending(T, a)
      BY <2>1 DEF Moves, Pending
    <3> QED
      BY <3>1, <2>0, <2>1 DEF Wait
  <2>2. CASE T[t].at \in W /\ T2[t].at \notin W
    <3>1. Pending(T2, a) = Pending(T, a) \ {t} /\ t \in Pending(T, a)
      BY <2>2 DEF Moves, Pending
    <3>2. Cardinality(Pending(T2, a)) = Cardinality(Pending(T, a)) - 1
      BY <3>1, <2>0, RemoveOne
    <3> QED
      BY <3>2, <2>0, <2>2 DEF Wait
  <2>3. CASE T[t].at \notin W /\ T2[t].at \in W
    <3>1. Pending(T2, a) = Pending(T, a) \cup {t} /\ t \notin Pending(T, a)
      BY <2>3 DEF Moves, Pending
    <3>2. Cardinality(Pending(T2, a)) = Cardinality(Pending(T, a)) + 1
      BY <3>1, <2>0, AddOne
    <3> QED
      BY <3>2, <2>0, <2>3 DEF Wait
  <2>4. CASE T[t].at \notin W /\ T2[t].at \notin W
    <3>1. Pending(T2, a) = Pending(T, a)
      BY <2>4 DEF Moves, Pending
    <3> QED
      BY <3>1, <2>0, <2>4 DEF Wait
  <2> QED
    BY <2>1, <2>2, <2>3, <2>4
<1> QED
  BY <1>1, <1>2, <1>3 DEF Books, Counted

(* Passing a slot on does not touch the books.                             *)
LEMMA BooksSame ==
  ASSUME NEW T, NEW T2, NEW run, NEW wait, Books(run, wait, T),
         \A a \in Accounts : /\ Running(T2, a) = Running(T, a)
                            /\ Pending(T2, a) = Pending(T, a)
  PROVE  Books(run, wait, T2)
  BY DEF Books

(* The lines hold what they should after a step of a turn that is in none  *)
(* of them before and after.                                               *)
LEMMA LinesKept ==
  ASSUME NEW G, NEW G2, NEW T, NEW T2, NEW t \in Turns,
         Typed(G, T), Lined(G, T), Moves(T, T2, t),
         T[t].at # "queued", T2[t].at # "queued",
         \A k \in DOMAIN G : k \in DOMAIN G2 /\ G2[k].line = G[k].line,
         \A k \in DOMAIN G2 : k \notin DOMAIN G => G2[k].line = <<>>
  PROVE  Lined(G2, T2)
<1>1. ASSUME NEW k \in DOMAIN G2
      PROVE  LineHolds(G2, T2, k)
  <2>1. CASE k \in DOMAIN G
    <3>1. LineHolds(G, T, k) /\ G2[k].line = G[k].line /\ G[k] \in Gate
      BY <2>1 DEF Lined, Typed
    <3>2. G[k].line \in Seq(Turns)
      BY <3>1 DEF Gate
    <3>3. \A i \in 1..Len(G[k].line) : G[k].line[i] # t /\ G[k].line[i] \in Turns
      BY <3>1, <3>2 DEF LineHolds
    <3> QED
      BY <3>1, <3>3 DEF LineHolds, Moves
  <2>2. CASE k \notin DOMAIN G
    BY <2>2 DEF LineHolds
  <2> QED
    BY <2>1, <2>2
<1>2. ASSUME NEW u \in Turns, T2[u].at = "queued"
      PROVE  T2[u].gate # 0 /\ InLine(G2, T2, u)
  <2>1. u # t /\ T2[u] = T[u]
    BY <1>2 DEF Moves
  <2>2. T[u].gate # 0 /\ InLine(G, T, u) /\ T[u].gate \in DOMAIN G
    BY <2>1, <1>2 DEF Lined, Typed, Row
  <2> QED
    BY <2>1, <2>2 DEF InLine
<1> QED
  BY <1>1, <1>2 DEF Lined

(* A turn that holds a slot leaves: its slot is free, and nothing else     *)
(* changes.                                                                *)
LEMMA LeaveKeeps ==
  ASSUME NEW G, NEW T, NEW t \in Turns, Good(G, T),
         T[t].at \in {"running", "woken"}, T[t].gate # 0
  PROVE  Good([G EXCEPT ![T[t].gate] = Returned(@)], [T EXCEPT ![t].at = "done"])
<1> DEFINE g == T[t].gate
           s2 == Returned(G[g])
           G2 == [G EXCEPT ![g] = Returned(@)]
           T2 == [T EXCEPT ![t].at = "done"]
<1>1. /\ G \in Seq(Gate) /\ T \in [Turns -> Row(Len(G))]
      /\ DOMAIN G = 1..Len(G) /\ Len(G) \in Nat
  BY DEF Good, Typed
<1>2. g \in 1..Len(G) /\ g \in DOMAIN G /\ T[t] \in Row(Len(G))
  BY <1>1 DEF Row
<1>3. G[g] \in Gate
  BY <1>1, <1>2
<1>4. /\ s2.account = G[g].account /\ s2.limit = G[g].limit
      /\ s2.free = G[g].free + 1 /\ s2.line = G[g].line /\ s2 \in Gate
  BY <1>3 DEF Returned, Gate
<1>5. G2 = [G EXCEPT ![g] = s2]
  OBVIOUS
<1> HIDE DEF s2
<1>6. /\ G2 \in Seq(Gate) /\ Len(G2) = Len(G) /\ DOMAIN G2 = DOMAIN G
      /\ G2[g] = s2 /\ \A k \in DOMAIN G : k # g => G2[k] = G[k]
  BY <1>1, <1>2, <1>4, <1>5
<1>7. /\ T2[t].at = "done" /\ T2[t].gate = g /\ T2[t].account = T[t].account
      /\ T2[t] \in Row(Len(G))
      /\ \A u \in Turns : u # t => T2[u] = T[u]
  BY <1>1, <1>2 DEF Row, States
<1>8. T2 \in [Turns -> Row(Len(G2))]
  BY <1>1, <1>6, <1>7
<1> HIDE DEF G2, T2
<1>9. Lined(G2, T2)
  <2>1. Moves(T, T2, t)
    BY <1>7 DEF Moves
  <2>2. \A k \in DOMAIN G : k \in DOMAIN G2 /\ G2[k].line = G[k].line
    BY <1>4, <1>6
  <2>3. Lined(G, T) /\ Typed(G, T)
    BY DEF Good
  <2> QED
    BY <2>1, <2>2, <2>3, <1>6, <1>7, LinesKept
<1>10. Owned(G2, T2)
  BY <1>1, <1>2, <1>4, <1>6, <1>7 DEF Good, Owned, Row
<1>11. ASSUME NEW k \in DOMAIN G2
       PROVE  G2[k].free + Cardinality(Users(T2, k)) = G2[k].limit
  <2>1. G[k].free + Cardinality(Users(T, k)) = G[k].limit /\ k \in DOMAIN G
    BY <1>6 DEF Good, Slots
  <2>2. CASE k # g
    <3>1. Users(T2, k) = Users(T, k)
      BY <2>2, <1>7 DEF Users
    <3> QED
      BY <3>1, <2>1, <2>2, <1>6
  <2>3. CASE k = g
    <3>1. Users(T2, g) = Users(T, g) \ {t} /\ t \in Users(T, g)
      BY <1>7 DEF Users
    <3>2. Users(T, g) \subseteq Turns
      BY DEF Users
    <3>3. /\ Cardinality(Users(T2, g)) = Cardinality(Users(T, g)) - 1
          /\ Cardinality(Users(T, g)) \in Nat
      BY <3>1, <3>2, RemoveOne
    <3>4. G[g].free \in Nat /\ G[g].limit \in Nat
      BY <1>3 DEF Gate
    <3>5. G2[g].free = G[g].free + 1 /\ G2[g].limit = G[g].limit
      BY <1>4, <1>6
    <3>6. G[g].free + Cardinality(Users(T, g)) = G[g].limit
      BY <2>1, <2>3
    <3>7. G2[g].free + Cardinality(Users(T2, g)) = G2[g].limit
      BY <3>3, <3>4, <3>5, <3>6
    <3> QED
      BY <3>7, <2>3
  <2> QED
    BY <2>2, <2>3
<1> QED
  BY <1>6, <1>8, <1>9, <1>10, <1>11 DEF Good, Typed, Slots, G2, T2

Started(x, g) == [x EXCEPT !.at = "running", !.gate = g, !.since = g]

(* The row of a turn that starts on a gate.                                *)
LEMMA StartedRow ==
  ASSUME NEW n \in Nat, NEW x \in Row(n), NEW g \in 0..n
  PROVE  /\ Started(x, g) \in Row(n)
         /\ Started(x, g).at = "running" /\ Started(x, g).gate = g
         /\ Started(x, g).account = x.account
<1> DEFINE y == Started(x, g)
<1>1. y = [x EXCEPT !.at = "running", !.gate = g, !.since = g]
  BY DEF Started
<1> HIDE DEF y
<1>2. y \in Row(n) /\ y.at = "running" /\ y.gate = g /\ y.account = x.account
  BY <1>1 DEF Row, States
<1> QED
  BY <1>2 DEF y

(* A turn runs on a gate: StartOnGate takes a slot of an existing one.     *)
LEMMA TakeKeeps ==
  ASSUME NEW G, NEW T, NEW t \in Turns, Good(G, T), NEW g \in DOMAIN G,
         T[t].at = "idle", G[g].free > 0, G[g].account = T[t].account
  PROVE  Good([G EXCEPT ![g].free = @ - 1],
              [T EXCEPT ![t].at = "running", ![t].gate = g, ![t].since = g])
<1> DEFINE s2 == [G[g] EXCEPT !.free = @ - 1]
           G2 == [G EXCEPT ![g].free = @ - 1]
           T2 == [T EXCEPT ![t].at = "running", ![t].gate = g, ![t].since = g]
<1>1. /\ G \in Seq(Gate) /\ T \in [Turns -> Row(Len(G))]
      /\ DOMAIN G = 1..Len(G) /\ Len(G) \in Nat
  BY DEF Good, Typed
<1>2. g \in 1..Len(G) /\ T[t] \in Row(Len(G)) /\ G[g] \in Gate
  BY <1>1
<1>3. G[g].free \in Nat /\ G[g].limit \in Nat
  BY <1>2 DEF Gate
<1>4. /\ s2.account = G[g].account /\ s2.limit = G[g].limit
      /\ s2.free = G[g].free - 1 /\ s2.line = G[g].line /\ s2 \in Gate
  <2> DEFINE f == G[g].free - 1
  <2>1. f \in Nat
    BY <1>3
  <2> HIDE DEF f
  <2>2. s2 = [G[g] EXCEPT !.free = f]
    BY DEF f
  <2>3. s2 \in Gate /\ s2.free = f
    BY <2>1, <2>2, <1>2 DEF Gate
  <2>4. s2.account = G[g].account /\ s2.limit = G[g].limit /\ s2.line = G[g].line
    BY <2>2, <1>2 DEF Gate
  <2> QED
    BY <2>3, <2>4 DEF f
<1>5. G2 = [G EXCEPT ![g] = s2]
  BY <1>1, <1>2
<1> HIDE DEF s2
<1>6. /\ G2 \in Seq(Gate) /\ Len(G2) = Len(G) /\ DOMAIN G2 = DOMAIN G
      /\ G2[g] = s2 /\ \A k \in DOMAIN G : k # g => G2[k] = G[k]
  BY <1>1, <1>2, <1>4, <1>5
<1>7. /\ T2[t].at = "running" /\ T2[t].gate = g /\ T2[t].account = T[t].account
      /\ T2[t] \in Row(Len(G))
      /\ \A u \in Turns : u # t => T2[u] = T[u]
  <2>1. T2[t] = Started(T[t], g) /\ \A u \in Turns : u # t => T2[u] = T[u]
    BY <1>1 DEF Started
  <2>2. g \in 0..Len(G)
    BY <1>1, <1>2
  <2>3. Len(G) \in Nat /\ T[t] \in Row(Len(G))
    BY <1>1, <1>2
  <2> HIDE DEF T2, G2
  <2>4. /\ Started(T[t], g) \in Row(Len(G))
        /\ Started(T[t], g).at = "running" /\ Started(T[t], g).gate = g
        /\ Started(T[t], g).account = T[t].account
    BY <2>2, <2>3 DEF Started, Row, States
  <2> QED
    BY <2>1, <2>4
<1>8. T2 \in [Turns -> Row(Len(G2))]
  BY <1>1, <1>6, <1>7
<1> HIDE DEF G2, T2
<1>9. Lined(G2, T2)
  <2>1. Moves(T, T2, t)
    BY <1>7 DEF Moves
  <2>2. \A k \in DOMAIN G : k \in DOMAIN G2 /\ G2[k].line = G[k].line
    BY <1>4, <1>6
  <2>3. Lined(G, T) /\ Typed(G, T)
    BY DEF Good
  <2> QED
    BY <2>1, <2>2, <2>3, <1>6, <1>7, LinesKept
<1>10. Owned(G2, T2)
  BY <1>1, <1>2, <1>4, <1>6, <1>7 DEF Good, Owned, Row
<1>11. ASSUME NEW k \in DOMAIN G2
       PROVE  G2[k].free + Cardinality(Users(T2, k)) = G2[k].limit
  <2>1. G[k].free + Cardinality(Users(T, k)) = G[k].limit /\ k \in DOMAIN G
    BY <1>6 DEF Good, Slots
  <2>2. CASE k # g
    <3>1. Users(T2, k) = Users(T, k)
      BY <2>2, <1>7 DEF Users
    <3> QED
      BY <3>1, <2>1, <2>2, <1>6
  <2>3. CASE k = g
    <3>1. Users(T2, g) = Users(T, g) \cup {t} /\ t \notin Users(T, g)
      BY <1>7 DEF Users
    <3>2. Users(T, g) \subseteq Turns
      BY DEF Users
    <3>3. /\ Cardinality(Users(T2, g)) = Cardinality(Users(T, g)) + 1
          /\ Cardinality(Users(T, g)) \in Nat
      BY <3>1, <3>2, AddOne
    <3>4. /\ G[g].free + Cardinality(Users(T, g)) = G[g].limit
          /\ G[g].free \in Nat /\ G[g].limit \in Nat
      BY <2>1, <2>3, <1>3
    <3>5. G2[g].free = G[g].free - 1 /\ G2[g].limit = G[g].limit
      BY <1>4, <1>6, <1>3
    <3>6. G2[g].free + Cardinality(Users(T2, g)) = G2[g].limit
      BY ONLY <3>3, <3>4, <3>5
    <3> QED
      BY <3>6, <2>3
  <2> QED
    BY <2>2, <2>3
<1> QED
  BY <1>6, <1>8, <1>9, <1>10, <1>11 DEF Good, Typed, Slots, G2, T2

(* A new gate, all of its slots free, changes nothing for the others.      *)
LEMMA NewGateKeeps ==
  ASSUME NEW G, NEW T, Good(G, T), NEW a \in Accounts, NEW n \in Nat \ {0}
  PROVE  Good(Append(G, Semaphore(a, n)), T)
<1> DEFINE s2 == Semaphore(a, n)
           G2 == Append(G, s2)
<1>1. /\ G \in Seq(Gate) /\ T \in [Turns -> Row(Len(G))]
      /\ DOMAIN G = 1..Len(G) /\ Len(G) \in Nat
  BY DEF Good, Typed
<1>2. s2 \in Gate /\ s2.free = n /\ s2.limit = n /\ s2.line = <<>>
  BY DEF Semaphore, Gate
<1> HIDE DEF s2
<1>3. /\ G2 \in Seq(Gate) /\ Len(G2) = Len(G) + 1 /\ DOMAIN G2 = 1..(Len(G) + 1)
      /\ G2[Len(G) + 1] = s2 /\ \A k \in 1..Len(G) : G2[k] = G[k]
  BY <1>1, <1>2
<1> HIDE DEF G2
<1>4. T \in [Turns -> Row(Len(G2))]
  <2>1. ASSUME NEW u \in Turns
        PROVE  T[u] \in Row(Len(G) + 1)
    <3>1. T[u] \in Row(Len(G))
      BY <1>1
    <3>2. 0..Len(G) \subseteq 0..(Len(G) + 1)
      BY <1>1
    <3> QED
      BY <3>1, <3>2 DEF Row
  <2> QED
    BY <2>1, <1>1, <1>3
<1>5. \A k \in DOMAIN G2 : k # Len(G) + 1 => k \in DOMAIN G /\ G2[k] = G[k]
  BY <1>1, <1>3
<1>6. \A u \in Turns : T[u].gate # 0 => T[u].gate \in DOMAIN G
  BY <1>1 DEF Row
<1>7. Lined(G2, T)
  <2>1. ASSUME NEW k \in DOMAIN G2
        PROVE  LineHolds(G2, T, k)
    BY <1>2, <1>3, <1>5 DEF LineHolds, Good, Lined
  <2>2. ASSUME NEW u \in Turns, T[u].at = "queued"
        PROVE  T[u].gate # 0 /\ InLine(G2, T, u)
    <3>1. T[u].gate # 0 /\ InLine(G, T, u) /\ T[u].gate \in DOMAIN G
      BY <2>2, <1>6 DEF Good, Lined
    <3> QED
      BY <3>1, <1>1, <1>3 DEF InLine
  <2> QED
    BY <2>1, <2>2 DEF Lined
<1>8. Owned(G2, T)
  BY <1>1, <1>3, <1>6 DEF Good, Owned
<1>9. Slots(G2, T)
  <2>1. Users(T, Len(G) + 1) = {}
    BY <1>1 DEF Users, Row
  <2>2. Cardinality(Users(T, Len(G) + 1)) = 0
    BY <2>1, FS_EmptySet
  <2> QED
    BY <2>2, <1>2, <1>3, <1>5 DEF Good, Slots
<1> QED
  BY <1>3, <1>4, <1>7, <1>8, <1>9 DEF Good, Typed, G2, s2

(* A turn that moves without a line or a slot: an unlimited turn starts or *)
(* ends, or a turn that was given its slot runs.                           *)
LEMMA AloneKeeps ==
  ASSUME NEW G, NEW T, NEW T2, NEW t \in Turns, Good(G, T), Moves(T, T2, t),
         T2 \in [Turns -> Row(Len(G))], T2[t].gate = T[t].gate,
         \/ T[t].at = "idle" /\ T2[t].at = "running"
         \/ T[t].at = "woken" /\ T2[t].at = "running"
         \/ T[t].at = "running" /\ T[t].gate = 0 /\ T2[t].at = "done"
  PROVE  Good(G, T2)
<1>1. Typed(G, T) /\ Lined(G, T) /\ Owned(G, T) /\ Slots(G, T)
  BY DEF Good
<1>2. Lined(G, T2)
  <2>1. \A k \in DOMAIN G : k \in DOMAIN G /\ G[k].line = G[k].line
    OBVIOUS
  <2>2. T[t].at # "queued" /\ T2[t].at # "queued"
    OBVIOUS
  <2> QED
    BY <2>2, <1>1, LinesKept
<1>3. Owned(G, T2)
  BY <1>1 DEF Owned, Moves
<1>4. \A k \in DOMAIN G : Users(T2, k) = Users(T, k)
  <2>1. T[t].at = "idle" => T[t].gate = 0
    BY <1>1 DEF Owned
  <2>2. \A k \in DOMAIN G : k # 0
    BY <1>1 DEF Typed
  <2> QED
    BY <2>1, <2>2 DEF Users, Moves
<1>5. Slots(G, T2)
  BY <1>1, <1>4 DEF Slots
<1> QED
  BY <1>1, <1>2, <1>3, <1>5 DEF Good, Typed

(* A turn takes its place at the end of its gate's line.                   *)
LEMMA QueueKeeps ==
  ASSUME NEW G, NEW T, NEW t \in Turns, Good(G, T), NEW g \in DOMAIN G,
         T[t].at = "idle", G[g].account = T[t].account
  PROVE  Good([G EXCEPT ![g].line = Append(@, t)],
              [T EXCEPT ![t].at = "queued", ![t].gate = g])
<1> DEFINE L == G[g].line
           l2 == Append(L, t)
           s2 == [G[g] EXCEPT !.line = l2]
           G2 == [G EXCEPT ![g].line = Append(@, t)]
           T2 == [T EXCEPT ![t].at = "queued", ![t].gate = g]
<1>1. /\ G \in Seq(Gate) /\ T \in [Turns -> Row(Len(G))]
      /\ DOMAIN G = 1..Len(G) /\ Len(G) \in Nat
  BY DEF Good, Typed
<1>2. g \in 1..Len(G) /\ T[t] \in Row(Len(G)) /\ G[g] \in Gate
  BY <1>1
<1>3. L \in Seq(Turns) /\ Len(L) \in Nat
  BY <1>2 DEF Gate
<1>4. /\ l2 \in Seq(Turns) /\ Len(l2) = Len(L) + 1 /\ l2[Len(L) + 1] = t
      /\ \A i \in 1..Len(L) : l2[i] = L[i]
  BY <1>3
<1>5. G2 = [G EXCEPT ![g] = s2]
  BY <1>1, <1>2
<1> HIDE DEF l2
<1>6. /\ s2.account = G[g].account /\ s2.limit = G[g].limit
      /\ s2.free = G[g].free /\ s2.line = l2 /\ s2 \in Gate
  BY <1>2, <1>4 DEF Gate
<1> HIDE DEF s2
<1> HIDE DEF G2
<1>7. /\ G2 \in Seq(Gate) /\ Len(G2) = Len(G) /\ DOMAIN G2 = DOMAIN G
      /\ G2[g] = s2 /\ \A k \in DOMAIN G : k # g => G2[k] = G[k]
  BY <1>1, <1>2, <1>5, <1>6
<1> DEFINE r == [T[t] EXCEPT !.at = "queued", !.gate = g]
<1>8. T2[t] = r /\ \A u \in Turns : u # t => T2[u] = T[u]
  BY <1>1
<1>9. r \in Row(Len(G)) /\ r.at = "queued" /\ r.gate = g /\ r.account = T[t].account
  <2>1. r = [T[t] EXCEPT !.at = "queued", !.gate = g]
    OBVIOUS
  <2>2. g \in 0..Len(G) /\ T[t] \in Row(Len(G))
    BY <1>1, <1>2
  <2> HIDE DEF r, T2
  <2> QED
    BY <2>1, <2>2 DEF Row, States
<1> HIDE DEF r
<1>10. T2 \in [Turns -> Row(Len(G2))]
  BY <1>1, <1>7, <1>8, <1>9
<1> HIDE DEF G2, T2
<1>11. \A i \in 1..Len(L) : /\ L[i] \in Turns /\ L[i] # t
                            /\ T[L[i]].at = "queued" /\ T[L[i]].gate = g
                            /\ \A j \in 1..Len(L) : L[i] = L[j] => i = j
  BY <1>3 DEF Good, Lined, LineHolds
<1>12. ASSUME NEW k \in DOMAIN G2
       PROVE  LineHolds(G2, T2, k)
  <2>1. CASE k # g
    <3>1. LineHolds(G, T, k) /\ G2[k] = G[k] /\ G[k] \in Gate
      BY <2>1, <1>1, <1>7 DEF Good, Lined
    <3>2. G[k].line \in Seq(Turns)
      BY <3>1 DEF Gate
    <3>3. \A i \in 1..Len(G[k].line) : G[k].line[i] # t /\ G[k].line[i] \in Turns
      BY <3>1, <3>2 DEF LineHolds
    <3> QED
      BY <3>1, <3>3, <1>8 DEF LineHolds
  <2>2. CASE k = g
    <3>1. G2[k].line = l2
      BY <2>2, <1>6, <1>7
    <3>2. ASSUME NEW i \in 1..Len(L) + 1
          PROVE  /\ T2[l2[i]].at = "queued" /\ T2[l2[i]].gate = g
                 /\ \A j \in 1..Len(L) + 1 : l2[i] = l2[j] => i = j
      <4>1. CASE i = Len(L) + 1
        <5>1. \A j \in 1..Len(L) + 1 : j # Len(L) + 1 => l2[j] # t
          BY <1>3, <1>4, <1>11
        <5> QED
          BY <5>1, <4>1, <1>4, <1>8, <1>9
      <4>2. CASE i # Len(L) + 1
        <5>1. i \in 1..Len(L) /\ l2[i] = L[i] /\ L[i] # t
          BY <4>2, <1>3, <1>4, <1>11
        <5>2. T2[l2[i]] = T[L[i]]
          BY <5>1, <1>8, <1>11
        <5>3. \A j \in 1..Len(L) + 1 : l2[i] = l2[j] => i = j
          <6> SUFFICES ASSUME NEW j \in 1..Len(L) + 1, l2[i] = l2[j]
                       PROVE  i = j
            OBVIOUS
          <6>1. j # Len(L) + 1
            BY <5>1, <1>4
          <6>2. j \in 1..Len(L) /\ l2[j] = L[j]
            BY <6>1, <1>3, <1>4
          <6> QED
            BY <6>2, <5>1, <1>11
        <5> QED
          BY <5>1, <5>2, <5>3, <1>11
      <4> QED
        BY <4>1, <4>2
    <3> QED
      BY <3>1, <3>2, <2>2, <1>4 DEF LineHolds
  <2> QED
    BY <2>1, <2>2
<1>13. ASSUME NEW u \in Turns, T2[u].at = "queued"
       PROVE  T2[u].gate # 0 /\ InLine(G2, T2, u)
  <2>1. CASE u = t
    <3>1. T2[u].gate = g /\ g # 0 /\ G2[g].line = l2
      BY <2>1, <1>2, <1>6, <1>7, <1>8, <1>9
    <3>2. Len(L) + 1 \in 1..Len(l2) /\ l2[Len(L) + 1] = u
      BY <2>1, <1>3, <1>4
    <3> QED
      BY <3>1, <3>2 DEF InLine
  <2>2. CASE u # t
    <3>1. /\ T2[u] = T[u] /\ T[u].gate # 0 /\ InLine(G, T, u)
          /\ T[u].gate \in DOMAIN G
      BY <2>2, <1>1, <1>8, <1>13 DEF Good, Lined, Row
    <3>2. CASE T[u].gate # g
      BY <3>1, <3>2, <1>7 DEF InLine
    <3>3. CASE T[u].gate = g
      <4>1. PICK i \in 1..Len(L) : L[i] = u
        BY <3>1, <3>3 DEF InLine
      <4>2. i \in 1..Len(l2) /\ l2[i] = u
        BY <4>1, <1>3, <1>4
      <4>3. G2[g].line = l2
        BY <1>6, <1>7
      <4> QED
        BY <4>2, <4>3, <3>1, <3>3 DEF InLine
    <3> QED
      BY <3>2, <3>3
  <2> QED
    BY <2>1, <2>2
<1>14. Lined(G2, T2)
  BY <1>12, <1>13 DEF Lined
<1>15. Owned(G2, T2)
  BY <1>1, <1>2, <1>6, <1>7, <1>8, <1>9 DEF Good, Owned, Row
<1>16. Slots(G2, T2)
  <2>1. \A k \in DOMAIN G : Users(T2, k) = Users(T, k)
    BY <1>8, <1>9 DEF Users
  <2>2. \A k \in DOMAIN G : G2[k].free = G[k].free /\ G2[k].limit = G[k].limit
    BY <1>6, <1>7
  <2> QED
    BY <2>1, <2>2, <1>7 DEF Good, Slots
<1> QED
  BY <1>7, <1>10, <1>14, <1>15, <1>16 DEF Good, Typed, G2, T2

(* Taking a turn out of a line keeps the order of the others.              *)
LEMMA WithoutIs ==
  ASSUME NEW q \in Seq(Turns), NEW p \in 1..Len(q),
         \A i \in 1..Len(q) : q[i] = q[p] => i = p
  PROVE  /\ Without(q, q[p]) \in Seq(Turns)
         /\ Len(Without(q, q[p])) = Len(q) - 1
         /\ \A j \in 1..(Len(q) - 1) :
              Without(q, q[p])[j] = IF j < p THEN q[j] ELSE q[j + 1]
<1> DEFINE f == [j \in 1..(Len(q) - 1) |-> IF j < p THEN q[j] ELSE q[j + 1]]
<1>1. Len(q) \in Nat /\ DOMAIN q = 1..Len(q) /\ Len(q) >= 1
  OBVIOUS
<1>2. (CHOOSE n \in DOMAIN q : q[n] = q[p]) = p
  BY <1>1
<1>3. Without(q, q[p]) = f
  BY <1>2 DEF Without
<1>4. \A j \in 1..(Len(q) - 1) : f[j] \in Turns
  BY <1>1
<1>5. f \in Seq(Turns) /\ Len(f) = Len(q) - 1
  BY <1>1, <1>4
<1> QED
  BY <1>3, <1>5

(* A cancelled turn leaves its line.                                       *)
LEMMA CancelKeeps ==
  ASSUME NEW G, NEW T, NEW t \in Turns, Good(G, T), T[t].at = "queued"
  PROVE  Good([G EXCEPT ![T[t].gate].line = Without(@, t)],
              [T EXCEPT ![t].at = "done"])
<1> DEFINE g == T[t].gate
           L == G[g].line
           l2 == Without(L, t)
           s2 == [G[g] EXCEPT !.line = l2]
           G2 == [G EXCEPT ![g].line = Without(@, t)]
           T2 == [T EXCEPT ![t].at = "done"]
<1>1. /\ G \in Seq(Gate) /\ T \in [Turns -> Row(Len(G))]
      /\ DOMAIN G = 1..Len(G) /\ Len(G) \in Nat
  BY DEF Good, Typed
<1>2. g \in 1..Len(G) /\ T[t] \in Row(Len(G)) /\ G[g] \in Gate
  <2>1. g # 0 /\ T[t] \in Row(Len(G))
    BY <1>1 DEF Good, Lined
  <2>2. g \in 1..Len(G)
    BY <2>1, <1>1 DEF Row
  <2> QED
    BY <2>1, <2>2, <1>1
<1>3. L \in Seq(Turns) /\ Len(L) \in Nat
  BY <1>2 DEF Gate
<1>4. PICK p \in 1..Len(L) : L[p] = t
  BY DEF Good, Lined, InLine
<1>5. \A i \in 1..Len(L) : /\ L[i] \in Turns
                           /\ T[L[i]].at = "queued" /\ T[L[i]].gate = g
                           /\ \A j \in 1..Len(L) : L[i] = L[j] => i = j
  BY <1>1, <1>2, <1>3 DEF Good, Lined, LineHolds
<1>6. /\ l2 \in Seq(Turns) /\ Len(l2) = Len(L) - 1
      /\ \A j \in 1..(Len(L) - 1) : l2[j] = IF j < p THEN L[j] ELSE L[j + 1]
  <2>1. l2 = Without(L, L[p])
    BY <1>4
  <2>2. \A i \in 1..Len(L) : L[i] = L[p] => i = p
    BY <1>4, <1>5
  <2>3. L \in Seq(Turns) /\ p \in 1..Len(L)
    BY <1>3
  <2> HIDE DEF L, l2
  <2>4. /\ Without(L, L[p]) \in Seq(Turns) /\ Len(Without(L, L[p])) = Len(L) - 1
        /\ \A j \in 1..(Len(L) - 1) :
             Without(L, L[p])[j] = IF j < p THEN L[j] ELSE L[j + 1]
    BY ONLY <2>2, <2>3, WithoutIs
  <2> QED
    BY <2>1, <2>4
<1>7. G2 = [G EXCEPT ![g] = s2]
  BY <1>1, <1>2
<1> HIDE DEF l2, G2
<1>8. /\ s2.account = G[g].account /\ s2.limit = G[g].limit
      /\ s2.free = G[g].free /\ s2.line = l2 /\ s2 \in Gate
  <2>1. l2 \in Seq(Turns) /\ G[g] \in Gate
    BY <1>2, <1>6
  <2> HIDE DEF g, L
  <2> QED
    BY <2>1 DEF Gate
<1> HIDE DEF s2
<1>9. /\ G2 \in Seq(Gate) /\ Len(G2) = Len(G) /\ DOMAIN G2 = DOMAIN G
      /\ G2[g] = s2 /\ \A k \in DOMAIN G : k # g => G2[k] = G[k]
  BY <1>1, <1>2, <1>7, <1>8
<1>10. /\ T2[t].at = "done" /\ T2[t].gate = g /\ T2[t].account = T[t].account
       /\ T2[t] \in Row(Len(G))
       /\ \A u \in Turns : u # t => T2[u] = T[u]
  BY <1>1, <1>2 DEF Row, States
<1>11. T2 \in [Turns -> Row(Len(G2))]
  BY <1>1, <1>9, <1>10
<1> HIDE DEF T2
\* Where each remaining place of the line was before.
<1> DEFINE old(j) == IF j < p THEN j ELSE j + 1
<1>12. \A j \in 1..(Len(L) - 1) : /\ old(j) \in 1..Len(L) /\ old(j) # p
                                  /\ l2[j] = L[old(j)]
  BY <1>3, <1>4, <1>6
<1>13. \A i, j \in 1..(Len(L) - 1) : old(i) = old(j) => i = j
  BY <1>3, <1>4
<1> HIDE DEF old
<1>14. ASSUME NEW k \in DOMAIN G2
       PROVE  LineHolds(G2, T2, k)
  <2>1. CASE k # g
    <3>1. LineHolds(G, T, k) /\ G2[k] = G[k] /\ G[k] \in Gate
      BY <2>1, <1>1, <1>9 DEF Good, Lined
    <3>2. G[k].line \in Seq(Turns)
      BY <3>1 DEF Gate
    <3>3. \A i \in 1..Len(G[k].line) : G[k].line[i] # t /\ G[k].line[i] \in Turns
      BY <2>1, <3>1, <3>2 DEF LineHolds
    <3> QED
      BY <3>1, <3>3, <1>10 DEF LineHolds
  <2>2. CASE k = g
    <3>1. G2[k].line = l2
      BY <2>2, <1>8, <1>9
    <3>2. ASSUME NEW i \in 1..(Len(L) - 1)
          PROVE  /\ T2[l2[i]].at = "queued" /\ T2[l2[i]].gate = g
                 /\ \A j \in 1..(Len(L) - 1) : l2[i] = l2[j] => i = j
      <4>1. old(i) \in 1..Len(L) /\ l2[i] = L[old(i)] /\ L[old(i)] # t
        BY <1>4, <1>5, <1>12
      <4>2. T2[l2[i]] = T[L[old(i)]]
        BY <4>1, <1>5, <1>10
      <4>3. \A j \in 1..(Len(L) - 1) : l2[i] = l2[j] => i = j
        <5> SUFFICES ASSUME NEW j \in 1..(Len(L) - 1), l2[i] = l2[j]
                     PROVE  i = j
          OBVIOUS
        <5>1. old(j) \in 1..Len(L) /\ L[old(i)] = L[old(j)]
          BY <4>1, <1>12
        <5>2. old(i) = old(j)
          BY <5>1, <4>1, <1>5
        <5> QED
          BY <5>2, <1>13
      <4> QED
        BY <4>1, <4>2, <4>3, <1>5
    <3> QED
      BY <3>1, <3>2, <2>2, <1>6 DEF LineHolds
  <2> QED
    BY <2>1, <2>2
<1>15. ASSUME NEW u \in Turns, T2[u].at = "queued"
       PROVE  T2[u].gate # 0 /\ InLine(G2, T2, u)
  <2>1. /\ u # t /\ T2[u] = T[u] /\ T[u].gate # 0 /\ InLine(G, T, u)
        /\ T[u].gate \in DOMAIN G
    BY <1>1, <1>10, <1>15 DEF Good, Lined, Row
  <2>2. CASE T[u].gate # g
    BY <2>1, <2>2, <1>9 DEF InLine
  <2>3. CASE T[u].gate = g
    <3>1. PICK i \in 1..Len(L) : L[i] = u
      BY <2>1, <2>3 DEF InLine
    <3>2. i # p
      BY <3>1, <2>1, <1>4
    <3>3. CASE i < p
      <4>1. i \in 1..(Len(L) - 1) /\ l2[i] = u
        BY <3>1, <3>3, <1>3, <1>4, <1>6
      <4> QED
        BY <4>1, <2>1, <2>3, <1>6, <1>8, <1>9 DEF InLine
    <3>4. CASE i > p
      <4>1. i - 1 \in 1..(Len(L) - 1) /\ l2[i - 1] = u
        BY <3>1, <3>4, <1>3, <1>4, <1>6
      <4> QED
        BY <4>1, <2>1, <2>3, <1>6, <1>8, <1>9 DEF InLine
    <3> QED
      BY <3>2, <3>3, <3>4, <1>4
  <2> QED
    BY <2>2, <2>3
<1>16. Lined(G2, T2)
  BY <1>14, <1>15 DEF Lined
<1>17. Owned(G2, T2)
  <2>1. \A k \in DOMAIN G : G2[k].account = G[k].account
    BY <1>8, <1>9
  <2>2. \A u \in Turns : T[u].gate # 0 => T[u].gate \in DOMAIN G
    BY <1>1 DEF Row
  <2>3. \A u \in Turns : T2[u].gate = T[u].gate /\ T2[u].account = T[u].account
    BY <1>10
  <2>4. \A u \in Turns : u # t => T2[u].at = T[u].at
    BY <1>10
  <2> QED
    BY <2>1, <2>2, <2>3, <2>4, <1>10 DEF Good, Owned
<1>18. Slots(G2, T2)
  <2>1. \A k \in DOMAIN G : Users(T2, k) = Users(T, k)
    BY <1>10 DEF Users
  <2>2. \A k \in DOMAIN G : G2[k].free = G[k].free /\ G2[k].limit = G[k].limit
    BY <1>8, <1>9
  <2> QED
    BY <2>1, <2>2, <1>9 DEF Good, Slots
<1> QED
  BY <1>9, <1>11, <1>16, <1>17, <1>18 DEF Good, Typed, G2, T2

-----------------------------------------------------------------------------
(* The steps *)

(* What the invariant says of the types.                                   *)
LEMMA Types ==
  ASSUME Inv, NEW t \in Turns
  PROVE  /\ gates \in Seq(Gate) /\ DOMAIN gates = 1..Len(gates)
         /\ Len(gates) \in Nat
         /\ turn \in [Turns -> Row(Len(gates))] /\ turn[t] \in Row(Len(gates))
         /\ turn[t].account \in Accounts /\ turn[t].gate \in 0..Len(gates)
         /\ turn[t].at \in States /\ turn[t].since \in 0..Len(gates)
         /\ current \in [Accounts -> 0..Len(gates)]
         /\ inflight \in [Accounts -> Int] /\ waiting \in [Accounts -> Int]
         /\ limit \in Nat
<1>1. /\ gates \in Seq(Gate) /\ turn \in [Turns -> Row(Len(gates))]
      /\ current \in [Accounts -> 0..Len(gates)]
      /\ inflight \in [Accounts -> Int] /\ waiting \in [Accounts -> Int]
      /\ limit \in Nat
  BY LimitsAssumption DEF Inv, Good, Typed, Pointed, Books
<1>2. turn[t] \in Row(Len(gates))
  BY <1>1
<1> QED
  BY <1>1, <1>2 DEF Row

(* The gates of the accounts, when the list of gates keeps their owners.   *)
LEMMA PointedKept ==
  ASSUME NEW at, NEW G, NEW G2, Pointed(at, G), Len(G) \in Nat,
         Len(G2) = Len(G), \A k \in 1..Len(G) : G2[k].account = G[k].account
  PROVE  Pointed(at, G2)
<1>1. \A a \in Accounts : at[a] # 0 => at[a] \in 1..Len(G)
  BY DEF Pointed
<1> QED
  BY <1>1 DEF Pointed

(* No turn has started, and there are no gates.                           *)
LEMMA InitInv == Init => Inv
<1> SUFFICES ASSUME Init PROVE Inv
  OBVIOUS
<1>1. /\ gates = <<>> /\ Len(gates) = 0 /\ gates \in Seq(Gate) /\ DOMAIN gates = {}
  BY DEF Init
<1>2. \A t \in Turns : /\ turn[t].at = "idle" /\ turn[t].gate = 0
                       /\ turn[t].since = 0 /\ turn[t].account \in Accounts
                       /\ turn[t] \in Row(0)
  BY DEF Init, Row, States
<1>3. turn \in [Turns -> Row(0)]
  BY <1>2 DEF Init
<1>4. Good(gates, turn)
  BY <1>1, <1>2, <1>3 DEF Good, Typed, Lined, Owned, Slots
<1>5. \A a \in Accounts : Running(turn, a) = {} /\ Pending(turn, a) = {}
  BY <1>2 DEF Running, Pending
<1>6. Books(inflight, waiting, turn)
  <2>1. /\ inflight = [a \in Accounts |-> 0] /\ waiting = [a \in Accounts |-> 0]
    BY DEF Init
  <2>2. \A a \in Accounts : /\ Cardinality(Running(turn, a)) = 0
                            /\ Cardinality(Pending(turn, a)) = 0
    BY <1>5, FS_EmptySet
  <2> QED
    BY <2>1, <2>2 DEF Books
<1>7. Pointed(current, gates)
  BY <1>1 DEF Pointed, Init
<1> QED
  BY <1>4, <1>6, <1>7, ChangesAssumption DEF Inv, Init

(* hold without a gate.                                                    *)
LEMMA UnlimitedKeeps ==
  ASSUME Inv, NEW t \in Turns, StartUnlimited(t)
  PROVE  Inv'
<1> DEFINE a == turn[t].account
           r == [turn[t] EXCEPT !.at = "running", !.since = current[a]]
<1>1. /\ turn' = [turn EXCEPT ![t].at = "running", ![t].since = current[a]]
      /\ turn[t].at = "idle"
      /\ inflight' = [inflight EXCEPT ![a] = @ + 1]
      /\ UNCHANGED <<limit, changes, gates, current, waiting>>
  BY DEF StartUnlimited
<1>2. a \in Accounts /\ turn[t] \in Row(Len(gates)) /\ current[a] \in 0..Len(gates)
  BY Types
<1>3. turn'[t] = r /\ \A u \in Turns : u # t => turn'[u] = turn[u]
  BY <1>1, Types
<1>4. r = [turn[t] EXCEPT !.at = "running", !.since = current[a]]
  OBVIOUS
<1> HIDE DEF r
<1>5. /\ r \in Row(Len(gates)) /\ r.at = "running"
      /\ r.gate = turn[t].gate /\ r.account = a
  BY <1>2, <1>4 DEF Row, States
<1>6. Moves(turn, turn', t)
  BY <1>3, <1>5 DEF Moves
<1>7. turn' \in [Turns -> Row(Len(gates))]
  BY <1>1, <1>3, <1>5, Types
<1>8. Good(gates, turn')
  BY <1>1, <1>3, <1>5, <1>6, <1>7, AloneKeeps DEF Inv
<1>9. Books(inflight', waiting', turn')
  <2>1. /\ Counted(inflight, inflight', a, 1) /\ Counted(waiting, waiting', a, 0)
    BY <1>1, <1>2, Types DEF Counted
  <2>2. /\ One(turn'[t].at) - One(turn[t].at) = 1
        /\ Wait(turn'[t].at) - Wait(turn[t].at) = 0
    BY <1>1, <1>3, <1>5 DEF One, Wait
  <2> QED
    BY <2>1, <2>2, <1>2, <1>6, BooksMove DEF Inv
<1> QED
  BY <1>1, <1>8, <1>9 DEF Inv

(* hold on a gate with a free slot.                                        *)
LEMMA OnGateKeeps ==
  ASSUME Inv, NEW t \in Turns, StartOnGate(t)
  PROVE  Inv'
<1> DEFINE a == turn[t].account
           g == current[a]
<1>1. /\ gates' = [gates EXCEPT ![g].free = @ - 1]
      /\ turn' = [turn EXCEPT ![t].at = "running", ![t].gate = g, ![t].since = g]
      /\ turn[t].at = "idle" /\ g # 0 /\ gates[g].free # 0
      /\ inflight' = [inflight EXCEPT ![a] = @ + 1]
      /\ UNCHANGED <<limit, changes, current, waiting>>
  BY DEF StartOnGate, Locked, Fits
<1>2. a \in Accounts /\ turn[t] \in Row(Len(gates)) /\ g \in 0..Len(gates)
  BY Types
<1>3. g \in DOMAIN gates /\ gates[g] \in Gate /\ gates[g].account = a
  <2>1. g \in 1..Len(gates) /\ DOMAIN gates = 1..Len(gates) /\ gates \in Seq(Gate)
    BY <1>1, <1>2, Types
  <2>2. gates[g].account = a
    BY <1>1, <1>2 DEF Inv, Pointed
  <2> QED
    BY <2>1, <2>2
<1>4. gates[g].free > 0
  BY <1>1, <1>3 DEF Gate
<1>5. Good(gates', turn')
  BY <1>1, <1>3, <1>4, TakeKeeps DEF Inv
<1>6. /\ turn'[t] = Started(turn[t], g)
      /\ \A u \in Turns : u # t => turn'[u] = turn[u]
  BY <1>1, Types DEF Started
<1>7. /\ Started(turn[t], g).at = "running" /\ Started(turn[t], g).account = a
  BY <1>2, Types, StartedRow
<1>8. Moves(turn, turn', t)
  BY <1>6, <1>7 DEF Moves
<1>9. Books(inflight', waiting', turn')
  <2>1. /\ Counted(inflight, inflight', a, 1) /\ Counted(waiting, waiting', a, 0)
    BY <1>1, <1>2, Types DEF Counted
  <2>2. /\ One(turn'[t].at) - One(turn[t].at) = 1
        /\ Wait(turn'[t].at) - Wait(turn[t].at) = 0
    <3>1. turn[t].at = "idle" /\ turn'[t].at = "running"
      BY <1>1, <1>6, <1>7
    <3> QED
      BY ONLY <3>1 DEF One, Wait
  <2> QED
    BY <2>1, <2>2, <1>2, <1>8, BooksMove DEF Inv
<1>10. /\ Len(gates') = Len(gates)
       /\ \A k \in 1..Len(gates) : gates'[k].account = gates[k].account
  BY <1>1, <1>3, Types
<1>11. Pointed(current', gates')
  BY <1>1, <1>10, Types, PointedKept DEF Inv
<1> QED
  BY <1>1, <1>5, <1>9, <1>11 DEF Inv

(* Appending an element is appending another and replacing it.             *)
LEMMA AppendIs ==
  ASSUME NEW S, NEW q \in Seq(S), NEW x \in S, NEW y \in S
  PROVE  Append(q, x) = [Append(q, y) EXCEPT ![Len(q) + 1] = x]
<1> DEFINE n == Len(q) + 1
           p == Append(q, x)
           r == Append(q, y)
           e == [r EXCEPT ![n] = x]
<1>1. Len(q) \in Nat
  OBVIOUS
<1>2. /\ p \in Seq(S) /\ Len(p) = n /\ p[n] = x
      /\ \A k \in 1..Len(q) : p[k] = q[k]
  OBVIOUS
<1>3. /\ r \in Seq(S) /\ Len(r) = n
      /\ \A k \in 1..Len(q) : r[k] = q[k]
  OBVIOUS
<1> HIDE DEF p, r
<1>4. DOMAIN r = 1..n /\ DOMAIN p = 1..n
  BY <1>2, <1>3
<1>5. e = [k \in 1..n |-> IF k = n THEN x ELSE r[k]]
  BY <1>4
<1>6. \A k \in 1..n : p[k] = IF k = n THEN x ELSE r[k]
  BY <1>1, <1>2, <1>3
<1>7. p = [k \in 1..n |-> p[k]]
  BY <1>2, <1>4
<1> QED
  BY <1>5, <1>6, <1>7 DEF p, r

(* hold with a limit the account has no gate for.                          *)
LEMMA OnNewGateKeeps ==
  ASSUME Inv, NEW t \in Turns, StartOnNewGate(t)
  PROVE  Inv'
<1> DEFINE a == turn[t].account
           g == Len(gates) + 1
           G1 == Append(gates, Semaphore(a, limit))
<1>1. /\ gates' = Append(gates, [Semaphore(a, limit) EXCEPT !.free = @ - 1])
      /\ turn' = [turn EXCEPT ![t].at = "running", ![t].gate = g, ![t].since = g]
      /\ turn[t].at = "idle" /\ limit > 0
      /\ inflight' = [inflight EXCEPT ![a] = @ + 1]
      /\ current' = [current EXCEPT ![a] = g]
      /\ UNCHANGED <<limit, changes, waiting>>
  BY DEF StartOnNewGate
<1>2. a \in Accounts /\ turn[t] \in Row(Len(gates)) /\ limit \in Nat \ {0}
  BY <1>1, Types
<1>3. Good(G1, turn)
  BY <1>2, NewGateKeeps DEF Inv
<1>4. /\ G1 \in Seq(Gate) /\ Len(G1) = g /\ DOMAIN G1 = 1..g /\ g \in Nat
      /\ G1[g] = Semaphore(a, limit) /\ \A k \in 1..Len(gates) : G1[k] = gates[k]
  <2>1. Semaphore(a, limit) \in Gate
    BY <1>2 DEF Semaphore, Gate
  <2> QED
    BY <2>1, Types
<1>5. gates' = [G1 EXCEPT ![g].free = @ - 1]
  <2> DEFINE s == Semaphore(a, limit)
             s2 == [s EXCEPT !.free = s.free - 1]
  <2>1. gates' = Append(gates, s2)
    BY <1>1
  <2>2. [G1 EXCEPT ![g].free = @ - 1] = [G1 EXCEPT ![g] = s2]
    BY <1>4
  <2>3. s \in Gate
    BY <1>2 DEF Semaphore, Gate
  <2>4. s2 \in Gate
    <3> DEFINE f == s.free - 1
    <3>1. f \in Nat
      BY <1>2 DEF Semaphore
    <3>2. s2 = [s EXCEPT !.free = f]
      OBVIOUS
    <3> HIDE DEF f, s, s2
    <3> QED
      BY <3>1, <3>2, <2>3 DEF Gate
  <2> HIDE DEF s2, s
  <2>5. Append(gates, s2) = [Append(gates, s) EXCEPT ![g] = s2]
    BY <2>3, <2>4, Types, AppendIs
  <2> QED
    BY <2>1, <2>2, <2>5 DEF s
<1>6. g \in DOMAIN G1 /\ G1[g].free > 0 /\ G1[g].account = a
  BY <1>2, <1>4, Types DEF Semaphore
<1> HIDE DEF G1
<1>7. Good(gates', turn')
  <2> HIDE DEF g
  <2>1. Good([G1 EXCEPT ![g].free = @ - 1],
             [turn EXCEPT ![t].at = "running", ![t].gate = g, ![t].since = g])
    BY <1>1, <1>3, <1>6, TakeKeeps
  <2> QED
    BY <2>1, <1>1, <1>5
<1>8. turn[t] \in Row(g) /\ g \in 0..g /\ g \in Nat
  BY <1>3, <1>4 DEF Good, Typed
<1>9. /\ turn'[t] = Started(turn[t], g)
      /\ \A u \in Turns : u # t => turn'[u] = turn[u]
  BY <1>1, Types DEF Started
<1>10. /\ Started(turn[t], g).at = "running" /\ Started(turn[t], g).account = a
  BY <1>8, StartedRow
<1>11. Moves(turn, turn', t)
  BY <1>9, <1>10 DEF Moves
<1>12. Books(inflight', waiting', turn')
  <2>1. /\ Counted(inflight, inflight', a, 1) /\ Counted(waiting, waiting', a, 0)
    BY <1>1, <1>2, Types DEF Counted
  <2>2. /\ One(turn'[t].at) - One(turn[t].at) = 1
        /\ Wait(turn'[t].at) - Wait(turn[t].at) = 0
    BY <1>1, <1>9, <1>10 DEF One, Wait
  <2> QED
    BY <2>1, <2>2, <1>2, <1>11, BooksMove DEF Inv
<1>13. /\ Len(gates') = g
       /\ \A k \in 1..g : gates'[k].account = G1[k].account
  BY <1>4, <1>5
<1>14. Pointed(current', gates')
  <2>1. \A b \in Accounts : current'[b] = IF b = a THEN g ELSE current[b]
    BY <1>1, Types
  <2>2. current' \in [Accounts -> 0..g]
    BY <1>1, <1>4, Types
  <2>3. ASSUME NEW b \in Accounts, current'[b] # 0
        PROVE  gates'[current'[b]].account = b
    <3>1. CASE b = a
      BY <3>1, <2>1, <1>4, <1>6, <1>13
    <3>2. CASE b # a
      <4>1. current[b] \in 1..Len(gates) /\ gates[current[b]].account = b
        BY <3>2, <2>1, <2>3, Types DEF Inv, Pointed
      <4>2. G1[current[b]] = gates[current[b]] /\ current[b] \in 1..g
        BY <4>1, <1>4, Types
      <4> QED
        BY <4>1, <4>2, <3>2, <2>1, <1>13
    <3> QED
      BY <3>1, <3>2
  <2> QED
    BY <2>2, <2>3, <1>13 DEF Pointed
<1> QED
  BY <1>1, <1>7, <1>12, <1>14 DEF Inv

(* hold on a gate whose slots are taken.                                   *)
LEMMA QueuesKeeps ==
  ASSUME Inv, NEW t \in Turns, Queue(t)
  PROVE  Inv'
<1> DEFINE a == turn[t].account
           g == current[a]
           r == [turn[t] EXCEPT !.at = "queued", !.gate = g]
<1>1. /\ gates' = [gates EXCEPT ![g].line = Append(@, t)]
      /\ turn' = [turn EXCEPT ![t].at = "queued", ![t].gate = g]
      /\ turn[t].at = "idle" /\ g # 0
      /\ waiting' = [waiting EXCEPT ![a] = @ + 1]
      /\ UNCHANGED <<limit, changes, current, inflight>>
  BY DEF Queue, Fits
<1>2. a \in Accounts /\ turn[t] \in Row(Len(gates)) /\ g \in 0..Len(gates)
  BY Types
<1>3. g \in DOMAIN gates /\ gates[g] \in Gate /\ gates[g].account = a
  <2>1. g \in 1..Len(gates) /\ DOMAIN gates = 1..Len(gates) /\ gates \in Seq(Gate)
    BY <1>1, <1>2, Types
  <2>2. gates[g].account = a
    BY <1>1, <1>2 DEF Inv, Pointed
  <2> QED
    BY <2>1, <2>2
<1>4. Good(gates', turn')
  BY <1>1, <1>3, QueueKeeps DEF Inv
<1>5. turn'[t] = r /\ \A u \in Turns : u # t => turn'[u] = turn[u]
  BY <1>1, Types
<1>6. r.at = "queued" /\ r.account = a
  BY <1>2 DEF Row
<1> HIDE DEF r
<1>7. Moves(turn, turn', t)
  BY <1>5, <1>6 DEF Moves
<1>8. Books(inflight', waiting', turn')
  <2>1. /\ Counted(inflight, inflight', a, 0) /\ Counted(waiting, waiting', a, 1)
    BY <1>1, <1>2, Types DEF Counted
  <2>2. /\ One(turn'[t].at) - One(turn[t].at) = 0
        /\ Wait(turn'[t].at) - Wait(turn[t].at) = 1
    <3>1. turn[t].at = "idle" /\ turn'[t].at = "queued"
      BY <1>1, <1>5, <1>6
    <3> QED
      BY ONLY <3>1 DEF One, Wait
  <2> QED
    BY <2>1, <2>2, <1>2, <1>7, BooksMove DEF Inv
<1>9. /\ Len(gates') = Len(gates)
      /\ \A k \in 1..Len(gates) : gates'[k].account = gates[k].account
  BY <1>1, <1>3, Types
<1>10. Pointed(current', gates')
  BY <1>1, <1>9, Types, PointedKept DEF Inv
<1> QED
  BY <1>1, <1>4, <1>8, <1>10 DEF Inv

(* The request of a queued turn is cancelled.                              *)
LEMMA CancelQueuedKeeps ==
  ASSUME Inv, NEW t \in Turns, CancelQueued(t)
  PROVE  Inv'
<1> DEFINE a == turn[t].account
           g == turn[t].gate
           r == [turn[t] EXCEPT !.at = "done"]
<1>1. /\ gates' = [gates EXCEPT ![g].line = Without(@, t)]
      /\ turn' = [turn EXCEPT ![t].at = "done"]
      /\ turn[t].at = "queued"
      /\ waiting' = [waiting EXCEPT ![a] = @ - 1]
      /\ UNCHANGED <<limit, changes, current, inflight>>
  BY DEF CancelQueued
<1>2. a \in Accounts /\ turn[t] \in Row(Len(gates)) /\ g \in 0..Len(gates)
  BY Types
<1>3. g # 0
  BY <1>1 DEF Inv, Good, Lined
<1>4. g \in DOMAIN gates /\ gates[g] \in Gate
  BY <1>2, <1>3, Types
<1>5. Good(gates', turn')
  BY <1>1, CancelKeeps DEF Inv
<1>6. turn'[t] = r /\ \A u \in Turns : u # t => turn'[u] = turn[u]
  BY <1>1, Types
<1>7. r.at = "done" /\ r.account = a
  BY <1>2 DEF Row
<1> HIDE DEF r
<1>8. Moves(turn, turn', t)
  BY <1>6, <1>7 DEF Moves
<1>9. Books(inflight', waiting', turn')
  <2>1. /\ Counted(inflight, inflight', a, 0) /\ Counted(waiting, waiting', a, 0 - 1)
    BY <1>1, <1>2, Types DEF Counted
  <2>2. /\ One(turn'[t].at) - One(turn[t].at) = 0
        /\ Wait(turn'[t].at) - Wait(turn[t].at) = 0 - 1
    BY <1>1, <1>6, <1>7 DEF One, Wait
  <2> QED
    BY <2>1, <2>2, <1>2, <1>8, BooksMove DEF Inv
<1>10. /\ Len(gates') = Len(gates)
       /\ \A k \in 1..Len(gates) : gates'[k].account = gates[k].account
  BY <1>1, <1>4, Types
<1>11. Pointed(current', gates')
  BY <1>1, <1>10, Types, PointedKept DEF Inv
<1> QED
  BY <1>1, <1>5, <1>9, <1>11 DEF Inv

(* A turn that was given a slot runs, and passes a further free slot on.   *)
LEMMA AdmitKeeps ==
  ASSUME Inv, NEW t \in Turns, Admit(t)
  PROVE  Inv'
<1> DEFINE a == turn[t].account
           g == turn[t].gate
           T1 == [turn EXCEPT ![t].at = "running"]
           r == [turn[t] EXCEPT !.at = "running"]
<1>1. /\ gates' = PassedOn(gates, g)
      /\ turn' = Awake(gates[g], T1)
      /\ turn[t].at = "woken"
      /\ inflight' = [inflight EXCEPT ![a] = @ + 1]
      /\ waiting' = [waiting EXCEPT ![a] = @ - 1]
      /\ UNCHANGED <<limit, changes, current>>
  BY DEF Admit, PassedOn
<1>2. a \in Accounts /\ turn[t] \in Row(Len(gates)) /\ g \in 0..Len(gates)
  BY Types
<1>3. g # 0
  BY <1>1 DEF Inv, Good, Owned
<1>4. g \in DOMAIN gates /\ gates[g] \in Gate
  BY <1>2, <1>3, Types
<1>5. T1[t] = r /\ \A u \in Turns : u # t => T1[u] = turn[u]
  BY Types
<1>6. /\ r \in Row(Len(gates)) /\ r.at = "running"
      /\ r.gate = g /\ r.account = a
  BY <1>2 DEF Row, States
<1> HIDE DEF r
<1>7. T1 \in [Turns -> Row(Len(gates))]
  BY <1>5, <1>6, Types
<1> HIDE DEF T1
<1>8. Moves(turn, T1, t)
  BY <1>5, <1>6 DEF Moves
<1>9. Good(gates, T1)
  BY <1>1, <1>5, <1>6, <1>7, <1>8, AloneKeeps DEF Inv
<1>10. Books(inflight', waiting', T1)
  <2>1. /\ Counted(inflight, inflight', a, 1) /\ Counted(waiting, waiting', a, 0 - 1)
    BY <1>1, <1>2, Types DEF Counted
  <2>2. /\ One(T1[t].at) - One(turn[t].at) = 1
        /\ Wait(T1[t].at) - Wait(turn[t].at) = 0 - 1
    BY <1>1, <1>5, <1>6 DEF One, Wait
  <2> QED
    BY <2>1, <2>2, <1>2, <1>8, BooksMove DEF Inv
<1>11. /\ Good(gates', turn') /\ Len(gates') = Len(gates)
       /\ \A k \in DOMAIN gates : gates'[k].account = gates[k].account
       /\ \A b \in Accounts : /\ Running(turn', b) = Running(T1, b)
                               /\ Pending(turn', b) = Pending(T1, b)
  <2>1. current \in [Accounts -> 0..Len(gates)]
    BY Types
  <2> HIDE DEF g
  <2>2. /\ Good(PassedOn(gates, g), Awake(gates[g], T1))
        /\ Len(PassedOn(gates, g)) = Len(gates)
        /\ \A k \in DOMAIN gates :
             PassedOn(gates, g)[k].account = gates[k].account
        /\ \A b \in Accounts :
             /\ Running(Awake(gates[g], T1), b) = Running(T1, b)
             /\ Pending(Awake(gates[g], T1), b) = Pending(T1, b)
    BY <2>1, <1>4, <1>9, PassKeeps
  <2> QED
    BY <2>2, <1>1
<1>12. Books(inflight', waiting', turn')
  BY <1>10, <1>11, BooksSame
<1>13. Pointed(current', gates')
  BY <1>1, <1>11, Types, PointedKept DEF Inv
<1> QED
  BY <1>1, <1>11, <1>12, <1>13 DEF Inv

(* A turn that holds a slot gives it back, and the slot goes to the head   *)
(* of the line: the common end of Finish and CancelWoken.                  *)
LEMMA GiveBackKeeps ==
  ASSUME Inv, NEW t \in Turns, turn[t].at \in {"running", "woken"},
         turn[t].gate # 0,
         gates' = [gates EXCEPT ![turn[t].gate] = Passed(Returned(@))],
         turn' = Awake(Returned(gates[turn[t].gate]), [turn EXCEPT ![t].at = "done"]),
         Counted(inflight, inflight', turn[t].account, 0 - One(turn[t].at)),
         Counted(waiting, waiting', turn[t].account, 0 - Wait(turn[t].at)),
         UNCHANGED <<limit, changes, current>>
  PROVE  Inv'
<1> DEFINE a == turn[t].account
           g == turn[t].gate
           s1 == Returned(gates[g])
           G1 == [gates EXCEPT ![g] = s1]
           T1 == [turn EXCEPT ![t].at = "done"]
           r == [turn[t] EXCEPT !.at = "done"]
<1>1. a \in Accounts /\ turn[t] \in Row(Len(gates)) /\ g \in 0..Len(gates)
  BY Types
<1>2. g \in DOMAIN gates /\ gates[g] \in Gate
  BY <1>1, Types
<1>3. Good(G1, T1)
  <2>1. Good([gates EXCEPT ![turn[t].gate] = Returned(@)],
             [turn EXCEPT ![t].at = "done"])
    BY LeaveKeeps DEF Inv
  <2> QED
    BY <2>1
<1>4. T1[t] = r /\ \A u \in Turns : u # t => T1[u] = turn[u]
  BY Types
<1>5. r.at = "done" /\ r.account = a
  BY <1>1 DEF Row
<1> HIDE DEF r
<1>6. Moves(turn, T1, t)
  BY <1>4, <1>5 DEF Moves
<1>7. Books(inflight', waiting', T1)
  <2>1. /\ One(T1[t].at) - One(turn[t].at) = 0 - One(turn[t].at)
        /\ Wait(T1[t].at) - Wait(turn[t].at) = 0 - Wait(turn[t].at)
    BY <1>4, <1>5 DEF One, Wait
  <2> QED
    BY <2>1, <1>1, <1>6, BooksMove DEF Inv
<1>8. /\ G1[g] = s1 /\ Len(G1) = Len(gates) /\ DOMAIN G1 = DOMAIN gates
      /\ \A k \in DOMAIN gates : k # g => G1[k] = gates[k]
  BY <1>2, Types
<1>9. s1.account = gates[g].account
  BY <1>2 DEF Returned, Gate
<1>10. gates' = [G1 EXCEPT ![g] = Passed(s1)]
  BY <1>2, Types
<1>11. turn' = Awake(s1, T1)
  OBVIOUS
<1> HIDE DEF G1, T1, s1
<1>12. gates' = PassedOn(G1, g) /\ turn' = Awake(G1[g], T1)
  BY <1>8, <1>10, <1>11 DEF PassedOn
<1>13. current \in [Accounts -> 0..Len(G1)] /\ g \in DOMAIN G1
  BY <1>2, <1>8, Types
<1> HIDE DEF g
<1>14. /\ Good(PassedOn(G1, g), Awake(G1[g], T1))
       /\ Len(PassedOn(G1, g)) = Len(G1)
       /\ \A k \in DOMAIN G1 : PassedOn(G1, g)[k].account = G1[k].account
       /\ \A b \in Accounts : /\ Running(Awake(G1[g], T1), b) = Running(T1, b)
                               /\ Pending(Awake(G1[g], T1), b) = Pending(T1, b)
  BY <1>3, <1>13, PassKeeps
<1>15. /\ Good(gates', turn') /\ Len(gates') = Len(gates)
       /\ \A k \in 1..Len(gates) : gates'[k].account = gates[k].account
       /\ \A b \in Accounts : /\ Running(turn', b) = Running(T1, b)
                               /\ Pending(turn', b) = Pending(T1, b)
  <2>1. \A k \in DOMAIN gates : G1[k].account = gates[k].account
    BY <1>8, <1>9
  <2> QED
    BY <2>1, <1>8, <1>12, <1>14, Types
<1>16. Books(inflight', waiting', turn')
  BY <1>7, <1>15, BooksSame
<1>17. Pointed(current', gates')
  BY <1>15, Types, PointedKept DEF Inv
<1> QED
  BY <1>15, <1>16, <1>17 DEF Inv

(* The request is cancelled after its turn got a slot and before it ran.   *)
LEMMA CancelWokenKeeps ==
  ASSUME Inv, NEW t \in Turns, CancelWoken(t)
  PROVE  Inv'
<1>1. /\ turn[t].at = "woken"
      /\ gates' = [gates EXCEPT ![turn[t].gate] = Passed(Returned(@))]
      /\ turn' = Awake(Returned(gates[turn[t].gate]), [turn EXCEPT ![t].at = "done"])
      /\ waiting' = [waiting EXCEPT ![turn[t].account] = @ - 1]
      /\ UNCHANGED <<limit, changes, current, inflight>>
  BY DEF CancelWoken
<1>2. turn[t].gate # 0
  BY <1>1 DEF Inv, Good, Owned
<1>3. turn[t].account \in Accounts
  BY Types
<1>4. One(turn[t].at) = 0 /\ Wait(turn[t].at) = 1
  BY <1>1 DEF One, Wait
<1>5. /\ Counted(inflight, inflight', turn[t].account, 0 - One(turn[t].at))
      /\ Counted(waiting, waiting', turn[t].account, 0 - Wait(turn[t].at))
  BY <1>1, <1>3, <1>4, Types DEF Counted
<1> QED
  BY <1>1, <1>2, <1>5, GiveBackKeeps

(* A turn ends, however it does.                                           *)
LEMMA FinishKeeps ==
  ASSUME Inv, NEW t \in Turns, Finish(t)
  PROVE  Inv'
<1> DEFINE a == turn[t].account
<1>1. /\ turn[t].at = "running"
      /\ inflight' = [inflight EXCEPT ![a] = @ - 1]
      /\ UNCHANGED <<limit, changes, current, waiting>>
  BY DEF Finish
<1>2. a \in Accounts /\ turn[t] \in Row(Len(gates))
  BY Types
<1>3. One(turn[t].at) = 1 /\ Wait(turn[t].at) = 0
  BY <1>1 DEF One, Wait
<1>4. /\ Counted(inflight, inflight', a, 0 - One(turn[t].at))
      /\ Counted(waiting, waiting', a, 0 - Wait(turn[t].at))
  BY <1>1, <1>2, <1>3, Types DEF Counted
<1>5. CASE turn[t].gate # 0
  BY <1>1, <1>4, <1>5, GiveBackKeeps DEF Finish
<1>6. CASE turn[t].gate = 0
  <2> DEFINE r == [turn[t] EXCEPT !.at = "done"]
  <2>1. turn' = [turn EXCEPT ![t].at = "done"] /\ gates' = gates
    BY <1>6 DEF Finish
  <2>2. turn'[t] = r /\ \A u \in Turns : u # t => turn'[u] = turn[u]
    BY <2>1, Types
  <2>3. /\ r \in Row(Len(gates)) /\ r.at = "done"
        /\ r.gate = turn[t].gate /\ r.account = a
    BY <1>2 DEF Row, States
  <2> HIDE DEF r
  <2>4. Moves(turn, turn', t)
    BY <2>2, <2>3 DEF Moves
  <2>5. turn' \in [Turns -> Row(Len(gates))]
    BY <2>1, <2>2, <2>3, Types
  <2>6. Good(gates, turn')
    BY <1>1, <1>6, <2>2, <2>3, <2>4, <2>5, AloneKeeps DEF Inv
  <2>7. /\ One(turn'[t].at) - One(turn[t].at) = 0 - One(turn[t].at)
        /\ Wait(turn'[t].at) - Wait(turn[t].at) = 0 - Wait(turn[t].at)
    BY <2>2, <2>3 DEF One, Wait
  <2>8. Books(inflight', waiting', turn')
    BY <2>4, <2>7, <1>2, <1>4, BooksMove DEF Inv
  <2> QED
    BY <2>1, <2>6, <2>8, <1>1 DEF Inv
<1> QED
  BY <1>5, <1>6


(* Every step of the program keeps the invariant.                          *)
LEMMA NextInv == Inv /\ [Next]_vars => Inv'
<1> SUFFICES ASSUME Inv, [Next]_vars PROVE Inv'
  OBVIOUS
<1>1. CASE SaveLimit
  BY <1>1, LimitsAssumption, ChangesAssumption DEF SaveLimit, Inv
<1>2. ASSUME NEW t \in Turns, StartUnlimited(t) PROVE Inv'
  BY <1>2, UnlimitedKeeps
<1>3. ASSUME NEW t \in Turns, StartOnNewGate(t) PROVE Inv'
  BY <1>3, OnNewGateKeeps
<1>4. ASSUME NEW t \in Turns, StartOnGate(t) PROVE Inv'
  BY <1>4, OnGateKeeps
<1>5. ASSUME NEW t \in Turns, Queue(t) PROVE Inv'
  BY <1>5, QueuesKeeps
<1>6. ASSUME NEW t \in Turns, Admit(t) PROVE Inv'
  BY <1>6, AdmitKeeps
<1>7. ASSUME NEW t \in Turns, CancelQueued(t) PROVE Inv'
  BY <1>7, CancelQueuedKeeps
<1>8. ASSUME NEW t \in Turns, CancelWoken(t) PROVE Inv'
  BY <1>8, CancelWokenKeeps
<1>9. ASSUME NEW t \in Turns, Finish(t) PROVE Inv'
  BY <1>9, FinishKeeps
<1>10. CASE UNCHANGED vars
  BY <1>10 DEF vars, Inv
<1> QED
  BY <1>1, <1>2, <1>3, <1>4, <1>5, <1>6, <1>7, <1>8, <1>9, <1>10 DEF Next

-----------------------------------------------------------------------------
(* What the invariant says of the books, the slots and the types *)

(* The counters are the sizes of the sets of turns.                        *)
LEMMA InvBooks == Inv => BooksBalance
<1>1. \A a \in Accounts : /\ TurnsOf(a, {"running"}) = Running(turn, a)
                          /\ TurnsOf(a, {"queued", "woken"}) = Pending(turn, a)
  BY DEF TurnsOf, Running, Pending
<1> QED
  BY <1>1 DEF Inv, Books, BooksBalance

(* Each slot is free or held.                                              *)
LEMMA InvSlots == Inv => SlotsAccounted
<1> SUFFICES ASSUME Inv, NEW g \in DOMAIN gates
             PROVE  /\ gates[g].free
                         + Cardinality(OnGate(g, "running") \cup OnGate(g, "woken"))
                          = gates[g].limit
                    /\ \A t \in OnGate(g, "running") \cup OnGate(g, "woken") :
                         turn[t].account = gates[g].account
  BY DEF SlotsAccounted
<1>1. OnGate(g, "running") \cup OnGate(g, "woken") = Users(turn, g)
  BY DEF OnGate, Users
<1>2. g # 0
  BY DEF Inv, Good, Typed
<1>3. \A t \in Users(turn, g) : turn[t].account = gates[g].account
  BY <1>2 DEF Inv, Good, Owned, Users
<1> QED
  BY <1>1, <1>3 DEF Inv, Good, Slots

(* The invariant implies the types.                                        *)
LEMMA InvTypes == Inv => TypeOK
<1> SUFFICES ASSUME Inv PROVE TypeOK
  OBVIOUS
<1>1. /\ gates \in Seq(Gate) /\ DOMAIN gates = 1..Len(gates)
      /\ turn \in [Turns -> Row(Len(gates))]
      /\ current \in [Accounts -> 0..Len(gates)]
  BY DEF Inv, Good, Typed, Pointed
<1>2. ASSUME NEW g \in DOMAIN gates
      PROVE  gates[g].free \in 0..gates[g].limit
  <2>1. gates[g] \in Gate
    BY <1>1
  <2>2. gates[g].free \in Nat /\ gates[g].limit \in Nat
    BY <2>1 DEF Gate
  <2>3. Cardinality(Users(turn, g)) \in Nat
    BY Counts DEF Users
  <2>4. gates[g].free + Cardinality(Users(turn, g)) = gates[g].limit
    BY DEF Inv, Good, Slots
  <2> QED
    BY <2>2, <2>3, <2>4
<1>3. inflight \in [Accounts -> Nat] /\ waiting \in [Accounts -> Nat]
  <2>1. \A a \in Accounts : /\ Cardinality(Running(turn, a)) \in Nat
                            /\ Cardinality(Pending(turn, a)) \in Nat
    BY Counts DEF Running, Pending
  <2> QED
    BY <2>1 DEF Inv, Books
<1> QED
  BY <1>1, <1>2, <1>3 DEF TypeOK, Inv, Gate, Row

-----------------------------------------------------------------------------
(* The theorems *)

(* Every state of the program is a state of the invariant.                 *)
THEOREM Invariance == Spec => []Inv
  BY InitInv, NextInv, PTL DEF Spec

(* The numbers on the dashboard are always those of the turns.             *)
THEOREM Balanced == Spec => []BooksBalance
  BY InvBooks, Invariance, PTL

(* No slot leaks and none is invented.                                     *)
THEOREM Accounted == Spec => []SlotsAccounted
  BY InvSlots, Invariance, PTL

(* The types, and no gate with more free slots than it was made with.      *)
THEOREM TypeCorrect == Spec => []TypeOK
  BY InvTypes, Invariance, PTL

-----------------------------------------------------------------------------
(* The slots *)

(* Every step of a conversation is a step of the slots, or leaves them     *)
(* alone.                                                                  *)
LEMMA SlotSteps == [ChatNext]_chatVars => [Next]_vars
<1> SUFFICES ASSUME [ChatNext]_chatVars PROVE [Next]_vars
  OBVIOUS
<1>1. CASE UNCHANGED chatVars
  BY <1>1 DEF chatVars
<1>2. CASE ChatNext
  <2> SUFFICES ASSUME NEW t \in Turns,
                      \/ Ask(t) \/ WaitForSlot(t) \/ Enter(t) \/ CancelWait(t)
                      \/ Reserve(t) \/ GiveUp(t) \/ Attempt(t)
               PROVE  [Next]_vars
    BY <1>2 DEF ChatNext
  <2>1. CASE Ask(t) \/ Reserve(t) \/ Invoke(t) \/ Empty(t) \/ Heal(t)
    BY <2>1 DEF Ask, Reserve, Invoke, Empty, Heal
  <2>2. CASE WaitForSlot(t)
    BY <2>2 DEF WaitForSlot, Next
  <2>3. CASE Enter(t)
    BY <2>3 DEF Enter, Next
  <2>4. CASE CancelWait(t)
    BY <2>4 DEF CancelWait, Next
  <2>5. CASE GiveUp(t) \/ Answer(t) \/ Break(t)
    BY <2>5 DEF GiveUp, Answer, Break, End, Next
  <2> QED
    BY <2>1, <2>2, <2>3, <2>4, <2>5 DEF Attempt
<1> QED
  BY <1>1, <1>2

(* The invariant of the slots holds with the sessions on top of them.      *)
LEMMA SlotsInvariance == ChatSpec => []Inv
<1>1. ChatInit => Inv
  BY InitInv DEF ChatInit
<1>2. Inv /\ [ChatNext]_chatVars => Inv'
  BY SlotSteps, NextInv
<1> QED
  BY <1>1, <1>2, PTL DEF ChatSpec

(* Under the sessions, too, each slot is free or held by one turn.         *)
THEOREM SlotsKept == ChatSpec => []SlotsAccounted
  BY SlotsInvariance, InvSlots, PTL

(* And the counters of the dashboard are the turns.                        *)
THEOREM BooksKept == ChatSpec => []BooksBalance
  BY SlotsInvariance, InvBooks, PTL

(* The safety part of ImplementsSlots: a conversation uses the slots as    *)
(* AccountTurns says, through every retry, refusal and timeout.            *)
THEOREM SlotsImplemented == ChatSpec => Init /\ [][Next]_vars
<1>1. ChatInit => Init
  BY DEF ChatInit
<1> QED
  BY <1>1, SlotSteps, PTL DEF ChatSpec

-----------------------------------------------------------------------------
(* The inductive invariant *)

Waits == {"new", "asked", "locking"}

Works == {"connecting", "streaming"}

ChatTypes ==
  /\ count \in [Sessions -> Nat]
  /\ line \in [Sessions -> Seq(Turns)]
  /\ upstream \in [Sessions -> Seq(Conversation)]
  /\ req \in [Turns -> Request]
  /\ \A s \in Sessions : Len(upstream[s]) > 0
  /\ \A t \in Turns : req[t].conv \in 0..Len(upstream[req[t].session])

\* The line of a session holds its turns that ask for the lock or have it, each
\* once, and the one that works is the first.
Exclusive ==
  /\ \A s \in Sessions : \A i \in 1..Len(line[s]) :
       /\ req[line[s][i]].session = s
       /\ req[line[s][i]].pc \in Works \cup {"locking"}
       /\ \A j \in 1..Len(line[s]) : line[s][i] = line[s][j] => i = j
  /\ \A t \in Turns :
       LET q == line[req[t].session] IN
       /\ req[t].pc = "locking" => \E i \in 1..Len(q) : q[i] = t
       /\ req[t].pc \in Works => Len(q) > 0 /\ q[1] = t

IsPosted(c, t) == \E i \in 1..Len(c.posted) : c.posted[i] = t

\* A prompt is not yet where it is going to be posted.
Unposted ==
  \A t \in Turns :
    /\ req[t].pc \in Waits =>
         \A n \in 1..Len(upstream[req[t].session]) :
           ~IsPosted(upstream[req[t].session][n], t)
    /\ req[t].pc = "connecting" /\ req[t].conv # 0 =>
         ~IsPosted(upstream[req[t].session][req[t].conv], t)

Knows(s, n, x) == x \in upstream[s][n].knows

\* The first turn of a session, on its way.
Starting(s) ==
  \E q \in Turns :
    /\ req[q].session = s /\ req[q].pc = "connecting" /\ req[q].conv = 1
    /\ req[q].start /\ ~req[q].sent /\ ~req[q].inc

\* Old was brought to the first conversation, or never will be.
Settled(s) == Knows(s, 1, Old) \/ NeverStarted(s, 1)

TurnInformed(t, s) ==
  /\ req[t].prior \subseteq History(s)
  /\ req[t].pc # "new" => Old \in req[t].prior
  /\ req[t].inc \/ req[t].pc \in Works => count[s] > 0
  /\ req[t].pc \in Waits => ~req[t].sent
  /\ req[t].pc = "answered" /\ req[t].conv # 0 => Knows(s, req[t].conv, t)
  /\ req[t].conv = 1
       /\ (req[t].pc \in {"streaming", "answered"}
           \/ (req[t].pc = "connecting" /\ req[t].inc)) => Settled(s)

SessionInformed(s) ==
  IF count[s] = 0 THEN Len(upstream[s]) = 1 ELSE Settled(s) \/ Starting(s)

Informed ==
  \A s \in Sessions :
    /\ SessionInformed(s)
    /\ \A t \in Turns : req[t].session = s => TurnInformed(t, s)

ChatInv == Inv /\ ChatTypes /\ Exclusive /\ Unposted /\ MessageOnce /\ Informed

-----------------------------------------------------------------------------
(* What each action does to the requests and their conversations *)

\* Only the request t changes, from one progress to another.
Moved(t, from, to) ==
  /\ req' \in [Turns -> Request]
  /\ \A u \in Turns \ {t} : req'[u] = req[u]
  /\ req'[t].session = req[t].session
  /\ req[t].pc = from /\ req'[t].pc = to

KeepsPlan(t) == req'[t].inc = req[t].inc /\ req'[t].prior = req[t].prior

KeepsPlace(t) ==
  /\ req'[t].start = req[t].start /\ req'[t].conv = req[t].conv
  /\ req'[t].sent = req[t].sent

(* The session of a request.                                               *)
LEMMA OfSession ==
  ASSUME ChatTypes, NEW t \in Turns
  PROVE  /\ req[t] \in Request /\ req[t].session \in Sessions
         /\ req[t].conv \in Nat /\ req[t].conv <= Len(upstream[req[t].session])
         /\ Len(upstream[req[t].session]) \in Nat \ {0}
         /\ count[req[t].session] \in Nat
         /\ line[req[t].session] \in Seq(Turns)
<1>1. req[t] \in Request
  BY DEF ChatTypes
<1>2. req[t].session \in Sessions
  BY <1>1 DEF Request
<1> QED
  BY <1>1, <1>2 DEF ChatTypes

(* A request arrives.                                                      *)
LEMMA AskDoes ==
  ASSUME ChatTypes, NEW t \in Turns, Ask(t)
  PROVE  /\ Moved(t, "new", "asked") /\ KeepsPlace(t)
         /\ req'[t].inc = (count[req[t].session] > 0)
         /\ req'[t].prior = History(req[t].session)
         /\ UNCHANGED <<count, line, upstream>>
<1> DEFINE h == History(req[t].session)
           i == count[req[t].session] > 0
           r == [req[t] EXCEPT !.pc = "asked", !.inc = i, !.prior = h]
<1>1. req[t] \in Request /\ req \in [Turns -> Request] /\ i \in BOOLEAN
  BY OfSession DEF ChatTypes
<1>2. h \subseteq Turns \cup {Old}
  BY DEF History
<1>3. req' = [req EXCEPT ![t] = r] /\ req[t].pc = "new"
  BY DEF Ask
<1>4. UNCHANGED <<count, line, upstream>>
  BY DEF Ask
<1> HIDE DEF h, i
<1>5. /\ r \in Request /\ r.pc = "asked" /\ r.inc = i /\ r.prior = h
      /\ r.start = req[t].start /\ r.conv = req[t].conv
      /\ r.sent = req[t].sent /\ r.session = req[t].session
  BY <1>1, <1>2 DEF Request, Steps
<1> HIDE DEF r
<1>6. req' \in [Turns -> Request] /\ req'[t] = r /\ \A u \in Turns \ {t} : req'[u] = req[u]
  BY <1>1, <1>3, <1>5
<1> QED
  BY <1>3, <1>4, <1>5, <1>6 DEF Moved, KeepsPlace, h, i

(* Only the progress of a request is set.                                  *)
LEMMA ProgressDoes ==
  ASSUME ChatTypes, NEW t \in Turns, NEW p \in Steps,
         req' = [req EXCEPT ![t].pc = p]
  PROVE  Moved(t, req[t].pc, p) /\ KeepsPlan(t) /\ KeepsPlace(t)
<1> DEFINE r == [req[t] EXCEPT !.pc = p]
<1>1. req[t] \in Request /\ req \in [Turns -> Request]
  BY OfSession DEF ChatTypes
<1>2. /\ r \in Request /\ r.pc = p /\ r.inc = req[t].inc /\ r.prior = req[t].prior
      /\ r.start = req[t].start /\ r.conv = req[t].conv
      /\ r.sent = req[t].sent /\ r.session = req[t].session
  BY <1>1 DEF Request
<1>3. req' = [req EXCEPT ![t] = r]
  OBVIOUS
<1> HIDE DEF r
<1>4. req' \in [Turns -> Request] /\ req'[t] = r /\ \A u \in Turns \ {t} : req'[u] = req[u]
  BY <1>1, <1>2, <1>3
<1> QED
  BY <1>2, <1>4 DEF Moved, KeepsPlan, KeepsPlace

(* A turn is reserved.                                                     *)
LEMMA ReserveDoes ==
  ASSUME ChatTypes, NEW t \in Turns, Reserve(t)
  PROVE  /\ Moved(t, "locking", "connecting") /\ KeepsPlan(t)
         /\ req'[t].start = (count[req[t].session] = 0)
         /\ req'[t].conv = Len(upstream[req[t].session])
         /\ req'[t].sent = req[t].sent
         /\ count' \in [Sessions -> Nat]
         /\ \A s \in Sessions : count'[s] >= count[s]
         /\ \A s \in Sessions \ {req[t].session} : count'[s] = count[s]
         /\ count'[req[t].session] > 0
         /\ UNCHANGED <<line, upstream>>
<1> DEFINE r == Reserved(t)
           s == req[t].session
<1>1. req[t] \in Request /\ req \in [Turns -> Request] /\ s \in Sessions
  BY OfSession DEF ChatTypes
<1>2. Len(upstream[s]) \in Nat
  BY OfSession
<1>3. /\ r \in Request /\ r.pc = "connecting"
      /\ r.inc = req[t].inc /\ r.prior = req[t].prior
      /\ r.start = (count[s] = 0) /\ r.conv = Len(upstream[s])
      /\ r.sent = req[t].sent /\ r.session = req[t].session
  BY <1>1, <1>2 DEF Request, Steps, Reserved
<1>4. /\ req' = [req EXCEPT ![t] = r] /\ req[t].pc = "locking"
      /\ count' = [count EXCEPT ![s] = @ + 1] /\ UNCHANGED <<line, upstream>>
  BY DEF Reserve
<1> HIDE DEF r
<1>5. req' \in [Turns -> Request] /\ req'[t] = r /\ \A u \in Turns \ {t} : req'[u] = req[u]
  BY <1>1, <1>3, <1>4
<1>6. count \in [Sessions -> Nat]
  BY DEF ChatTypes
<1> QED
  BY <1>1, <1>3, <1>4, <1>5, <1>6 DEF Moved, KeepsPlan

(* A turn is sent.                                                         *)
LEMMA InvokeDoes ==
  ASSUME ChatTypes, NEW t \in Turns, Invoke(t)
  PROVE  /\ Moved(t, "connecting", "streaming") /\ KeepsPlan(t)
         /\ req'[t].start = req[t].start /\ req'[t].conv = req[t].conv
         /\ req'[t].sent = (req[t].sent \/ req[t].conv # 0)
         /\ IF req[t].conv = 0 THEN upstream' = upstream
            ELSE upstream' = [upstream EXCEPT ![req[t].session] =
                   [upstream[req[t].session] EXCEPT ![req[t].conv] =
                     Told(upstream[req[t].session][req[t].conv], t)]]
         /\ UNCHANGED <<count, line>>
<1>1. req[t] \in Request /\ req \in [Turns -> Request]
  BY OfSession DEF ChatTypes
<1>2. req[t].pc = "connecting" /\ UNCHANGED <<count, line>>
  BY DEF Invoke
<1>3. CASE req[t].conv = 0
  <2>1. req' = [req EXCEPT ![t].pc = "streaming"] /\ upstream' = upstream
    BY <1>3 DEF Invoke
  <2>2. Moved(t, req[t].pc, "streaming") /\ KeepsPlan(t) /\ KeepsPlace(t)
    BY <2>1, ProgressDoes DEF Steps
  <2>3. req[t].sent \in BOOLEAN
    BY <1>1 DEF Request
  <2> QED
    BY <1>2, <1>3, <2>1, <2>2, <2>3 DEF KeepsPlace
<1>4. CASE req[t].conv # 0
  <2> DEFINE r == [req[t] EXCEPT !.pc = "streaming", !.sent = TRUE]
  <2>1. /\ r \in Request /\ r.pc = "streaming"
        /\ r.inc = req[t].inc /\ r.prior = req[t].prior
        /\ r.start = req[t].start /\ r.conv = req[t].conv
        /\ r.sent = TRUE /\ r.session = req[t].session
    BY <1>1 DEF Request, Steps
  <2>2. /\ req' = [req EXCEPT ![t] = r]
        /\ upstream' = [upstream EXCEPT ![req[t].session] =
             [upstream[req[t].session] EXCEPT ![req[t].conv] =
               Told(upstream[req[t].session][req[t].conv], t)]]
    BY <1>4 DEF Invoke
  <2> HIDE DEF r
  <2>3. req' \in [Turns -> Request] /\ req'[t] = r /\ \A u \in Turns \ {t} : req'[u] = req[u]
    BY <1>1, <2>1, <2>2
  <2> QED
    BY <1>2, <1>4, <2>1, <2>2, <2>3 DEF Moved, KeepsPlan
<1> QED
  BY <1>3, <1>4

(* An empty turn moves to a conversation of its own.                       *)
LEMMA EmptyDoes ==
  ASSUME ChatTypes, NEW t \in Turns, Empty(t)
  PROVE  /\ Moved(t, "streaming", "connecting") /\ KeepsPlan(t)
         /\ req'[t].conv = 0
         /\ UNCHANGED <<count, line, upstream>>
<1> DEFINE r == [req[t] EXCEPT !.pc = "connecting", !.again = TRUE, !.conv = 0]
<1>1. req[t] \in Request /\ req \in [Turns -> Request]
  BY OfSession DEF ChatTypes
<1>2. /\ r \in Request /\ r.pc = "connecting" /\ r.conv = 0
      /\ r.inc = req[t].inc /\ r.prior = req[t].prior /\ r.session = req[t].session
  BY <1>1 DEF Request, Steps
<1>3. /\ req' = [req EXCEPT ![t] = r] /\ req[t].pc = "streaming"
      /\ UNCHANGED <<count, line, upstream>>
  BY DEF Empty
<1> HIDE DEF r
<1>4. req' \in [Turns -> Request] /\ req'[t] = r /\ \A u \in Turns \ {t} : req'[u] = req[u]
  BY <1>1, <1>2, <1>3
<1> QED
  BY <1>2, <1>3, <1>4 DEF Moved, KeepsPlan

(* A refused turn moves to a new conversation of its session.              *)
LEMMA HealDoes ==
  ASSUME ChatTypes, NEW t \in Turns, Heal(t)
  PROVE  /\ Moved(t, "streaming", "connecting") /\ KeepsPlan(t)
         /\ req'[t].conv = Len(upstream[req[t].session]) + 1
         /\ upstream' = [upstream EXCEPT ![req[t].session] =
                           Append(upstream[req[t].session], NewConversation)]
         /\ count' = [count EXCEPT ![req[t].session] = 1]
         /\ UNCHANGED line
<1> DEFINE r == Healed(t)
<1>1. req[t] \in Request /\ req \in [Turns -> Request]
  BY OfSession DEF ChatTypes
<1>2. Len(upstream[req[t].session]) + 1 \in Nat
  BY OfSession
<1>3. /\ r \in Request /\ r.pc = "connecting"
      /\ r.conv = Len(upstream[req[t].session]) + 1
      /\ r.inc = req[t].inc /\ r.prior = req[t].prior /\ r.session = req[t].session
  BY <1>1, <1>2 DEF Request, Steps, Healed
<1>4. /\ req' = [req EXCEPT ![t] = r] /\ req[t].pc = "streaming"
      /\ upstream' = [upstream EXCEPT ![req[t].session] =
                        Append(upstream[req[t].session], NewConversation)]
      /\ count' = [count EXCEPT ![req[t].session] = 1]
      /\ UNCHANGED line
  BY DEF Heal
<1> HIDE DEF r
<1>5. req' \in [Turns -> Request] /\ req'[t] = r /\ \A u \in Turns \ {t} : req'[u] = req[u]
  BY <1>1, <1>3, <1>4
<1> QED
  BY <1>3, <1>4, <1>5 DEF Moved, KeepsPlan

(* A request ends.                                                         *)
LEMMA EndDoes ==
  ASSUME ChatTypes, NEW t \in Turns, NEW p \in Ended, End(t, p)
  PROVE  /\ Moved(t, req[t].pc, p) /\ KeepsPlan(t) /\ KeepsPlace(t)
         /\ line' = [line EXCEPT ![req[t].session] =
                       Without(line[req[t].session], t)]
<1>1. p \in Steps /\ req' = [req EXCEPT ![t].pc = p]
  BY DEF End, Steps
<1>2. Moved(t, req[t].pc, p) /\ KeepsPlan(t) /\ KeepsPlace(t)
  BY <1>1, ProgressDoes
<1> QED
  BY <1>2 DEF End

-----------------------------------------------------------------------------
(* What upstream keeps *)

\* A conversation of session s changes to c.
Changed(s, n, c) ==
  /\ upstream' \in [Sessions -> Seq(Conversation)]
  /\ \A r \in Sessions \ {s} : upstream'[r] = upstream[r]
  /\ Len(upstream'[s]) = Len(upstream[s])
  /\ \A k \in 1..Len(upstream[s]) \ {n} : upstream'[s][k] = upstream[s][k]
  /\ upstream'[s][n] = c

\* No conversation is lost, and none forgets.
Grown ==
  /\ upstream' \in [Sessions -> Seq(Conversation)]
  /\ \A s \in Sessions :
       /\ Len(upstream'[s]) >= Len(upstream[s])
       /\ \A n \in 1..Len(upstream[s]), x \in Turns \cup {Old} :
            Knows(s, n, x) => Knows(s, n, x)'

(* One conversation is replaced in the sequence of its session.            *)
LEMMA ChangedIs ==
  ASSUME ChatTypes, NEW s \in Sessions, NEW n \in 1..Len(upstream[s]),
         NEW c \in Conversation,
         upstream' = [upstream EXCEPT ![s] = [upstream[s] EXCEPT ![n] = c]]
  PROVE  Changed(s, n, c)
<1> DEFINE v == [upstream[s] EXCEPT ![n] = c]
<1>1. upstream \in [Sessions -> Seq(Conversation)] /\ upstream[s] \in Seq(Conversation)
  BY DEF ChatTypes
<1>2. /\ v \in Seq(Conversation) /\ Len(v) = Len(upstream[s]) /\ v[n] = c
      /\ \A k \in 1..Len(upstream[s]) \ {n} : v[k] = upstream[s][k]
  BY <1>1
<1>3. upstream' = [upstream EXCEPT ![s] = v]
  OBVIOUS
<1> HIDE DEF v
<1>4. /\ upstream' \in [Sessions -> Seq(Conversation)] /\ upstream'[s] = v
      /\ \A r \in Sessions \ {s} : upstream'[r] = upstream[r]
  BY <1>1, <1>2, <1>3
<1> QED
  BY <1>2, <1>4 DEF Changed

(* A change that only adds to what is known.                               *)
LEMMA ChangedGrows ==
  ASSUME ChatTypes, NEW s \in Sessions, NEW n \in 1..Len(upstream[s]),
         NEW c \in Conversation, Changed(s, n, c),
         upstream[s][n].knows \subseteq c.knows
  PROVE  Grown
<1>1. ASSUME NEW r \in Sessions
      PROVE  /\ Len(upstream'[r]) >= Len(upstream[r])
             /\ \A k \in 1..Len(upstream[r]), x \in Turns \cup {Old} :
                  Knows(r, k, x) => Knows(r, k, x)'
  <2>1. Len(upstream[r]) \in Nat
    BY DEF ChatTypes
  <2>2. CASE r # s
    BY <2>1, <2>2 DEF Changed, Knows
  <2>3. CASE r = s
    <3>1. Len(upstream'[s]) = Len(upstream[s])
      BY DEF Changed
    <3>2. \A k \in 1..Len(upstream[s]), x \in Turns \cup {Old} :
            x \in upstream[s][k].knows => x \in upstream'[s][k].knows
      BY DEF Changed
    <3> QED
      BY <2>1, <2>3, <3>1, <3>2 DEF Knows
  <2> QED
    BY <2>2, <2>3
<1> QED
  BY <1>1 DEF Changed, Grown

(* What a conversation is told, and what it learns, is of its type.        *)
LEMMA ToldType ==
  ASSUME NEW c \in Conversation, NEW t \in Turns, ChatTypes
  PROVE  /\ Told(c, t) \in Conversation /\ c.knows \subseteq Told(c, t).knows
         /\ Told(c, t).posted = Append(c.posted, t)
         /\ Learned(c, t) \in Conversation /\ c.knows \subseteq Learned(c, t).knows
         /\ Learned(c, t).posted = c.posted /\ t \in Learned(c, t).knows
<1>1. c.posted \in Seq(Turns) /\ c.knows \subseteq Turns \cup {Old}
  BY DEF Conversation
<1>2. Append(c.posted, t) \in Seq(Turns)
  BY <1>1
<1>3. Transcript(t) \subseteq Turns \cup {Old}
  BY OfSession DEF Transcript, Request
<1> QED
  BY <1>1, <1>2, <1>3 DEF Told, Learned, Conversation

(* A turn that is sent on a conversation of its session.                   *)
LEMMA InvokeTells ==
  ASSUME ChatTypes, NEW t \in Turns, Invoke(t), req[t].conv # 0
  PROVE  /\ req[t].conv \in 1..Len(upstream[req[t].session])
         /\ Changed(req[t].session, req[t].conv,
                    Told(upstream[req[t].session][req[t].conv], t))
         /\ Grown
<1> DEFINE s == req[t].session
           n == req[t].conv
           c == Told(upstream[s][n], t)
<1>1. s \in Sessions /\ n \in 1..Len(upstream[s])
  BY OfSession
<1>2. upstream[s][n] \in Conversation
  BY <1>1 DEF ChatTypes
<1>3. c \in Conversation /\ upstream[s][n].knows \subseteq c.knows
  BY <1>2, ToldType
<1>4. upstream' = [upstream EXCEPT ![s] = [upstream[s] EXCEPT ![n] = c]]
  BY InvokeDoes
<1> HIDE DEF c, s, n
<1>5. Changed(s, n, c)
  BY <1>1, <1>3, <1>4, ChangedIs
<1>6. Grown
  BY <1>1, <1>3, <1>5, ChangedGrows
<1> QED
  BY <1>1, <1>5, <1>6 DEF s, n, c

(* A turn that is answered by a conversation of its session.               *)
LEMMA AnswerTells ==
  ASSUME ChatTypes, NEW t \in Turns, Answer(t), req[t].conv # 0
  PROVE  /\ req[t].conv \in 1..Len(upstream[req[t].session])
         /\ Changed(req[t].session, req[t].conv,
                    Learned(upstream[req[t].session][req[t].conv], t))
         /\ Grown
<1> DEFINE s == req[t].session
           n == req[t].conv
           c == Learned(upstream[s][n], t)
<1>1. s \in Sessions /\ n \in 1..Len(upstream[s])
  BY OfSession
<1>2. upstream[s][n] \in Conversation
  BY <1>1 DEF ChatTypes
<1>3. c \in Conversation /\ upstream[s][n].knows \subseteq c.knows
  BY <1>2, ToldType
<1>4. upstream' = [upstream EXCEPT ![s] = [upstream[s] EXCEPT ![n] = c]]
  BY DEF Answer
<1> HIDE DEF c, s, n
<1>5. Changed(s, n, c)
  BY <1>1, <1>3, <1>4, ChangedIs
<1>6. Grown
  BY <1>1, <1>3, <1>5, ChangedGrows
<1> QED
  BY <1>1, <1>5, <1>6 DEF s, n, c

(* A healed session has one more conversation.                             *)
LEMMA HealAdds ==
  ASSUME ChatTypes, NEW t \in Turns, Heal(t)
  PROVE  /\ Grown
         /\ \A s \in Sessions \ {req[t].session} : upstream'[s] = upstream[s]
         /\ LET u == upstream[req[t].session] IN
            /\ Len(upstream'[req[t].session]) = Len(u) + 1
            /\ upstream'[req[t].session][Len(u) + 1] = NewConversation
            /\ \A n \in 1..Len(u) : upstream'[req[t].session][n] = u[n]
<1> DEFINE s == req[t].session
           u == upstream[s]
           v == Append(u, NewConversation)
<1>1. /\ s \in Sessions /\ upstream \in [Sessions -> Seq(Conversation)]
      /\ u \in Seq(Conversation) /\ Len(u) \in Nat
  BY OfSession DEF ChatTypes
<1>2. NewConversation \in Conversation
  BY DEF NewConversation, Conversation
<1>3. /\ v \in Seq(Conversation) /\ Len(v) = Len(u) + 1
      /\ v[Len(u) + 1] = NewConversation /\ \A n \in 1..Len(u) : v[n] = u[n]
  BY <1>1, <1>2
<1>4. upstream' = [upstream EXCEPT ![s] = v]
  BY HealDoes
<1> HIDE DEF v
<1>5. /\ upstream' \in [Sessions -> Seq(Conversation)] /\ upstream'[s] = v
      /\ \A r \in Sessions \ {s} : upstream'[r] = upstream[r]
  BY <1>1, <1>3, <1>4
<1>6. Grown
  <2>1. ASSUME NEW r \in Sessions
        PROVE  /\ Len(upstream'[r]) >= Len(upstream[r])
               /\ \A n \in 1..Len(upstream[r]) : upstream'[r][n] = upstream[r][n]
    <3>1. Len(upstream[r]) \in Nat
      BY DEF ChatTypes
    <3>2. CASE r = s
      BY <3>1, <3>2, <1>3, <1>5
    <3>3. CASE r # s
      BY <3>1, <3>3, <1>5
    <3> QED
      BY <3>2, <3>3
  <2> QED
    BY <2>1, <1>5 DEF Grown, Knows
<1> QED
  BY <1>3, <1>5, <1>6

(* Where nothing changes, nothing is lost.                                 *)
LEMMA SameGrows ==
  ASSUME ChatTypes, upstream' = upstream
  PROVE  Grown
<1>1. \A s \in Sessions : Len(upstream[s]) \in Nat
  BY DEF ChatTypes
<1> QED
  BY <1>1 DEF ChatTypes, Grown, Knows

(* Upstream only ever learns.                                              *)
LEMMA StepGrows ==
  ASSUME ChatTypes, NEW t \in Turns,
         \/ Ask(t) \/ WaitForSlot(t) \/ Enter(t) \/ CancelWait(t)
         \/ Reserve(t) \/ GiveUp(t) \/ Attempt(t)
  PROVE  Grown
<1>1. CASE upstream' = upstream
  BY <1>1, SameGrows
<1>2. CASE Ask(t) \/ WaitForSlot(t) \/ Enter(t) \/ CancelWait(t)
           \/ Reserve(t) \/ GiveUp(t) \/ Empty(t) \/ Break(t)
  BY <1>2, SameGrows
    DEF Ask, WaitForSlot, Enter, CancelWait, Reserve, GiveUp, Empty, Break
<1>3. CASE Invoke(t)
  BY <1>1, <1>3, InvokeTells, InvokeDoes
<1>4. CASE Answer(t)
  BY <1>1, <1>4, AnswerTells DEF Answer
<1>5. CASE Heal(t)
  BY <1>5, HealAdds
<1> QED
  BY <1>2, <1>3, <1>4, <1>5 DEF Attempt

-----------------------------------------------------------------------------
(* Types *)

(* What is left to show of a step's types.                                 *)
LEMMA TypesFrom ==
  ASSUME ChatTypes, Grown, NEW t \in Turns, NEW p, NEW q, Moved(t, p, q),
         count' \in [Sessions -> Nat], line' \in [Sessions -> Seq(Turns)],
         req'[t].conv <= Len(upstream'[req[t].session])
  PROVE  ChatTypes'
<1>1. \A s \in Sessions : /\ Len(upstream[s]) \in Nat \ {0}
                          /\ Len(upstream'[s]) \in Nat
                          /\ Len(upstream'[s]) >= Len(upstream[s])
  BY DEF ChatTypes, Grown
<1>2. ASSUME NEW u \in Turns
      PROVE  req'[u].conv \in 0..Len(upstream'[req'[u].session])
  <2>1. /\ req[u].session \in Sessions /\ req[u].conv \in Nat
        /\ req[u].conv <= Len(upstream[req[u].session])
    BY OfSession
  <2>2. req'[u] \in Request /\ req'[u].conv \in Nat
    BY DEF Moved, Request
  <2>3. CASE u # t
    BY <1>1, <2>1, <2>3 DEF Moved
  <2>4. CASE u = t
    BY <1>1, <2>1, <2>2, <2>4 DEF Moved
  <2> QED
    BY <2>3, <2>4
<1> QED
  BY <1>1, <1>2 DEF Moved, Grown, ChatTypes

(* A line that a turn joins.                                               *)
LEMMA EnterDoes ==
  ASSUME ChatTypes, NEW t \in Turns, Enter(t)
  PROVE  /\ Moved(t, "asked", "locking") /\ KeepsPlan(t) /\ KeepsPlace(t)
         /\ line' \in [Sessions -> Seq(Turns)]
         /\ \A s \in Sessions \ {req[t].session} : line'[s] = line[s]
         /\ line'[req[t].session] = Append(line[req[t].session], t)
         /\ UNCHANGED <<count, upstream>>
<1> DEFINE s == req[t].session
           l == Append(line[s], t)
<1>1. /\ req[t].pc = "asked" /\ req' = [req EXCEPT ![t].pc = "locking"]
      /\ line' = [line EXCEPT ![s] = l] /\ UNCHANGED <<count, upstream>>
  BY DEF Enter
<1>2. s \in Sessions /\ line \in [Sessions -> Seq(Turns)] /\ line[s] \in Seq(Turns)
  BY OfSession DEF ChatTypes
<1>3. l \in Seq(Turns)
  BY <1>2
<1> HIDE DEF l
<1>4. /\ line' \in [Sessions -> Seq(Turns)] /\ line'[s] = l
      /\ \A r \in Sessions \ {s} : line'[r] = line[r]
  BY <1>1, <1>2, <1>3
<1>5. Moved(t, req[t].pc, "locking") /\ KeepsPlan(t) /\ KeepsPlace(t)
  BY <1>1, ProgressDoes DEF Steps
<1> QED
  BY <1>1, <1>4, <1>5 DEF l

\* A turn leaves the line of its session, where it stood at k.
Left(t, k) ==
  LET q == line[req[t].session]
      r == line'[req[t].session]
  IN
  /\ k \in 1..Len(q) /\ q[k] = t
  /\ line' \in [Sessions -> Seq(Turns)]
  /\ \A s \in Sessions \ {req[t].session} : line'[s] = line[s]
  /\ Len(r) = Len(q) - 1
  /\ \A j \in 1..Len(r) : r[j] = IF j < k THEN q[j] ELSE q[j + 1]

(* A line that a turn leaves: it stood there once.                         *)
LEMMA LineLeft ==
  ASSUME ChatTypes, Exclusive, NEW t \in Turns,
         req[t].pc \in Works \cup {"locking"},
         line' = [line EXCEPT ![req[t].session] = Without(line[req[t].session], t)]
  PROVE  \E k \in Nat : Left(t, k)
<1> DEFINE s == req[t].session
           q == line[s]
           w == Without(q, t)
<1>1. /\ s \in Sessions /\ line \in [Sessions -> Seq(Turns)]
      /\ q \in Seq(Turns) /\ Len(q) \in Nat
  BY OfSession DEF ChatTypes
<1>2. PICK k \in 1..Len(q) : q[k] = t
  <2>1. CASE req[t].pc = "locking"
    BY <2>1 DEF Exclusive
  <2>2. CASE req[t].pc \in Works
    BY <1>1, <2>2 DEF Exclusive
  <2> QED
    BY <2>1, <2>2
<1>3. \A i \in 1..Len(q) : q[i] = q[k] => i = k
  BY <1>1, <1>2 DEF Exclusive
<1>4. /\ w \in Seq(Turns) /\ Len(w) = Len(q) - 1
      /\ \A j \in 1..(Len(q) - 1) : w[j] = IF j < k THEN q[j] ELSE q[j + 1]
  <2> HIDE DEF q
  <2> QED
    BY <1>1, <1>2, <1>3, WithoutIs
<1>5. line' = [line EXCEPT ![s] = w]
  OBVIOUS
<1> HIDE DEF w
<1>6. /\ line' \in [Sessions -> Seq(Turns)] /\ line'[s] = w
      /\ \A r \in Sessions \ {s} : line'[r] = line[r]
  BY <1>1, <1>4, <1>5
<1> QED
  BY <1>2, <1>4, <1>6 DEF Left

(* Every step keeps the types.                                             *)
LEMMA TypesKept ==
  ASSUME ChatTypes, Exclusive, NEW t \in Turns,
         \/ Ask(t) \/ WaitForSlot(t) \/ Enter(t) \/ CancelWait(t)
         \/ Reserve(t) \/ GiveUp(t) \/ Attempt(t)
  PROVE  ChatTypes'
<1>1. Grown
  BY StepGrows
<1>2. count \in [Sessions -> Nat] /\ line \in [Sessions -> Seq(Turns)]
  BY DEF ChatTypes
<1>3. /\ req[t].session \in Sessions /\ req[t].conv \in Nat
      /\ req[t].conv <= Len(upstream[req[t].session])
      /\ Len(upstream[req[t].session]) \in Nat
      /\ Len(upstream'[req[t].session]) \in Nat
      /\ Len(upstream'[req[t].session]) >= Len(upstream[req[t].session])
  BY <1>1, OfSession DEF Grown
<1>4. CASE Ask(t)
  BY <1>1, <1>2, <1>3, <1>4, AskDoes, TypesFrom DEF KeepsPlace
<1>5. CASE WaitForSlot(t)
  BY <1>5 DEF WaitForSlot, ChatTypes
<1>6. CASE Enter(t)
  BY <1>1, <1>2, <1>3, <1>6, EnterDoes, TypesFrom DEF KeepsPlace
<1>7. CASE CancelWait(t)
  <2>1. /\ req' = [req EXCEPT ![t].pc = "failed"]
        /\ UNCHANGED <<count, line, upstream>>
    BY <1>7 DEF CancelWait
  <2>2. Moved(t, req[t].pc, "failed") /\ KeepsPlace(t)
    BY <2>1, ProgressDoes DEF Steps, Ended
  <2> QED
    BY <1>1, <1>2, <1>3, <2>1, <2>2, TypesFrom DEF KeepsPlace
<1>8. CASE Reserve(t)
  BY <1>1, <1>2, <1>3, <1>8, ReserveDoes, TypesFrom
<1>9. ASSUME NEW p \in Ended, End(t, p), count' = count,
             req[t].pc \in Works \cup {"locking"}
      PROVE  ChatTypes'
  <2>1. /\ Moved(t, req[t].pc, p) /\ KeepsPlace(t)
        /\ line' = [line EXCEPT ![req[t].session] =
                       Without(line[req[t].session], t)]
    BY <1>9, EndDoes
  <2>2. line' \in [Sessions -> Seq(Turns)]
    BY <1>9, <2>1, LineLeft DEF Left
  <2>3. /\ req'[t].conv <= Len(upstream'[req[t].session])
        /\ count' \in [Sessions -> Nat]
    BY <1>2, <1>3, <1>9, <2>1 DEF KeepsPlace
  <2>4. PICK o : o = req[t].pc
    OBVIOUS
  <2>5. Moved(t, o, p)
    BY <2>1, <2>4
  <2> QED
    BY ONLY ChatTypes, t \in Turns, <1>1, <2>2, <2>3, <2>5, TypesFrom
<1>10. CASE GiveUp(t) \/ Answer(t) \/ Break(t)
  BY <1>9, <1>10 DEF GiveUp, Answer, Break, Ended, Works
<1>11. CASE Invoke(t)
  <2>1. /\ Moved(t, "connecting", "streaming") /\ req'[t].conv = req[t].conv
        /\ UNCHANGED <<count, line>>
    BY <1>11, InvokeDoes
  <2>2. /\ count' \in [Sessions -> Nat] /\ line' \in [Sessions -> Seq(Turns)]
        /\ req'[t].conv <= Len(upstream'[req[t].session])
    BY <1>2, <1>3, <2>1
  <2>3. PICK o, p : Moved(t, o, p)
    BY <2>1
  <2> QED
    BY ONLY ChatTypes, t \in Turns, <1>1, <2>2, <2>3, TypesFrom
<1>12. CASE Empty(t)
  BY <1>1, <1>2, <1>3, <1>12, EmptyDoes, TypesFrom
<1>13. CASE Heal(t)
  <2>1. count' \in [Sessions -> Nat] /\ line' \in [Sessions -> Seq(Turns)]
    <3>1. count' = [count EXCEPT ![req[t].session] = 1]
          /\ line' = line
      BY <1>13, HealDoes
    <3> QED
      BY ONLY <1>2, <3>1
  <2>2. req'[t].conv <= Len(upstream'[req[t].session])
    <3>1. req'[t].conv = Len(upstream'[req[t].session])
      BY <1>13, HealDoes, HealAdds
    <3> QED
      BY <3>1, <1>3
  <2>3. PICK o, p : Moved(t, o, p)
    BY <1>13, HealDoes
  <2> QED
    BY ONLY ChatTypes, t \in Turns, <1>1, <2>1, <2>2, <2>3, TypesFrom
<1> QED
  BY <1>4, <1>5, <1>6, <1>7, <1>8, <1>10, <1>11, <1>12, <1>13 DEF Attempt

-----------------------------------------------------------------------------
(* The lock of a session *)

(* A turn that stays in its line, or outside of it.                        *)
LEMMA ExclusiveSame ==
  ASSUME ChatTypes, Exclusive, NEW t \in Turns, NEW p, NEW q, Moved(t, p, q),
         line' = line,
         \/ p \in {"new", "asked"} /\ q \in {"asked", "failed"}
         \/ /\ p \in Works \cup {"locking"} /\ q \in Works
            /\ Len(line[req[t].session]) > 0 /\ line[req[t].session][1] = t
  PROVE  Exclusive'
<1>1. /\ \A u \in Turns : req'[u].session = req[u].session
      /\ \A u \in Turns : u # t => req'[u].pc = req[u].pc
      /\ req[t].pc = p /\ req'[t].pc = q
  BY DEF Moved
<1>2. ASSUME NEW s \in Sessions, NEW i \in 1..Len(line[s])
      PROVE  /\ req'[line[s][i]].session = s
             /\ req'[line[s][i]].pc \in Works \cup {"locking"}
             /\ \A j \in 1..Len(line[s]) : line[s][i] = line[s][j] => i = j
  <2>1. line[s][i] \in Turns
    BY DEF ChatTypes
  <2>2. /\ req[line[s][i]].session = s
        /\ req[line[s][i]].pc \in Works \cup {"locking"}
        /\ \A j \in 1..Len(line[s]) : line[s][i] = line[s][j] => i = j
    BY DEF Exclusive
  <2>3. line[s][i] = t => q \in Works
    BY <1>1, <2>2 DEF Works
  <2> QED
    BY <1>1, <2>1, <2>2, <2>3
<1>3. ASSUME NEW u \in Turns
      PROVE  LET l == line[req'[u].session] IN
             /\ req'[u].pc = "locking" => \E i \in 1..Len(l) : l[i] = u
             /\ req'[u].pc \in Works => Len(l) > 0 /\ l[1] = u
  <2>1. CASE u = t
    BY <1>1, <2>1 DEF Works
  <2>2. CASE u # t
    BY <1>1, <2>2 DEF Exclusive
  <2> QED
    BY <2>1, <2>2
<1> QED
  BY <1>2, <1>3 DEF Exclusive

(* A turn joins the line.                                                  *)
LEMMA ExclusiveEnter ==
  ASSUME ChatTypes, Exclusive, NEW t \in Turns, Enter(t)
  PROVE  Exclusive'
<1> DEFINE s == req[t].session
           q == line[s]
           r == line'[s]
<1>1. /\ \A u \in Turns : req'[u].session = req[u].session
      /\ \A u \in Turns : u # t => req'[u].pc = req[u].pc
      /\ req[t].pc = "asked" /\ req'[t].pc = "locking"
      /\ \A o \in Sessions \ {s} : line'[o] = line[o]
      /\ r = Append(q, t) /\ s \in Sessions /\ q \in Seq(Turns)
  BY EnterDoes, OfSession DEF Moved
<1>2. /\ Len(q) \in Nat /\ Len(r) = Len(q) + 1 /\ r[Len(r)] = t
      /\ \A i \in 1..Len(q) : r[i] = q[i]
  <2> HIDE DEF q, r
  <2> QED
    BY <1>1
<1>3. ASSUME NEW o \in Sessions, NEW i \in 1..Len(line[o])
      PROVE  /\ line[o][i] \in Turns /\ line[o][i] # t
             /\ req[line[o][i]].session = o
             /\ req[line[o][i]].pc \in Works \cup {"locking"}
             /\ \A j \in 1..Len(line[o]) : line[o][i] = line[o][j] => i = j
  <2>1. line[o] \in Seq(Turns)
    BY DEF ChatTypes
  <2>2. /\ req[line[o][i]].session = o
        /\ req[line[o][i]].pc \in Works \cup {"locking"}
        /\ \A j \in 1..Len(line[o]) : line[o][i] = line[o][j] => i = j
    BY DEF Exclusive
  <2>3. line[o][i] # t
    BY <1>1, <2>2 DEF Works
  <2> QED
    BY <2>1, <2>2, <2>3
<1>4. ASSUME NEW o \in Sessions, NEW i \in 1..Len(line'[o])
      PROVE  /\ req'[line'[o][i]].session = o
             /\ req'[line'[o][i]].pc \in Works \cup {"locking"}
             /\ \A j \in 1..Len(line'[o]) : line'[o][i] = line'[o][j] => i = j
  <2>1. CASE o # s
    BY <1>1, <1>3, <2>1
  <2>2. CASE o = s /\ i = Len(r)
    <3>1. \A j \in 1..Len(q) : q[j] # t
      BY <1>1, <1>3
    <3>2. \A j \in 1..Len(r) : r[j] = t => j = Len(r)
      <4> HIDE DEF q, r
      <4> QED
        BY <1>2, <3>1
    <3> QED
      BY <1>1, <1>2, <2>2, <3>2
  <2>3. CASE o = s /\ i # Len(r)
    <3>1. i \in 1..Len(q) /\ r[i] = q[i]
      BY <1>2, <2>3
    <3>2. /\ q[i] \in Turns /\ q[i] # t /\ req[q[i]].session = s
          /\ req[q[i]].pc \in Works \cup {"locking"}
          /\ \A j \in 1..Len(q) : q[i] = q[j] => i = j
      BY <1>1, <1>3, <3>1
    <3>3. \A j \in 1..Len(r) : r[i] = r[j] => i = j
      <4> HIDE DEF q, r
      <4> QED
        BY <1>2, <3>1, <3>2
    <3> HIDE DEF q
    <3> QED
      BY <1>1, <2>3, <3>1, <3>2, <3>3
  <2> QED
    BY <2>1, <2>2, <2>3
<1>5. ASSUME NEW u \in Turns
      PROVE  LET l == line'[req'[u].session] IN
             /\ req'[u].pc = "locking" => \E i \in 1..Len(l) : l[i] = u
             /\ req'[u].pc \in Works => Len(l) > 0 /\ l[1] = u
  <2>1. CASE u = t
    <3>1. \E i \in 1..Len(r) : r[i] = t
      <4> HIDE DEF q, r
      <4> QED
        BY <1>2
    <3> QED
      BY <1>1, <2>1, <3>1 DEF Works
  <2>2. CASE u # t /\ req[u].session # s
    BY <1>1, <2>2, OfSession DEF Exclusive
  <2>3. CASE u # t /\ req[u].session = s
    <3>1. /\ req[u].pc = "locking" => \E i \in 1..Len(q) : q[i] = u
          /\ req[u].pc \in Works => Len(q) > 0 /\ q[1] = u
      BY <2>3 DEF Exclusive
    <3> HIDE DEF q, r
    <3>2. /\ req[u].pc = "locking" => \E i \in 1..Len(r) : r[i] = u
          /\ req[u].pc \in Works => Len(r) > 0 /\ r[1] = u
      BY <1>2, <3>1
    <3> QED
      BY <1>1, <2>3, <3>2 DEF r
  <2> QED
    BY <2>1, <2>2, <2>3
<1> QED
  BY <1>4, <1>5 DEF Exclusive

(* A turn leaves the line and ends.                                        *)
LEMMA ExclusiveLeft ==
  ASSUME ChatTypes, Exclusive, NEW t \in Turns, NEW p, NEW k \in Nat,
         NEW e \in Ended, Moved(t, p, e), Left(t, k)
  PROVE  Exclusive'
<1> DEFINE s == req[t].session
           q == line[s]
           r == line'[s]
           B(j) == IF j < k THEN j ELSE j + 1
<1>1. /\ \A u \in Turns : req'[u].session = req[u].session
      /\ \A u \in Turns : u # t => req'[u].pc = req[u].pc
      /\ req'[t].pc \notin Works \cup {"locking"}
      /\ \A o \in Sessions \ {s} : line'[o] = line[o]
      /\ s \in Sessions
  BY OfSession DEF Moved, Left, Works, Ended
<1>2. /\ Len(q) \in Nat /\ Len(r) = Len(q) - 1 /\ k \in 1..Len(q) /\ q[k] = t
      /\ \A j \in 1..Len(r) : r[j] = IF j < k THEN q[j] ELSE q[j + 1]
  BY OfSession DEF Left
<1>3. ASSUME NEW o \in Sessions, NEW i \in 1..Len(line[o])
      PROVE  /\ line[o][i] \in Turns
             /\ req[line[o][i]].session = o
             /\ req[line[o][i]].pc \in Works \cup {"locking"}
             /\ \A j \in 1..Len(line[o]) : line[o][i] = line[o][j] => i = j
  <2>1. line[o] \in Seq(Turns)
    BY DEF ChatTypes
  <2> QED
    BY <2>1 DEF Exclusive
<1>4. \A j \in 1..Len(r) : B(j) \in 1..Len(q) /\ B(j) # k /\ r[j] = q[B(j)]
  <2> HIDE DEF q, r
  <2> QED
    BY <1>2
<1>5. \A i, j \in 1..Len(r) : B(i) = B(j) => i = j
  BY <1>2
<1> HIDE DEF B
<1>6. ASSUME NEW o \in Sessions, NEW i \in 1..Len(line'[o])
      PROVE  /\ req'[line'[o][i]].session = o
             /\ req'[line'[o][i]].pc \in Works \cup {"locking"}
             /\ \A j \in 1..Len(line'[o]) : line'[o][i] = line'[o][j] => i = j
  <2>1. CASE o # s
    <3>1. line[o][i] # t
      BY <1>1, <1>3, <2>1
    <3> QED
      BY <1>1, <1>3, <2>1, <3>1
  <2>2. CASE o = s
    <3>1. i \in 1..Len(r)
      BY <2>2
    <3>2. /\ r[i] \in Turns /\ r[i] # t /\ req[r[i]].session = s
          /\ req[r[i]].pc \in Works \cup {"locking"}
      <4>1. PICK b \in 1..Len(q) : b # k /\ r[i] = q[b]
        BY <1>4, <3>1
      <4>2. /\ q[b] \in Turns /\ req[q[b]].session = s
            /\ req[q[b]].pc \in Works \cup {"locking"}
            /\ \A j \in 1..Len(q) : q[b] = q[j] => b = j
        BY <1>1, <1>3
      <4>3. q[b] # t
        BY <1>2, <4>1, <4>2
      <4> HIDE DEF q, r
      <4> QED
        BY <4>1, <4>2, <4>3
    <3>3. ASSUME NEW j \in 1..Len(r), r[i] = r[j] PROVE i = j
      <4>1. q[B(i)] = q[B(j)] /\ B(i) \in 1..Len(q) /\ B(j) \in 1..Len(q)
        BY <1>4, <3>1, <3>3
      <4>2. B(i) = B(j)
        <5>1. \A a, b \in 1..Len(q) : q[a] = q[b] => a = b
          BY <1>1, <1>3
        <5> HIDE DEF q, r, B
        <5> QED
          BY ONLY <5>1, <4>1
      <4> QED
        BY <1>5, <3>1, <4>2
    <3>4. /\ line'[o] = r /\ req'[r[i]].session = req[r[i]].session
          /\ req'[r[i]].pc = req[r[i]].pc
      BY <1>1, <2>2, <3>2
    <3> HIDE DEF q, r
    <3>5. /\ req'[line'[o][i]].session = o
          /\ req'[line'[o][i]].pc \in Works \cup {"locking"}
      BY ONLY <3>2, <3>4, <2>2
    <3>6. \A j \in 1..Len(line'[o]) : line'[o][i] = line'[o][j] => i = j
      BY ONLY <3>3, <3>4
    <3> QED
      BY <3>5, <3>6
  <2> QED
    BY <2>1, <2>2
<1>7. ASSUME NEW u \in Turns
      PROVE  LET l == line'[req'[u].session] IN
             /\ req'[u].pc = "locking" => \E i \in 1..Len(l) : l[i] = u
             /\ req'[u].pc \in Works => Len(l) > 0 /\ l[1] = u
  <2>1. CASE u = t
    BY <1>1, <2>1
  <2>2. CASE u # t /\ req[u].session # s
    <3>1. /\ req'[u].session = req[u].session /\ req'[u].pc = req[u].pc
          /\ req[u].session \in Sessions
      BY <1>1, <2>2, OfSession
    <3>2. line'[req[u].session] = line[req[u].session]
      BY ONLY <1>1, <2>2, <3>1
    <3>3. LET l == line[req[u].session] IN
          /\ req[u].pc = "locking" => \E i \in 1..Len(l) : l[i] = u
          /\ req[u].pc \in Works => Len(l) > 0 /\ l[1] = u
      BY DEF Exclusive
    <3> QED
      BY ONLY <3>1, <3>2, <3>3
  <2>3. CASE u # t /\ req[u].session = s
    <3>1. /\ req[u].pc = "locking" => \E i \in 1..Len(q) : q[i] = u
          /\ req[u].pc \in Works => Len(q) > 0 /\ q[1] = u
      BY <2>3 DEF Exclusive
    <3> HIDE DEF q, r
    <3>2. ASSUME NEW i \in 1..Len(q), q[i] = u
          PROVE  \E j \in 1..Len(r) : r[j] = u /\ (i = 1 => j = 1)
      <4>1. CASE i < k
        <5>1. i \in 1..Len(r) /\ r[i] = u
          BY <1>2, <3>2, <4>1
        <5> QED
          BY <5>1
      <4>2. CASE i > k
        <5>1. i - 1 \in 1..Len(r) /\ r[i - 1] = u /\ i # 1
          BY <1>2, <3>2, <4>2
        <5> QED
          BY <5>1
      <4> QED
        BY <1>2, <2>3, <3>2, <4>1, <4>2
    <3>3. /\ req[u].pc = "locking" => \E i \in 1..Len(r) : r[i] = u
          /\ req[u].pc \in Works => Len(r) > 0 /\ r[1] = u
      BY <1>2, <3>1, <3>2
    <3> QED
      BY <1>1, <2>3, <3>3 DEF r
  <2> QED
    BY <2>1, <2>2, <2>3
<1> QED
  BY <1>6, <1>7 DEF Exclusive

(* Every step keeps the lock exclusive, whoever gives up, fails or leaves. *)
LEMMA ExclusiveKept ==
  ASSUME ChatTypes, Exclusive, NEW t \in Turns,
         \/ Ask(t) \/ WaitForSlot(t) \/ Enter(t) \/ CancelWait(t)
         \/ Reserve(t) \/ GiveUp(t) \/ Attempt(t)
  PROVE  Exclusive'
<1>1. CASE Ask(t)
  BY <1>1, AskDoes, ExclusiveSame
<1>2. CASE WaitForSlot(t)
  BY <1>2 DEF WaitForSlot, Exclusive
<1>3. CASE Enter(t)
  BY <1>3, ExclusiveEnter
<1>4. CASE CancelWait(t)
  <2>1. req' = [req EXCEPT ![t].pc = "failed"] /\ req[t].pc = "asked" /\ line' = line
    BY <1>4 DEF CancelWait
  <2>2. Moved(t, "asked", "failed")
    BY <2>1, ProgressDoes DEF Steps, Ended
  <2> QED
    BY <2>1, <2>2, ExclusiveSame
<1>5. CASE Reserve(t)
  <2>1. /\ Moved(t, "locking", "connecting") /\ line' = line
        /\ req[t].pc = "locking" /\ Head(line[req[t].session]) = t
    BY <1>5, ReserveDoes DEF Reserve
  <2>2. Len(line[req[t].session]) > 0 /\ line[req[t].session][1] = t
    <3>1. line[req[t].session] \in Seq(Turns)
      BY OfSession
    <3>2. \E i \in 1..Len(line[req[t].session]) : line[req[t].session][i] = t
      BY <2>1 DEF Exclusive
    <3> QED
      BY <2>1, <3>1, <3>2
  <2> QED
    BY <2>1, <2>2, ExclusiveSame DEF Works
<1>6. ASSUME NEW e \in Ended, End(t, e), req[t].pc \in Works \cup {"locking"}
      PROVE  Exclusive'
  <2>1. /\ Moved(t, req[t].pc, e)
        /\ line' = [line EXCEPT ![req[t].session] =
                       Without(line[req[t].session], t)]
    BY <1>6, EndDoes
  <2>2. PICK k \in Nat : Left(t, k)
    BY <1>6, <2>1, LineLeft
  <2> QED
    BY <2>1, <2>2, ExclusiveLeft
<1>7. CASE GiveUp(t) \/ Answer(t) \/ Break(t)
  BY <1>6, <1>7 DEF GiveUp, Answer, Break, Ended, Works
<1>8. ASSUME NEW p \in Works, NEW q \in Works, Moved(t, p, q), line' = line
      PROVE  Exclusive'
  <2>1. Len(line[req[t].session]) > 0 /\ line[req[t].session][1] = t
    BY <1>8 DEF Exclusive, Moved
  <2> QED
    BY <1>8, <2>1, ExclusiveSame
<1>9. CASE Invoke(t)
  BY <1>8, <1>9, InvokeDoes DEF Works
<1>10. CASE Empty(t)
  BY <1>8, <1>10, EmptyDoes DEF Works
<1>11. CASE Heal(t)
  BY <1>8, <1>11, HealDoes DEF Works
<1> QED
  BY <1>1, <1>2, <1>3, <1>4, <1>5, <1>7, <1>9, <1>10, <1>11 DEF Attempt

-----------------------------------------------------------------------------
(* What was posted *)

Once(p) == \A i, j \in 1..Len(p) : p[i] = p[j] => i = j

\* No prompt was posted; a conversation that was added is empty.
PostsKept ==
  \A s \in Sessions : \A n \in 1..Len(upstream'[s]) :
    upstream'[s][n].posted =
      IF n <= Len(upstream[s]) THEN upstream[s][n].posted ELSE <<>>

AllOnce(U) == \A s \in Sessions : \A n \in 1..Len(U[s]) : Once(U[s][n].posted)

(* MessageOnce, with the domains written out.                              *)
LEMMA OnceIs ==
  ASSUME NEW U \in [Sessions -> Seq(Conversation)]
  PROVE  AllOnce(U) <=>
           \A s \in Sessions : \A n \in DOMAIN U[s] :
             \A i, j \in DOMAIN U[s][n].posted :
               U[s][n].posted[i] = U[s][n].posted[j] => i = j
<1>1. ASSUME NEW s \in Sessions
      PROVE  /\ DOMAIN U[s] = 1..Len(U[s])
             /\ \A n \in 1..Len(U[s]) :
                  DOMAIN U[s][n].posted = 1..Len(U[s][n].posted)
  <2>1. U[s] \in Seq(Conversation)
    OBVIOUS
  <2>2. ASSUME NEW n \in 1..Len(U[s])
        PROVE  DOMAIN U[s][n].posted = 1..Len(U[s][n].posted)
    <3>1. U[s][n] \in Conversation
      BY <2>1
    <3>2. U[s][n].posted \in Seq(Turns)
      BY <3>1 DEF Conversation
    <3> QED
      BY <3>2
  <2> QED
    BY <2>1, <2>2
<1>2. ASSUME NEW s \in Sessions, NEW n \in 1..Len(U[s])
      PROVE  Once(U[s][n].posted) <=>
               \A i, j \in DOMAIN U[s][n].posted :
                 U[s][n].posted[i] = U[s][n].posted[j] => i = j
  <2>1. DOMAIN U[s][n].posted = 1..Len(U[s][n].posted)
    BY <1>1
  <2> QED
    BY <2>1 DEF Once
<1>3. ASSUME NEW s \in Sessions PROVE DOMAIN U[s] = 1..Len(U[s])
  BY <1>1
<1> QED
  BY <1>2, <1>3 DEF AllOnce

(* Before a step.                                                          *)
LEMMA OnceNow == ChatTypes => (MessageOnce <=> AllOnce(upstream))
  BY OnceIs DEF ChatTypes, MessageOnce

(* And after it.                                                           *)
LEMMA OnceNext == ChatTypes' => (MessageOnce' <=> AllOnce(upstream'))
  BY OnceIs DEF ChatTypes, MessageOnce

(* A step that posts nothing.                                              *)
LEMMA PostedSame ==
  ASSUME ChatTypes, ChatTypes', Unposted, MessageOnce, PostsKept,
         NEW t \in Turns, NEW p, NEW q, Moved(t, p, q),
         q \in Waits => p \in Waits,
         q = "connecting" =>
           \/ p \in Waits
           \/ req'[t].conv = 0
           \/ req'[t].conv > Len(upstream[req[t].session])
  PROVE  Unposted' /\ MessageOnce'
<1>1. \A s \in Sessions : Len(upstream[s]) \in Nat /\ Len(upstream'[s]) \in Nat
  BY DEF ChatTypes
<1>2. /\ \A u \in Turns : /\ req'[u].session = req[u].session
                          /\ req[u].session \in Sessions
                          /\ req'[u].conv \in 0..Len(upstream'[req[u].session])
      /\ \A u \in Turns \ {t} : req'[u] = req[u]
      /\ req[t].pc = p /\ req'[t].pc = q
  BY OfSession DEF Moved, ChatTypes
<1>3. ASSUME NEW u \in Turns, NEW n \in 1..Len(upstream'[req[u].session]),
             n <= Len(upstream[req[u].session]) =>
               ~IsPosted(upstream[req[u].session][n], u)
      PROVE  ~IsPosted(upstream'[req[u].session][n], u)
  <2>1. upstream'[req[u].session][n].posted =
          IF n <= Len(upstream[req[u].session])
          THEN upstream[req[u].session][n].posted ELSE <<>>
    BY <1>2 DEF PostsKept
  <2>2. CASE n <= Len(upstream[req[u].session])
    BY <1>3, <2>1, <2>2 DEF IsPosted
  <2>3. CASE ~ (n <= Len(upstream[req[u].session]))
    BY <2>1, <2>3 DEF IsPosted
  <2> QED
    BY <2>2, <2>3
<1>4. ASSUME NEW u \in Turns, req'[u].pc \in Waits,
             NEW n \in 1..Len(upstream'[req'[u].session])
      PROVE  ~IsPosted(upstream'[req'[u].session][n], u)
  <2>1. req[u].pc \in Waits
    BY <1>2, <1>4
  <2>2. n <= Len(upstream[req[u].session]) =>
          ~IsPosted(upstream[req[u].session][n], u)
    BY <1>1, <1>2, <2>1 DEF Unposted
  <2> QED
    BY <1>2, <1>3, <2>2
<1>5. ASSUME NEW u \in Turns, req'[u].pc = "connecting", req'[u].conv # 0
      PROVE  ~IsPosted(upstream'[req'[u].session][req'[u].conv], u)
  <2> DEFINE n == req'[u].conv
  <2>1. n \in 1..Len(upstream'[req[u].session])
    BY <1>1, <1>2, <1>5
  <2>2. n <= Len(upstream[req[u].session]) =>
          ~IsPosted(upstream[req[u].session][n], u)
    <3>1. CASE u # t
      BY <1>2, <1>5, <3>1 DEF Unposted
    <3>2. CASE u = t
      BY <1>1, <1>2, <1>5, <2>1, <3>2 DEF Unposted
    <3> QED
      BY <3>1, <3>2
  <2>3. ~IsPosted(upstream'[req[u].session][n], u)
    <3> HIDE DEF n
    <3> QED
      BY <1>3, <2>1, <2>2
  <2> QED
    BY <1>2, <2>3
<1>6. ASSUME NEW s \in Sessions, NEW n \in 1..Len(upstream'[s])
      PROVE  Once(upstream'[s][n].posted)
  <2>1. n <= Len(upstream[s]) => Once(upstream[s][n].posted)
    BY <1>1, OnceNow DEF AllOnce
  <2>2. Once(<<>>)
    BY DEF Once
  <2> QED
    BY <2>1, <2>2 DEF PostsKept
<1> QED
  BY <1>4, <1>5, <1>6, OnceNext DEF Unposted, AllOnce

(* A prompt is posted: it was not there before.                            *)
LEMMA PostedNew ==
  ASSUME ChatTypes, ChatTypes', Unposted, MessageOnce,
         NEW t \in Turns, Invoke(t), req[t].conv # 0
  PROVE  Unposted' /\ MessageOnce'
<1> DEFINE s == req[t].session
           n == req[t].conv
           old == upstream[s][n].posted
           new == upstream'[s][n].posted
<1>1. /\ \A u \in Turns : /\ req'[u].session = req[u].session
                          /\ req[u].session \in Sessions
      /\ \A u \in Turns \ {t} : req'[u] = req[u]
      /\ req[t].pc = "connecting" /\ req'[t].pc = "streaming"
  BY InvokeDoes, OfSession DEF Moved
<1>2. s \in Sessions /\ n \in 1..Len(upstream[s]) /\ upstream[s][n] \in Conversation
  <2>1. s \in Sessions /\ n \in 1..Len(upstream[s])
    BY OfSession, InvokeTells
  <2> QED
    BY <2>1 DEF ChatTypes
<1>3. /\ \A r \in Sessions : Len(upstream'[r]) = Len(upstream[r])
      /\ \A r \in Sessions : \A k \in 1..Len(upstream[r]) :
           r # s \/ k # n => upstream'[r][k] = upstream[r][k]
      /\ new = Append(old, t)
  <2>1. Changed(s, n, Told(upstream[s][n], t))
    BY InvokeTells
  <2>2. Told(upstream[s][n], t).posted = Append(old, t)
    BY <1>2, ToldType
  <2>3. /\ \A r \in Sessions : Len(upstream'[r]) = Len(upstream[r])
        /\ \A r \in Sessions : \A k \in 1..Len(upstream[r]) :
             r # s \/ k # n => upstream'[r][k] = upstream[r][k]
    BY <2>1 DEF Changed
  <2>4. upstream'[s][n] = Told(upstream[s][n], t)
    BY <2>1 DEF Changed
  <2> QED
    BY <2>2, <2>3, <2>4
<1>4. old \in Seq(Turns)
  BY <1>2 DEF Conversation
<1>5. /\ Len(old) \in Nat /\ Len(new) = Len(old) + 1 /\ new[Len(new)] = t
      /\ \A i \in 1..Len(old) : new[i] = old[i]
  <2> HIDE DEF old, new
  <2> QED
    BY <1>3, <1>4
<1>6. \A i \in 1..Len(old) : old[i] # t
  BY <1>1, <1>2 DEF Unposted, IsPosted
<1>7. Once(old)
  BY <1>2, OnceNow DEF AllOnce
<1>8. Once(new)
  <2> HIDE DEF old, new
  <2> QED
    BY <1>5, <1>6, <1>7 DEF Once
<1>9. ASSUME NEW u \in Turns, u # t, NEW k \in 1..Len(upstream[req[u].session]),
             ~IsPosted(upstream[req[u].session][k], u)
      PROVE  ~IsPosted(upstream'[req[u].session][k], u)
  <2>1. CASE req[u].session # s \/ k # n
    BY <1>1, <1>3, <1>9, <2>1
  <2>2. CASE req[u].session = s /\ k = n
    <3>1. \A i \in 1..Len(old) : old[i] # u
      BY <1>9, <2>2 DEF IsPosted
    <3>2. \A i \in 1..Len(new) : new[i] # u
      <4> HIDE DEF old, new
      <4> QED
        BY <1>5, <1>9, <3>1
    <3> QED
      BY <2>2, <3>2 DEF IsPosted
  <2> QED
    BY <2>1, <2>2
<1>10. ASSUME NEW u \in Turns, req'[u].pc \in Waits,
              NEW k \in 1..Len(upstream'[req'[u].session])
       PROVE  ~IsPosted(upstream'[req'[u].session][k], u)
  <2>1. u # t
    BY <1>1, <1>10 DEF Waits
  <2>2. /\ req'[u] = req[u] /\ req[u].session \in Sessions
        /\ k \in 1..Len(upstream[req[u].session])
    BY <1>1, <1>3, <1>10, <2>1
  <2>3. ~IsPosted(upstream[req[u].session][k], u)
    BY <1>10, <2>2 DEF Unposted
  <2> QED
    BY <1>9, <2>1, <2>2, <2>3
<1>11. ASSUME NEW u \in Turns, req'[u].pc = "connecting", req'[u].conv # 0
       PROVE  ~IsPosted(upstream'[req'[u].session][req'[u].conv], u)
  <2>1. u # t
    BY <1>1, <1>11
  <2>2. req'[u] = req[u]
    BY <1>1, <2>1
  <2>3. /\ ~IsPosted(upstream[req[u].session][req[u].conv], u)
        /\ req[u].conv \in 1..Len(upstream[req[u].session])
    BY <1>11, <2>2, OfSession DEF Unposted
  <2> QED
    BY <1>9, <2>1, <2>2, <2>3
<1>12. ASSUME NEW r \in Sessions, NEW k \in 1..Len(upstream'[r])
       PROVE  Once(upstream'[r][k].posted)
  <2>1. CASE r # s \/ k # n
    BY <1>3, <2>1, OnceNow DEF AllOnce
  <2>2. CASE r = s /\ k = n
    BY <1>8, <2>2
  <2> QED
    BY <2>1, <2>2
<1> QED
  BY <1>10, <1>11, <1>12, OnceNext DEF Unposted, AllOnce

(* A prompt is posted nowhere else.                                        *)
LEMMA PostsStay ==
  ASSUME ChatTypes, NEW t \in Turns,
         \/ Ask(t) \/ Enter(t) \/ CancelWait(t) \/ Reserve(t) \/ GiveUp(t)
         \/ (Invoke(t) /\ req[t].conv = 0) \/ Answer(t) \/ Empty(t) \/ Heal(t)
         \/ Break(t)
  PROVE  PostsKept
<1>1. \A s \in Sessions : Len(upstream[s]) \in Nat
  BY DEF ChatTypes
<1>2. CASE upstream' = upstream
  BY <1>1, <1>2 DEF PostsKept
<1>3. CASE Ask(t) \/ Enter(t) \/ CancelWait(t) \/ Reserve(t) \/ GiveUp(t)
           \/ (Invoke(t) /\ req[t].conv = 0) \/ Empty(t) \/ Break(t)
  BY <1>2, <1>3, InvokeDoes
    DEF Ask, Enter, CancelWait, Reserve, GiveUp, Empty, Break
<1>4. CASE Answer(t) /\ req[t].conv # 0
  <2> DEFINE s == req[t].session
             n == req[t].conv
  <2>1. s \in Sessions /\ n \in 1..Len(upstream[s])
    BY <1>4, OfSession, AnswerTells
  <2>2. upstream[s][n] \in Conversation
    BY <2>1 DEF ChatTypes
  <2>3. Changed(s, n, Learned(upstream[s][n], t))
    BY <1>4, AnswerTells
  <2>4. Learned(upstream[s][n], t).posted = upstream[s][n].posted
    BY <2>2, ToldType
  <2> HIDE DEF s, n
  <2>5. /\ \A r \in Sessions : Len(upstream'[r]) = Len(upstream[r])
        /\ \A r \in Sessions : \A k \in 1..Len(upstream[r]) :
             upstream'[r][k].posted = upstream[r][k].posted
    BY <2>1, <2>3, <2>4 DEF Changed
  <2> QED
    BY <1>1, <2>5 DEF PostsKept
<1>5. CASE Answer(t) /\ req[t].conv = 0
  BY <1>2, <1>5 DEF Answer
<1>6. CASE Heal(t)
  <2> DEFINE s == req[t].session
  <2>1. s \in Sessions
    BY OfSession
  <2>2. /\ \A r \in Sessions \ {s} : upstream'[r] = upstream[r]
        /\ Len(upstream'[s]) = Len(upstream[s]) + 1
        /\ upstream'[s][Len(upstream[s]) + 1].posted = <<>>
        /\ \A n \in 1..Len(upstream[s]) : upstream'[s][n] = upstream[s][n]
    BY <1>6, HealAdds DEF NewConversation
  <2> HIDE DEF s
  <2>3. ASSUME NEW n \in 1..Len(upstream'[s])
        PROVE  upstream'[s][n].posted =
                 IF n <= Len(upstream[s]) THEN upstream[s][n].posted ELSE <<>>
    BY <1>1, <2>1, <2>2
  <2> QED
    BY <1>1, <2>1, <2>2, <2>3 DEF PostsKept
<1> QED
  BY <1>3, <1>4, <1>5, <1>6

(* Every step posts a prompt where it was not posted before, or none.      *)
LEMMA PostedKept ==
  ASSUME ChatTypes, ChatTypes', Unposted, MessageOnce, NEW t \in Turns,
         \/ Ask(t) \/ WaitForSlot(t) \/ Enter(t) \/ CancelWait(t)
         \/ Reserve(t) \/ GiveUp(t) \/ Attempt(t)
  PROVE  Unposted' /\ MessageOnce'
<1>1. CASE Ask(t)
  BY <1>1, AskDoes, PostsStay, PostedSame DEF Waits
<1>2. CASE WaitForSlot(t)
  BY <1>2 DEF WaitForSlot, Unposted, MessageOnce
<1>3. CASE Enter(t)
  BY <1>3, EnterDoes, PostsStay, PostedSame DEF Waits
<1>4. CASE CancelWait(t)
  <2>1. req' = [req EXCEPT ![t].pc = "failed"]
    BY <1>4 DEF CancelWait
  <2>2. Moved(t, req[t].pc, "failed")
    BY <2>1, ProgressDoes DEF Steps, Ended
  <2> QED
    BY <1>4, <2>2, PostsStay, PostedSame DEF Waits
<1>5. CASE Reserve(t)
  BY <1>5, ReserveDoes, PostsStay, PostedSame DEF Waits
<1>6. ASSUME NEW e \in Ended, End(t, e), PostsKept
      PROVE  Unposted' /\ MessageOnce'
  <2>1. Moved(t, req[t].pc, e) /\ e \notin Waits /\ e # "connecting"
    BY <1>6, EndDoes DEF Ended, Waits
  <2> QED
    BY <1>6, <2>1, PostedSame
<1>7. CASE GiveUp(t) \/ Answer(t) \/ Break(t)
  BY <1>6, <1>7, PostsStay DEF GiveUp, Answer, Break, Ended
<1>8. CASE Invoke(t) /\ req[t].conv = 0
  <2>1. Moved(t, "connecting", "streaming")
    BY <1>8, InvokeDoes
  <2> QED
    BY <1>8, <2>1, PostsStay, PostedSame DEF Waits
<1>9. CASE Invoke(t) /\ req[t].conv # 0
  BY <1>9, PostedNew
<1>10. CASE Empty(t)
  BY <1>10, EmptyDoes, PostsStay, PostedSame DEF Waits
<1>11. CASE Heal(t)
  <2>1. /\ Moved(t, "streaming", "connecting")
        /\ req'[t].conv > Len(upstream[req[t].session])
    BY <1>11, HealDoes, OfSession
  <2> QED
    BY <1>11, <2>1, PostsStay, PostedSame DEF Waits
<1> QED
  BY <1>1, <1>2, <1>3, <1>4, <1>5, <1>7, <1>8, <1>9, <1>10, <1>11 DEF Attempt

-----------------------------------------------------------------------------
(* What is known *)

(* What is settled stays so: upstream forgets nothing, and a request that  *)
(* has ended stays as it is.                                               *)
LEMMA SettledKept ==
  ASSUME ChatTypes, Grown, NEW t \in Turns, NEW p, NEW q, Moved(t, p, q),
         p \notin Ended, NEW s \in Sessions, Settled(s)
  PROVE  Settled(s)'
<1>1. CASE Knows(s, 1, Old)
  <2>1. 1 \in 1..Len(upstream[s])
    BY DEF ChatTypes
  <2>2. Knows(s, 1, Old)'
    BY <1>1, <2>1 DEF Grown
  <2> QED
    BY <2>2 DEF Settled
<1>2. CASE NeverStarted(s, 1)
  <2>1. PICK u \in Turns : /\ req[u].session = s /\ req[u].conv = 1
                           /\ req[u].pc \in Ended /\ req[u].start /\ ~req[u].sent
    BY <1>2 DEF NeverStarted
  <2>2. req'[u] = req[u]
    BY <2>1 DEF Moved
  <2>3. NeverStarted(s, 1)'
    BY <2>1, <2>2 DEF NeverStarted
  <2> QED
    BY <2>3 DEF Settled
<1> QED
  BY <1>1, <1>2 DEF Settled

(* Answers stay on record.                                                 *)
LEMMA HistoryKept ==
  ASSUME NEW t \in Turns, NEW p, NEW q, Moved(t, p, q), p \notin Ended, NEW s
  PROVE  History(s) \subseteq History(s)'
<1>1. ASSUME NEW u \in Turns, req[u].session = s, req[u].pc = "answered"
      PROVE  req'[u].session = s /\ req'[u].pc = "answered"
  <2>1. u # t
    BY <1>1 DEF Moved, Ended
  <2> QED
    BY <1>1, <2>1 DEF Moved
<1> QED
  BY <1>1 DEF History

(* The other requests and sessions know what they knew.                    *)
LEMMA InformedFrom ==
  ASSUME ChatTypes, Informed, Grown, NEW t \in Turns, NEW p, NEW q,
         Moved(t, p, q), p \notin Ended,
         NEW o \in Sessions, req[t].session = o,
         count[o] > 0 => count'[o] > 0,
         \A s \in Sessions \ {o} :
           count'[s] = count[s] /\ Len(upstream'[s]) = Len(upstream[s]),
         TurnInformed(t, o)', SessionInformed(o)'
  PROVE  Informed'
<1>1. ASSUME NEW s \in Sessions, NEW u \in Turns, req'[u].session = s
      PROVE  TurnInformed(u, s)'
  <2>1. CASE u = t
    <3>1. s = o
      BY <1>1, <2>1 DEF Moved
    <3> QED
      BY <2>1, <3>1
  <2>2. CASE u # t
    <3>1. req'[u] = req[u] /\ req[u].session = s
      BY <1>1, <2>2 DEF Moved
    <3>2. TurnInformed(u, s)
      BY <3>1 DEF Informed
    <3>3. req[u].conv \in 0..Len(upstream[s])
      BY <3>1, OfSession
    <3>4. History(s) \subseteq History(s)'
      BY HistoryKept
    <3>5. Settled(s) => Settled(s)'
      BY SettledKept
    <3>6. req[u].conv # 0 /\ Knows(s, req[u].conv, u) =>
            u \in upstream'[s][req[u].conv].knows
      BY <3>3 DEF Grown, Knows
    <3>7. count[s] > 0 => count'[s] > 0
      OBVIOUS
    <3>8. req'[u].conv # 0 /\ req'[u].pc = "answered" => Knows(s, req[u].conv, u)'
      BY <3>1, <3>2, <3>6 DEF TurnInformed, Knows
    <3> QED
      BY <3>1, <3>2, <3>4, <3>5, <3>7, <3>8 DEF TurnInformed, Knows
  <2> QED
    BY <2>1, <2>2
<1>2. ASSUME NEW s \in Sessions PROVE SessionInformed(s)'
  <2>1. CASE s = o
    BY <2>1
  <2>2. CASE s # o
    <3>1. SessionInformed(s) /\ count[s] \in Nat
      BY DEF Informed, ChatTypes
    <3>2. Settled(s) => Settled(s)'
      BY SettledKept
    <3>3. Starting(s) => Starting(s)'
      <4> SUFFICES ASSUME Starting(s) PROVE Starting(s)'
        OBVIOUS
      <4>1. PICK u \in Turns :
              /\ req[u].session = s /\ req[u].pc = "connecting" /\ req[u].conv = 1
              /\ req[u].start /\ ~req[u].sent /\ ~req[u].inc
        BY DEF Starting
      <4>2. u \in Turns /\ req'[u] = req[u]
        BY <2>2, <4>1 DEF Moved
      <4> QED
        BY <4>1, <4>2 DEF Starting
    <3>4. count'[s] = count[s] /\ Len(upstream'[s]) = Len(upstream[s])
      BY <2>2
    <3> QED
      BY <3>1, <3>2, <3>3, <3>4 DEF SessionInformed
  <2> QED
    BY <2>1, <2>2
<1> QED
  BY <1>1, <1>2 DEF Informed

(* A first turn on its way stays one, unless it is the turn that moves.    *)
LEMMA StartingKept ==
  ASSUME NEW t \in Turns, NEW p, NEW q, Moved(t, p, q), NEW s \in Sessions,
         Starting(s)
  PROVE  \/ Starting(s)'
         \/ /\ req[t].session = s /\ req[t].pc = "connecting" /\ req[t].conv = 1
            /\ req[t].start /\ ~req[t].sent /\ ~req[t].inc
<1>1. PICK u \in Turns :
        /\ req[u].session = s /\ req[u].pc = "connecting" /\ req[u].conv = 1
        /\ req[u].start /\ ~req[u].sent /\ ~req[u].inc
  BY DEF Starting
<1>2. CASE u # t
  <2>1. req'[u] = req[u]
    BY <1>2 DEF Moved
  <2> QED
    BY <1>1, <2>1 DEF Starting
<1> QED
  BY <1>1, <1>2

(* A session whose turns are not counted meanwhile.                        *)
LEMMA SessionSame ==
  ASSUME ChatTypes, Informed, Grown, NEW t \in Turns, NEW p, NEW q,
         Moved(t, p, q), p \notin Ended \cup {"connecting"},
         NEW s \in Sessions, count'[s] = count[s],
         Len(upstream'[s]) = Len(upstream[s])
  PROVE  SessionInformed(s)'
<1>1. SessionInformed(s)
  BY DEF Informed
<1>2. Settled(s) => Settled(s)'
  BY SettledKept
<1>3. Starting(s) => Starting(s)'
  BY StartingKept DEF Moved
<1> QED
  BY <1>1, <1>2, <1>3 DEF SessionInformed

(* What is left to show of a request that goes on with its plan.           *)
LEMMA TurnFrom ==
  ASSUME ChatTypes, Informed, NEW t \in Turns, NEW p, NEW q, Moved(t, p, q),
         p \notin Ended \cup {"new"}, KeepsPlan(t),
         NEW o \in Sessions, req[t].session = o,
         count[o] > 0 => count'[o] > 0, q \in Works => count'[o] > 0,
         q \in Waits => p \in Waits /\ req'[t].sent = req[t].sent,
         q = "answered" /\ req'[t].conv # 0 =>
           t \in upstream'[o][req'[t].conv].knows,
         req'[t].conv = 1
           /\ (q \in {"streaming", "answered"}
               \/ (q = "connecting" /\ req[t].inc)) => Settled(o)'
  PROVE  TurnInformed(t, o)'
<1>1. TurnInformed(t, o)
  BY DEF Informed
<1>2. History(o) \subseteq History(o)'
  BY HistoryKept
<1>3. req'[t].inc = req[t].inc /\ req'[t].prior = req[t].prior
  BY DEF KeepsPlan
<1>4. /\ req[t].pc = p /\ req'[t].pc = q /\ p \notin Ended /\ p # "new"
  BY DEF Moved
<1>5. req'[t].prior \subseteq History(o)' /\ Old \in req'[t].prior
  BY <1>1, <1>2, <1>3, <1>4 DEF TurnInformed
<1>6. req'[t].inc \/ req'[t].pc \in Works => count'[o] > 0
  BY <1>1, <1>3, <1>4 DEF TurnInformed
<1>7. req'[t].pc \in Waits => ~req'[t].sent
  BY <1>1, <1>4 DEF TurnInformed
<1> QED
  BY <1>3, <1>4, <1>5, <1>6, <1>7 DEF TurnInformed, Knows

(* While a turn reserves, no other one of its session is on its way.       *)
LEMMA NoneStarting ==
  ASSUME ChatTypes, Exclusive, NEW t \in Turns, Reserve(t)
  PROVE  ~Starting(req[t].session)
<1> SUFFICES ASSUME Starting(req[t].session) PROVE FALSE
  OBVIOUS
<1>1. PICK u \in Turns : req[u].session = req[t].session /\ req[u].pc = "connecting"
  BY DEF Starting
<1>2. line[req[t].session][1] = u /\ Len(line[req[t].session]) > 0
  BY <1>1 DEF Exclusive, Works
<1>3. Head(line[req[t].session]) = u
  BY <1>2, OfSession
<1> QED
  BY <1>1, <1>3 DEF Reserve

(* A turn is reserved: the first of its session is going to bring the      *)
(* history, and a later one finds it brought or given up.                  *)
LEMMA ReserveInforms ==
  ASSUME ChatTypes, Exclusive, Informed, NEW t \in Turns, Reserve(t)
  PROVE  Informed'
<1>1. PICK o \in Sessions : o = req[t].session
  BY OfSession
<1>2. /\ Moved(t, "locking", "connecting") /\ KeepsPlan(t)
      /\ req'[t].start = (count[o] = 0) /\ req'[t].conv = Len(upstream[o])
      /\ req'[t].sent = req[t].sent
      /\ \A s \in Sessions \ {o} : count'[s] = count[s]
      /\ count'[o] > 0 /\ upstream' = upstream
  BY <1>1, ReserveDoes
<1>3. Grown
  BY <1>2, SameGrows
<1>4. TurnInformed(t, o) /\ SessionInformed(o) /\ ~Starting(o)
  BY <1>1, NoneStarting DEF Informed
<1>5. Settled(o) => Settled(o)'
  BY <1>2, <1>3, SettledKept DEF Ended
<1>6. ~req[t].sent /\ (req[t].inc => count[o] > 0)
  BY <1>2, <1>4 DEF TurnInformed, Moved, Waits
<1>7. count[o] \in Nat
  BY DEF ChatTypes
<1>8. count[o] > 0 => Settled(o)'
  BY <1>4, <1>5, <1>7 DEF SessionInformed
<1>9. TurnInformed(t, o)'
  BY <1>1, <1>2, <1>6, <1>8, TurnFrom DEF Works, Waits, Ended
<1>10. SessionInformed(o)'
  <2>1. CASE count[o] > 0
    BY <1>2, <1>8, <2>1 DEF SessionInformed
  <2>2. CASE count[o] = 0
    <3>1. Len(upstream[o]) = 1
      BY <1>4, <2>2 DEF SessionInformed
    <3>2. /\ req'[t].session = o /\ req'[t].pc = "connecting" /\ req'[t].conv = 1
          /\ req'[t].start /\ ~req'[t].sent /\ ~req'[t].inc
      <4>1. /\ req'[t].session = o /\ req'[t].pc = "connecting"
            /\ req'[t].conv = 1 /\ req'[t].inc = req[t].inc
        BY <1>1, <1>2, <3>1 DEF Moved, KeepsPlan
      <4>2. ~req[t].inc
        BY <1>6, <2>2
      <4>3. req'[t].start /\ req'[t].sent = req[t].sent
        BY <1>2, <2>2
      <4> QED
        BY <1>6, <4>1, <4>2, <4>3
    <3> QED
      BY <1>2, <3>2 DEF SessionInformed, Starting
  <2> QED
    BY <1>7, <2>1, <2>2
<1> QED
  BY <1>1, <1>2, <1>3, <1>9, <1>10, InformedFrom DEF Ended

(* A turn is sent: the first one brings the history.                       *)
LEMMA InvokeInforms ==
  ASSUME ChatTypes, Informed, NEW t \in Turns, Invoke(t)
  PROVE  Informed'
<1>1. PICK o \in Sessions : o = req[t].session
  BY OfSession
<1>2. /\ Moved(t, "connecting", "streaming") /\ KeepsPlan(t)
      /\ req'[t].conv = req[t].conv /\ count' = count
  BY InvokeDoes
<1>3. Grown
  BY StepGrows DEF Attempt
<1>4. TurnInformed(t, o) /\ SessionInformed(o)
  BY <1>1 DEF Informed
<1>5. Settled(o) => Settled(o)'
  BY <1>2, <1>3, SettledKept DEF Ended
<1>6. \A s \in Sessions : Len(upstream'[s]) = Len(upstream[s])
  <2>1. CASE req[t].conv = 0
    BY <2>1, InvokeDoes
  <2>2. CASE req[t].conv # 0
    BY <2>2, InvokeTells DEF Changed
  <2> QED
    BY <2>1, <2>2
<1>7. req[t].conv = 1 => Settled(o)'
  <2> SUFFICES ASSUME req[t].conv = 1 PROVE Settled(o)'
    OBVIOUS
  <2>1. CASE req[t].inc
    BY <1>2, <1>4, <1>5, <2>1 DEF TurnInformed, Moved
  <2>2. CASE ~req[t].inc
    <3>1. Old \in Transcript(t)
      BY <1>2, <1>4, <2>2 DEF TurnInformed, Moved, Transcript
    <3>2. upstream'[o][1] = Told(upstream[o][1], t)
      <4>1. Changed(o, 1, Told(upstream[o][1], t))
        BY <1>1, InvokeTells
      <4> QED
        BY <4>1 DEF Changed
    <3>3. Old \in upstream'[o][1].knows
      BY <3>1, <3>2 DEF Told
    <3> QED
      BY <3>3 DEF Settled, Knows
  <2> QED
    BY <2>1, <2>2
<1>8. count[o] > 0
  BY <1>2, <1>4 DEF TurnInformed, Moved, Works
<1>9. TurnInformed(t, o)'
  BY <1>1, <1>2, <1>7, <1>8, TurnFrom DEF Works, Waits, Ended
<1>10. SessionInformed(o)'
  <2>1. Starting(o) => Starting(o)' \/ req[t].conv = 1
    BY <1>2, StartingKept
  <2>2. count[o] \in Nat /\ count[o] # 0
    BY <1>8 DEF ChatTypes
  <2> QED
    BY <1>2, <1>4, <1>5, <1>7, <2>1, <2>2 DEF SessionInformed
<1> QED
  BY <1>1, <1>2, <1>3, <1>6, <1>9, <1>10, InformedFrom DEF Ended

(* An answer becomes known to the conversation that gave it.               *)
LEMMA AnswerInforms ==
  ASSUME ChatTypes, Informed, NEW t \in Turns, Answer(t)
  PROVE  Informed'
<1>1. PICK o \in Sessions : o = req[t].session
  BY OfSession
<1>2. /\ Moved(t, "streaming", "answered") /\ KeepsPlan(t)
      /\ req'[t].conv = req[t].conv /\ count' = count
  BY EndDoes DEF Answer, KeepsPlace, Ended
<1>3. Grown
  BY StepGrows DEF Attempt
<1>4. TurnInformed(t, o) /\ Len(upstream[o]) \in Nat
  BY <1>1, OfSession DEF Informed
<1>5. Settled(o) => Settled(o)'
  BY <1>2, <1>3, SettledKept DEF Ended
<1>6. /\ \A s \in Sessions : Len(upstream'[s]) = Len(upstream[s])
      /\ req[t].conv # 0 => t \in upstream'[o][req[t].conv].knows
  <2>1. CASE req[t].conv = 0
    BY <2>1 DEF Answer
  <2>2. CASE req[t].conv # 0
    <3> DEFINE n == req[t].conv
    <3>1. n \in 1..Len(upstream[o]) /\ Changed(o, n, Learned(upstream[o][n], t))
      BY <1>1, <2>2, AnswerTells
    <3>2. upstream[o][n] \in Conversation
      BY <3>1 DEF ChatTypes
    <3>3. t \in Learned(upstream[o][n], t).knows
      BY <3>2, ToldType
    <3> HIDE DEF n
    <3>4. /\ \A s \in Sessions : Len(upstream'[s]) = Len(upstream[s])
          /\ t \in upstream'[o][n].knows
      BY <3>1, <3>3 DEF Changed
    <3> QED
      BY <3>4 DEF n
  <2> QED
    BY <2>1, <2>2
<1>7. req[t].conv = 1 => Settled(o)'
  BY <1>2, <1>4, <1>5 DEF TurnInformed, Moved
<1>8. TurnInformed(t, o)'
  BY <1>1, <1>2, <1>6, <1>7, TurnFrom DEF Works, Waits, Ended
<1>9. SessionInformed(o)'
  BY <1>2, <1>3, <1>6, SessionSame DEF Ended
<1> QED
  BY <1>1, <1>2, <1>3, <1>6, <1>8, <1>9, InformedFrom DEF Ended

(* A request ends without an answer: if it was the first of its session    *)
(* and was not sent, its conversation never gets the history.              *)
LEMMA FailInforms ==
  ASSUME ChatTypes, Informed, Grown, NEW t \in Turns, NEW p,
         Moved(t, p, "failed"), p \notin Ended \cup {"new"},
         KeepsPlan(t), KeepsPlace(t), count' = count, upstream' = upstream
  PROVE  Informed'
<1>1. PICK o \in Sessions : o = req[t].session
  BY OfSession
<1>2. SessionInformed(o)
  BY DEF Informed
<1>3. Settled(o) => Settled(o)'
  BY SettledKept
<1>4. TurnInformed(t, o)'
  BY <1>1, TurnFrom DEF Works, Waits
<1>5. Starting(o) => Starting(o)' \/ Settled(o)'
  <2> SUFFICES ASSUME req[t].session = o, req[t].conv = 1,
                      req[t].start, ~req[t].sent
               PROVE  Settled(o)'
    BY StartingKept
  <2>1. /\ req'[t].session = o /\ req'[t].conv = 1 /\ req'[t].pc \in Ended
        /\ req'[t].start /\ ~req'[t].sent
    BY DEF Moved, KeepsPlace, Ended
  <2>2. NeverStarted(o, 1)'
    BY <2>1 DEF NeverStarted
  <2> QED
    BY <2>2 DEF Settled
<1>6. SessionInformed(o)'
  BY <1>2, <1>3, <1>5 DEF SessionInformed
<1> QED
  BY <1>1, <1>4, <1>6, InformedFrom

(* A refused turn starts a conversation that is not the first.             *)
LEMMA HealInforms ==
  ASSUME ChatTypes, Informed, NEW t \in Turns, Heal(t)
  PROVE  Informed'
<1>1. PICK o \in Sessions : o = req[t].session
  BY OfSession
<1>2. /\ Moved(t, "streaming", "connecting") /\ KeepsPlan(t)
      /\ req'[t].conv = Len(upstream[o]) + 1
      /\ count' = [count EXCEPT ![o] = 1]
  BY <1>1, HealDoes
<1>3. Grown /\ \A s \in Sessions \ {o} : upstream'[s] = upstream[s]
  BY <1>1, HealAdds
<1>4. /\ TurnInformed(t, o) /\ SessionInformed(o) /\ count[o] \in Nat
      /\ Len(upstream[o]) \in Nat \ {0}
  BY <1>1, OfSession DEF Informed
<1>5. Settled(o) => Settled(o)'
  BY <1>2, <1>3, SettledKept DEF Ended
<1>6. Starting(o) => Starting(o)'
  BY <1>2, StartingKept DEF Moved
<1>7. count[o] > 0
  BY <1>2, <1>4 DEF TurnInformed, Moved, Works
<1>8. count'[o] = 1 /\ \A s \in Sessions \ {o} : count'[s] = count[s]
  BY <1>2 DEF ChatTypes
<1>9. SessionInformed(o)'
  BY <1>4, <1>5, <1>6, <1>7, <1>8 DEF SessionInformed
<1>10. TurnInformed(t, o)'
  BY <1>1, <1>2, <1>4, <1>8, TurnFrom DEF Works, Waits, Ended
<1> QED
  BY <1>1, <1>2, <1>3, <1>8, <1>9, <1>10, InformedFrom DEF Ended

(* A request that arrives has the whole record.                            *)
LEMMA AskInforms ==
  ASSUME ChatTypes, Informed, NEW t \in Turns, Ask(t)
  PROVE  Informed'
<1>1. PICK o \in Sessions : o = req[t].session
  BY OfSession
<1>2. /\ Moved(t, "new", "asked") /\ KeepsPlace(t)
      /\ req'[t].inc = (count[o] > 0) /\ req'[t].prior = History(o)
      /\ count' = count /\ upstream' = upstream
  BY <1>1, AskDoes
<1>3. Grown
  BY <1>2, SameGrows
<1>4. TurnInformed(t, o)
  BY <1>1 DEF Informed
<1>5. req'[t].prior \subseteq History(o)' /\ Old \in req'[t].prior
  <2>1. History(o) \subseteq History(o)'
    BY <1>2, HistoryKept DEF Ended
  <2> QED
    BY <1>2, <2>1 DEF History
<1>6. /\ req'[t].pc = "asked" /\ ~req'[t].sent
      /\ req'[t].inc => count'[o] > 0
  BY <1>2, <1>4 DEF TurnInformed, Moved, Waits, KeepsPlace
<1>7. TurnInformed(t, o)'
  BY <1>5, <1>6 DEF TurnInformed, Works
<1>8. SessionInformed(o)'
  BY <1>2, <1>3, SessionSame DEF Ended
<1> QED
  BY <1>1, <1>2, <1>3, <1>7, <1>8, InformedFrom DEF Ended

(* Nothing is learned where nothing changes.                               *)
LEMMA InformedUnchanged ==
  ASSUME Informed, UNCHANGED <<count, line, upstream, req>>
  PROVE  Informed'
<1>1. ASSUME NEW s \in Sessions
      PROVE  /\ Settled(s)' <=> Settled(s)
             /\ Starting(s)' <=> Starting(s)
             /\ History(s)' = History(s)
  BY DEF Settled, Starting, Knows, NeverStarted, History
<1>2. ASSUME NEW s \in Sessions PROVE SessionInformed(s)'
  BY <1>1 DEF Informed, SessionInformed
<1>3. ASSUME NEW s \in Sessions, NEW t \in Turns, req'[t].session = s
      PROVE  TurnInformed(t, s)'
  <2>1. TurnInformed(t, s)
    BY <1>3 DEF Informed
  <2> QED
    BY <1>1, <2>1 DEF TurnInformed, Knows
<1> QED
  BY <1>2, <1>3 DEF Informed

(* Every step keeps what is known, and what is left to learn.              *)
LEMMA InformedKept ==
  ASSUME ChatTypes, Exclusive, Informed, NEW t \in Turns,
         \/ Ask(t) \/ WaitForSlot(t) \/ Enter(t) \/ CancelWait(t)
         \/ Reserve(t) \/ GiveUp(t) \/ Attempt(t)
  PROVE  Informed'
<1>1. Grown
  BY StepGrows
<1>2. CASE WaitForSlot(t)
  BY <1>2, InformedUnchanged DEF WaitForSlot
<1>3. ASSUME NEW p, NEW q, Moved(t, p, q), KeepsPlan(t), p \notin Ended,
             p # "connecting", p # "new", count' = count,
             upstream' = upstream, q \notin Works \cup Ended,
             q \in Waits => p \in Waits /\ req'[t].sent = req[t].sent
      PROVE  Informed'
  <2>1. PICK o \in Sessions : o = req[t].session
    BY OfSession
  <2>2. TurnInformed(t, o)'
    BY <1>3, <2>1, TurnFrom DEF Works, Ended
  <2>3. SessionInformed(o)'
    BY <1>1, <1>3, SessionSame
  <2> QED
    BY <1>1, <1>3, <2>1, <2>2, <2>3, InformedFrom
<1>4. CASE Enter(t)
  <2>1. /\ Moved(t, "asked", "locking") /\ KeepsPlan(t) /\ count' = count
        /\ upstream' = upstream /\ req'[t].sent = req[t].sent
    BY <1>4, EnterDoes DEF KeepsPlace
  <2> QED
    BY <1>3, <2>1 DEF Works, Waits, Ended
<1>5. CASE Empty(t)
  <2>1. PICK o \in Sessions : o = req[t].session
    BY OfSession
  <2>2. /\ Moved(t, "streaming", "connecting") /\ KeepsPlan(t) /\ req'[t].conv = 0
        /\ count' = count /\ upstream' = upstream
    BY <1>5, EmptyDoes
  <2>3. count[o] > 0
    BY <2>1, <2>2 DEF Informed, TurnInformed, Moved, Works
  <2>4. TurnInformed(t, o)'
    BY <2>1, <2>2, <2>3, TurnFrom DEF Works, Waits, Ended
  <2>5. SessionInformed(o)'
    BY <1>1, <2>2, SessionSame DEF Ended
  <2> QED
    BY <1>1, <2>1, <2>2, <2>4, <2>5, InformedFrom DEF Ended
<1>6. CASE CancelWait(t)
  <2>1. /\ req' = [req EXCEPT ![t].pc = "failed"] /\ req[t].pc = "asked"
        /\ count' = count /\ upstream' = upstream
    BY <1>6 DEF CancelWait
  <2>2. Moved(t, "asked", "failed") /\ KeepsPlan(t) /\ KeepsPlace(t)
    BY <2>1, ProgressDoes DEF Steps, Ended
  <2> QED
    BY <1>1, <2>1, <2>2, FailInforms DEF Ended
<1>7. CASE GiveUp(t) \/ Break(t)
  <2>1. /\ Moved(t, req[t].pc, "failed") /\ KeepsPlan(t) /\ KeepsPlace(t)
        /\ req[t].pc \in {"locking", "connecting", "streaming"}
        /\ count' = count /\ upstream' = upstream
    BY <1>7, EndDoes DEF GiveUp, Break, Ended
  <2> QED
    BY <1>1, <2>1, FailInforms DEF Ended
<1> QED
  BY <1>2, <1>4, <1>5, <1>6, <1>7, AskInforms, ReserveInforms, InvokeInforms,
     AnswerInforms, HealInforms DEF Attempt

-----------------------------------------------------------------------------
(* The invariant holds *)

(* Initially.                                                              *)
LEMMA ChatInitInv == ChatInit => ChatInv
<1> SUFFICES ASSUME ChatInit PROVE ChatInv
  OBVIOUS
<1>1. /\ count = [s \in Sessions |-> 0] /\ line = [s \in Sessions |-> <<>>]
      /\ upstream = [s \in Sessions |-> <<NewConversation>>]
  BY DEF ChatInit
<1>2. \A t \in Turns :
        \E s \in Sessions :
          req[t] = [pc |-> "new", session |-> s, inc |-> FALSE, prior |-> {},
                    start |-> FALSE, again |-> FALSE, conv |-> 0, sent |-> FALSE]
  BY DEF ChatInit
<1>3. ASSUME NEW t \in Turns
      PROVE  /\ req[t] \in Request /\ req[t].session \in Sessions
             /\ req[t].pc = "new" /\ ~req[t].inc
             /\ req[t].prior = {} /\ req[t].conv = 0 /\ ~req[t].sent
  <2>1. PICK s \in Sessions :
          req[t] = [pc |-> "new", session |-> s, inc |-> FALSE, prior |-> {},
                    start |-> FALSE, again |-> FALSE, conv |-> 0, sent |-> FALSE]
    BY <1>2
  <2>2. req[t] \in Request
    BY <2>1 DEF Request, Steps
  <2> QED
    BY <2>1, <2>2
<1>4. req \in [Turns -> Request]
  BY <1>3 DEF ChatInit
<1>5. /\ NewConversation \in Conversation
      /\ NewConversation.posted = <<>>
  BY DEF NewConversation, Conversation
<1>6. \A s \in Sessions : /\ upstream[s] \in Seq(Conversation)
                          /\ Len(upstream[s]) = 1
                          /\ upstream[s][1] = NewConversation
  BY <1>1, <1>5
<1>7. ChatTypes
  BY <1>1, <1>3, <1>4, <1>6 DEF ChatTypes
<1>8. Exclusive
  BY <1>1, <1>3 DEF Exclusive, Works
<1>9. Unposted
  BY <1>3, <1>5, <1>6 DEF Unposted, IsPosted
<1>10. MessageOnce
  <2>1. AllOnce(upstream)
    BY <1>5, <1>6 DEF AllOnce, Once
  <2> QED
    BY <1>7, <2>1, OnceNow
<1>11. Informed
  BY <1>1, <1>3, <1>6
    DEF Informed, TurnInformed, SessionInformed, Works, Waits
<1> QED
  BY <1>7, <1>8, <1>9, <1>10, <1>11, InitInv DEF ChatInit, ChatInv

(* And through every step.                                                 *)
LEMMA ChatNextInv == ChatInv /\ [ChatNext]_chatVars => ChatInv'
<1> SUFFICES ASSUME ChatInv, [ChatNext]_chatVars PROVE ChatInv'
  OBVIOUS
<1>1. Inv'
  BY SlotSteps, NextInv DEF ChatInv
<1>2. CASE UNCHANGED chatVars
  <2>1. UNCHANGED <<count, line, upstream, req>>
    BY <1>2 DEF chatVars
  <2>2. ChatTypes'
    BY <2>1 DEF ChatInv, ChatTypes
  <2>3. Exclusive'
    BY <2>1 DEF ChatInv, Exclusive
  <2>40. Unposted'
    <3>1. Unposted
      BY DEF ChatInv
    <3>2. ASSUME NEW t \in Turns
          PROVE  /\ req'[t].pc \in Waits =>
                      \A n \in 1..Len(upstream'[req'[t].session]) :
                        ~IsPosted(upstream'[req'[t].session][n], t)
                 /\ req'[t].pc = "connecting" /\ req'[t].conv # 0 =>
                      ~IsPosted(upstream'[req'[t].session][req'[t].conv], t)
      <4>1. /\ req[t].pc \in Waits =>
                 \A n \in 1..Len(upstream[req[t].session]) :
                   ~IsPosted(upstream[req[t].session][n], t)
            /\ req[t].pc = "connecting" /\ req[t].conv # 0 =>
                 ~IsPosted(upstream[req[t].session][req[t].conv], t)
        BY ONLY <3>1, t \in Turns DEF Unposted
      <4> QED
        BY ONLY <4>1, <2>1
    <3> QED
      BY ONLY <3>2 DEF Unposted, IsPosted
  <2>41. MessageOnce'
    <3>1. MessageOnce /\ upstream' = upstream
      BY <2>1 DEF ChatInv
    <3> QED
      BY ONLY <3>1 DEF MessageOnce
  <2>4. Unposted' /\ MessageOnce'
    BY ONLY <2>40, <2>41
  <2>5. Informed'
    BY <2>1, InformedUnchanged DEF ChatInv
  <2> QED
    BY <1>1, <2>2, <2>3, <2>4, <2>5 DEF ChatInv
<1>3. CASE ChatNext
  <2>1. PICK t \in Turns :
          \/ Ask(t) \/ WaitForSlot(t) \/ Enter(t) \/ CancelWait(t)
          \/ Reserve(t) \/ GiveUp(t) \/ Attempt(t)
    BY <1>3 DEF ChatNext
  <2>2. ChatTypes /\ Exclusive /\ Unposted /\ MessageOnce /\ Informed
    BY DEF ChatInv
  <2>3. ChatTypes'
    BY <2>1, <2>2, TypesKept
  <2>4. Exclusive'
    BY <2>1, <2>2, ExclusiveKept
  <2>5. Unposted' /\ MessageOnce'
    BY <2>1, <2>2, <2>3, PostedKept
  <2>6. Informed'
    BY <2>1, <2>2, InformedKept
  <2> QED
    BY <1>1, <2>3, <2>4, <2>5, <2>6 DEF ChatInv
<1> QED
  BY <1>2, <1>3

(* What the invariant says of an answer.                                   *)
LEMMA InvContext == ChatInv => ContextKept
<1> SUFFICES ASSUME ChatInv, NEW t \in Turns, req[t].pc = "answered",
                    req[t].conv # 0, NEW q \in Forgotten(t)
             PROVE  q \in Elsewhere(t) \cup NotBrought(t)
  BY DEF ContextKept, Answered
<1>1. PICK o \in Sessions : o = req[t].session
  BY OfSession DEF ChatInv
<1>2. TurnInformed(t, o) /\ req[t].conv \in Nat
  BY <1>1, OfSession DEF ChatInv, Informed
<1>3. q \in History(o) /\ q \notin upstream[o][req[t].conv].knows
  BY <1>1, <1>2 DEF Forgotten, TurnInformed
<1>4. CASE q = Old
  <2>1. CASE req[t].conv = 1
    <3>1. Settled(o) /\ ~Knows(o, 1, Old)
      BY <1>2, <1>3, <1>4, <2>1 DEF TurnInformed, Knows
    <3>2. NeverStarted(req[t].session, req[t].conv)
      BY <1>1, <2>1, <3>1 DEF Settled
    <3> QED
      BY <1>4, <3>2 DEF NotBrought
  <2>2. CASE req[t].conv > 1
    BY <1>4, <2>2 DEF NotBrought
  <2> QED
    BY <1>2, <2>1, <2>2
<1>5. CASE q # Old
  <2>1. q \in Turns /\ req[q].session = o /\ req[q].pc = "answered"
    BY <1>3, <1>5 DEF History
  <2>2. CASE req[q].conv # req[t].conv
    BY <2>1, <2>2 DEF Elsewhere
  <2>3. CASE req[q].conv = req[t].conv
    <3>1. TurnInformed(q, o)
      BY <2>1 DEF ChatInv, Informed
    <3>2. Knows(o, req[q].conv, q)
      BY <2>1, <2>3, <3>1 DEF TurnInformed
    <3> QED
      BY <1>3, <2>3, <3>2 DEF Knows
  <2> QED
    BY <2>2, <2>3
<1> QED
  BY <1>4, <1>5

-----------------------------------------------------------------------------
(* The theorems about conversations *)

(* Every state of the sessions is a state of the invariant.                *)
THEOREM ChatInvariance == ChatSpec => []ChatInv
  BY ChatInitInv, ChatNextInv, PTL DEF ChatSpec

(* The types; the session's own conversation is the last one.              *)
THEOREM ChatTypeCorrect == ChatSpec => []ChatTypeOK
<1>1. ChatInv => ChatTypeOK
  BY InvTypes DEF ChatInv, ChatTypes, ChatTypeOK
<1> QED
  BY <1>1, ChatInvariance, PTL

(* No prompt is posted twice to one conversation, whatever is repeated,    *)
(* refused, cancelled or healed.                                           *)
THEOREM PostedAtMostOnce == ChatSpec => []MessageOnce
<1>1. ChatInv => MessageOnce
  BY DEF ChatInv
<1> QED
  BY <1>1, ChatInvariance, PTL

(* An answer is given in the knowledge of the history before it, but for   *)
(* what the retries and a first turn that was never sent leave out.        *)
THEOREM Remembered == ChatSpec => []ContextKept
  BY InvContext, ChatInvariance, PTL
===============================================================================
