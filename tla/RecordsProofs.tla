----------------------------- MODULE RecordsProofs -----------------------------
(***************************************************************************)
(* Proofs about the records the process keeps of its conversations: which  *)
(* of them a cleanup takes (CloudSweep), what the usage totals count of    *)
(* their calls (CallLedger), and on whose thread one goes on               *)
(* (HistoryIndex).                                                         *)
(***************************************************************************)
EXTENDS CloudSweep, CallLedger, HistoryIndex, ListsProofs

(* What is left of a list are members of the list, without those dropped.  *)
LEMMA WithoutIs ==
  ASSUME NEW X, NEW seq \in Seq(X), NEW drops
  PROVE  /\ Without(seq, drops) \in Seq(X)
         /\ \A n \in DOMAIN Without(seq, drops) :
              Without(seq, drops)[n] \in Range(seq) \ drops
  <1> DEFINE left == {i \in DOMAIN seq : seq[i] \notin drops}
  <1>1. Without(seq, drops) = Selected(seq, left) BY DEF Without
  <1>2. left \in SUBSET DOMAIN seq /\ \A i \in left : seq[i] \in Range(seq) \ drops
    BY DEF Range
  <1> HIDE DEF left
  <1> PICK rest : rest = Selected(seq, left) OBVIOUS
  <1>3. rest \in Seq(X) /\ DOMAIN rest = 1..Cardinality(left) BY <1>2, SelectedIs
  <1>4. \A n \in 1..Cardinality(left) : \E i \in left : rest[n] = seq[i]
    BY <1>2, SelectedIs
  <1> QED BY <1>1, <1>2, <1>3, <1>4

-----------------------------------------------------------------------------
(* Idle reclaim.  A session's conversation is its own, and no conversation *)
(* is deleted that a session points at, or the deletion has yet to remove  *)
(* that session.                                                           *)

Session == [tenant : Tenants, thread : Nat, idle : BOOLEAN]

Doomed == [thread : Nat, old : BOOLEAN]

Sweep == [kind : {"none", "auto", "admin", "user", "delete"},
          pc : {"idle", "one", "unbind", "list", "delete"},
          aged : BOOLEAN, cap : Nat, spared : SUBSET Nat, kept : SUBSET Nat,
          pending : Seq(Doomed), moved : BOOLEAN, thread : Nat \cup {None},
          tenant : Tenants \cup {None}]

SweepTypes ==
  /\ open \in Seq(Session)
  /\ cloud \in Seq(Nat)
  /\ stale \subseteq Nat
  /\ gone \subseteq [thread : Nat, kind : {"none", "auto", "admin", "user", "delete"}]
  /\ minted \in Nat
  /\ running \in [Tenants -> Nat \cup {None}]
  /\ cleaners \in [Cleaners -> Sweep]

\* The conversation that is begun next is nobody's yet.
Begun ==
  /\ \A s \in Range(open) : s.thread <= minted
  /\ \A x \in Range(cloud) : x <= minted
  /\ \A x \in stale : x <= minted
  /\ \A g \in gone : g.thread <= minted
  /\ \A t \in Tenants : running[t] # None => running[t] <= minted

OwnThreads == \A s1, s2 \in Range(open) : s1.thread = s2.thread => s1 = s2

\* What a cleaner does at each step, and what it may not touch.
Kinds(c) ==
  /\ c.pc = "idle" => c.kind = "none"
  /\ c.pc \in {"one", "unbind"} => c.kind = "delete" /\ c.thread \in Nat /\ c.thread <= minted
  /\ c.pc = "list" => c.kind \in {"auto", "admin"}
  /\ c.pc = "delete" => c.kind \in {"auto", "admin", "user"}
  /\ \A i \in DOMAIN c.pending : c.pending[i].thread <= minted

Spares(c) ==
  c.kind = "auto" =>
    /\ c.cap = 0
    /\ \A s \in Range(open) :
         /\ s.thread \in c.spared \/ s.thread \notin stale
         /\ \A i \in DOMAIN c.pending : c.pending[i].old => c.pending[i].thread # s.thread

DropsOwn(c) ==
  c.kind = "user" =>
    \A s \in Range(open), i \in DOMAIN c.pending : c.pending[i].thread # s.thread

DeletesOwn(c) ==
  c.pc \in {"one", "unbind"} =>
    \A s \in Range(open) : s.thread = c.thread => s.tenant = c.tenant

Safe(c) == Kinds(c) /\ Spares(c) /\ DropsOwn(c) /\ DeletesOwn(c)

SweepInv ==
  /\ SweepTypes /\ Begun /\ OwnThreads
  /\ \A w \in Cleaners : Safe(cleaners[w])
  /\ SessionsResume

LEMMA SessionFields ==
  \A s \in Session : s.tenant \in Tenants /\ s.thread \in Nat /\ s.idle \in BOOLEAN
  BY DEF Session

LEMMA SweepFields ==
  ASSUME NEW c \in Sweep
  PROVE  /\ c.kind \in {"none", "auto", "admin", "user", "delete"}
         /\ c.pc \in {"idle", "one", "unbind", "list", "delete"}
         /\ c.aged \in BOOLEAN /\ c.cap \in Nat /\ c.spared \in SUBSET Nat
         /\ c.kept \in SUBSET Nat /\ c.pending \in Seq(Doomed) /\ c.moved \in BOOLEAN
         /\ c.thread \in Nat \cup {None} /\ c.tenant \in Tenants \cup {None}
  BY DEF Sweep

(* Sessions that were there with the same conversation, or whose           *)
(* conversation is new, hinder no cleaner.                                 *)
Carried ==
  /\ \A s \in Range(open)' :
       \/ \E r \in Range(open) : s.thread = r.thread /\ s.tenant = r.tenant
       \/ s.thread = minted + 1
  /\ stale' \subseteq stale
  /\ minted' \in Nat /\ minted <= minted'

LEMMA StillSafe ==
  ASSUME SweepInv, Carried, NEW c \in Sweep, Safe(c)
  PROVE  Safe(c)'
  <1>1. /\ minted \in Nat /\ minted' \in Nat /\ minted <= minted'
        /\ \A i \in DOMAIN c.pending : c.pending[i].thread \in Nat
    <2>1. c.pending \in Seq(Doomed) BY SweepFields
    <2>2. \A i \in DOMAIN c.pending : c.pending[i] \in Doomed BY <2>1
    <2> QED BY <2>2 DEF Carried, Doomed, SweepInv, SweepTypes
  <1>2. Kinds(c)' BY <1>1 DEF Safe, Kinds
  <1>3. \A x \in stale : x <= minted /\ x \in Nat BY DEF SweepInv, Begun, SweepTypes
  <1>4. ASSUME NEW s \in Range(open)', c.kind = "auto"
        PROVE  /\ s.thread \in c.spared \/ s.thread \notin stale'
               /\ \A i \in DOMAIN c.pending : c.pending[i].old => c.pending[i].thread # s.thread
    <2>1. CASE \E r \in Range(open) : s.thread = r.thread /\ s.tenant = r.tenant
      BY <2>1, <1>4 DEF Safe, Spares, Carried
    <2>2. CASE s.thread = minted + 1
      <3>1. s.thread \notin stale' BY <1>1, <1>3, <2>2 DEF Carried
      <3>2. \A i \in DOMAIN c.pending : c.pending[i].thread # s.thread
        BY <1>1, <2>2 DEF Safe, Kinds
      <3> QED BY <3>1, <3>2
    <2> QED BY <2>1, <2>2 DEF Carried
  <1>5. Spares(c)' BY <1>4 DEF Safe, Spares
  <1>6. ASSUME NEW s \in Range(open)', NEW i \in DOMAIN c.pending, c.kind = "user"
        PROVE  c.pending[i].thread # s.thread
    <2>1. CASE \E r \in Range(open) : s.thread = r.thread /\ s.tenant = r.tenant
      BY <2>1, <1>6 DEF Safe, DropsOwn
    <2>2. CASE s.thread = minted + 1
      BY <1>1, <2>2 DEF Safe, Kinds
    <2> QED BY <2>1, <2>2 DEF Carried
  <1>7. DropsOwn(c)' BY <1>6 DEF DropsOwn
  <1>8. ASSUME NEW s \in Range(open)', c.pc \in {"one", "unbind"}, s.thread = c.thread
        PROVE  s.tenant = c.tenant
    <2>1. CASE \E r \in Range(open) : s.thread = r.thread /\ s.tenant = r.tenant
      BY <2>1, <1>8 DEF Safe, DeletesOwn
    <2>2. CASE s.thread = minted + 1
      BY <1>1, <1>8, <2>2 DEF Safe, Kinds
    <2> QED BY <2>1, <2>2 DEF Carried
  <1>9. DeletesOwn(c)' BY <1>8 DEF DeletesOwn
  <1> QED BY <1>2, <1>5, <1>7, <1>9 DEF Safe

(* A session whose conversation was deleted is about to be removed: so the *)
(* invariant reads without its set.                                        *)
Removal(th) == \E w \in Cleaners : cleaners[w].pc = "unbind" /\ cleaners[w].thread = th

LEMMA ResumeIs ==
  SessionsResume <=>
    \A s \in Range(open), kind \in {"auto", "user", "delete"} :
      [thread |-> s.thread, kind |-> kind] \in gone => Removal(s.thread)
  BY DEF SessionsResume, BrokenBy, Removal

LEMMA StillResume ==
  ASSUME SweepInv, Carried, gone' = gone,
         \A s \in Range(open)' : Removal(s.thread) => Removal(s.thread)'
  PROVE  SessionsResume'
  <1>1. ASSUME NEW s \in Range(open)', NEW kind \in {"auto", "user", "delete"},
               [thread |-> s.thread, kind |-> kind] \in gone
        PROVE  Removal(s.thread)'
    <2>1. CASE \E r \in Range(open) : s.thread = r.thread /\ s.tenant = r.tenant
      <3>1. Removal(s.thread) BY <1>1, <2>1, ResumeIs DEF SweepInv
      <3> QED BY <3>1
    <2>2. CASE s.thread = minted + 1
      <3>1. s.thread <= minted BY <1>1 DEF SweepInv, Begun
      <3>2. minted \in Nat BY DEF SweepInv, SweepTypes
      <3> QED BY <2>2, <3>1, <3>2
    <2> QED BY <2>1, <2>2 DEF Carried
  <1>2. SessionsResume' <=>
          \A s \in Range(open)', kind \in {"auto", "user", "delete"} :
            [thread |-> s.thread, kind |-> kind] \in gone' => Removal(s.thread)'
    BY DEF SessionsResume, BrokenBy, Removal
  <1> QED BY <1>1, <1>2

(* The members of a list that grows by one, at its end or at its head.      *)
LEMMA RangeOf ==
  ASSUME NEW X, NEW seq \in Seq(X)
  PROVE  /\ \A y \in Range(seq) : y \in X
         /\ \A y \in X : /\ Append(seq, y) \in Seq(X)
                         /\ \A z \in Range(Append(seq, y)) : z \in Range(seq) \/ z = y
                         /\ <<y>> \o seq \in Seq(X)
                         /\ \A z \in Range(<<y>> \o seq) : z \in Range(seq) \/ z = y
  <1>1. \A y \in Range(seq) : y \in X BY DEF Range
  <1>2. ASSUME NEW y \in X
        PROVE  /\ Append(seq, y) \in Seq(X)
               /\ \A z \in Range(Append(seq, y)) : z \in Range(seq) \/ z = y
    <2>1. /\ Append(seq, y) \in Seq(X) /\ DOMAIN Append(seq, y) = 1..(Len(seq) + 1)
          /\ \A i \in 1..Len(seq) : Append(seq, y)[i] = seq[i]
          /\ Append(seq, y)[Len(seq) + 1] = y
      OBVIOUS
    <2>2. Len(seq) \in Nat /\ DOMAIN seq = 1..Len(seq) OBVIOUS
    <2>3. \A i \in 1..(Len(seq) + 1) : i \in 1..Len(seq) \/ i = Len(seq) + 1 BY <2>2
    <2> QED BY <2>1, <2>2, <2>3 DEF Range
  <1>3. ASSUME NEW y \in X
        PROVE  /\ <<y>> \o seq \in Seq(X)
               /\ \A z \in Range(<<y>> \o seq) : z \in Range(seq) \/ z = y
    <2>1. /\ <<y>> \o seq \in Seq(X) /\ DOMAIN (<<y>> \o seq) = 1..(1 + Len(seq))
          /\ \A i \in 1..(1 + Len(seq)) :
               (<<y>> \o seq)[i] = IF i <= 1 THEN y ELSE seq[i - 1]
      OBVIOUS
    <2>2. Len(seq) \in Nat /\ DOMAIN seq = 1..Len(seq) OBVIOUS
    <2>3. \A i \in 1..(1 + Len(seq)) : i <= 1 \/ i - 1 \in 1..Len(seq) BY <2>2
    <2> DEFINE longer == <<y>> \o seq
    <2>4. \A i \in DOMAIN longer : longer[i] = y \/ \E n \in DOMAIN seq : longer[i] = seq[n]
      BY <2>1, <2>2, <2>3
    <2> HIDE DEF longer
    <2>5. \A z \in Range(longer) : z \in Range(seq) \/ z = y BY <2>4 DEF Range
    <2> QED BY <2>1, <2>5 DEF longer
  <1> QED BY <1>1, <1>2, <1>3

LEMMA NoSweepIs ==
  /\ NoSweep \in Sweep
  /\ Safe(NoSweep) /\ Safe(NoSweep)'
  <1>1. /\ {} \in SUBSET Nat /\ <<>> \in Seq(Doomed) /\ DOMAIN <<>> = {} /\ 0 \in Nat
    OBVIOUS
  <1>2. NoSweep \in Sweep BY <1>1 DEF NoSweep, Sweep
  <1>3. /\ NoSweep.kind = "none" /\ NoSweep.pc = "idle" /\ NoSweep.pending = <<>>
    BY DEF NoSweep
  <1> QED BY <1>1, <1>2, <1>3 DEF Safe, Kinds, Spares, DropsOwn, DeletesOwn

(* Sessions that are dropped make no new one.                              *)
LEMMA SomeClosed ==
  ASSUME SweepInv, NEW drops, open' = Without(open, drops),
         UNCHANGED <<cloud, stale, gone, minted, running>>
  PROVE  /\ Carried /\ Begun' /\ OwnThreads'
         /\ open' \in Seq(Session)
         /\ \A s \in Range(open)' : s \in Range(open) \ drops
  <1>1. open \in Seq(Session) /\ minted \in Nat BY DEF SweepInv, SweepTypes
  <1>2. /\ open' \in Seq(Session)
        /\ \A n \in DOMAIN open' : open'[n] \in Range(open) \ drops
    BY <1>1, WithoutIs
  <1>3. \A s \in Range(open)' : s \in Range(open) \ drops BY <1>2 DEF Range
  <1>4. Carried BY <1>1, <1>3 DEF Carried
  <1>5. Begun' BY <1>3 DEF SweepInv, Begun
  <1>6. OwnThreads' BY <1>3 DEF SweepInv, OwnThreads
  <1> QED BY <1>2, <1>3, <1>4, <1>5, <1>6

(* One cleaner moves on, with what it may do from now on.                  *)
LEMMA CleanerMoves ==
  ASSUME SweepInv, Carried, Begun', OwnThreads',
         NEW w \in Cleaners, NEW rec \in Sweep, Begin(w, rec), Safe(rec)',
         open' \in Seq(Session), UNCHANGED <<cloud, stale, gone, minted, running>>,
         \/ cleaners[w].pc # "unbind"
         \/ \A s \in Range(open)' : s.thread # cleaners[w].thread
  PROVE  SweepInv'
  <1>1. cleaners \in [Cleaners -> Sweep] BY DEF SweepInv, SweepTypes
  <1>2. /\ cleaners' \in [Cleaners -> Sweep] /\ cleaners'[w] = rec
        /\ \A v \in Cleaners : v # w => cleaners'[v] = cleaners[v]
    BY <1>1 DEF Begin
  <1>3. SweepTypes' BY <1>2 DEF SweepInv, SweepTypes
  <1>4. ASSUME NEW v \in Cleaners PROVE Safe(cleaners[v])'
    <2>1. CASE v = w BY <1>2, <2>1 DEF Safe, Kinds, Spares, DropsOwn, DeletesOwn
    <2>2. CASE v # w
      <3>1. cleaners[v] \in Sweep /\ cleaners'[v] = cleaners[v] /\ Safe(cleaners[v])
        BY <1>1, <1>2, <2>2 DEF SweepInv
      <3> DEFINE c == cleaners[v]
      <3>2. c \in Sweep /\ Safe(c) BY <3>1
      <3> QED BY <3>1, StillSafe DEF Safe, Kinds, Spares, DropsOwn, DeletesOwn
    <2> QED BY <2>1, <2>2
  <1>5. \A s \in Range(open)' : Removal(s.thread) => Removal(s.thread)'
    BY <1>2 DEF Removal
  <1>6. SessionsResume' BY <1>5, StillResume
  <1> QED BY <1>3, <1>4, <1>6 DEF SweepInv

(* What a turn does hinders no cleaner.                                    *)
LEMMA TurnStep ==
  ASSUME SweepInv, Carried, SweepTypes', Begun', OwnThreads',
         UNCHANGED <<gone, cleaners>>
  PROVE  SweepInv'
  <1>1. ASSUME NEW w \in Cleaners PROVE Safe(cleaners[w])'
    <2> DEFINE c == cleaners[w]
    <2>1. c \in Sweep /\ Safe(c) BY DEF SweepInv, SweepTypes
    <2>2. cleaners'[w] = cleaners[w] OBVIOUS
    <2> QED BY <2>1, <2>2, StillSafe DEF Safe, Kinds, Spares, DropsOwn, DeletesOwn
  <1>2. \A s \in Range(open)' : Removal(s.thread) => Removal(s.thread)'
    BY DEF Removal
  <1>3. SessionsResume' BY <1>2, StillResume
  <1> QED BY <1>1, <1>3 DEF SweepInv

LEMMA UseSessionStep ==
  ASSUME SweepInv, NEW t \in Tenants, UseSession(t)
  PROVE  SweepInv'
  <1> DEFINE found == SessionOf(t)
             s == IF found # {} THEN CHOOSE x \in found : TRUE
                  ELSE [tenant |-> t, thread |-> minted + 1, idle |-> FALSE]
             new == [s EXCEPT !.idle = FALSE]
  <1>1. /\ open' = Append(Without(open, found), new)
        /\ running' = [running EXCEPT ![t] = s.thread]
        /\ minted' = IF found = {} THEN minted + 1 ELSE minted
        /\ UNCHANGED <<cloud, stale, gone, cleaners>>
    BY DEF UseSession
  <1>2. /\ open \in Seq(Session) /\ minted \in Nat /\ stale \subseteq Nat
        /\ running \in [Tenants -> Nat \cup {None}]
    BY DEF SweepInv, SweepTypes
  <1>3. \A r \in Range(open) : r \in Session BY <1>2, RangeOf
  <1>4. /\ s \in Session /\ s.tenant = t
        /\ s.thread = IF found = {} THEN minted + 1 ELSE s.thread
        /\ found # {} => s \in Range(open)
    <2>1. CASE found = {}
      <3>1. s = [tenant |-> t, thread |-> minted + 1, idle |-> FALSE] BY <2>1
      <3> QED BY <1>2, <2>1, <3>1 DEF Session
    <2>2. CASE found # {}
      <3>1. s \in found BY <2>2
      <3> QED BY <1>3, <2>2, <3>1 DEF SessionOf
    <2> QED BY <2>1, <2>2
  <1> HIDE DEF s
  <1>5. new \in Session /\ new.tenant = t /\ new.thread = s.thread
    BY <1>4 DEF Session
  <1> HIDE DEF new
  <1>6. /\ Without(open, found) \in Seq(Session)
        /\ \A r \in Range(Without(open, found)) : r \in Range(open) /\ r.tenant # t
    <2>1. /\ Without(open, found) \in Seq(Session)
          /\ \A n \in DOMAIN Without(open, found) : Without(open, found)[n] \in Range(open) \ found
      BY <1>2, WithoutIs
    <2>2. \A r \in Range(open) \ found : r.tenant # t BY DEF SessionOf
    <2> QED BY <2>1, <2>2 DEF Range
  <1> HIDE DEF found
  <1>7. /\ open' \in Seq(Session)
        /\ \A r \in Range(open)' : (r \in Range(open) /\ r.tenant # t) \/ r = new
    BY <1>1, <1>5, <1>6, RangeOf
  <1>8. /\ minted' \in Nat /\ minted <= minted'
        /\ s.thread <= minted'
        /\ s.thread # minted + 1 => s \in Range(open)
    <2>1. CASE found = {} BY <1>1, <1>2, <1>4, <2>1
    <2>2. CASE found # {} BY <1>1, <1>2, <1>4, <2>2 DEF SweepInv, Begun
    <2> QED BY <2>1, <2>2
  <1>9. Carried
    BY <1>1, <1>4, <1>5, <1>7, <1>8 DEF Carried
  <1>10. SweepTypes'
    <2>1. s.thread \in Nat BY <1>4, SessionFields
    <2>2. running' \in [Tenants -> Nat \cup {None}] BY <1>1, <1>2, <2>1
    <2> QED BY <1>1, <1>7, <1>8, <2>2 DEF SweepInv, SweepTypes
  <1>11. Begun'
    <2>1. \A n \in Nat : n <= minted => n <= minted' BY <1>2, <1>8
    <2>2. \A r \in Range(open)' : r.thread <= minted'
      <3>1. \A r \in Range(open) : r.thread \in Nat /\ r.thread <= minted
        BY <1>3, SessionFields DEF SweepInv, Begun
      <3> QED BY <1>5, <1>7, <1>8, <2>1, <3>1
    <2>3. /\ \A x \in Range(cloud) : x \in Nat /\ x <= minted
          /\ \A x \in stale : x \in Nat /\ x <= minted
          /\ \A g \in gone : g.thread \in Nat /\ g.thread <= minted
      BY RangeOf DEF SweepInv, SweepTypes, Begun
    <2>4. \A u \in Tenants : running'[u] # None => running'[u] <= minted'
      <3>1. \A u \in Tenants : running'[u] = IF u = t THEN s.thread ELSE running[u]
        BY <1>1, <1>2
      <3>2. \A u \in Tenants : running[u] # None => running[u] \in Nat BY <1>2
      <3> QED BY <1>8, <2>1, <3>1, <3>2 DEF SweepInv, Begun
    <2> QED BY <1>1, <2>1, <2>2, <2>3, <2>4 DEF Begun
  <1>12. OwnThreads'
    <2>1. ASSUME NEW r \in Range(open), r.tenant # t PROVE r.thread # new.thread
      <3>1. CASE s \in Range(open) BY <1>4, <1>5, <2>1, <3>1 DEF SweepInv, OwnThreads
      <3>2. CASE s.thread = minted + 1
        <4>1. r.thread \in Nat /\ r.thread <= minted
          BY <1>3, SessionFields DEF SweepInv, Begun
        <4> QED BY <1>2, <1>5, <3>2, <4>1
      <3> QED BY <1>8, <3>1, <3>2
    <2> QED BY <1>7, <2>1 DEF SweepInv, OwnThreads
  <1> QED BY <1>1, <1>9, <1>10, <1>11, <1>12, TurnStep

LEMMA PostPromptStep ==
  ASSUME SweepInv, NEW t \in Tenants, PostPrompt(t)
  PROVE  SweepInv'
  <1>1. /\ running[t] # None /\ running' = [running EXCEPT ![t] = None]
        /\ UNCHANGED <<open, gone, minted, cleaners>>
        /\ \/ UNCHANGED <<cloud, stale>>
           \/ /\ cloud' = <<running[t]>> \o Without(cloud, {running[t]})
              /\ stale' = stale \ {running[t]}
    BY DEF PostPrompt
  <1>2. /\ cloud \in Seq(Nat) /\ minted \in Nat /\ stale \subseteq Nat
        /\ running \in [Tenants -> Nat \cup {None}]
    BY DEF SweepInv, SweepTypes
  <1>3. running[t] \in Nat /\ running[t] <= minted
    BY <1>1, <1>2 DEF SweepInv, Begun
  <1>4. stale' \subseteq stale BY <1>1
  <1>5. /\ cloud' \in Seq(Nat)
        /\ \A x \in Range(cloud)' : x \in Range(cloud) \/ x = running[t]
    <2> DEFINE rest == Without(cloud, {running[t]})
    <2>1. /\ rest \in Seq(Nat)
          /\ \A n \in DOMAIN rest : rest[n] \in Range(cloud) \ {running[t]}
      BY <1>2, WithoutIs
    <2> HIDE DEF rest
    <2>2. \A x \in Range(rest) : x \in Range(cloud) BY <2>1 DEF Range
    <2>3. CASE UNCHANGED <<cloud, stale>> BY <1>2, <2>3
    <2>4. CASE cloud' = <<running[t]>> \o rest
      BY <1>3, <2>1, <2>2, <2>4, RangeOf
    <2> QED BY <1>1, <2>3, <2>4 DEF rest
  <1>6. Carried BY <1>1, <1>2, <1>4 DEF Carried
  <1>7. running' \in [Tenants -> Nat \cup {None}] BY <1>1, <1>2
  <1>8. SweepTypes' BY <1>1, <1>2, <1>4, <1>5, <1>7 DEF SweepInv, SweepTypes
  <1>9. \A u \in Tenants : running'[u] # None => running'[u] <= minted
    <2>1. \A u \in Tenants : running'[u] = IF u = t THEN None ELSE running[u]
      BY <1>1, <1>2
    <2> QED BY <2>1 DEF SweepInv, Begun
  <1>10. Begun' BY <1>1, <1>3, <1>4, <1>5, <1>9 DEF SweepInv, Begun
  <1>11. OwnThreads' BY <1>1 DEF SweepInv, OwnThreads
  <1> QED BY <1>1, <1>6, <1>8, <1>10, <1>11, TurnStep

LEMMA RenewThreadStep ==
  ASSUME SweepInv, NEW t \in Tenants, RenewThread(t)
  PROVE  SweepInv'
  <1> DEFINE Moved(s) == IF s.thread = running[t] THEN [s EXCEPT !.thread = minted + 1] ELSE s
  <1>1. /\ running[t] # None /\ minted' = minted + 1
        /\ open' = [i \in DOMAIN open |-> Moved(open[i])]
        /\ running' = [running EXCEPT ![t] = minted + 1]
        /\ UNCHANGED <<cloud, stale, gone, cleaners>>
    BY DEF RenewThread
  <1>2. /\ open \in Seq(Session) /\ minted \in Nat
        /\ running \in [Tenants -> Nat \cup {None}]
    BY DEF SweepInv, SweepTypes
  <1>3. ASSUME NEW s \in Session
        PROVE  /\ Moved(s) \in Session
               /\ \/ s.thread = running[t] /\ Moved(s).thread = minted + 1
                  \/ Moved(s) = s
    BY <1>2, <1>3 DEF Session
  <1>4. \A r \in Range(open) : r \in Session BY <1>2, RangeOf
  <1>5. \A r \in Range(open)' : \E s \in Range(open) : r = Moved(s)
    <2> HIDE DEF Moved
    <2> QED BY <1>1 DEF Range
  <1>6. open' \in Seq(Session)
    <2>1. \A i \in DOMAIN open : open[i] \in Session BY <1>2
    <2>2. DOMAIN open = 1..Len(open) /\ Len(open) \in Nat BY <1>2
    <2> HIDE DEF Moved
    <2> QED BY <1>1, <1>3, <2>1, <2>2
  <1>7. \A s \in Range(open) : Moved(s) = s \/ (Moved(s).thread = minted + 1 /\ s.thread = running[t])
    BY <1>3, <1>4
  <1>8. Carried
    <2> HIDE DEF Moved
    <2> QED BY <1>1, <1>2, <1>5, <1>7 DEF Carried
  <1>9. SweepTypes'
    <2>1. running' \in [Tenants -> Nat \cup {None}] BY <1>1, <1>2
    <2> QED BY <1>1, <1>2, <1>6, <2>1 DEF SweepInv, SweepTypes
  <1>10. \A n \in Nat : n <= minted => n <= minted' BY <1>1, <1>2
  <1>11. Begun'
    <2>1. \A r \in Range(open)' : r.thread <= minted'
      <3>1. \A r \in Range(open) : r.thread \in Nat /\ r.thread <= minted
        BY <1>4, SessionFields DEF SweepInv, Begun
      <3> HIDE DEF Moved
      <3> QED BY <1>1, <1>2, <1>5, <1>7, <1>10, <3>1
    <2>2. /\ \A x \in Range(cloud) : x \in Nat /\ x <= minted
          /\ \A x \in stale : x \in Nat /\ x <= minted
          /\ \A g \in gone : g.thread \in Nat /\ g.thread <= minted
      BY RangeOf DEF SweepInv, SweepTypes, Begun
    <2>3. \A u \in Tenants : running'[u] # None => running'[u] <= minted'
      <3>1. \A u \in Tenants : running'[u] = IF u = t THEN minted + 1 ELSE running[u]
        BY <1>1, <1>2
      <3>2. \A u \in Tenants : running[u] # None => running[u] \in Nat BY <1>2
      <3> QED BY <1>1, <1>2, <1>10, <3>1, <3>2 DEF SweepInv, Begun
    <2> QED BY <1>1, <1>10, <2>1, <2>2, <2>3 DEF Begun
  <1>12. OwnThreads'
    <2> SUFFICES ASSUME NEW r1 \in Range(open)', NEW r2 \in Range(open)',
                        r1.thread = r2.thread
                 PROVE  r1 = r2
      BY DEF OwnThreads
    <2>1. PICK s1 \in Range(open) : r1 = Moved(s1) BY <1>5
    <2>2. PICK s2 \in Range(open) : r2 = Moved(s2) BY <1>5
    <2>3. /\ s1.thread \in Nat /\ s1.thread <= minted
          /\ s2.thread \in Nat /\ s2.thread <= minted
      BY <1>4, SessionFields DEF SweepInv, Begun
    <2> HIDE DEF Moved
    <2>4. s1.thread = s2.thread BY <1>2, <1>7, <2>1, <2>2, <2>3
    <2> QED BY <2>1, <2>2, <2>4 DEF SweepInv, OwnThreads
  <1> QED BY <1>1, <1>8, <1>9, <1>11, <1>12, TurnStep

(* Hours pass only while nobody cleans, so no cleaner holds a list that is *)
(* out of date.                                                            *)
LEMMA HoursPassStep ==
  ASSUME SweepInv, HoursPass
  PROVE  SweepInv'
  <1>1. /\ \A w \in Cleaners : cleaners[w].pc = "idle"
        /\ UNCHANGED <<cloud, gone, minted, running, cleaners>>
        /\ open' = open \/ open' = [i \in DOMAIN open |-> [open[i] EXCEPT !.idle = TRUE]]
        /\ stale' = stale \/ stale' = Range(cloud)
    BY DEF HoursPass
  <1>2. /\ open \in Seq(Session) /\ cloud \in Seq(Nat) /\ minted \in Nat
        /\ cleaners \in [Cleaners -> Sweep]
    BY DEF SweepInv, SweepTypes
  <1>3. \A r \in Range(open) : r \in Session BY <1>2, RangeOf
  <1> DEFINE Aged(s) == [s EXCEPT !.idle = TRUE]
  <1>4. ASSUME NEW s \in Session
        PROVE  /\ Aged(s) \in Session
               /\ Aged(s).thread = s.thread /\ Aged(s).tenant = s.tenant
    BY DEF Session
  <1>5. open' \in Seq(Session)
    <2>1. \A i \in DOMAIN open : open[i] \in Session BY <1>2
    <2>2. DOMAIN open = 1..Len(open) /\ Len(open) \in Nat BY <1>2
    <2>3. open' = open \/ open' = [i \in DOMAIN open |-> Aged(open[i])] BY <1>1
    <2>4. \A i \in DOMAIN open : Aged(open[i]) \in Session BY <1>4, <2>1
    <2> HIDE DEF Aged
    <2>5. CASE open' = [i \in DOMAIN open |-> Aged(open[i])] BY <2>2, <2>4, <2>5
    <2> QED BY <1>2, <2>3, <2>5
  <1>6. \/ \A r \in Range(open)' : r \in Range(open)
        \/ \A r \in Range(open)' : \E s \in Range(open) : r = Aged(s)
    BY <1>1 DEF Range
  <1> HIDE DEF Aged
  <1>7. \A r \in Range(open)' : \E s \in Range(open) : r.thread = s.thread /\ r.tenant = s.tenant
    BY <1>3, <1>4, <1>6
  <1>8. stale' \subseteq Nat /\ \A x \in stale' : x <= minted
    BY <1>1, <1>2, RangeOf DEF SweepInv, SweepTypes, Begun
  <1>9. SweepTypes' BY <1>1, <1>5, <1>8 DEF SweepInv, SweepTypes
  <1>10. Begun' BY <1>1, <1>7, <1>8 DEF SweepInv, Begun
  <1>11. OwnThreads'
    <2> SUFFICES ASSUME NEW r1 \in Range(open)', NEW r2 \in Range(open)',
                        r1.thread = r2.thread
                 PROVE  r1 = r2
      BY DEF OwnThreads
    <2>1. CASE \A r \in Range(open)' : r \in Range(open)
      BY <2>1 DEF SweepInv, OwnThreads
    <2>2. CASE \A r \in Range(open)' : \E s \in Range(open) : r = Aged(s)
      BY <1>3, <1>4, <2>2 DEF SweepInv, OwnThreads
    <2> QED BY <1>6, <2>1, <2>2
  <1>12. ASSUME NEW w \in Cleaners PROVE Safe(cleaners[w])'
    <2>1. Kinds(cleaners[w]) BY DEF SweepInv, Safe
    <2>2. cleaners'[w] = cleaners[w] BY <1>1
    <2> DEFINE c == cleaners[w]
    <2>3. Kinds(c)' BY <1>1, <2>1, <2>2 DEF Kinds
    <2>4. c.kind = "none" /\ c.pc = "idle" BY <1>1, <2>1 DEF Kinds
    <2> QED BY <2>2, <2>3, <2>4 DEF Safe, Spares, DropsOwn, DeletesOwn
  <1>13. SessionsResume'
    <2>1. ASSUME NEW r \in Range(open)', NEW kind \in {"auto", "user", "delete"},
                 [thread |-> r.thread, kind |-> kind] \in gone
          PROVE  Removal(r.thread)
      <3>1. PICK s \in Range(open) : r.thread = s.thread /\ r.tenant = s.tenant BY <1>7
      <3>2. Removal(s.thread) BY <2>1, <3>1, ResumeIs DEF SweepInv
      <3> QED BY <3>1, <3>2
    <2>2. \A th : Removal(th) => Removal(th)' BY <1>1 DEF Removal
    <2>3. SessionsResume' <=>
          \A s \in Range(open)', kind \in {"auto", "user", "delete"} :
            [thread |-> s.thread, kind |-> kind] \in gone' => Removal(s.thread)'
      BY DEF SessionsResume, BrokenBy, Removal
    <2> QED BY <1>1, <2>1, <2>2, <2>3
  <1> QED BY <1>9, <1>10, <1>11, <1>12, <1>13 DEF SweepInv

(* Cleanings begin.  The loop spares the conversations of all the sessions *)
(* it leaves; a user's cleanup takes those of the sessions it dropped.     *)
LEMMA BeginAutoStep ==
  ASSUME SweepInv, NEW w \in Cleaners, NEW sessionsAge \in BOOLEAN,
         BeginAuto(w, sessionsAge)
  PROVE  SweepInv'
  <1> DEFINE drops == IF sessionsAge THEN Pruned(Tenants, TRUE, 0) ELSE {}
             sweep == [NoSweep EXCEPT !.kind = "auto", !.pc = "list", !.aged = TRUE,
                                   !.spared = Spared(Range(open'))]
  <1> PICK rec : rec = sweep OBVIOUS
  <1>1. /\ cleaners[w].pc = "idle" /\ open' = Without(open, drops) /\ Begin(w, rec)
        /\ UNCHANGED <<cloud, stale, gone, minted, running>>
    BY DEF BeginAuto
  <1> HIDE DEF drops
  <1>2. /\ Carried /\ Begun' /\ OwnThreads' /\ open' \in Seq(Session)
    BY <1>1, SomeClosed
  <1>3. Spared(Range(open')) \in SUBSET Nat
    BY <1>2, RangeOf, SessionFields DEF Spared, ThreadsOf
  <1>4. /\ NoSweep \in Sweep /\ NoSweep.pending = <<>> /\ NoSweep.cap = 0
    BY NoSweepIs DEF NoSweep
  <1>5. /\ rec \in Sweep /\ rec.kind = "auto" /\ rec.pc = "list" /\ rec.cap = 0
        /\ rec.pending = <<>> /\ rec.spared = Spared(Range(open'))
    BY <1>3, <1>4 DEF Sweep
  <1> HIDE DEF sweep
  <1>6. Safe(rec)'
    <2>1. \A s \in Range(open') : s.thread \in rec.spared
      BY <1>5 DEF Spared, ThreadsOf
    <2>2. DOMAIN rec.pending = {} BY <1>5
    <2> QED BY <1>5, <2>1, <2>2 DEF Safe, Kinds, Spares, DropsOwn, DeletesOwn
  <1> QED BY <1>1, <1>2, <1>5, <1>6, CleanerMoves

LEMMA BeginAdminStep ==
  ASSUME SweepInv, NEW w \in Cleaners, NEW scope, NEW aged \in BOOLEAN, NEW cap \in 0..1,
         BeginAdmin(w, scope, aged, cap)
  PROVE  SweepInv'
  <1> DEFINE drops == Pruned(scope, aged, cap)
             spared == Spared({s \in Range(open') : s.tenant \in scope})
             sweep == [NoSweep EXCEPT !.kind = "admin", !.pc = "list", !.aged = aged, !.cap = cap,
                                   !.spared = spared]
  <1> PICK rec : rec = sweep OBVIOUS
  <1>1. /\ cleaners[w].pc = "idle" /\ open' = Without(open, drops) /\ Begin(w, rec)
        /\ UNCHANGED <<cloud, stale, gone, minted, running>>
    BY DEF BeginAdmin
  <1> HIDE DEF drops
  <1>2. /\ Carried /\ Begun' /\ OwnThreads' /\ open' \in Seq(Session)
    BY <1>1, SomeClosed
  <1>3. spared \in SUBSET Nat
    BY <1>2, RangeOf, SessionFields DEF Spared, ThreadsOf
  <1> HIDE DEF spared
  <1>4. /\ NoSweep \in Sweep /\ NoSweep.pending = <<>>
    BY NoSweepIs DEF NoSweep
  <1>5. /\ rec \in Sweep /\ rec.kind = "admin" /\ rec.pc = "list" /\ rec.pending = <<>>
    <2>1. cap \in Nat OBVIOUS
    <2> QED BY <1>3, <1>4, <2>1 DEF Sweep
  <1> HIDE DEF sweep
  <1>6. Safe(rec)'
    <2>1. DOMAIN rec.pending = {} BY <1>5
    <2> QED BY <1>5, <2>1 DEF Safe, Kinds, Spares, DropsOwn, DeletesOwn
  <1> QED BY <1>1, <1>2, <1>5, <1>6, CleanerMoves

LEMMA BeginUserStep ==
  ASSUME SweepInv, NEW w \in Cleaners, NEW t \in Tenants, NEW aged \in BOOLEAN,
         NEW cap \in 0..1, BeginUser(w, t, aged, cap)
  PROVE  SweepInv'
  <1> DEFINE drops == Pruned({t}, aged, cap)
             doomed == Without(open, Range(open) \ drops)
             taken == [i \in DOMAIN doomed |-> [thread |-> doomed[i].thread, old |-> TRUE]]
             sweep == [NoSweep EXCEPT !.kind = "user", !.pc = "delete", !.pending = taken]
  <1> PICK rec : rec = sweep OBVIOUS
  <1>1. /\ cleaners[w].pc = "idle" /\ open' = Without(open, drops) /\ Begin(w, rec)
        /\ UNCHANGED <<cloud, stale, gone, minted, running>>
    BY DEF BeginUser
  <1> HIDE DEF drops
  <1>2. /\ Carried /\ Begun' /\ OwnThreads' /\ open' \in Seq(Session)
        /\ \A s \in Range(open)' : s \in Range(open) \ drops
    BY <1>1, SomeClosed
  <1>3. open \in Seq(Session) /\ minted \in Nat BY DEF SweepInv, SweepTypes
  <1>4. /\ doomed \in Seq(Session)
        /\ \A n \in DOMAIN doomed : doomed[n] \in Range(open) \cap drops
    <2>1. /\ doomed \in Seq(Session)
          /\ \A n \in DOMAIN doomed : doomed[n] \in Range(open) \ (Range(open) \ drops)
      BY <1>3, WithoutIs
    <2> QED BY <2>1
  <1> HIDE DEF doomed
  <1>5. /\ taken \in Seq(Doomed) /\ DOMAIN taken = DOMAIN doomed
        /\ \A i \in DOMAIN taken : taken[i].thread = doomed[i].thread
    <2>1. \A i \in DOMAIN doomed : doomed[i].thread \in Nat
      BY <1>4, SessionFields
    <2>2. DOMAIN doomed = 1..Len(doomed) /\ Len(doomed) \in Nat BY <1>4
    <2> QED BY <2>1, <2>2 DEF Doomed
  <1> HIDE DEF taken
  <1>6. NoSweep \in Sweep BY NoSweepIs
  <1>7. /\ rec \in Sweep /\ rec.kind = "user" /\ rec.pc = "delete" /\ rec.pending = taken
    BY <1>5, <1>6 DEF Sweep
  <1> HIDE DEF sweep
  <1>8. Safe(rec)'
    <2>1. \A i \in DOMAIN taken : taken[i].thread <= minted
      BY <1>4, <1>5 DEF SweepInv, Begun
    <2>2. \A s \in Range(open'), i \in DOMAIN taken : taken[i].thread # s.thread
      BY <1>2, <1>4, <1>5 DEF SweepInv, OwnThreads
    <2> QED BY <1>1, <1>7, <2>1, <2>2 DEF Safe, Kinds, Spares, DropsOwn, DeletesOwn
  <1> QED BY <1>1, <1>2, <1>7, <1>8, CleanerMoves

(* One session, or a conversation that no session points at.               *)
LEMMA BeginDeleteStep ==
  ASSUME SweepInv, NEW w \in Cleaners, NEW t \in Tenants, BeginDelete(w, t)
  PROVE  SweepInv'
  <1>1. /\ cleaners[w].pc = "idle" /\ UNCHANGED <<open, cloud, stale, gone, minted, running>>
        /\ \/ \E s \in SessionOf(t) :
                Begin(w, [NoSweep EXCEPT !.kind = "delete", !.pc = "one", !.thread = s.thread, !.tenant = t])
           \/ \E thread \in Range(cloud) \ ThreadsOf(Range(open)) :
                Begin(w, [NoSweep EXCEPT !.kind = "delete", !.pc = "one", !.thread = thread])
    BY DEF BeginDelete
  <1>2. /\ open \in Seq(Session) /\ minted \in Nat /\ cloud \in Seq(Nat)
    BY DEF SweepInv, SweepTypes
  <1>3. Carried
    <2>1. open' = open /\ stale' = stale /\ minted' = minted BY <1>1
    <2> QED BY <1>2, <2>1 DEF Carried
  <1>4. Begun' /\ OwnThreads' /\ open' \in Seq(Session)
    BY <1>1, <1>2 DEF SweepInv, Begun, OwnThreads
  <1>5. NoSweep \in Sweep /\ NoSweep.pending = <<>> BY NoSweepIs DEF NoSweep
  <1>6. ASSUME NEW rec \in Sweep, Begin(w, rec), rec.kind = "delete", rec.pc = "one",
               rec.pending = <<>>, rec.thread \in Nat, rec.thread <= minted,
               \A s \in Range(open) : s.thread = rec.thread => s.tenant = rec.tenant
        PROVE  SweepInv'
    <2>1. DOMAIN rec.pending = {} BY <1>6
    <2>2. Safe(rec)' BY <1>1, <1>6, <2>1 DEF Safe, Kinds, Spares, DropsOwn, DeletesOwn
    <2> QED BY <1>1, <1>3, <1>4, <1>6, <2>2, CleanerMoves
  <1>7. ASSUME NEW s \in SessionOf(t),
               Begin(w, [NoSweep EXCEPT !.kind = "delete", !.pc = "one", !.thread = s.thread, !.tenant = t])
        PROVE  SweepInv'
    <2> DEFINE rec == [NoSweep EXCEPT !.kind = "delete", !.pc = "one", !.thread = s.thread, !.tenant = t]
    <2>1. s \in Range(open) /\ s.tenant = t /\ s.thread \in Nat
      BY <1>2, RangeOf, SessionFields DEF SessionOf
    <2>2. /\ rec \in Sweep /\ rec.kind = "delete" /\ rec.pc = "one" /\ rec.pending = <<>>
          /\ rec.thread = s.thread /\ rec.tenant = t
      BY <1>5, <2>1 DEF Sweep
    <2>3. Begin(w, rec) BY <1>7
    <2> HIDE DEF rec
    <2> QED BY <1>6, <2>1, <2>2, <2>3 DEF SweepInv, Begun, OwnThreads
  <1>8. ASSUME NEW thread \in Range(cloud) \ ThreadsOf(Range(open)),
               Begin(w, [NoSweep EXCEPT !.kind = "delete", !.pc = "one", !.thread = thread])
        PROVE  SweepInv'
    <2> DEFINE rec == [NoSweep EXCEPT !.kind = "delete", !.pc = "one", !.thread = thread]
    <2>1. thread \in Nat /\ thread <= minted BY <1>2, RangeOf DEF SweepInv, Begun
    <2>2. /\ rec \in Sweep /\ rec.kind = "delete" /\ rec.pc = "one" /\ rec.pending = <<>>
          /\ rec.thread = thread
      BY <1>5, <2>1 DEF Sweep
    <2>3. Begin(w, rec) BY <1>8
    <2> HIDE DEF rec
    <2>4. \A s \in Range(open) : s.thread # thread BY DEF ThreadsOf
    <2> QED BY <1>6, <2>1, <2>2, <2>3, <2>4
  <1> QED BY <1>1, <1>7, <1>8

(* A deletion upstream takes a conversation that no session points at, but *)
(* for an admin's, or the session is removed next.                         *)
LEMMA UpstreamMoves ==
  ASSUME SweepInv, NEW w \in Cleaners, NEW thread \in Nat, thread <= minted,
         NEW deleted \in BOOLEAN, Upstream(w, thread, deleted),
         NEW rec \in Sweep, Begin(w, rec), Safe(rec)', cleaners[w].pc # "unbind",
         UNCHANGED <<open, minted, running>>,
         \/ ~ deleted
         \/ \A s \in Range(open) : s.thread # thread
         \/ cleaners[w].kind = "admin"
         \/ rec.pc = "unbind" /\ rec.thread = thread
  PROVE  SweepInv'
  <1>1. /\ open \in Seq(Session) /\ cloud \in Seq(Nat) /\ minted \in Nat /\ stale \subseteq Nat
        /\ cleaners \in [Cleaners -> Sweep]
        /\ gone \subseteq [thread : Nat, kind : {"none", "auto", "admin", "user", "delete"}]
    BY DEF SweepInv, SweepTypes
  <1>2. /\ cleaners' \in [Cleaners -> Sweep] /\ cleaners'[w] = rec
        /\ \A v \in Cleaners : v # w => cleaners'[v] = cleaners[v]
    BY <1>1 DEF Begin
  <1> DEFINE deletion == [thread |-> thread, kind |-> cleaners[w].kind]
  <1>3. \/ UNCHANGED <<cloud, stale, gone>>
        \/ /\ deleted /\ cloud' = Without(cloud, {thread}) /\ stale' = stale \ {thread}
           /\ gone' = gone \cup {deletion}
    BY DEF Upstream
  <1>4. /\ cloud' \in Seq(Nat) /\ \A x \in Range(cloud)' : x \in Range(cloud)
    <2> DEFINE rest == Without(cloud, {thread})
    <2>1. /\ rest \in Seq(Nat)
          /\ \A n \in DOMAIN rest : rest[n] \in Range(cloud) \ {thread}
      BY <1>1, WithoutIs
    <2>2. cloud' = cloud \/ cloud' = rest BY <1>3
    <2> HIDE DEF rest
    <2>3. \A x \in Range(rest) : x \in Range(cloud) BY <2>1 DEF Range
    <2> QED BY <1>1, <2>1, <2>2, <2>3
  <1>5. stale' \subseteq stale BY <1>3
  <1>6. deletion \in [thread : Nat, kind : {"none", "auto", "admin", "user", "delete"}]
    BY <1>1, SweepFields
  <1>7. gone' = gone \/ gone' = gone \cup {deletion} BY <1>3
  <1>8. deletion.thread = thread /\ deletion.kind = cleaners[w].kind OBVIOUS
  <1>9. SweepTypes'
    <2> HIDE DEF deletion
    <2> QED BY <1>1, <1>2, <1>4, <1>5, <1>6, <1>7 DEF SweepInv, SweepTypes
  <1>10. Begun'
    <2> HIDE DEF deletion
    <2> QED BY <1>4, <1>5, <1>7, <1>8 DEF SweepInv, Begun
  <1>11. OwnThreads' BY DEF SweepInv, OwnThreads
  <1>12. Carried
    <2>1. open' = open /\ minted' = minted OBVIOUS
    <2> QED BY <1>1, <1>5, <2>1 DEF Carried
  <1>13. ASSUME NEW v \in Cleaners PROVE Safe(cleaners[v])'
    <2>1. CASE v = w BY <1>2, <2>1 DEF Safe, Kinds, Spares, DropsOwn, DeletesOwn
    <2>2. CASE v # w
      <3>1. cleaners[v] \in Sweep /\ cleaners'[v] = cleaners[v] /\ Safe(cleaners[v])
        BY <1>1, <1>2, <2>2 DEF SweepInv
      <3> DEFINE c == cleaners[v]
      <3>2. c \in Sweep /\ Safe(c) BY <3>1
      <3> QED BY <1>12, <3>1, StillSafe DEF Safe, Kinds, Spares, DropsOwn, DeletesOwn
    <2> QED BY <2>1, <2>2
  <1>14. ASSUME NEW s \in Range(open), NEW kind \in {"auto", "user", "delete"},
                [thread |-> s.thread, kind |-> kind] \in gone'
         PROVE  Removal(s.thread)'
    <2>1. CASE [thread |-> s.thread, kind |-> kind] \in gone
      <3>1. Removal(s.thread) BY <2>1, ResumeIs DEF SweepInv
      <3> QED BY <1>2, <3>1 DEF Removal
    <2>2. CASE [thread |-> s.thread, kind |-> kind] \notin gone
      <3>1. deleted /\ [thread |-> s.thread, kind |-> kind] = deletion BY <1>3, <1>14, <2>2
      <3>2. s.thread = thread /\ kind = cleaners[w].kind BY <3>1
      <3>3. rec.pc = "unbind" /\ rec.thread = s.thread BY <3>1, <3>2
      <3> QED BY <1>2, <3>3 DEF Removal
    <2> QED BY <2>1, <2>2
  <1>15. SessionsResume'
    <2>1. SessionsResume' <=>
          \A s \in Range(open)', kind \in {"auto", "user", "delete"} :
            [thread |-> s.thread, kind |-> kind] \in gone' => Removal(s.thread)'
      BY DEF SessionsResume, BrokenBy, Removal
    <2> QED BY <1>14, <2>1
  <1> QED BY <1>9, <1>10, <1>11, <1>13, <1>15 DEF SweepInv

LEMMA DeleteUpstreamStep ==
  ASSUME SweepInv, NEW w \in Cleaners, DeleteUpstream(w)
  PROVE  SweepInv'
  <1>1. PICK deleted \in BOOLEAN, told \in BOOLEAN :
          /\ Upstream(w, cleaners[w].thread, deleted)
          /\ Begin(w, [cleaners[w] EXCEPT !.pc = "unbind", !.moved = told])
    BY DEF DeleteUpstream
  <1>2. cleaners[w].pc = "one" /\ UNCHANGED <<open, minted, running>> BY DEF DeleteUpstream
  <1>3. cleaners[w] \in Sweep /\ Safe(cleaners[w]) BY DEF SweepInv, SweepTypes
  <1> PICK c : c = cleaners[w] OBVIOUS
  <1> PICK rec : rec = [c EXCEPT !.pc = "unbind", !.moved = told] OBVIOUS
  <1>4. /\ rec \in Sweep /\ rec.pc = "unbind" /\ rec.kind = c.kind /\ rec.thread = c.thread
        /\ rec.pending = c.pending /\ rec.tenant = c.tenant
    BY <1>3 DEF Sweep
  <1>5. /\ c.kind = "delete" /\ c.thread \in Nat /\ c.thread <= minted
        /\ \A i \in DOMAIN c.pending : c.pending[i].thread <= minted
        /\ \A s \in Range(open) : s.thread = c.thread => s.tenant = c.tenant
    BY <1>2, <1>3 DEF Safe, Kinds, DeletesOwn
  <1>6. Safe(rec)'
    BY <1>2, <1>4, <1>5 DEF Safe, Kinds, Spares, DropsOwn, DeletesOwn
  <1> QED BY <1>1, <1>2, <1>4, <1>5, <1>6, UpstreamMoves

LEMMA UnbindStep ==
  ASSUME SweepInv, NEW w \in Cleaners, Unbind(w)
  PROVE  SweepInv'
  <1>1. /\ cleaners[w].pc = "unbind" /\ open' = Without(open, Unnamed(cleaners[w]))
        /\ Begin(w, NoSweep) /\ UNCHANGED <<cloud, stale, gone, minted, running>>
    BY DEF Unbind
  <1>2. /\ Carried /\ Begun' /\ OwnThreads' /\ open' \in Seq(Session)
        /\ \A s \in Range(open)' : s \in Range(open) \ Unnamed(cleaners[w])
    BY <1>1, SomeClosed
  <1>3. DeletesOwn(cleaners[w]) BY DEF SweepInv, Safe
  <1>4. \A s \in Range(open)' : s.thread # cleaners[w].thread
    BY <1>1, <1>2, <1>3 DEF DeletesOwn, Unnamed
  <1> QED BY <1>1, <1>2, <1>4, NoSweepIs, CleanerMoves

LEMMA ListRoundStep ==
  ASSUME SweepInv, NEW w \in Cleaners, ListRound(w)
  PROVE  SweepInv'
  <1> PICK c : c = cleaners[w] OBVIOUS
  <1> DEFINE chats == Without(cloud, c.spared \cup c.kept)
             found == [i \in DOMAIN chats |-> [thread |-> chats[i],
                                               old |-> c.aged /\ chats[i] \in stale]]
  <1> PICK rec : rec = [c EXCEPT !.pc = "delete", !.moved = FALSE, !.pending = found] OBVIOUS
  <1>1. /\ c.pc = "list" /\ UNCHANGED <<open, cloud, stale, gone, minted, running>>
        /\ Begin(w, rec) \/ Begin(w, NoSweep)
    BY DEF ListRound
  <1>2. /\ open \in Seq(Session) /\ minted \in Nat /\ cloud \in Seq(Nat)
        /\ c \in Sweep /\ Safe(c)
    BY DEF SweepInv, SweepTypes
  <1>3. Carried
    <2>1. open' = open /\ stale' = stale /\ minted' = minted BY <1>1
    <2> QED BY <1>2, <2>1 DEF Carried
  <1>4. Begun' /\ OwnThreads' /\ open' \in Seq(Session)
    BY <1>1, <1>2 DEF SweepInv, Begun, OwnThreads
  <1>5. /\ chats \in Seq(Nat)
        /\ \A i \in DOMAIN chats : chats[i] \in Range(cloud) \ (c.spared \cup c.kept)
    BY <1>2, WithoutIs
  <1> HIDE DEF chats
  <1>6. /\ found \in Seq(Doomed) /\ DOMAIN found = DOMAIN chats
        /\ \A i \in DOMAIN chats : /\ found[i].thread = chats[i]
                                   /\ found[i].old => chats[i] \in stale
    <2>1. \A i \in DOMAIN chats : chats[i] \in Nat BY <1>5
    <2>2. DOMAIN chats = 1..Len(chats) /\ Len(chats) \in Nat BY <1>5
    <2> DEFINE Old(i) == c.aged /\ chats[i] \in stale
    <2>3. /\ found = [i \in DOMAIN chats |-> [thread |-> chats[i], old |-> Old(i)]]
          /\ \A i \in DOMAIN chats : Old(i) \in BOOLEAN /\ (Old(i) => chats[i] \in stale)
      OBVIOUS
    <2> HIDE DEF found, Old
    <2>4. DOMAIN found = DOMAIN chats BY <2>3
    <2>5. ASSUME NEW i \in DOMAIN chats
          PROVE  /\ found[i] \in Doomed /\ found[i].thread = chats[i]
                 /\ found[i].old => chats[i] \in stale
      <3>1. found[i] = [thread |-> chats[i], old |-> Old(i)] BY <2>3
      <3>2. Old(i) \in BOOLEAN /\ (Old(i) => chats[i] \in stale) BY <2>3
      <3>3. found[i].thread = chats[i] /\ found[i].old = Old(i) BY <3>1
      <3> QED BY <2>1, <3>1, <3>2, <3>3 DEF Doomed
    <2> DEFINE list == found
    <2>6. list = [i \in 1..Len(chats) |-> list[i]] BY <2>2, <2>3
    <2>7. found \in Seq(Doomed) BY <2>2, <2>4, <2>5, <2>6
    <2> QED BY <2>4, <2>5, <2>7
  <1> HIDE DEF found
  <1>7. /\ rec \in Sweep /\ rec.pc = "delete" /\ rec.kind = c.kind /\ rec.cap = c.cap
        /\ rec.spared = c.spared /\ rec.pending = found
    BY <1>2, <1>6 DEF Sweep
  <1>8. Safe(rec)'
    <2>1. c.kind \in {"auto", "admin"} BY <1>1, <1>2 DEF Safe, Kinds
    <2>2. \A i \in DOMAIN found : found[i].thread <= minted
      BY <1>5, <1>6 DEF SweepInv, Begun
    <2>3. c.kind = "auto" =>
            \A s \in Range(open), i \in DOMAIN found : found[i].old => found[i].thread # s.thread
      <3> SUFFICES ASSUME c.kind = "auto", NEW s \in Range(open), NEW i \in DOMAIN found,
                          found[i].old
                   PROVE  found[i].thread # s.thread
        OBVIOUS
      <3>1. found[i].thread \in stale /\ found[i].thread \notin c.spared BY <1>5, <1>6
      <3>2. s.thread \in c.spared \/ s.thread \notin stale BY <1>2 DEF Safe, Spares
      <3> QED BY <3>1, <3>2
    <2> QED BY <1>1, <1>2, <1>7, <2>1, <2>2, <2>3 DEF Safe, Kinds, Spares, DropsOwn, DeletesOwn
  <1> QED BY <1>1, <1>3, <1>4, <1>7, <1>8, NoSweepIs, CleanerMoves

LEMMA RoundEndsStep ==
  ASSUME SweepInv, NEW w \in Cleaners, RoundEnds(w)
  PROVE  SweepInv'
  <1> PICK c : c = cleaners[w] OBVIOUS
  <1> PICK rec : rec = [c EXCEPT !.pc = "list"] OBVIOUS
  <1>1. /\ c.pc = "delete" /\ UNCHANGED <<open, cloud, stale, gone, minted, running>>
        /\ (c.kind # "user" /\ Begin(w, rec)) \/ Begin(w, NoSweep)
    BY DEF RoundEnds
  <1>2. /\ open \in Seq(Session) /\ minted \in Nat /\ c \in Sweep /\ Safe(c)
    BY DEF SweepInv, SweepTypes
  <1>3. Carried
    <2>1. open' = open /\ stale' = stale /\ minted' = minted BY <1>1
    <2> QED BY <1>2, <2>1 DEF Carried
  <1>4. Begun' /\ OwnThreads' /\ open' \in Seq(Session)
    BY <1>1, <1>2 DEF SweepInv, Begun, OwnThreads
  <1>5. /\ rec \in Sweep /\ rec.pc = "list" /\ rec.kind = c.kind /\ rec.cap = c.cap
        /\ rec.spared = c.spared /\ rec.pending = c.pending
    BY <1>2 DEF Sweep
  <1>6. ASSUME c.kind # "user" PROVE Safe(rec)'
    BY <1>1, <1>2, <1>5, <1>6 DEF Safe, Kinds, Spares, DropsOwn, DeletesOwn
  <1> QED BY <1>1, <1>3, <1>4, <1>5, <1>6, NoSweepIs, CleanerMoves

(* One conversation of the round: the loop deletes it only when it was old *)
(* as the round began, and by then every session pointed elsewhere.        *)
LEMMA SweepOneStep ==
  ASSUME SweepInv, NEW w \in Cleaners, SweepOne(w)
  PROVE  SweepInv'
  <1> PICK c : c = cleaners[w] OBVIOUS
  <1> PICK chat : chat = Head(c.pending) OBVIOUS
  <1> PICK rest : rest = Tail(c.pending) OBVIOUS
  <1> DEFINE over == c.cap > 0 /\ Cardinality(c.kept) >= c.cap
  <1> PICK keeps : keeps = [c EXCEPT !.pending = rest, !.kept = @ \cup {chat.thread}] OBVIOUS
  <1> PICK dropped : dropped = [c EXCEPT !.pending = rest, !.moved = TRUE] OBVIOUS
  <1>1. /\ c.pc = "delete" /\ c.pending # <<>> /\ UNCHANGED <<open, minted, running>>
        /\ \/ Begin(w, keeps) /\ UNCHANGED <<cloud, stale, gone>>
           \/ /\ chat.old \/ over
              /\ \E deleted \in BOOLEAN :
                   /\ Upstream(w, chat.thread, deleted)
                   /\ \/ Begin(w, dropped)
                      \/ Begin(w, NoSweep)
                      \/ c.kind # "user" /\ Begin(w, keeps)
    BY DEF SweepOne
  <1>2. /\ open \in Seq(Session) /\ minted \in Nat /\ c \in Sweep /\ Safe(c)
    BY DEF SweepInv, SweepTypes
  <1>3. /\ c.pending \in Seq(Doomed) /\ c.pending # <<>> BY <1>1, <1>2, SweepFields
  <1>4. /\ chat \in Doomed /\ rest \in Seq(Doomed)
        /\ 1 \in DOMAIN c.pending /\ chat = c.pending[1]
        /\ \A i \in DOMAIN rest : i + 1 \in DOMAIN c.pending /\ rest[i] = c.pending[i + 1]
    BY <1>3
  <1>5. chat.thread \in Nat BY <1>4 DEF Doomed
  <1>6. /\ keeps \in Sweep /\ keeps.pc = "delete" /\ keeps.kind = c.kind /\ keeps.cap = c.cap
        /\ keeps.spared = c.spared /\ keeps.pending = rest
    BY <1>1, <1>2, <1>4, <1>5 DEF Sweep
  <1>7. /\ dropped \in Sweep /\ dropped.pc = "delete" /\ dropped.kind = c.kind
        /\ dropped.cap = c.cap /\ dropped.spared = c.spared /\ dropped.pending = rest
    BY <1>1, <1>2, <1>4 DEF Sweep
  <1>8. ASSUME NEW rec \in Sweep, rec.pc = "delete", rec.kind = c.kind, rec.cap = c.cap,
               rec.spared = c.spared, rec.pending = rest, stale' \subseteq stale
        PROVE  Safe(rec)'
    <2>1. /\ c.kind \in {"auto", "admin", "user"}
          /\ \A i \in DOMAIN c.pending : c.pending[i].thread <= minted
      BY <1>1, <1>2 DEF Safe, Kinds
    <2>2. Kinds(rec)' BY <1>1, <1>4, <1>8, <2>1 DEF Kinds
    <2>3. Spares(rec)' BY <1>1, <1>2, <1>4, <1>8 DEF Safe, Spares
    <2>4. DropsOwn(rec)' BY <1>1, <1>2, <1>4, <1>8 DEF Safe, DropsOwn
    <2>5. DeletesOwn(rec)' BY <1>8 DEF DeletesOwn
    <2> QED BY <2>2, <2>3, <2>4, <2>5 DEF Safe
  <1>9. CASE Begin(w, keeps) /\ UNCHANGED <<cloud, stale, gone>>
    <2>1. Carried
      <3>1. open' = open /\ stale' = stale /\ minted' = minted BY <1>1, <1>9
      <3> QED BY <1>2, <3>1 DEF Carried
    <2>2. Begun' /\ OwnThreads' /\ open' \in Seq(Session)
      BY <1>1, <1>2, <1>9 DEF SweepInv, Begun, OwnThreads
    <2>3. Safe(keeps)' BY <1>6, <1>8, <1>9
    <2> QED BY <1>1, <1>6, <1>9, <2>1, <2>2, <2>3, CleanerMoves
  <1>10. CASE /\ chat.old \/ over
              /\ \E deleted \in BOOLEAN :
                   /\ Upstream(w, chat.thread, deleted)
                   /\ \/ Begin(w, dropped)
                      \/ Begin(w, NoSweep)
                      \/ c.kind # "user" /\ Begin(w, keeps)
    <2>1. PICK deleted \in BOOLEAN :
                   /\ Upstream(w, chat.thread, deleted)
                   /\ \/ Begin(w, dropped)
                      \/ Begin(w, NoSweep)
                      \/ c.kind # "user" /\ Begin(w, keeps)
      BY <1>10
    <2>2. stale' \subseteq stale BY <2>1 DEF Upstream
    <2>3. PICK rec \in Sweep : Begin(w, rec) /\ Safe(rec)'
      BY <1>6, <1>7, <1>8, <2>1, <2>2, NoSweepIs
    <2>4. \/ \A s \in Range(open) : s.thread # chat.thread
          \/ c.kind = "admin"
      <3>1. CASE c.kind = "auto"
        <4>1. c.cap = 0 BY <1>2, <3>1 DEF Safe, Spares
        <4>2. chat.old BY <1>10, <4>1
        <4> QED BY <1>2, <1>4, <3>1, <4>2 DEF Safe, Spares
      <3>2. CASE c.kind = "user" BY <1>2, <1>4, <3>2 DEF Safe, DropsOwn
      <3> QED BY <1>1, <1>2, <3>1, <3>2 DEF Safe, Kinds
    <2>5. chat.thread <= minted BY <1>2, <1>4 DEF Safe, Kinds
    <2> QED BY <1>1, <1>5, <2>1, <2>3, <2>4, <2>5, UpstreamMoves
  <1> QED BY <1>1, <1>9, <1>10

(* Wherever the sweeps have got to, a session resumes its conversation.    *)
LEMMA SweepInvStep ==
  ASSUME SweepInv, [SweepNext]_sweepVars
  PROVE  SweepInv'
  <1>1. ASSUME NEW t \in Tenants, UseSession(t) \/ PostPrompt(t) \/ RenewThread(t)
        PROVE  SweepInv'
    BY <1>1, UseSessionStep, PostPromptStep, RenewThreadStep
  <1>2. CASE HoursPass BY <1>2, HoursPassStep
  <1>3. ASSUME NEW w \in Cleaners, Cleans(w) PROVE SweepInv'
    <2>1. ASSUME NEW sessionsAge \in BOOLEAN, BeginAuto(w, sessionsAge) PROVE SweepInv'
      BY <2>1, BeginAutoStep
    <2>2. ASSUME NEW scope, NEW aged \in BOOLEAN, NEW cap \in 0..1,
                 BeginAdmin(w, scope, aged, cap)
          PROVE  SweepInv'
      BY <2>2, BeginAdminStep
    <2>3. ASSUME NEW t \in Tenants, NEW aged \in BOOLEAN, NEW cap \in 0..1,
                 BeginUser(w, t, aged, cap)
          PROVE  SweepInv'
      BY <2>3, BeginUserStep
    <2>4. ASSUME NEW t \in Tenants, BeginDelete(w, t) PROVE SweepInv'
      BY <2>4, BeginDeleteStep
    <2>5. CASE DeleteUpstream(w) BY <2>5, DeleteUpstreamStep
    <2>6. CASE Unbind(w) BY <2>6, UnbindStep
    <2>7. CASE ListRound(w) BY <2>7, ListRoundStep
    <2>8. CASE SweepOne(w) BY <2>8, SweepOneStep
    <2>9. CASE RoundEnds(w) BY <2>9, RoundEndsStep
    <2> QED BY <1>3, <2>1, <2>2, <2>3, <2>4, <2>5, <2>6, <2>7, <2>8, <2>9 DEF Cleans
  <1>4. CASE UNCHANGED sweepVars
    BY <1>4 DEF sweepVars, SweepInv, SweepTypes, Begun, OwnThreads, Safe, Kinds, Spares,
               DropsOwn, DeletesOwn, SessionsResume, BrokenBy
  <1> QED BY <1>1, <1>2, <1>3, <1>4 DEF SweepNext

(* Neither the auto-clean loop nor a user's cleanup or deletion leaves a   *)
(* session behind that points at a deleted conversation, whatever sessions *)
(* are used, begun and renewed while it awaits upstream: the age of a      *)
(* conversation is read in the round that deletes it, a session of the     *)
(* meantime has a younger one, and a deletion whose answer is lost still   *)
(* removes its session (session_autoclean.py, routes_sessions.py).         *)
THEOREM CleaningSpares == SweepSpec => []SessionsResume
  <1>1. SweepInit => SweepInv
    <2> SUFFICES ASSUME SweepInit PROVE SweepInv OBVIOUS
    <2>1. /\ open = <<>> /\ cloud = <<>> /\ stale = {} /\ gone = {} /\ minted = 0
          /\ running = [t \in Tenants |-> None] /\ cleaners = [w \in Cleaners |-> NoSweep]
      BY DEF SweepInit
    <2>2. Range(open) = {} /\ Range(cloud) = {} BY <2>1 DEF Range
    <2>3. SweepTypes BY <2>1, NoSweepIs DEF SweepTypes
    <2>4. Begun BY <2>1, <2>2 DEF Begun
    <2>5. OwnThreads BY <2>2 DEF OwnThreads
    <2>6. \A w \in Cleaners : Safe(cleaners[w]) BY <2>1, NoSweepIs
    <2>7. SessionsResume BY <2>2 DEF SessionsResume, BrokenBy
    <2> QED BY <2>3, <2>4, <2>5, <2>6, <2>7 DEF SweepInv
  <1>2. SweepInv /\ [SweepNext]_sweepVars => SweepInv' BY SweepInvStep
  <1>3. SweepInv => SessionsResume BY DEF SweepInv
  <1> QED BY <1>1, <1>2, <1>3, PTL DEF SweepSpec

-----------------------------------------------------------------------------
(* Sums.  The fold of the community module adds the values of a function   *)
(* over a finite set one by one, in an order of its own.                   *)

Pick(s) == CHOOSE x \in s : TRUE

Adds(f, g, s) == IF s = {} THEN 0 ELSE f[Pick(s)] + g[s \ {Pick(s)}]

Partial(f, g) == g = [s \in SUBSET DOMAIN f |-> Adds(f, g, s)]

\* g sums f over the subsets of the finite set S.
Summing(S, f, g) ==
  IsFiniteSet(S) /\ f \in [S -> Nat] /\ g \in [SUBSET S -> Nat] /\ Partial(f, g)

LEMMA SumIs ==
  ASSUME NEW f
  PROVE  SumFunction(f) = (CHOOSE g : Partial(f, g))[DOMAIN f]
  <1>1. SumFunction(f) =
           (CHOOSE g : g = [s \in SUBSET DOMAIN f |->
                 IF s = {} THEN 0
                 ELSE f[CHOOSE x \in s : TRUE] + g[s \ {CHOOSE x \in s : TRUE}]])[DOMAIN f]
    BY DEF SumFunction, SumFunctionOnSet, FoldFunctionOnSet, MapThenFoldSet
  <1> QED BY <1>1 DEF Partial, Adds, Pick

LEMMA PickIs ==
  ASSUME NEW s, s # {}
  PROVE  Pick(s) \in s
  BY DEF Pick

(* The sizes of the parts of a finite set.                                 *)
LEMMA PartSize ==
  ASSUME NEW S, IsFiniteSet(S), NEW s \in SUBSET S
  PROVE  /\ IsFiniteSet(s) /\ Cardinality(s) \in Nat
         /\ Cardinality(s) <= Cardinality(S) /\ Cardinality(S) \in Nat
         /\ Cardinality(s) = 0 <=> s = {}
         /\ \A x \in s : /\ s \ {x} \in SUBSET S
                         /\ Cardinality(s) = Cardinality(s \ {x}) + 1
  <1>1. IsFiniteSet(s) /\ Cardinality(s) <= Cardinality(S) BY FS_Subset
  <1>2. Cardinality(s) \in Nat /\ Cardinality(S) \in Nat BY <1>1, FS_CardinalityType
  <1>3. Cardinality(s) = 0 <=> s = {} BY <1>1, FS_EmptySet
  <1>4. ASSUME NEW x \in s
        PROVE  s \ {x} \in SUBSET S /\ Cardinality(s) = Cardinality(s \ {x}) + 1
    <2>1. IsFiniteSet(s \ {x}) BY <1>1, FS_RemoveElement
    <2>2. Cardinality(s \ {x}) \in Nat BY <2>1, FS_CardinalityType
    <2>3. Cardinality(s \ {x}) = Cardinality(s) - 1 BY <1>1, FS_RemoveElement
    <2> QED BY <1>2, <2>2, <2>3
  <1> QED BY <1>1, <1>2, <1>3, <1>4

LEMMA OneMore ==
  ASSUME NEW S, NEW x, IsFiniteSet(S), x \notin S
  PROVE  /\ IsFiniteSet(S \cup {x}) /\ Cardinality(S) \in Nat
         /\ Cardinality(S \cup {x}) = Cardinality(S) + 1
  BY FS_AddElement, FS_CardinalityType

(* There is a function that adds so.                                       *)
LEMMA PartialExists ==
  ASSUME NEW S, IsFiniteSet(S), NEW f \in [S -> Nat]
  PROVE  \E g \in [SUBSET S -> Nat] : Partial(f, g)
  <1> DEFINE Upto(g, n) == \A s \in SUBSET S : Cardinality(s) <= n => g[s] = Adds(f, g, s)
             T == {n \in Nat : \E g \in [SUBSET S -> Nat] : Upto(g, n)}
  <1>1. 0 \in T
    <2> DEFINE g == [s \in SUBSET S |-> 0]
    <2>1. g \in [SUBSET S -> Nat] OBVIOUS
    <2>2. ASSUME NEW s \in SUBSET S, Cardinality(s) <= 0 PROVE g[s] = Adds(f, g, s)
      <3>1. s = {} BY <2>2, PartSize
      <3> QED BY <3>1 DEF Adds
    <2>3. Upto(g, 0) BY <2>2
    <2> HIDE DEF g
    <2> QED BY <2>1, <2>3
  <1>2. ASSUME NEW n \in Nat, n \in T PROVE n + 1 \in T
    <2>1. PICK g \in [SUBSET S -> Nat] : Upto(g, n) BY <1>2
    <2> DEFINE h == [s \in SUBSET S |-> IF Cardinality(s) <= n THEN g[s] ELSE Adds(f, g, s)]
    <2>2. ASSUME NEW s \in SUBSET S, s # {}
          PROVE  /\ Pick(s) \in S /\ s \ {Pick(s)} \in SUBSET S
                 /\ Cardinality(s) = Cardinality(s \ {Pick(s)}) + 1
                 /\ Cardinality(s \ {Pick(s)}) \in Nat
                 /\ Adds(f, g, s) = f[Pick(s)] + g[s \ {Pick(s)}]
                 /\ Adds(f, g, s) \in Nat
      <3>1. Pick(s) \in s BY <2>2, PickIs
      <3>2. s \ {Pick(s)} \in SUBSET S OBVIOUS
      <3>3. f[Pick(s)] \in Nat /\ g[s \ {Pick(s)}] \in Nat BY <2>1, <3>1, <3>2
      <3>4. Adds(f, g, s) = f[Pick(s)] + g[s \ {Pick(s)}] BY <2>2 DEF Adds
      <3> QED BY <3>1, <3>2, <3>3, <3>4, PartSize
    <2>3. Adds(f, g, {}) = 0 BY DEF Adds
    <2>4. h \in [SUBSET S -> Nat]
      <3>1. ASSUME NEW s \in SUBSET S PROVE Adds(f, g, s) \in Nat
        <4>1. CASE s = {} BY <2>3, <4>1
        <4>2. CASE s # {} BY <2>2, <4>2
        <4> QED BY <4>1, <4>2
      <3> QED BY <2>1, <3>1
    <2>5. ASSUME NEW s \in SUBSET S, Cardinality(s) <= n + 1 PROVE h[s] = Adds(f, h, s)
      <3>1. CASE s = {}
        <4>1. Cardinality(s) <= n BY <3>1, FS_EmptySet
        <4>2. h[s] = g[s] /\ g[s] = Adds(f, g, s) BY <2>1, <4>1
        <4> QED BY <3>1, <4>2 DEF Adds
      <3>2. CASE s # {}
        <4>1. /\ Pick(s) \in S /\ s \ {Pick(s)} \in SUBSET S
              /\ Cardinality(s) = Cardinality(s \ {Pick(s)}) + 1
              /\ Cardinality(s \ {Pick(s)}) \in Nat
          BY <2>2, <3>2
        <4>2. Cardinality(s \ {Pick(s)}) <= n BY <2>5, <4>1
        <4>3. h[s \ {Pick(s)}] = g[s \ {Pick(s)}] BY <4>1, <4>2
        <4>4. Adds(f, h, s) = Adds(f, g, s)
          <5> HIDE DEF h
          <5> QED BY <3>2, <4>3 DEF Adds
        <4>5. h[s] = Adds(f, g, s) BY <2>1
        <4> QED BY <4>4, <4>5
      <3> QED BY <3>1, <3>2
    <2>6. Upto(h, n + 1) BY <2>5
    <2> HIDE DEF h
    <2> QED BY <2>4, <2>6
  <1> HIDE DEF T
  <1>3. Nat \subseteq T BY <1>1, <1>2, Counting
  <1>4. Cardinality(S) \in T BY <1>3, FS_CardinalityType
  <1>5. PICK g \in [SUBSET S -> Nat] : Upto(g, Cardinality(S)) BY <1>4 DEF T
  <1>6. \A s \in SUBSET S : g[s] = Adds(f, g, s) BY <1>5, PartSize
  <1>7. Partial(f, g) BY <1>5, <1>6 DEF Partial
  <1> QED BY <1>7

(* The sum does not depend on the order: any member may be added last.     *)
LEMMA AnyLast ==
  ASSUME NEW S, NEW f, NEW g, Summing(S, f, g)
  PROVE  /\ g[{}] = 0
         /\ \A s \in SUBSET S : \A x \in s : g[s] = f[x] + g[s \ {x}]
  <1> USE DEF Summing
  <1>1. \A s \in SUBSET S : g[s] = Adds(f, g, s)
    <2>1. DOMAIN f = S OBVIOUS
    <2> QED BY <2>1 DEF Partial
  <1>2. g[{}] = 0 BY <1>1 DEF Adds
  <1> DEFINE Free(s) == \A x \in s : g[s] = f[x] + g[s \ {x}]
             T == {n \in Nat : \A s \in SUBSET S : Cardinality(s) = n => Free(s)}
  <1>3. 0 \in T BY PartSize
  <1>4. ASSUME NEW n \in Nat, n \in T PROVE n + 1 \in T
    <2>1. ASSUME NEW s \in SUBSET S, Cardinality(s) = n + 1, NEW x \in s
          PROVE  g[s] = f[x] + g[s \ {x}]
      <3> DEFINE y == Pick(s)
                 rest == (s \ {x}) \ {y}
      <3>1. y \in s /\ g[s] = f[y] + g[s \ {y}]
        <4>1. y \in s BY PickIs
        <4>2. g[s] = Adds(f, g, s) BY <1>1
        <4> QED BY <4>1, <4>2 DEF Adds
      <3> HIDE DEF y
      <3>2. CASE x = y BY <3>1, <3>2
      <3>3. CASE x # y
        <4>1. /\ s \ {x} \in SUBSET S /\ s \ {y} \in SUBSET S
              /\ rest = (s \ {y}) \ {x} /\ rest \in SUBSET S
              /\ y \in s \ {x} /\ x \in s \ {y}
          BY <3>1, <3>3
        <4>2. Cardinality(s \ {x}) = n /\ Cardinality(s \ {y}) = n
          <5>1. /\ Cardinality(s \ {x}) \in Nat /\ Cardinality(s \ {y}) \in Nat
            BY <4>1, PartSize
          <5>2. /\ Cardinality(s) = Cardinality(s \ {x}) + 1
                /\ Cardinality(s) = Cardinality(s \ {y}) + 1
            BY <3>1, PartSize
          <5> QED BY <2>1, <5>1, <5>2
        <4>3. Free(s \ {x}) /\ Free(s \ {y}) BY <1>4, <4>1, <4>2
        <4>4. g[s \ {x}] = f[y] + g[rest] /\ g[s \ {y}] = f[x] + g[rest]
          BY <4>1, <4>3
        <4>5. f[x] \in Nat /\ f[y] \in Nat /\ g[rest] \in Nat BY <3>1, <4>1
        <4> HIDE DEF rest
        <4> QED BY <3>1, <4>4, <4>5
      <3> QED BY <3>2, <3>3
    <2> QED BY <2>1
  <1> HIDE DEF T
  <1>5. Nat \subseteq T BY <1>3, <1>4, Counting
  <1>6. \A s \in SUBSET S : Free(s)
    <2>1. \A s \in SUBSET S : Cardinality(s) \in Nat BY PartSize
    <2> QED BY <1>5, <2>1 DEF T
  <1> QED BY <1>2, <1>6

(* Functions that agree on a set have the same sum over it.                *)
LEMMA SameSum ==
  ASSUME NEW S, NEW f, NEW g, Summing(S, f, g),
         NEW S2, NEW f2, NEW g2, Summing(S2, f2, g2),
         NEW U, U \subseteq S, U \subseteq S2, \A x \in U : f[x] = f2[x]
  PROVE  g[U] = g2[U]
  <1> DEFINE T == {n \in Nat : \A s \in SUBSET U : Cardinality(s) = n => g[s] = g2[s]}
  <1>1. IsFiniteSet(U) BY FS_Subset DEF Summing
  <1>2. g[{}] = 0 /\ g2[{}] = 0 BY AnyLast
  <1>3. 0 \in T
    <2>1. \A s \in SUBSET U : Cardinality(s) = 0 => s = {} BY <1>1, PartSize
    <2> QED BY <1>2, <2>1
  <1>4. ASSUME NEW n \in Nat, n \in T PROVE n + 1 \in T
    <2>1. ASSUME NEW s \in SUBSET U, Cardinality(s) = n + 1 PROVE g[s] = g2[s]
      <3>1. s # {}
        <4>1. Cardinality(s) # 0 BY <2>1
        <4> QED BY <1>1, <4>1, PartSize
      <3>2. PICK x : x \in s BY <3>1
      <3>3. s \ {x} \in SUBSET U /\ Cardinality(s \ {x}) = n
        <4>1. s \ {x} \in SUBSET U OBVIOUS
        <4>2. Cardinality(s \ {x}) \in Nat BY <1>1, <4>1, PartSize
        <4>3. Cardinality(s) = Cardinality(s \ {x}) + 1 BY <1>1, <3>2, PartSize
        <4> QED BY <2>1, <4>1, <4>2, <4>3
      <3>4. g[s \ {x}] = g2[s \ {x}] BY <1>4, <3>3
      <3>5. g[s] = f[x] + g[s \ {x}]
        <4>1. s \in SUBSET S OBVIOUS
        <4> QED BY <3>2, <4>1, AnyLast
      <3>6. g2[s] = f2[x] + g2[s \ {x}]
        <4>1. s \in SUBSET S2 OBVIOUS
        <4> QED BY <3>2, <4>1, AnyLast
      <3> QED BY <3>2, <3>4, <3>5, <3>6
    <2> QED BY <2>1
  <1> HIDE DEF T
  <1>5. Nat \subseteq T BY <1>3, <1>4, Counting
  <1>6. Cardinality(U) \in T BY <1>1, <1>5, FS_CardinalityType
  <1> QED BY <1>6 DEF T

LEMMA PartialNat ==
  ASSUME NEW S, IsFiniteSet(S), NEW f \in [S -> Nat], NEW g, Partial(f, g)
  PROVE  g \in [SUBSET S -> Nat]
  <1>1. g = [s \in SUBSET S |-> Adds(f, g, s)]
    <2>1. DOMAIN f = S OBVIOUS
    <2> QED BY <2>1 DEF Partial
  <1>2. \A s \in SUBSET S : g[s] = Adds(f, g, s) BY <1>1
  <1> DEFINE T == {n \in Nat : \A s \in SUBSET S : Cardinality(s) = n => g[s] \in Nat}
  <1>3. 0 \in T
    <2>1. \A s \in SUBSET S : Cardinality(s) = 0 => s = {} BY PartSize
    <2>2. g[{}] = 0 BY <1>2 DEF Adds
    <2> QED BY <2>1, <2>2
  <1>4. ASSUME NEW n \in Nat, n \in T PROVE n + 1 \in T
    <2>1. ASSUME NEW s \in SUBSET S, Cardinality(s) = n + 1 PROVE g[s] \in Nat
      <3>1. s # {}
        <4>1. Cardinality(s) # 0 BY <2>1
        <4> QED BY <4>1, PartSize
      <3>2. Pick(s) \in s BY <3>1, PickIs
      <3>3. s \ {Pick(s)} \in SUBSET S /\ Cardinality(s \ {Pick(s)}) = n
        <4>1. s \ {Pick(s)} \in SUBSET S OBVIOUS
        <4>2. Cardinality(s \ {Pick(s)}) \in Nat BY <4>1, PartSize
        <4>3. Cardinality(s) = Cardinality(s \ {Pick(s)}) + 1 BY <3>2, PartSize
        <4> QED BY <2>1, <4>1, <4>2, <4>3
      <3>4. g[s \ {Pick(s)}] \in Nat BY <1>4, <3>3
      <3>5. f[Pick(s)] \in Nat BY <3>2
      <3>6. g[s] = Adds(f, g, s) BY <1>2
      <3> QED BY <3>1, <3>4, <3>5, <3>6 DEF Adds
    <2> QED BY <2>1
  <1> HIDE DEF T
  <1>5. Nat \subseteq T BY <1>3, <1>4, Counting
  <1>6. \A s \in SUBSET S : g[s] \in Nat
    <2>1. \A s \in SUBSET S : Cardinality(s) \in Nat BY PartSize
    <2> QED BY <1>5, <2>1 DEF T
  <1>7. g = [s \in SUBSET S |-> g[s]] BY <1>1, <1>2
  <1> QED BY <1>6, <1>7

\* g sums f, and the last to be added may be any member.
SumsTo(S, f, g) ==
  /\ Summing(S, f, g) /\ SumFunction(f) = g[S]
  /\ \A x \in S : g[S] = f[x] + g[S \ {x}]

LEMMA SumOver ==
  ASSUME NEW S, IsFiniteSet(S), NEW f \in [S -> Nat]
  PROVE  \E g : SumsTo(S, f, g)
  <1>1. \E h : Partial(f, h) BY PartialExists
  <1> PICK g : g = CHOOSE h : Partial(f, h) OBVIOUS
  <1>2. Partial(f, g) BY <1>1
  <1>3. DOMAIN f = S OBVIOUS
  <1>4. g \in [SUBSET S -> Nat] BY <1>2, PartialNat
  <1>5. Summing(S, f, g) BY <1>2, <1>4 DEF Summing
  <1>6. \A x \in S : g[S] = f[x] + g[S \ {x}]
    <2>1. S \in SUBSET S OBVIOUS
    <2> QED BY <1>5, <2>1, AnyLast
  <1> QED BY <1>2, <1>3, <1>5, <1>6, SumIs DEF SumsTo

\* f2 is f with k more at b.
Raised(S, f, b, k, f2) ==
  /\ f2 \in [S \cup {b} -> Nat]
  /\ f2[b] = (IF b \in S THEN f[b] ELSE 0) + k
  /\ \A x \in S \ {b} : f2[x] = f[x]

(* The sum of nothing is 0; one value that grows, or comes new, makes the  *)
(* sum grow as much.                                                       *)
LEMMA SumGrows ==
  ASSUME NEW S, IsFiniteSet(S), NEW f \in [S -> Nat], NEW b, NEW k \in Nat,
         NEW f2, Raised(S, f, b, k, f2)
  PROVE  SumFunction(f2) = SumFunction(f) + k /\ SumFunction(f) \in Nat
  <1> PICK S2 : S2 = S \cup {b} OBVIOUS
  <1>1. IsFiniteSet(S2) /\ f2 \in [S2 -> Nat] BY FS_AddElement DEF Raised
  <1>2. PICK g : SumsTo(S, f, g) BY SumOver
  <1>3. PICK g2 : SumsTo(S2, f2, g2) BY <1>1, SumOver
  <1>4. S \ {b} \in SUBSET S /\ S \ {b} \in SUBSET S2 /\ S2 \ {b} = S \ {b} OBVIOUS
  <1>0. /\ f2[b] = (IF b \in S THEN f[b] ELSE 0) + k
        /\ \A x \in S \ {b} : f[x] = f2[x]
    BY DEF Raised
  <1>5. g[S \ {b}] = g2[S \ {b}] BY <1>0, <1>1, <1>2, <1>3, <1>4, SameSum DEF SumsTo
  <1>6. g2[S2] = f2[b] + g2[S \ {b}]
    <2>1. b \in S2 OBVIOUS
    <2> QED BY <1>3, <1>4, <2>1 DEF SumsTo
  <1>7. /\ g[S \ {b}] \in Nat /\ g[S] \in Nat
        /\ SumFunction(f) = g[S] /\ SumFunction(f2) = g2[S2]
    BY <1>2, <1>3, <1>4 DEF SumsTo, Summing
  <1>8. CASE b \in S
    <2>2. g[S] = f[b] + g[S \ {b}] BY <1>2, <1>8 DEF SumsTo
    <2>3. f[b] \in Nat BY <1>8
    <2> QED BY <1>0, <1>5, <1>6, <1>7, <1>8, <2>2, <2>3
  <1>9. CASE b \notin S
    <2>1. S \ {b} = S BY <1>9
    <2>2. f2[b] = k BY <1>0, <1>9
    <2>3. g[S \ {b}] = g[S] BY <2>1
    <2>4. g2[S2] = k + g[S] BY <1>5, <1>6, <2>2, <2>3
    <2> QED BY <1>7, <2>4
  <1> QED BY <1>8, <1>9

LEMMA SumOfNone ==
  ASSUME NEW f \in [{} -> Nat]
  PROVE  SumFunction(f) = 0
  <1>1. IsFiniteSet({}) BY FS_EmptySet
  <1>2. PICK g : SumsTo({}, f, g) BY <1>1, SumOver
  <1> QED BY <1>1, <1>2, AnyLast DEF SumsTo

-----------------------------------------------------------------------------
(* The ledger.  The totals, in memory and on disk, count the calls that    *)
(* ended, and the models' buckets add up to them.                          *)

Bucketed == [calls : Nat, tokens : Nat]

\* The totals u are what counting the calls of done leaves.
Tallies(u, done) ==
  /\ IsFiniteSet(done) /\ u.calls = Cardinality(done)
  /\ u.calls \in Nat /\ u.tokens \in Nat
  /\ IsFiniteSet(DOMAIN u.models)
  /\ u.models \in [DOMAIN u.models -> Bucketed]
  /\ u.calls = SumFunction(CallsOf(u.models))
  /\ u.tokens = SumFunction(TokensOf(u.models))
  /\ Cardinality(DOMAIN u.models \ {Other}) <= MaxBuckets - 1

CallRecord == [pc : {"idle", "open", "over"}, model : Models \cup {None}, counted : BOOLEAN]

LedgerInv ==
  /\ records \in [Calls -> CallRecord]
  /\ Tallies(usage, ended) /\ Tallies(saved.usage, saved.ended)
  /\ ended \subseteq Calls /\ saved.ended \subseteq Calls
  /\ \A c \in ended \cup saved.ended : records[c].counted
  /\ \A c \in Calls : records[c].counted => records[c].pc = "over"

LEMMA CallFields ==
  ASSUME NEW r \in CallRecord
  PROVE  /\ r.pc \in {"idle", "open", "over"} /\ r.model \in Models \cup {None}
         /\ r.counted \in BOOLEAN
  BY DEF CallRecord

LEMMA EmptyTallies == Tallies(Empty, {})
  <1>1. /\ Empty.calls = 0 /\ Empty.tokens = 0 /\ Empty.models = <<>>
    BY DEF Empty
  <1>2. DOMAIN <<>> = {} OBVIOUS
  <1>3. CallsOf(<<>>) \in [{} -> Nat] /\ TokensOf(<<>>) \in [{} -> Nat]
    BY <1>2 DEF CallsOf, TokensOf
  <1>4. SumFunction(CallsOf(<<>>)) = 0 /\ SumFunction(TokensOf(<<>>)) = 0
    BY <1>3, SumOfNone
  <1>5. IsFiniteSet({}) /\ Cardinality({}) = 0 BY FS_EmptySet
  <1>6. {} \ {Other} = {} OBVIOUS
  <1>7. <<>> \in [{} -> Bucketed] BY <1>2
  <1> QED BY <1>1, <1>2, <1>4, <1>5, <1>6, <1>7, BucketsAssumption DEF Tallies

(* One more call is counted, in a bucket that is there or fits in.         *)
LEMMA CountedTallies ==
  ASSUME NEW u, NEW done, Tallies(u, done), NEW c, c \notin done,
         NEW model, NEW tokens \in Nat
  PROVE  Tallies(Counted(u, model, tokens), done \cup {c})
  <1> PICK m : m = u.models OBVIOUS
  <1> PICK b : b = Bucket(m, model) OBVIOUS
  <1> PICK D : D = DOMAIN m OBVIOUS
  <1> DEFINE old == IF b \in D THEN m[b] ELSE [calls |-> 0, tokens |-> 0]
             bucket == [calls |-> old.calls + 1, tokens |-> old.tokens + tokens]
             ms == [x \in D \cup {b} |-> IF x = b THEN bucket ELSE m[x]]
  <1> PICK v : v = Counted(u, model, tokens) OBVIOUS
  <1>1. v = [calls |-> u.calls + 1, tokens |-> u.tokens + tokens, models |-> ms]
    BY DEF Counted
  <1>2. v.calls = u.calls + 1 /\ v.tokens = u.tokens + tokens /\ v.models = ms BY <1>1
  <1>3. /\ IsFiniteSet(done) /\ u.calls = Cardinality(done)
        /\ u.calls \in Nat /\ u.tokens \in Nat /\ IsFiniteSet(D) /\ m \in [D -> Bucketed]
        /\ u.calls = SumFunction(CallsOf(m)) /\ u.tokens = SumFunction(TokensOf(m))
        /\ Cardinality(D \ {Other}) <= MaxBuckets - 1
    BY DEF Tallies
  <1>4. IsFiniteSet(done \cup {c}) /\ v.calls = Cardinality(done \cup {c})
    <2>1. /\ IsFiniteSet(done \cup {c})
          /\ Cardinality(done \cup {c}) = Cardinality(done) + 1
      BY <1>3, OneMore
    <2> QED BY <1>2, <1>3, <2>1
  <1>5. /\ old.calls \in Nat /\ old.tokens \in Nat
        /\ old.calls = (IF b \in D THEN m[b].calls ELSE 0)
        /\ old.tokens = (IF b \in D THEN m[b].tokens ELSE 0)
    BY <1>3 DEF Bucketed
  <1> HIDE DEF old
  <1>6. bucket \in Bucketed /\ bucket.calls = old.calls + 1 /\ bucket.tokens = old.tokens + tokens
    BY <1>5 DEF Bucketed
  <1> HIDE DEF bucket
  <1>7. /\ ms \in [D \cup {b} -> Bucketed] /\ DOMAIN ms = D \cup {b} /\ ms[b] = bucket
        /\ \A x \in D \ {b} : ms[x] = m[x]
    BY <1>3, <1>6
  <1> HIDE DEF ms
  <1>8. IsFiniteSet(D \cup {b}) BY <1>3, FS_AddElement
  <1>9. v.calls = SumFunction(CallsOf(ms))
    <2> PICK f : f = CallsOf(m) OBVIOUS
    <2> PICK f2 : f2 = CallsOf(ms) OBVIOUS
    <2>1. f \in [D -> Nat] /\ \A x \in D : f[x] = m[x].calls
      BY <1>3 DEF CallsOf, Bucketed
    <2>2. f2 \in [D \cup {b} -> Nat] /\ \A x \in D \cup {b} : f2[x] = ms[x].calls
      BY <1>7 DEF CallsOf, Bucketed
    <2>3. f2[b] = (IF b \in D THEN f[b] ELSE 0) + 1
      BY <1>5, <1>6, <1>7, <2>1, <2>2
    <2>4. \A x \in D \ {b} : f2[x] = f[x] BY <1>7, <2>1, <2>2
    <2>5. 1 \in Nat OBVIOUS
    <2>7. Raised(D, f, b, 1, f2) BY <2>2, <2>3, <2>4 DEF Raised
    <2>6. SumFunction(f2) = SumFunction(f) + 1
      BY <1>3, <2>1, <2>5, <2>7, SumGrows
    <2> QED BY <1>2, <1>3, <2>6
  <1>10. v.tokens = SumFunction(TokensOf(ms))
    <2> PICK f : f = TokensOf(m) OBVIOUS
    <2> PICK f2 : f2 = TokensOf(ms) OBVIOUS
    <2>1. f \in [D -> Nat] /\ \A x \in D : f[x] = m[x].tokens
      BY <1>3 DEF TokensOf, Bucketed
    <2>2. f2 \in [D \cup {b} -> Nat] /\ \A x \in D \cup {b} : f2[x] = ms[x].tokens
      BY <1>7 DEF TokensOf, Bucketed
    <2>3. f2[b] = (IF b \in D THEN f[b] ELSE 0) + tokens
      BY <1>5, <1>6, <1>7, <2>1, <2>2
    <2>4. \A x \in D \ {b} : f2[x] = f[x] BY <1>7, <2>1, <2>2
    <2>5. Raised(D, f, b, tokens, f2) BY <2>2, <2>3, <2>4 DEF Raised
    <2>6. SumFunction(f2) = SumFunction(f) + tokens BY <1>3, <2>1, <2>5, SumGrows
    <2> QED BY <1>2, <1>3, <2>6
  <1>11. Cardinality((D \cup {b}) \ {Other}) <= MaxBuckets - 1
    <2>1. MaxBuckets \in Nat BY BucketsAssumption
    <2>2. CASE b = Other \/ b \in D
      <3>1. (D \cup {b}) \ {Other} = D \ {Other} BY <2>2
      <3> QED BY <1>3, <3>1
    <2>3. CASE b # Other /\ b \notin D
      <3>1. Cardinality(D \ {Other}) < MaxBuckets - 1
        BY <2>3 DEF Bucket
      <3>2. (D \cup {b}) \ {Other} = (D \ {Other}) \cup {b} /\ b \notin D \ {Other}
        BY <2>3
      <3>3. IsFiniteSet(D \ {Other}) BY <1>3, FS_RemoveElement
      <3>4. /\ Cardinality(D \ {Other}) \in Nat
            /\ Cardinality((D \ {Other}) \cup {b}) = Cardinality(D \ {Other}) + 1
        BY <3>2, <3>3, OneMore
      <3> PICK n : n = Cardinality(D \ {Other}) OBVIOUS
      <3>5. n \in Nat /\ n < MaxBuckets - 1 BY <3>1, <3>4
      <3>6. n + 1 <= MaxBuckets - 1 BY <2>1, <3>5
      <3> QED BY <3>2, <3>4, <3>6
    <2> QED BY <2>2, <2>3
  <1>12. v.calls \in Nat /\ v.tokens \in Nat BY <1>2, <1>3
  <1> QED BY <1>2, <1>4, <1>7, <1>8, <1>9, <1>10, <1>11, <1>12 DEF Tallies

(* How a call ends, which is counted as it was not before.                 *)
LEMMA CallEnds ==
  ASSUME LedgerInv, NEW c \in Calls, records[c].pc # "over", NEW model, NEW tokens \in 1..2,
         usage' = Counted(usage, model, tokens), ended' = ended \cup {c}, Saves,
         NEW rec \in CallRecord, records' = [records EXCEPT ![c] = rec],
         rec.pc = "over", rec.counted
  PROVE  LedgerInv'
  <1>1. /\ records \in [Calls -> CallRecord] /\ Tallies(usage, ended)
        /\ Tallies(saved.usage, saved.ended)
        /\ ended \subseteq Calls /\ saved.ended \subseteq Calls
        /\ \A d \in ended \cup saved.ended : records[d].counted
        /\ \A d \in Calls : records[d].counted => records[d].pc = "over"
    BY DEF LedgerInv
  <1>2. c \notin ended /\ c \notin saved.ended BY <1>1
  <1>3. Tallies(usage', ended')
    <2>1. tokens \in Nat OBVIOUS
    <2> QED BY <1>1, <1>2, <2>1, CountedTallies
  <1>4. /\ records' \in [Calls -> CallRecord] /\ records'[c] = rec
        /\ \A d \in Calls : d # c => records'[d] = records[d]
    BY <1>1
  <1>5. Tallies(saved.usage, saved.ended)' /\ saved'.ended \subseteq ended' \cup saved.ended
    <2>1. CASE saved' = saved BY <1>1, <2>1
    <2>2. CASE saved' = [usage |-> usage', ended |-> ended']
      <3>1. saved'.usage = usage' /\ saved'.ended = ended' BY <2>2
      <3> QED BY <1>3, <3>1 DEF Tallies
    <2> QED BY <2>1, <2>2 DEF Saves
  <1>6. Tallies(usage, ended)' BY <1>3 DEF Tallies
  <1>7. \A d \in (ended \cup saved.ended)' : d \in Calls /\ records'[d].counted
    BY <1>1, <1>4, <1>5
  <1>8. \A d \in Calls : records'[d].counted => records'[d].pc = "over" BY <1>1, <1>4
  <1> QED BY <1>4, <1>5, <1>6, <1>7, <1>8 DEF LedgerInv

LEMMA EndStreamStep ==
  ASSUME LedgerInv, NEW c \in Calls, NEW tokens \in 1..2, EndStream(c, tokens)
  PROVE  LedgerInv'
  <1>1. records \in [Calls -> CallRecord] /\ records[c] \in CallRecord BY DEF LedgerInv
  <1> PICK r : r = records[c] OBVIOUS
  <1> PICK rec : rec = [r EXCEPT !.pc = "over", !.counted = TRUE] OBVIOUS
  <1>2. rec \in CallRecord /\ rec.pc = "over" /\ rec.counted BY <1>1 DEF CallRecord
  <1>3. records' = [records EXCEPT ![c] = rec]
    <2>1. records' = [records EXCEPT ![c].pc = "over", ![c].counted = TRUE]
      BY DEF EndStream
    <2> QED BY <1>1, <2>1
  <1>4. records[c].pc = "open" /\ ~ records[c].counted
    BY DEF EndStream, LedgerInv
  <1>5. usage' = Counted(usage, r.model, tokens) BY <1>4 DEF EndStream, Finalized
  <1>6. ended' = ended \cup {c} /\ Saves BY DEF EndStream
  <1> QED BY <1>2, <1>3, <1>4, <1>5, <1>6, CallEnds

LEMMA EndCallStep ==
  ASSUME LedgerInv, NEW c \in Calls, NEW model \in Models, NEW tokens \in 1..2,
         EndCall(c, model, tokens)
  PROVE  LedgerInv'
  <1>1. records \in [Calls -> CallRecord] /\ records[c] \in CallRecord BY DEF LedgerInv
  <1> PICK r : r = [records[c] EXCEPT !.pc = "over", !.model = model] OBVIOUS
  <1> PICK done : done = [r EXCEPT !.counted = TRUE] OBVIOUS
  <1>2. records[c].pc = "idle" /\ ~ records[c].counted
    BY DEF EndCall, LedgerInv
  <1>3. /\ r.model = model /\ ~ r.counted /\ r \in CallRecord
        /\ done \in CallRecord /\ done.pc = "over" /\ done.counted
    BY <1>1, <1>2 DEF CallRecord
  <1>4. /\ usage' = Finalized(Finalized(usage, r, tokens), done, tokens)
        /\ records' = [records EXCEPT ![c] = done]
        /\ ended' = ended \cup {c} /\ Saves
    BY DEF EndCall
  <1>5. usage' = Counted(usage, model, tokens) BY <1>3, <1>4 DEF Finalized
  <1> QED BY <1>2, <1>3, <1>4, <1>5, CallEnds

(* The other steps count nothing, and take no count from a record.         *)
LEMMA RecordsMove ==
  ASSUME LedgerInv, records' \in [Calls -> CallRecord],
         \A c \in Calls : /\ records'[c].counted = records[c].counted
                          /\ records[c].counted => records'[c].pc = "over",
         \/ usage' = usage /\ ended' = ended /\ saved' = saved
         \/ usage' = Empty /\ ended' = {} /\ Saves
         \/ usage' = saved.usage /\ ended' = saved.ended /\ saved' = saved
  PROVE  LedgerInv'
  <1>1. /\ Tallies(usage, ended) /\ Tallies(saved.usage, saved.ended)
        /\ ended \subseteq Calls /\ saved.ended \subseteq Calls
        /\ \A d \in ended \cup saved.ended : records[d].counted
        /\ \A d \in Calls : records[d].counted => records[d].pc = "over"
    BY DEF LedgerInv
  <1>2. Tallies(usage', ended') /\ ended' \subseteq ended \cup saved.ended
    BY <1>1, EmptyTallies
  <1>3. /\ Tallies(saved'.usage, saved'.ended)
        /\ saved'.ended \subseteq ended \cup saved.ended
    <2>1. CASE saved' = saved BY <1>1, <2>1
    <2>2. CASE saved' = [usage |-> usage', ended |-> ended']
      <3>1. saved'.usage = usage' /\ saved'.ended = ended' BY <2>2
      <3> QED BY <1>2, <3>1
    <2> QED BY <2>1, <2>2 DEF Saves
  <1>4. Tallies(usage, ended)' /\ Tallies(saved.usage, saved.ended)'
    BY <1>2, <1>3 DEF Tallies
  <1> QED BY <1>1, <1>2, <1>3, <1>4 DEF LedgerInv

LEMMA LedgerStep ==
  ASSUME LedgerInv, [LedgerNext]_ledgerVars
  PROVE  LedgerInv'
  <1>1. records \in [Calls -> CallRecord] BY DEF LedgerInv
  <1>2. ASSUME NEW c \in Calls, NEW model \in Models, OpenStream(c, model)
        PROVE  LedgerInv'
    <2> PICK rec : rec = [records[c] EXCEPT !.pc = "open", !.model = model] OBVIOUS
    <2>1. /\ records[c].pc = "idle" /\ records' = [records EXCEPT ![c] = rec]
          /\ UNCHANGED <<usage, saved, ended>>
      BY <1>1, <1>2 DEF OpenStream
    <2>2. rec \in CallRecord /\ rec.counted = records[c].counted
      BY <1>1 DEF CallRecord
    <2>3. ~ records[c].counted BY <2>1 DEF LedgerInv
    <2>4. records' \in [Calls -> CallRecord] BY <1>1, <2>1, <2>2
    <2>5. \A d \in Calls : /\ records'[d].counted = records[d].counted
                           /\ records[d].counted => records'[d].pc = "over"
      BY <1>1, <2>1, <2>2, <2>3 DEF LedgerInv
    <2> QED BY <2>1, <2>4, <2>5, RecordsMove
  <1>3. ASSUME NEW c \in Calls, DropStream(c) PROVE LedgerInv'
    <2> PICK rec : rec = [records[c] EXCEPT !.pc = "over"] OBVIOUS
    <2>1. /\ records[c].pc = "open" /\ records' = [records EXCEPT ![c] = rec]
          /\ UNCHANGED <<usage, saved, ended>>
      BY <1>1, <1>3 DEF DropStream
    <2>2. rec \in CallRecord /\ rec.counted = records[c].counted /\ rec.pc = "over"
      BY <1>1 DEF CallRecord
    <2>4. records' \in [Calls -> CallRecord] BY <1>1, <2>1, <2>2
    <2>5. \A d \in Calls : /\ records'[d].counted = records[d].counted
                           /\ records[d].counted => records'[d].pc = "over"
      BY <1>1, <2>1, <2>2 DEF LedgerInv
    <2> QED BY <2>1, <2>4, <2>5, RecordsMove
  <1>4. ASSUME NEW c \in Calls, NEW tokens \in 1..2, EndStream(c, tokens) PROVE LedgerInv'
    BY <1>4, EndStreamStep
  <1>5. ASSUME NEW c \in Calls, NEW tokens \in 1..2, NEW model \in Models,
               EndCall(c, model, tokens)
        PROVE  LedgerInv'
    BY <1>5, EndCallStep
  <1>6. CASE records' = records /\ \/ usage' = usage /\ ended' = ended /\ saved' = saved
                                   \/ usage' = Empty /\ ended' = {} /\ Saves
    <2>1. records' \in [Calls -> CallRecord] BY <1>1, <1>6
    <2>2. \A d \in Calls : /\ records'[d].counted = records[d].counted
                           /\ records[d].counted => records'[d].pc = "over"
      BY <1>6 DEF LedgerInv
    <2> QED BY <1>6, <2>1, <2>2, RecordsMove
  <1>7. CASE ClearLog BY <1>6, <1>7 DEF ClearLog
  <1>8. CASE ClearUsage BY <1>6, <1>8 DEF ClearUsage
  <1>9. CASE RestartLedger
    <2>1. /\ usage' = saved.usage /\ ended' = saved.ended /\ saved' = saved
          /\ records' = [d \in Calls |-> IF records[d].pc = "open"
                                         THEN [records[d] EXCEPT !.pc = "over"] ELSE records[d]]
      BY <1>9 DEF RestartLedger
    <2>2. ASSUME NEW d \in Calls
          PROVE  /\ records'[d] \in CallRecord /\ records'[d].counted = records[d].counted
                 /\ records[d].counted => records'[d].pc = "over"
      <3>1. CASE records[d].pc = "open"
        <4>1. records[d] \in CallRecord BY <1>1
        <4>2. records'[d] = [records[d] EXCEPT !.pc = "over"] BY <2>1, <3>1
        <4> QED BY <4>1, <4>2 DEF CallRecord
      <3>2. CASE records[d].pc # "open"
        <4>1. records'[d] = records[d] BY <2>1, <3>2
        <4> QED BY <1>1, <4>1 DEF LedgerInv
      <3> QED BY <3>1, <3>2
    <2>3. records' \in [Calls -> CallRecord]
      <3>1. \A d \in Calls : records'[d] \in CallRecord BY <2>2
      <3> QED BY <2>1, <3>1
    <2> QED BY <2>1, <2>2, <2>3, RecordsMove
  <1>10. CASE UNCHANGED ledgerVars BY <1>6, <1>10 DEF ledgerVars
  <1> QED BY <1>2, <1>3, <1>4, <1>5, <1>7, <1>8, <1>9, <1>10 DEF LedgerNext

(* Every call that ended is counted once, whether its record is in the log *)
(* when it is finished or was trimmed or cleared before, and the bounded   *)
(* buckets of the models always add up to the totals, also after a restart *)
(* from a file of some time ago (call_log_store.py, usage_store.py).       *)
THEOREM TotalsAgree == LedgerSpec => []LedgerAgrees
  <1>1. LedgerInit => LedgerInv
    <2> SUFFICES ASSUME LedgerInit PROVE LedgerInv OBVIOUS
    <2>1. /\ records = [c \in Calls |-> [pc |-> "idle", model |-> None, counted |-> FALSE]]
          /\ usage = Empty /\ saved = [usage |-> Empty, ended |-> {}] /\ ended = {}
      BY DEF LedgerInit
    <2>2. records \in [Calls -> CallRecord] BY <2>1 DEF CallRecord
    <2>3. Tallies(usage, ended) /\ Tallies(saved.usage, saved.ended)
      BY <2>1, EmptyTallies
    <2> QED BY <2>1, <2>2, <2>3 DEF LedgerInv
  <1>2. LedgerInv /\ [LedgerNext]_ledgerVars => LedgerInv' BY LedgerStep
  <1>3. LedgerInv => LedgerAgrees
    <2> SUFFICES ASSUME LedgerInv PROVE LedgerAgrees OBVIOUS
    <2>1. Tallies(usage, ended) /\ \A c \in ended : records[c].counted BY DEF LedgerInv
    <2> PICK D : D = DOMAIN usage.models OBVIOUS
    <2>2. Cardinality(D) <= MaxBuckets
      <3>1. IsFiniteSet(D) /\ Cardinality(D \ {Other}) <= MaxBuckets - 1
        BY <2>1 DEF Tallies
      <3>2. /\ Cardinality(D) \in Nat
            /\ Cardinality(D \ {Other}) = IF Other \in D THEN Cardinality(D) - 1
                                          ELSE Cardinality(D)
        BY <3>1, FS_CardinalityType, FS_RemoveElement
      <3> QED BY <3>1, <3>2, BucketsAssumption
    <2> QED BY <2>1, <2>2 DEF LedgerAgrees, Tallies
  <1> QED BY <1>1, <1>2, <1>3, PTL DEF LedgerSpec

-----------------------------------------------------------------------------
(* Conversation lookup.  All that a conversation has seen is owned by a    *)
(* thread it was sent to, or by two threads, which no request joins.       *)

Messages == [role : {"user", "assistant"}, text : Nat \cup Replies \cup {"part"}]

Entries == [history : Seq(Messages), owners : SUBSET (1..MaxKeys)]

(* One entry is of that history and of that owner.                         *)
OwnedIn(entries, history, k) == \E e \in entries : e.history = history /\ k \in e.owners

(* The set of entries after one history was recorded for a key, with what  *)
(* may have been dropped.                                                  *)
RecordedAs(before, after, history, key) ==
  /\ \E e \in after :
       /\ e.history = history
       /\ \A k \in 1..MaxKeys : OwnedIn(before, history, k) => k \in e.owners
       /\ \A k \in e.owners : k = key \/ OwnedIn(before, history, k)
       /\ key \in e.owners \/ \E a \in e.owners : \E b \in e.owners : a # b
  /\ \A e \in after : \/ (e \in before /\ e.history # history)
                       \/ e.history = history
  /\ \A e \in after : \A f \in after : e.history = history /\ f.history = history => e = f

(* A history gets one more owner, unless it has two.                       *)
LEMMA OwnedBy ==
  ASSUME NEW owners \in SUBSET (1..MaxKeys), NEW key \in 1..MaxKeys
  PROVE  /\ Owned(owners, key) \in SUBSET (1..MaxKeys)
         /\ \A k \in owners : k \in Owned(owners, key)
         /\ \A k \in Owned(owners, key) : k = key \/ k \in owners
         /\ \/ key \in Owned(owners, key)
            \/ \E a \in Owned(owners, key) : \E b \in Owned(owners, key) : a # b
  <1>1. MaxKeys \in Nat BY IndexAssumption
  <1>2. IsFiniteSet(owners) /\ Cardinality(owners) \in Nat BY <1>1, PositionsFinite
  <1>3. CASE Cardinality(owners) < MaxOwners
    <2>1. Owned(owners, key) = owners \cup {key} BY <1>3 DEF Owned
    <2> QED BY <2>1
  <1>4. CASE ~ (Cardinality(owners) < MaxOwners)
    <2>1. Owned(owners, key) = owners BY <1>4 DEF Owned
    <2>2. ASSUME \A a \in owners : \A b \in owners : a = b PROVE FALSE
      <3>1. CASE owners = {}
        <4>1. Cardinality(owners) = 0 BY <3>1, FS_EmptySet
        <4> QED BY <1>4, <4>1 DEF MaxOwners
      <3>2. CASE owners # {}
        <4> PICK a \in owners : TRUE BY <3>2
        <4>1. owners = {a} BY <2>2
        <4>2. Cardinality(owners) = 1 BY <4>1, FS_Singleton
        <4> QED BY <1>4, <4>2 DEF MaxOwners
      <3> QED BY <3>1, <3>2
    <2> QED BY <2>1, <2>2
  <1> QED BY <1>3, <1>4

(* move_to_end changes the order only.                                     *)
LEMMA TouchedSame ==
  ASSUME NEW idx \in Seq(Entries), NEW history
  PROVE  /\ Touched(idx, history) \in Seq(Entries)
         /\ Range(Touched(idx, history)) = Range(idx)
  <1> DEFINE at == {i \in DOMAIN idx : idx[i].history = history}
  <1>1. at \in SUBSET DOMAIN idx /\ (DOMAIN idx \ at) \in SUBSET DOMAIN idx
        /\ \A i \in DOMAIN idx : i \in at \/ i \in DOMAIN idx \ at
    OBVIOUS
  <1>2. Touched(idx, history) = Selected(idx, DOMAIN idx \ at) \o Selected(idx, at)
    BY DEF Touched
  <1> HIDE DEF at
  <1>8. PICK olds : olds = Selected(idx, DOMAIN idx \ at) OBVIOUS
  <1>9. PICK news : news = Selected(idx, at) OBVIOUS
  <1>3. olds \in Seq(Entries) /\ news \in Seq(Entries) BY <1>1, <1>8, <1>9, SelectedIs
  <1>4. olds \o news \in Seq(Entries) /\ Range(olds \o news) = Range(olds) \cup Range(news)
    <2>1. olds \o news \in Seq(Entries) BY <1>3, ConcatProperties
    <2>2. Range(olds \o news) = Range(olds) \cup Range(news) BY <1>3, RangeConcatenation
    <2> QED BY <2>1, <2>2
  <1>5. Range(olds) = {idx[i] : i \in DOMAIN idx \ at} /\ Range(news) = {idx[i] : i \in at}
    BY <1>1, <1>8, <1>9, SelectedRange
  <1>6. Range(idx) = {idx[i] : i \in DOMAIN idx} BY DEF Range
  <1>7. Range(olds) \cup Range(news) = Range(idx) BY <1>1, <1>5, <1>6, Zenon
  <1> QED BY <1>2, <1>4, <1>7, <1>8, <1>9

(* The last entries of a list are entries of it, and the last of all is    *)
(* one of them.                                                            *)
LEMMA LastOnes ==
  ASSUME NEW X, NEW seq \in Seq(X), seq # <<>>, NEW n \in 1..Len(seq)
  PROVE  /\ SubSeq(seq, n, Len(seq)) \in Seq(X)
         /\ Range(SubSeq(seq, n, Len(seq))) \in SUBSET Range(seq)
         /\ seq[Len(seq)] \in Range(SubSeq(seq, n, Len(seq)))
  <1>1. Len(seq) \in Nat /\ DOMAIN seq = 1..Len(seq) /\ n \in Int /\ n <= Len(seq) OBVIOUS
  <1>2. \A i \in n..Len(seq) : i \in 1..Len(seq) /\ seq[i] \in X OBVIOUS
  <1> PICK rest : rest = SubSeq(seq, n, Len(seq)) OBVIOUS
  <1>3. rest \in Seq(X) /\ Len(rest) = Len(seq) - n + 1
        /\ \A i \in 1..(Len(seq) - n + 1) : rest[i] = seq[n + i - 1]
    BY <1>1, <1>2, SubSeqProperties
  <1>4. DOMAIN rest = 1..(Len(seq) - n + 1) BY <1>3
  <1>5. \A i \in 1..(Len(seq) - n + 1) : n + i - 1 \in DOMAIN seq BY <1>1
  <1>6. \A i \in DOMAIN rest : rest[i] \in Range(seq) BY <1>3, <1>4, <1>5 DEF Range
  <1>7. Len(seq) - n + 1 \in DOMAIN rest /\ rest[Len(seq) - n + 1] = seq[Len(seq)]
    BY <1>1, <1>3, <1>4
  <1> QED BY <1>3, <1>6, <1>7 DEF Range

(* The history recorded is the newest entry, with one owner more.          *)
LEMMA RecordRenews ==
  ASSUME NEW idx \in Seq(Entries), NEW history \in Seq(Messages), NEW key \in 1..MaxKeys
  PROVE  /\ Record(idx, history, key) \in Seq(Entries)
         /\ RecordedAs(Range(idx), Range(Record(idx, history, key)), history, key)
  <1> DEFINE at == {i \in DOMAIN idx : idx[i].history = history}
             owners == UNION {idx[i].owners : i \in at}
             new == [history |-> history, owners |-> Owned(owners, key)]
             others == Selected(idx, DOMAIN idx \ at)
             all == Append(others, new)
             n == IF Len(all) > MaxEntries THEN Len(all) - MaxEntries + 1 ELSE 1
  <1>1. Record(idx, history, key) = SubSeq(all, n, Len(all)) BY DEF Record
  <1>2. /\ (DOMAIN idx \ at) \in SUBSET DOMAIN idx /\ at \in SUBSET DOMAIN idx
        /\ \A i \in DOMAIN idx \ at : idx[i].history # history
        /\ \A i \in DOMAIN idx : i \in at <=> idx[i].history = history
    OBVIOUS
  <1>3. \A k : k \in owners <=> \E i \in at : k \in idx[i].owners BY Zenon
  <1>4. \A i \in DOMAIN idx : idx[i] \in Entries /\ idx[i] \in Range(idx) BY DEF Range
  <1>5. \A e \in Entries : e.owners \in SUBSET (1..MaxKeys) BY DEF Entries
  <1> HIDE DEF at
  <1>6. \A k : k \in owners <=> OwnedIn(Range(idx), history, k)
    <2>1. ASSUME NEW k, k \in owners PROVE OwnedIn(Range(idx), history, k)
      <3> PICK i \in at : k \in idx[i].owners BY <1>3, <2>1
      <3>1. i \in DOMAIN idx /\ idx[i].history = history BY <1>2
      <3> QED BY <1>4, <3>1 DEF OwnedIn
    <2>2. ASSUME NEW k, OwnedIn(Range(idx), history, k) PROVE k \in owners
      <3> PICK e \in Range(idx) : e.history = history /\ k \in e.owners BY <2>2 DEF OwnedIn
      <3> PICK i \in DOMAIN idx : idx[i] = e BY DEF Range
      <3>1. i \in at BY <1>2
      <3> QED BY <1>3, <3>1
    <2> QED BY <2>1, <2>2
  <1>7. owners \in SUBSET (1..MaxKeys)
    <2>1. \A k \in owners : k \in 1..MaxKeys BY <1>2, <1>3, <1>4, <1>5
    <2> QED BY <2>1
  <1> HIDE DEF owners
  <1>8. /\ Owned(owners, key) \in SUBSET (1..MaxKeys)
        /\ \A k \in owners : k \in Owned(owners, key)
        /\ \A k \in Owned(owners, key) : k = key \/ k \in owners
        /\ \/ key \in Owned(owners, key)
           \/ \E a \in Owned(owners, key) : \E b \in Owned(owners, key) : a # b
    BY <1>7, OwnedBy
  <1>9. new \in Entries /\ new.history = history /\ new.owners = Owned(owners, key)
    BY <1>8 DEF Entries
  <1> HIDE DEF new
  <1>10. others \in Seq(Entries) /\ Range(others) = {idx[i] : i \in DOMAIN idx \ at}
    <2>1. others \in Seq(Entries) BY <1>2, SelectedIs
    <2>2. Range(others) = {idx[i] : i \in DOMAIN idx \ at} BY <1>2, SelectedRange
    <2> QED BY <2>1, <2>2
  <1> HIDE DEF others
  <1>11. /\ all \in Seq(Entries) /\ all # <<>> /\ Len(all) = Len(others) + 1
         /\ \A i \in 1..Len(others) : all[i] = others[i]
         /\ all[Len(others) + 1] = new
    BY <1>9, <1>10, AppendProperties
  <1> HIDE DEF all
  <1>12. Len(all) \in Nat /\ Len(others) \in Nat /\ DOMAIN all = 1..Len(all) /\ DOMAIN others = 1..Len(others)
    BY <1>10, <1>11
  <1>13. \A e \in Range(all) : e \in Range(others) \/ e = new
    <2> SUFFICES ASSUME NEW i \in DOMAIN all PROVE all[i] \in Range(others) \/ all[i] = new
      BY DEF Range
    <2>1. i \in 1..Len(others) \/ i = Len(others) + 1 BY <1>11, <1>12
    <2> QED BY <1>11, <1>12, <2>1 DEF Range
  <1>14. n \in 1..Len(all)
    <2>1. MaxEntries \in Nat \ {0} BY IndexAssumption
    <2> QED BY <1>11, <1>12, <2>1
  <1> HIDE DEF n
  <1> PICK kept : kept = SubSeq(all, n, Len(all)) OBVIOUS
  <1>15. kept \in Seq(Entries) /\ Range(kept) \in SUBSET Range(all) /\ new \in Range(kept)
    BY <1>11, <1>14, LastOnes
  <1>16. \A e \in Range(kept) : e = new \/ (e \in Range(idx) /\ e.history # history)
    <2> TAKE e \in Range(kept)
    <2>1. ASSUME e # new PROVE e \in Range(idx) /\ e.history # history
      <3>1. e \in Range(others) BY <1>13, <1>15, <2>1
      <3> PICK i \in DOMAIN idx \ at : e = idx[i] BY <1>10, <3>1, Zenon
      <3> QED BY <1>2, <1>4
    <2> QED BY <2>1
  <1>17. RecordedAs(Range(idx), Range(kept), history, key)
    <2>1. \E e \in Range(kept) :
             /\ e.history = history
             /\ \A k \in 1..MaxKeys : OwnedIn(Range(idx), history, k) => k \in e.owners
             /\ \A k \in e.owners : k = key \/ OwnedIn(Range(idx), history, k)
             /\ key \in e.owners \/ \E a \in e.owners : \E b \in e.owners : a # b
      BY <1>6, <1>8, <1>9, <1>15, Zenon
    <2>2. \A e \in Range(kept) : \/ (e \in Range(idx) /\ e.history # history)
                                 \/ e.history = history
      BY <1>9, <1>16
    <2>3. \A e \in Range(kept) : \A f \in Range(kept) :
             e.history = history /\ f.history = history => e = f
      BY <1>9, <1>16
    <2> QED BY <2>1, <2>2, <2>3, Zenon DEF RecordedAs
  <1> QED BY <1>1, <1>15, <1>17

Before(h, m) == Len(h) <= Len(m) /\ \A i \in 1..Len(h) : h[i] = m[i]

(* Before is the prefix order, and such a prefix is a part of the list.    *)
LEMMA BeforeIs ==
  ASSUME NEW h \in Seq(Messages), NEW m \in Seq(Messages)
  PROVE  /\ IsPrefix(h, m) <=> Before(h, m)
         /\ Before(h, m) => h = SubSeq(m, 1, Len(h))
  <1>1. Len(h) \in Nat /\ Len(m) \in Nat OBVIOUS
  <1>2. SubSeq(h, 1, Len(h)) = h BY SubSeqFull
  <1>3. ASSUME Len(h) <= Len(m)
        PROVE  /\ SubSeq(m, 1, Len(h)) \in Seq(Messages)
               /\ Len(SubSeq(m, 1, Len(h))) = Len(h)
               /\ \A i \in 1..Len(h) : SubSeq(m, 1, Len(h))[i] = m[i]
    <2>1. \A i \in 1..Len(h) : m[i] \in Messages BY <1>1, <1>3
    <2>2. 1 \in Int /\ Len(h) \in Int BY <1>1
    <2>3. /\ SubSeq(m, 1, Len(h)) \in Seq(Messages)
          /\ Len(SubSeq(m, 1, Len(h))) = IF 1 <= Len(h) THEN Len(h) - 1 + 1 ELSE 0
          /\ \A i \in 1..(Len(h) - 1 + 1) : SubSeq(m, 1, Len(h))[i] = m[1 + i - 1]
      BY <2>1, <2>2, SubSeqProperties
    <2>4. Len(h) - 1 + 1 = Len(h) /\ \A i \in 1..Len(h) : 1 + i - 1 = i BY <1>1
    <2>5. (IF 1 <= Len(h) THEN Len(h) ELSE 0) = Len(h) BY <1>1
    <2> QED BY <2>3, <2>4, <2>5
  <1>4. ASSUME Before(h, m) PROVE h = SubSeq(m, 1, Len(h))
    <2>1. Len(h) <= Len(m) /\ \A i \in 1..Len(h) : h[i] = m[i] BY <1>4 DEF Before
    <2>2. /\ SubSeq(m, 1, Len(h)) \in Seq(Messages)
          /\ Len(SubSeq(m, 1, Len(h))) = Len(h)
          /\ \A i \in 1..Len(h) : SubSeq(m, 1, Len(h))[i] = h[i]
      BY <1>3, <2>1
    <2> QED BY <2>2, SeqEqual
  <1>5. ASSUME IsPrefix(h, m) PROVE Before(h, m)
    <2>1. Len(h) <= Len(m) /\ SubSeq(m, 1, Len(h)) = h BY <1>2, <1>5 DEF IsPrefix
    <2> QED BY <1>3, <2>1 DEF Before
  <1>6. ASSUME Before(h, m) PROVE IsPrefix(h, m)
    BY <1>2, <1>4, <1>6 DEF Before, IsPrefix
  <1> QED BY <1>4, <1>5, <1>6

(* One message more.                                                       *)
LEMMA BeforeNext ==
  ASSUME NEW h \in Seq(Messages), NEW m \in Seq(Messages), NEW x \in Messages
  PROVE  /\ Before(m, m)
         /\ Before(h, m) => Before(h, Append(m, x))
         /\ Before(h, Append(m, x)) => Before(h, m) \/ h = Append(m, x)
         /\ ~ Before(Append(m, x), m)
  <1> PICK next : next = Append(m, x) OBVIOUS
  <1>1. /\ next \in Seq(Messages) /\ Len(next) = Len(m) + 1 /\ next[Len(m) + 1] = x
        /\ \A i \in 1..Len(m) : next[i] = m[i]
    BY AppendProperties
  <1>2. Len(h) \in Nat /\ Len(m) \in Nat OBVIOUS
  <1>3. Before(m, m) BY <1>2 DEF Before
  <1>4. Before(h, m) => Before(h, next)
    <2> SUFFICES ASSUME Before(h, m) PROVE Before(h, next) OBVIOUS
    <2>1. Len(h) <= Len(m) /\ \A i \in 1..Len(h) : h[i] = m[i] BY DEF Before
    <2>2. Len(h) <= Len(next) /\ \A i \in 1..Len(h) : i \in 1..Len(m) BY <1>1, <1>2, <2>1
    <2> QED BY <1>1, <2>1, <2>2 DEF Before
  <1>5. Before(h, next) => Before(h, m) \/ h = next
    <2> SUFFICES ASSUME Before(h, next) PROVE Before(h, m) \/ h = next OBVIOUS
    <2>1. Len(h) <= Len(next) /\ \A i \in 1..Len(h) : h[i] = next[i] BY DEF Before
    <2>2. CASE Len(h) <= Len(m)
      <3>1. \A i \in 1..Len(h) : i \in 1..Len(m) BY <1>2, <2>2
      <3> QED BY <1>1, <2>1, <2>2, <3>1 DEF Before
    <2>3. CASE Len(h) = Len(next)
      BY <1>1, <2>1, <2>3, SeqEqual
    <2> QED BY <1>1, <1>2, <2>1, <2>2, <2>3
  <1>6. ~ Before(next, m) BY <1>1, <1>2 DEF Before
  <1> QED BY <1>3, <1>4, <1>5, <1>6

Remembered(h) == \E e \in Range(index) : e.history = h

LEMMA LocatedIs ==
  ASSUME NEW h
  PROVE  /\ Located(h) # {} <=> Remembered(h)
         /\ \A k : k \in OwnersOf(h) <=> OwnedIn(Range(index), h, k)
  <1>1. \A i : i \in Located(h) <=> i \in DOMAIN index /\ index[i].history = h BY DEF Located
  <1>2. \A e : e \in Range(index) <=> \E i \in DOMAIN index : e = index[i] BY DEF Range
  <1>3. \A k : k \in OwnersOf(h) <=> \E i \in Located(h) : k \in index[i].owners
    BY Zenon DEF OwnersOf
  <1>4. Located(h) # {} <=> Remembered(h) BY <1>1, <1>2 DEF Remembered
  <1>5. ASSUME NEW k PROVE k \in OwnersOf(h) <=> OwnedIn(Range(index), h, k)
    <2>1. OwnedIn(Range(index), h, k) <=> \E i \in DOMAIN index : index[i].history = h /\ k \in index[i].owners
      BY <1>2 DEF OwnedIn
    <2> QED BY <1>1, <1>3, <2>1
  <1> QED BY <1>4, <1>5

(* match finds a history that was recorded; one message shorter is as long *)
(* as it may be.                                                           *)
LEMMA MatchIs ==
  ASSUME NEW m \in Seq(Messages), m # <<>>
  PROVE  /\ Match(m) # <<>> => /\ Match(m) \in Seq(Messages) /\ Before(Match(m), m)
                              /\ Len(Match(m)) < Len(m) /\ Remembered(Match(m))
         /\ \A h \in Seq(Messages) : /\ Before(h, m) /\ Len(h) = Len(m) - 1
                                 /\ h # <<>> /\ Remembered(h)
                                 => Match(m) = h
  <1> DEFINE heads == Heads(m, Len(m) - 1)
             known == {h \in heads : Located(h) # {}}
             Longest(h) == \A g \in known : Len(g) <= Len(h)
  <1>1. Len(m) \in Nat \ {0} /\ Len(m) - 1 \in Nat OBVIOUS
  <1>2. ASSUME NEW n \in 1..(Len(m) - 1)
        PROVE  /\ SubSeq(m, 1, n) \in Seq(Messages) /\ Len(SubSeq(m, 1, n)) = n
               /\ Before(SubSeq(m, 1, n), m)
    <2>1. n \in Int /\ 1 \in Int /\ 1 <= n /\ n <= Len(m) /\ \A i \in 1..n : m[i] \in Messages BY <1>1
    <2>2. /\ SubSeq(m, 1, n) \in Seq(Messages)
          /\ Len(SubSeq(m, 1, n)) = IF 1 <= n THEN n - 1 + 1 ELSE 0
          /\ \A i \in 1..(n - 1 + 1) : SubSeq(m, 1, n)[i] = m[1 + i - 1]
      BY <2>1, SubSeqProperties
    <2>3. Len(SubSeq(m, 1, n)) = n BY <2>1, <2>2
    <2>4. \A i \in 1..n : SubSeq(m, 1, n)[i] = m[i]
      <3>1. n - 1 + 1 = n /\ \A i \in 1..n : 1 + i - 1 = i BY <2>1
      <3> QED BY <2>2, <3>1
    <2> QED BY <2>1, <2>2, <2>3, <2>4 DEF Before
  <1>3. \A h \in heads : \E n \in 1..(Len(m) - 1) : h = SubSeq(m, 1, n) BY DEF Heads
  <1>4. \A h \in heads : h \in Seq(Messages) /\ Before(h, m) /\ Len(h) \in 1..(Len(m) - 1)
    BY <1>2, <1>3
  <1>5. \A h \in Seq(Messages) : Before(h, m) /\ Len(h) \in 1..(Len(m) - 1) => h \in heads
    BY BeforeIs DEF Heads
  <1>6. \A h : h \in known <=> h \in heads /\ Remembered(h) BY LocatedIs
  <1>7. Match(m) = IF known = {} THEN <<>> ELSE CHOOSE h \in known : Longest(h) BY DEF Match
  <1> HIDE DEF heads, known
  <1>8. ASSUME known # {} PROVE \E h \in known : Longest(h)
    <2> DEFINE lacks == {Len(m) - Len(h) : h \in known}
    <2>1. lacks \in SUBSET Nat /\ lacks # {} BY <1>1, <1>4, <1>6, <1>8
    <2>2. \A d : d \in lacks <=> \E h \in known : d = Len(m) - Len(h) OBVIOUS
    <2> HIDE DEF lacks
    <2>3. PICK d \in lacks : \A n \in lacks : d <= n BY <2>1, Smallest
    <2> PICK h \in known : d = Len(m) - Len(h) BY <2>2
    <2>4. ASSUME NEW g \in known PROVE Len(g) <= Len(h)
      <3>1. Len(m) - Len(g) \in lacks BY <2>2
      <3>2. Len(m) - Len(h) <= Len(m) - Len(g) BY <2>3, <3>1
      <3>3. Len(g) \in Nat /\ Len(h) \in Nat BY <1>4, <1>6
      <3> QED BY <1>1, <3>2, <3>3
    <2> QED BY <2>4
  <1>9. ASSUME known # {} PROVE Match(m) \in known /\ Longest(Match(m))
    <2>1. Match(m) = CHOOSE h \in known : Longest(h) BY <1>7, <1>9
    <2> HIDE DEF Longest
    <2> QED BY <1>8, <1>9, <2>1
  <1>10. ASSUME Match(m) # <<>>
         PROVE  /\ Match(m) \in Seq(Messages) /\ Before(Match(m), m)
                /\ Len(Match(m)) < Len(m) /\ Remembered(Match(m))
    <2>1. known # {} BY <1>7, <1>10
    <2>2. Match(m) \in heads /\ Remembered(Match(m)) BY <1>6, <1>9, <2>1
    <2> QED BY <1>1, <1>4, <2>2
  <1>11. ASSUME NEW h \in Seq(Messages), Before(h, m), Len(h) = Len(m) - 1, h # <<>>, Remembered(h)
         PROVE  Match(m) = h
    <2>1. Len(h) \in 1..(Len(m) - 1)
      <3>1. Len(h) \in Nat \ {0} BY <1>11, EmptySeq
      <3> QED BY <1>1, <1>11, <3>1
    <2>2. h \in known BY <1>5, <1>6, <1>11, <2>1
    <2>3. Match(m) \in known /\ Len(h) <= Len(Match(m)) BY <1>9, <2>2
    <2>4. /\ Match(m) \in Seq(Messages) /\ Before(Match(m), m)
          /\ Len(Match(m)) \in 1..(Len(m) - 1)
      BY <1>4, <1>6, <2>3
    <2>5. Len(Match(m)) = Len(h) BY <1>1, <1>11, <2>3, <2>4
    <2>6. Match(m) = SubSeq(m, 1, Len(Match(m))) /\ h = SubSeq(m, 1, Len(h))
      BY <1>11, <2>4, BeforeIs
    <2> QED BY <2>5, <2>6
  <1> QED BY <1>10, <1>11

(* What counts of a request are the client's messages, as they are.        *)
LEMMA PairsAre ==
  ASSUME NEW m \in Seq(Messages), NEW n
  PROVE  /\ Pairs(m) = m
         /\ Pairs(<<[role |-> "system", text |-> n]>> \o m) = m
  <1>1. \A x \in Messages : x.role \in {"user", "assistant"} BY DEF Messages
  <1>2. Pairs(m) = m
    <2>1. \A i \in DOMAIN m : m[i] \in Messages OBVIOUS
    <2>2. {i \in DOMAIN m : m[i].role \in {"user", "assistant"}} = DOMAIN m BY <1>1, <2>1
    <2> QED BY <2>2, SelectedAll DEF Pairs
  <1>3. Pairs(<<[role |-> "system", text |-> n]>> \o m) = m
    <2> DEFINE sys == [role |-> "system", text |-> n]
               Both == Messages \cup {sys}
    <2>1. sys \in Both /\ m \in Seq(Both) /\ <<sys>> \in Seq(Both) BY SeqMonotonic
    <2>2. sys.role \notin {"user", "assistant"} OBVIOUS
    <2> HIDE DEF sys
    <2> PICK long : long = <<sys>> \o m OBVIOUS
    <2>3. /\ long \in Seq(Both) /\ Len(long) = 1 + Len(m)
          /\ \A i \in 1..(1 + Len(m)) : long[i] = IF i <= 1 THEN <<sys>>[i] ELSE m[i - 1]
      <3>1. Len(<<sys>>) = 1 OBVIOUS
      <3> QED BY <2>1, <3>1, ConcatProperties
    <2> HIDE DEF Both
    <2>4. Len(m) \in Nat /\ DOMAIN m = 1..Len(m) /\ DOMAIN long = 1..(Len(m) + 1)
      BY <2>3
    <2>5. long[1] = sys
      <3>1. <<sys>>[1] = sys OBVIOUS
      <3>2. 1 \in 1..(1 + Len(m)) /\ 1 <= 1 BY <2>4
      <3> QED BY <2>3, <3>1, <3>2
    <2>6. \A i \in 1..Len(m) : long[i + 1] = m[i] /\ m[i] \in Messages
      <3> SUFFICES ASSUME NEW i \in 1..Len(m) PROVE long[i + 1] = m[i] /\ m[i] \in Messages OBVIOUS
      <3>1. i + 1 \in 1..(1 + Len(m)) /\ ~ (i + 1 <= 1) /\ i + 1 - 1 = i BY <2>4
      <3> QED BY <2>3, <3>1
    <2>7. \A i \in 2..(Len(m) + 1) : long[i] \in Messages
      <3> SUFFICES ASSUME NEW i \in 2..(Len(m) + 1) PROVE long[i] \in Messages OBVIOUS
      <3>1. i - 1 \in 1..Len(m) /\ i - 1 + 1 = i BY <2>4
      <3> QED BY <2>6, <3>1
    <2>8. \A i \in DOMAIN long : long[i].role \in {"user", "assistant"} <=> i \in 2..(Len(m) + 1)
      <3> SUFFICES ASSUME NEW i \in DOMAIN long
                   PROVE  long[i].role \in {"user", "assistant"} <=> i \in 2..(Len(m) + 1)
        OBVIOUS
      <3>1. CASE i = 1 BY <2>2, <2>5, <3>1
      <3>2. CASE i # 1
        <4>1. i \in 2..(Len(m) + 1) BY <2>4, <3>2
        <4> QED BY <1>1, <2>7, <4>1
      <3> QED BY <3>1, <3>2
    <2>9. {i \in DOMAIN long : long[i].role \in {"user", "assistant"}} = 2..(Len(m) + 1)
      <3>1. \A i \in 2..(Len(m) + 1) : i \in DOMAIN long BY <2>4
      <3> QED BY <2>8, <3>1, Zenon
    <2>10. Pairs(long) = Selected(long, 2..(Len(m) + 1)) BY <2>9, Zenon DEF Pairs
    <2>11. Len(long) = Len(m) + 1 BY <2>3, <2>4
    <2>12. m \in Seq(Both) /\ long \in Seq(Both) /\ \A i \in 1..Len(m) : long[i + 1] = m[i]
      BY <2>1, <2>3, <2>6
    <2>13. Selected(long, 2..(Len(m) + 1)) = m BY <2>11, <2>12, SelectedTail
    <2> QED BY <2>10, <2>13 DEF sys
  <1> QED BY <1>2, <1>3

(* What a client mine next: its messages again, or one more.               *)
LEMMA AskedIs ==
  ASSUME NEW m \in Seq(Messages)
  PROVE  /\ Question(m) \in Messages /\ Question(m).role = "user"
         /\ Asked(m) = m \/ Asked(m) = Append(m, Question(m))
         /\ Asked(m) \in Seq(Messages) /\ Asked(m) # <<>> /\ Asked(m)[Len(Asked(m))].role = "user"
         /\ m # <<>> /\ m[Len(m)].role = "assistant" => Asked(m) = Append(m, Question(m))
  <1> DEFINE mine == {i \in DOMAIN m : m[i].role = "user"}
  <1>1. Cardinality(mine) \in Nat
    <2>1. Len(m) \in Nat /\ mine \in SUBSET (1..Len(m)) OBVIOUS
    <2> QED BY <2>1, PositionsFinite
  <1> HIDE DEF mine
  <1>2. Question(m) = [role |-> "user", text |-> 1 + Cardinality(mine)] BY DEF Question, mine
  <1>3. Question(m) \in Messages /\ Question(m).role = "user"
    <2>1. 1 + Cardinality(mine) \in Nat BY <1>1
    <2> QED BY <1>2, <2>1 DEF Messages
  <1> PICK q : q = Question(m) OBVIOUS
  <1>4. /\ Append(m, q) \in Seq(Messages) /\ Append(m, q) # <<>> /\ Len(Append(m, q)) = Len(m) + 1
        /\ Append(m, q)[Len(m) + 1] = q
    BY <1>3, AppendProperties
  <1>5. CASE m # <<>> /\ m[Len(m)].role = "user"
    <2>1. Asked(m) = m BY <1>5 DEF Asked, Last
    <2> QED BY <1>3, <1>5, <2>1
  <1>6. CASE ~ (m # <<>> /\ m[Len(m)].role = "user")
    <2>1. Asked(m) = Append(m, q) BY <1>6 DEF Asked, Last
    <2> QED BY <1>3, <1>4, <2>1
  <1> QED BY <1>5, <1>6

(* A history that is told as a whole: its last answer is not a part of one. *)
Whole(h) == h # <<>> /\ ~ (h[Len(h)].role = "assistant" /\ h[Len(h)].text = "part")

TalkRecords ==
  [pc : {"idle", "running"}, messages : Seq(Messages),
   key : 1..MaxKeys \cup {None}, kept : 1..MaxKeys \cup {None}]

Shared(entries, h) ==
  \E a \in 1..MaxKeys : \E b \in 1..MaxKeys : a # b /\ OwnedIn(entries, h, a) /\ OwnedIn(entries, h, b)

Apart(entries) == \A e \in entries : \A f \in entries : e.history = f.history => e = f

SeenBySome(entries, all) ==
  \A e \in entries : Whole(e.history) /\ \E c \in Talks : Before(e.history, all[c].messages)

(* All a conversation has seen is owned by a thread it was sent to, or is  *)
(* nobody's alone.                                                         *)
Filed(entries, all, sent) ==
  \A c \in Talks : \A h \in Seq(Messages) :
    Whole(h) /\ Before(h, all[c].messages)
      => \/ \E k \in 1..MaxKeys : OwnedIn(entries, h, k) /\ c \in sent[k]
         \/ Shared(entries, h)

(* A conversation that was answered in full owns what it has seen; another *)
(* owner has it from another conversation.                                 *)
Findable(entries, all, c) ==
  all[c].pc = "idle" /\ all[c].kept # None
    => /\ all[c].messages # <<>>
       /\ all[c].messages[Len(all[c].messages)].role = "assistant"
       /\ OwnedIn(entries, all[c].messages, all[c].kept) \/ Shared(entries, all[c].messages)
       /\ \A k \in 1..MaxKeys :
            OwnedIn(entries, all[c].messages, k) /\ k # all[c].kept
              => \E d \in Talks \ {c} : Before(all[c].messages, all[d].messages)

(* Nothing was forgotten, and the history has the key or was shared.       *)
Grown(before, after, h, key) ==
  /\ \A g : \A k \in 1..MaxKeys : OwnedIn(before, g, k) => OwnedIn(after, g, k)
  /\ OwnedIn(after, h, key) \/ Shared(after, h)
  /\ \A g : \A k \in 1..MaxKeys :
       OwnedIn(after, g, k) => OwnedIn(before, g, k) \/ (g = h /\ k = key)

(* A conversation goes on, at most by one message.                         *)
GoesOn(all, next) ==
  \A c \in Talks : \/ next[c].messages = all[c].messages
                   \/ \E x \in Messages : next[c].messages = Append(all[c].messages, x)

LEMMA RecordsFields ==
  ASSUME NEW all \in [Talks -> TalkRecords], NEW c \in Talks
  PROVE  /\ all[c] \in TalkRecords /\ all[c].pc \in {"idle", "running"}
         /\ all[c].messages \in Seq(Messages)
         /\ all[c].key \in 1..MaxKeys \cup {None} /\ all[c].kept \in 1..MaxKeys \cup {None}
  BY DEF TalkRecords

LEMMA StillBefore ==
  ASSUME NEW all \in [Talks -> TalkRecords], NEW next, GoesOn(all, next),
         NEW c \in Talks, NEW h \in Seq(Messages), Before(h, all[c].messages)
  PROVE  Before(h, next[c].messages)
  <1>1. all[c].messages \in Seq(Messages) BY RecordsFields
  <1>2. CASE next[c].messages = all[c].messages BY <1>2
  <1>3. CASE \E x \in Messages : next[c].messages = Append(all[c].messages, x)
    BY <1>1, <1>3, BeforeNext
  <1> QED BY <1>2, <1>3 DEF GoesOn

LEMMA GrownShared ==
  ASSUME NEW before, NEW after, NEW h, NEW key, Grown(before, after, h, key),
         NEW g, Shared(before, g)
  PROVE  Shared(after, g)
  BY Zenon DEF Grown, Shared

(* With different histories in the index and none lost, what was owned     *)
(* stays so.                                                               *)
LEMMA RenewedGrows ==
  ASSUME NEW before \in SUBSET Entries, NEW after \in SUBSET Entries, NEW h, NEW key \in 1..MaxKeys,
         RecordedAs(before, after, h, key), Apart(before),
         \A e \in before : \E f \in after : f.history = e.history
  PROVE  Grown(before, after, h, key)
  <1> PICK new \in after :
           /\ new.history = h
           /\ \A k \in 1..MaxKeys : OwnedIn(before, h, k) => k \in new.owners
           /\ \A k \in new.owners : k = key \/ OwnedIn(before, h, k)
           /\ key \in new.owners \/ \E a \in new.owners : \E b \in new.owners : a # b
    BY Zenon DEF RecordedAs
  <1>1. \A e \in after : (e \in before /\ e.history # h) \/ e.history = h BY Zenon DEF RecordedAs
  <1>2. \A e \in after : e.history = h => e = new BY Zenon DEF RecordedAs
  <1>3. ASSUME NEW g, NEW k \in 1..MaxKeys, OwnedIn(before, g, k) PROVE OwnedIn(after, g, k)
    <2>1. CASE g = h BY <1>3, <2>1 DEF OwnedIn
    <2>2. CASE g # h
      <3> PICK e \in before : e.history = g /\ k \in e.owners BY <1>3 DEF OwnedIn
      <3> PICK f \in after : f.history = g OBVIOUS
      <3>1. f \in before BY <1>1, <2>2
      <3>2. f = e BY <3>1 DEF Apart
      <3> QED BY <3>2 DEF OwnedIn
    <2> QED BY <2>1, <2>2
  <1>4. OwnedIn(after, h, key) \/ Shared(after, h)
    <2>1. new.owners \in SUBSET (1..MaxKeys) BY DEF Entries
    <2> QED BY <2>1 DEF OwnedIn, Shared
  <1>5. ASSUME NEW g, NEW k \in 1..MaxKeys, OwnedIn(after, g, k)
        PROVE  OwnedIn(before, g, k) \/ (g = h /\ k = key)
    <2> PICK e \in after : e.history = g /\ k \in e.owners BY <1>5 DEF OwnedIn
    <2>1. CASE g = h BY <1>2, <2>1
    <2>2. CASE g # h BY <1>1, <2>2 DEF OwnedIn
    <2> QED BY <2>1, <2>2
  <1> QED BY <1>3, <1>4, <1>5 DEF Grown

(* A conversation goes on, by a message that is sent or answered on the    *)
(* thread of a key, and all the others stay as they are.                   *)
Carries(all, next, sent, resent, c, key) ==
  /\ all \in [Talks -> TalkRecords] /\ next \in [Talks -> TalkRecords]
  /\ GoesOn(all, next)
  /\ c \in Talks /\ \A d \in Talks \ {c} : next[d] = all[d]
  /\ key \in 1..MaxKeys /\ c \in resent[key]
  /\ \A k \in 1..MaxKeys : \A d \in sent[k] : d \in resent[k]

LEMMA CarriesFiled ==
  ASSUME NEW before, NEW after, NEW all, NEW next, NEW sent, NEW resent, NEW c, NEW key,
         Carries(all, next, sent, resent, c, key),
         Grown(before, after, next[c].messages, key), Filed(before, all, sent)
  PROVE  Filed(after, next, resent)
  <1> SUFFICES ASSUME NEW d \in Talks, NEW h \in Seq(Messages), Whole(h), Before(h, next[d].messages)
               PROVE  \/ \E k \in 1..MaxKeys : OwnedIn(after, h, k) /\ d \in resent[k]
                      \/ Shared(after, h)
    BY DEF Filed
  <1>1. all \in [Talks -> TalkRecords] /\ c \in Talks /\ key \in 1..MaxKeys BY DEF Carries
  <1>2. all[d].messages \in Seq(Messages) BY <1>1, RecordsFields
  <1>3. CASE Before(h, all[d].messages)
    <2>1. \/ \E k \in 1..MaxKeys : OwnedIn(before, h, k) /\ d \in sent[k]
          \/ Shared(before, h)
      BY <1>3 DEF Filed
    <2>2. CASE Shared(before, h) BY <2>2, GrownShared
    <2>3. CASE \E k \in 1..MaxKeys : OwnedIn(before, h, k) /\ d \in sent[k]
      <3> PICK k \in 1..MaxKeys : OwnedIn(before, h, k) /\ d \in sent[k] BY <2>3
      <3>1. OwnedIn(after, h, k) BY Zenon DEF Grown
      <3>2. d \in resent[k] BY Zenon DEF Carries
      <3> QED BY <3>1, <3>2
    <2> QED BY <2>1, <2>2, <2>3
  <1>4. CASE ~ Before(h, all[d].messages)
    <2>1. next[d].messages # all[d].messages BY <1>4
    <2>2. d = c BY <2>1 DEF Carries
    <2>3. PICK x \in Messages : next[d].messages = Append(all[d].messages, x) BY <2>1 DEF Carries, GoesOn
    <2>4. h = next[d].messages BY <1>2, <1>4, <2>3, BeforeNext
    <2>5. OwnedIn(after, h, key) \/ Shared(after, h) BY <2>2, <2>4, Zenon DEF Grown
    <2>6. d \in resent[key] BY <2>2 DEF Carries
    <2> QED BY <1>1, <2>5, <2>6
  <1> QED BY <1>3, <1>4

LEMMA CarriesTold ==
  ASSUME NEW before \in SUBSET Entries, NEW after, NEW all, NEW next, NEW sent, NEW resent, NEW c, NEW key,
         Carries(all, next, sent, resent, c, key), Whole(next[c].messages),
         \A e \in after : e \in before \/ e.history = next[c].messages,
         SeenBySome(before, all)
  PROVE  SeenBySome(after, next)
  <1> SUFFICES ASSUME NEW e \in after
               PROVE  Whole(e.history) /\ \E d \in Talks : Before(e.history, next[d].messages)
    BY DEF SeenBySome
  <1>1. /\ all \in [Talks -> TalkRecords] /\ next \in [Talks -> TalkRecords] /\ c \in Talks
        /\ GoesOn(all, next)
    BY DEF Carries
  <1>2. CASE e \in before
    <2>1. Whole(e.history) BY <1>2 DEF SeenBySome
    <2> PICK d \in Talks : Before(e.history, all[d].messages) BY <1>2 DEF SeenBySome
    <2>2. e.history \in Seq(Messages) BY <1>2 DEF Entries
    <2>3. Before(e.history, next[d].messages) BY <1>1, <2>2, StillBefore
    <2> QED BY <2>1, <2>3
  <1>3. CASE e.history = next[c].messages
    <2>1. next[c].messages \in Seq(Messages) BY <1>1, RecordsFields
    <2>2. Before(next[c].messages, next[c].messages)
      <3>1. Len(next[c].messages) \in Nat BY <2>1, LenProperties
      <3> QED BY <3>1 DEF Before
    <2> QED BY <1>1, <1>3, <2>2
  <1> QED BY <1>2, <1>3

LEMMA CarriesFindable ==
  ASSUME NEW before, NEW after, NEW all, NEW next, NEW sent, NEW resent, NEW c, NEW key,
         Carries(all, next, sent, resent, c, key),
         Grown(before, after, next[c].messages, key),
         NEW d \in Talks \ {c}, Findable(before, all, d)
  PROVE  Findable(after, next, d)
  <1> SUFFICES ASSUME next[d].pc = "idle", next[d].kept # None
               PROVE  /\ next[d].messages # <<>>
                      /\ next[d].messages[Len(next[d].messages)].role = "assistant"
                      /\ OwnedIn(after, next[d].messages, next[d].kept) \/ Shared(after, next[d].messages)
                      /\ \A k \in 1..MaxKeys :
                           OwnedIn(after, next[d].messages, k) /\ k # next[d].kept
                             => \E o \in Talks \ {d} : Before(next[d].messages, next[o].messages)
    BY DEF Findable
  <1>1. /\ all \in [Talks -> TalkRecords] /\ next \in [Talks -> TalkRecords] /\ c \in Talks
        /\ GoesOn(all, next) /\ next[d] = all[d]
    BY DEF Carries
  <1> PICK m : m = all[d].messages OBVIOUS
  <1> PICK kept : kept = all[d].kept OBVIOUS
  <1>2. next[d].messages = m /\ next[d].kept = kept /\ m \in Seq(Messages) BY <1>1, RecordsFields
  <1>3. kept \in 1..MaxKeys BY <1>1, <1>2, RecordsFields
  <1>4. /\ m # <<>> /\ m[Len(m)].role = "assistant"
        /\ OwnedIn(before, m, kept) \/ Shared(before, m)
        /\ \A k \in 1..MaxKeys : OwnedIn(before, m, k) /\ k # kept
                                => \E o \in Talks \ {d} : Before(m, all[o].messages)
    BY <1>1, <1>2 DEF Findable
  <1>5. OwnedIn(after, m, kept) \/ Shared(after, m)
    <2>1. OwnedIn(before, m, kept) => OwnedIn(after, m, kept) BY <1>3, Zenon DEF Grown
    <2> QED BY <1>4, <2>1, GrownShared
  <1>6. ASSUME NEW k \in 1..MaxKeys, OwnedIn(after, m, k), k # kept
        PROVE  \E o \in Talks \ {d} : Before(m, next[o].messages)
    <2>1. OwnedIn(before, m, k) \/ m = next[c].messages BY <1>6, Zenon DEF Grown
    <2>2. CASE OwnedIn(before, m, k)
      <3> PICK o \in Talks \ {d} : Before(m, all[o].messages) BY <1>4, <1>6, <2>2
      <3>1. Before(m, next[o].messages) BY <1>1, <1>2, StillBefore
      <3> QED BY <3>1
    <2>3. CASE m = next[c].messages
      <3>1. Len(m) \in Nat BY <1>2, LenProperties
      <3>2. Before(m, next[c].messages) BY <2>3, <3>1 DEF Before
      <3>3. c \in Talks \ {d} BY <1>1
      <3> QED BY <3>2, <3>3
    <2> QED BY <2>1, <2>2, <2>3
  <1> QED BY <1>2, <1>4, <1>5, <1>6

(* Who was answered in full finds it back: another owner of it had it from *)
(* another conversation, since this one has just been told.                *)
LEMMA AnswerFindable ==
  ASSUME NEW before \in SUBSET Entries, NEW after, NEW all, NEW next, NEW sent, NEW resent, NEW c, NEW key,
         Carries(all, next, sent, resent, c, key),
         Grown(before, after, next[c].messages, key), SeenBySome(before, all),
         NEW x \in Messages, next[c].messages = Append(all[c].messages, x), x.role = "assistant",
         next[c].kept = key
  PROVE  Findable(after, next, c)
  <1>1. /\ all \in [Talks -> TalkRecords] /\ c \in Talks /\ GoesOn(all, next)
        /\ key \in 1..MaxKeys /\ next \in [Talks -> TalkRecords]
    BY DEF Carries
  <1> PICK old : old = all[c].messages OBVIOUS
  <1> PICK m : m = next[c].messages OBVIOUS
  <1>2. old \in Seq(Messages) /\ m \in Seq(Messages) BY <1>1, RecordsFields
  <1>3. m # <<>> /\ m[Len(m)].role = "assistant"
    <2>1. m = Append(old, x) OBVIOUS
    <2>2. m # <<>> /\ Len(m) = Len(old) + 1 /\ m[Len(old) + 1] = x BY <1>2, <2>1, AppendProperties
    <2>3. m[Len(m)] = x BY <2>2
    <2> QED BY <2>2, <2>3
  <1>4. OwnedIn(after, m, key) \/ Shared(after, m) BY DEF Grown
  <1>5. ASSUME NEW k \in 1..MaxKeys, OwnedIn(after, m, k), k # key
        PROVE  \E d \in Talks \ {c} : Before(m, next[d].messages)
    <2>1. OwnedIn(before, m, k) BY <1>5, Zenon DEF Grown
    <2> PICK e \in before : e.history = m BY <2>1 DEF OwnedIn
    <2> PICK d \in Talks : Before(m, all[d].messages) BY DEF SeenBySome
    <2>2. d # c BY <1>2, BeforeNext
    <2>3. Before(m, next[d].messages) BY <1>1, <1>2, StillBefore
    <2> QED BY <2>2, <2>3
  <1> QED BY <1>1, <1>3, <1>4, <1>5 DEF Findable

IndexTyped ==
  /\ index \in Seq(Entries) /\ forgot \in BOOLEAN
  /\ keys \in 0..MaxKeys /\ live \in SUBSET (1..keys)
  /\ posted \in [1..MaxKeys -> SUBSET Talks]
  /\ talks \in [Talks -> TalkRecords]

\* No conversation was sent to a key that was not given out, and one whose
\* turn runs was sent to its key.
Sent ==
  /\ \A k \in 1..MaxKeys : k > keys => posted[k] = {}
  /\ \A c \in Talks : talks[c].pc = "running" =>
       talks[c].key \in 1..MaxKeys /\ c \in posted[talks[c].key]

Alone == \A k \in 1..MaxKeys : \A c \in posted[k] : \A d \in posted[k] : c = d

IndexInv ==
  /\ IndexTyped /\ Sent
  /\ Apart(Range(index)) /\ SeenBySome(Range(index), talks)
  /\ \/ forgot
     \/ /\ Alone
        /\ Filed(Range(index), talks, posted)
        /\ \A c \in Talks : Findable(Range(index), talks, c)

(* What is recorded is the newest entry, and what is not lost has grown.   *)
LEMMA Recording ==
  ASSUME IndexTyped, Apart(Range(index)),
         NEW h \in Seq(Messages), NEW key \in 1..MaxKeys,
         NEW looked \in Seq(Entries), Range(looked) = Range(index),
         RecordedUnder(h, key, looked)
  PROVE  /\ index' \in Seq(Entries) /\ forgot' \in BOOLEAN /\ Apart(Range(index'))
         /\ \A e \in Range(index') : e \in Range(index) \/ e.history = h
         /\ ~ forgot' => ~ forgot /\ Grown(Range(index), Range(index'), h, key)
  <1>1. /\ index' = Record(looked, h, key)
        /\ forgot' = (forgot \/ \E e \in Range(index) : \A f \in Range(index') : f.history # e.history)
    BY DEF RecordedUnder
  <1>2. index' \in Seq(Entries) /\ RecordedAs(Range(index), Range(index'), h, key)
    BY <1>1, RecordRenews
  <1>3. forgot' \in BOOLEAN BY <1>1 DEF IndexTyped
  <1>4. index \in Seq(Entries) BY DEF IndexTyped
  <1>5. Range(index) \in SUBSET Entries /\ Range(index') \in SUBSET Entries
    BY <1>2, <1>4, RangeOfSeq
  <1> PICK before \in SUBSET Entries : before = Range(index) BY <1>5
  <1> PICK after \in SUBSET Entries : after = Range(index') BY <1>5
  <1>6. RecordedAs(before, after, h, key) /\ Apart(before) BY <1>2
  <1>7. Apart(after)
    <2> SUFFICES ASSUME NEW e \in after, NEW f \in after, e.history = f.history PROVE e = f
      BY DEF Apart
    <2>1. CASE e.history = h
      <3>1. f.history = h BY <2>1
      <3> QED BY <1>6, <2>1, <3>1, Zenon DEF RecordedAs
    <2>2. CASE e.history # h
      <3>1. e \in before BY <1>6, <2>2, Zenon DEF RecordedAs
      <3>2. f.history # h BY <2>2
      <3>3. f \in before BY <1>6, <3>2, Zenon DEF RecordedAs
      <3> QED BY <1>6, <3>1, <3>3 DEF Apart
    <2> QED BY <2>1, <2>2
  <1>8. \A e \in after : e \in before \/ e.history = h BY <1>6, Zenon DEF RecordedAs
  <1>9. ASSUME ~ forgot' PROVE ~ forgot /\ Grown(before, after, h, key)
    <2>1. ~ forgot BY <1>1, <1>9
    <2>2. \A e \in before : \E f \in after : f.history = e.history BY <1>1, <1>9
    <2> QED BY <1>6, <2>1, <2>2, RenewedGrows
  <1> QED BY <1>2, <1>3, <1>7, <1>8, <1>9

LEMMA IndexTypes ==
  ASSUME IndexTyped
  PROVE  /\ index \in Seq(Entries) /\ Range(index) \in SUBSET Entries /\ forgot \in BOOLEAN
         /\ keys \in Nat /\ keys <= MaxKeys /\ MaxKeys \in Nat
         /\ \A k \in live : k \in 1..MaxKeys /\ k <= keys
         /\ posted \in [1..MaxKeys -> SUBSET Talks] /\ talks \in [Talks -> TalkRecords]
  <1>1. MaxKeys \in Nat BY IndexAssumption
  <1>2. index \in Seq(Entries) BY DEF IndexTyped
  <1>3. Range(index) \in SUBSET Entries BY <1>2, RangeOfSeq
  <1>4. \A k \in live : k \in 1..keys BY DEF IndexTyped
  <1>5. keys \in Nat /\ keys <= MaxKeys BY <1>1 DEF IndexTyped
  <1>6. \A k \in live : k \in 1..MaxKeys /\ k <= keys BY <1>1, <1>4, <1>5
  <1> QED BY <1>1, <1>2, <1>3, <1>5, <1>6 DEF IndexTyped

\* A request goes on a fresh thread, or on that of the one owner of a
\* history it begins with.
Goes(c, m, key, looked) ==
  /\ talks[c].pc = "idle" /\ m = Asked(talks[c].messages)
  /\ talks' = [talks EXCEPT ![c] =
                 [talks[c] EXCEPT !.pc = "running", !.messages = m, !.key = key]]
  /\ posted' = [posted EXCEPT ![key] = posted[key] \cup {c}]
  /\ live' = live \cup {key}
  /\ RecordedUnder(m, key, looked) /\ Range(looked) = Range(index)
  /\ \/ /\ key = keys + 1 /\ keys' = keys + 1
        /\ ~ \E k \in live : OwnersOf(Match(m)) = {k} /\ \E x \in Range(m) : x.role = "assistant"
     \/ /\ key \in live /\ keys' = keys
        /\ OwnersOf(Match(m)) = {key} /\ Match(m) # <<>>

LEMMA SayIs ==
  ASSUME IndexInv, NEW c \in Talks, Say(c)
  PROVE  \E m \in Seq(Messages) : \E key \in 1..MaxKeys : \E looked \in Seq(Entries) :
           Goes(c, m, key, looked)
  <1> DEFINE m == Asked(talks[c].messages)
             pairs == Pairs(<<[role |-> "system", text |-> keys]>> \o m)
             found == IF \E x \in Range(m) : x.role = "assistant" THEN Match(pairs) ELSE <<>>
             looked == IF found = <<>> THEN index ELSE Touched(index, found)
             joins == Cardinality(OwnersOf(found)) = 1 /\ OwnersOf(found) \subseteq live
             key == IF joins THEN CHOOSE k \in OwnersOf(found) : TRUE ELSE keys + 1
  <1>1. /\ talks[c].pc = "idle"
        /\ joins \/ keys < MaxKeys
        /\ keys' = IF joins THEN keys ELSE keys + 1
        /\ live' = live \cup {key}
        /\ posted' = [posted EXCEPT ![key] = posted[key] \cup {c}]
        /\ talks' = [talks EXCEPT ![c] =
                      [talks[c] EXCEPT !.pc = "running", !.messages = m, !.key = key]]
        /\ RecordedUnder(pairs, key, looked)
    BY DEF Say
  <1>2. IndexTyped BY DEF IndexInv
  <1>3. m \in Seq(Messages) /\ m # <<>>
    <2>1. talks[c].messages \in Seq(Messages) BY <1>2, IndexTypes, RecordsFields
    <2> QED BY <2>1, AskedIs
  <1>4. pairs = m
    <2> HIDE DEF m
    <2> QED BY <1>3, PairsAre
  <1>5. looked \in Seq(Entries) /\ Range(looked) = Range(index)
    <2> HIDE DEF found
    <2>1. index \in Seq(Entries) BY <1>2, IndexTypes
    <2> QED BY <2>1, TouchedSame
  <1>6. OwnersOf(<<>>) = {}
    <2> SUFFICES ASSUME NEW k \in OwnersOf(<<>>) PROVE FALSE OBVIOUS
    <2>1. OwnedIn(Range(index), <<>>, k) BY LocatedIs
    <2> PICK e \in Range(index) : e.history = <<>> BY <2>1 DEF OwnedIn
    <2> QED BY DEF IndexInv, SeenBySome, Whole
  <1>7. found = <<>> \/ (found = Match(m) /\ \E x \in Range(m) : x.role = "assistant")
    BY <1>4
  <1>8. (\E x \in Range(m) : x.role = "assistant") => found = Match(m) BY <1>4
  <1> HIDE DEF m, pairs, found, looked
  <1>9. IsFiniteSet(OwnersOf(found))
    <2>1. ASSUME NEW k \in OwnersOf(found) PROVE k \in 1..MaxKeys
      <3>1. OwnedIn(Range(index), found, k) BY <2>1, LocatedIs
      <3> PICK e \in Range(index) : k \in e.owners BY <3>1 DEF OwnedIn
      <3>2. e \in Entries BY <1>2, IndexTypes
      <3> QED BY <3>2 DEF Entries
    <2>2. OwnersOf(found) \in SUBSET (1..MaxKeys) BY <2>1
    <2> QED BY <1>2, <2>2, IndexTypes, PositionsFinite
  <1>10. joins <=> \E k \in live : OwnersOf(found) = {k}
    <2>1. Cardinality(OwnersOf(found)) = 1 <=> \E k : OwnersOf(found) = {k}
      BY <1>9, FS_Singleton
    <2> QED BY <2>1, Zenon
  <1>11. CASE joins
    <2> PICK k \in live : OwnersOf(found) = {k} BY <1>10, <1>11
    <2>1. key = k BY <1>11
    <2>2. found # <<>> BY <1>6
    <2>3. found = Match(m) BY <1>7, <2>2
    <2>4. k \in 1..MaxKeys BY <1>2, IndexTypes
    <2>5. keys' = keys BY <1>1, <1>11
    <2> HIDE DEF key, joins
    <2>6. key \in 1..MaxKeys /\ key \in live /\ OwnersOf(Match(m)) = {key} /\ Match(m) # <<>>
      BY <2>1, <2>2, <2>3, <2>4
    <2>7. m = Asked(talks[c].messages) BY DEF m
    <2>8. Goes(c, m, key, looked) BY <1>1, <1>4, <1>5, <2>5, <2>6, <2>7 DEF Goes
    <2> QED BY <1>3, <1>5, <2>6, <2>8
  <1>12. CASE ~ joins
    <2>1. key = keys + 1 /\ keys' = keys + 1 /\ keys < MaxKeys BY <1>1, <1>12
    <2>2. keys + 1 \in 1..MaxKeys BY <1>2, <2>1, IndexTypes
    <2>3. ~ \E k \in live : OwnersOf(Match(m)) = {k} /\ \E x \in Range(m) : x.role = "assistant"
      BY <1>8, <1>10, <1>12
    <2> HIDE DEF key, joins
    <2>4. m = Asked(talks[c].messages) BY DEF m
    <2>5. Goes(c, m, key, looked) BY <1>1, <1>4, <1>5, <2>1, <2>3, <2>4 DEF Goes
    <2>6. key \in 1..MaxKeys BY <2>1, <2>2
    <2> QED BY <1>3, <1>5, <2>5, <2>6
  <1> QED BY <1>11, <1>12

(* The parts of the invariant after a step.                                *)
LEMMA InvAfter ==
  ASSUME IndexTyped', Sent', Apart(Range(index')), SeenBySome(Range(index'), talks'),
         ~ forgot' => /\ Alone' /\ Filed(Range(index'), talks', posted')
                      /\ \A c \in Talks : Findable(Range(index'), talks', c)
  PROVE  IndexInv'
  <1>1. forgot' \in BOOLEAN BY DEF IndexTyped
  <1> QED BY <1>1 DEF IndexInv

LEMMA SayKeeps ==
  ASSUME IndexInv, NEW c \in Talks, Say(c)
  PROVE  IndexInv'
  <1> PICK m \in Seq(Messages), key \in 1..MaxKeys, looked \in Seq(Entries) : Goes(c, m, key, looked)
    BY SayIs
  <1>1. /\ talks' = [talks EXCEPT ![c] =
                      [talks[c] EXCEPT !.pc = "running", !.messages = m, !.key = key]]
        /\ posted' = [posted EXCEPT ![key] = posted[key] \cup {c}]
        /\ live' = live \cup {key} /\ m = Asked(talks[c].messages)
        /\ RecordedUnder(m, key, looked) /\ Range(looked) = Range(index)
    BY DEF Goes
  <1>2. \/ key = keys + 1 /\ keys' = keys + 1
        \/ /\ key \in live /\ keys' = keys
           /\ OwnersOf(Match(m)) = {key} /\ Match(m) # <<>>
    BY DEF Goes
  <1>3. IndexTyped /\ Sent /\ Apart(Range(index)) /\ SeenBySome(Range(index), talks)
    BY DEF IndexInv
  <1>4. /\ index \in Seq(Entries) /\ Range(index) \in SUBSET Entries /\ forgot \in BOOLEAN
        /\ keys \in Nat /\ keys <= MaxKeys /\ MaxKeys \in Nat
        /\ \A k \in live : k \in 1..MaxKeys /\ k <= keys
        /\ posted \in [1..MaxKeys -> SUBSET Talks] /\ talks \in [Talks -> TalkRecords]
    BY <1>3, IndexTypes
  <1>5. /\ index' \in Seq(Entries) /\ forgot' \in BOOLEAN /\ Apart(Range(index'))
        /\ \A e \in Range(index') : e \in Range(index) \/ e.history = m
        /\ ~ forgot' => ~ forgot /\ Grown(Range(index), Range(index'), m, key)
    BY <1>1, <1>3, Recording
  <1> PICK old : old = talks[c].messages OBVIOUS
  <1>6. old \in Seq(Messages) BY <1>4, RecordsFields
  <1>7. /\ m = old \/ \E x \in Messages : m = Append(old, x)
        /\ m # <<>> /\ m[Len(m)].role = "user"
    BY <1>1, <1>6, AskedIs
  <1>8. /\ talks' \in [Talks -> TalkRecords]
        /\ talks'[c].pc = "running" /\ talks'[c].messages = m /\ talks'[c].key = key
        /\ \A d \in Talks \ {c} : talks'[d] = talks[d]
    <2> PICK rec : rec = [talks[c] EXCEPT !.pc = "running", !.messages = m, !.key = key] OBVIOUS
    <2>1. talks[c] \in TalkRecords BY <1>4
    <2>2. rec \in TalkRecords /\ rec.pc = "running" /\ rec.messages = m /\ rec.key = key
      BY <2>1 DEF TalkRecords
    <2>3. talks' = [talks EXCEPT ![c] = rec] BY <1>1
    <2> QED BY <1>4, <2>2, <2>3
  <1>9. /\ posted' \in [1..MaxKeys -> SUBSET Talks] /\ posted'[key] = posted[key] \cup {c}
        /\ \A k \in 1..MaxKeys : k # key => posted'[k] = posted[k]
    BY <1>1, <1>4
  <1>10. Carries(talks, talks', posted, posted', c, key)
    <2>1. GoesOn(talks, talks') BY <1>7, <1>8 DEF GoesOn
    <2>2. \A k \in 1..MaxKeys : \A d \in posted[k] : d \in posted'[k] BY <1>9
    <2> QED BY <1>4, <1>8, <1>9, <2>1, <2>2 DEF Carries
  <1>11. IndexTyped'
    <2>1. keys' \in 0..MaxKeys /\ key \in 1..keys' BY <1>2, <1>4
    <2>2. keys' = keys \/ keys' = keys + 1 BY <1>2
    <2>3. \A k \in live' : k \in 1..keys' BY <1>1, <1>4, <2>1, <2>2
    <2>4. live' \in SUBSET (1..keys') BY <2>3
    <2> QED BY <1>5, <1>8, <1>9, <2>1, <2>4 DEF IndexTyped
  <1>12. Sent'
    <2>1. ASSUME NEW k \in 1..MaxKeys, k > keys' PROVE posted'[k] = {}
      <3>1. k # key /\ k > keys BY <1>2, <1>4, <2>1
      <3> QED BY <1>3, <1>9, <3>1 DEF Sent
    <2>2. ASSUME NEW d \in Talks, talks'[d].pc = "running"
          PROVE  talks'[d].key \in 1..MaxKeys /\ d \in posted'[talks'[d].key]
      <3>1. CASE d = c BY <1>8, <1>9, <3>1
      <3>2. CASE d # c
        <4>1. talks'[d] = talks[d] BY <1>8, <3>2
        <4>2. talks[d].key \in 1..MaxKeys /\ d \in posted[talks[d].key] BY <1>3, <2>2, <4>1 DEF Sent
        <4> QED BY <1>9, <4>1, <4>2
      <3> QED BY <3>1, <3>2
    <2> QED BY <2>1, <2>2 DEF Sent
  <1>13. SeenBySome(Range(index'), talks')
    <2>1. Whole(m)
      <3>1. m[Len(m)].role # "assistant" BY <1>7
      <3> QED BY <1>7, <3>1 DEF Whole
    <2>2. Whole(talks'[c].messages) BY <1>8, <2>1
    <2>3. \A e \in Range(index') : e \in Range(index) \/ e.history = talks'[c].messages
      BY <1>5, <1>8
    <2>4. Range(index) \in SUBSET Entries /\ SeenBySome(Range(index), talks) BY <1>3, <1>4
    <2> QED BY <1>10, <2>2, <2>3, <2>4, CarriesTold
  <1>14. ASSUME ~ forgot'
         PROVE  /\ Alone' /\ Filed(Range(index'), talks', posted')
                /\ \A d \in Talks : Findable(Range(index'), talks', d)
    <2>1. ~ forgot /\ Grown(Range(index), Range(index'), talks'[c].messages, key)
      BY <1>5, <1>8, <1>14
    <2>2. /\ Alone /\ Filed(Range(index), talks, posted)
          /\ \A d \in Talks : Findable(Range(index), talks, d)
      BY <2>1 DEF IndexInv
    <2>3. \A d \in posted[key] : d = c
      <3>1. CASE key = keys + 1
        <4>1. key > keys BY <1>4, <3>1
        <4> QED BY <1>3, <4>1 DEF Sent
      <3>2. CASE OwnersOf(Match(m)) = {key} /\ Match(m) # <<>>
        <4> PICK f : f = Match(m) OBVIOUS
        <4>1. f \in Seq(Messages) /\ Before(f, m) /\ Len(f) < Len(m) /\ Remembered(f)
          BY <1>7, <3>2, MatchIs
        <4>2. Before(f, old)
          <5>1. CASE m = old BY <4>1, <5>1
          <5>2. CASE \E x \in Messages : m = Append(old, x)
            <6>1. f # m
              <7>1. Len(m) \in Nat OBVIOUS
              <7> QED BY <4>1, <7>1
            <6> QED BY <1>6, <4>1, <5>2, <6>1, BeforeNext
          <5> QED BY <1>7, <5>1, <5>2
        <4>3. Whole(f) BY <1>3, <4>1 DEF SeenBySome, Remembered
        <4>4. (\E k \in 1..MaxKeys : OwnedIn(Range(index), f, k) /\ c \in posted[k])
              \/ Shared(Range(index), f)
          BY <2>2, <4>1, <4>2, <4>3 DEF Filed
        <4>5. \A k : OwnedIn(Range(index), f, k) => k = key
          <5>1. OwnersOf(f) = {key} BY <3>2
          <5> QED BY <5>1, LocatedIs
        <4>6. ~ Shared(Range(index), f) BY <4>5 DEF Shared
        <4>7. c \in posted[key] BY <4>4, <4>5, <4>6
        <4> QED BY <2>2, <4>7 DEF Alone
      <3> QED BY <1>2, <3>1, <3>2
    <2>4. Alone'
      <3> SUFFICES ASSUME NEW k \in 1..MaxKeys, NEW a \in posted'[k], NEW b \in posted'[k]
                   PROVE  a = b
        BY DEF Alone
      <3>1. CASE k = key BY <1>9, <2>3, <3>1
      <3>2. CASE k # key BY <1>9, <2>2, <3>2 DEF Alone
      <3> QED BY <3>1, <3>2
    <2>5. Filed(Range(index'), talks', posted') BY <1>10, <2>1, <2>2, CarriesFiled
    <2>6. ASSUME NEW d \in Talks PROVE Findable(Range(index'), talks', d)
      <3>1. CASE d = c BY <1>8, <3>1 DEF Findable
      <3>2. CASE d # c
        <4>1. d \in Talks \ {c} BY <3>2
        <4> QED BY <1>10, <2>1, <2>2, <4>1, CarriesFindable
      <3> QED BY <3>1, <3>2
    <2> QED BY <2>4, <2>5, <2>6
  <1> QED BY <1>5, <1>11, <1>12, <1>13, <1>14, InvAfter

(* Conversations that go on still tell what is recorded.                   *)
LEMMA GoesOnTold ==
  ASSUME NEW entries \in SUBSET Entries, NEW all \in [Talks -> TalkRecords], NEW next, GoesOn(all, next),
         SeenBySome(entries, all)
  PROVE  SeenBySome(entries, next)
  <1> SUFFICES ASSUME NEW e \in entries
               PROVE  Whole(e.history) /\ \E d \in Talks : Before(e.history, next[d].messages)
    BY DEF SeenBySome
  <1>1. Whole(e.history) BY DEF SeenBySome
  <1> PICK d \in Talks : Before(e.history, all[d].messages) BY DEF SeenBySome
  <1>2. e.history \in Seq(Messages) BY DEF Entries
  <1>3. Before(e.history, next[d].messages) BY <1>2, StillBefore
  <1> QED BY <1>1, <1>3

LEMMA GoesOnFindable ==
  ASSUME NEW entries, NEW all \in [Talks -> TalkRecords], NEW next, GoesOn(all, next),
         NEW d \in Talks, next[d] = all[d], Findable(entries, all, d)
  PROVE  Findable(entries, next, d)
  <1>1. all[d].messages \in Seq(Messages) BY RecordsFields
  <1>2. \A o \in Talks : Before(all[d].messages, all[o].messages) => Before(all[d].messages, next[o].messages)
    BY <1>1, StillBefore
  <1> QED BY <1>2 DEF Findable

LEMMA AnsweredKeeps ==
  ASSUME IndexInv, NEW c \in Talks, NEW a \in Replies, Answered(c, a)
  PROVE  IndexInv'
  <1> PICK x : x = [role |-> "assistant", text |-> a] OBVIOUS
  <1> PICK old : old = talks[c].messages OBVIOUS
  <1> PICK key : key = talks[c].key OBVIOUS
  <1> PICK m : m = Append(old, x) OBVIOUS
  <1> PICK kept : kept = IF key \in live THEN key ELSE None OBVIOUS
  <1>1. /\ talks[c].pc = "running"
        /\ talks' = [talks EXCEPT ![c] =
                      [talks[c] EXCEPT !.pc = "idle", !.messages = m, !.kept = kept]]
        /\ key \in live => RecordedUnder(Pairs(m), key, index)
        /\ key \notin live => forgot' = TRUE /\ index' = index
        /\ live' = live /\ posted' = posted /\ keys' = keys
    BY DEF Answered
  <1>2. IndexTyped /\ Sent /\ Apart(Range(index)) /\ SeenBySome(Range(index), talks)
    BY DEF IndexInv
  <1>3. /\ index \in Seq(Entries) /\ Range(index) \in SUBSET Entries /\ forgot \in BOOLEAN
        /\ keys \in Nat /\ keys <= MaxKeys /\ MaxKeys \in Nat
        /\ \A k \in live : k \in 1..MaxKeys /\ k <= keys
        /\ posted \in [1..MaxKeys -> SUBSET Talks] /\ talks \in [Talks -> TalkRecords]
    BY <1>2, IndexTypes
  <1>4. old \in Seq(Messages) /\ key \in 1..MaxKeys /\ c \in posted[key]
    <2>1. old \in Seq(Messages) BY <1>3, RecordsFields
    <2> QED BY <1>1, <1>2, <2>1 DEF Sent
  <1>5. x \in Messages /\ x.role = "assistant" /\ x.text = a BY DEF Messages
  <1>6. m \in Seq(Messages) /\ m # <<>> /\ Len(m) = Len(old) + 1 /\ m[Len(old) + 1] = x
    BY <1>4, <1>5, AppendProperties
  <1>7. kept \in 1..MaxKeys \cup {None} BY <1>4
  <1>8. /\ talks' \in [Talks -> TalkRecords]
        /\ talks'[c].pc = "idle" /\ talks'[c].messages = m /\ talks'[c].kept = kept
        /\ \A d \in Talks \ {c} : talks'[d] = talks[d]
    <2> PICK rec : rec = [talks[c] EXCEPT !.pc = "idle", !.messages = m, !.kept = kept] OBVIOUS
    <2>1. talks[c] \in TalkRecords BY <1>3
    <2>2. rec \in TalkRecords /\ rec.pc = "idle" /\ rec.messages = m /\ rec.kept = kept
      BY <1>6, <1>7, <2>1 DEF TalkRecords
    <2>3. talks' = [talks EXCEPT ![c] = rec] BY <1>1
    <2> QED BY <1>3, <2>2, <2>3
  <1>9. GoesOn(talks, talks') BY <1>5, <1>8 DEF GoesOn
  <1>10. Carries(talks, talks', posted, posted', c, key)
    BY <1>1, <1>3, <1>4, <1>8, <1>9 DEF Carries
  <1>11. Sent'
    <2>1. ASSUME NEW d \in Talks, talks'[d].pc = "running"
          PROVE  talks'[d].key \in 1..MaxKeys /\ d \in posted[talks'[d].key]
      <3>1. d # c BY <1>8, <2>1
      <3>2. talks'[d] = talks[d] BY <1>8, <3>1
      <3> QED BY <1>2, <2>1, <3>2 DEF Sent
    <2>2. \A k \in 1..MaxKeys : k > keys => posted[k] = {} BY <1>2 DEF Sent
    <2> QED BY <1>1, <2>1, <2>2 DEF Sent
  <1>12. CASE key \in live
    <2>1. RecordedUnder(m, key, index) BY <1>1, <1>6, <1>12, PairsAre
    <2>2. /\ index' \in Seq(Entries) /\ forgot' \in BOOLEAN /\ Apart(Range(index'))
          /\ \A e \in Range(index') : e \in Range(index) \/ e.history = m
          /\ ~ forgot' => ~ forgot /\ Grown(Range(index), Range(index'), m, key)
      BY <1>2, <1>3, <1>4, <1>6, <2>1, Recording
    <2>3. IndexTyped' BY <1>1, <1>2, <1>8, <2>2 DEF IndexTyped
    <2>4. SeenBySome(Range(index'), talks')
      <3>1. Whole(m)
        <4>1. m[Len(m)].text # "part"
          <5>1. m[Len(m)] = x BY <1>6
          <5>2. a # "part" BY IndexAssumption
          <5> QED BY <1>5, <5>1, <5>2
        <4> QED BY <1>6, <4>1 DEF Whole
      <3>2. Whole(talks'[c].messages) BY <1>8, <3>1
      <3>3. \A e \in Range(index') : e \in Range(index) \/ e.history = talks'[c].messages
        BY <1>8, <2>2
      <3>4. Range(index) \in SUBSET Entries /\ SeenBySome(Range(index), talks) BY <1>2, <1>3
      <3> QED BY <1>10, <3>2, <3>3, <3>4, CarriesTold
    <2>5. ASSUME ~ forgot'
          PROVE  /\ Alone' /\ Filed(Range(index'), talks', posted')
                 /\ \A d \in Talks : Findable(Range(index'), talks', d)
      <3>1. ~ forgot /\ Grown(Range(index), Range(index'), talks'[c].messages, key)
        BY <1>8, <2>2, <2>5
      <3>2. /\ Alone /\ Filed(Range(index), talks, posted)
            /\ \A d \in Talks : Findable(Range(index), talks, d)
        BY <3>1 DEF IndexInv
      <3>3. Alone' BY <1>1, <3>2 DEF Alone
      <3>4. Filed(Range(index'), talks', posted') BY <1>10, <3>1, <3>2, CarriesFiled
      <3>5. ASSUME NEW d \in Talks PROVE Findable(Range(index'), talks', d)
        <4>1. CASE d = c
          <5>1. talks'[c].messages = Append(talks[c].messages, x) /\ talks'[c].kept = key
            BY <1>8, <1>12
          <5>2. Range(index) \in SUBSET Entries /\ SeenBySome(Range(index), talks) BY <1>2, <1>3
          <5>3. Findable(Range(index'), talks', c)
            BY <1>5, <1>10, <3>1, <5>1, <5>2, AnswerFindable
          <5> QED BY <4>1, <5>3
        <4>2. CASE d # c
          <5>1. d \in Talks \ {c} BY <4>2
          <5> QED BY <1>10, <3>1, <3>2, <5>1, CarriesFindable
        <4> QED BY <4>1, <4>2
      <3> QED BY <3>3, <3>4, <3>5
    <2> QED BY <1>11, <2>2, <2>3, <2>4, <2>5, InvAfter
  <1>13. CASE key \notin live
    <2>1. forgot' /\ index' = index BY <1>1, <1>13
    <2>2. IndexTyped' BY <1>1, <1>2, <1>8, <2>1 DEF IndexTyped
    <2>3. SeenBySome(Range(index'), talks') BY <1>2, <1>3, <1>9, <2>1, GoesOnTold
    <2>4. Apart(Range(index')) BY <1>2, <2>1
    <2> QED BY <1>11, <2>1, <2>2, <2>3, <2>4, InvAfter
  <1> QED BY <1>12, <1>13

(* A part of an answer is not looked for before the next question.         *)
LEMMA UnansweredKeeps ==
  ASSUME IndexInv, NEW c \in Talks, Unanswered(c)
  PROVE  IndexInv'
  <1> PICK x : x = [role |-> "assistant", text |-> "part"] OBVIOUS
  <1> PICK old : old = talks[c].messages OBVIOUS
  <1>1. /\ talks[c].pc = "running"
        /\ live' = live /\ posted' = posted /\ keys' = keys /\ index' = index /\ forgot' = forgot
    BY DEF Unanswered
  <1>0. \E p \in {<<>>, <<[role |-> "assistant", text |-> "part"]>>} :
          talks' = [talks EXCEPT ![c] = [talks[c] EXCEPT !.pc = "idle", !.kept = None,
                                                         !.messages = talks[c].messages \o p]]
    BY DEF Unanswered
  <1> PICK part \in {<<>>, <<x>>} :
        talks' = [talks EXCEPT ![c] = [talks[c] EXCEPT !.pc = "idle", !.kept = None,
                                                       !.messages = old \o part]]
    BY <1>0, Zenon
  <1> PICK m : m = old \o part OBVIOUS
  <1>2. IndexTyped /\ Sent /\ Apart(Range(index)) /\ SeenBySome(Range(index), talks)
    BY DEF IndexInv
  <1>3. /\ index \in Seq(Entries) /\ Range(index) \in SUBSET Entries
        /\ posted \in [1..MaxKeys -> SUBSET Talks] /\ talks \in [Talks -> TalkRecords]
    BY <1>2, IndexTypes
  <1>4. old \in Seq(Messages) BY <1>3, RecordsFields
  <1>5. x \in Messages /\ x.role = "assistant" /\ x.text = "part" BY DEF Messages
  <1>6. m = old \/ m = Append(old, x)
    <2>1. CASE part = <<>> BY <1>4, <2>1, ConcatEmptySeq
    <2>2. CASE part = <<x>> BY <1>4, <1>5, <2>2, AppendIsConcat
    <2> QED BY <2>1, <2>2
  <1>7. Append(old, x) \in Seq(Messages) /\ ~ Whole(Append(old, x))
    <2> PICK next : next = Append(old, x) OBVIOUS
    <2>1. next \in Seq(Messages) /\ Len(next) = Len(old) + 1 /\ next[Len(old) + 1] = x
      BY <1>4, <1>5, AppendProperties
    <2>2. next[Len(next)] = x BY <2>1
    <2> QED BY <1>5, <2>1, <2>2 DEF Whole
  <1>8. m \in Seq(Messages) BY <1>4, <1>6, <1>7
  <1>9. /\ talks' \in [Talks -> TalkRecords]
        /\ talks'[c].pc = "idle" /\ talks'[c].messages = m /\ talks'[c].kept = None
        /\ \A d \in Talks \ {c} : talks'[d] = talks[d]
    <2> PICK rec : rec = [talks[c] EXCEPT !.pc = "idle", !.kept = None, !.messages = m] OBVIOUS
    <2>1. talks[c] \in TalkRecords BY <1>3
    <2>2. rec \in TalkRecords /\ rec.pc = "idle" /\ rec.messages = m /\ rec.kept = None
      BY <1>8, <2>1 DEF TalkRecords
    <2>3. talks' = [talks EXCEPT ![c] = rec] OBVIOUS
    <2> QED BY <1>3, <2>2, <2>3
  <1>10. GoesOn(talks, talks') BY <1>5, <1>6, <1>9 DEF GoesOn
  <1>11. IndexTyped' BY <1>1, <1>2, <1>9 DEF IndexTyped
  <1>12. Sent'
    <2>1. ASSUME NEW d \in Talks, talks'[d].pc = "running"
          PROVE  talks'[d].key \in 1..MaxKeys /\ d \in posted[talks'[d].key]
      <3>1. d # c BY <1>9, <2>1
      <3>2. talks'[d] = talks[d] BY <1>9, <3>1
      <3> QED BY <1>2, <2>1, <3>2 DEF Sent
    <2>2. \A k \in 1..MaxKeys : k > keys => posted[k] = {} BY <1>2 DEF Sent
    <2> QED BY <1>1, <2>1, <2>2 DEF Sent
  <1>13. SeenBySome(Range(index'), talks') BY <1>1, <1>2, <1>3, <1>10, GoesOnTold
  <1>14. Apart(Range(index')) BY <1>1, <1>2
  <1>15. ASSUME ~ forgot'
         PROVE  /\ Alone' /\ Filed(Range(index'), talks', posted')
                /\ \A d \in Talks : Findable(Range(index'), talks', d)
    <2>1. /\ Alone /\ Filed(Range(index), talks, posted)
          /\ \A d \in Talks : Findable(Range(index), talks, d)
      BY <1>1, <1>15 DEF IndexInv
    <2>2. Alone' BY <1>1, <2>1 DEF Alone
    <2>3. Filed(Range(index'), talks', posted')
      <3> SUFFICES ASSUME NEW d \in Talks, NEW h \in Seq(Messages), Whole(h), Before(h, talks'[d].messages)
                   PROVE  \/ \E k \in 1..MaxKeys : OwnedIn(Range(index), h, k) /\ d \in posted[k]
                          \/ Shared(Range(index), h)
        BY <1>1 DEF Filed
      <3>1. Before(h, talks[d].messages)
        <4>1. CASE d # c BY <1>9, <4>1
        <4>2. CASE d = c
          <5>1. Before(h, old) \/ h = Append(old, x)
            <6>1. Before(h, m) BY <1>9, <4>2
            <6>2. CASE m = old BY <6>1, <6>2
            <6>3. CASE m = Append(old, x) BY <1>4, <1>5, <6>1, <6>3, BeforeNext
            <6> QED BY <1>6, <6>2, <6>3
          <5> QED BY <1>7, <4>2, <5>1
        <4> QED BY <4>1, <4>2
      <3> QED BY <2>1, <3>1 DEF Filed
    <2>4. ASSUME NEW d \in Talks PROVE Findable(Range(index), talks', d)
      <3>1. CASE d = c BY <1>9, <3>1 DEF Findable
      <3>2. CASE d # c
        <4>1. talks'[d] = talks[d] BY <1>9, <3>2
        <4>2. Findable(Range(index), talks, d) BY <2>1
        <4> QED BY <1>3, <1>10, <4>1, <4>2, GoesOnFindable
      <3> QED BY <3>1, <3>2
    <2> QED BY <1>1, <2>2, <2>3, <2>4
  <1> QED BY <1>11, <1>12, <1>13, <1>14, <1>15, InvAfter

LEMMA DroppedKeeps ==
  ASSUME IndexInv, NEW k, Dropped(k)
  PROVE  IndexInv'
  <1>1. /\ live' = live \ {k} /\ index' = index /\ posted' = posted /\ keys' = keys
        /\ talks' = talks /\ forgot' = forgot
    BY DEF Dropped
  <1>2. IndexTyped' BY <1>1 DEF IndexInv, IndexTyped
  <1>3. Sent' BY <1>1 DEF IndexInv, Sent
  <1>4. Apart(Range(index')) /\ SeenBySome(Range(index'), talks') BY <1>1 DEF IndexInv
  <1>5. ~ forgot' => /\ Alone' /\ Filed(Range(index'), talks', posted')
                     /\ \A c \in Talks : Findable(Range(index'), talks', c)
    BY <1>1 DEF IndexInv, Alone
  <1> QED BY <1>2, <1>3, <1>4, <1>5, InvAfter

(* A start with an empty index forgets all that was sent.                  *)
LEMMA RestartKeeps ==
  ASSUME IndexInv, RestartsEmpty
  PROVE  IndexInv'
  <1> DEFINE Kept(c) == IF talks[c].pc = "running" THEN None ELSE talks[c].kept
  <1>1. /\ index' = <<>> /\ forgot' = TRUE /\ live' = live /\ posted' = posted /\ keys' = keys
        /\ talks' = [c \in Talks |-> [talks[c] EXCEPT !.pc = "idle", !.kept = Kept(c)]]
    BY DEF RestartsEmpty
  <1>2. IndexTyped /\ Sent BY DEF IndexInv
  <1>3. talks \in [Talks -> TalkRecords] BY <1>2, IndexTypes
  <1>4. \A c \in Talks : Kept(c) \in 1..MaxKeys \cup {None} BY <1>3, RecordsFields
  <1> HIDE DEF Kept
  <1>5. ASSUME NEW c \in Talks
        PROVE  talks'[c] \in TalkRecords /\ talks'[c].pc = "idle"
    <2> PICK rec : rec = [talks[c] EXCEPT !.pc = "idle", !.kept = Kept(c)] OBVIOUS
    <2>1. talks[c] \in TalkRecords BY <1>3
    <2>2. rec \in TalkRecords /\ rec.pc = "idle" BY <1>4, <2>1 DEF TalkRecords
    <2>3. talks'[c] = rec BY <1>1
    <2> QED BY <2>2, <2>3
  <1>6. talks' \in [Talks -> TalkRecords] BY <1>1, <1>5
  <1>7. index' \in Seq(Entries) /\ Range(index') = {}
    <2>1. <<>> \in Seq(Entries) /\ DOMAIN <<>> = {} OBVIOUS
    <2>2. Range(<<>>) = {} BY <2>1 DEF Range
    <2> QED BY <1>1, <2>1, <2>2
  <1>8. IndexTyped' BY <1>1, <1>2, <1>6, <1>7 DEF IndexTyped
  <1>9. Sent' BY <1>1, <1>2, <1>5 DEF Sent
  <1>10. Apart(Range(index')) /\ SeenBySome(Range(index'), talks') BY <1>7 DEF Apart, SeenBySome
  <1>11. forgot' BY <1>1
  <1> QED BY <1>8, <1>9, <1>10, <1>11, InvAfter

LEMMA IndexStarts == IndexInit => IndexInv
  <1> SUFFICES ASSUME IndexInit PROVE IndexInv OBVIOUS
  <1>1. MaxKeys \in Nat BY IndexAssumption
  <1>2. /\ index = <<>> /\ live = {} /\ keys = 0 /\ forgot = FALSE
        /\ posted = [k \in 1..MaxKeys |-> {}]
        /\ talks = [c \in Talks |-> Talk]
    BY DEF IndexInit
  <1>3. Talk \in TalkRecords /\ Talk.pc = "idle" /\ Talk.messages = <<>> /\ Talk.kept = None
    BY DEF Talk, TalkRecords
  <1>4. \A c \in Talks : talks[c] = Talk BY <1>2
  <1>5. talks \in [Talks -> TalkRecords] BY <1>2, <1>3
  <1>6. index \in Seq(Entries) /\ Range(index) = {}
    <2>1. <<>> \in Seq(Entries) /\ DOMAIN <<>> = {} OBVIOUS
    <2>2. Range(<<>>) = {} BY <2>1 DEF Range
    <2> QED BY <1>2, <2>1, <2>2
  <1>7. IndexTyped
    <2>1. keys \in 0..MaxKeys
      <3>1. 0 \in 0..MaxKeys BY <1>1
      <3> QED BY <1>2, <3>1
    <2>3. live \in SUBSET (1..keys)
      <3>1. {} \in SUBSET (1..keys) OBVIOUS
      <3> QED BY <1>2, <3>1
    <2>4. forgot \in BOOLEAN BY <1>2
    <2>2. posted \in [1..MaxKeys -> SUBSET Talks]
      <3>1. {} \in SUBSET Talks OBVIOUS
      <3> QED BY <1>2, <3>1
    <2> QED BY <1>5, <1>6, <2>1, <2>2, <2>3, <2>4 DEF IndexTyped
  <1>8. Sent BY <1>2, <1>3, <1>4 DEF Sent
  <1>9. Apart(Range(index)) /\ SeenBySome(Range(index), talks) BY <1>6 DEF Apart, SeenBySome
  <1>10. Alone BY <1>2 DEF Alone
  <1>11. Filed(Range(index), talks, posted)
    <2> SUFFICES ASSUME NEW c \in Talks, NEW h \in Seq(Messages), h # <<>>, Before(h, talks[c].messages)
                 PROVE  FALSE
      BY DEF Filed, Whole
    <2>1. Len(h) <= 0 BY <1>3, <1>4 DEF Before
    <2>2. Len(h) \in Nat \ {0} BY EmptySeq
    <2> QED BY <2>1, <2>2
  <1>12. \A c \in Talks : Findable(Range(index), talks, c) BY <1>3, <1>4 DEF Findable
  <1> QED BY <1>7, <1>8, <1>9, <1>10, <1>11, <1>12 DEF IndexInv

LEMMA IndexStep == IndexInv /\ [IndexNext]_indexVars => IndexInv'
  <1> SUFFICES ASSUME IndexInv, [IndexNext]_indexVars PROVE IndexInv' OBVIOUS
  <1>1. ASSUME NEW c \in Talks, Say(c) PROVE IndexInv' BY <1>1, SayKeeps
  <1>2. ASSUME NEW c \in Talks, Unanswered(c) PROVE IndexInv' BY <1>2, UnansweredKeeps
  <1>3. ASSUME NEW c \in Talks, NEW a \in Replies, Answered(c, a) PROVE IndexInv'
    BY <1>3, AnsweredKeeps
  <1>4. ASSUME NEW k, Dropped(k) PROVE IndexInv' BY <1>4, DroppedKeeps
  <1>5. CASE RestartsEmpty BY <1>5, RestartKeeps
  <1>6. CASE UNCHANGED indexVars
    <2>1. /\ index' = index /\ live' = live /\ posted' = posted /\ keys' = keys
          /\ talks' = talks /\ forgot' = forgot
      BY <1>6 DEF indexVars
    <2>2. IndexTyped' BY <2>1 DEF IndexInv, IndexTyped
    <2>3. Sent' BY <2>1 DEF IndexInv, Sent
    <2>4. Apart(Range(index')) /\ SeenBySome(Range(index'), talks') BY <2>1 DEF IndexInv
    <2>5. ~ forgot' => /\ Alone' /\ Filed(Range(index'), talks', posted')
                       /\ \A c \in Talks : Findable(Range(index'), talks', c)
      BY <2>1 DEF IndexInv, Alone
    <2> QED BY <2>2, <2>3, <2>4, <2>5, InvAfter
  <1> QED BY <1>1, <1>2, <1>3, <1>4, <1>5, <1>6, Zenon DEF IndexNext

LEMMA IndexHolds == IndexSpec => []IndexInv
  BY IndexStarts, IndexStep, PTL DEF IndexSpec

(* As long as the index remembers, no thread gets the messages of two      *)
(* conversations, whatever they ask, are answered and resend: what a       *)
(* conversation has seen is owned by a thread of its own, or by two of     *)
(* them, and then by nobody.  (_auto_session, history_index.py record.)    *)
THEOREM OwnThreadOnly == IndexSpec => []JoinsOwn
  <1>1. IndexInv => JoinsOwn
    <2> SUFFICES ASSUME IndexInv, ~ forgot, NEW k \in 1..MaxKeys
                 PROVE  Cardinality(posted[k]) <= 1
      BY DEF JoinsOwn
    <2>1. \A c \in posted[k] : \A d \in posted[k] : c = d BY DEF IndexInv, Alone
    <2>2. CASE posted[k] = {}
      <3>1. Cardinality(posted[k]) = 0 BY <2>2, FS_EmptySet
      <3> QED BY <3>1
    <2>3. CASE posted[k] # {}
      <3> PICK c \in posted[k] : TRUE BY <2>3
      <3>1. posted[k] = {c} BY <2>1
      <3>2. Cardinality(posted[k]) = 1 BY <3>1, FS_Singleton
      <3> QED BY <3>2
    <2> QED BY <2>2, <2>3
  <1> QED BY <1>1, IndexHolds, PTL

LEMMA SayFinds ==
  ASSUME IndexInv, NEW c \in Talks, Say(c), ~ forgot, talks[c].kept \in live,
         \A d \in Talks \ {c} : ~ IsPrefix(talks[c].messages, talks[d].messages)
  PROVE  talks'[c].key = talks[c].kept
  <1> PICK m \in Seq(Messages), key \in 1..MaxKeys, looked \in Seq(Entries) : Goes(c, m, key, looked)
    BY SayIs
  <1>1. /\ talks[c].pc = "idle" /\ m = Asked(talks[c].messages)
        /\ talks' = [talks EXCEPT ![c] =
                      [talks[c] EXCEPT !.pc = "running", !.messages = m, !.key = key]]
        /\ \/ ~ \E k \in live : OwnersOf(Match(m)) = {k} /\ \E x \in Range(m) : x.role = "assistant"
           \/ OwnersOf(Match(m)) = {key}
    BY DEF Goes
  <1>2. IndexTyped /\ Findable(Range(index), talks, c) BY DEF IndexInv
  <1>3. talks \in [Talks -> TalkRecords] /\ \A k \in live : k \in 1..MaxKeys
    BY <1>2, IndexTypes
  <1>4. talks'[c].key = key
    <2> PICK rec : rec = [talks[c] EXCEPT !.pc = "running", !.messages = m, !.key = key] OBVIOUS
    <2>1. rec.key = key
      <3>1. talks[c] \in TalkRecords BY <1>3
      <3> QED BY <3>1 DEF TalkRecords
    <2>2. talks' = [talks EXCEPT ![c] = rec] BY <1>1
    <2> QED BY <1>3, <2>1, <2>2
  <1> PICK old : old = talks[c].messages OBVIOUS
  <1> PICK kept : kept = talks[c].kept OBVIOUS
  <1>5. old \in Seq(Messages) /\ kept \in 1..MaxKeys /\ kept # None
    <2>1. old \in Seq(Messages) BY <1>3, RecordsFields
    <2>2. None \notin 1..MaxKeys BY IndexAssumption
    <2> QED BY <1>3, <2>1, <2>2
  <1>6. /\ old # <<>> /\ old[Len(old)].role = "assistant"
        /\ OwnedIn(Range(index), old, kept) \/ Shared(Range(index), old)
        /\ \A k \in 1..MaxKeys : OwnedIn(Range(index), old, k) /\ k # kept
                                => \E d \in Talks \ {c} : Before(old, talks[d].messages)
    BY <1>1, <1>2, <1>5 DEF Findable
  <1>7. \A d \in Talks \ {c} : ~ Before(old, talks[d].messages)
    <2> SUFFICES ASSUME NEW d \in Talks \ {c} PROVE ~ Before(old, talks[d].messages) OBVIOUS
    <2>1. talks[d].messages \in Seq(Messages) BY <1>3, RecordsFields
    <2>2. ~ IsPrefix(old, talks[d].messages) OBVIOUS
    <2> QED BY <1>5, <2>1, <2>2, BeforeIs
  <1>8. \A k \in 1..MaxKeys : OwnedIn(Range(index), old, k) => k = kept BY <1>6, <1>7
  <1>9. OwnedIn(Range(index), old, kept) BY <1>6, <1>8 DEF Shared
  <1>10. OwnersOf(old) = {kept}
    <2>1. ASSUME NEW k \in OwnersOf(old) PROVE k = kept
      <3>1. OwnedIn(Range(index), old, k) BY <2>1, LocatedIs
      <3> PICK e \in Range(index) : k \in e.owners BY <3>1 DEF OwnedIn
      <3>2. e \in Entries BY <1>2, IndexTypes
      <3>3. k \in 1..MaxKeys BY <3>2 DEF Entries
      <3> QED BY <1>8, <3>1, <3>3
    <2>2. kept \in OwnersOf(old) BY <1>9, LocatedIs
    <2> QED BY <2>1, <2>2
  <1> PICK q : q = Question(old) OBVIOUS
  <1>11. m = Append(old, q) /\ q \in Messages BY <1>1, <1>5, <1>6, AskedIs
  <1>12. /\ m # <<>> /\ Len(m) = Len(old) + 1 /\ \A i \in 1..Len(old) : m[i] = old[i]
         /\ Before(old, m)
    BY <1>5, <1>11, AppendProperties, BeforeNext
  <1>13. Match(m) = old
    <2>1. Remembered(old) BY <1>9 DEF OwnedIn, Remembered
    <2>2. Len(old) = Len(m) - 1
      <3>1. Len(old) \in Nat BY <1>5, LenProperties
      <3> QED BY <1>12, <3>1
    <2> QED BY <1>5, <1>6, <1>12, <2>1, <2>2, MatchIs
  <1>14. \E x \in Range(m) : x.role = "assistant"
    <2>1. Len(old) \in Nat \ {0} BY <1>5, <1>6, EmptySeq
    <2>2. Len(old) \in 1..Len(old) /\ Len(old) \in DOMAIN m BY <1>12, <2>1
    <2>3. m[Len(old)] \in Range(m) BY <2>2 DEF Range
    <2>4. m[Len(old)].role = "assistant" BY <1>6, <1>12, <2>2
    <2> QED BY <2>3, <2>4
  <1>15. OwnersOf(Match(m)) = {kept} BY <1>10, <1>13
  <1>16. kept \in live OBVIOUS
  <1>17. OwnersOf(Match(m)) = {key} BY <1>1, <1>14, <1>15, <1>16
  <1> QED BY <1>4, <1>15, <1>17

(* A conversation that was answered in full is sent to the session that    *)
(* answered it, unless another one has the very same history or the        *)
(* session is gone: what it has seen is the longest history it can match,  *)
(* and nobody else owns it.  (_auto_session, history_index.py match.)      *)
THEOREM FindsItsSession == IndexSpec => FindsOwn
  <1> DEFINE Finds(c) ==
        /\ ~ forgot /\ talks[c].pc = "idle" /\ talks'[c].pc = "running"
        /\ talks[c].kept \in live
        /\ \A d \in Talks \ {c} : ~ IsPrefix(talks[c].messages, talks[d].messages)
        => talks'[c].key = talks[c].kept
  <1>1. IndexInv /\ [IndexNext]_indexVars => [\A c \in Talks : Finds(c)]_indexVars
    <2> SUFFICES ASSUME IndexInv, IndexNext, NEW c \in Talks,
                        ~ forgot, talks[c].pc = "idle", talks'[c].pc = "running",
                        talks[c].kept \in live,
                        \A d \in Talks \ {c} : ~ IsPrefix(talks[c].messages, talks[d].messages)
                 PROVE  talks'[c].key = talks[c].kept
      BY Zenon
    <2>0. talks \in [Talks -> TalkRecords] BY IndexTypes DEF IndexInv
    <2>1. CASE Say(c) BY <2>1, SayFinds
    <2>2. ASSUME NEW o \in Talks, o # c, Say(o) PROVE FALSE
      <3> PICK m, key, looked : Goes(o, m, key, looked) BY <2>2, SayIs
      <3>1. talks' = [talks EXCEPT ![o] =
                       [talks[o] EXCEPT !.pc = "running", !.messages = m, !.key = key]]
        BY DEF Goes
      <3>2. talks'[c] = talks[c] BY <2>0, <2>2, <3>1
      <3> QED BY <3>2
    <2>3. ASSUME NEW o \in Talks, \/ Unanswered(o) \/ \E a \in Replies : Answered(o, a) PROVE FALSE
      <3>1. /\ talks[o].pc = "running"
            /\ \E r : talks' = [talks EXCEPT ![o] = r]
        BY <2>3 DEF Unanswered, Answered
      <3>2. o # c BY <3>1
      <3>3. talks'[c] = talks[c] BY <2>0, <3>1, <3>2
      <3> QED BY <3>3
    <2>4. ASSUME NEW k, Dropped(k) PROVE FALSE BY <2>4 DEF Dropped
    <2>5. ASSUME RestartsEmpty PROVE FALSE
      <3> DEFINE Kept(d) == IF talks[d].pc = "running" THEN None ELSE talks[d].kept
      <3>1. talks' = [d \in Talks |-> [talks[d] EXCEPT !.pc = "idle", !.kept = Kept(d)]]
        BY <2>5 DEF RestartsEmpty
      <3> HIDE DEF Kept
      <3> PICK rec : rec = [talks[c] EXCEPT !.pc = "idle", !.kept = Kept(c)] OBVIOUS
      <3>2. rec.pc = "idle"
        <4>1. talks[c] \in TalkRecords BY <2>0
        <4> QED BY <4>1 DEF TalkRecords
      <3>3. talks'[c] = rec BY <3>1
      <3> QED BY <3>2, <3>3
    <2> QED BY <2>1, <2>2, <2>3, <2>4, <2>5 DEF IndexNext
  <1> QED BY <1>1, IndexHolds, PTL DEF IndexSpec, FindsOwn

=============================================================================
