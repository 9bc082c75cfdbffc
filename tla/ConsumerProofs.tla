---------------------------- MODULE ConsumerProofs ----------------------------
(***************************************************************************)
(* Proofs about the consumer protocol: whose credential an account holds   *)
(* after any renewals, pushes, switches and logouts (ConsumerRefresh),     *)
(* that the prompt fits (PromptBudget), and that the client is shown a     *)
(* turn once, in order, and of one attempt (ConsumerTurn).                 *)
(***************************************************************************)
EXTENDS ConsumerRefresh, PromptBudget, ConsumerTurn, SequenceTheorems, TLAPS

-----------------------------------------------------------------------------
(* Renewals.  The inductive invariant has one part for the account and one *)
(* for each caller.  The caller's part relates what an attempt read before *)
(* it waited to what is stored now: only pushes, switches and the attempt  *)
(* itself can come in between, because the account's lock keeps the other  *)
(* attempts and logouts out.                                               *)

Token == [at : Nat, subject : Subjects]

\* The account a, with k credentials stored so far.
AcctOK(a, k) ==
  /\ a.provider = "consumer" => a.token # None
  /\ a.token # None /\ a.subject # None
       => a.token.subject = a.subject
  /\ a.stamp <= k
  /\ a.token # None => a.token.at <= k

Attempting(q) == q.pc \in {"exchange", "slot", "browser"}

\* What an attempt read is a pinned consumer account; while the epoch lasts
\* the pinned subject does, and while the token was not stored again the
\* grant the gate was given is the stored one.
ReadOK(q, a, k) ==
  /\ q.read \in Account
  /\ Consumer(q.read)
  /\ q.read.subject # None
  /\ q.read.epoch <= a.epoch
  /\ q.read.stamp <= k
  /\ a.epoch = q.read.epoch => a.subject = q.read.subject
  /\ q.pc = "exchange" => q.read.rt # None
  /\ q.pc # "exchange" /\ a.stamp = q.read.stamp
       => a.rt = q.read.rt

\* While the epoch of a request lasts, the stored token is its owner's.
OwnerOK(q, a) ==
  /\ q.epoch <= a.epoch
  /\ a.epoch = q.epoch
       => a.token # None /\ a.token.subject = q.owner

\* A result a waiting caller may share is the token of a later time.
QueueOK(q, rd, h) ==
  q.pc = "queued" /\ h = None /\ rd.result = TRUE /\ rd.generation # q.queued
    => q.before < rd.snapshot[1].at

CallOK(q, c, a, k, rd, h) ==
  /\ Attempting(q) => h = c /\ ReadOK(q, a, k)
  /\ q.epoch # None => OwnerOK(q, a)
  /\ q.before <= k
  /\ QueueOK(q, rd, h)

IInv ==
  /\ TypeOK
  /\ AcctOK(acct, clock)
  /\ \A c \in Callers : CallOK(call[c], c, acct, clock, round, holder)

-----------------------------------------------------------------------------
(* The account's operations *)

(* A credential that is not None has a time and a subject.                 *)
LEMMA CredentialIsToken ==
  ASSUME NEW x \in Credential, x # None
  PROVE  x \in Token
BY DEF Credential, Token

(* A stored token is never None.                                           *)
LEMMA SignedIsToken ==
  ASSUME NEW n \in Nat, NEW s \in Subjects
  PROVE  /\ Signed(n, s) \in Token /\ Signed(n, s) \in Credential
         /\ Signed(n, s) # None
         /\ Signed(n, s).at = n /\ Signed(n, s).subject = s
BY NoneAssumption DEF Signed, Credential, Token

\* b is the account a, whose credential a renewal did not store again.
Kept(a, b, basis) ==
  /\ b.provider = a.provider /\ b.epoch = a.epoch /\ b.present = a.present
  /\ b.subject = a.subject
  /\ b.token = a.token
  /\ b.stamp = a.stamp
  /\ \/ b.rt = a.rt
     \/ a.rt = basis.rt /\ b.rt = None

\* b is the account a with a token of the pinned subject stored at time n,
\* and a is, but for its pause, the account that was read.
Renewed(a, b, basis, n) ==
  /\ b.provider = a.provider /\ b.epoch = a.epoch /\ b.present = a.present
  /\ b.subject = a.subject
  /\ b.token = Signed(n, a.subject)
  /\ b.stamp = n
  /\ Chosen(a) = Chosen(basis)

(* A failed exchange pauses the grant or takes it away, if it is still the *)
(* one that was tried.                                                     *)
LEMMA FailureEffect ==
  ASSUME NEW a \in Account, NEW r \in Account
  PROVE  /\ Defer(a, r) \in Account /\ Kept(a, Defer(a, r), r)
         /\ Discard(a, r) \in Account /\ Kept(a, Discard(a, r), r)
<1>1. None \in Credential
  BY DEF Credential
<1>2. Defer(a, r) \in Account /\ Kept(a, Defer(a, r), r)
  BY DEF Defer, Kept, Account
<1>3. Discard(a, r) \in Account /\ Kept(a, Discard(a, r), r)
  BY <1>1 DEF Discard, Kept, Account
<1> QED
  BY <1>2, <1>3

\* b is the account a with a token of subject s stored at time n.
Stored(a, b, s, n) ==
  /\ b \in Account
  /\ b.provider = a.provider /\ b.epoch = a.epoch /\ b.present = a.present
  /\ b.subject = a.subject
  /\ b.token = Signed(n, s)
  /\ b.stamp = n

(* Storing a token, and a grant with it, of subject s.                     *)
LEMMA StoreEffect ==
  ASSUME NEW a \in Account, NEW s \in Subjects, clock \in Nat
  PROVE  /\ Stored(a, Fresh(a, s), s, clock + 1)
         /\ Stored(a, WithGrant(Fresh(a, s), s), s, clock + 1)
         /\ Stored(a, [Fresh(a, s) EXCEPT !.paused = FALSE], s, clock + 1)
<1>1. Signed(clock + 1, s) \in Credential /\ clock + 1 \in Nat
  BY SignedIsToken
<1> HIDE DEF Signed
<1>2. Stored(a, Fresh(a, s), s, clock + 1)
  BY <1>1 DEF Fresh, Account, Stored
<1>3. Stored(a, WithGrant(Fresh(a, s), s), s, clock + 1)
  BY <1>1, <1>2 DEF WithGrant, Account, Stored
<1>4. Stored(a, [Fresh(a, s) EXCEPT !.paused = FALSE], s, clock + 1)
  BY <1>2 DEF Account, Stored
<1> QED
  BY <1>2, <1>3, <1>4

(* What an exchange that is not void brings.                               *)
LEMMA ApplyEffect ==
  ASSUME NEW a \in Account, NEW q, ReadOK(q, a, clock), q.pc = "exchange",
         q.read.rt.subject = q.read.subject,
         NEW rotated \in BOOLEAN, clock \in Nat,
         ApplyExchange(a, q.read, rotated) # a
  PROVE  /\ ApplyExchange(a, q.read, rotated) \in Account
         /\ Renewed(a, ApplyExchange(a, q.read, rotated), q.read, clock + 1)
<1> DEFINE r == q.read
<1> DEFINE b == ApplyExchange(a, r, rotated)
<1> DEFINE s == r.rt.subject
<1>1. /\ IsCurrent(a, r.epoch)
      /\ a.rt = r.rt /\ a.token = r.token
  BY DEF ApplyExchange
<1>2. /\ r \in Account /\ Consumer(r) /\ a.subject = r.subject
      /\ s \in Subjects /\ a.subject = s
  BY <1>1 DEF ReadOK, Account, IsCurrent
<1>3. b \in {WithGrant(Fresh(a, s), s), [Fresh(a, s) EXCEPT !.paused = FALSE]}
  BY <1>1 DEF ApplyExchange
<1>4. Chosen(a) = Chosen(r)
  BY <1>1, <1>2 DEF Chosen, IsCurrent, Consumer
<1>5. Stored(a, b, s, clock + 1)
  BY <1>2, <1>3, StoreEffect
<1> QED
  BY <1>2, <1>4, <1>5 DEF Renewed, Stored

(* What the browser minted, with or without a grant.                       *)
LEMMA GateEffect ==
  ASSUME NEW a \in Account, NEW q, ReadOK(q, a, clock), q.pc = "browser",
         NEW grant \in BOOLEAN, clock \in Nat,
         ApplyGate(a, q.read, grant) # a
  PROVE  /\ ApplyGate(a, q.read, grant) \in Account
         /\ Renewed(a, ApplyGate(a, q.read, grant), q.read, clock + 1)
<1> DEFINE r == q.read
<1> DEFINE b == ApplyGate(a, r, grant)
<1> DEFINE s == r.subject
<1>1. /\ IsCurrent(a, r.epoch)
      /\ a.stamp = r.stamp /\ a.token = r.token /\ a.subject = r.subject
  BY DEF ApplyGate
<1>2. /\ r \in Account /\ Consumer(r) /\ s \in Subjects /\ a.rt = r.rt
  BY <1>1 DEF ReadOK, Account
<1>3. b \in {WithGrant(Fresh(a, s), s), Fresh(a, s)}
  BY <1>1 DEF ApplyGate
<1>4. Chosen(a) = Chosen(r)
  BY <1>1, <1>2 DEF Chosen, IsCurrent, Consumer
<1>5. Stored(a, b, s, clock + 1)
  BY <1>2, <1>3, StoreEffect
<1> QED
  BY <1>1, <1>4, <1>5 DEF Renewed, Stored

-----------------------------------------------------------------------------
(* Callers *)

\* What a step may do to the account between two steps of an attempt.
Evolves(a, b) ==
  /\ a.epoch <= b.epoch
  /\ b.epoch = a.epoch =>
       /\ a.subject # None => b.subject = a.subject
       /\ a.token # None => b.token # None /\ b.token.subject = a.token.subject

\* An attempt that waits sees the same grant, or a stamp it never read.
GrantMoves(a, b, k) == (b.stamp = a.stamp /\ b.rt = a.rt) \/ b.stamp > k

(* The invariant of a caller outlives the steps of the others.             *)
LEMMA Bystander ==
  ASSUME NEW q \in Caller, NEW c, NEW a \in Account, NEW b \in Account,
         NEW k \in Nat, NEW n \in Nat, NEW rd, NEW rr, NEW h, NEW hh,
         CallOK(q, c, a, k, rd, h), Evolves(a, b), k <= n,
         Attempting(q) => hh = h /\ GrantMoves(a, b, k),
         QueueOK(q, rr, hh)
  PROVE  CallOK(q, c, b, n, rr, hh)
<1>1. ASSUME Attempting(q) PROVE hh = c /\ ReadOK(q, b, n)
  <2>1. ReadOK(q, a, k) /\ h = c
    BY <1>1 DEF CallOK
  <2>2. /\ q.read \in Account /\ Consumer(q.read) /\ q.read.subject # None
        /\ q.read.epoch <= a.epoch /\ q.read.stamp <= k
        /\ a.epoch = q.read.epoch => a.subject = q.read.subject
        /\ q.pc = "exchange" => q.read.rt # None
        /\ q.pc # "exchange" /\ a.stamp = q.read.stamp => a.rt = q.read.rt
    BY <2>1 DEF ReadOK
  <2>3. /\ a.epoch \in Nat /\ b.epoch \in Nat /\ q.read.epoch \in Nat
        /\ a.stamp \in Nat /\ b.stamp \in Nat /\ q.read.stamp \in Nat
    BY <2>2 DEF Account
  <2>4. q.read.epoch <= b.epoch /\ q.read.stamp <= n
    BY <2>2, <2>3 DEF Evolves
  <2>5. b.epoch = q.read.epoch => b.subject = q.read.subject
    BY <2>2, <2>3 DEF Evolves
  <2>6. q.pc # "exchange" /\ b.stamp = q.read.stamp => b.rt = q.read.rt
    BY <1>1, <2>2, <2>3 DEF GrantMoves
  <2> QED
    BY <1>1, <2>1, <2>2, <2>4, <2>5, <2>6 DEF ReadOK
<1>2. ASSUME q.epoch # None PROVE OwnerOK(q, b)
  BY <1>2 DEF CallOK, OwnerOK, Evolves, Account, Caller
<1>3. q.before <= n
  BY DEF CallOK, Caller
<1> QED
  BY <1>1, <1>2, <1>3 DEF CallOK

(* A caller that is done has nothing left to lose.                         *)
LEMMA DoneOK ==
  ASSUME NEW q, NEW c, NEW a, NEW k \in Nat, NEW rd, NEW h,
         q.pc = "done", q.epoch = None, q.before = 0
  PROVE  CallOK(q, c, a, k, rd, h)
BY DEF CallOK, Attempting, QueueOK

LEMMA DoneType ==
  ASSUME NEW answer \in {"none", "renewed", "failed", "refused", "cancelled"},
         NEW n \in Nat, NEW r \in Account \cup {None}, NEW s \in BOOLEAN
  PROVE  /\ Done(answer) \in Caller
         /\ [Done(answer) EXCEPT !.turn = n, !.read = r] \in Caller
         /\ [Done(answer) EXCEPT !.shared = s, !.turn = n] \in Caller
BY DEF Done, Waiting, Caller

LEMMA StateType ==
  ASSUME NEW a \in Account
  PROVE  State(a) \in Snapshot /\ State(a)[1] = a.token
BY DEF State, Snapshot, Account

(* The initial states.                                                     *)
LEMMA InitIInv == Init => IInv
<1> SUFFICES ASSUME Init PROVE IInv
  OBVIOUS
<1>1. SignedOut(0) \in Account /\ AcctOK(SignedOut(0), 0)
  BY DEF SignedOut, Account, Credential, AcctOK
<1>2. ASSUME NEW s \in Subjects PROVE Legacy(s) \in Account /\ AcctOK(Legacy(s), 0)
  <2>1. /\ Signed(0, s) \in Credential /\ Signed(0, s) # None
        /\ Signed(0, s).at = 0
    BY SignedIsToken
  <2>2. SignedOut(0) \in Account /\ SignedOut(0).subject = None /\ SignedOut(0).stamp = 0
    BY <1>1 DEF SignedOut
  <2> HIDE DEF Signed
  <2>3. Legacy(s) \in Account
    BY <2>1, <2>2 DEF Legacy, Account
  <2>4. /\ Legacy(s).token = Signed(0, s) /\ Legacy(s).subject = None
        /\ Legacy(s).stamp = 0
    BY <2>2 DEF Legacy, Account
  <2> QED
    BY <2>1, <2>3, <2>4 DEF AcctOK
<1>3. acct \in Account /\ AcctOK(acct, clock)
  BY <1>1, <1>2 DEF Init
<1>4. Waiting \in Caller
  BY DEF Waiting, Caller
<1>5. TypeOK
  <2>1. round \in [generation : Nat, result : BOOLEAN, snapshot : Snapshot]
    BY DEF Init, Snapshot
  <2> QED
    BY <1>3, <1>4, <2>1, DecisionsAssumption DEF Init, TypeOK
<1>6. ASSUME NEW c \in Callers PROVE CallOK(call[c], c, acct, clock, round, holder)
  BY DEF Init, CallOK, Attempting, QueueOK, Waiting
<1> QED
  BY <1>3, <1>5, <1>6 DEF IInv

(* The parts of the invariant that every action starts from.               *)
LEMMA Unfolded ==
  ASSUME IInv
  PROVE  /\ acct \in Account /\ AcctOK(acct, clock) /\ clock \in Nat
         /\ round \in [generation : Nat, result : BOOLEAN, snapshot : Snapshot]
         /\ round.generation \in Nat /\ round.generation + 1 \in Nat
         /\ round.result \in BOOLEAN /\ round.snapshot \in Snapshot
         /\ line \in Seq(Callers)
         /\ holder \in Callers \cup {None} /\ slot \in Callers \cup {Others, None}
         /\ call \in [Callers -> Caller] /\ decided \in 0..MaxDecisions
         /\ \A c \in Callers : call[c] \in Caller
         /\ \A c \in Callers : CallOK(call[c], c, acct, clock, round, holder)
BY DEF IInv, TypeOK

(* A step that leaves the account, the clock, the round and the account's  *)
(* lock alone, and moves only the caller c.                                *)
LEMMA QuietStep ==
  ASSUME IInv, NEW c \in Callers, NEW q \in Caller,
         call' = [call EXCEPT ![c] = q], line' \in Seq(Callers),
         UNCHANGED <<acct, clock, round, holder, decided>>,
         slot' \in Callers \cup {Others, None},
         CallOK(q, c, acct, clock, round, holder)
  PROVE  IInv'
<1>1. TypeOK'
  BY DEF IInv, TypeOK
<1>2. AcctOK(acct, clock)'
  BY DEF IInv
<1>3. ASSUME NEW d \in Callers PROVE CallOK(call'[d], d, acct', clock', round', holder')
  BY Unfolded
<1> QED
  BY <1>1, <1>2, <1>3 DEF IInv

-----------------------------------------------------------------------------
(* Users *)

(* A push evolves the account, keeps it sound, and stamps it anew.         *)
LEMMA PushEffect ==
  ASSUME IInv, NEW s \in Subjects, NEW again \in BOOLEAN, NEW grant \in BOOLEAN,
         NEW activate \in BOOLEAN, Push(s, again, grant, activate)
  PROVE  /\ acct' \in Account /\ AcctOK(acct', clock + 1)
         /\ Evolves(acct, acct') /\ acct'.stamp = clock + 1
<1> DEFINE rebind == acct.subject # s /\ acct.token # None
<1> DEFINE switch == activate /\ acct.provider # "consumer"
<1> DEFINE token == IF again THEN acct.token ELSE Signed(clock + 1, s)
<1> DEFINE more == (IF rebind THEN 1 ELSE 0) + (IF switch THEN 1 ELSE 0)
<1>1. acct \in Account /\ AcctOK(acct, clock) /\ clock \in Nat
  BY Unfolded
<1>2. /\ Signed(clock + 1, s) \in Token /\ Signed(clock + 1, s) \in Credential
      /\ Signed(clock + 1, s) # None
      /\ Signed(clock + 1, s).at = clock + 1 /\ Signed(clock + 1, s).subject = s
  BY <1>1, SignedIsToken
<1> HIDE DEF Signed
<1>3. /\ acct.subject \in {None, s}
      /\ again => acct.token # None /\ acct.token.subject = s
  BY DEF Push
<1>4. /\ token \in Credential /\ token # None /\ token.subject = s
      /\ token.at <= clock + 1
  BY <1>1, <1>2, <1>3, CredentialIsToken DEF Account, AcctOK, Token
<1>5. more \in Nat /\ (rebind => more > 0)
  OBVIOUS
<1> HIDE DEF token, more
<1>6. /\ acct' \in Account /\ acct'.token = token /\ acct'.stamp = clock + 1
      /\ acct'.subject = s /\ acct'.epoch = acct.epoch + more
  <2>1. acct.epoch + more \in Nat
    BY <1>1, <1>5 DEF Account
  <2> DEFINE provider == IF activate THEN "consumer" ELSE acct.provider
  <2> DEFINE epoch == acct.epoch + (IF rebind THEN 1 ELSE 0) + (IF switch THEN 1 ELSE 0)
  <2> DEFINE pushed == [acct EXCEPT !.token = token, !.stamp = clock + 1, !.subject = s,
                                    !.provider = provider, !.epoch = epoch]
  <2>2. /\ epoch \in Nat /\ epoch = acct.epoch + more
        /\ provider \in {"m365", "consumer"} /\ clock + 1 \in Nat
    BY <1>1 DEF more, Account
  <2>4. acct' = IF grant THEN WithGrant(pushed, s) ELSE pushed
    BY DEF Push, token
  <2> HIDE DEF provider, epoch
  <2>3. /\ pushed \in Account /\ pushed.token = token /\ pushed.stamp = clock + 1
        /\ pushed.subject = s /\ pushed.epoch = acct.epoch + more
    BY <1>1, <1>4, <2>2 DEF Account
  <2> HIDE DEF pushed
  <2>5. /\ WithGrant(pushed, s) \in Account /\ WithGrant(pushed, s).token = token
        /\ WithGrant(pushed, s).stamp = clock + 1 /\ WithGrant(pushed, s).subject = s
        /\ WithGrant(pushed, s).epoch = pushed.epoch
    BY <1>2, <2>3 DEF WithGrant, Account
  <2> QED
    BY <2>3, <2>4, <2>5
<1>7. AcctOK(acct', clock + 1)
  BY <1>1, <1>4, <1>6 DEF AcctOK
<1>8. Evolves(acct, acct')
  <2>1. acct.epoch <= acct'.epoch
    BY <1>1, <1>5, <1>6 DEF Account
  <2>2. ASSUME acct'.epoch = acct.epoch
        PROVE  /\ acct.subject # None => acct'.subject = acct.subject
               /\ acct.token # None => acct'.token # None /\ acct'.token.subject = acct.token.subject
    <3>1. ~ rebind
      BY <1>1, <1>5, <1>6, <2>2 DEF Account
    <3> QED
      BY <1>1, <1>3, <1>4, <1>6, <3>1, SubjectsAssumption DEF AcctOK
  <2> QED
    BY <2>1, <2>2 DEF Evolves
<1> QED
  BY <1>6, <1>7, <1>8

(* A step of a user: the account evolves, no caller moves.                 *)
LEMMA UserStep ==
  ASSUME IInv, acct' \in Account, AcctOK(acct', clock'), Evolves(acct, acct'),
         clock' \in Nat, clock <= clock', GrantMoves(acct, acct', clock),
         decided' \in 0..MaxDecisions, UNCHANGED <<round, line, holder, slot, call>>
  PROVE  IInv'
<1>1. TypeOK'
  BY Unfolded DEF TypeOK
<1>2. ASSUME NEW d \in Callers PROVE CallOK(call'[d], d, acct', clock', round', holder')
  <2>1. /\ call[d] \in Caller /\ CallOK(call[d], d, acct, clock, round, holder)
        /\ acct \in Account /\ clock \in Nat
    BY Unfolded
  <2>2. QueueOK(call[d], round, holder)
    BY <2>1 DEF CallOK
  <2>3. CallOK(call[d], d, acct', clock', round, holder)
    BY <2>1, <2>2, Bystander
  <2> QED
    BY <2>3
<1> QED
  BY <1>1, <1>2 DEF IInv

LEMMA PushStep ==
  ASSUME IInv, NEW s \in Subjects, NEW again \in BOOLEAN, NEW grant \in BOOLEAN,
         NEW activate \in BOOLEAN, Push(s, again, grant, activate)
  PROVE  IInv'
<1>1. /\ acct' \in Account /\ AcctOK(acct', clock + 1)
      /\ Evolves(acct, acct') /\ acct'.stamp = clock + 1
  BY PushEffect
<1>2. /\ clock' = clock + 1 /\ decided' = decided + 1 /\ decided < MaxDecisions
      /\ UNCHANGED <<round, line, holder, slot, call>>
  BY DEF Push, Decides, locks
<1>3. clock \in Nat /\ decided \in 0..MaxDecisions
  BY Unfolded
<1>4. GrantMoves(acct, acct', clock)
  BY <1>1, <1>3 DEF GrantMoves
<1> QED
  BY <1>1, <1>2, <1>3, <1>4, UserStep, DecisionsAssumption

LEMMA ActivateStep ==
  ASSUME IInv, NEW p \in {"m365", "consumer"}, Activate(p)
  PROVE  IInv'
<1>1. acct \in Account /\ AcctOK(acct, clock) /\ clock \in Nat /\ decided \in 0..MaxDecisions
  BY Unfolded
<1>2. /\ acct' = [acct EXCEPT !.provider = p, !.epoch = @ + 1]
      /\ p = "consumer" => acct.token # None
      /\ decided' = decided + 1 /\ decided < MaxDecisions
      /\ UNCHANGED <<round, line, holder, slot, call, clock>>
  BY DEF Activate, Decides, locks
<1> DEFINE next == acct.epoch + 1
<1>3. next \in Nat
  BY <1>1 DEF Account
<1>4. acct' = [acct EXCEPT !.provider = p, !.epoch = next]
  BY <1>1, <1>2 DEF Account
<1> HIDE DEF next
<1>5. /\ acct' \in Account /\ acct'.epoch = next /\ acct'.token = acct.token
      /\ acct'.subject = acct.subject /\ acct'.stamp = acct.stamp /\ acct'.rt = acct.rt
      /\ acct'.provider = p
  BY <1>1, <1>3, <1>4 DEF Account
<1>6. AcctOK(acct', clock)
  BY <1>1, <1>2, <1>5 DEF AcctOK
<1>7. Evolves(acct, acct') /\ GrantMoves(acct, acct', clock)
  BY <1>1, <1>5 DEF Evolves, GrantMoves, Account, next
<1> QED
  BY <1>1, <1>2, <1>5, <1>6, <1>7, UserStep, DecisionsAssumption

LEMMA PauseStep ==
  ASSUME IInv, PauseEnds
  PROVE  IInv'
<1>1. acct \in Account /\ AcctOK(acct, clock) /\ clock \in Nat /\ decided \in 0..MaxDecisions
  BY Unfolded
<1>2. /\ acct' = [acct EXCEPT !.paused = FALSE]
      /\ UNCHANGED <<round, line, holder, slot, call, clock, decided>>
  BY DEF PauseEnds, locks
<1>3. /\ acct' \in Account /\ acct'.epoch = acct.epoch /\ acct'.token = acct.token
      /\ acct'.subject = acct.subject /\ acct'.stamp = acct.stamp /\ acct'.rt = acct.rt
      /\ acct'.provider = acct.provider
  BY <1>1, <1>2 DEF Account
<1>4. AcctOK(acct', clock)
  BY <1>1, <1>3 DEF AcctOK
<1>5. Evolves(acct, acct') /\ GrantMoves(acct, acct', clock)
  BY <1>1, <1>3 DEF Evolves, GrantMoves, Account
<1> QED
  BY <1>1, <1>2, <1>3, <1>4, <1>5, UserStep

-----------------------------------------------------------------------------
(* Callers that queue *)

(* Cancelling a waiter leaves a queue of callers.                          *)
LEMMA WithoutType ==
  ASSUME NEW s \in Seq(Callers), NEW c
  PROVE  Without(s, c) \in Seq(Callers)
<1> DEFINE i == CHOOSE n \in DOMAIN s : s[n] = c
<1> DEFINE f == [j \in 1..(Len(s) - 1) |-> IF j < i THEN s[j] ELSE s[j + 1]]
<1>1. CASE s = <<>>
  <2>1. Len(s) - 1 = -1
    BY <1>1
  <2>2. f = <<>>
    BY <2>1
  <2> QED
    BY <2>2 DEF Without
<1>2. CASE s # <<>>
  <2>1. Len(s) - 1 \in Nat
    BY <1>2
  <2>2. ASSUME NEW j \in 1..(Len(s) - 1) PROVE s[j] \in Callers /\ s[j + 1] \in Callers
    OBVIOUS
  <2>3. f \in [1..(Len(s) - 1) -> Callers]
    BY <2>2
  <2>4. f \in Seq(Callers)
    BY <2>1, <2>3
  <2> QED
    BY <2>4 DEF Without
<1> QED
  BY <1>1, <1>2

LEMMA StartStep ==
  ASSUME IInv, NEW c \in Callers, Start(c)
  PROVE  IInv'
<1> DEFINE q == [call[c] EXCEPT !.pc = "turn", !.epoch = acct.epoch,
                                !.owner = acct.token.subject]
<1>1. /\ acct \in Account /\ AcctOK(acct, clock) /\ clock \in Nat
      /\ call[c] \in Caller /\ CallOK(call[c], c, acct, clock, round, holder)
      /\ line \in Seq(Callers) /\ slot \in Callers \cup {Others, None}
      /\ call \in [Callers -> Caller]
  BY Unfolded
<1>2. /\ Consumer(acct) /\ UNCHANGED <<acct, round, line, holder, slot, clock, decided>>
      /\ call' = [call EXCEPT ![c] = q]
  BY <1>1 DEF Start, locks
<1>3. acct.token # None /\ acct.token \in Token /\ acct.epoch \in Nat
  BY <1>1, <1>2, CredentialIsToken DEF Consumer, AcctOK, Account
<1>4. q \in Caller
  BY <1>1, <1>3 DEF Caller, Token
<1>5. /\ q.pc = "turn" /\ q.epoch = acct.epoch /\ q.owner = acct.token.subject
      /\ q.before = call[c].before
  BY <1>1 DEF Caller
<1>6. CallOK(q, c, acct, clock, round, holder)
  BY <1>1, <1>3, <1>5 DEF CallOK, Attempting, OwnerOK, QueueOK
<1> QED
  BY <1>1, <1>2, <1>4, <1>6, QuietStep

LEMMA ArriveStep ==
  ASSUME IInv, NEW c \in Callers, NEW kind \in {"refresh", "clear", "remove"},
         Arrive(c, kind)
  PROVE  IInv'
<1> DEFINE q == [call[c] EXCEPT !.pc = "queued", !.kind = kind,
                                !.queued = round.generation, !.before = Age(acct)]
<1>1. /\ acct \in Account /\ AcctOK(acct, clock) /\ clock \in Nat
      /\ call[c] \in Caller /\ CallOK(call[c], c, acct, clock, round, holder)
      /\ line \in Seq(Callers) /\ slot \in Callers \cup {Others, None}
      /\ call \in [Callers -> Caller] /\ round.generation \in Nat
  BY Unfolded
<1>2. /\ UNCHANGED <<acct, round, holder, slot, clock, decided>>
      /\ call' = [call EXCEPT ![c] = q] /\ line' = Append(line, c)
  BY <1>1 DEF Arrive
<1>3. Age(acct) \in Nat /\ Age(acct) <= clock
  BY <1>1, CredentialIsToken DEF Age, AcctOK, Account, Token
<1>4. q \in Caller
  BY <1>1, <1>3 DEF Caller
<1>5. /\ q.pc = "queued" /\ q.epoch = call[c].epoch /\ q.owner = call[c].owner
      /\ q.before = Age(acct) /\ q.queued = round.generation
  BY <1>1 DEF Caller
<1>6. CallOK(q, c, acct, clock, round, holder)
  BY <1>1, <1>3, <1>5 DEF CallOK, Attempting, OwnerOK, QueueOK
<1>7. line' \in Seq(Callers)
  BY <1>1, <1>2
<1> QED
  BY <1>1, <1>2, <1>4, <1>6, <1>7, QuietStep

LEMMA GateRefusedStep ==
  ASSUME IInv, NEW c \in Callers, GateRefused(c)
  PROVE  IInv'
<1> DEFINE q == [call[c] EXCEPT !.pc = "done", !.answer = "refused"]
<1>1. /\ call \in [Callers -> Caller] /\ line \in Seq(Callers) /\ clock \in Nat
      /\ slot \in Callers \cup {Others, None}
  BY Unfolded
<1>2. /\ UNCHANGED <<acct, round, line, holder, slot, clock, decided>>
      /\ call' = [call EXCEPT ![c] = Done("refused")]
  BY DEF GateRefused, locks
<1>3. Done("refused") \in Caller
  BY DEF Done, Waiting, Caller
<1>4. CallOK(Done("refused"), c, acct, clock, round, holder)
  BY <1>1, DoneOK DEF Done, Waiting
<1> QED
  BY <1>1, <1>2, <1>3, <1>4, QuietStep

-----------------------------------------------------------------------------
(* Callers that have the account's lock *)

\* No result, or only one that is newer than every waiting caller.
NewsOnly ==
  \/ holder' # None
  \/ round'.result = FALSE
  \/ round'.snapshot[1].at \in Nat /\ clock < round'.snapshot[1].at
  \/ round' = round /\ holder = None

(* A step of the caller that holds the account's lock, or takes it.        *)
LEMMA HolderStep ==
  ASSUME IInv, NEW c \in Callers, NEW q \in Caller, call' = [call EXCEPT ![c] = q],
         holder \in {None, c}, holder' \in {None, c},
         acct' \in Account, AcctOK(acct', clock'), Evolves(acct, acct'),
         clock' \in Nat, clock <= clock',
         round' \in [generation : Nat, result : BOOLEAN, snapshot : Snapshot],
         line' \in Seq(Callers), slot' \in Callers \cup {Others, None}, decided' = decided,
         CallOK(q, c, acct', clock', round', holder'), NewsOnly
  PROVE  IInv'
<1>1. TypeOK'
  BY Unfolded DEF TypeOK
<1>2. ASSUME NEW d \in Callers PROVE CallOK(call'[d], d, acct', clock', round', holder')
  <2>1. CASE d = c
    BY <2>1, Unfolded
  <2>2. CASE d # c
    <3>1. /\ call[d] \in Caller /\ CallOK(call[d], d, acct, clock, round, holder)
          /\ acct \in Account /\ clock \in Nat /\ call'[d] = call[d]
      BY <2>2, Unfolded
    <3>2. ~ Attempting(call[d])
      BY <2>2, <3>1, CallersAssumption DEF CallOK
    <3>3. QueueOK(call[d], round', holder')
      <4>1. call[d].before \in Nat /\ call[d].before <= clock
        BY <3>1 DEF CallOK, Caller
      <4>2. CASE round'.snapshot[1].at \in Nat /\ clock < round'.snapshot[1].at
        <5>1. call[d].before < round'.snapshot[1].at
          BY <4>1, <4>2, Unfolded
        <5> QED
          BY <5>1 DEF QueueOK
      <4>3. CASE holder' # None \/ round'.result = FALSE
        BY <4>3 DEF QueueOK
      <4>4. CASE round' = round /\ holder = None
        <5>1. QueueOK(call[d], round, holder)
          BY <3>1 DEF CallOK
        <5> QED
          BY <4>4, <5>1 DEF QueueOK
      <4> QED
        BY <4>2, <4>3, <4>4 DEF NewsOnly
    <3> QED
      BY <3>1, <3>2, <3>3, Bystander
  <2> QED
    BY <2>1, <2>2
<1> QED
  BY <1>1, <1>2 DEF IInv

(* The tail of the queue is a queue.                                       *)
LEMMA MyTurnType ==
  ASSUME IInv, NEW c \in Callers, MyTurn(c)
  PROVE  line' \in Seq(Callers) /\ clock' = clock /\ holder = None
BY Unfolded DEF MyTurn

LEMMA EnterInactiveStep ==
  ASSUME IInv, NEW c \in Callers, EnterInactive(c)
  PROVE  IInv'
<1>1. line' \in Seq(Callers) /\ clock' = clock
  BY MyTurnType DEF EnterInactive
<1>2. /\ UNCHANGED <<acct, round, holder, slot, decided>>
      /\ call' = [call EXCEPT ![c] = Done("failed")]
  BY DEF EnterInactive
<1>3. Done("failed") \in Caller
  BY DEF Done, Waiting, Caller
<1>4. CallOK(Done("failed"), c, acct, clock, round, holder)
  BY Unfolded, DoneOK DEF Done, Waiting
<1> QED
  BY <1>1, <1>2, <1>3, <1>4, Unfolded, QuietStep

LEMMA EnterSharedStep ==
  ASSUME IInv, NEW c \in Callers, EnterShared(c)
  PROVE  IInv'
<1> DEFINE answer == Told(c, acct.token # None /\ round.result)
<1> DEFINE q == [Done(answer) EXCEPT !.shared = TRUE, !.turn = round.generation]
<1>1. line' \in Seq(Callers) /\ clock' = clock
  BY MyTurnType DEF EnterShared
<1>2. /\ UNCHANGED <<acct, round, holder, slot, decided>>
      /\ call' = [call EXCEPT ![c] = q]
  BY DEF EnterShared
<1>3. answer \in {"renewed", "failed", "refused"}
  BY DEF Told
<1> HIDE DEF answer
<1>4. q \in Caller /\ q.pc = "done" /\ q.epoch = None /\ q.before = 0
  BY <1>3, Unfolded DEF Done, Waiting, Caller
<1>5. CallOK(q, c, acct, clock, round, holder)
  BY <1>4, Unfolded, DoneOK
<1> HIDE DEF q
<1> QED
  BY <1>1, <1>2, <1>4, <1>5, Unfolded, QuietStep

(* Logout and removal find no attempt under way.                           *)
LEMMA EnterSignOutStep ==
  ASSUME IInv, NEW c \in Callers, EnterSignOut(c)
  PROVE  IInv'
<1>1. line' \in Seq(Callers) /\ clock' = clock /\ holder = None
  BY MyTurnType DEF EnterSignOut
<1>2. /\ UNCHANGED <<round, holder, slot, decided>>
      /\ call' = [call EXCEPT ![c] = Done("none")]
  BY DEF EnterSignOut
<1>3. Done("none") \in Caller
  BY DEF Done, Waiting, Caller
<1>4. CallOK(Done("none"), c, acct', clock', round', holder')
  BY <1>1, Unfolded, DoneOK DEF Done, Waiting
<1>5. acct \in Account /\ AcctOK(acct, clock) /\ clock \in Nat /\ acct.epoch \in Nat
  BY Unfolded DEF Account
<1>6. /\ clock' \in Nat /\ clock <= clock' /\ decided' = decided
      /\ round' \in [generation : Nat, result : BOOLEAN, snapshot : Snapshot]
      /\ slot' \in Callers \cup {Others, None}
      /\ holder \in {None, c} /\ holder' \in {None, c}
  BY <1>1, <1>2, <1>5, Unfolded
<1>7. NewsOnly
  BY <1>1, <1>2 DEF NewsOnly
<1>8. ASSUME acct' = acct
      PROVE  acct' \in Account /\ AcctOK(acct', clock') /\ Evolves(acct, acct')
  BY <1>1, <1>5, <1>8 DEF Evolves
<1>9. ASSUME acct' = [SignedOut(acct.epoch + 1) EXCEPT !.present = call[c].kind = "clear"]
      PROVE  acct' \in Account /\ AcctOK(acct', clock') /\ Evolves(acct, acct')
  <2> DEFINE next == acct.epoch + 1
  <2> DEFINE stays == call[c].kind = "clear"
  <2>1. next \in Nat /\ stays \in BOOLEAN
    BY <1>5
  <2> HIDE DEF next, stays
  <2>2. acct' = [SignedOut(next) EXCEPT !.present = stays]
    BY <1>9 DEF next, stays
  <2>3. /\ acct' \in Account /\ acct'.token = None /\ acct'.stamp = 0
        /\ acct'.provider = "m365" /\ acct'.epoch = next
    BY <2>1, <2>2 DEF SignedOut, Account, Credential
  <2>4. AcctOK(acct', clock')
    BY <1>1, <1>5, <2>3 DEF AcctOK
  <2>5. Evolves(acct, acct')
    BY <1>5, <2>3 DEF Evolves, next
  <2> QED
    BY <2>3, <2>4, <2>5
<1>10. acct' \in Account /\ AcctOK(acct', clock') /\ Evolves(acct, acct')
  BY <1>8, <1>9 DEF EnterSignOut
<1> QED
  BY <1>1, <1>2, <1>3, <1>4, <1>6, <1>7, <1>10, HolderStep

(* Pausing or losing a grant evolves a sound account to a sound one.       *)
LEMMA KeptEvolves ==
  ASSUME NEW a \in Account, NEW b \in Account, NEW r, NEW k \in Nat,
         AcctOK(a, k), Kept(a, b, r)
  PROVE  AcctOK(b, k) /\ Evolves(a, b)
<1>1. a.epoch \in Nat
  BY DEF Account
<1>2. AcctOK(b, k)
  BY DEF AcctOK, Kept
<1>3. Evolves(a, b)
  BY <1>1 DEF Evolves, Kept
<1> QED
  BY <1>2, <1>3

LEMMA OwnerKept ==
  ASSUME NEW q \in Caller, NEW a \in Account, NEW b \in Account,
         q.epoch # None => OwnerOK(q, a), Evolves(a, b)
  PROVE  q.epoch # None => OwnerOK(q, b)
BY DEF OwnerOK, Evolves, Account, Caller

(* A caller that got its answer.                                           *)
LEMMA DoneCaller ==
  ASSUME NEW answer \in {"renewed", "failed", "refused", "cancelled"}
  PROVE  Done(answer) \in Caller
BY DEF Done, Waiting, Caller

(* The end of an attempt: a failure, or a token newer than every waiting   *)
(* caller.                                                                 *)
LEMMA ConcludeStep ==
  ASSUME IInv, NEW c \in Callers, holder \in {None, c}, NEW q \in Caller,
         NEW ok \in BOOLEAN, NEW answer \in {"renewed", "failed", "refused", "cancelled"},
         NEW snapshot \in Snapshot, Conclude(c, q, ok, answer, snapshot),
         acct' \in Account, AcctOK(acct', clock'), Evolves(acct, acct'),
         clock' \in Nat, clock <= clock', line' \in Seq(Callers), decided' = decided,
         ok = TRUE => snapshot[1].at \in Nat /\ clock < snapshot[1].at
  PROVE  IInv'
<1> DEFINE basis == IF answer = "failed" THEN q.read ELSE None
<1> DEFINE d == [Done(answer) EXCEPT !.turn = q.turn, !.read = basis]
<1>1. /\ call' = [call EXCEPT ![c] = d]
      /\ round' = [generation |-> round.generation + 1, result |-> ok, snapshot |-> snapshot]
      /\ holder' = None /\ slot' = IF slot = c THEN None ELSE slot
  BY DEF Conclude, LetGo
<1>2. q.turn \in Nat /\ basis \in Account \cup {None}
  BY DEF Caller
<1> HIDE DEF basis
<1>3. d \in Caller /\ d.pc = "done" /\ d.epoch = None /\ d.before = 0
  <2> DEFINE e == Done(answer)
  <2>1. e \in Caller
    BY DoneCaller
  <2>2. e.pc = "done" /\ e.epoch = None /\ e.before = 0
    BY DEF Done, Waiting
  <2> HIDE DEF e
  <2>3. [e EXCEPT !.turn = q.turn, !.read = basis] \in Caller
    BY <2>1, <1>2 DEF Caller
  <2>4. /\ [e EXCEPT !.turn = q.turn, !.read = basis].pc = e.pc
        /\ [e EXCEPT !.turn = q.turn, !.read = basis].epoch = e.epoch
        /\ [e EXCEPT !.turn = q.turn, !.read = basis].before = e.before
    BY <2>1 DEF Caller
  <2> QED
    BY <2>2, <2>3, <2>4 DEF e
<1>4. CallOK(d, c, acct', clock', round', holder')
  BY <1>3, DoneOK
<1>5. round' \in [generation : Nat, result : BOOLEAN, snapshot : Snapshot]
  BY <1>1, Unfolded
<1>6. NewsOnly
  <2>1. round'.result = ok /\ round'.snapshot = snapshot
    BY <1>1
  <2>2. CASE ok = TRUE
    BY <2>1, <2>2 DEF NewsOnly
  <2>3. CASE ok = FALSE
    BY <2>1, <2>3 DEF NewsOnly
  <2> QED
    BY <2>2, <2>3
<1>7. slot' \in Callers \cup {Others, None}
  BY <1>1, Unfolded
<1> HIDE DEF d
<1> QED
  BY <1>1, <1>3, <1>4, <1>5, <1>6, <1>7, HolderStep

(* From a missed exchange, or without one, to the browser.                 *)
LEMMA FallBackStep ==
  ASSUME IInv, NEW c \in Callers, holder \in {None, c}, NEW q \in Caller,
         q.epoch = call[c].epoch, q.owner = call[c].owner, q.before = call[c].before,
         acct' \in Account, NEW r, Kept(acct, acct', r), clock' = clock,
         line' \in Seq(Callers), decided' = decided, FallBack(c, q)
  PROVE  IInv'
<1>1. /\ acct \in Account /\ clock \in Nat /\ call[c] \in Caller
      /\ CallOK(call[c], c, acct, clock, round, holder)
      /\ AcctOK(acct', clock') /\ Evolves(acct, acct')
  BY Unfolded, KeptEvolves
<1>2. State(acct') \in Snapshot /\ round.snapshot \in Snapshot
  BY StateType, Unfolded
<1>3. FALSE \in BOOLEAN /\ clock' \in Nat /\ clock <= clock'
  BY <1>1
<1>4. ASSUME NEW snapshot \in Snapshot, Conclude(c, q, FALSE, "failed", snapshot)
      PROVE  IInv'
  BY <1>1, <1>3, <1>4, ConcludeStep
<1>5. CASE Conclude(c, q, FALSE, "failed", round.snapshot)
  BY <1>2, <1>5, <1>4
<1>6. CASE Conclude(c, q, FALSE, "failed", State(acct'))
  BY <1>2, <1>6, <1>4
<1>7. CASE /\ Consumer(acct') /\ acct'.subject # None
           /\ round' = Rebound(acct')
           /\ call' = [call EXCEPT ![c] = [q EXCEPT !.pc = "slot", !.read = acct']]
           /\ holder' = c
           /\ UNCHANGED slot
  <2> DEFINE d == [q EXCEPT !.pc = "slot", !.read = acct']
  <2>1. /\ d \in Caller /\ d.pc = "slot" /\ d.read = acct' /\ d.epoch = q.epoch
        /\ d.owner = q.owner /\ d.before = q.before
    BY DEF Caller
  <2>2. round' \in [generation : Nat, result : BOOLEAN, snapshot : Snapshot]
    BY <1>2, <1>7, Unfolded DEF Rebound
  <2>3. ReadOK(d, acct', clock')
    BY <1>1, <1>7, <2>1 DEF ReadOK, AcctOK, Account
  <2>4. d.epoch # None => OwnerOK(d, acct')
    <3>1. call[c].epoch # None => OwnerOK(call[c], acct')
      BY <1>1, OwnerKept DEF CallOK
    <3> QED
      BY <2>1, <3>1 DEF OwnerOK
  <2>5. d.before <= clock'
    BY <1>1, <2>1 DEF CallOK
  <2>6. CallOK(d, c, acct', clock', round', holder')
    BY <1>7, <2>1, <2>3, <2>4, <2>5 DEF CallOK, QueueOK
  <2>7. NewsOnly
    BY <1>7, CallersAssumption DEF NewsOnly
  <2> HIDE DEF d
  <2>8. call' = [call EXCEPT ![c] = d]
    BY <1>7 DEF d
  <2>9. slot' \in Callers \cup {Others, None} /\ holder' \in {None, c}
    BY <1>7, Unfolded
  <2> QED
    BY <1>1, <1>3, <2>1, <2>2, <2>6, <2>7, <2>8, <2>9, HolderStep
<1> QED
  BY <1>5, <1>6, <1>7 DEF FallBack
(* What an exchange or the browser brought is sound, and newer than what   *)
(* any caller saw.                                                         *)
LEMMA RenewedEvolves ==
  ASSUME NEW a \in Account, NEW b \in Account, NEW r \in Account, NEW k \in Nat,
         AcctOK(a, k), r.subject # None, Renewed(a, b, r, k + 1)
  PROVE  /\ AcctOK(b, k + 1) /\ Evolves(a, b)
         /\ State(b) \in Snapshot /\ State(b)[1].at \in Nat /\ k < State(b)[1].at
         /\ Age(b) = k + 1
<1>1. a.subject = r.subject /\ a.subject \in Subjects /\ a.epoch \in Nat
  BY DEF Renewed, Chosen, Account
<1>2. /\ Signed(k + 1, a.subject) # None /\ Signed(k + 1, a.subject).at = k + 1
      /\ Signed(k + 1, a.subject).subject = a.subject
  <2>1. k + 1 \in Nat OBVIOUS
  <2> QED BY <1>1, <2>1, SignedIsToken
<1> HIDE DEF Signed
<1>3. /\ b.token # None /\ b.token.at = k + 1 /\ b.token.subject = a.subject
      /\ b.subject = a.subject /\ b.stamp = k + 1 /\ b.epoch = a.epoch
  BY <1>2 DEF Renewed
<1>4. AcctOK(b, k + 1)
  BY <1>3 DEF AcctOK
<1>5. Evolves(a, b)
  BY <1>1, <1>3 DEF Evolves, AcctOK
<1>6. State(b) \in Snapshot /\ State(b)[1] = b.token
  BY StateType
<1>7. Age(b) = k + 1
  BY <1>3 DEF Age
<1> QED
  BY <1>3, <1>4, <1>5, <1>6, <1>7

LEMMA EnterAttemptStep ==
  ASSUME IInv, NEW c \in Callers, EnterAttempt(c)
  PROVE  IInv'
<1> DEFINE q == [call[c] EXCEPT !.read = acct, !.turn = round.generation + 1]
<1>1. /\ line' \in Seq(Callers) /\ clock' = clock /\ holder = None
      /\ holder \in {None, c}
  BY MyTurnType DEF EnterAttempt
<1>2. acct' = acct /\ decided' = decided /\ Consumer(acct)
  BY DEF EnterAttempt
<1>3. /\ acct \in Account /\ AcctOK(acct, clock) /\ clock \in Nat
      /\ call[c] \in Caller /\ CallOK(call[c], c, acct, clock, round, holder)
      /\ round.generation + 1 \in Nat
  BY Unfolded
<1>4. /\ q \in Caller /\ q.epoch = call[c].epoch /\ q.owner = call[c].owner
      /\ q.before = call[c].before /\ q.read = acct
  BY <1>3 DEF Caller
<1>5. CASE FallBack(c, q)
  <2>1. acct' \in Account /\ Kept(acct, acct', acct)
    BY <1>2, <1>3 DEF Kept
  <2> HIDE DEF q
  <2> QED
    BY <1>1, <1>2, <1>4, <1>5, <2>1, FallBackStep
<1>6. CASE /\ HasGrant(acct)
           /\ round' = [round EXCEPT !.snapshot = State(acct)]
           /\ call' = [call EXCEPT ![c] = [q EXCEPT !.pc = "exchange"]]
           /\ holder' = c
           /\ UNCHANGED slot
  <2> DEFINE d == [q EXCEPT !.pc = "exchange"]
  <2> HIDE DEF q
  <2>1. /\ d \in Caller /\ d.pc = "exchange" /\ d.read = acct /\ d.epoch = call[c].epoch
        /\ d.owner = call[c].owner /\ d.before = call[c].before
    BY <1>4 DEF Caller
  <2>2. ReadOK(d, acct, clock)
    BY <1>2, <1>3, <1>6, <2>1 DEF ReadOK, HasGrant, AcctOK, Account
  <2>3. CallOK(d, c, acct', clock', round', holder')
    BY <1>1, <1>2, <1>3, <1>6, <2>1, <2>2 DEF CallOK, OwnerOK, QueueOK
  <2>4. NewsOnly
    BY <1>6, CallersAssumption DEF NewsOnly
  <2>5. /\ round' \in [generation : Nat, result : BOOLEAN, snapshot : Snapshot]
        /\ slot' \in Callers \cup {Others, None} /\ holder' \in {None, c}
    BY <1>3, <1>6, Unfolded, StateType
  <2>6. Evolves(acct, acct') /\ acct' \in Account /\ AcctOK(acct', clock')
    BY <1>1, <1>2, <1>3 DEF Evolves, Account
  <2>7. call' = [call EXCEPT ![c] = d] /\ clock' \in Nat /\ clock <= clock'
    BY <1>1, <1>3, <1>6
  <2> HIDE DEF d
  <2> QED
    BY <1>1, <1>2, <2>1, <2>3, <2>4, <2>5, <2>6, <2>7, HolderStep
<1> QED
  BY <1>5, <1>6 DEF EnterAttempt

(* What an attempt knows of the account.                                   *)
LEMMA Attempted ==
  ASSUME IInv, NEW c \in Callers, Attempting(call[c])
  PROVE  /\ holder = c /\ ReadOK(call[c], acct, clock) /\ call[c].read \in Account
         /\ call[c].read.subject # None
BY Unfolded DEF CallOK, ReadOK

(* The answers that change the account, and those that may not.            *)
LEMMA AnswerEffect ==
  ASSUME IInv, NEW c \in Callers, call[c].pc = "exchange",
         NEW answer \in Answers(call[c].read), AfterAnswer(call[c].read, answer)
  PROVE  /\ answer \in {"renewed", "rotated"} /\ acct' # acct
              => acct' \in Account /\ Renewed(acct, acct', call[c].read, clock + 1)
         /\ ~ (answer \in {"renewed", "rotated"} /\ acct' # acct)
              => acct' \in Account /\ Kept(acct, acct', call[c].read)
<1> DEFINE r == call[c].read
<1>1. /\ ReadOK(call[c], acct, clock) /\ r \in Account
      /\ acct \in Account /\ clock \in Nat
  BY Attempted, Unfolded DEF Attempting
<1>2. Kept(acct, acct, r)
  BY DEF Kept
<1>3. CASE acct' = acct
  BY <1>1, <1>2, <1>3
<1>4. CASE acct' = Defer(acct, r) /\ answer = "error"
  BY <1>1, <1>4, FailureEffect
<1>5. CASE acct' = Discard(acct, r) /\ answer = "dead"
  BY <1>1, <1>5, FailureEffect
<1>6. CASE /\ answer \in {"renewed", "rotated"}
           /\ acct' = ApplyExchange(acct, r, answer = "rotated") /\ acct' # acct
  <2> DEFINE rotated == answer = "rotated"
  <2>1. r.rt.subject = r.subject /\ rotated \in BOOLEAN
    BY <1>6 DEF Answers
  <2> HIDE DEF rotated
  <2>2. acct' = ApplyExchange(acct, r, rotated)
    BY <1>6 DEF rotated
  <2>3. acct' \in Account /\ Renewed(acct, acct', r, clock + 1)
    BY <1>1, <1>6, <2>1, <2>2, ApplyEffect
  <2> QED
    BY <1>6, <2>3
<1> QED
  BY <1>3, <1>4, <1>5, <1>6 DEF AfterAnswer

LEMMA ExchangeAnsweredStep ==
  ASSUME IInv, NEW c \in Callers, ExchangeAnswered(c)
  PROVE  IInv'
<1>1. /\ call[c].pc = "exchange" /\ holder \in {None, c}
      /\ line' \in Seq(Callers) /\ decided' = decided
      /\ call[c].read \in Account /\ call[c].read.subject # None
      /\ acct \in Account /\ AcctOK(acct, clock) /\ clock \in Nat /\ call[c] \in Caller
  BY Attempted, Unfolded DEF ExchangeAnswered, Attempting
<1>2. PICK answer \in Answers(call[c].read) :
        /\ AfterAnswer(call[c].read, answer)
        /\ IF answer \in {"renewed", "rotated"} /\ acct' # acct
           THEN /\ clock' = clock + 1
                /\ Conclude(c, call[c], TRUE, Told(c, TRUE), State(acct'))
           ELSE UNCHANGED clock /\ FallBack(c, call[c])
  BY DEF ExchangeAnswered
<1>3. CASE answer \in {"renewed", "rotated"} /\ acct' # acct
  <2>1. acct' \in Account /\ Renewed(acct, acct', call[c].read, clock + 1)
    BY <1>1, <1>2, <1>3, AnswerEffect
  <2>2. clock' = clock + 1 /\ Conclude(c, call[c], TRUE, Told(c, TRUE), State(acct'))
    BY <1>2, <1>3
  <2>3. /\ AcctOK(acct', clock') /\ Evolves(acct, acct') /\ State(acct') \in Snapshot
        /\ State(acct')[1].at \in Nat /\ clock < State(acct')[1].at
    BY <1>1, <2>1, <2>2, RenewedEvolves
  <2>4. /\ Told(c, TRUE) \in {"renewed", "failed", "refused", "cancelled"}
        /\ TRUE \in BOOLEAN /\ clock' \in Nat /\ clock <= clock'
    BY <1>1, <2>2 DEF Told
  <2> DEFINE told == Told(c, TRUE)
  <2> DEFINE snapshot == State(acct')
  <2>5. /\ told \in {"renewed", "failed", "refused", "cancelled"} /\ snapshot \in Snapshot
        /\ TRUE = TRUE => snapshot[1].at \in Nat /\ clock < snapshot[1].at
    BY <2>3, <2>4
  <2>6. Conclude(c, call[c], TRUE, told, snapshot)
    BY <2>2
  <2> HIDE DEF told, snapshot
  <2> QED
    BY <1>1, <2>1, <2>3, <2>4, <2>5, <2>6, ConcludeStep
<1>4. CASE ~ (answer \in {"renewed", "rotated"} /\ acct' # acct)
  <2>1. acct' \in Account /\ Kept(acct, acct', call[c].read)
    BY <1>1, <1>2, <1>4, AnswerEffect
  <2>2. clock' = clock /\ FallBack(c, call[c])
    BY <1>2, <1>4
  <2> QED
    BY <1>1, <2>1, <2>2, FallBackStep
<1> QED
  BY <1>3, <1>4

LEMMA SlotTakenStep ==
  ASSUME IInv, NEW c \in Callers, SlotTaken(c)
  PROVE  IInv'
<1> DEFINE q == [call[c] EXCEPT !.pc = "browser"]
<1>1. /\ call[c].pc = "slot" /\ slot' = c /\ call' = [call EXCEPT ![c] = q]
      /\ UNCHANGED <<acct, round, line, holder, clock, decided>>
  BY Unfolded DEF SlotTaken
<1>2. /\ holder = c /\ ReadOK(call[c], acct, clock) /\ call[c] \in Caller
      /\ CallOK(call[c], c, acct, clock, round, holder) /\ line' \in Seq(Callers)
  BY <1>1, Attempted, Unfolded DEF Attempting
<1>3. /\ q \in Caller /\ q.pc = "browser" /\ q.read = call[c].read
      /\ q.epoch = call[c].epoch /\ q.owner = call[c].owner /\ q.before = call[c].before
  BY <1>2 DEF Caller
<1> HIDE DEF q
<1>4. ReadOK(q, acct, clock)
  BY <1>1, <1>2, <1>3 DEF ReadOK
<1>5. CallOK(q, c, acct, clock, round, holder)
  BY <1>2, <1>3, <1>4 DEF CallOK, OwnerOK, QueueOK
<1> QED
  BY <1>1, <1>2, <1>3, <1>5, QuietStep

(* An attempt that ends without touching the account.                      *)
LEMMA GiveUpStep ==
  ASSUME IInv, NEW c \in Callers, Attempting(call[c]),
         NEW answer \in {"failed", "cancelled"},
         Conclude(c, call[c], FALSE, answer, round.snapshot),
         UNCHANGED <<acct, line, clock, decided>>
  PROVE  IInv'
<1>1. /\ holder \in {None, c} /\ call[c] \in Caller /\ round.snapshot \in Snapshot
      /\ acct \in Account /\ AcctOK(acct, clock) /\ clock \in Nat /\ line \in Seq(Callers)
  BY Attempted, Unfolded
<1>2. /\ acct' \in Account /\ AcctOK(acct', clock') /\ Evolves(acct, acct')
      /\ clock' \in Nat /\ clock <= clock' /\ line' \in Seq(Callers)
  BY <1>1 DEF Evolves, Account
<1>3. FALSE \in BOOLEAN /\ answer \in {"renewed", "failed", "refused", "cancelled"}
  OBVIOUS
<1> QED
  BY <1>1, <1>2, <1>3, ConcludeStep

LEMMA BrowserFailedStep ==
  ASSUME IInv, NEW c \in Callers, BrowserFailed(c)
  PROVE  IInv'
<1>1. /\ Attempting(call[c]) /\ "failed" \in {"failed", "cancelled"}
      /\ UNCHANGED <<acct, line, clock, decided>>
      /\ Conclude(c, call[c], FALSE, "failed", round.snapshot)
  BY DEF BrowserFailed, Attempting
<1> QED
  BY <1>1, GiveUpStep

(* A token the browser minted is stored for the account it was minted for. *)
LEMMA MintEffect ==
  ASSUME IInv, NEW c \in Callers, call[c].pc = "browser", NEW grant \in BOOLEAN,
         acct' = ApplyGate(acct, call[c].read, grant), acct' # acct
  PROVE  acct' \in Account /\ Renewed(acct, acct', call[c].read, clock + 1)
<1>1. ReadOK(call[c], acct, clock) /\ acct \in Account /\ clock \in Nat
  BY Attempted, Unfolded DEF Attempting
<1> QED
  BY <1>1, GateEffect

LEMMA BrowserMintedStep ==
  ASSUME IInv, NEW c \in Callers, BrowserMinted(c)
  PROVE  IInv'
<1>1. /\ call[c].pc = "browser" /\ Attempting(call[c])
      /\ UNCHANGED <<line, decided>>
      /\ IF acct' # acct
         THEN /\ clock' = clock + 1
              /\ Conclude(c, call[c], TRUE, Told(c, TRUE), State(acct'))
         ELSE /\ UNCHANGED clock
              /\ Conclude(c, call[c], FALSE, "failed", round.snapshot)
  BY DEF BrowserMinted, Attempting
<1>2. PICK grant \in BOOLEAN : acct' = ApplyGate(acct, call[c].read, grant)
  BY DEF BrowserMinted
<1>3. /\ holder \in {None, c} /\ line' \in Seq(Callers)
      /\ call[c].read \in Account /\ call[c].read.subject # None
      /\ acct \in Account /\ AcctOK(acct, clock) /\ clock \in Nat /\ call[c] \in Caller
  BY <1>1, Attempted, Unfolded
<1>4. CASE acct' # acct
  <2>1. acct' \in Account /\ Renewed(acct, acct', call[c].read, clock + 1)
    BY <1>1, <1>2, <1>4, MintEffect
  <2>2. clock' = clock + 1 /\ Conclude(c, call[c], TRUE, Told(c, TRUE), State(acct'))
    BY <1>1, <1>4
  <2>3. /\ AcctOK(acct', clock') /\ Evolves(acct, acct') /\ State(acct') \in Snapshot
        /\ State(acct')[1].at \in Nat /\ clock < State(acct')[1].at
    BY <1>3, <2>1, <2>2, RenewedEvolves
  <2> DEFINE told == Told(c, TRUE)
  <2> DEFINE snapshot == State(acct')
  <2>4. /\ told \in {"renewed", "failed", "refused", "cancelled"}
        /\ TRUE \in BOOLEAN /\ clock' \in Nat /\ clock <= clock'
    BY <1>3, <2>2 DEF Told
  <2>5. /\ snapshot \in Snapshot
        /\ TRUE = TRUE => snapshot[1].at \in Nat /\ clock < snapshot[1].at
    BY <2>3
  <2>6. Conclude(c, call[c], TRUE, told, snapshot)
    BY <2>2
  <2> HIDE DEF told, snapshot
  <2> QED
    BY <1>1, <1>3, <2>1, <2>3, <2>4, <2>5, <2>6, ConcludeStep
<1>5. CASE acct' = acct
  <2>1. "failed" \in {"failed", "cancelled"}
    OBVIOUS
  <2> QED
    BY <1>1, <1>5, <2>1, GiveUpStep
<1> QED
  BY <1>4, <1>5

LEMMA CancelStep ==
  ASSUME IInv, NEW c \in Callers, Cancel(c)
  PROVE  IInv'
<1>1. CASE /\ call' = [call EXCEPT ![c] = Done("cancelled")]
           /\ line' = IF call[c].pc = "queued" THEN Without(line, c) ELSE line
           /\ UNCHANGED <<round, holder, slot>>
  <2>1. UNCHANGED <<acct, clock, round, holder, slot, decided>>
    BY <1>1 DEF Cancel
  <2>2. line' \in Seq(Callers)
    BY <1>1, Unfolded, WithoutType
  <2>3. Done("cancelled") \in Caller
    BY DEF Done, Waiting, Caller
  <2>4. CallOK(Done("cancelled"), c, acct, clock, round, holder)
    BY Unfolded, DoneOK DEF Done, Waiting
  <2> QED
    BY <1>1, <2>1, <2>2, <2>3, <2>4, Unfolded, QuietStep
<1>2. CASE /\ call[c].pc \in {"exchange", "slot", "browser"}
           /\ Conclude(c, call[c], FALSE, "cancelled", round.snapshot)
           /\ UNCHANGED line
  <2>1. /\ Attempting(call[c]) /\ "cancelled" \in {"failed", "cancelled"}
        /\ UNCHANGED <<acct, line, clock, decided>>
    BY <1>2 DEF Cancel, Attempting
  <2> QED
    BY <1>2, <2>1, GiveUpStep
<1> QED
  BY <1>1, <1>2 DEF Cancel

-----------------------------------------------------------------------------
(* The invariant *)

LEMMA OthersStep ==
  ASSUME IInv, OthersTake \/ OthersLeave
  PROVE  IInv'
<1>1. /\ UNCHANGED <<acct, round, line, holder, call, clock, decided>>
      /\ slot' \in Callers \cup {Others, None}
  BY DEF OthersTake, OthersLeave
<1> QED
  BY <1>1 DEF IInv, TypeOK

LEMMA UnchangedStep ==
  ASSUME IInv, UNCHANGED vars
  PROVE  IInv'
BY DEF IInv, TypeOK, vars, locks

(* Every step of the specification keeps the invariant.                    *)
LEMMA NextIInv == IInv /\ [Next]_vars => IInv'
<1> SUFFICES ASSUME IInv, [Next]_vars PROVE IInv'
  OBVIOUS
<1>1. ASSUME NEW s \in Subjects, NEW again \in BOOLEAN, NEW grant \in BOOLEAN,
             NEW activate \in BOOLEAN, Push(s, again, grant, activate)
      PROVE  IInv'
  BY <1>1, PushStep
<1>2. ASSUME NEW p \in {"m365", "consumer"}, Activate(p) PROVE IInv'
  BY <1>2, ActivateStep
<1>3. CASE PauseEnds
  BY <1>3, PauseStep
<1>4. ASSUME NEW c \in Callers, Start(c) PROVE IInv'
  BY <1>4, StartStep
<1>5. ASSUME NEW c \in Callers, Gate(c) \/ Background(c) \/ SignOut(c) PROVE IInv'
  <2>1. \E kind \in {"refresh", "clear", "remove"} : Arrive(c, kind)
    BY <1>5 DEF Gate, Background, SignOut
  <2> QED
    BY <2>1, ArriveStep
<1>6. ASSUME NEW c \in Callers, GateRefused(c) PROVE IInv'
  BY <1>6, GateRefusedStep
<1>7. ASSUME NEW c \in Callers, Enter(c) PROVE IInv'
  BY <1>7, EnterInactiveStep, EnterSharedStep, EnterAttemptStep, EnterSignOutStep DEF Enter
<1>8. ASSUME NEW c \in Callers, Attempt(c) PROVE IInv'
  BY <1>8, ExchangeAnsweredStep, SlotTakenStep, BrowserFailedStep, BrowserMintedStep
     DEF Attempt
<1>9. ASSUME NEW c \in Callers, Cancel(c) PROVE IInv'
  BY <1>9, CancelStep
<1>10. CASE OthersTake \/ OthersLeave
  BY <1>10, OthersStep
<1>11. CASE UNCHANGED vars
  BY <1>11, UnchangedStep
<1> QED
  BY <1>1, <1>2, <1>3, <1>4, <1>5, <1>6, <1>7, <1>8, <1>9, <1>10, <1>11 DEF Next

(* The invariant holds of every behaviour.                                 *)
THEOREM Invariance == Spec => []IInv
<1>1. Init => IInv
  BY InitIInv
<1>2. IInv /\ [Next]_vars => IInv'
  BY NextIInv
<1> QED
  BY <1>1, <1>2, PTL DEF Spec

(* Type correctness, for every number of callers, subjects and decisions.  *)
THEOREM TypeCorrect == Spec => []TypeOK
<1>1. IInv => TypeOK
  BY DEF IInv
<1> QED
  BY <1>1, Invariance, PTL

(* The stored token is always one of the pinned Microsoft account, however *)
(* many renewals, pushes and logouts interleave.                           *)
THEOREM Pinned == Spec => []TokenIsPinned
<1>1. IInv => TokenIsPinned
  BY DEF IInv, AcctOK, TokenIsPinned
<1> QED
  BY <1>1, Invariance, PTL

-----------------------------------------------------------------------------
(* What steps never do *)

(* A caller moves only by its own steps.                                   *)
LEMMA OwnMoves ==
  ASSUME IInv, [Next]_vars, NEW c \in Callers, call'[c] # call[c]
  PROVE  \/ Start(c) \/ Gate(c) \/ GateRefused(c) \/ Background(c) \/ SignOut(c)
         \/ Enter(c) \/ Attempt(c) \/ Cancel(c)
<1>1. call \in [Callers -> Caller]
  BY Unfolded
<1>2. call' # call
  OBVIOUS
<1>3. PICK d \in Callers : \/ Start(d) \/ Gate(d) \/ GateRefused(d) \/ Background(d)
                          \/ SignOut(d) \/ Enter(d) \/ Attempt(d) \/ Cancel(d)
  BY <1>2 DEF Next, Push, Activate, PauseEnds, OthersTake, OthersLeave, vars
<1>4. \E q : call' = [call EXCEPT ![d] = q]
  <2>1. CASE Start(d) \/ Gate(d) \/ GateRefused(d) \/ Background(d) \/ SignOut(d)
    <3>1. CASE Start(d)
      BY <3>1, <1>1, Unfolded DEF Start
    <3>2. ASSUME NEW kind, Arrive(d, kind) PROVE \E q : call' = [call EXCEPT ![d] = q]
      BY <3>2, <1>1 DEF Arrive
    <3>3. CASE GateRefused(d)
      BY <3>3 DEF GateRefused
    <3> QED
      BY <2>1, <3>1, <3>2, <3>3 DEF Gate, Background, SignOut
  <2>2. ASSUME NEW q, NEW ok, NEW answer, NEW snapshot, Conclude(d, q, ok, answer, snapshot)
        PROVE  \E r : call' = [call EXCEPT ![d] = r]
    BY <2>2 DEF Conclude
  <2>3. ASSUME NEW q, FallBack(d, q) PROVE \E r : call' = [call EXCEPT ![d] = r]
    BY <2>2, <2>3 DEF FallBack
  <2>4. CASE Enter(d)
    <3>1. CASE EnterInactive(d) \/ EnterSignOut(d)
      BY <3>1 DEF EnterInactive, EnterSignOut
    <3>2. CASE EnterShared(d)
      BY <3>2 DEF EnterShared
    <3>3. CASE EnterAttempt(d)
      BY <3>3, <2>3 DEF EnterAttempt
    <3> QED
      BY <2>4, <3>1, <3>2, <3>3 DEF Enter
  <2>5. CASE Attempt(d)
    <3>1. CASE ExchangeAnswered(d)
      BY <3>1, <2>2, <2>3 DEF ExchangeAnswered
    <3>2. CASE SlotTaken(d)
      BY <3>2, <1>1 DEF SlotTaken
    <3>3. CASE BrowserFailed(d) \/ BrowserMinted(d)
      BY <3>3, <2>2 DEF BrowserFailed, BrowserMinted
    <3> QED
      BY <2>5, <3>1, <3>2, <3>3 DEF Attempt
  <2>6. CASE Cancel(d)
    BY <2>6, <2>2 DEF Cancel
  <2> QED
    BY <1>3, <2>1, <2>4, <2>5, <2>6
<1>5. d = c
  BY <1>1, <1>4
<1> QED
  BY <1>3, <1>5

\* A caller that is told of another attempt's success, or of its own.
SharedSuccess(c) == EnterShared(c) /\ acct.token # None /\ round.result = TRUE

OwnSuccess(c) ==
  /\ Attempting(call[c])
  /\ acct' \in Account
  /\ Renewed(acct, acct', call[c].read, clock + 1)

StillCurrent(c) == call[c].epoch = None \/ IsCurrent(acct', call[c].epoch)

(* The end of an attempt tells of a renewal only if it succeeded.          *)
LEMMA ConcludeTells ==
  ASSUME IInv, NEW c \in Callers, NEW q, NEW ok, NEW snapshot,
         NEW answer \in {"failed", "cancelled"}, Conclude(c, q, ok, answer, snapshot)
  PROVE  ~ ToldRenewed(c)
<1> DEFINE d == [Done(answer) EXCEPT
                  !.turn = q.turn, !.read = IF answer = "failed" THEN q.read ELSE None]
<1>1. d.answer = answer
  BY DEF Done, Waiting
<1> HIDE DEF d
<1>2. call' = [call EXCEPT ![c] = d]
  BY DEF Conclude, d
<1> QED
  BY <1>1, <1>2, Unfolded DEF ToldRenewed

LEMMA OwnTells ==
  ASSUME IInv, NEW c \in Callers, NEW snapshot, ToldRenewed(c),
         Conclude(c, call[c], TRUE, Told(c, TRUE), snapshot)
  PROVE  StillCurrent(c)
<1> DEFINE told == Told(c, TRUE)
<1> DEFINE d == [Done(told) EXCEPT !.turn = call[c].turn,
                                   !.read = IF told = "failed" THEN call[c].read ELSE None]
<1>1. call' = [call EXCEPT ![c] = d]
  BY DEF Conclude
<1> HIDE DEF told
<1>2. d.answer = told
  BY DEF Done, Waiting
<1> HIDE DEF d
<1>3. told = "renewed"
  BY <1>1, <1>2, Unfolded DEF ToldRenewed
<1> QED
  BY <1>3 DEF told, Told, StillCurrent

(* Who is told of a renewal, and what the account is by then.              *)
LEMMA Successes ==
  ASSUME IInv, [Next]_vars, NEW c \in Callers, ToldRenewed(c)
  PROVE  StillCurrent(c) /\ (SharedSuccess(c) \/ OwnSuccess(c))
<1>1. call \in [Callers -> Caller] /\ call'[c] # call[c]
  BY Unfolded DEF ToldRenewed
<1>2. ~ Start(c)
  BY <1>1 DEF Start, ToldRenewed, Caller
<1>3. ASSUME NEW kind \in {"refresh", "clear", "remove"}, Arrive(c, kind) PROVE FALSE
  BY <1>1, <1>3 DEF Arrive, ToldRenewed, Caller
<1>4. ASSUME NEW answer \in {"none", "failed", "refused", "cancelled"},
             call' = [call EXCEPT ![c] = Done(answer)]
      PROVE  FALSE
  BY <1>1, <1>4 DEF Done, Waiting, ToldRenewed
<1>5. ASSUME NEW q \in Caller, FallBack(c, q) PROVE FALSE
  <2>1. CASE Conclude(c, q, FALSE, "failed", round.snapshot)
    BY <2>1, ConcludeTells
  <2>2. CASE Conclude(c, q, FALSE, "failed", State(acct'))
    BY <2>2, ConcludeTells
  <2>3. CASE call' = [call EXCEPT ![c] = [q EXCEPT !.pc = "slot", !.read = acct']]
    <3> DEFINE d == [q EXCEPT !.pc = "slot", !.read = acct']
    <3>1. d.pc = "slot"
      BY DEF Caller
    <3> HIDE DEF d
    <3>2. call' = [call EXCEPT ![c] = d]
      BY <2>3 DEF d
    <3> QED
      BY <1>1, <3>1, <3>2 DEF ToldRenewed
  <2> QED
    BY <1>5, <2>1, <2>2, <2>3 DEF FallBack
<1>6. CASE Enter(c)
  <2>1. ~ (EnterInactive(c) \/ EnterSignOut(c))
    BY <1>4 DEF EnterInactive, EnterSignOut
  <2>2. ~ EnterAttempt(c)
    <3> SUFFICES ASSUME EnterAttempt(c) PROVE FALSE
      OBVIOUS
    <3> DEFINE q == [call[c] EXCEPT !.read = acct, !.turn = round.generation + 1]
    <3>0. /\ call[c] \in Caller /\ acct \in Account \cup {None}
          /\ round.generation + 1 \in Nat
      BY Unfolded
    <3>1. q \in Caller
      <4> DEFINE n == round.generation + 1
      <4>1. n \in Nat
        BY <3>0
      <4> HIDE DEF n
      <4>2. [call[c] EXCEPT !.read = acct, !.turn = n] \in Caller
        BY ONLY <3>0, <4>1 DEF Caller
      <4> QED
        BY <4>2 DEF n
    <3>2. ~ FallBack(c, q)
      BY <1>5, <3>1
    <3> DEFINE d == [q EXCEPT !.pc = "exchange"]
    <3>3. d.pc = "exchange"
      BY <3>1 DEF Caller
    <3>4. call' = [call EXCEPT ![c] = d]
      BY <3>2 DEF EnterAttempt
    <3> HIDE DEF d
    <3> QED
      BY <1>1, <3>3, <3>4 DEF ToldRenewed
  <2>3. CASE EnterShared(c)
    <3> DEFINE told == Told(c, acct.token # None /\ round.result)
    <3> DEFINE d == [Done(told) EXCEPT !.shared = TRUE, !.turn = round.generation]
    <3>1. call' = [call EXCEPT ![c] = d]
      BY <2>3 DEF EnterShared
    <3> HIDE DEF told
    <3>2. d.answer = told
      BY DEF Done, Waiting
    <3> HIDE DEF d
    <3>3. told = "renewed"
      BY <1>1, <3>1, <3>2 DEF ToldRenewed
    <3>4. acct.token # None /\ round.result /\ StillCurrent(c)
      BY <3>3 DEF told, Told, StillCurrent
    <3>5. round.result = TRUE
      BY <3>4, Unfolded
    <3> QED
      BY <2>3, <3>4, <3>5 DEF SharedSuccess
  <2> QED
    BY <1>6, <2>1, <2>2, <2>3 DEF Enter
<1>7. CASE Attempt(c)
  <2>1. ~ SlotTaken(c)
    <3> SUFFICES ASSUME SlotTaken(c) PROVE FALSE
      OBVIOUS
    <3> QED
      BY <1>1 DEF SlotTaken, ToldRenewed, Caller
  <2>2. ~ BrowserFailed(c)
    BY ConcludeTells DEF BrowserFailed
  <2>3. ASSUME BrowserMinted(c) PROVE StillCurrent(c) /\ OwnSuccess(c)
    <3>1. PICK grant \in BOOLEAN : acct' = ApplyGate(acct, call[c].read, grant)
      BY <2>3 DEF BrowserMinted
    <3>2. ~ Conclude(c, call[c], FALSE, "failed", round.snapshot)
      BY ConcludeTells
    <3>3. /\ acct' # acct /\ call[c].pc = "browser"
          /\ Conclude(c, call[c], TRUE, Told(c, TRUE), State(acct'))
      BY <2>3, <3>2 DEF BrowserMinted
    <3>4. acct' \in Account /\ Renewed(acct, acct', call[c].read, clock + 1)
      BY <3>1, <3>3, MintEffect
    <3> QED
      BY <3>3, <3>4, OwnTells DEF OwnSuccess, Attempting
  <2>4. ASSUME ExchangeAnswered(c) PROVE StillCurrent(c) /\ OwnSuccess(c)
    <3>1. call[c] \in Caller /\ call[c].pc = "exchange"
      BY <2>4, Unfolded DEF ExchangeAnswered
    <3>2. PICK answer \in Answers(call[c].read) :
            /\ AfterAnswer(call[c].read, answer)
            /\ IF answer \in {"renewed", "rotated"} /\ acct' # acct
               THEN /\ clock' = clock + 1
                    /\ Conclude(c, call[c], TRUE, Told(c, TRUE), State(acct'))
               ELSE UNCHANGED clock /\ FallBack(c, call[c])
      BY <2>4 DEF ExchangeAnswered
    <3>3. ~ FallBack(c, call[c])
      BY <1>5, <3>1
    <3>4. /\ answer \in {"renewed", "rotated"} /\ acct' # acct
          /\ Conclude(c, call[c], TRUE, Told(c, TRUE), State(acct'))
      BY <3>2, <3>3
    <3>5. acct' \in Account /\ Renewed(acct, acct', call[c].read, clock + 1)
      BY <3>1, <3>2, <3>4, AnswerEffect
    <3> QED
      BY <3>1, <3>4, <3>5, OwnTells DEF OwnSuccess, Attempting
  <2> QED
    BY <1>7, <2>1, <2>2, <2>3, <2>4 DEF Attempt
<1>8. ~ Cancel(c)
  <2>1. ~ Conclude(c, call[c], FALSE, "cancelled", round.snapshot)
    BY ConcludeTells
  <2> QED
    BY <1>4, <2>1 DEF Cancel
<1> QED
  BY <1>1, <1>2, <1>3, <1>4, <1>6, <1>7, <1>8, OwnMoves
     DEF Gate, Background, SignOut, GateRefused

(* A success is a token of the account, and later than the caller's.       *)
LEMMA SuccessIsNew ==
  ASSUME IInv, NEW c \in Callers, SharedSuccess(c) \/ OwnSuccess(c)
  PROVE  /\ acct' \in Account /\ Evolves(acct, acct')
         /\ Age(acct') > call[c].before
<1>1. /\ acct \in Account /\ AcctOK(acct, clock) /\ clock \in Nat
      /\ call[c] \in Caller /\ CallOK(call[c], c, acct, clock, round, holder)
      /\ call[c].before \in Nat /\ call[c].before <= clock
  BY Unfolded DEF CallOK, Caller
<1>2. CASE OwnSuccess(c)
  <2>1. call[c].read \in Account /\ call[c].read.subject # None
    BY <1>2, Attempted DEF OwnSuccess
  <2>2. acct' \in Account /\ Renewed(acct, acct', call[c].read, clock + 1)
    BY <1>2 DEF OwnSuccess
  <2>3. Evolves(acct, acct') /\ Age(acct') = clock + 1
    BY <1>1, <2>1, <2>2, RenewedEvolves
  <2> QED
    BY <1>1, <2>2, <2>3
<1>3. CASE SharedSuccess(c)
  <2>1. /\ acct' = acct /\ acct.token # None /\ round.result = TRUE
        /\ Shares(c) /\ call[c].pc = "queued" /\ holder = None
    BY <1>3 DEF SharedSuccess, EnterShared, MyTurn
  <2>2. round.snapshot[1] = acct.token /\ round.generation # call[c].queued
    BY <1>1, <2>1, StateType DEF Shares
  <2>3. call[c].before < acct.token.at
    BY <1>1, <2>1, <2>2 DEF CallOK, QueueOK
  <2>4. Age(acct') = acct.token.at /\ Age(acct') \in Nat
    BY <1>1, <2>1, CredentialIsToken DEF Age, Account, Token
  <2> QED
    BY <1>1, <2>1, <2>3, <2>4 DEF Evolves, Account
<1> QED
  BY <1>2, <1>3

(* Who is told of a renewal finds a token stored after it queued.          *)
THEOREM NewsIsNew == Spec => RenewedIsNew
<1>1. ASSUME IInv, [Next]_vars
      PROVE  \A c \in Callers : ToldRenewed(c) => Age(acct') > call[c].before
  BY <1>1, Successes, SuccessIsNew
<1> QED
  BY <1>1, Invariance, PTL DEF Spec, RenewedIsNew

(* A turn is never continued with the credential of another account.       *)
THEOREM OwnerIsKept == Spec => TurnKeepsOwner
<1>1. ASSUME IInv, [Next]_vars
      PROVE  \A c \in Callers : ToldRenewed(c) /\ call[c].epoch # None
               => acct'.token.subject = call[c].owner
  <2> SUFFICES ASSUME NEW c \in Callers, ToldRenewed(c), call[c].epoch # None
               PROVE  acct'.token.subject = call[c].owner
    OBVIOUS
  <2>1. StillCurrent(c) /\ acct' \in Account /\ Evolves(acct, acct')
    BY <1>1, Successes, SuccessIsNew
  <2>2. OwnerOK(call[c], acct')
    BY <1>1, <2>1, Unfolded, OwnerKept DEF CallOK
  <2> QED
    BY <2>1, <2>2 DEF StillCurrent, IsCurrent, OwnerOK
<1> QED
  BY <1>1, Invariance, PTL DEF Spec, TurnKeepsOwner

(* What an attempt may do to the account when its answer is there.         *)
LEMMA EndOfAttempt ==
  ASSUME IInv, [Next]_vars, NEW c \in Callers,
         call[c].pc \in {"exchange", "browser"}, call'[c] # call[c]
  PROVE  \/ acct' = acct
         \/ Kept(acct, acct', call[c].read)
         \/ Renewed(acct, acct', call[c].read, clock + 1)
<1>1. ~ (Start(c) \/ Gate(c) \/ GateRefused(c) \/ Background(c) \/ SignOut(c))
  BY DEF Start, Gate, GateRefused, Background, SignOut
<1>2. ~ Enter(c)
  BY DEF Enter, EnterInactive, EnterShared, EnterAttempt, EnterSignOut, MyTurn
<1>3. CASE SlotTaken(c) \/ BrowserFailed(c) \/ Cancel(c)
  BY <1>3 DEF SlotTaken, BrowserFailed, Cancel
<1>4. CASE BrowserMinted(c)
  BY <1>4, MintEffect DEF BrowserMinted
<1>5. CASE ExchangeAnswered(c)
  BY <1>5, AnswerEffect DEF ExchangeAnswered
<1> QED
  BY <1>1, <1>2, <1>3, <1>4, <1>5, OwnMoves DEF Attempt

(* No renewal overwrites a newer push, grant, logout or switch.            *)
THEOREM NewerIsKept == Spec => NewerWins
<1> DEFINE A == \A c \in Callers :
       call[c].pc \in {"exchange", "browser"} /\ call'[c] # call[c] =>
         /\ acct'.token # acct.token => Chosen(acct) = Chosen(call[c].read)
         /\ acct'.rt # acct.rt => acct.rt = call[c].read.rt
<1>1. ASSUME IInv, [Next]_vars PROVE A
  <2> SUFFICES ASSUME NEW c \in Callers, call[c].pc \in {"exchange", "browser"},
                      call'[c] # call[c]
               PROVE  /\ acct'.token # acct.token => Chosen(acct) = Chosen(call[c].read)
                      /\ acct'.rt # acct.rt => acct.rt = call[c].read.rt
    OBVIOUS
  <2>1. CASE Kept(acct, acct', call[c].read)
    BY <2>1 DEF Kept
  <2>2. CASE Renewed(acct, acct', call[c].read, clock + 1)
    BY <2>2 DEF Renewed, Chosen
  <2> QED
    BY <1>1, <2>1, <2>2, EndOfAttempt
<1> QED
  BY <1>1, Invariance, PTL DEF Spec, NewerWins

-----------------------------------------------------------------------------
(* Failures.  An account never returns to a state it has left for good, so *)
(* the input a caller failed with is the snapshot of the round for as long *)
(* as it is what is stored, and the callers in the line share that         *)
(* failure.                                                                *)

\* r is the account a, or an account whose state a has left for good: epochs
\* and stamps only grow, and a grant that was taken away comes back with a
\* stamp.
Past(r, a) ==
  \/ State(r) = State(a)
  \/ r.epoch < a.epoch
  \/ r.epoch = a.epoch /\ r.stamp < a.stamp
  \/ r.epoch = a.epoch /\ r.stamp = a.stamp /\ r.rt # None /\ a.rt = None

Failed(q) == q.answer = "failed" /\ q.read # None

\* An attempt's input is the round's snapshot.
Held(q, a, rd) ==
  Attempting(q) =>
    /\ Past(q.read, a) /\ rd.snapshot = State(q.read) /\ q.turn = rd.generation + 1

\* While the account is still what a caller failed with, the round's
\* snapshot is, whoever else tried it since.
Lasting(q, a, rd, h) ==
  Failed(q) =>
    /\ q.read \in Account /\ q.turn <= rd.generation /\ Past(q.read, a)
    /\ h = None /\ State(q.read) = State(a) => rd.snapshot = State(a)

Settled(q) == q.pc # "done" => q.answer = "none"

Ahead(q, p) == Failed(q) /\ Attempting(p) => Past(q.read, p.read)

SharedInv ==
  \A c \in Callers :
    /\ Settled(call[c]) /\ Held(call[c], acct, round)
    /\ Lasting(call[c], acct, round, holder)
    /\ \A d \in Callers : Ahead(call[c], call[d])

(* What is past stays past, and two accounts past one another are the      *)
(* same.                                                                   *)
LEMMA PastOrder ==
  ASSUME NEW a \in Account, NEW b \in Account, NEW c \in Account
  PROVE  /\ Past(a, a)
         /\ Past(a, b) /\ Past(b, c) => Past(a, c)
         /\ Past(a, b) /\ Past(b, a) => State(a) = State(b)
         /\ Past(a, b) /\ Past(b, c) /\ State(a) = State(c) => State(a) = State(b)
  <1>1. /\ a.epoch \in Nat /\ b.epoch \in Nat /\ c.epoch \in Nat
        /\ a.stamp \in Nat /\ b.stamp \in Nat /\ c.stamp \in Nat
    BY DEF Account
  <1>2. \A x, y : State(x) = State(y) => x.epoch = y.epoch /\ x.stamp = y.stamp /\ x.rt = y.rt
    BY DEF State
  <1> QED BY <1>1, <1>2 DEF Past

\* Every step takes the account forward.
LEMMA AccountAdvances ==
  ASSUME IInv, [Next]_vars
  PROVE  acct' \in Account /\ Past(acct, acct')
  <1>1. /\ acct \in Account /\ AcctOK(acct, clock) /\ clock \in Nat
        /\ acct.stamp \in Nat /\ acct.stamp <= clock /\ acct.epoch \in Nat
    BY Unfolded DEF AcctOK, Account
  <1>2. acct' \in Account
    <2>1. IInv' BY NextIInv
    <2> QED BY <2>1 DEF IInv, TypeOK
  <1>3. CASE acct' = acct BY <1>1, <1>3, PastOrder
  <1>4. ASSUME NEW s \in Subjects, NEW again \in BOOLEAN, NEW grant \in BOOLEAN,
               NEW activate \in BOOLEAN, Push(s, again, grant, activate)
        PROVE  Past(acct, acct')
    <2>1. acct'.stamp = clock + 1 /\ acct.epoch <= acct'.epoch /\ acct'.epoch \in Nat
      BY <1>4, PushEffect DEF Evolves, Account
    <2> QED BY <1>1, <2>1 DEF Past
  <1>5. ASSUME NEW p \in {"m365", "consumer"}, Activate(p) PROVE Past(acct, acct')
    <2>1. acct'.epoch = acct.epoch + 1 BY <1>1, <1>5 DEF Activate, Account
    <2> QED BY <1>1, <2>1 DEF Past
  <1>6. CASE PauseEnds
    <2>1. /\ acct'.token = acct.token /\ acct'.stamp = acct.stamp
          /\ acct'.subject = acct.subject /\ acct'.rt = acct.rt /\ acct'.epoch = acct.epoch
      BY <1>1, <1>6 DEF PauseEnds, Account
    <2> QED BY <1>2, <2>1 DEF Past, State
  <1>7. ASSUME NEW c \in Callers, EnterSignOut(c) PROVE Past(acct, acct')
    <2>1. CASE acct' = [SignedOut(acct.epoch + 1) EXCEPT !.present = call[c].kind = "clear"]
      <3>1. acct'.epoch = acct.epoch + 1 BY <2>1 DEF SignedOut
      <3> QED BY <1>1, <3>1 DEF Past
    <2> QED BY <1>3, <1>7, <2>1 DEF EnterSignOut
  <1>8. ASSUME NEW c \in Callers, ExchangeAnswered(c) \/ BrowserMinted(c) PROVE Past(acct, acct')
    <2>1. \/ acct' = acct
          \/ Kept(acct, acct', call[c].read)
          \/ Renewed(acct, acct', call[c].read, clock + 1)
      BY <1>8, AnswerEffect, MintEffect DEF ExchangeAnswered, BrowserMinted
    <2>2. CASE Kept(acct, acct', call[c].read)
      <3>1. CASE acct'.rt = acct.rt BY <2>2, <3>1 DEF Kept, Past, State
      <3>2. CASE acct'.rt # acct.rt BY <1>1, <2>2, <3>2 DEF Kept, Past
      <3> QED BY <3>1, <3>2
    <2>3. CASE Renewed(acct, acct', call[c].read, clock + 1)
      BY <1>1, <2>3 DEF Renewed, Past
    <2> QED BY <1>3, <2>1, <2>2, <2>3
  <1>9. ASSUME NEW c \in Callers,
               \/ Start(c) \/ Gate(c) \/ GateRefused(c) \/ Background(c) \/ SignOut(c)
               \/ EnterInactive(c) \/ EnterShared(c) \/ EnterAttempt(c) \/ SlotTaken(c)
               \/ BrowserFailed(c) \/ Cancel(c)
        PROVE  acct' = acct
    BY <1>9 DEF Start, Gate, GateRefused, Background, SignOut, Arrive, EnterInactive, EnterShared,
                EnterAttempt, SlotTaken, BrowserFailed, Cancel
  <1>10. CASE OthersTake \/ OthersLeave \/ UNCHANGED vars
    BY <1>3, <1>10 DEF OthersTake, OthersLeave, vars
  <1> QED
    BY <1>2, <1>3, <1>4, <1>5, <1>6, <1>7, <1>8, <1>9, <1>10 DEF Next, Enter, Attempt

\* What SharedInv says of one caller.
LEMMA SharedOf ==
  ASSUME IInv, SharedInv, NEW c \in Callers
  PROVE  /\ Settled(call[c]) /\ Held(call[c], acct, round) /\ Lasting(call[c], acct, round, holder)
         /\ \A d \in Callers : Ahead(call[c], call[d])
         /\ Attempting(call[c]) => holder = c /\ call[c].read \in Account
         /\ call[c].turn \in Nat /\ acct \in Account /\ round.generation \in Nat
         /\ call[c] \in Caller
  <1>1. Attempting(call[c]) => holder = c /\ call[c].read \in Account BY Attempted
  <1>2. call[c] \in Caller /\ call[c].turn \in Nat /\ acct \in Account /\ round.generation \in Nat
    BY Unfolded DEF Caller
  <1> QED BY <1>1, <1>2 DEF SharedInv

\* The account moves, and callers that neither fail nor try.
LEMMA RestStep ==
  ASSUME IInv, SharedInv, acct' \in Account, Past(acct, acct'), UNCHANGED <<round, holder>>,
         \A d \in Callers : \/ call'[d] = call[d]
                            \/ ~ Attempting(call'[d]) /\ ~ Failed(call'[d]) /\ Settled(call'[d])
  PROVE  SharedInv'
  <1>1. ASSUME NEW c \in Callers, call'[c] = call[c]
        PROVE  Settled(call'[c]) /\ Held(call'[c], acct', round') /\ Lasting(call'[c], acct', round', holder')
    <2>1. Settled(call'[c]) BY <1>1, SharedOf
    <2>2. Held(call'[c], acct', round')
      BY <1>1, SharedOf, PastOrder DEF Held
    <2>3. Lasting(call'[c], acct', round', holder')
      <3> SUFFICES ASSUME Failed(call[c])
                   PROVE  Lasting(call[c], acct', round, holder)
        BY <1>1 DEF Lasting
      <3>1. /\ call[c].read \in Account /\ call[c].turn <= round.generation
            /\ Past(call[c].read, acct) /\ acct \in Account
            /\ holder = None /\ State(call[c].read) = State(acct) => round.snapshot = State(acct)
        BY SharedOf DEF Lasting
      <3>2. Past(call[c].read, acct') BY <3>1, PastOrder
      <3>3. State(call[c].read) = State(acct') => State(call[c].read) = State(acct)
        BY <3>1, PastOrder
      <3> QED BY <3>1, <3>2, <3>3 DEF Lasting
    <2> QED BY <2>1, <2>2, <2>3
  <1>2. ASSUME NEW c \in Callers, ~ Attempting(call'[c]), ~ Failed(call'[c]), Settled(call'[c])
        PROVE  Settled(call'[c]) /\ Held(call'[c], acct', round') /\ Lasting(call'[c], acct', round', holder')
    BY <1>2 DEF Held, Lasting
  <1>3. ASSUME NEW c \in Callers, NEW d \in Callers PROVE Ahead(call'[c], call'[d])
    BY SharedOf DEF Ahead
  <1> QED BY <1>1, <1>2, <1>3 DEF SharedInv

\* c tries, with the account as it is or with what it tried before.
LEMMA TryStep ==
  ASSUME IInv, SharedInv, acct' \in Account, Past(acct, acct'),
         NEW c \in Callers, holder \in {None, c}, holder' # None,
         \A d \in Callers \ {c} : call'[d] = call[d],
         call'[c].answer = "none", call'[c].turn = round.generation + 1,
         call'[c].read = acct' \/ (Attempting(call[c]) /\ call'[c].read = call[c].read),
         round'.generation = round.generation, round'.snapshot = State(call'[c].read)
  PROVE  SharedInv'
  <1>1. ~ Failed(call'[c]) /\ Settled(call'[c]) BY DEF Failed, Settled
  <1>2. call'[c].read \in Account /\ Past(call'[c].read, acct')
    BY SharedOf, PastOrder DEF Held
  <1>3. Held(call'[c], acct', round') BY <1>2 DEF Held
  <1>4. ASSUME NEW d \in Callers, d # c
        PROVE  /\ Settled(call'[d]) /\ Held(call'[d], acct', round')
               /\ Lasting(call'[d], acct', round', holder') /\ Ahead(call'[d], call'[c])
    <2>1. call'[d] = call[d] BY <1>4
    <2>2. ~ Attempting(call[d]) BY <1>4, SharedOf, CallersAssumption
    <2>3. Lasting(call'[d], acct', round', holder')
      <3>1. Failed(call[d]) => call[d].read \in Account /\ call[d].turn <= round.generation
                               /\ Past(call[d].read, acct)
        BY SharedOf DEF Lasting
      <3>2. acct \in Account BY SharedOf
      <3> QED BY <2>1, <3>1, <3>2, PastOrder DEF Lasting
    <2>4. Ahead(call'[d], call'[c])
      <3> SUFFICES ASSUME Failed(call[d]) PROVE Past(call[d].read, call'[c].read)
        BY <2>1 DEF Ahead
      <3>1. call[d].read \in Account /\ Past(call[d].read, acct) /\ acct \in Account
        BY SharedOf DEF Lasting
      <3>2. CASE call'[c].read = acct' BY <3>1, <3>2, PastOrder
      <3>3. CASE Attempting(call[c]) /\ call'[c].read = call[c].read
        BY <3>3, SharedOf DEF Ahead
      <3> QED BY <3>2, <3>3
    <2> QED BY <2>1, <2>2, <2>3, <2>4, SharedOf DEF Held
  <1>5. ASSUME NEW d \in Callers, NEW e \in Callers PROVE Ahead(call'[d], call'[e])
    BY <1>1, <1>4, SharedOf DEF Ahead
  <1>6. Lasting(call'[c], acct', round', holder') BY <1>1 DEF Lasting
  <1> QED BY <1>1, <1>3, <1>4, <1>5, <1>6 DEF SharedInv

\* The attempt of c ends, with the round's snapshot its input or the account.
LEMMA EndsStep ==
  ASSUME IInv, SharedInv, acct' \in Account, Past(acct, acct'),
         NEW c \in Callers, holder \in {None, c}, holder' = None,
         \A d \in Callers \ {c} : call'[d] = call[d],
         call'[c].pc = "done",
         Failed(call'[c]) => /\ call'[c].turn = round.generation + 1
                             /\ \/ call'[c].read = acct' /\ round'.snapshot = State(acct')
                                \/ Attempting(call[c]) /\ call'[c].read = call[c].read,
         round'.generation = round.generation + 1,
         \/ round'.snapshot = State(acct')
         \/ Attempting(call[c]) /\ round'.snapshot = State(call[c].read)
  PROVE  SharedInv'
  <1>1. /\ acct \in Account /\ round.generation \in Nat
        /\ Attempting(call[c]) => call[c].read \in Account /\ Past(call[c].read, acct)
    BY SharedOf DEF Held
  <1>2. ~ Attempting(call'[c]) /\ Settled(call'[c]) BY DEF Attempting, Settled
  <1>3. Lasting(call'[c], acct', round', holder')
    <2> SUFFICES ASSUME Failed(call'[c])
                 PROVE  Lasting(call'[c], acct', round', holder')
      BY DEF Lasting
    <2>1. call'[c].read \in Account /\ Past(call'[c].read, acct')
      BY <1>1, PastOrder
    <2>2. State(call'[c].read) = State(acct') => round'.snapshot = State(acct')
      <3>1. CASE round'.snapshot = State(acct') BY <3>1
      <3>2. CASE Attempting(call[c]) /\ round'.snapshot = State(call[c].read)
        <4>1. CASE call'[c].read = call[c].read BY <3>2, <4>1
        <4>2. CASE round'.snapshot = State(acct') BY <4>2
        <4> QED BY <4>1, <4>2
      <3> QED BY <3>1, <3>2
    <2>3. call'[c].turn <= round'.generation BY <1>1
    <2> QED BY <2>1, <2>2, <2>3 DEF Lasting
  <1>4. ASSUME NEW d \in Callers, d # c
        PROVE  /\ Settled(call'[d]) /\ Held(call'[d], acct', round')
               /\ Lasting(call'[d], acct', round', holder')
    <2>1. call'[d] = call[d] BY <1>4
    <2>2. ~ Attempting(call[d]) BY <1>4, SharedOf, CallersAssumption
    <2>3. Lasting(call'[d], acct', round', holder')
      <3> SUFFICES ASSUME Failed(call[d])
                   PROVE  Lasting(call[d], acct', round', holder')
        BY <2>1 DEF Lasting
      <3>1. /\ call[d].read \in Account /\ call[d].turn <= round.generation /\ call[d].turn \in Nat
            /\ Past(call[d].read, acct)
            /\ Attempting(call[c]) => Past(call[d].read, call[c].read)
        BY SharedOf DEF Lasting, Ahead
      <3>2. Past(call[d].read, acct') BY <1>1, <3>1, PastOrder
      <3>3. State(call[d].read) = State(acct') => round'.snapshot = State(acct')
        <4>1. CASE round'.snapshot = State(acct') BY <4>1
        <4>2. CASE Attempting(call[c]) /\ round'.snapshot = State(call[c].read)
          <5>1. Past(call[c].read, acct') BY <1>1, <4>2, PastOrder
          <5>2. State(call[d].read) = State(acct') => State(call[d].read) = State(call[c].read)
            BY <1>1, <3>1, <4>2, <5>1, PastOrder
          <5> QED BY <4>2, <5>2
        <4> QED BY <4>1, <4>2
      <3>4. call[d].turn <= round'.generation BY <1>1, <3>1
      <3> QED BY <3>1, <3>2, <3>3, <3>4 DEF Lasting
    <2> QED BY <2>1, <2>2, <2>3, SharedOf DEF Held
  <1>5. ASSUME NEW d \in Callers, NEW e \in Callers PROVE Ahead(call'[d], call'[e])
    <2>1. CASE e = c BY <1>2, <2>1 DEF Ahead
    <2>2. CASE e # c
      <3>1. ~ Attempting(call'[e]) BY <2>2, SharedOf, CallersAssumption
      <3> QED BY <3>1 DEF Ahead
    <2> QED BY <2>1, <2>2
  <1> QED
    <2>1. Held(call'[c], acct', round') BY <1>2 DEF Held
    <2> QED BY <1>2, <1>3, <1>4, <1>5, <2>1 DEF SharedInv

\* How the finally clause leaves its caller.
LEMMA ConcludeFields ==
  ASSUME IInv, NEW c \in Callers, NEW q \in Caller, NEW ok, NEW snapshot,
         NEW answer \in {"renewed", "failed", "refused", "cancelled"},
         Conclude(c, q, ok, answer, snapshot)
  PROVE  /\ call'[c].pc = "done" /\ call'[c].answer = answer
         /\ call'[c].turn = q.turn /\ call'[c].read = IF answer = "failed" THEN q.read ELSE None
         /\ \A d \in Callers \ {c} : call'[d] = call[d]
         /\ round'.generation = round.generation + 1 /\ round'.snapshot = snapshot
         /\ holder' = None
  <1> DEFINE basis == IF answer = "failed" THEN q.read ELSE None
             turn == q.turn
             e == Done(answer)
             d == [e EXCEPT !.turn = turn, !.read = basis]
  <1>1. call \in [Callers -> Caller] BY Unfolded
  <1>2. /\ call' = [call EXCEPT ![c] = d]
        /\ round' = [generation |-> round.generation + 1, result |-> ok, snapshot |-> snapshot]
        /\ holder' = None
    BY DEF Conclude, LetGo
  <1>3. e \in Caller /\ e.pc = "done" /\ e.answer = answer
    BY DoneCaller DEF Done, Waiting
  <1> HIDE DEF e, basis, turn
  <1>4. d.pc = "done" /\ d.answer = answer /\ d.turn = turn /\ d.read = basis
    BY <1>3 DEF Caller
  <1> HIDE DEF d
  <1> QED BY <1>1, <1>2, <1>4 DEF basis, turn

(* An attempt is concluded.                                                *)
LEMMA ConcludeKeeps ==
  ASSUME IInv, SharedInv, acct' \in Account, Past(acct, acct'),
         NEW c \in Callers, holder \in {None, c}, NEW q \in Caller, NEW ok, NEW snapshot,
         NEW answer \in {"renewed", "failed", "refused", "cancelled"},
         Conclude(c, q, ok, answer, snapshot), q.turn = round.generation + 1,
         \/ snapshot = State(acct')
         \/ Attempting(call[c]) /\ snapshot = State(call[c].read),
         answer = "failed" => \/ q.read = acct' /\ snapshot = State(acct')
                              \/ Attempting(call[c]) /\ q.read = call[c].read
  PROVE  SharedInv'
  <1>1. Failed(call'[c]) => answer = "failed" /\ call'[c].read = q.read
    BY ConcludeFields DEF Failed
  <1> QED BY <1>1, ConcludeFields, EndsStep

(* An attempt without an exchange to make, or one that failed, ends or     *)
(* goes on to a browser.                                                   *)
LEMMA FallBackKeeps ==
  ASSUME IInv, SharedInv, acct' \in Account, Past(acct, acct'),
         NEW c \in Callers, holder \in {None, c}, NEW q \in Caller, FallBack(c, q),
         q.turn = round.generation + 1, q.answer = "none",
         \/ Attempting(call[c]) /\ q.read = call[c].read
         \/ q.read = acct' /\ Consumer(acct')
  PROVE  SharedInv'
  <1> DEFINE failed == "failed"
  <1>1. failed \in {"renewed", "failed", "refused", "cancelled"} OBVIOUS
  <1>2. CASE Conclude(c, q, FALSE, failed, round.snapshot) /\ ~ Consumer(acct')
    <2> HIDE DEF failed
    <2>1. /\ Attempting(call[c]) /\ q.read = call[c].read
          /\ round.snapshot = State(call[c].read)
      BY <1>2, SharedOf DEF Held
    <2> QED BY <1>1, <1>2, <2>1, ConcludeKeeps
  <1>3. CASE Conclude(c, q, FALSE, failed, State(acct'))
    <2> HIDE DEF failed
    <2> QED BY <1>1, <1>3, ConcludeKeeps
  <1>4. CASE /\ round' = Rebound(acct')
             /\ call' = [call EXCEPT ![c] = [q EXCEPT !.pc = "slot", !.read = acct']]
             /\ holder' = c
    <2> DEFINE d == [q EXCEPT !.pc = "slot", !.read = acct']
    <2>1. d.read = acct' /\ d.turn = q.turn /\ d.answer = q.answer
      BY DEF Caller
    <2>2. call' = [call EXCEPT ![c] = d] BY <1>4
    <2> HIDE DEF d
    <2>3. call \in [Callers -> Caller] BY Unfolded
    <2>4. /\ call'[c].read = acct' /\ call'[c].turn = round.generation + 1
          /\ call'[c].answer = "none"
          /\ \A e \in Callers \ {c} : call'[e] = call[e]
      BY <2>1, <2>2, <2>3
    <2>5. round'.generation = round.generation /\ round'.snapshot = State(call'[c].read)
      BY <1>4, <2>4, Unfolded DEF Rebound
    <2>6. holder' # None BY <1>4, CallersAssumption
    <2> QED BY <2>4, <2>5, <2>6, TryStep
  <1> QED BY <1>2, <1>3, <1>4 DEF FallBack

\* What an attempt under way is.
LEMMA TryingOf ==
  ASSUME IInv, SharedInv, NEW c \in Callers, call[c].pc \in {"exchange", "slot", "browser"}
  PROVE  /\ Attempting(call[c]) /\ holder = c /\ call[c] \in Caller /\ call[c].answer = "none"
         /\ call[c].turn = round.generation + 1 /\ round.snapshot = State(call[c].read)
  BY SharedOf DEF Attempting, Settled, Held

(* A caller enters: it tries, or shares the failure.                       *)
LEMMA EnterAttemptKeeps ==
  ASSUME IInv, SharedInv, NEW c \in Callers, EnterAttempt(c)
  PROVE  SharedInv'
  <1> DEFINE n == round.generation + 1
             q == [call[c] EXCEPT !.read = acct, !.turn = n]
  <1>1. /\ acct' = acct /\ Consumer(acct) /\ holder = None /\ call[c].pc = "queued"
        /\ acct \in Account /\ n \in Nat /\ call \in [Callers -> Caller]
        /\ call[c].answer = "none" /\ Past(acct, acct')
    BY SharedOf, Unfolded, PastOrder DEF EnterAttempt, MyTurn, Settled
  <1> HIDE DEF n
  <1>2. q \in Caller /\ q.read = acct /\ q.turn = n /\ q.answer = "none"
    BY <1>1 DEF Caller
  <1>3. CASE FallBack(c, q)
    <2> HIDE DEF q
    <2> QED BY <1>1, <1>2, <1>3, FallBackKeeps DEF n
  <1>4. CASE /\ round' = [round EXCEPT !.snapshot = State(acct)]
             /\ call' = [call EXCEPT ![c] = [q EXCEPT !.pc = "exchange"]]
             /\ holder' = c
    <2> DEFINE d == [q EXCEPT !.pc = "exchange"]
    <2> HIDE DEF q
    <2>1. d.read = acct /\ d.turn = n /\ d.answer = "none" BY <1>2 DEF Caller
    <2>2. call' = [call EXCEPT ![c] = d] BY <1>4
    <2> HIDE DEF d
    <2>3. /\ call'[c].read = acct' /\ call'[c].turn = round.generation + 1
          /\ call'[c].answer = "none"
          /\ \A e \in Callers \ {c} : call'[e] = call[e]
      BY <1>1, <2>1, <2>2 DEF n
    <2>4. round'.generation = round.generation /\ round'.snapshot = State(call'[c].read)
      BY <1>1, <1>4, <2>3, Unfolded
    <2>5. holder' # None BY <1>4, CallersAssumption
    <2> QED BY <1>1, <2>3, <2>4, <2>5, TryStep
  <1> QED BY <1>3, <1>4 DEF EnterAttempt, n

(* The browser slot is taken.                                              *)
LEMMA SlotKeeps ==
  ASSUME IInv, SharedInv, NEW c \in Callers, SlotTaken(c)
  PROVE  SharedInv'
  <1> DEFINE d == [call[c] EXCEPT !.pc = "browser"]
  <1>1. /\ call[c].pc = "slot" /\ call' = [call EXCEPT ![c] = d]
        /\ UNCHANGED <<acct, round, holder>> /\ call \in [Callers -> Caller]
    BY Unfolded DEF SlotTaken
  <1>2. /\ Attempting(call[c]) /\ holder = c /\ call[c] \in Caller /\ call[c].answer = "none"
        /\ call[c].turn = round.generation + 1 /\ round.snapshot = State(call[c].read)
        /\ acct \in Account /\ Past(acct, acct)
    BY <1>1, TryingOf, SharedOf, PastOrder
  <1>3. d.read = call[c].read /\ d.turn = call[c].turn /\ d.answer = call[c].answer
    BY <1>2 DEF Caller
  <1> HIDE DEF d
  <1>4. /\ call'[c].read = call[c].read /\ call'[c].turn = round.generation + 1
        /\ call'[c].answer = "none"
        /\ \A e \in Callers \ {c} : call'[e] = call[e]
    BY <1>1, <1>2, <1>3
  <1> QED BY <1>1, <1>2, <1>4, TryStep, CallersAssumption

\* An attempt concludes, or goes on in the browser.
LEMMA AnswerKeeps ==
  ASSUME IInv, SharedInv, [Next]_vars, NEW c \in Callers,
         ExchangeAnswered(c) \/ BrowserFailed(c) \/ BrowserMinted(c)
  PROVE  SharedInv'
  <1>1. acct' \in Account /\ Past(acct, acct') BY AccountAdvances
  <1>2. /\ Attempting(call[c]) /\ holder = c /\ call[c] \in Caller /\ call[c].answer = "none"
        /\ call[c].turn = round.generation + 1 /\ round.snapshot = State(call[c].read)
    BY TryingOf DEF ExchangeAnswered, BrowserFailed, BrowserMinted
  <1> DEFINE told == Told(c, TRUE)
             failed == "failed"
  <1>3. /\ told \in {"renewed", "failed", "refused", "cancelled"} /\ told # "failed"
        /\ failed \in {"renewed", "failed", "refused", "cancelled"}
    BY DEF Told
  <1> HIDE DEF told, failed
  <1>4. CASE Conclude(c, call[c], TRUE, told, State(acct'))
    BY <1>1, <1>2, <1>3, <1>4, ConcludeKeeps
  <1>5. CASE Conclude(c, call[c], FALSE, failed, round.snapshot)
    BY <1>1, <1>2, <1>3, <1>5, ConcludeKeeps
  <1>6. CASE FallBack(c, call[c])
    BY <1>1, <1>2, <1>6, FallBackKeeps
  <1> QED
    BY <1>4, <1>5, <1>6 DEF ExchangeAnswered, BrowserFailed, BrowserMinted, told, failed

\* The steps that neither start nor end an attempt.
LEMMA RestKeeps ==
  ASSUME IInv, SharedInv, [Next]_vars, NEW c \in Callers,
         \/ Start(c) \/ Gate(c) \/ GateRefused(c) \/ Background(c) \/ SignOut(c)
         \/ EnterInactive(c) \/ EnterShared(c) \/ EnterSignOut(c)
         \/ Cancel(c) /\ call[c].pc \in {"turn", "queued"}
  PROVE  SharedInv'
  <1>1. acct' \in Account /\ Past(acct, acct') BY AccountAdvances
  <1>2. /\ call \in [Callers -> Caller] /\ call[c] \in Caller
        /\ call[c].pc # "done" => call[c].answer = "none"
    BY SharedOf, Unfolded DEF Settled
  <1>3. ASSUME NEW q, call' = [call EXCEPT ![c] = q], UNCHANGED <<round, holder>>,
               ~ Attempting(q), ~ Failed(q), Settled(q)
        PROVE  SharedInv'
    <2>1. \A d \in Callers : d # c => call'[d] = call[d] BY <1>2, <1>3
    <2>2. call'[c] = q BY <1>2, <1>3
    <2> QED BY <1>1, <1>3, <2>1, <2>2, RestStep
  <1>4. ASSUME NEW answer, call' = [call EXCEPT ![c] = Done(answer)], UNCHANGED <<round, holder>>
        PROVE  SharedInv'
    <2> DEFINE q == Done(answer)
    <2>1. q.pc = "done" /\ q.read = None BY DEF Done, Waiting
    <2> HIDE DEF q
    <2>2. call' = [call EXCEPT ![c] = q] BY <1>4 DEF q
    <2> QED BY <2>2, <1>3, <1>4, <2>1 DEF Attempting, Failed, Settled
  <1>5. CASE Start(c)
    <2> DEFINE e == acct.epoch
               o == acct.token.subject
               q == [call[c] EXCEPT !.pc = "turn", !.epoch = e, !.owner = o]
    <2>1. call' = [call EXCEPT ![c] = q] /\ UNCHANGED <<round, holder>> /\ call[c].pc = "idle"
      BY <1>2, <1>5 DEF Start, locks
    <2> HIDE DEF e, o
    <2>2. q.pc = "turn" /\ q.answer = call[c].answer BY <1>2 DEF Caller
    <2> HIDE DEF q
    <2> QED BY <1>2, <1>3, <2>1, <2>2 DEF Attempting, Failed, Settled
  <1>6. ASSUME NEW kind, Arrive(c, kind), call[c].pc \in {"idle", "turn"} PROVE SharedInv'
    <2> DEFINE g == round.generation
               b == Age(acct)
               q == [call[c] EXCEPT !.pc = "queued", !.kind = kind, !.queued = g, !.before = b]
    <2>1. call' = [call EXCEPT ![c] = q] /\ UNCHANGED <<round, holder>>
      BY <1>2, <1>6 DEF Arrive
    <2> HIDE DEF g, b
    <2>2. q.pc = "queued" /\ q.answer = call[c].answer BY <1>2 DEF Caller
    <2> HIDE DEF q
    <2> QED BY <1>2, <1>3, <1>6, <2>1, <2>2 DEF Attempting, Failed, Settled
  <1>7. CASE EnterShared(c)
    <2> DEFINE told == Told(c, acct.token # None /\ round.result)
               g == round.generation
               q == [Done(told) EXCEPT !.shared = TRUE, !.turn = g]
    <2>1. call' = [call EXCEPT ![c] = q] /\ UNCHANGED <<round, holder>>
      BY <1>7 DEF EnterShared
    <2> HIDE DEF told, g
    <2>2. q.pc = "done" /\ q.read = None BY DEF Done, Waiting
    <2> HIDE DEF q
    <2> QED BY <1>3, <2>1, <2>2 DEF Attempting, Failed, Settled
  <1>8. CASE GateRefused(c) \/ EnterInactive(c) \/ EnterSignOut(c)
             \/ (Cancel(c) /\ call[c].pc \in {"turn", "queued"})
    BY <1>4, <1>8 DEF GateRefused, EnterInactive, EnterSignOut, Cancel, locks, MyTurn
  <1> QED BY <1>5, <1>6, <1>7, <1>8 DEF Gate, Background, SignOut

(* A caller is cancelled.                                                  *)
LEMMA CancelKeeps ==
  ASSUME IInv, SharedInv, [Next]_vars, NEW c \in Callers, Cancel(c)
  PROVE  SharedInv'
  <1>1. CASE call[c].pc \in {"turn", "queued"} BY <1>1, RestKeeps
  <1>2. CASE call[c].pc \in {"exchange", "slot", "browser"}
    <2> DEFINE cancelled == "cancelled"
    <2>1. Conclude(c, call[c], FALSE, cancelled, round.snapshot)
      BY <1>2 DEF Cancel
    <2>2. cancelled \in {"renewed", "failed", "refused", "cancelled"} /\ cancelled # "failed"
      OBVIOUS
    <2> HIDE DEF cancelled
    <2>3. acct' \in Account /\ Past(acct, acct') BY AccountAdvances
    <2> QED BY <1>2, <2>1, <2>2, <2>3, TryingOf, ConcludeKeeps
  <1> QED BY <1>1, <1>2 DEF Cancel

(* The second invariant holds at the start.                                *)
LEMMA InitShared == Init => SharedInv
  BY DEF Init, Waiting, SharedInv, Settled, Held, Lasting, Ahead, Failed, Attempting

(* Every step keeps the second invariant.                                  *)
LEMMA NextShared == IInv /\ SharedInv /\ [Next]_vars => SharedInv'
  <1> SUFFICES ASSUME IInv, SharedInv, [Next]_vars PROVE SharedInv'
    OBVIOUS
  <1>1. acct' \in Account /\ Past(acct, acct') BY AccountAdvances
  <1>2. CASE UNCHANGED <<round, holder, call>> BY <1>1, <1>2, RestStep
  <1>3. ASSUME NEW c \in Callers,
               \/ Start(c) \/ Gate(c) \/ GateRefused(c) \/ Background(c) \/ SignOut(c)
               \/ Enter(c) \/ Attempt(c) \/ Cancel(c)
        PROVE  SharedInv'
    BY <1>3, RestKeeps, EnterAttemptKeeps, SlotKeeps, AnswerKeeps, CancelKeeps
    DEF Enter, Attempt
  <1> QED
    BY <1>2, <1>3 DEF Next, Push, Activate, PauseEnds, OthersTake, OthersLeave, locks, vars

(* For any callers, subjects and number of pushes, switches and logouts:   *)
(* an input that failed is not tried again by the callers that queued      *)
(* before its attempt ended.                                               *)
THEOREM FailureShared == Spec => FailureIsShared
  <1> DEFINE A == \A c, d \in Callers :
       /\ call[d].pc = "queued" /\ call'[d].pc \in {"exchange", "slot"}
       /\ call[c].read # None /\ call[c].answer = "failed" /\ call[c].turn > call[d].queued
       => State(acct) # State(call[c].read)
  <1>1. ASSUME IInv, SharedInv, [Next]_vars PROVE A
    <2> SUFFICES ASSUME NEW c \in Callers, NEW d \in Callers,
                        call[d].pc = "queued", call'[d].pc \in {"exchange", "slot"},
                        Failed(call[c]), call[c].turn > call[d].queued
                 PROVE  State(acct) # State(call[c].read)
      BY DEF Failed
    <2>1. EnterAttempt(d)
      <3>1. call \in [Callers -> Caller] /\ call'[d] # call[d] BY <1>1, Unfolded
      <3>2. ~ Start(d) /\ ~ GateRefused(d) /\ ~ Gate(d) /\ ~ Background(d) /\ ~ SignOut(d)
        BY DEF Start, GateRefused, Gate, Background, SignOut
      <3>3. ~ Attempt(d)
        BY DEF Attempt, ExchangeAnswered, SlotTaken, BrowserFailed, BrowserMinted
      <3>4. ASSUME NEW answer, call' = [call EXCEPT ![d] = Done(answer)] PROVE FALSE
        BY <3>1, <3>4 DEF Done, Waiting
      <3>5. ~ EnterInactive(d) /\ ~ EnterSignOut(d) /\ ~ Cancel(d)
        BY <3>4 DEF EnterInactive, EnterSignOut, Cancel
      <3>6. ~ EnterShared(d)
        <4> SUFFICES ASSUME EnterShared(d) PROVE FALSE OBVIOUS
        <4> DEFINE told == Told(d, acct.token # None /\ round.result)
                   g == round.generation
                   q == [Done(told) EXCEPT !.shared = TRUE, !.turn = g]
        <4>1. call' = [call EXCEPT ![d] = q] BY DEF EnterShared
        <4> HIDE DEF told, g
        <4>2. q.pc = "done" BY DEF Done, Waiting
        <4> HIDE DEF q
        <4> QED BY <3>1, <4>1, <4>2
      <3> QED BY <1>1, <3>1, <3>2, <3>3, <3>5, <3>6, OwnMoves DEF Enter
    <2>2. holder = None /\ ~ Shares(d) BY <2>1 DEF EnterAttempt, MyTurn
    <2>3. /\ call[c].turn <= round.generation /\ call[c].turn \in Nat
          /\ round.generation \in Nat /\ call[d].queued \in Nat
          /\ State(call[c].read) = State(acct) => round.snapshot = State(acct)
      BY <1>1, <2>2, SharedOf DEF Lasting, Caller
    <2> QED BY <2>2, <2>3 DEF Shares
  <1>2. IInv /\ SharedInv /\ [Next]_vars => A BY <1>1
  <1> QED BY <1>2, InitShared, NextShared, Invariance, PTL DEF Spec, FailureIsShared

-----------------------------------------------------------------------------
(* The prompt                                                              *)

(* A text that is cut to a limit fills it: what is kept is all of the text *)
(* or as much as the limit allows.                                         *)
LEMMA HeadTailBounds ==
  ASSUME NEW n \in Nat, NEW limit \in Int
  PROVE  /\ HeadTail(n, limit) \in Nat
         /\ HeadTail(n, limit) <= n
         /\ limit > 0 => HeadTail(n, limit) <= limit
         /\ limit <= 0 => HeadTail(n, limit) = 0
         /\ limit > 0 => HeadTail(n, limit) = n \/ HeadTail(n, limit) = limit
  BY DEF HeadTail, Least

(* A part that was given at most the capacity of a context fits beside it, *)
(* and one that was cut leaves none.                                       *)
LEMMA PartFits ==
  ASSUME NEW c \in Nat, NEW p \in Nat, NEW n \in Nat,
         c = 0 \/ c >= Between,
         Joined(c, p) <= Budget
  PROVE  LET k == HeadTail(n, Capacity(c, p)) IN
         /\ k \in Nat
         /\ c + Piece(k) \in Nat
         /\ c + Piece(k) = 0 \/ c + Piece(k) >= Between
         /\ Joined(c + Piece(k), p) <= Budget
         /\ k # n => Capacity(c + Piece(k), p) <= 0
  <1> DEFINE limit == Capacity(c, p)
             k == HeadTail(n, limit)
  <1>1. limit \in Int
    BY BudgetAssumption DEF Capacity, Joined
  <1>2. /\ k \in Nat /\ k <= n
        /\ limit > 0 => k <= limit /\ (k = n \/ k = limit)
        /\ limit <= 0 => k = 0
    BY <1>1, HeadTailBounds
  <1> HIDE DEF k
  <1>3. CASE limit <= 0
    <2>1. k = 0 /\ Piece(k) = 0 BY <1>2, <1>3 DEF Piece
    <2> QED BY <2>1, <1>3 DEF k
  <1>4. CASE limit > 0 /\ k = 0
    <2>1. Piece(k) = 0 BY <1>4 DEF Piece
    <2>2. k = n BY <1>2, <1>4
    <2> QED BY <2>1, <2>2, <1>4 DEF k
  <1>5. CASE limit > 0 /\ k # 0
    <2>1. Piece(k) = k + Between /\ k > 0 BY <1>2, <1>5 DEF Piece
    <2>2. c + Piece(k) \in Nat /\ c + Piece(k) >= Between /\ c + Piece(k) # 0
      BY <2>1, <1>2, BudgetAssumption
    <2>3. Joined(c + Piece(k), p) = c + k + Rule + p
      BY <2>1, <2>2, <1>2, BudgetAssumption DEF Joined
    <2>4. limit = Budget - k - Rule - c - p + k
      BY BudgetAssumption, <1>2 DEF Capacity, Joined
    <2>5. c + k + Rule + p <= Budget /\ (k # n => c + k + Rule + p = Budget)
      BY <2>4, <1>2, <1>5, BudgetAssumption
    <2>6. Capacity(c + Piece(k), p) = Budget - (c + k + Rule + p) - Between
      BY <2>2, <2>3 DEF Capacity
    <2>7. k # n => Capacity(c + Piece(k), p) <= 0
      BY <2>5, <2>6, BudgetAssumption, <1>2
    <2> QED BY <2>2, <2>3, <2>5, <2>7, <1>2 DEF k
  <1> QED BY <1>1, <1>2, <1>3, <1>4, <1>5

(* What is sent of a turn whose contract was not rejected.                 *)
LEMMA FittedFits ==
  ASSUME NEW t \in TextLengths, ~ Rejected(t)
  PROVE  LET k == Fitted(t) IN
         /\ Sent(k) <= Budget
         /\ k.contract = t.contract
         /\ k.tool # 0 => k.prompt = t.prompt
         /\ k.recent # 0 => k.prompt = t.prompt /\ k.tool = t.tool
         /\ k.system # 0 => k.prompt = t.prompt /\ k.tool = t.tool /\ k.recent = t.recent
  <1> DEFINE c == Piece(t.contract)
             limit == Budget - (IF c = 0 THEN 0 ELSE t.contract + Rule)
             p == HeadTail(t.prompt, limit)
             x == HeadTail(t.tool, Capacity(c, p))
             d == c + Piece(x)
             y == HeadTail(t.recent, Capacity(d, p))
             e == d + Piece(y)
             z == HeadTail(t.system, Capacity(e, p))
             f == e + Piece(z)
  <1>1. /\ t.contract \in Nat /\ t.prompt \in Nat /\ t.tool \in Nat
        /\ t.recent \in Nat /\ t.system \in Nat
    BY BudgetAssumption DEF TextLengths
  <1>2. c \in Nat /\ (c = 0 \/ c >= Between) /\ (t.contract # 0 => c = t.contract + Between)
        /\ (t.contract = 0 => c = 0)
    BY <1>1, BudgetAssumption DEF Piece
  <1>3. limit \in Int /\ limit > 0
        /\ (t.contract # 0 /\ c # 0 => limit = Budget - t.contract - Rule)
        /\ (t.contract = 0 => limit = Budget)
    BY <1>1, <1>2, BudgetAssumption DEF Rejected
  <1>4. p \in Nat /\ p <= t.prompt /\ p <= limit /\ (p = t.prompt \/ p = limit)
    BY <1>1, <1>3, HeadTailBounds
  <1> HIDE DEF limit, p, c
  <1>5. Joined(c, p) <= Budget
    <2>1. CASE t.contract = 0
      BY <2>1, <1>2, <1>3, <1>4, BudgetAssumption DEF Joined
    <2>2. CASE t.contract # 0 /\ c # 0
      BY <2>2, <1>1, <1>2, <1>3, <1>4, BudgetAssumption DEF Joined
    <2>3. t.contract # 0 => c # 0
      BY <1>1, <1>2, BudgetAssumption
    <2> QED BY <2>1, <2>2, <2>3
  <1>6. p # t.prompt => Capacity(c, p) <= 0
    <2> SUFFICES ASSUME p = limit PROVE Capacity(c, p) <= 0
      BY <1>4
    <2>1. CASE t.contract = 0
      BY <2>1, <1>2, <1>3, <1>4, BudgetAssumption DEF Joined, Capacity
    <2>2. CASE t.contract # 0
      <3>1. c = t.contract + Between /\ c # 0
        BY <2>2, <1>1, <1>2, BudgetAssumption
      <3>2. p = Budget - t.contract - Rule
        BY <2>2, <3>1, <1>3
      <3>3. Joined(c, p) = Budget
        BY <3>1, <3>2, <1>1, <1>2, BudgetAssumption DEF Joined
      <3> QED BY <3>1, <3>3, BudgetAssumption DEF Capacity
    <2> QED BY <2>1, <2>2
  <1>7. /\ x \in Nat /\ d \in Nat /\ (d = 0 \/ d >= Between) /\ Joined(d, p) <= Budget
        /\ x # t.tool => Capacity(d, p) <= 0
    BY <1>1, <1>2, <1>4, <1>5, PartFits
  <1>8. Capacity(c, p) <= 0 => x = 0 /\ d = c
    <2>1. Capacity(c, p) \in Int
      BY <1>2, <1>4, BudgetAssumption DEF Capacity, Joined
    <2>2. Capacity(c, p) <= 0 => x = 0
      BY <2>1, <1>1, HeadTailBounds
    <2>3. x = 0 => d = c
      BY <1>2 DEF Piece
    <2> QED BY <2>2, <2>3
  <1> HIDE DEF x, d
  <1>9. /\ y \in Nat /\ e \in Nat /\ (e = 0 \/ e >= Between) /\ Joined(e, p) <= Budget
        /\ y # t.recent => Capacity(e, p) <= 0
    BY <1>1, <1>4, <1>7, PartFits
  <1>10. Capacity(d, p) <= 0 => y = 0 /\ e = d
    <2>1. Capacity(d, p) \in Int
      BY <1>7, <1>4, BudgetAssumption DEF Capacity, Joined
    <2>2. Capacity(d, p) <= 0 => y = 0
      BY <2>1, <1>1, HeadTailBounds
    <2>3. y = 0 => e = d
      BY <1>7 DEF Piece
    <2> QED BY <2>2, <2>3
  <1> HIDE DEF y, e
  <1>11. z \in Nat /\ f \in Nat /\ Joined(f, p) <= Budget
    BY <1>1, <1>4, <1>9, PartFits
  <1>12. Capacity(e, p) <= 0 => z = 0
    <2>1. Capacity(e, p) \in Int
      BY <1>9, <1>4, BudgetAssumption DEF Capacity, Joined
    <2> QED BY <2>1, <1>1, HeadTailBounds
  <1> HIDE DEF z
  <1>13. Fitted(t) = [contract |-> t.contract, system |-> z, recent |-> y, tool |-> x, prompt |-> p]
    BY DEF Fitted, c, limit, p, x, d, y, e, z
  <1>14. c + Piece(z) + Piece(y) + Piece(x) = f
    <2>1. Piece(x) \in Nat /\ Piece(y) \in Nat /\ Piece(z) \in Nat
      BY <1>7, <1>9, <1>11, BudgetAssumption DEF Piece
    <2> QED BY <2>1, <1>2 DEF d, e
  <1>15. Sent(Fitted(t)) = Joined(f, p)
    BY <1>13, <1>14 DEF Sent, c
  <1>16. Fitted(t).tool # 0 => p = t.prompt
    BY <1>13, <1>8, <1>6
  <1>17. y # 0 => p = t.prompt /\ x = t.tool
    BY <1>10, <1>7, <1>8, <1>6
  <1>18. z # 0 => p = t.prompt /\ x = t.tool /\ y = t.recent
    BY <1>12, <1>9, <1>10, <1>7, <1>8, <1>6
  <1> QED BY <1>11, <1>13, <1>15, <1>16, <1>17, <1>18

Fits == needs \in TextLengths /\ PromptFits

(* A compacted prompt fits its budget, keeps the tool contract whole, and  *)
(* gives up texts in their order, for every budget and all lengths.        *)
THEOREM CompactionFits == BudgetSpec => []PromptFits
  <1>1. BudgetInit => Fits
    BY DEF BudgetInit, Fits, PromptFits
  <1>2. Fits /\ [Compact]_promptVars => Fits'
    <2> SUFFICES ASSUME Fits, [Compact]_promptVars PROVE Fits'
      OBVIOUS
    <2>1. CASE Compact /\ fit' = "cut"
      <3>1. ~ Rejected(needs) /\ kept' = Fitted(needs) /\ needs' = needs
        BY <2>1 DEF Compact
      <3> QED BY <3>1, FittedFits DEF Fits, PromptFits, Sent
    <2>2. CASE Compact /\ fit' # "cut"
      BY <2>2 DEF Compact, Fits, PromptFits
    <2>3. CASE UNCHANGED promptVars
      BY <2>3 DEF promptVars, Fits, PromptFits, Sent
    <2> QED BY <2>1, <2>2, <2>3
  <1> QED BY <1>1, <1>2, PTL DEF BudgetSpec, Fits

-----------------------------------------------------------------------------
(* What the client is shown of one turn.                                   *)


ToldOnce == {1, 2} \X {"text", "url", "preview"} \X Nat

Reader == [opened : BOOLEAN, answered : BOOLEAN, sends : Nat, partial : Nat, delivered : BOOLEAN]

Ended == {"done", "cut", "left"} \cup Failures

TurnTypes ==
  /\ step \in {"landing", "gate", "create", "upload", "connect", "reading"} \cup Ended
  /\ mint \in {1, 2}
  /\ read \in Reader
  /\ drawing \in [at : Nat \ {0}, begun : BOOLEAN]
  /\ shown \in Seq(ToldOnce)

\* Every send is of the opening or of the challenge.
SendsMade ==
  /\ read.answered => read.opened
  /\ read.sends = (IF read.opened THEN 1 ELSE 0) + (IF read.answered THEN 1 ELSE 0)

\* The previews in hand are of the picture upstream is at.
InHand ==
  /\ drawing.begun <=> read.partial # 0
  /\ read.partial # 0 => read.partial = drawing.at
  /\ read.delivered <=> drawing.at > 1

\* The attempt shown is the one that runs, and no gate follows what is shown.
OneAttempt ==
  /\ \A i \in DOMAIN shown : shown[i][1] = mint
  /\ step = "gate" => shown = <<>>

\* Pictures are given in the order they are drawn.
OneEach ==
  /\ \A i, j \in Painted : shown[i][3] = shown[j][3] => i = j
  /\ step \notin Ended => \A i \in Painted : shown[i][3] < drawing.at

Brought ==
  /\ read.delivered => Painted # {}
  /\ step = "cut" => Painted # {}
  /\ step = "done" /\ drawing.begun => Painted # {}

TurnInv == TurnTypes /\ SendsMade /\ InHand /\ OneAttempt /\ OneEach /\ Brought

(* The invariant is enough.                                                *)
LEMMA TurnInvImplies == TurnInv => TurnShownOnce
  <1> SUFFICES ASSUME TurnInv PROVE TurnShownOnce
    OBVIOUS
  <1>1. \A i \in DOMAIN shown : shown[i][1] = shown[1][1]
    <2>1. \A i \in DOMAIN shown : 1 \in DOMAIN shown
      BY DEF TurnInv, TurnTypes
    <2> QED BY <2>1 DEF TurnInv, OneAttempt
  <1>2. \A i, j \in Painted : shown[i][3] = shown[j][3] => i = j
    BY DEF TurnInv, OneEach
  <1>3. step = "cut" => Painted # {}
    BY DEF TurnInv, Brought
  <1>4. step \in {"done", "cut"} /\ (drawing.begun \/ drawing.at > 1) => Painted # {}
    BY DEF TurnInv, Brought, InHand
  <1>5. read.sends <= IF read.answered THEN 2 ELSE 1
    BY DEF TurnInv, SendsMade
  <1> QED BY <1>1, <1>2, <1>3, <1>4, <1>5 DEF TurnShownOnce

\* What is read, with the five fields given; two of them that change at once.
ReaderOf(o, a, n, p, d) ==
  [opened |-> o, answered |-> a, sends |-> n, partial |-> p, delivered |-> d]

(* The fields of the reader.                                               *)
LEMMA ReaderFields ==
  /\ \A o, a, n, p, d :
       LET r == ReaderOf(o, a, n, p, d) IN
       r.opened = o /\ r.answered = a /\ r.sends = n /\ r.partial = p /\ r.delivered = d
  /\ \A r \in Reader :
       /\ r = ReaderOf(r.opened, r.answered, r.sends, r.partial, r.delivered)
       /\ r.opened \in BOOLEAN /\ r.answered \in BOOLEAN /\ r.sends \in Nat
       /\ r.partial \in Nat /\ r.delivered \in BOOLEAN
  /\ \A o, a, d \in BOOLEAN : \A n, p \in Nat : ReaderOf(o, a, n, p, d) \in Reader
  BY DEF ReaderOf, Reader

(* The reader after the question is sent, and after the answer to a        *)
(* challenge.                                                              *)
LEMMA ReaderUpdates ==
  ASSUME NEW r \in Reader, NEW x, NEW y
  PROVE  /\ [r EXCEPT !.opened = x, !.sends = y] = ReaderOf(x, r.answered, y, r.partial, r.delivered)
         /\ [r EXCEPT !.answered = x, !.sends = y] = ReaderOf(r.opened, x, y, r.partial, r.delivered)
  <1>1. PICK o, a, n, p, d : r = ReaderOf(o, a, n, p, d)
    BY DEF ReaderOf, Reader
  <1>2. r.opened = o /\ r.answered = a /\ r.sends = n /\ r.partial = p /\ r.delivered = d
    BY <1>1 DEF ReaderOf
  <1>3. [r EXCEPT !.opened = x, !.sends = y] = ReaderOf(x, a, y, p, d)
    <2>1. [r EXCEPT !.opened = x] = ReaderOf(x, a, n, p, d) BY <1>1 DEF ReaderOf
    <2>2. [ReaderOf(x, a, n, p, d) EXCEPT !.sends = y] = ReaderOf(x, a, y, p, d) BY DEF ReaderOf
    <2> QED BY <2>1, <2>2
  <1>4. [r EXCEPT !.answered = x, !.sends = y] = ReaderOf(o, x, y, p, d)
    <2>1. [r EXCEPT !.answered = x] = ReaderOf(o, x, n, p, d) BY <1>1 DEF ReaderOf
    <2>2. [ReaderOf(o, x, n, p, d) EXCEPT !.sends = y] = ReaderOf(o, x, y, p, d) BY DEF ReaderOf
    <2> QED BY <2>1, <2>2
  <1> QED BY <1>2, <1>3, <1>4

(* The reader after a preview.                                             *)
LEMMA ReaderPreview ==
  ASSUME NEW r \in Reader, NEW x
  PROVE  [r EXCEPT !.partial = x] = ReaderOf(r.opened, r.answered, r.sends, x, r.delivered)
  <1>1. PICK o, a, n, p, d : r = ReaderOf(o, a, n, p, d)
    BY DEF ReaderOf, Reader
  <1> QED BY <1>1 DEF ReaderOf

(* The reader after a picture is given by url.                             *)
LEMMA ReaderUrl ==
  ASSUME NEW r \in Reader, NEW y
  PROVE  [r EXCEPT !.partial = 0, !.delivered = y] = ReaderOf(r.opened, r.answered, r.sends, 0, y)
  <1>1. [r EXCEPT !.partial = 0] = ReaderOf(r.opened, r.answered, r.sends, 0, r.delivered)
    BY ReaderPreview
  <1>2. [ReaderOf(r.opened, r.answered, r.sends, 0, r.delivered) EXCEPT !.delivered = y]
          = ReaderOf(r.opened, r.answered, r.sends, 0, y)
    BY DEF ReaderOf
  <1> QED BY <1>1, <1>2

(* A step that shows nothing more.                                         *)
LEMMA Quiet ==
  ASSUME TurnInv, shown' = shown
  PROVE  Painted' = Painted /\ shown' \in Seq(ToldOnce)
  BY DEF TurnInv, TurnTypes, Painted

(* What is shown is at the end of what was shown, and nothing before it    *)
(* changes.                                                                *)
LEMMA Shown ==
  ASSUME TurnInv, NEW kind \in {"text", "url", "preview"}, NEW n \in Nat,
         shown' = Shows(kind, n)
  PROVE  /\ shown' \in Seq(ToldOnce)
         /\ Len(shown) \in Nat /\ DOMAIN shown = 1 .. Len(shown)
         /\ DOMAIN shown' = 1 .. (Len(shown) + 1)
         /\ \A i \in DOMAIN shown : shown'[i] = shown[i]
         /\ shown'[Len(shown) + 1] = <<mint, kind, n>>
         /\ Painted' = IF kind = "text" THEN Painted ELSE Painted \cup {Len(shown) + 1}
         /\ Painted \subseteq DOMAIN shown
  <1> DEFINE e == <<mint, kind, n>>
             m == Len(shown)
  <1>1. shown \in Seq(ToldOnce) /\ mint \in {1, 2} BY DEF TurnInv, TurnTypes
  <1>2. e \in ToldOnce /\ e[2] = kind BY <1>1 DEF ToldOnce
  <1>3. shown' = Append(shown, e) BY DEF Shows
  <1> HIDE DEF e
  <1>4. /\ shown' \in Seq(ToldOnce) /\ m \in Nat /\ DOMAIN shown = 1 .. m
        /\ DOMAIN shown' = 1 .. (m + 1)
        /\ \A i \in DOMAIN shown : shown'[i] = shown[i]
        /\ shown'[m + 1] = e
    BY <1>1, <1>2, <1>3
  <1> HIDE DEF m
  <1>5. Painted' = IF kind = "text" THEN Painted ELSE Painted \cup {m + 1}
    BY <1>2, <1>4 DEF Painted
  <1>6. Painted \subseteq DOMAIN shown BY DEF Painted
  <1> QED BY <1>4, <1>5, <1>6 DEF e, m

(* A step that only takes the turn further, or ends it.                    *)
LEMMA GoesStep ==
  ASSUME TurnInv, NEW to, GoesTo(to), step \notin Ended,
         to \in {"landing", "gate", "create", "upload", "connect", "reading"} \cup Ended,
         to = "gate" => shown = <<>>,
         to = "cut" => read.delivered,
         to # "done"
  PROVE  TurnInv'
  <1>1. step' = to /\ mint' = mint /\ read' = read /\ drawing' = drawing /\ shown' = shown
    BY DEF GoesTo
  <1>2. Painted' = Painted BY <1>1, Quiet
  <1>3. TurnTypes' BY <1>1 DEF TurnInv, TurnTypes
  <1>4. SendsMade' /\ InHand' BY <1>1 DEF TurnInv, SendsMade, InHand
  <1>5. OneAttempt' BY <1>1 DEF TurnInv, OneAttempt
  <1>6. OneEach' BY <1>1, <1>2 DEF TurnInv, OneEach
  <1>7. Brought' BY <1>1, <1>2 DEF TurnInv, Brought
  <1> QED BY <1>3, <1>4, <1>5, <1>6, <1>7 DEF TurnInv

(* A challenge sends the turn to the gate, once and before anything is     *)
(* shown, or ends it.                                                      *)
LEMMA ChallengedStep ==
  ASSUME TurnInv, Challenged, step \notin Ended
  PROVE  TurnInv'
  <1>1. CASE shown # <<>> \/ mint = 2 \/ ~ asked.gate
    BY <1>1, GoesStep DEF Challenged, Ended, Failures
  <1>2. CASE ~ (shown # <<>> \/ mint = 2 \/ ~ asked.gate)
    BY <1>2, GoesStep DEF Challenged, Ended, Failures
  <1> QED BY <1>1, <1>2

(* A step of the reader or of upstream that shows nothing.                 *)
LEMMA ReadStep ==
  ASSUME TurnInv, step \notin Ended, UNCHANGED <<step, mint, shown>>,
         TurnTypes', SendsMade', InHand',
         drawing'.at = drawing.at, read'.delivered = read.delivered
  PROVE  TurnInv'
  <1>1. Painted' = Painted BY Quiet
  <1>2. OneAttempt' BY DEF TurnInv, OneAttempt
  <1>3. OneEach' BY <1>1 DEF TurnInv, OneEach
  <1>4. Brought' BY <1>1 DEF TurnInv, Brought, Ended
  <1> QED BY <1>2, <1>3, <1>4 DEF TurnInv

(* A piece of text is shown, unless it is empty.                           *)
LEMMA TextStep ==
  ASSUME TurnInv, NEW empty \in BOOLEAN, AppendText(empty)
  PROVE  TurnInv'
  <1>1. step = "reading" /\ UNCHANGED <<step, mint, read, drawing>>
    BY DEF AppendText, Replies, Reads
  <1>2. SendsMade' /\ InHand' BY <1>1 DEF TurnInv, SendsMade, InHand
  <1>3. CASE shown' = shown
    <2>1. TurnTypes' BY <1>1, <1>3 DEF TurnInv, TurnTypes
    <2> QED BY <1>1, <1>2, <1>3, <2>1, ReadStep DEF Ended, Failures
  <1>4. CASE shown' = Shows("text", 0)
    <2>1. /\ shown' \in Seq(ToldOnce)
          /\ DOMAIN shown' = 1 .. (Len(shown) + 1) /\ DOMAIN shown = 1 .. Len(shown)
          /\ Len(shown) \in Nat
          /\ \A i \in DOMAIN shown : shown'[i] = shown[i]
          /\ shown'[Len(shown) + 1] = <<mint, "text", 0>>
          /\ Painted' = Painted /\ Painted \subseteq DOMAIN shown
      BY <1>4, Shown
    <2>2. TurnTypes' BY <1>1, <2>1 DEF TurnInv, TurnTypes
    <2>3. OneAttempt' BY <1>1, <2>1 DEF TurnInv, OneAttempt
    <2>4. OneEach' BY <1>1, <2>1 DEF TurnInv, OneEach
    <2>5. Brought' BY <1>1, <2>1 DEF TurnInv, Brought
    <2> QED BY <1>2, <2>2, <2>3, <2>4, <2>5 DEF TurnInv
  <1> QED BY <1>3, <1>4 DEF AppendText

(* A picture is given by url, and is the next one after those given.       *)
LEMMA UrlStep ==
  ASSUME TurnInv, ImageGenerated
  PROVE  TurnInv'
  <1>1. step = "reading" /\ UNCHANGED <<step, mint>>
    BY DEF ImageGenerated, Replies, Reads
  <1>2. read' = [read EXCEPT !.partial = 0, !.delivered = TRUE]
    BY DEF ImageGenerated, Superseded
  <1>3. drawing' = [at |-> drawing.at + 1, begun |-> FALSE] /\ shown' = Shows("url", drawing.at)
    BY DEF ImageGenerated
  <1>4. drawing.at \in Nat \ {0} BY DEF TurnInv, TurnTypes
  <1>5. /\ shown' \in Seq(ToldOnce)
        /\ DOMAIN shown' = 1 .. (Len(shown) + 1) /\ DOMAIN shown = 1 .. Len(shown)
        /\ Len(shown) \in Nat
        /\ \A i \in DOMAIN shown : shown'[i] = shown[i]
        /\ shown'[Len(shown) + 1] = <<mint, "url", drawing.at>>
        /\ Painted' = Painted \cup {Len(shown) + 1} /\ Painted \subseteq DOMAIN shown
    BY <1>3, <1>4, Shown
  <1>6. TurnTypes' /\ SendsMade' /\ InHand'
    <2>1. read \in Reader BY DEF TurnInv, TurnTypes
    <2>2. read' = ReaderOf(read.opened, read.answered, read.sends, 0, TRUE)
      <3>1. [read EXCEPT !.partial = 0, !.delivered = TRUE]
              = ReaderOf(read.opened, read.answered, read.sends, 0, TRUE)
        BY <2>1, ReaderUrl, Zenon
      <3> QED BY <1>2, <3>1, Zenon
    <2>3. /\ read'.opened = read.opened /\ read'.answered = read.answered
          /\ read'.sends = read.sends /\ read'.partial = 0 /\ read'.delivered = TRUE
      BY <2>2 DEF ReaderOf
    <2>4. read' \in Reader BY <2>1, <2>2, ReaderFields
    <2>5. drawing' \in [at : Nat \ {0}, begun : BOOLEAN] /\ drawing'.at > 1 /\ drawing'.begun = FALSE
      BY <1>3, <1>4
    <2>6. TurnTypes' BY <1>1, <1>5, <2>4, <2>5 DEF TurnInv, TurnTypes
    <2>7. SendsMade' BY <2>3 DEF TurnInv, SendsMade
    <2>8. InHand' BY <2>3, <2>5 DEF InHand
    <2> QED BY <2>6, <2>7, <2>8
  <1>9. OneAttempt' BY <1>1, <1>5 DEF TurnInv, OneAttempt
  <1>10. OneEach'
    <2>1. \A i \in Painted : shown[i][3] < drawing.at /\ shown[i][3] \in Nat
      BY <1>1, <1>5 DEF TurnInv, OneEach, TurnTypes, ToldOnce, Ended, Failures
    <2>2. \A i \in Painted : shown'[i] = shown[i] /\ i # Len(shown) + 1 BY <1>5
    <2>3. shown'[Len(shown) + 1][3] = drawing.at BY <1>5
    <2>4. \A i, j \in Painted' : shown'[i][3] = shown'[j][3] => i = j
      BY <1>4, <1>5, <2>1, <2>2, <2>3 DEF TurnInv, OneEach
    <2>5. \A i \in Painted' : shown'[i][3] < drawing'.at
      BY <1>3, <1>4, <1>5, <2>1, <2>2, <2>3
    <2> QED BY <2>4, <2>5 DEF OneEach
  <1>11. Brought' BY <1>1, <1>5 DEF TurnInv, Brought
  <1> QED BY <1>6, <1>9, <1>10, <1>11 DEF TurnInv

(* The stream ends: the preview in hand, if any, is given.                 *)
LEMMA EndStep ==
  ASSUME TurnInv, step = "reading", NEW how \in {"done", "cut"}, EndsWith(how),
         how = "cut" => read.partial # 0
  PROVE  TurnInv'
  <1>1. step' = how /\ UNCHANGED <<mint, read, drawing>> BY DEF EndsWith
  <1>2. SendsMade' /\ InHand' BY <1>1 DEF TurnInv, SendsMade, InHand
  <1>3. CASE read.partial = 0
    <2>1. shown' = shown /\ Painted' = Painted BY <1>3, Quiet DEF EndsWith
    <2>2. TurnTypes' BY <1>1, <2>1 DEF TurnInv, TurnTypes, Ended
    <2>3. OneAttempt' BY <1>1, <2>1 DEF TurnInv, OneAttempt
    <2>4. OneEach' BY <1>1, <2>1 DEF TurnInv, OneEach, Ended
    <2>5. Brought' BY <1>1, <1>3, <2>1 DEF TurnInv, Brought, InHand
    <2> QED BY <1>2, <2>2, <2>3, <2>4, <2>5 DEF TurnInv
  <1>4. CASE read.partial # 0
    <2>1. read.partial = drawing.at /\ read.partial \in Nat /\ drawing.at \in Nat
      BY <1>4 DEF TurnInv, InHand, TurnTypes
    <2>2. /\ shown' \in Seq(ToldOnce)
          /\ DOMAIN shown' = 1 .. (Len(shown) + 1) /\ DOMAIN shown = 1 .. Len(shown)
          /\ Len(shown) \in Nat
          /\ \A i \in DOMAIN shown : shown'[i] = shown[i]
          /\ shown'[Len(shown) + 1] = <<mint, "preview", drawing.at>>
          /\ Painted' = Painted \cup {Len(shown) + 1} /\ Painted \subseteq DOMAIN shown
      BY <1>4, <2>1, Shown DEF EndsWith
    <2>3. TurnTypes' BY <1>1, <2>2 DEF TurnInv, TurnTypes, Ended
    <2>4. OneAttempt' BY <1>1, <2>2 DEF TurnInv, OneAttempt
    <2>5. OneEach'
      <3>1. \A i \in Painted : shown[i][3] < drawing.at /\ shown[i][3] \in Nat
        BY <2>2 DEF TurnInv, OneEach, TurnTypes, ToldOnce, Ended, Failures
      <3>2. \A i \in Painted : shown'[i] = shown[i] /\ i # Len(shown) + 1 BY <2>2
      <3> QED BY <1>1, <2>1, <2>2, <3>1, <3>2 DEF TurnInv, OneEach, Ended
    <2>6. Brought' BY <1>1, <2>2 DEF TurnInv, Brought
    <2> QED BY <1>2, <2>3, <2>4, <2>5, <2>6 DEF TurnInv
  <1> QED BY <1>3, <1>4

(* The gate opens, and the turn starts over with nothing shown.            *)
LEMMA GateStep ==
  ASSUME TurnInv, GateOpens
  PROVE  TurnInv'
  <1>1. shown = <<>> /\ shown' = shown /\ step' = "landing" /\ mint' = 2
    BY DEF GateOpens, TurnInv, OneAttempt
  <1>2. /\ read' = [opened |-> FALSE, answered |-> FALSE, sends |-> 0, partial |-> 0,
                    delivered |-> FALSE]
        /\ drawing' = [at |-> 1, begun |-> FALSE]
        /\ read' \in Reader /\ drawing' \in [at : Nat \ {0}, begun : BOOLEAN]
    BY DEF GateOpens, Unread, NothingDrawn, Reader
  <1>3. Painted' = {} BY <1>1 DEF Painted
  <1>4. TurnTypes' BY <1>1, <1>2 DEF TurnTypes, TurnInv
  <1>5. SendsMade' /\ InHand' BY <1>2 DEF SendsMade, InHand
  <1>6. OneAttempt' BY <1>1 DEF OneAttempt
  <1>7. OneEach' /\ Brought' BY <1>1, <1>2, <1>3 DEF OneEach, Brought
  <1> QED BY <1>4, <1>5, <1>6, <1>7 DEF TurnInv

(* Every step keeps the invariant.                                         *)
LEMMA TurnStep ==
  ASSUME TurnInv, [ConsumerNext]_turnVars
  PROVE  TurnInv'
  <1> USE DEF Ended, Failures, Transport, Reads, Replies
  <1>1. CASE GateOpens BY <1>1, GateStep
  <1>2. CASE GateFails BY <1>2, GoesStep DEF GateFails
  <1>3. CASE Land BY <1>3, GoesStep DEF Land
  <1>4. CASE CreateConversation
    BY <1>4, GoesStep, ChallengedStep DEF CreateConversation
  <1>5. CASE UploadImage
    <2>1. CASE Challenged BY <1>5, <2>1, ChallengedStep DEF UploadImage
    <2>2. CASE UNCHANGED <<asked, step, mint, read, drawing, shown>>
      <3>1. TurnTypes' /\ SendsMade' /\ InHand'
        BY <2>2 DEF TurnInv, TurnTypes, SendsMade, InHand
      <3> QED BY <1>5, <2>2, <3>1, ReadStep DEF UploadImage
    <2> QED BY <1>5, <2>1, <2>2 DEF UploadImage
  <1>6. CASE Compose BY <1>6, GoesStep DEF Compose
  <1>7. CASE Connect BY <1>7, GoesStep DEF Connect
  <1>8. CASE Opening
    <2>1. read' = IF read.opened THEN read ELSE [read EXCEPT !.opened = TRUE, !.sends = 1]
      BY <1>8 DEF Opening, Connected
    <2>2. step = "reading" /\ UNCHANGED <<step, mint, drawing, shown>>
      BY <1>8 DEF Opening, Connected
    <2>3. read \in Reader
      BY DEF TurnInv, TurnTypes
    <2>4. /\ read' \in Reader
          /\ read'.partial = read.partial /\ read'.delivered = read.delivered
          /\ SendsMade'
      <3>1. CASE read.opened
        BY <2>1, <2>3, <3>1 DEF TurnInv, SendsMade
      <3>2. CASE ~read.opened
        <4>1. read' = ReaderOf(TRUE, read.answered, 1, read.partial, read.delivered)
          BY <2>1, <2>3, <3>2, ReaderUpdates, Zenon
        <4>2. /\ read'.opened = TRUE /\ read'.answered = read.answered /\ read'.sends = 1
              /\ read'.partial = read.partial /\ read'.delivered = read.delivered
          BY <4>1 DEF ReaderOf
        <4>3. read' \in Reader
          BY <2>3, <4>1, ReaderFields
        <4>4. read.answered = FALSE
          BY <2>3, <3>2, ReaderFields DEF TurnInv, SendsMade
        <4> QED BY <4>2, <4>3, <4>4 DEF SendsMade
      <3> QED BY <3>1, <3>2
    <2>5. TurnTypes' /\ InHand' BY <2>2, <2>4 DEF TurnInv, TurnTypes, InHand
    <2> QED BY <2>2, <2>4, <2>5, ReadStep
  <1>9. ASSUME NEW empty \in BOOLEAN, AppendText(empty) PROVE TurnInv'
    BY <1>9, TextStep
  <1>10. CASE PartialImageGenerated
    <2>1. read' = [read EXCEPT !.partial = drawing.at] /\ drawing' = [drawing EXCEPT !.begun = TRUE]
      BY <1>10 DEF PartialImageGenerated
    <2>2. step = "reading" /\ UNCHANGED <<step, mint, shown>>
      BY <1>10 DEF PartialImageGenerated
    <2>3. /\ read \in Reader
          /\ drawing \in [at : Nat \ {0}, begun : BOOLEAN]
      BY DEF TurnInv, TurnTypes
    <2>4. /\ read' \in Reader
          /\ drawing' \in [at : Nat \ {0}, begun : BOOLEAN]
          /\ drawing'.at = drawing.at /\ drawing'.begun = TRUE
          /\ read'.partial = drawing.at /\ read'.delivered = read.delivered
          /\ SendsMade'
      <3>1. read' = ReaderOf(read.opened, read.answered, read.sends, drawing.at, read.delivered)
        BY <2>1, <2>3, ReaderPreview, Zenon
      <3>2. /\ read'.opened = read.opened /\ read'.answered = read.answered
            /\ read'.sends = read.sends
            /\ read'.partial = drawing.at /\ read'.delivered = read.delivered
        BY <3>1 DEF ReaderOf
      <3>3. drawing.at \in Nat \ {0} BY <2>3
      <3>4. read' \in Reader
        BY <2>3, <3>1, <3>3, ReaderFields
      <3>5. SendsMade' BY <3>2 DEF TurnInv, SendsMade
      <3>6. /\ drawing' \in [at : Nat \ {0}, begun : BOOLEAN]
            /\ drawing'.at = drawing.at /\ drawing'.begun = TRUE
        BY <2>1, <2>3
      <3> QED BY <3>2, <3>4, <3>5, <3>6
    <2>5. TurnTypes' BY <2>2, <2>4 DEF TurnInv, TurnTypes
    <2>6. InHand' BY <2>3, <2>4 DEF TurnInv, InHand
    <2> QED BY <2>2, <2>4, <2>5, <2>6, ReadStep
  <1>11. CASE ImageGenerated BY <1>11, UrlStep
  <1>12. ASSUME NEW kind \in {"puzzle", "unknown", "unsafe"}, Challenge(kind) PROVE TurnInv'
    <2>1. CASE kind = "unsafe" BY <1>12, <2>1, ChallengedStep DEF Challenge
    <2>2. CASE kind = "unknown" BY <1>12, <2>2, GoesStep DEF Challenge
    <2>3. CASE kind = "puzzle"
      <3>1. /\ step = "reading" /\ UNCHANGED <<step, mint, drawing, shown>> /\ read.sends > 0
            /\ read' = IF read.answered THEN read
                       ELSE [read EXCEPT !.answered = TRUE, !.sends = @ + 1]
        BY <1>12, <2>3 DEF Challenge
      <3>2. read \in Reader
        BY DEF TurnInv, TurnTypes
      <3>3. /\ read' \in Reader
            /\ read'.partial = read.partial /\ read'.delivered = read.delivered
            /\ SendsMade'
        <4>1. CASE read.answered
          BY <3>1, <3>2, <4>1 DEF TurnInv, SendsMade
        <4>2. CASE ~read.answered
          <5>1. read' = ReaderOf(read.opened, TRUE, read.sends + 1, read.partial, read.delivered)
            <6>1. read' = [read EXCEPT !.answered = TRUE, !.sends = read.sends + 1]
              BY <3>1, <4>2
            <6>2. [read EXCEPT !.answered = TRUE, !.sends = read.sends + 1]
                    = ReaderOf(read.opened, TRUE, read.sends + 1, read.partial, read.delivered)
              BY <3>2, ReaderUpdates, Zenon
            <6> QED BY <6>1, <6>2
          <5>2. /\ read'.opened = read.opened /\ read'.answered = TRUE
                /\ read'.sends = read.sends + 1
                /\ read'.partial = read.partial /\ read'.delivered = read.delivered
            BY <5>1 DEF ReaderOf
          <5>3. read' \in Reader
            <6>1. read.sends + 1 \in Nat BY <3>2 DEF Reader
            <6> QED BY <3>2, <5>1, <6>1, ReaderFields
          <5>4. read.opened /\ read.sends = 1
            BY <3>1, <4>2 DEF TurnInv, SendsMade
          <5> QED BY <5>2, <5>3, <5>4 DEF SendsMade
        <4> QED BY <4>1, <4>2
      <3>4. TurnTypes' /\ InHand' BY <3>1, <3>3 DEF TurnInv, TurnTypes, InHand
      <3> QED BY <3>1, <3>3, <3>4, ReadStep
    <2> QED BY <2>1, <2>2, <2>3
  <1>13. CASE ErrorFrame BY <1>13, GoesStep DEF ErrorFrame
  <1>14. CASE SaysDone BY <1>14, EndStep DEF SaysDone
  <1>15. CASE SocketEnds
    <2>1. CASE read.delivered BY <1>15, <2>1, GoesStep DEF SocketEnds
    <2>2. CASE ~read.delivered /\ read.partial # 0 BY <1>15, <2>2, EndStep DEF SocketEnds
    <2>3. CASE ~read.delivered /\ read.partial = 0 BY <1>15, <2>3, GoesStep DEF SocketEnds
    <2> QED BY <2>1, <2>2, <2>3
  <1>16. CASE Leaves BY <1>16, GoesStep DEF Leaves
  <1>17. CASE UNCHANGED turnVars
    <2>1. Painted' = Painted BY <1>17, Quiet DEF turnVars
    <2>2. TurnTypes' /\ SendsMade' /\ InHand' BY <1>17 DEF turnVars, TurnInv, TurnTypes, SendsMade, InHand
    <2>3. OneAttempt' /\ OneEach' /\ Brought'
      BY <1>17, <2>1 DEF turnVars, TurnInv, OneAttempt, OneEach, Brought
    <2> QED BY <2>2, <2>3 DEF TurnInv
  <1> QED BY <1>1, <1>2, <1>3, <1>4, <1>5, <1>6, <1>7, <1>8, <1>9, <1>10, <1>11, <1>12, <1>13,
             <1>14, <1>15, <1>16, <1>17 DEF ConsumerNext

(* For any attachments, pictures and texts: what the client sees is one    *)
(* attempt's and no picture is given twice; a turn that ends well brought  *)
(* a picture if upstream had begun one; and the question was sent once,    *)
(* and once more for a challenge.                                          *)
THEOREM ShownOnce == ConsumerSpec => []TurnShownOnce
  <1>1. ConsumerInit => TurnInv
    <2> SUFFICES ASSUME ConsumerInit PROVE TurnInv OBVIOUS
    <2>1. /\ step = "landing" /\ mint = 1 /\ shown = <<>>
          /\ read = [opened |-> FALSE, answered |-> FALSE, sends |-> 0, partial |-> 0, delivered |-> FALSE]
          /\ drawing = [at |-> 1, begun |-> FALSE]
          /\ read \in Reader /\ drawing \in [at : Nat \ {0}, begun : BOOLEAN]
      BY DEF ConsumerInit, Unread, NothingDrawn, Reader
    <2>2. Painted = {} BY <2>1 DEF Painted
    <2>3. TurnTypes BY <2>1 DEF TurnTypes
    <2>4. SendsMade /\ InHand BY <2>1 DEF SendsMade, InHand
    <2>5. OneAttempt /\ OneEach /\ Brought BY <2>1, <2>2 DEF OneAttempt, OneEach, Brought
    <2> QED BY <2>3, <2>4, <2>5 DEF TurnInv
  <1>2. TurnInv /\ [ConsumerNext]_turnVars => TurnInv'
    BY TurnStep
  <1> QED BY <1>1, <1>2, TurnInvImplies, PTL DEF ConsumerSpec

===============================================================================
