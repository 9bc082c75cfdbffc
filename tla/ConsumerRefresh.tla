--------------------------- MODULE ConsumerRefresh ---------------------------
(***************************************************************************)
(* Renewal of one consumer account's credential: refresh_consumer in       *)
(* refresh_scheduler.py, the token exchange of consumer_refresh_via_rt.py, *)
(* the account_store.py operations they end with, and the mid-request gate *)
(* of dependencies.py.                                                     *)
(*                                                                         *)
(* Callers (requests whose token was refused, keepalive, the refresh after *)
(* a push, admin buttons, logout, removal) queue for the account's lock.   *)
(* Pushes and protocol switches do not take it: they land while a renewal  *)
(* waits for the network or the browser.                                   *)
(*                                                                         *)
(* The account's lock is an asyncio.Lock (FIFO); so is the browser slot,   *)
(* which the refreshes of other accounts also use.  A credential is the    *)
(* time it was stored and the Microsoft subject it belongs to.             *)
(***************************************************************************)
EXTENDS Common, Integers, Sequences

CONSTANTS Callers, Subjects, Others,
          MaxDecisions  \* bound: what users do to the credential

ASSUME CallersAssumption == None \notin Callers /\ Others \notin Callers \cup {None}
ASSUME SubjectsAssumption == None \notin Subjects /\ Subjects # {}
ASSUME NoneAssumption == None \notin [at : Nat, subject : Subjects]
ASSUME DecisionsAssumption == MaxDecisions \in Nat

VARIABLES
  acct,   \* the account
  round,  \* the scheduler's generation, result and snapshot of the account
  line,   \* callers queued for the account's lock
  holder, \* the caller that holds it, or None
  slot,   \* who holds the browser slot: a caller, Others or None
  call,   \* each caller's progress
  clock,  \* stored credentials so far: consumer_updated_at takes this value
  decided \* pushes, switches and logouts so far

vars == <<acct, round, line, holder, slot, call, clock, decided>>

locks == <<line, holder, slot>>
-----------------------------------------------------------------------------
(* The account *)

Signed(time, subject) == [at |-> time, subject |-> subject]

SignedOut(epoch) ==
  [token |-> None, stamp |-> 0, subject |-> None, rt |-> None, paused |-> FALSE,
   provider |-> "m365", epoch |-> epoch, present |-> TRUE]

\* A row of an older version: tokens of some owner, but no pinned subject.
Legacy(owner) ==
  [SignedOut(0) EXCEPT !.token = Signed(0, owner), !.rt = Signed(0, owner),
                       !.provider = "consumer"]

Consumer(a) == a.present /\ a.provider = "consumer"

\* is_protocol_current(acc_id, epoch, "consumer")
IsCurrent(a, epoch) == Consumer(a) /\ a.epoch = epoch

\* _consumer_credential_state: everything a renewal reads but the pause.
State(a) == <<a.token, a.stamp, a.subject, a.rt, a.epoch>>

Fresh(a, with) ==
  [a EXCEPT !.token = Signed(clock + 1, with), !.stamp = clock + 1]

WithGrant(a, with) ==
  [a EXCEPT !.rt = Signed(clock + 1, with), !.paused = FALSE]

\* Mutant: the exchange overwrites whatever is stored by now.
ApplyExchange_Unchecked(a, read, rotated) ==
  IF rotated THEN WithGrant(Fresh(a, read.rt.subject), read.rt.subject)
  ELSE [Fresh(a, read.rt.subject) EXCEPT !.paused = FALSE]

\* apply_consumer_refresh_result: the account if newer credentials won.
ApplyExchange(a, read, rotated) ==
  IF ~ /\ IsCurrent(a, read.epoch)
       /\ a.rt = read.rt
       /\ a.token = read.token
  THEN a
  ELSE IF rotated THEN WithGrant(Fresh(a, read.rt.subject), read.rt.subject)
       ELSE [Fresh(a, read.rt.subject) EXCEPT !.paused = FALSE]

\* set_consumer_auth with expected_snapshot and expected_epoch
ApplyGate(a, read, grant) ==
  IF ~ /\ IsCurrent(a, read.epoch)
       /\ a.stamp = read.stamp
       /\ a.token = read.token
       /\ a.subject = read.subject
  THEN a
  ELSE IF grant THEN WithGrant(Fresh(a, read.subject), read.subject)
       ELSE Fresh(a, read.subject)

\* defer_consumer_refresh_token: back off, unless a newer grant is stored.
Defer(a, read) ==
  IF a.rt = read.rt THEN [a EXCEPT !.paused = TRUE] ELSE a

\* set_consumer_refresh_token(..., "", expected_refresh_token=rt)
Discard(a, read) ==
  IF a.rt = read.rt THEN [a EXCEPT !.rt = None, !.paused = FALSE] ELSE a

-----------------------------------------------------------------------------
(* Callers.  kind says what the caller wants under the lock; epoch is the  *)
(* request's, None for background work.  before is the credential when it  *)
(* queued, and owner the subject of the token a request started with.      *)

Waiting == [pc |-> "idle", kind |-> "refresh", epoch |-> None, owner |-> None,
            queued |-> 0, before |-> 0, read |-> None, turn |-> 0,
            shared |-> FALSE, answer |-> "none"]

\* A caller that got its answer keeps what the properties look at.
Done(answer) == [Waiting EXCEPT !.pc = "done", !.answer = answer]

Init ==
  /\ acct \in {SignedOut(0)} \cup {Legacy(s) : s \in Subjects}
  /\ round = [generation |-> 0, result |-> FALSE, snapshot |-> None]
  /\ line = <<>> /\ holder = None /\ slot = None
  /\ call = [c \in Callers |-> Waiting]
  /\ clock = 0 /\ decided = 0

Decides == decided < MaxDecisions /\ decided' = decided + 1

\* POST /user/account/consumer: the pinned subject cannot change; the token
\* may be the stored one again, and a push may come without a grant.
Push(subject, again, grant, activate) ==
  LET switch == activate /\ acct.provider # "consumer"
      rebind == acct.subject # subject /\ acct.token # None
      pushed == [acct EXCEPT
        !.token = IF again THEN @ ELSE Signed(clock + 1, subject),
        !.stamp = clock + 1,
        !.subject = subject,
        !.provider = IF activate THEN "consumer" ELSE @,
        !.epoch = @ + (IF rebind THEN 1 ELSE 0) + (IF switch THEN 1 ELSE 0)]
  IN
  /\ acct.present
  /\ acct.subject \in {None, subject}
  /\ again => acct.token # None /\ acct.token.subject = subject
  /\ Decides
  /\ acct' = IF grant THEN WithGrant(pushed, subject) ELSE pushed
  /\ clock' = clock + 1
  /\ UNCHANGED <<round, locks, call>>

\* POST /user/account/protocol.  The Substrate slot is not modelled: it is
\* always there to switch to.
Activate(provider) ==
  /\ acct.present /\ acct.provider # provider
  /\ provider = "consumer" => acct.token # None /\ acct.subject # None
  /\ Decides
  /\ acct' = [acct EXCEPT !.provider = provider, !.epoch = @ + 1]
  /\ UNCHANGED <<round, locks, call, clock>>

\* consumer_refresh_token_retry_after passes.
PauseEnds ==
  /\ acct.paused
  /\ acct' = [acct EXCEPT !.paused = FALSE]
  /\ UNCHANGED <<round, locks, call, clock, decided>>

\* A request starts with the stored token, on its account's snapshot.
Start(c) ==
  /\ call[c].pc = "idle" /\ Consumer(acct)
  /\ call' = [call EXCEPT ![c].pc = "turn", ![c].epoch = acct.epoch,
                          ![c].owner = acct.token.subject]
  /\ UNCHANGED <<acct, round, locks, clock, decided>>

Age(a) == IF a.token = None THEN 0 ELSE a.token.at

Arrive(c, kind) ==
  /\ call' = [call EXCEPT ![c].pc = "queued", ![c].kind = kind,
                          ![c].queued = round.generation, ![c].before = Age(acct)]
  /\ line' = Append(line, c)
  /\ UNCHANGED <<acct, round, holder, slot, clock, decided>>

Background(c) == call[c].pc = "idle" /\ acct.present /\ Arrive(c, "refresh")

\* clear_account_credentials and remove_account
SignOut(c) ==
  call[c].pc = "idle" /\ acct.present /\ \E k \in {"clear", "remove"} : Arrive(c, k)

\* The upstream demands clearance: the turn's gate asks for a renewal.
Gate(c) ==
  /\ call[c].pc = "turn"
  /\ IsCurrent(acct, call[c].epoch)
  /\ Arrive(c, "refresh")

GateRefused(c) ==
  /\ call[c].pc = "turn"
  /\ ~ IsCurrent(acct, call[c].epoch)
  /\ call' = [call EXCEPT ![c] = Done("refused")]
  /\ UNCHANGED <<acct, round, locks, clock, decided>>

-----------------------------------------------------------------------------
(* Under the account's lock *)

\* Mutant: the gate does not look at the protocol again after the renewal.
Told_Unchecked(c, ok) == IF ok THEN "renewed" ELSE "failed"

\* What the caller makes of the result: a request takes the credential that
\* is stored now, if its protocol is still current.
Told(c, ok) ==
  IF ~ ok THEN "failed"
  ELSE IF call[c].epoch = None \/ IsCurrent(acct', call[c].epoch) THEN "renewed"
  ELSE "refused"

\* Mutant: a path out of the attempt that keeps the browser slot.
LetGo_KeepsSlot(c) == holder' = None /\ UNCHANGED slot

LetGo(c) == holder' = None /\ slot' = IF slot = c THEN None ELSE slot

\* The finally clause of refresh_consumer.
Conclude(c, q, ok, answer, snapshot) ==
  /\ call' = [call EXCEPT ![c] = [Done(answer) EXCEPT
       !.turn = q.turn, !.read = IF answer = "failed" THEN q.read ELSE None]]
  /\ round' = [generation |-> round.generation + 1, result |-> ok, snapshot |-> snapshot]
  /\ LetGo(c)

\* Mutant: the snapshot stays the one the grant was tried with.
Rebound_Not(a) == round

\* "Bind a fallback failure to the input actually used by the gate."
Rebound(a) == [round EXCEPT !.snapshot = State(a)]

\* The grant did not renew the token: the account, as it is by now, goes to
\* the browser gate, which needs a pinned subject.
FallBack(c, q) ==
  \/ /\ ~ Consumer(acct')
     /\ Conclude(c, q, FALSE, "failed", round.snapshot)
  \/ /\ Consumer(acct') /\ acct'.subject = None
     /\ Conclude(c, q, FALSE, "failed", State(acct'))
  \/ /\ Consumer(acct') /\ acct'.subject # None
     /\ round' = Rebound(acct')
     /\ call' = [call EXCEPT ![c] = [q EXCEPT !.pc = "slot", !.read = acct']]
     /\ holder' = c
     /\ UNCHANGED slot

MyTurn(c) ==
  /\ call[c].pc = "queued" /\ holder = None
  /\ line # <<>> /\ Head(line) = c
  /\ line' = Tail(line)
  /\ UNCHANGED clock

\* Mutant: the generation a caller queued in is not compared.
Shares_AnyRound(c) == State(acct) = round.snapshot

\* Another caller completed an attempt with this input while c queued.
Shares(c) == round.generation # call[c].queued /\ State(acct) = round.snapshot

EnterInactive(c) ==
  /\ MyTurn(c) /\ call[c].kind = "refresh" /\ ~ Consumer(acct)
  /\ call' = [call EXCEPT ![c] = Done("failed")]
  /\ UNCHANGED <<acct, round, holder, slot, decided>>

EnterShared(c) ==
  /\ MyTurn(c) /\ call[c].kind = "refresh" /\ Consumer(acct) /\ Shares(c)
  /\ UNCHANGED <<acct, round, holder, slot, decided>>
  /\ call' = [call EXCEPT ![c] =
       [Done(Told(c, acct.token # None /\ round.result))
          EXCEPT !.shared = TRUE, !.turn = round.generation]]

\* The grant can be tried: stored, not paused, the subject pinned.
HasGrant(a) == a.rt # None /\ ~ a.paused /\ a.subject # None

\* A new attempt: the grant over HTTP first, the browser without one.
EnterAttempt(c) ==
  LET q == [call[c] EXCEPT !.read = acct, !.turn = round.generation + 1] IN
  /\ MyTurn(c) /\ call[c].kind = "refresh" /\ Consumer(acct) /\ ~ Shares(c)
  /\ UNCHANGED <<acct, decided>>
  /\ \/ /\ HasGrant(acct)
        /\ round' = [round EXCEPT !.snapshot = State(acct)]
        /\ call' = [call EXCEPT ![c] = [q EXCEPT !.pc = "exchange"]]
        /\ holder' = c
        /\ UNCHANGED slot
     \/ ~ HasGrant(acct) /\ FallBack(c, q)

\* Logout and removal end what is stored; an epoch is never used twice.  An
\* account that still has keys is not removed (can_remove).
EnterSignOut(c) ==
  /\ MyTurn(c) /\ call[c].kind \in {"clear", "remove"}
  /\ \/ /\ acct.present
        /\ acct' = [SignedOut(acct.epoch + 1) EXCEPT !.present = call[c].kind = "clear"]
     \/ (acct.present => call[c].kind = "remove") /\ UNCHANGED acct
  /\ call' = [call EXCEPT ![c] = Done("none")]
  /\ UNCHANGED <<round, holder, slot, decided>>

-----------------------------------------------------------------------------
(* The attempt *)

\* Mutant: the subject of the answer is not compared with the pinned one.
Answers_AnySubject(read) == {"error", "garbage", "dead", "renewed", "rotated"}

\* What the token endpoint may answer.  "dead": the grant is revoked, or the
\* answer does not prove the pinned subject; "error" and "garbage" cover
\* every other failure, with and without a pause.
Answers(read) ==
  {"error", "garbage", "dead"} \cup
  (IF read.rt.subject = read.subject THEN {"renewed", "rotated"} ELSE {})

\* What an answer changes; a switch or logout meanwhile voids it.
AfterAnswer(read, answer) ==
  LET current == IsCurrent(acct, read.epoch) IN
  \/ (current => answer = "garbage") /\ UNCHANGED acct
  \/ current /\ answer = "error" /\ acct' = Defer(acct, read)
  \/ current /\ answer = "dead" /\ acct' = Discard(acct, read)
  \/ current /\ answer \in {"renewed", "rotated"}
             /\ acct' = ApplyExchange(acct, read, answer = "rotated")

ExchangeAnswered(c) ==
  /\ call[c].pc = "exchange"
  /\ UNCHANGED <<line, decided>>
  /\ \E answer \in Answers(call[c].read) :
       /\ AfterAnswer(call[c].read, answer)
       /\ IF answer \in {"renewed", "rotated"} /\ acct' # acct
          THEN /\ clock' = clock + 1
               /\ Conclude(c, call[c], TRUE, Told(c, TRUE), State(acct'))
          ELSE UNCHANGED clock /\ FallBack(c, call[c])

SlotTaken(c) ==
  /\ call[c].pc = "slot" /\ slot = None
  /\ slot' = c
  /\ call' = [call EXCEPT ![c].pc = "browser"]
  /\ UNCHANGED <<acct, round, line, holder, clock, decided>>

\* No browser, no token, the previous token, another subject, no cookies.
BrowserFailed(c) ==
  /\ call[c].pc = "browser"
  /\ UNCHANGED <<acct, line, clock, decided>>
  /\ Conclude(c, call[c], FALSE, "failed", round.snapshot)

\* The browser minted a token, and found the grant as well or not.
BrowserMinted(c) ==
  /\ call[c].pc = "browser"
  /\ UNCHANGED <<line, decided>>
  /\ \E grant \in BOOLEAN : acct' = ApplyGate(acct, call[c].read, grant)
  /\ IF acct' # acct
     THEN /\ clock' = clock + 1
          /\ Conclude(c, call[c], TRUE, Told(c, TRUE), State(acct'))
     ELSE /\ UNCHANGED clock
          /\ Conclude(c, call[c], FALSE, "failed", round.snapshot)

\* The queue q with its entry for c taken out.
Without(q, c) ==
  LET i == CHOOSE n \in DOMAIN q : q[n] = c
  IN [j \in 1..(Len(q) - 1) |-> IF j < i THEN q[j] ELSE q[j + 1]]

\* The caller's task is cancelled: its client went away, or the server stops.
Cancel(c) ==
  /\ UNCHANGED <<acct, clock, decided>>
  /\ \/ /\ call[c].pc \in {"turn", "queued"}
        /\ call' = [call EXCEPT ![c] = Done("cancelled")]
        /\ line' = IF call[c].pc = "queued" THEN Without(line, c) ELSE line
        /\ UNCHANGED <<round, holder, slot>>
     \/ /\ call[c].pc \in {"exchange", "slot", "browser"}
        /\ Conclude(c, call[c], FALSE, "cancelled", round.snapshot)
        /\ UNCHANGED line

\* Refreshes of other accounts take the slot before c queues for it, and
\* give it back.
OthersTake ==
  /\ slot = None /\ \A c \in Callers : call[c].pc # "slot"
  /\ slot' = Others
  /\ UNCHANGED <<acct, round, line, holder, call, clock, decided>>

OthersLeave ==
  /\ slot = Others
  /\ slot' = None
  /\ UNCHANGED <<acct, round, line, holder, call, clock, decided>>

Enter(c) == EnterInactive(c) \/ EnterShared(c) \/ EnterAttempt(c) \/ EnterSignOut(c)

Attempt(c) ==
  ExchangeAnswered(c) \/ SlotTaken(c) \/ BrowserFailed(c) \/ BrowserMinted(c)

Next ==
  \/ \E s \in Subjects, again, grant, activate \in BOOLEAN : Push(s, again, grant, activate)
  \/ \E p \in {"m365", "consumer"} : Activate(p)
  \/ PauseEnds
  \/ \E c \in Callers : \/ Start(c) \/ Gate(c) \/ GateRefused(c) \/ Background(c) \/ SignOut(c)
                        \/ Enter(c) \/ Attempt(c) \/ Cancel(c)
  \/ OthersTake \/ OthersLeave

Spec == Init /\ [][Next]_vars

\* The event loop runs whoever gets a lock, and the HTTP and browser
\* timeouts end every attempt, those of other accounts too.
Fairness ==
  /\ \A c \in Callers : WF_vars(Enter(c)) /\ WF_vars(Attempt(c))
  /\ WF_vars(OthersLeave)

FairSpec == Spec /\ Fairness
-----------------------------------------------------------------------------
Credential == [at : Nat, subject : Subjects] \cup {None}

Account ==
  [token : Credential, stamp : Nat, subject : Subjects \cup {None},
   rt : Credential, paused : BOOLEAN,
   provider : {"m365", "consumer"}, epoch : Nat, present : BOOLEAN]

Snapshot == (Credential \X Nat \X (Subjects \cup {None}) \X Credential \X Nat) \cup {None}

Caller ==
  [pc : {"idle", "turn", "queued", "exchange", "slot", "browser", "done"},
   kind : {"refresh", "clear", "remove"}, epoch : Nat \cup {None},
   owner : Subjects \cup {None}, queued : Nat, before : Nat,
   read : Account \cup {None}, turn : Nat, shared : BOOLEAN,
   answer : {"none", "renewed", "failed", "refused", "cancelled"}]

TypeOK ==
  /\ acct \in Account
  /\ round \in [generation : Nat, result : BOOLEAN, snapshot : Snapshot]
  /\ line \in Seq(Callers)
  /\ holder \in Callers \cup {None} /\ slot \in Callers \cup {Others, None}
  /\ call \in [Callers -> Caller]
  /\ clock \in Nat /\ decided \in 0..MaxDecisions

(* The stored token is always one of the pinned Microsoft account: no      *)
(* renewal brings in somebody else's session, not even from a grant an     *)
(* older version stored without its subject.                               *)
TokenIsPinned ==
  acct.token # None /\ acct.subject # None
    => acct.token.subject = acct.subject

\* What a user may replace: a push of the stored token again is no news.
Chosen(a) == <<a.token, a.subject, a.rt, a.provider, a.epoch>>

(* A renewal never overwrites what a push, a logout or a switch left after *)
(* the renewal read the account: neither the token nor a newer grant       *)
(* ("Writing over either would resurrect a credential this account has     *)
(* already moved past").                                                   *)
NewerWins ==
  [][\A c \in Callers :
       call[c].pc \in {"exchange", "browser"} /\ call'[c] # call[c] =>
         /\ acct'.token # acct.token => Chosen(acct) = Chosen(call[c].read)
         /\ acct'.rt # acct.rt => acct.rt = call[c].read.rt]_vars

\* A caller is told that its credential was renewed.
ToldRenewed(c) ==
  call[c].pc # "done" /\ call'[c].pc = "done" /\ call'[c].answer = "renewed"

(* A turn that started for one Microsoft account is never continued with   *)
(* the credential of another one.                                          *)
TurnKeepsOwner ==
  [][\A c \in Callers :
       ToldRenewed(c) /\ call[c].epoch # None
         => acct'.token.subject = call[c].owner]_vars

(* A caller that is told its credential was renewed finds a token stored   *)
(* after it queued, also when it only shares another caller's result.      *)
RenewedIsNew ==
  [][\A c \in Callers : ToldRenewed(c) => Age(acct') > call[c].before]_vars

(* An input that failed is not tried again by the callers that queued      *)
(* meanwhile ("rather than launch one browser per request").               *)
FailureIsShared ==
  [][\A c, d \in Callers :
       /\ call[d].pc = "queued" /\ call'[d].pc \in {"exchange", "slot"}
       /\ call[c].read # None /\ call[c].answer = "failed" /\ call[c].turn > call[d].queued
       => State(acct) # State(call[c].read)]_vars

(* Every caller gets an answer: no attempt, cancelled or not, leaves the   *)
(* account's lock or the browser slot taken.                               *)
EveryoneAnswered == \A c \in Callers : call[c].pc = "queued" ~> call[c].pc = "done"

(* A caller is told that a renewal failed only if one did: "Another waiter *)
(* completed an attempt while this caller queued.  Share failures too."    *)
ToldOfRealFailure ==
  \A d \in Callers : call[d].shared /\ call[d].answer = "failed" =>
    \E c \in Callers : ~ call[c].shared /\ call[c].turn = call[d].turn
                       /\ call[c].answer = "failed"
=============================================================================
