--------------------------- MODULE PersonalRenewal ---------------------------
(***************************************************************************)
(* Renewal of a personal Substrate token (refresh_personal_substrate in    *)
(* refresh_scheduler.py): one coalesced attempt per account, first with    *)
(* the session's own refresh grant, then in a browser, and a compare and   *)
(* set of what it brought.                                                 *)
(*                                                                         *)
(* A token is the number it was captured under; a session, too, with       *)
(* whether it holds a grant ("broker").  Both belong to the account's      *)
(* pinned subject.  Pushes, clearings, protocol switches and a new proxy   *)
(* do not wait for the account's lock.                                     *)
(***************************************************************************)
EXTENDS Common, Integers, Sequences

CONSTANTS Wanters, Subjects,
          MaxChanges   \* bound: what people do to the account

ASSUME WantersAssumption == None \notin Wanters \cup Nat

VARIABLES
  personal,       \* the account
  attempts,       \* the scheduler's generation, result, snapshot and back-off
  personalLine,   \* callers queued for the account's lock
  personalHolder, \* the caller that holds it, or None
  wants,          \* each caller's progress
  captured,       \* tokens and sessions captured so far
  changes         \* what people did so far

personalVars ==
  <<personal, attempts, personalLine, personalHolder, wants, captured, changes>>

-----------------------------------------------------------------------------
(* The account *)

Unbound ==
  [token |-> None, subject |-> None, session |-> None, life |-> "expired",
   failed |-> FALSE, active |-> TRUE, epoch |-> 0, proxy |-> 0]

\* has_usable_personal_substrate_session, of the active protocol
Renewable(a) == a.active /\ a.token # None /\ a.session # None

\* _personal_substrate_state
PersonalState(a) == <<a.token, a.subject, a.epoch, a.session, a.proxy>>

\* Mutant: the session is left out of the comparison.
SameCapture_NoSession(a, read) ==
  a.active /\ a.epoch = read.epoch /\ a.token = read.token

\* The whole snapshot is current (apply_personal_substrate_refresh_result,
\* set_personal_substrate_refresh_error).
SameCapture(a, read) ==
  a.active /\ a.epoch = read.epoch /\ a.token = read.token /\ a.session = read.session

\* update_token of a JWE captured with its subject, and maybe its session.
Captured(a, subject, token, session) ==
  LET moved == a.token # None /\ a.subject # subject IN
  [a EXCEPT
     !.token = token, !.subject = subject,
     !.session = IF session # None THEN session ELSE IF a.subject = subject THEN @ ELSE None,
     !.life = IF a.token = token /\ a.subject = subject THEN @ ELSE "fresh",
     !.failed = @ /\ a.token = token /\ a.subject = subject,
     !.epoch = @ + (IF moved THEN 1 ELSE 0) + (IF a.active THEN 0 ELSE 1),
     !.active = TRUE]

\* apply_personal_substrate_refresh_result
Renewed(a, session) ==
  [a EXCEPT !.token = captured + 1, !.session = session, !.life = "fresh", !.failed = FALSE]

-----------------------------------------------------------------------------
Wanter == [pc |-> "idle", force |-> FALSE, asks |-> FALSE, epoch |-> 0, subject |-> None,
           token |-> None, queued |-> 0, read |-> None, turn |-> 0, answer |-> "none"]

PersonalInit ==
  /\ personal = Unbound
  /\ attempts = [generation |-> 0, result |-> FALSE, snapshot |-> None,
                 tried |-> None, cooled |-> TRUE]
  /\ personalLine = <<>> /\ personalHolder = None
  /\ wants = [c \in Wanters |-> Wanter]
  /\ captured = 0 /\ changes = 0

Changes == changes < MaxChanges /\ changes' = changes + 1

\* POST /user/account/token: a new capture, or the stored token again.
PushJwe(subject, again, session) ==
  /\ again => personal.token # None /\ personal.subject = subject
  /\ Changes
  /\ captured' = captured + 1
  /\ personal' = Captured(personal, subject,
       IF again THEN personal.token ELSE captured + 1,
       IF session = "none" THEN None ELSE [at |-> captured + 1, broker |-> session = "grant"])
  /\ UNCHANGED <<attempts, personalLine, personalHolder, wants>>

\* clear_token; activate_protocol; set_proxy_url
ChangeAccount ==
  /\ Changes
  /\ personal' \in
       {[personal EXCEPT !.token = None, !.subject = None, !.session = None,
                         !.failed = FALSE, !.epoch = @ + 1],
        [personal EXCEPT !.active = ~ @, !.epoch = @ + 1],
        [personal EXCEPT !.proxy = 1 - @]}
  /\ UNCHANGED <<attempts, personalLine, personalHolder, wants, captured>>

\* The token's deadline comes nearer; a queue is served long before that.
JweAges ==
  /\ personal.token # None
  /\ \/ /\ personal.life = "fresh" /\ personalHolder = None /\ personalLine = <<>>
        /\ personal' = [personal EXCEPT !.life = "due"]
     \/ personal.life = "due" /\ personal' = [personal EXCEPT !.life = "expired"]
  /\ UNCHANGED <<attempts, personalLine, personalHolder, wants, captured, changes>>

\* _PERSONAL_SUBSTRATE_RETRY_SECONDS pass.
BackOffEnds ==
  /\ ~ attempts.cooled
  /\ attempts' = [attempts EXCEPT !.cooled = TRUE]
  /\ UNCHANGED <<personal, personalLine, personalHolder, wants, captured, changes>>

\* What _ensure_personal_substrate_fresh makes of a refresh that failed:
\* the token may do for now.
StillGood(a, q) ==
  /\ a.active /\ a.epoch = q.epoch /\ a.subject = q.subject
  /\ ~ (q.force /\ a.token = q.token)
  /\ a.life # "expired"

Ends(c, q, ok, a) ==
  [wants EXCEPT ![c] = [Wanter EXCEPT
     !.pc = "done", !.turn = q.turn, !.read = IF ok THEN None ELSE q.read,
     !.answer = IF ok THEN "renewed"
                ELSE IF q.asks /\ StillGood(a, q) THEN "usable" ELSE "failed"]]

\* ensure_fresh of a request or a button; keepalive asks for the refresh
\* itself.
Want(c, force, asks) ==
  LET q == [Wanter EXCEPT !.force = force, !.asks = asks, !.epoch = personal.epoch,
              !.subject = personal.subject, !.token = personal.token] IN
  /\ wants[c].pc = "idle" /\ personal.active /\ personal.token # None
  /\ force => asks
  /\ ~ asks => personal.life # "fresh" /\ personal.session # None
  /\ IF asks /\ ~ force /\ personal.life = "fresh"
     THEN /\ wants' = [wants EXCEPT ![c] = [Wanter EXCEPT !.pc = "done", !.answer = "usable"]]
          /\ UNCHANGED personalLine
     ELSE /\ wants' = [wants EXCEPT ![c] =
               [q EXCEPT !.pc = "queued", !.queued = attempts.generation]]
          /\ personalLine' = Append(personalLine, c)
  /\ UNCHANGED <<personal, attempts, personalHolder, captured, changes>>

-----------------------------------------------------------------------------
(* Under the account's lock *)

\* Mutant: a failure is not shared, every caller that queued tries again.
SharesAttempt_SuccessOnly(c) ==
  /\ attempts.generation # wants[c].queued /\ attempts.result
  /\ attempts.snapshot = PersonalState(personal)

\* Another caller's attempt ended with this input while c queued.
SharesAttempt(c) ==
  attempts.generation # wants[c].queued /\ attempts.snapshot = PersonalState(personal)

BacksOff(c) ==
  ~ wants[c].force /\ ~ attempts.cooled /\ attempts.tried = PersonalState(personal)

\* The attempt starts with the grant, if the session holds one.
EnterPersonal(c) ==
  LET q == wants[c] IN
  /\ q.pc = "queued" /\ personalHolder = None
  /\ personalLine # <<>> /\ Head(personalLine) = c
  /\ personalLine' = Tail(personalLine)
  /\ UNCHANGED <<personal, captured, changes>>
  /\ IF ~ Renewable(personal) \/ SharesAttempt(c) \/ BacksOff(c)
     THEN /\ wants' = Ends(c, q, Renewable(personal) /\ SharesAttempt(c) /\ attempts.result,
                           personal)
          /\ UNCHANGED <<attempts, personalHolder>>
     ELSE /\ attempts' = [attempts EXCEPT !.snapshot = PersonalState(personal),
                            !.tried = PersonalState(personal), !.cooled = FALSE]
          /\ personalHolder' = c
          /\ wants' = [wants EXCEPT ![c] = [q EXCEPT
               !.read = personal, !.turn = attempts.generation + 1,
               !.pc = IF personal.session.broker THEN "http" ELSE "slot"]]

\* The finally clause: a success is remembered for the state it left.
Leave(c, ok) ==
  /\ attempts' = [attempts EXCEPT
       !.generation = @ + 1, !.result = ok,
       !.snapshot = IF ok THEN PersonalState(personal') ELSE @]
  /\ wants' = Ends(c, wants[c], ok, personal')
  /\ personalHolder' = None

\* What an attempt brought is stored if nothing of its input changed, the
\* proxy included.
Brought(c, broker) ==
  LET read == wants[c].read
      stored == SameCapture(personal, read) /\ personal.proxy = read.proxy IN
  /\ personal' = IF stored THEN Renewed(personal, [at |-> captured + 1, broker |-> broker])
                 ELSE personal
  /\ captured' = IF stored THEN captured + 1 ELSE captured
  /\ Leave(c, stored)

\* The grant renews the token, or sends the attempt to the browser.
HttpRenewal(c) ==
  /\ wants[c].pc = "http"
  /\ UNCHANGED <<personalLine, changes>>
  /\ \/ Brought(c, TRUE)
     \/ /\ wants' = [wants EXCEPT ![c].pc = "slot"]
        /\ UNCHANGED <<personal, attempts, personalHolder, captured>>

\* The browser slot is free: the account is looked at once more.
PersonalSlot(c) ==
  /\ wants[c].pc = "slot"
  /\ UNCHANGED <<personal, personalLine, captured, changes>>
  /\ IF PersonalState(personal) = PersonalState(wants[c].read) /\ personal.active
     THEN /\ wants' = [wants EXCEPT ![c].pc = "browser"]
          /\ UNCHANGED <<attempts, personalHolder>>
     ELSE Leave(c, FALSE)

\* The browser captured a token and a session, or failed: the error is
\* noted on the capture it was tried with.
PersonalBrowser(c) ==
  /\ wants[c].pc = "browser"
  /\ UNCHANGED <<personalLine, changes>>
  /\ \/ \E broker \in BOOLEAN : Brought(c, broker)
     \/ /\ personal' = IF SameCapture(personal, wants[c].read)
                       THEN [personal EXCEPT !.failed = TRUE] ELSE personal
        /\ Leave(c, FALSE)
        /\ UNCHANGED captured

PersonalNext ==
  \/ \E s \in Subjects, again \in BOOLEAN, session \in {"none", "plain", "grant"} :
       PushJwe(s, again, session)
  \/ ChangeAccount \/ JweAges \/ BackOffEnds
  \/ \E c \in Wanters :
       \/ \E force, asks \in BOOLEAN : Want(c, force, asks)
       \/ EnterPersonal(c) \/ HttpRenewal(c) \/ PersonalSlot(c) \/ PersonalBrowser(c)

PersonalSpec == PersonalInit /\ [][PersonalNext]_personalVars
-----------------------------------------------------------------------------
(* A renewal that took minutes writes neither its token nor its error over *)
(* what was captured meanwhile: "Commit a fresh, pinned JWE only while its *)
(* entire snapshot is current".                                            *)
NewerCaptureStays ==
  [][\A c \in Wanters :
       wants[c].pc \in {"http", "browser"} /\ personal' # personal
         /\ wants'[c].pc # wants[c].pc
       => PersonalState(personal)[1] = wants[c].read.token
          /\ personal.session = wants[c].read.session]_personalVars

(* An input that failed in the latest attempt is not tried again by the    *)
(* callers that queued before that attempt ended, and whoever is told of a *)
(* renewal has its token.                                                  *)
OneAttemptPerInput ==
  [][/\ \A c, d \in Wanters :
          /\ wants[d].pc = "queued" /\ wants'[d].pc \in {"http", "slot"}
          /\ wants[c].read # None /\ wants[c].answer = "failed"
          /\ wants[c].turn > wants[d].queued /\ wants[c].turn = attempts.generation
          => PersonalState(personal) # PersonalState(wants[c].read)
     /\ \A c \in Wanters :
          wants'[c].answer = "renewed" /\ wants[c].answer # "renewed"
          => /\ personal'.token # None /\ personal'.life # "expired"
             /\ personal'.token # wants[c].token]_personalVars
=============================================================================
