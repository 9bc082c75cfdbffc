----------------------------- MODULE TokenRenewal -----------------------------
(***************************************************************************)
(* Renewal of one Microsoft 365 account: ensure_fresh and what it calls in *)
(* refresh_scheduler.py, the exchange of refresh_via_rt.py, the Chromium   *)
(* session of refresh_cookie_inject.py, and the account_store.py           *)
(* operations that end them.                                               *)
(*                                                                         *)
(* Callers queue for the account's lock (an asyncio.Lock, FIFO).  Pushes,  *)
(* the admin's clearing of a token and the cloud client do not take it:    *)
(* they land while an exchange or a browser is under way.  The global      *)
(* Chromium lock is taken under the account's lock; with one account it    *)
(* only delays, so it is the step from "slot" to "browser".                *)
(*                                                                         *)
(* A token is the number it was stored under and the identity it belongs   *)
(* to.  A grant (refresh token) is the push it descends from, the          *)
(* rotations since, the identity and the client it was issued to.          *)
(***************************************************************************)
EXTENDS Common, Integers, Sequences

CONSTANTS Askers, People,
          MaxEdits,     \* bound: pushes, clearings and activations
          MaxRotations  \* bound: rotations of one grant

\* Nothing stored is neither a caller nor a token.
ASSUME AskersAssumption ==
  None \notin Askers /\ None \notin [at : Nat, person : People \cup {None}]

VARIABLES
  work,       \* the account
  captures,   \* browser captures so far, the last result and its epoch
  workLine,   \* callers queued for the account's lock
  workHolder, \* the caller that holds it, or None
  asks,       \* each caller's progress
  stored,     \* credentials stored so far: tokens, cookie states and grants
  granted,    \* the push the grant in force comes from, 0 after a logout
  signedOut,  \* logged out, and nothing was pushed since
  edits       \* what people did so far

workVars == <<work, captures, workLine, workHolder, asks, stored, granted, signedOut, edits>>

workLock == <<workLine, workHolder>>
-----------------------------------------------------------------------------
(* The account *)

Blank ==
  [present |-> TRUE, epoch |-> 0, token |-> None, life |-> "expired", email |-> None,
   grant |-> None, paused |-> FALSE, cookies |-> None, valid |-> FALSE, seen |-> 0,
   source |-> "manual", profile |-> None]

Token(person) == [at |-> stored + 1, person |-> person]

\* not _needs_refresh(token), not _is_expired(token)
Lasts(a) == a.token # None /\ a.life = "fresh"
Usable(a) == a.present /\ a.token # None /\ a.life # "expired"

\* update_token: the identity of the token becomes the account's.
WithToken(a, person) ==
  [a EXCEPT !.token = Token(person), !.life = "fresh", !.email = person]

\* set_cookie_status
CookiesWork(a) == [a EXCEPT !.valid = TRUE, !.seen = stored + 1, !.source = "cdp"]
CookiesFail(a) == [a EXCEPT !.valid = FALSE, !.seen = 0]

\* _identity_conflict: both are known and differ.
Conflicts(email, person) == email # None /\ email # person

\* is_protocol_current
SameEpoch(a, epoch) == a.present /\ a.epoch = epoch

\* Mutant: the response is stored over whatever is there by now.
ApplyGrant_Unchecked(a, read, rotated) ==
  [WithToken(a, read.grant.person) EXCEPT
     !.grant = IF rotated THEN [read.grant EXCEPT !.turns = @ + 1] ELSE @, !.paused = FALSE]

\* apply_refresh_token_result: nothing if newer credentials won the race.
ApplyGrant(a, read, rotated) ==
  IF a.grant # read.grant \/ a.token # read.token \/ ~ SameEpoch(a, read.epoch)
  THEN a
  ELSE [WithToken(a, read.grant.person) EXCEPT
          !.grant = IF rotated THEN [read.grant EXCEPT !.turns = @ + 1] ELSE @, !.paused = FALSE]

\* Mutant: the rotated grant is stored without comparing.
Rotate_Unchecked(a, grant) ==
  [a EXCEPT !.grant = [grant EXCEPT !.turns = @ + 1], !.paused = FALSE]

\* set_refresh_token(rotated, expected_refresh_token=rt)
Rotate(a, grant) ==
  IF ~ a.present \/ a.grant # grant THEN a
  ELSE [a EXCEPT !.grant = [grant EXCEPT !.turns = @ + 1], !.paused = FALSE]

\* defer_refresh_token, and set_refresh_token("", expected_refresh_token=rt)
DeferGrant(a, grant) == IF a.grant = grant THEN [a EXCEPT !.paused = TRUE] ELSE a
DropGrant(a, grant) ==
  IF a.grant = grant THEN [a EXCEPT !.grant = None, !.paused = FALSE] ELSE a

\* _cdp_refresh_state
CaptureState(a) == <<a.token, a.valid, a.seen>>

\* _stored_binding: the grant belongs to the identity of the token.
Bound(a) == a.token # None /\ a.grant.person = a.token.person

-----------------------------------------------------------------------------
(* Callers.  kind: what runs under the lock; read: the account as the      *)
(* caller read it before it had to wait; began: captures so far when it    *)
(* queued for one.  An answer that the token is usable is "true", and if   *)
(* it is not, "outdated" when the account was cleared meanwhile, else      *)
(* "wrong".                                                                *)

Asker == [pc |-> "idle", kind |-> "refresh", force |-> FALSE, read |-> None,
          began |-> 0, answer |-> "none"]

\* An account that pushed everything before the proxy was started again.
Established(person) ==
  [Blank EXCEPT !.token = [at |-> 1, person |-> person], !.email = person,
                !.grant = [push |-> 1, turns |-> 0, person |-> person, client |-> "spa"],
                !.cookies = person, !.valid = TRUE, !.seen = 1, !.source = "cdp",
                !.profile = person]

WorkInit ==
  /\ work \in {Blank} \cup {Established(person) : person \in People}
  /\ captures = [generation |-> 0, result |-> FALSE, epoch |-> 0]
  /\ workLine = <<>> /\ workHolder = None
  /\ asks = [c \in Askers |-> Asker]
  /\ stored = 1 /\ granted = (IF work = Blank THEN 0 ELSE 1)
  /\ signedOut = FALSE /\ edits = 0

Edits == edits < MaxEdits /\ edits' = edits + 1

\* POST /user/account/token, the admin's push, and the sign-in with PKCE,
\* which brings a grant of the native client.
PushToken(person, signIn) ==
  /\ work.present /\ Edits
  /\ stored' = stored + 1
  /\ signedOut' = FALSE
  /\ work' = [WithToken(work, person) EXCEPT
       !.source = IF @ = "cdp" /\ work.valid THEN @ ELSE "manual",
       !.grant = IF signIn THEN [push |-> stored + 1, turns |-> 0, person |-> person,
                                 client |-> "native"] ELSE @,
       !.paused = @ /\ ~ signIn]
  /\ granted' = IF signIn THEN stored + 1 ELSE granted
  /\ UNCHANGED <<captures, workLock, asks>>

\* preserve_existing_client_id
KeepsNative(a) == a.grant # None /\ a.grant.client = "native"

\* POST /user/account/refresh-token: the userscript's grant, for the
\* identity the stored token has.
PushGrant ==
  /\ work.present /\ work.token # None /\ ~ KeepsNative(work) /\ Edits
  /\ stored' = stored + 1 /\ granted' = stored + 1
  /\ work' = [work EXCEPT !.paused = FALSE,
       !.grant = [push |-> stored + 1, turns |-> 0, person |-> work.token.person,
                  client |-> "spa"]]
  /\ UNCHANGED <<captures, workLock, asks, signedOut>>

\* POST /admin/accounts/{acc_id}/token/clear
ClearToken ==
  /\ work.present /\ Edits
  /\ work' = [work EXCEPT !.token = None, !.epoch = @ + 1]
  /\ UNCHANGED <<captures, workLock, asks, stored, granted, signedOut>>

\* The token's hour passes, in which every queue has long been served.
TokenAges ==
  /\ work.token # None
  /\ \/ work.life = "fresh" /\ workHolder = None /\ workLine = <<>>
        /\ work' = [work EXCEPT !.life = "due"]
     \/ work.life = "due" /\ work' = [work EXCEPT !.life = "expired"]
  /\ UNCHANGED <<captures, workLock, asks, stored, granted, signedOut, edits>>

GrantPauseEnds ==
  /\ work.paused
  /\ work' = [work EXCEPT !.paused = FALSE]
  /\ UNCHANGED <<captures, workLock, asks, stored, granted, signedOut, edits>>

Done(c, answer) == [asks EXCEPT ![c] = [Asker EXCEPT !.pc = "done", !.answer = answer]]

\* The caller is told whether a's token is usable, by a renewal that began
\* in the given epoch.
Told(c, epoch, ok, a) ==
  Done(c, IF ~ ok THEN "false"
          ELSE IF Usable(a) THEN "true"
          ELSE IF SameEpoch(a, epoch) THEN "wrong" ELSE "outdated")

Queue(c, q, line) == asks' = [asks EXCEPT ![c] = q] /\ workLine' = Append(line, c)

\* ensure_fresh without the grant, for the account as it is now: a manual
\* one has no browser session and is believed until its token expires.
WithoutGrant(c, q, a, line) ==
  LET manual == a.source # "cdp" IN
  \/ /\ ~ q.force /\ (manual \/ Lasts(a))
     /\ asks' = Told(c, q.read.epoch, manual => a.token # None /\ a.life # "expired", a)
     /\ workLine' = line
  \/ /\ q.force \/ ~ (manual \/ Lasts(a))
     /\ Queue(c, [q EXCEPT !.pc = "queued", !.kind = "capture",
                           !.began = captures.generation], line)

\* ensure_fresh: a request, a button (force), or keepalive (no grants).
EnsureFresh(c, force, grants) ==
  LET q == [Asker EXCEPT !.force = force, !.read = work]
      tries == grants /\ work.grant # None /\ (force \/ ~ Lasts(work)) IN
  /\ asks[c].pc = "idle" /\ work.present /\ (grants \/ force)
  /\ IF tries /\ ~ work.paused
     THEN Queue(c, [q EXCEPT !.pc = "queued", !.kind = "exchange"], workLine)
     ELSE WithoutGrant(c, q, work, workLine)
  /\ UNCHANGED <<work, captures, workHolder, stored, granted, signedOut, edits>>

\* POST /user/account/cookies saves the cookies and injects them; the
\* admin's cookie button replays what is stored.
InjectCookies(c, person) ==
  /\ asks[c].pc = "idle" /\ work.present
  /\ \/ /\ person # None /\ Edits
        /\ signedOut' = FALSE
        /\ work' = [work EXCEPT !.cookies = person]
     \/ person = None /\ work.cookies # None /\ UNCHANGED <<work, signedOut, edits>>
  /\ Queue(c, [Asker EXCEPT !.pc = "queued", !.kind = "inject", !.read = work',
                            !.force = person = None], workLine)
  /\ UNCHANGED <<captures, workHolder, stored, granted>>

\* What waits for the lock with nothing read: a logout, a removal, and a
\* media token to be minted from the grant.
WaitForLock(c, kind) ==
  /\ asks[c].pc = "idle" /\ work.present
  /\ kind = "media" => work.grant # None
  /\ Queue(c, [Asker EXCEPT !.pc = "queued", !.kind = kind], workLine)
  /\ UNCHANGED <<work, captures, workHolder, stored, granted, signedOut, edits>>

\* _cloud_token: the same grant, without the lock.
CloudAsks(c) ==
  /\ asks[c].pc = "idle" /\ work.present /\ work.grant # None /\ Bound(work)
  /\ asks' = [asks EXCEPT ![c] = [Asker EXCEPT !.pc = "cloud", !.read = work]]
  /\ UNCHANGED <<work, captures, workLock, stored, granted, signedOut, edits>>

-----------------------------------------------------------------------------
(* Under the lock *)

WorkTurn(c, kind) ==
  /\ asks[c].pc = "queued" /\ asks[c].kind = kind
  /\ workHolder = None /\ workLine # <<>> /\ Head(workLine) = c

Holds(c, q) ==
  /\ workHolder' = c /\ workLine' = Tail(workLine)
  /\ asks' = [asks EXCEPT ![c] = q]

\* _try_rt_refresh: who finds the credentials changed takes them as they
\* are, and no grant is tried unless it is bound to the token's identity.
EnterExchange(c) ==
  LET q == asks[c]
      changed == work.grant # q.read.grant \/ work.token # q.read.token
      shared == changed \/ (~ work.paused /\ ~ q.force /\ Lasts(work))
      tried == work.present /\ ~ shared /\ ~ work.paused IN
  /\ WorkTurn(c, "exchange")
  /\ UNCHANGED <<captures, stored, granted, signedOut, edits>>
  /\ IF work.present /\ shared /\ Lasts(work)
     THEN asks' = Told(c, q.read.epoch, TRUE, work) /\ workLine' = Tail(workLine)
          /\ UNCHANGED <<work, workHolder>>
     ELSE IF tried /\ Bound(work)
     THEN Holds(c, [q EXCEPT !.pc = "exchange"]) /\ UNCHANGED work
     ELSE /\ work' = IF tried THEN DropGrant(work, work.grant) ELSE work
          /\ WithoutGrant(c, q, work', Tail(workLine))
          /\ UNCHANGED workHolder

\* refresh_via_rt: what the endpoint answers, and what is stored then.  A
\* revoked grant and one that answers for somebody else are discarded.
ExchangeEnds(c) ==
  LET read == asks[c].read
      current == SameEpoch(work, read.epoch) IN
  /\ asks[c].pc = "exchange"
  /\ workHolder' = None
  /\ UNCHANGED <<captures, granted, signedOut, edits>>
  /\ \/ /\ work' \in IF current THEN {DeferGrant(work, read.grant), DropGrant(work, read.grant)}
                     ELSE {work}
        /\ WithoutGrant(c, asks[c], work', workLine)
        /\ UNCHANGED stored
     \/ \E rotated \in BOOLEAN :
          /\ rotated => read.grant.turns < MaxRotations
          /\ current /\ work' = ApplyGrant(work, read, rotated)
          /\ IF work' = work
             THEN WithoutGrant(c, asks[c], work', workLine) /\ UNCHANGED stored
             ELSE asks' = Told(c, asks[c].read.epoch, TRUE, work') /\ stored' = stored + 1 /\ UNCHANGED workLine

\* Mutant: a caller that queued takes the last result of any attempt.
SharesCapture_Any(c) == captures.generation > 0

\* Another caller completed a capture while c queued.
SharesCapture(c) == captures.generation # asks[c].began

\* _run_cdp_refresh
EnterCapture(c) ==
  LET q == asks[c]
      renewed == work.token # q.read.token /\ Lasts(work)
      other == CaptureState(work) # CaptureState(q.read) IN
  /\ WorkTurn(c, "capture")
  /\ UNCHANGED <<work, captures, stored, granted, signedOut, edits>>
  /\ IF work.present /\ ~ SharesCapture(c) /\ ~ other /\ (q.force \/ ~ Lasts(work))
     THEN Holds(c, [q EXCEPT !.pc = "slot"])
     ELSE /\ asks' = IF work.present /\ SharesCapture(c)
                     THEN Told(c, captures.epoch, renewed \/ captures.result, work)
                     ELSE Told(c, q.read.epoch, work.present /\ Lasts(work), work)
          /\ workLine' = Tail(workLine) /\ UNCHANGED workHolder

\* inject_cookies, with the cookies it was given before it queued
EnterInject(c) ==
  /\ WorkTurn(c, "inject")
  /\ Holds(c, [asks[c] EXCEPT !.pc = "slot"])
  /\ UNCHANGED <<work, captures, stored, granted, signedOut, edits>>

\* clear_account_credentials keeps the email and the Chromium profile; an
\* account that still has keys is not removed.
EnterSignOut(c, kind) ==
  /\ WorkTurn(c, kind) /\ kind \in {"clear", "remove"}
  /\ work' \in IF ~ work.present THEN {work}
               ELSE IF kind = "clear"
               THEN {[Blank EXCEPT !.epoch = work.epoch + 1, !.email = work.email,
                                   !.source = work.source, !.profile = work.profile]}
               ELSE {work, [work EXCEPT !.present = FALSE]}
  /\ IF kind = "clear" /\ work.present THEN granted' = 0 /\ signedOut' = TRUE
     ELSE UNCHANGED <<granted, signedOut>>
  /\ asks' = Done(c, "none")
  /\ workLine' = Tail(workLine)
  /\ UNCHANGED <<captures, workHolder, stored, edits>>

\* mint_scoped_token reads the account under the lock.
EnterMint(c) ==
  /\ WorkTurn(c, "media")
  /\ IF work.present /\ work.grant # None /\ Bound(work)
     THEN Holds(c, [asks[c] EXCEPT !.pc = "mint", !.read = work])
     ELSE asks' = Done(c, "none") /\ workLine' = Tail(workLine) /\ UNCHANGED workHolder
  /\ UNCHANGED <<work, captures, stored, granted, signedOut, edits>>

\* mint_scoped_token and _cloud_token: a rotation of the grant is stored.
MintEnds(c) ==
  LET grant == asks[c].read.grant IN
  /\ asks[c].pc \in {"mint", "cloud"}
  /\ work' \in {work} \cup IF grant.turns < MaxRotations THEN {Rotate(work, grant)} ELSE {}
  /\ asks' = Done(c, "none")
  /\ workHolder' = IF asks[c].pc = "mint" THEN None ELSE workHolder
  /\ UNCHANGED <<captures, workLine, stored, granted, signedOut, edits>>

-----------------------------------------------------------------------------
(* The browser: the global lock, then _refresh_one or _inject_cookies_one. *)
(* q.read becomes the request snapshot of the session.                     *)

\* The finally clause of _run_cdp_refresh; an injection just returns.
BrowserCloses(c, ok) ==
  /\ asks' = IF asks[c].kind = "capture" THEN Told(c, asks[c].read.epoch, ok, work') ELSE Done(c, "none")
  /\ captures' = IF asks[c].kind = "capture"
                 THEN [generation |-> asks[c].began + 1, result |-> ok, epoch |-> asks[c].read.epoch]
                 ELSE captures
  /\ workHolder' = None

\* Stored cookies go into an emptied profile; without any, the profile is
\* opened as it is.
BrowserOpens(c) ==
  LET q == asks[c]
      with == IF q.kind = "inject" THEN q.read.cookies ELSE work.cookies IN
  /\ asks[c].pc = "slot"
  /\ UNCHANGED <<workLine, stored, granted, signedOut, edits>>
  /\ IF ~ work.present
     THEN UNCHANGED work /\ BrowserCloses(c, FALSE)
     ELSE /\ work' = IF with = None THEN work ELSE [work EXCEPT !.profile = None]
          /\ asks' = [asks EXCEPT ![c].pc = IF with = None THEN "bare" ELSE "inject",
                                  ![c].read = [work EXCEPT !.cookies = with]]
          /\ UNCHANGED <<captures, workHolder>>

\* The cookies were set, and the page shows a session or a login; nothing
\* is stored if the account moved on, or no browser came up.
CookiesSet(c) ==
  LET read == asks[c].read
      current == SameEpoch(work, read.epoch)
      profile == [work EXCEPT !.profile = read.cookies] IN
  /\ asks[c].pc = "inject"
  /\ UNCHANGED <<captures, workLock, granted, signedOut, edits>>
  /\ \/ /\ work' \in {work, profile} \cup (IF current THEN {CookiesFail(profile)} ELSE {})
        /\ asks' = [asks EXCEPT ![c].pc = "injected"]
        /\ UNCHANGED stored
     \/ /\ current /\ work' = CookiesWork(profile)
        /\ asks' = [asks EXCEPT ![c].pc = "extract"]
        /\ stored' = stored + 1

\* _apply_opportunistic_token, and the end of _refresh_one: the identity is
\* compared with the one read before the browser came up.
StoreCapture(a, read, person) ==
  IF ~ SameEpoch(a, read.epoch) \/ Conflicts(read.email, person) THEN a
  ELSE CookiesWork(WithToken(a, person))

\* The session's token, if the page gave one up.
TokenExtracted(c) ==
  LET read == asks[c].read IN
  /\ asks[c].pc = "extract"
  /\ work' \in {work, StoreCapture(work, read, read.cookies)}
  /\ stored' = IF work' = work THEN stored ELSE stored + 1
  /\ asks' = [asks EXCEPT ![c].pc = "injected"]
  /\ UNCHANGED <<captures, workLock, granted, signedOut, edits>>

\* Back in _refresh_one: a fresh token is enough, or the profile is opened.
AfterInjection(c) ==
  LET read == asks[c].read IN
  /\ asks[c].pc = "injected"
  /\ UNCHANGED <<work, workLine, stored, granted, signedOut, edits>>
  /\ IF asks[c].kind = "capture" /\ SameEpoch(work, read.epoch) /\ ~ Lasts(work)
     THEN asks' = [asks EXCEPT ![c].pc = "bare"] /\ UNCHANGED <<captures, workHolder>>
     ELSE BrowserCloses(c, SameEpoch(work, read.epoch))

\* The profile's own session: no page, no token, a login page, a token of
\* somebody else, or a token to store.
BareProfile(c) ==
  LET read == asks[c].read
      person == work.profile
      current == SameEpoch(work, read.epoch)
      kept == StoreCapture(work, read, person) IN
  /\ asks[c].pc = "bare"
  /\ UNCHANGED <<workLine, granted, signedOut, edits>>
  /\ \/ /\ work' \in {work} \cup (IF current THEN {CookiesFail(work)} ELSE {})
        /\ BrowserCloses(c, FALSE) /\ UNCHANGED stored
     \/ /\ person # None /\ kept # work
        /\ work' = kept /\ stored' = stored + 1
        /\ asks' = [asks EXCEPT ![c].pc = "collect"]
        /\ UNCHANGED <<captures, workHolder>>

\* Then the media tokens of that session: if the account moved on, the
\* capture counts as failed, unless the harvest itself failed.
Collected(c) ==
  /\ asks[c].pc = "collect"
  /\ UNCHANGED <<work, workLine, stored, granted, signedOut, edits>>
  /\ \E ok \in {SameEpoch(work, asks[c].read.epoch), TRUE} : BrowserCloses(c, ok)

Asks(c) ==
  \/ \E force, grants \in BOOLEAN : EnsureFresh(c, force, grants)
  \/ \E person \in People \cup {None} : InjectCookies(c, person)
  \/ \E kind \in {"clear", "remove", "media"} : WaitForLock(c, kind)
  \/ CloudAsks(c)

Proceeds(c) ==
  \/ EnterExchange(c) \/ EnterCapture(c) \/ EnterInject(c) \/ EnterMint(c)
  \/ \E kind \in {"clear", "remove"} : EnterSignOut(c, kind)
  \/ ExchangeEnds(c) \/ MintEnds(c)
  \/ BrowserOpens(c) \/ CookiesSet(c) \/ TokenExtracted(c)
  \/ AfterInjection(c) \/ BareProfile(c) \/ Collected(c)

WorkNext ==
  \/ \E person \in People, signIn \in BOOLEAN : PushToken(person, signIn)
  \/ PushGrant \/ ClearToken \/ TokenAges \/ GrantPauseEnds
  \/ \E c \in Askers : Asks(c) \/ Proceeds(c)

WorkSpec == WorkInit /\ [][WorkNext]_workVars
-----------------------------------------------------------------------------
(* An exchange over HTTP never changes whose token the account holds, and  *)
(* never overwrites a token that was stored after it read the account.     *)
ExchangeKeepsOwner ==
  [][\A c \in Askers :
       asks[c].pc = "exchange" /\ asks'[c].pc # "exchange" /\ work'.token # work.token
         => work'.token.person = work.token.person /\ work.token = asks[c].read.token]_workVars

(* The stored grant is always the last one a person brought in, or a       *)
(* rotation of it: no renewal, media token or cloud request that had read  *)
(* an older one brings it back, and after a logout there is none.          *)
GrantDescends == work.grant # None => work.grant.push = granted

(* Whoever is told that the token is usable can use it, also when another  *)
(* caller did the renewal, unless the account was cleared since it began.  *)
ToldOfUsable == \A c \in Askers : asks[c].answer # "wrong"

(* "Returns True if the token is usable afterwards, False otherwise."      *)
ToldMeansUsable == \A c \in Askers : asks[c].answer \notin {"wrong", "outdated"}

(* "Sign the user out of Microsoft: wipe the bound account's token/cookie  *)
(* state": until somebody pushes a credential again, no token is stored.   *)
LogoutSticks == signedOut => work.token = None

(* "Never overwrite an established account with a mismatched identity."    *)
CaptureKeepsOwner ==
  [][work.token # None /\ work'.token # None /\ edits' = edits
       => work'.token.person = work.token.person]_workVars
=============================================================================
