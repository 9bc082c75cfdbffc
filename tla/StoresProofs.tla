----------------------------- MODULE StoresProofs -----------------------------
(***************************************************************************)
(* Proofs about what is kept between requests: whose grant and token an    *)
(* account holds after any renewals (TokenRenewal), what a personal        *)
(* renewal may overwrite and which input it tries (PersonalRenewal), what  *)
(* sign-ins bring (PkceLogins), what is noted of the turns of an account   *)
(* and what a deleted one leaves (TurnNotes), how many requests a key lets *)
(* pass (RateLimits).                                                      *)
(***************************************************************************)
EXTENDS TokenRenewal, PersonalRenewal, PkceLogins, TurnNotes, RateLimits,
        FiniteSetTheorems, SequenceTheorems, WellFoundedInduction, TLAPS

-----------------------------------------------------------------------------
(* Sign-ins.  Every sign-in is pending, waits for the endpoint, has        *)
(* brought a credential, or is over: never two of these, and never twice.  *)

Code == [login : DOMAIN opened, person : Signers]

Exchange == [login : DOMAIN opened, code : Code]

BroughtIn == [login : DOMAIN opened, code : Code, account : PoolAccounts,
            was : Signers \cup {None, "removed"}]

PkceTypes ==
  /\ person \in [PoolAccounts -> Signers \cup {None, "removed"}]
  /\ opened \in Seq(PoolAccounts)
  /\ pending \subseteq DOMAIN opened
  /\ codes \subseteq Code
  /\ exchanges \subseteq Exchange
  /\ signedIn \in Seq(BroughtIn)

OnePlace ==
  /\ \A x \in exchanges : x.login \notin pending
  /\ \A x, y \in exchanges : x.login = y.login => x = y
  /\ \A i \in DOMAIN signedIn :
       /\ signedIn[i].login \notin pending
       /\ \A x \in exchanges : x.login # signedIn[i].login

PkceInv == PkceTypes /\ OnePlace /\ SignInsAreOwn

(* A sign-in that starts gets a number that no other one has.              *)
LEMMA StartIsNew ==
  ASSUME PkceInv, NEW a \in PoolAccounts, StartLogin(a)
  PROVE  PkceInv'
  <1>1. /\ opened' = Append(opened, a) /\ opened' \in Seq(PoolAccounts)
        /\ DOMAIN opened' = DOMAIN opened \cup {Len(opened) + 1}
        /\ Len(opened) + 1 \notin DOMAIN opened
        /\ \A n \in DOMAIN opened : opened'[n] = opened[n]
    BY DEF PkceInv, PkceTypes, StartLogin
  <1>2. /\ pending' = pending \cup {Len(opened) + 1}
        /\ UNCHANGED <<person, codes, exchanges, signedIn>>
    BY DEF StartLogin
  <1>3. /\ Code \subseteq Code' /\ Exchange \subseteq Exchange'
    BY <1>1 DEF Code, Exchange
  <1>4. BroughtIn \subseteq BroughtIn'
    BY <1>1, <1>3 DEF BroughtIn
  <1>5. \A i \in DOMAIN signedIn : signedIn[i] \in BroughtIn
    BY DEF PkceInv, PkceTypes
  <1>6. signedIn \in Seq(BroughtIn')
    BY <1>4, <1>5 DEF PkceInv, PkceTypes
  <1>7. PkceTypes'
    BY <1>1, <1>2, <1>3, <1>6 DEF PkceInv, PkceTypes
  <1>8. \A x \in exchanges : x.login \in DOMAIN opened
    BY DEF PkceInv, PkceTypes, Exchange
  <1>9. \A i \in DOMAIN signedIn : signedIn[i].login \in DOMAIN opened
    BY <1>5 DEF BroughtIn
  <1>10. OnePlace'
    BY <1>1, <1>2, <1>8, <1>9 DEF PkceInv, OnePlace
  <1>11. SignInsAreOwn'
    BY <1>1, <1>2, <1>9 DEF PkceInv, SignInsAreOwn
  <1> QED BY <1>7, <1>10, <1>11 DEF PkceInv

(* Finishing takes the sign-in out of the map before anything is awaited.  *)
LEMMA CompleteConsumes ==
  ASSUME PkceInv, NEW page, NEW code \in codes, NEW bare \in BOOLEAN, Complete(page, code, bare)
  PROVE  PkceInv'
  <1>1. PICK login \in Found(code, bare) :
          /\ pending' = pending \ {login}
          /\ exchanges' = IF Alive(opened[login])
                          THEN exchanges \cup {[login |-> login, code |-> code]} ELSE exchanges
          /\ UNCHANGED <<person, opened, codes, signedIn>>
    BY DEF Complete, Consumed
  <1>2. login \in pending
    BY DEF Found
  <1>3. login \in DOMAIN opened /\ code \in Code
    BY <1>2 DEF PkceInv, PkceTypes
  <1>4. [login |-> login, code |-> code] \in Exchange
    BY <1>3 DEF Exchange
  <1>5. PkceTypes'
    BY <1>1, <1>4 DEF PkceInv, PkceTypes, Code, Exchange, BroughtIn
  <1>6. OnePlace'
    BY <1>1, <1>2 DEF PkceInv, OnePlace
  <1>7. SignInsAreOwn'
    BY <1>1 DEF PkceInv, SignInsAreOwn
  <1> QED BY <1>5, <1>6, <1>7 DEF PkceInv

(* What the endpoint answers is stored for the account of the sign-in, if  *)
(* it still is nobody else's.                                              *)
LEMMA StoresItsOwn ==
  ASSUME PkceInv, NEW x \in exchanges, ExchangeStores(x)
  PROVE  PkceInv'
  <1> DEFINE a == opened[x.login]
             p == x.code.person
             new == [login |-> x.login, code |-> x.code, account |-> a, was |-> person[a]]
  <1>1. /\ x \in Exchange /\ x.login \in DOMAIN opened /\ x.code \in Code
        /\ p \in Signers /\ a \in PoolAccounts /\ x.code.login = x.login
    BY DEF PkceInv, PkceTypes, ExchangeStores, Redeemed, Exchange, Code
  <1>2. new \in BroughtIn
    BY <1>1 DEF BroughtIn, PkceInv, PkceTypes
  <1>3. /\ exchanges' = exchanges \ {x} /\ codes' = codes \ {x.code}
        /\ UNCHANGED <<opened, pending>>
    BY DEF ExchangeStores
  <1>4. /\ person' \in [PoolAccounts -> Signers \cup {None, "removed"}]
    BY <1>1 DEF ExchangeStores, PkceInv, PkceTypes
  <1>5. CASE person[a] \notin {None, p}
    <2>1. signedIn' = signedIn BY <1>5 DEF ExchangeStores
    <2>2. PkceTypes'
      BY <1>3, <1>4, <2>1 DEF PkceInv, PkceTypes, Code, Exchange, BroughtIn
    <2>3. OnePlace' BY <1>3, <2>1 DEF PkceInv, OnePlace
    <2>4. SignInsAreOwn' BY <1>3, <2>1 DEF PkceInv, SignInsAreOwn
    <2> QED BY <2>2, <2>3, <2>4 DEF PkceInv
  <1>6. CASE person[a] \in {None, p}
    <2>1. signedIn' = Append(signedIn, new) BY <1>6 DEF ExchangeStores
    <2>2. /\ signedIn \in Seq(BroughtIn) /\ signedIn' \in Seq(BroughtIn)
          /\ DOMAIN signedIn' = DOMAIN signedIn \cup {Len(signedIn) + 1}
          /\ \A i \in DOMAIN signedIn : signedIn'[i] = signedIn[i]
          /\ signedIn'[Len(signedIn) + 1] = new
      BY <1>2, <2>1 DEF PkceInv, PkceTypes
    <2>3. PkceTypes'
      BY <1>3, <1>4, <2>2 DEF PkceInv, PkceTypes, Code, Exchange, BroughtIn
    <2>4. \A i \in DOMAIN signedIn : signedIn[i].login # x.login
      BY DEF PkceInv, OnePlace
    <2>5. OnePlace'
      BY <1>3, <2>2, <2>4 DEF PkceInv, OnePlace
    <2>6. \A i \in DOMAIN signedIn' :
            LET s == signedIn'[i] IN
            /\ s.code.login = s.login /\ opened'[s.login] = s.account
            /\ s.was \in {None, s.code.person}
      BY <1>1, <1>3, <1>6, <2>2 DEF PkceInv, SignInsAreOwn
    <2>7. \A i, j \in DOMAIN signedIn' : signedIn'[j].login = signedIn'[i].login => j = i
      BY <2>2, <2>4 DEF PkceInv, SignInsAreOwn
    <2>8. SignInsAreOwn' BY <2>6, <2>7 DEF SignInsAreOwn
    <2> QED BY <2>3, <2>5, <2>8 DEF PkceInv
  <1> QED BY <1>5, <1>6

(* For any accounts, identities and number of sign-ins: a credential that  *)
(* a sign-in stores was obtained on its page, went to its account,         *)
(* replaced nobody else's, and is the only one of that sign-in.            *)
THEOREM SignInsStayOwn == PkceSpec => []SignInsAreOwn
  <1>1. PkceInit => PkceInv
    <2> SUFFICES ASSUME PkceInit PROVE PkceInv OBVIOUS
    <2>1. PkceTypes BY DEF PkceInit, PkceTypes, Code, Exchange, BroughtIn
    <2>2. OnePlace BY DEF PkceInit, OnePlace
    <2>3. SignInsAreOwn BY DEF PkceInit, SignInsAreOwn
    <2> QED BY <2>1, <2>2, <2>3 DEF PkceInv
  <1>2. PkceInv /\ [PkceNext]_pkceVars => PkceInv'
    <2> SUFFICES ASSUME PkceInv, [PkceNext]_pkceVars PROVE PkceInv' OBVIOUS
    <2>1. ASSUME NEW a \in PoolAccounts, StartLogin(a) PROVE PkceInv'
      BY <2>1, StartIsNew
    <2>2. ASSUME NEW a \in PoolAccounts, NEW p \in Signers \cup {None, "removed"},
                 TokenChanges(a, p)
          PROVE  PkceInv'
      BY <2>2 DEF TokenChanges, PkceInv, PkceTypes, OnePlace, SignInsAreOwn, Code, Exchange, BroughtIn
    <2>3. ASSUME NEW login \in DOMAIN opened, NEW p \in Signers, SignsInAt(login, p)
          PROVE  PkceInv'
      <3>1. [login |-> login, person |-> p] \in Code BY DEF Code
      <3> QED BY <2>3, <3>1
              DEF SignsInAt, PkceInv, PkceTypes, OnePlace, SignInsAreOwn, Code, Exchange, BroughtIn
    <2>4. ASSUME NEW login \in pending, Expires(login) PROVE PkceInv'
      BY <2>4 DEF Expires, PkceInv, PkceTypes, OnePlace, SignInsAreOwn, Code, Exchange, BroughtIn
    <2>5. ASSUME NEW code \in codes, NEW page \in PoolAccounts \cup {"admin"},
                 RefusesForeign(page, code)
          PROVE  PkceInv'
      BY <2>5 DEF RefusesForeign, Consumed, PkceInv, PkceTypes, OnePlace, SignInsAreOwn,
                  Code, Exchange, BroughtIn
    <2>6. ASSUME NEW code \in codes, NEW page \in PoolAccounts \cup {"admin"},
                 NEW bare \in BOOLEAN, Complete(page, code, bare)
          PROVE  PkceInv'
      BY <2>6, CompleteConsumes
    <2>7. ASSUME NEW x \in exchanges, ExchangeFails(x) PROVE PkceInv'
      BY <2>7 DEF ExchangeFails, PkceInv, PkceTypes, OnePlace, SignInsAreOwn, Code, Exchange, BroughtIn
    <2>8. ASSUME NEW x \in exchanges, ExchangeStores(x) PROVE PkceInv'
      BY <2>8, StoresItsOwn
    <2>9. CASE UNCHANGED pkceVars
      BY <2>9 DEF pkceVars, PkceInv, PkceTypes, OnePlace, SignInsAreOwn, Code, Exchange, BroughtIn
    <2> QED BY <2>1, <2>2, <2>3, <2>4, <2>5, <2>6, <2>7, <2>8, <2>9 DEF PkceNext
  <1>3. PkceInv => SignInsAreOwn BY DEF PkceInv
  <1> QED BY <1>1, <1>2, <1>3, PTL DEF PkceSpec

-----------------------------------------------------------------------------
(* A deleted account.                                                      *)

QuotaInv ==
  /\ "present" \in DOMAIN noted
  /\ DOMAIN quota = {"shown", "forgotten", "removed"}
  /\ quota.removed = "admin" => quota.forgotten /\ ~ quota.shown
  /\ noted.present => quota.removed = "no"

(* For any turns, identities and order of what they report: a reading that *)
(* arrives after the admin deleted the account does not bring it back.     *)
THEOREM ForgottenForGood == NotesSpec => []ForgottenStays
  <1>1. NotesInit => QuotaInv
    BY DEF NotesInit, QuotaInv
  <1>2. QuotaInv /\ [NotesNext]_noteVars => QuotaInv'
    <2> SUFFICES ASSUME QuotaInv, [NotesNext]_noteVars PROVE QuotaInv' OBVIOUS
    <2> USE DEF QuotaInv
    <2>1. ASSUME NEW r \in Turns, NEW mode \in Modes \cup {None}, Dispatch(r, mode)
          PROVE  QuotaInv'
      BY <2>1 DEF Dispatch
    <2>2. ASSUME NEW r \in Turns, Run(r) PROVE QuotaInv'
      BY <2>2 DEF Run
    <2>3. ASSUME NEW r \in Turns, ReportQuota(r) PROVE QuotaInv'
      BY <2>3 DEF ReportQuota, Recorded
    <2>4. ASSUME NEW r \in Turns, EndTurn(r) PROVE QuotaInv'
      <3>1. noted' \in {noted, Throttles(noted, turns[r]), Works(noted, turns[r])}
        BY <2>4 DEF EndTurn
      <3>2. "present" \in DOMAIN noted' /\ noted'.present = noted.present
        BY <3>1 DEF Throttles, Works, Cleared
      <3> QED BY <2>4, <3>2 DEF EndTurn
    <2>5. ASSUME NEW identity \in Identities, Rebind(identity) PROVE QuotaInv'
      BY <2>5 DEF Rebind, Cleared
    <2>6. CASE SwitchProtocol
      BY <2>6 DEF SwitchProtocol
    <2>7. ASSUME NEW by \in {"admin", "user"}, RemoveNoted(by) PROVE QuotaInv'
      BY <2>7 DEF RemoveNoted
    <2>8. CASE Tick \/ UNCHANGED noteVars
      BY <2>8 DEF Tick, noteVars
    <2> QED BY <2>1, <2>2, <2>3, <2>4, <2>5, <2>6, <2>7, <2>8 DEF NotesNext
  <1>3. QuotaInv => ForgottenStays
    BY DEF QuotaInv, ForgottenStays
  <1> QED BY <1>1, <1>2, <1>3, PTL DEF NotesSpec

-----------------------------------------------------------------------------
(* Renewals of one account.  Whatever a caller does to it keeps the grant, *)
(* rotates it or drops it; and a caller that waits for the endpoint has    *)
(* read a grant, which for a renewal is bound to the token it read.        *)

Fields == DOMAIN Blank

Steps == DOMAIN Asker

Kin(b, a) ==
  /\ DOMAIN b = DOMAIN a
  /\ b.grant # None =>
       a.grant # None /\ DOMAIN b.grant = DOMAIN a.grant /\ b.grant.push = a.grant.push

Descends ==
  /\ DOMAIN work = Fields
  /\ work.grant # None => "push" \in DOMAIN work.grant /\ work.grant.push = granted

Sound(q) ==
  /\ DOMAIN q = Steps
  /\ (q.pc = "queued" /\ q.kind = "exchange") \/ q.pc \in {"exchange", "mint", "cloud"}
       => q.read.grant # None
  /\ q.pc = "exchange" => Bound(q.read)

WorkInv ==
  /\ Descends
  /\ DOMAIN asks = Askers
  /\ \A c \in Askers : Sound(asks[c])

OnlyOf(c) == \A d \in Askers \ {c} : asks'[d] = asks[d]

LEMMA FieldsOf ==
  /\ Fields = {"present", "epoch", "token", "life", "email", "grant", "paused", "cookies",
               "valid", "seen", "source", "profile"}
  /\ Steps = {"pc", "kind", "force", "read", "began", "answer"}
  BY DEF Fields, Steps, Blank, Asker

(* What a caller stores is of the same descent.                            *)
LEMMA StoredKin ==
  ASSUME NEW a, DOMAIN a = Fields, a.grant # None => "push" \in DOMAIN a.grant, NEW read
  PROVE  /\ Kin(a, a)
         /\ Kin(CookiesWork(a), a) /\ Kin(CookiesFail(a), a)
         /\ \A g : Kin(DeferGrant(a, g), a) /\ Kin(DropGrant(a, g), a)
         /\ \A g : g # None => Kin(Rotate(a, g), a)
         /\ \A p : Kin(StoreCapture(a, read, p), a)
         /\ \A p : Kin([a EXCEPT !.profile = p], a) /\ Kin([a EXCEPT !.cookies = p], a)
         /\ read.grant # None => \A rotated \in BOOLEAN : Kin(ApplyGrant(a, read, rotated), a)
  <1> USE FieldsOf
  <1>1. Kin(a, a) BY DEF Kin
  <1>2. Kin(CookiesWork(a), a) /\ Kin(CookiesFail(a), a)
    BY DEF Kin, CookiesWork, CookiesFail
  <1>3. \A g : Kin(DeferGrant(a, g), a) /\ Kin(DropGrant(a, g), a)
    BY DEF Kin, DeferGrant, DropGrant
  <1>4. \A g : g # None => Kin(Rotate(a, g), a)
    BY DEF Kin, Rotate
  <1>5. \A p : Kin(StoreCapture(a, read, p), a)
    BY DEF Kin, StoreCapture, CookiesWork, WithToken
  <1>6. \A p : Kin([a EXCEPT !.profile = p], a) /\ Kin([a EXCEPT !.cookies = p], a)
    BY DEF Kin
  <1>7. read.grant # None => \A rotated \in BOOLEAN : Kin(ApplyGrant(a, read, rotated), a)
    BY DEF Kin, ApplyGrant, WithToken
  <1> QED BY <1>1, <1>2, <1>3, <1>4, <1>5, <1>6, <1>7

(* So the grant in force still comes from the last push ...                *)
LEMMA KinDescends ==
  ASSUME WorkInv, Kin(work', work), granted' = granted
  PROVE  Descends'
  BY DEF WorkInv, Descends, Kin

(* ... and one caller's step is enough to look at.                         *)
LEMMA OneCaller ==
  ASSUME WorkInv, Descends', NEW c \in Askers, NEW q, Sound(q), asks' = [asks EXCEPT ![c] = q]
  PROVE  WorkInv' /\ OnlyOf(c)
  BY DEF WorkInv, Sound, Bound, OnlyOf

(* Who is told an answer, queues for a capture or is done, is sound.       *)
LEMMA ToldSound ==
  ASSUME NEW c, NEW q, DOMAIN q = Steps
  PROVE  /\ \A answer : \E p : Sound(p) /\ Done(c, answer) = [asks EXCEPT ![c] = p]
         /\ \A epoch, ok, a :
              \E p : Sound(p) /\ Told(c, epoch, ok, a) = [asks EXCEPT ![c] = p]
         /\ \A a, line : WithoutGrant(c, q, a, line) =>
              \E p : Sound(p) /\ asks' = [asks EXCEPT ![c] = p]
  <1> USE FieldsOf
  <1>1. \A answer : Sound([Asker EXCEPT !.pc = "done", !.answer = answer])
    BY DEF Sound, Steps, Asker
  <1>2. \A answer : \E p : Sound(p) /\ Done(c, answer) = [asks EXCEPT ![c] = p]
    BY <1>1 DEF Done
  <1>3. \A epoch, ok, a :
          \E p : Sound(p) /\ Told(c, epoch, ok, a) = [asks EXCEPT ![c] = p]
    BY <1>2 DEF Told
  <1>4. Sound([q EXCEPT !.pc = "queued", !.kind = "capture", !.began = captures.generation])
    BY DEF Sound
  <1>5. \A a, line : WithoutGrant(c, q, a, line) =>
          \E p : Sound(p) /\ asks' = [asks EXCEPT ![c] = p]
    BY <1>3, <1>4 DEF WithoutGrant, Queue
  <1> QED BY <1>2, <1>3, <1>5

LEMMA ClosesSound ==
  ASSUME NEW c, NEW ok, BrowserCloses(c, ok)
  PROVE  \E p : Sound(p) /\ asks' = [asks EXCEPT ![c] = p]
  <1>1. DOMAIN Asker = Steps BY DEF Steps
  <1> QED BY <1>1, ToldSound DEF BrowserCloses

(* What people push, and what time does.                                   *)
LEMMA OthersDescend ==
  ASSUME WorkInv,
         \/ \E who \in People, signIn \in BOOLEAN : PushToken(who, signIn)
         \/ PushGrant \/ ClearToken \/ TokenAges \/ GrantPauseEnds
  PROVE  WorkInv'
  <1> USE FieldsOf
  <1>1. asks' = asks
    BY DEF PushToken, PushGrant, ClearToken, TokenAges, GrantPauseEnds
  <1>2. ASSUME NEW who \in People, NEW signIn \in BOOLEAN, PushToken(who, signIn)
        PROVE  Descends'
    BY <1>2 DEF PushToken, WithToken, WorkInv, Descends
  <1>3. ASSUME PushGrant PROVE Descends'
    BY <1>3 DEF PushGrant, WorkInv, Descends
  <1>4. ASSUME ClearToken \/ TokenAges \/ GrantPauseEnds PROVE Descends'
    BY <1>4 DEF ClearToken, TokenAges, GrantPauseEnds, WorkInv, Descends
  <1>5. Descends' BY <1>2, <1>3, <1>4
  <1> QED BY <1>1, <1>5 DEF WorkInv, Sound, Bound

(* What a caller asks for, it asks of the account as it is.                *)
LEMMA AsksSound ==
  ASSUME WorkInv, NEW c \in Askers, Asks(c)
  PROVE  WorkInv' /\ OnlyOf(c)
  <1> USE FieldsOf
  <1>1. Kin(work, work)
    BY StoredKin DEF WorkInv, Descends
  <1>2. ASSUME NEW force \in BOOLEAN, NEW grants \in BOOLEAN, EnsureFresh(c, force, grants)
        PROVE  WorkInv' /\ OnlyOf(c)
    <2> DEFINE q == [Asker EXCEPT !.force = force, !.read = work]
    <2>1. DOMAIN q = Steps BY DEF Asker, Steps
    <2>2. Descends' BY <1>1, <1>2, KinDescends DEF EnsureFresh
    <2>3. work.grant # None =>
            Sound([q EXCEPT !.pc = "queued", !.kind = "exchange"])
      BY DEF Sound, Asker, Steps
    <2>4. \E p : Sound(p) /\ asks' = [asks EXCEPT ![c] = p]
      <3>1. CASE WithoutGrant(c, q, work, workLine)
        <4> HIDE DEF q
        <4> QED BY <2>1, <3>1, ToldSound
      <3>2. CASE /\ work.grant # None
                 /\ Queue(c, [q EXCEPT !.pc = "queued", !.kind = "exchange"], workLine)
        BY <2>3, <3>2 DEF Queue
      <3> QED BY <1>2, <3>1, <3>2 DEF EnsureFresh
    <2> QED BY <2>2, <2>4, OneCaller
  <1>3. ASSUME NEW who \in People \cup {None}, InjectCookies(c, who)
        PROVE  WorkInv' /\ OnlyOf(c)
    <2>1. Kin(work', work)
      <3>1. DOMAIN work = Fields /\ (work.grant # None => "push" \in DOMAIN work.grant)
        BY DEF WorkInv, Descends
      <3>2. work' = work \/ work' = [work EXCEPT !.cookies = who]
        BY <1>3 DEF InjectCookies
      <3> QED BY <1>1, <3>1, <3>2 DEF Kin
    <2>2. Descends' BY <1>3, <2>1, KinDescends DEF InjectCookies
    <2>3. Sound([Asker EXCEPT !.pc = "queued", !.kind = "inject", !.read = work',
                              !.force = who = None])
      BY DEF Sound, Asker, Steps
    <2> QED BY <1>3, <2>2, <2>3, OneCaller DEF InjectCookies, Queue
  <1>4. ASSUME NEW kind \in {"clear", "remove", "media"}, WaitForLock(c, kind)
        PROVE  WorkInv' /\ OnlyOf(c)
    <2>1. Descends' BY <1>1, <1>4, KinDescends DEF WaitForLock
    <2>2. Sound([Asker EXCEPT !.pc = "queued", !.kind = kind])
      BY DEF Sound, Asker, Steps
    <2> QED BY <1>4, <2>1, <2>2, OneCaller DEF WaitForLock, Queue
  <1>5. CASE CloudAsks(c)
    <2>1. Descends' BY <1>1, <1>5, KinDescends DEF CloudAsks
    <2>2. Sound([Asker EXCEPT !.pc = "cloud", !.read = work])
      BY <1>5 DEF CloudAsks, Sound, Asker, Steps
    <2> QED BY <1>5, <2>1, <2>2, OneCaller DEF CloudAsks
  <1> QED BY <1>2, <1>3, <1>4, <1>5 DEF Asks

(* A step that keeps or stores, and leaves a sound caller behind.          *)
LEMMA KinStep ==
  ASSUME WorkInv, NEW c \in Askers, Kin(work', work), granted' = granted,
         \E p : Sound(p) /\ asks' = [asks EXCEPT ![c] = p]
  PROVE  WorkInv' /\ OnlyOf(c)
  <1>1. Descends' BY KinDescends
  <1> QED BY <1>1, OneCaller

(* Under the lock, the exchange is tried with the grant that was read.     *)
LEMMA EnterSound ==
  ASSUME WorkInv, NEW c \in Askers,
         EnterExchange(c) \/ EnterCapture(c) \/ EnterInject(c) \/ EnterMint(c)
  PROVE  WorkInv' /\ OnlyOf(c)
  <1> USE FieldsOf
  <1> DEFINE q == asks[c]
  <1>1. /\ DOMAIN work = Fields /\ (work.grant # None => "push" \in DOMAIN work.grant)
        /\ Sound(q) /\ DOMAIN q = Steps
    BY DEF WorkInv, Descends, Sound
  <1>2. Kin(work, work) /\ Kin(DropGrant(work, work.grant), work)
    BY <1>1, StoredKin
  <1>3. /\ \A epoch, ok, a : \E p : Sound(p) /\ Told(c, epoch, ok, a) = [asks EXCEPT ![c] = p]
        /\ \A answer : \E p : Sound(p) /\ Done(c, answer) = [asks EXCEPT ![c] = p]
        /\ \A a, line : WithoutGrant(c, q, a, line) =>
             \E p : Sound(p) /\ asks' = [asks EXCEPT ![c] = p]
    <2> HIDE DEF q
    <2> QED BY <1>1, ToldSound
  <1>4. CASE EnterExchange(c)
    <2>1. Kin(work', work) /\ granted' = granted
      BY <1>2, <1>4 DEF EnterExchange
    <2>2. CASE /\ Holds(c, [q EXCEPT !.pc = "exchange"])
               /\ work.grant = q.read.grant /\ work.token = q.read.token /\ Bound(work)
      <3>1. WorkTurn(c, "exchange") BY <1>4 DEF EnterExchange
      <3>2. q.read.grant # None /\ Bound(q.read)
        BY <1>1, <2>2, <3>1 DEF Sound, WorkTurn, Bound
      <3>3. Sound([q EXCEPT !.pc = "exchange"])
        BY <1>1, <3>2 DEF Sound
      <3> QED BY <2>1, <2>2, <3>3, KinStep DEF Holds
    <2>3. CASE \E a, line : WithoutGrant(c, q, a, line)
      BY <1>3, <2>1, <2>3, KinStep
    <2>4. CASE \E epoch, ok, a : asks' = Told(c, epoch, ok, a)
      <3>1. \E p : Sound(p) /\ asks' = [asks EXCEPT ![c] = p]
        BY <1>3, <2>4
      <3> QED BY <2>1, <3>1, KinStep
    <2> QED BY <1>4, <2>2, <2>3, <2>4 DEF EnterExchange
  <1>5. CASE EnterCapture(c)
    <2>1. Sound([q EXCEPT !.pc = "slot"])
      BY <1>1 DEF Sound
    <2>2. Kin(work', work) /\ granted' = granted
      BY <1>2, <1>5 DEF EnterCapture
    <2>3. \E p : Sound(p) /\ asks' = [asks EXCEPT ![c] = p]
      BY <1>3, <1>5, <2>1 DEF EnterCapture, Holds
    <2> QED BY <2>2, <2>3, KinStep
  <1>6. CASE EnterInject(c)
    <2>1. Sound([q EXCEPT !.pc = "slot"])
      BY <1>1 DEF Sound
    <2>2. Kin(work', work) /\ granted' = granted
      BY <1>2, <1>6 DEF EnterInject
    <2>3. \E p : Sound(p) /\ asks' = [asks EXCEPT ![c] = p]
      BY <1>6, <2>1 DEF EnterInject, Holds
    <2> QED BY <2>2, <2>3, KinStep
  <1>7. CASE EnterMint(c)
    <2>1. work.grant # None => Sound([q EXCEPT !.pc = "mint", !.read = work])
      BY <1>1 DEF Sound
    <2>2. Kin(work', work) /\ granted' = granted
      BY <1>2, <1>7 DEF EnterMint
    <2>3. \E p : Sound(p) /\ asks' = [asks EXCEPT ![c] = p]
      BY <1>3, <1>7, <2>1 DEF EnterMint, Holds
    <2> QED BY <2>2, <2>3, KinStep
  <1> QED BY <1>4, <1>5, <1>6, <1>7

(* A logout leaves no grant, and a removal leaves it as it was.            *)
LEMMA SignOutSound ==
  ASSUME WorkInv, NEW c \in Askers, NEW kind, EnterSignOut(c, kind)
  PROVE  WorkInv' /\ OnlyOf(c)
  <1> USE FieldsOf
  <1>1. \E p : Sound(p) /\ asks' = [asks EXCEPT ![c] = p]
    <2>1. DOMAIN Asker = Steps BY DEF Steps
    <2>2. asks' = Done(c, "none") BY DEF EnterSignOut
    <2> QED BY <2>1, <2>2, ToldSound
  <1>2. Descends'
    BY DEF EnterSignOut, Blank, WorkInv, Descends
  <1> QED BY <1>1, <1>2, OneCaller

(* The endpoint's answer is only stored over the grant that was read.      *)
LEMMA EndpointSound ==
  ASSUME WorkInv, NEW c \in Askers, ExchangeEnds(c) \/ MintEnds(c)
  PROVE  WorkInv' /\ OnlyOf(c)
  <1> USE FieldsOf
  <1> DEFINE q == asks[c]
             read == asks[c].read
  <1>1. /\ DOMAIN work = Fields /\ (work.grant # None => "push" \in DOMAIN work.grant)
        /\ Sound(q) /\ DOMAIN q = Steps /\ read.grant # None
    BY DEF WorkInv, Descends, Sound, ExchangeEnds, MintEnds
  <1>2. /\ Kin(work, work) /\ Kin(DeferGrant(work, read.grant), work)
        /\ Kin(DropGrant(work, read.grant), work) /\ Kin(Rotate(work, read.grant), work)
        /\ \A rotated \in BOOLEAN : Kin(ApplyGrant(work, read, rotated), work)
    <2> HIDE DEF read
    <2> QED BY <1>1, StoredKin
  <1>3. /\ \A epoch, ok, a : \E p : Sound(p) /\ Told(c, epoch, ok, a) = [asks EXCEPT ![c] = p]
        /\ \A answer : \E p : Sound(p) /\ Done(c, answer) = [asks EXCEPT ![c] = p]
        /\ \A a, line : WithoutGrant(c, q, a, line) =>
             \E p : Sound(p) /\ asks' = [asks EXCEPT ![c] = p]
    <2> HIDE DEF q
    <2> QED BY <1>1, ToldSound
  <1>4. Kin(work', work) /\ granted' = granted
    BY <1>2 DEF ExchangeEnds, MintEnds
  <1>5. \E p : Sound(p) /\ asks' = [asks EXCEPT ![c] = p]
    <2>1. CASE MintEnds(c)
      BY <1>3, <2>1 DEF MintEnds
    <2>2. CASE ExchangeEnds(c)
      <3>1. \/ \E a, line : WithoutGrant(c, q, a, line)
            \/ \E epoch, ok, a : asks' = Told(c, epoch, ok, a)
        BY <2>2 DEF ExchangeEnds
      <3> QED BY <1>3, <3>1
    <2> QED BY <2>1, <2>2
  <1> QED BY <1>4, <1>5, KinStep

(* A browser session never touches the grant.                              *)
LEMMA BrowserSound ==
  ASSUME WorkInv, NEW c \in Askers,
         \/ BrowserOpens(c) \/ CookiesSet(c) \/ TokenExtracted(c)
         \/ AfterInjection(c) \/ BareProfile(c) \/ Collected(c)
  PROVE  WorkInv' /\ OnlyOf(c)
  <1> USE FieldsOf
  <1> DEFINE q == asks[c]
  <1>1. /\ DOMAIN work = Fields /\ (work.grant # None => "push" \in DOMAIN work.grant)
        /\ DOMAIN q = Steps
    BY DEF WorkInv, Descends, Sound
  <1>2. granted' = granted
    BY DEF BrowserOpens, CookiesSet, TokenExtracted, AfterInjection, BareProfile, Collected
  <1>3. \A step \in {"bare", "inject", "injected", "extract", "collect"} :
          Sound([q EXCEPT !.pc = step]) /\ \A read : Sound([q EXCEPT !.pc = step, !.read = read])
    BY <1>1 DEF Sound
  <1>4. \A ok : BrowserCloses(c, ok) => \E p : Sound(p) /\ asks' = [asks EXCEPT ![c] = p]
    BY ClosesSound
  <1>5. /\ Kin(work, work) /\ Kin(CookiesFail(work), work)
        /\ \A read, p : Kin(StoreCapture(work, read, p), work)
        /\ \A p : Kin([work EXCEPT !.profile = p], work)
    <2>1. \A read : \A p : Kin(StoreCapture(work, read, p), work)
      BY <1>1, StoredKin
    <2> QED BY <1>1, <2>1, StoredKin
  <1>6. \A p : /\ Kin(CookiesFail([work EXCEPT !.profile = p]), work)
               /\ Kin(CookiesWork([work EXCEPT !.profile = p]), work)
    BY <1>1 DEF Kin, CookiesFail, CookiesWork
  <1>7. CASE BrowserOpens(c)
    <2>1. Kin(work', work) BY <1>5, <1>7 DEF BrowserOpens
    <2>2. \E p : Sound(p) /\ asks' = [asks EXCEPT ![c] = p]
      <3> DEFINE cookies == IF q.kind = "inject" THEN q.read.cookies ELSE work.cookies
                 step == IF cookies = None THEN "bare" ELSE "inject"
                 read == [work EXCEPT !.cookies = cookies]
      <3>1. CASE BrowserCloses(c, FALSE)
        BY <1>4, <3>1
      <3>2. CASE asks' = [asks EXCEPT ![c].pc = step, ![c].read = read]
        <4>1. asks' = [asks EXCEPT ![c] = [q EXCEPT !.pc = step, !.read = read]]
          BY <3>2
        <4>2. Sound([q EXCEPT !.pc = step, !.read = read])
          BY <1>3
        <4> QED BY <4>1, <4>2
      <3> QED BY <1>7, <3>1, <3>2 DEF BrowserOpens
    <2> QED BY <1>2, <2>1, <2>2, KinStep
  <1>8. CASE CookiesSet(c)
    <2>1. Kin(work', work) BY <1>5, <1>6, <1>8 DEF CookiesSet
    <2>2. \E p : Sound(p) /\ asks' = [asks EXCEPT ![c] = p]
      BY <1>3, <1>8 DEF CookiesSet
    <2> QED BY <1>2, <2>1, <2>2, KinStep
  <1>9. CASE TokenExtracted(c)
    <2>1. Kin(work', work) BY <1>5, <1>9 DEF TokenExtracted
    <2>2. \E p : Sound(p) /\ asks' = [asks EXCEPT ![c] = p]
      BY <1>3, <1>9 DEF TokenExtracted
    <2> QED BY <1>2, <2>1, <2>2, KinStep
  <1>10. CASE AfterInjection(c)
    <2>1. Kin(work', work) BY <1>5, <1>10 DEF AfterInjection
    <2>2. \E p : Sound(p) /\ asks' = [asks EXCEPT ![c] = p]
      BY <1>3, <1>4, <1>10 DEF AfterInjection
    <2> QED BY <1>2, <2>1, <2>2, KinStep
  <1>11. CASE BareProfile(c)
    <2>1. Kin(work', work)
      <3>1. \/ work' \in {work, CookiesFail(work)}
            \/ work' = StoreCapture(work, q.read, work.profile)
        BY <1>11 DEF BareProfile
      <3> QED BY <1>5, <3>1
    <2>2. \E p : Sound(p) /\ asks' = [asks EXCEPT ![c] = p]
      BY <1>3, <1>4, <1>11 DEF BareProfile
    <2> QED BY <1>2, <2>1, <2>2, KinStep
  <1>12. CASE Collected(c)
    <2>1. Kin(work', work) BY <1>5, <1>12 DEF Collected
    <2>2. \E p : Sound(p) /\ asks' = [asks EXCEPT ![c] = p]
      BY <1>4, <1>12 DEF Collected
    <2> QED BY <1>2, <2>1, <2>2, KinStep
  <1> QED BY <1>7, <1>8, <1>9, <1>10, <1>11, <1>12

LEMMA WorkStays ==
  /\ WorkInit => WorkInv
  /\ WorkInv /\ [WorkNext]_workVars => WorkInv'
  <1> USE FieldsOf
  <1>1. WorkInit => WorkInv
    <2> SUFFICES ASSUME WorkInit PROVE WorkInv OBVIOUS
    <2>1. Descends
      <3>1. CASE work = Blank /\ granted = 0
        BY <3>1 DEF Descends, Fields, Blank
      <3>2. ASSUME NEW who \in People, work = Established(who), granted = 1
            PROVE  Descends
        BY <3>2 DEF Descends, Established, Fields, Blank
      <3>3. \A who \in People : Established(who) # Blank
        BY DEF Established, Blank
      <3> QED BY <3>1, <3>2, <3>3 DEF WorkInit
    <2>2. Sound(Asker) BY DEF Sound, Asker, Steps
    <2> QED BY <2>1, <2>2 DEF WorkInit, WorkInv
  <1>2. ASSUME WorkInv, WorkNext PROVE WorkInv'
    <2>1. ASSUME NEW c \in Askers, Proceeds(c) PROVE WorkInv'
      BY <1>2, <2>1, EnterSound, SignOutSound, EndpointSound, BrowserSound DEF Proceeds
    <2>2. ASSUME NEW c \in Askers, Asks(c) PROVE WorkInv'
      BY <1>2, <2>2, AsksSound
    <2> QED BY <1>2, <2>1, <2>2, OthersDescend DEF WorkNext
  <1>3. ASSUME WorkInv, UNCHANGED workVars PROVE WorkInv'
    BY <1>3 DEF workVars, WorkInv, Descends, Sound, Bound
  <1> QED BY <1>1, <1>2, <1>3

(* For any callers, identities, pushes and rotations: the grant in force   *)
(* is the last one a person brought in, or a rotation of it.               *)
THEOREM GrantStaysInForce == WorkSpec => []GrantDescends
  <1>1. WorkInv => GrantDescends BY DEF WorkInv, Descends, GrantDescends
  <1> QED BY <1>1, WorkStays, PTL DEF WorkSpec

(* Only the answer of the endpoint ends an exchange ...                    *)
LEMMA OnlyEndpointEnds ==
  ASSUME WorkInv, WorkNext, NEW c \in Askers,
         asks[c].pc = "exchange", asks'[c].pc # "exchange"
  PROVE  ExchangeEnds(c)
  <1>1. ASSUME NEW d \in Askers, Asks(d) PROVE d = c /\ asks[d].pc = "idle"
    <2>1. OnlyOf(d) BY <1>1, AsksSound
    <2>2. asks[d].pc = "idle"
      BY <1>1 DEF Asks, EnsureFresh, InjectCookies, WaitForLock, CloudAsks
    <2> QED BY <2>1, <2>2 DEF OnlyOf
  <1>2. ASSUME NEW d \in Askers, Proceeds(d) PROVE d = c
    BY <1>2, EnterSound, SignOutSound, EndpointSound, BrowserSound DEF Proceeds, OnlyOf
  <1>3. ~ Asks(c) BY <1>1
  <1>4. Proceeds(c) => ExchangeEnds(c)
    BY DEF Proceeds, EnterExchange, EnterCapture, EnterInject, EnterMint, EnterSignOut, WorkTurn,
           MintEnds, BrowserOpens, CookiesSet, TokenExtracted, AfterInjection, BareProfile,
           Collected
  <1>5. CASE asks' = asks BY <1>5
  <1>6. CASE \E d \in Askers : Asks(d) \/ Proceeds(d)
    BY <1>1, <1>2, <1>3, <1>4, <1>6
  <1> QED BY <1>5, <1>6
          DEF WorkNext, PushToken, PushGrant, ClearToken, TokenAges, GrantPauseEnds

(* For any callers, identities, pushes and rotations: what an exchange     *)
(* over HTTP stores is for the identity the account has, and replaces the  *)
(* token that the exchange had read.                                       *)
THEOREM ExchangesKeepOwner == WorkSpec => ExchangeKeepsOwner
  <1>1. ASSUME WorkInv, WorkNext, NEW c \in Askers,
               asks[c].pc = "exchange", asks'[c].pc # "exchange", work'.token # work.token
        PROVE  work'.token.person = work.token.person /\ work.token = asks[c].read.token
    <2> DEFINE read == asks[c].read
    <2>1. ExchangeEnds(c) BY <1>1, OnlyEndpointEnds
    <2>2. DOMAIN work = Fields /\ Bound(read)
      BY <1>1 DEF WorkInv, Descends, Sound
    <2>3. /\ DeferGrant(work, read.grant).token = work.token
          /\ DropGrant(work, read.grant).token = work.token
      BY <2>2, FieldsOf DEF DeferGrant, DropGrant
    <2>4. PICK rotated \in BOOLEAN : work' = ApplyGrant(work, read, rotated)
      BY <1>1, <2>1, <2>3 DEF ExchangeEnds
    <2>5. /\ work.token = read.token
          /\ work'.token.person = read.grant.person
      BY <1>1, <2>2, <2>4, FieldsOf DEF ApplyGrant, WithToken, Token
    <2> QED BY <2>2, <2>5 DEF Bound
  <1>2. WorkInv /\ [WorkNext]_workVars =>
          [\A c \in Askers :
             asks[c].pc = "exchange" /\ asks'[c].pc # "exchange" /\ work'.token # work.token
               => work'.token.person = work.token.person
                  /\ work.token = asks[c].read.token]_workVars
    BY <1>1
  <1> QED BY <1>2, WorkStays, PTL DEF WorkSpec, ExchangeKeepsOwner

-----------------------------------------------------------------------------
(* Who is told that the token is usable can use it.                        *)

Persons == People \cup {None}

\* Whose the credentials are.
Peopled(a) ==
  /\ DOMAIN a = Fields /\ a.epoch \in Nat
  /\ a.cookies \in Persons /\ a.profile \in Persons
  /\ a.grant # None => "person" \in DOMAIN a.grant /\ a.grant.person \in Persons
  /\ a.token # None => a.token.person \in Persons

\* What a renewal of epoch e leaves, while that is the account's.
Since(a, e) == SameEpoch(a, e) => Lasts(a)

\* Where an account gets: an epoch never comes back, nor does an account
\* that was removed, and only time takes a token that lasts.
Onward(b, a) ==
  /\ Peopled(b) /\ a.epoch <= b.epoch
  /\ SameEpoch(b, a.epoch) => a.present /\ (Lasts(a) => Lasts(b))

Browsing == {"inject", "extract", "injected", "bare", "collect"}

Locked == {"exchange", "mint", "slot"} \cup Browsing

Waiting(line, c) == \E i \in 1..Len(line) : line[i] = c

\* A caller that holds or waits for the lock.  The capture it waits for is
\* the next one, or one came in between: that one left a token if it said so.
Fits(q, c, a, caps, line, h) ==
  /\ q.answer # "wrong"
  /\ q.pc \in Locked => h = c
  /\ q.pc = "queued" => Waiting(line, c)
  /\ q.pc \in Browsing \/ (q.pc \in {"queued", "slot"} /\ q.kind = "inject") => q.read.cookies \in Persons
  /\ q.pc \in Browsing => q.read.epoch \in Nat /\ q.read.epoch <= a.epoch
  /\ q.pc = "collect" => Since(a, q.read.epoch)
  /\ q.pc = "queued" /\ q.kind = "capture" =>
       /\ q.began \in Nat /\ q.began <= caps.generation
       /\ q.began # caps.generation /\ caps.result = TRUE => Since(a, caps.epoch)
  /\ q.pc \in {"slot"} \cup Browsing /\ q.kind = "capture" => q.began = caps.generation

CapturesOK(caps, a) ==
  /\ caps.generation \in Nat
  /\ caps.result = TRUE => caps.epoch \in Nat /\ caps.epoch <= a.epoch

ToldInv ==
  /\ Peopled(work) /\ stored \in Nat /\ workLine \in Seq(Askers)
  /\ CapturesOK(captures, work)
  /\ \A c \in Askers : Fits(asks[c], c, work, captures, workLine, workHolder)

(* A token is something.                                                   *)
LEMMA TokenIsSome ==
  ASSUME stored \in Nat, NEW p \in Persons
  PROVE  Token(p) # None /\ Token(p).person = p
  BY AskersAssumption DEF Token, Persons

(* An account whose epoch and presence stay, and whose token does unless   *)
(* it is a new one.                                                        *)
LEMMA OnwardIf ==
  ASSUME NEW a, NEW b, Peopled(a), Peopled(b), b.epoch = a.epoch, b.present = a.present,
         (b.token = a.token /\ b.life = a.life) \/ Lasts(b)
  PROVE  Onward(b, a)
  BY DEF Onward, SameEpoch, Lasts, Peopled

(* What a caller or a person stores takes the account forward.             *)
LEMMA StoredOnward ==
  ASSUME NEW a, Peopled(a), stored \in Nat
  PROVE  /\ Onward(a, a)
         /\ \A p \in Persons : Onward([a EXCEPT !.profile = p], a) /\ Onward([a EXCEPT !.cookies = p], a)
         /\ Onward(CookiesWork(a), a) /\ Onward(CookiesFail(a), a)
         /\ \A g : Onward(DeferGrant(a, g), a) /\ Onward(DropGrant(a, g), a)
         /\ \A g : g # None => Onward(Rotate(a, g), a)
  <1> USE FieldsOf
  <1>1. Onward(a, a) BY OnwardIf
  <1>2. ASSUME NEW p \in Persons
        PROVE  Onward([a EXCEPT !.profile = p], a) /\ Onward([a EXCEPT !.cookies = p], a)
    BY OnwardIf DEF Peopled
  <1>3. Onward(CookiesWork(a), a) /\ Onward(CookiesFail(a), a)
    BY OnwardIf DEF Peopled, CookiesWork, CookiesFail
  <1>4. ASSUME NEW g PROVE Onward(DeferGrant(a, g), a) /\ Onward(DropGrant(a, g), a)
    BY OnwardIf DEF Peopled, DeferGrant, DropGrant
  <1>5. ASSUME NEW g, g # None PROVE Onward(Rotate(a, g), a)
    <2> DEFINE h == [g EXCEPT !.turns = @ + 1]
    <2>1. a.grant = g => "person" \in DOMAIN h /\ h.person \in Persons
      BY <1>5 DEF Peopled
    <2>2. Rotate(a, g) = a \/ (a.grant = g /\ Rotate(a, g) = [a EXCEPT !.grant = h, !.paused = FALSE])
      BY DEF Rotate
    <2> HIDE DEF h
    <2>3. a.grant = g => Onward([a EXCEPT !.grant = h, !.paused = FALSE], a)
      BY <2>1, OnwardIf DEF Peopled
    <2> QED BY <1>1, <2>2, <2>3
  <1> QED BY <1>1, <1>2, <1>3, <1>4, <1>5

\* An account with a token that was just stored.
LEMMA WithTokenLasts ==
  ASSUME NEW a, Peopled(a), stored \in Nat, NEW p \in Persons
  PROVE  /\ Peopled(WithToken(a, p)) /\ Lasts(WithToken(a, p)) /\ Onward(WithToken(a, p), a)
         /\ WithToken(a, p).grant = a.grant /\ WithToken(a, p).present = a.present
         /\ WithToken(a, p).epoch = a.epoch
  <1> DEFINE t == Token(p)
             b == WithToken(a, p)
  <1>1. t # None /\ t.person = p BY TokenIsSome
  <1>2. b = [a EXCEPT !.token = t, !.life = "fresh", !.email = p] BY DEF WithToken
  <1> HIDE DEF t
  <1>3. /\ DOMAIN b = Fields /\ b.token = t /\ b.life = "fresh" /\ b.epoch = a.epoch
        /\ b.present = a.present /\ b.grant = a.grant /\ b.cookies = a.cookies
        /\ b.profile = a.profile
    BY <1>2, FieldsOf DEF Peopled
  <1> HIDE DEF b
  <1>4. Peopled(b) /\ Lasts(b) BY <1>1, <1>3 DEF Peopled, Lasts
  <1>5. Onward(b, a) BY <1>3, <1>4, OnwardIf
  <1> QED BY <1>3, <1>4, <1>5 DEF b

(* A capture is not stored, or leaves a token that lasts.                  *)
LEMMA CaptureOnward ==
  ASSUME NEW a, Peopled(a), stored \in Nat, NEW read, NEW p \in Persons
  PROVE  /\ Onward(StoreCapture(a, read, p), a)
         /\ StoreCapture(a, read, p) # a => Lasts(StoreCapture(a, read, p))
  <1> DEFINE b == WithToken(a, p)
             k == CookiesWork(b)
  <1>1. /\ Peopled(b) /\ Lasts(b) /\ b.present = a.present /\ b.epoch = a.epoch
    BY WithTokenLasts
  <1>2. StoreCapture(a, read, p) \in {a, k}
    BY DEF StoreCapture
  <1>3. Onward(a, a) BY StoredOnward
  <1> HIDE DEF b
  <1>4. /\ DOMAIN k = Fields /\ k.epoch = b.epoch /\ k.present = b.present /\ k.token = b.token
        /\ k.life = b.life /\ k.cookies = b.cookies /\ k.profile = b.profile /\ k.grant = b.grant
    BY <1>1, FieldsOf DEF CookiesWork, Peopled
  <1> HIDE DEF k
  <1>5. Peopled(k) /\ Lasts(k) BY <1>1, <1>4 DEF Peopled, Lasts
  <1>6. Onward(k, a) BY <1>1, <1>4, <1>5, OnwardIf
  <1> QED BY <1>2, <1>3, <1>5, <1>6

(* So does an exchange.                                                    *)
LEMMA GrantOnward ==
  ASSUME NEW a, Peopled(a), stored \in Nat, NEW read, read.grant # None, NEW rotated \in BOOLEAN
  PROVE  /\ Onward(ApplyGrant(a, read, rotated), a)
         /\ ApplyGrant(a, read, rotated) # a => Lasts(ApplyGrant(a, read, rotated)) /\ a.present
  <1> DEFINE p == read.grant.person
             b == WithToken(a, p)
             g == IF rotated THEN [read.grant EXCEPT !.turns = @ + 1] ELSE b.grant
             k == [b EXCEPT !.grant = g, !.paused = FALSE]
  <1>1. Onward(a, a) BY StoredOnward
  <1>2. CASE a.grant # read.grant \/ ~ SameEpoch(a, read.epoch) \/ a.token # read.token
    BY <1>1, <1>2 DEF ApplyGrant
  <1>3. CASE a.grant = read.grant /\ SameEpoch(a, read.epoch) /\ a.token = read.token
    <2>1. p \in Persons /\ a.present BY <1>3 DEF Peopled, SameEpoch
    <2> HIDE DEF p
    <2>2. /\ Peopled(b) /\ Lasts(b) /\ b.present = a.present /\ b.epoch = a.epoch
          /\ b.grant = a.grant
      BY <2>1, WithTokenLasts
    <2>3. ApplyGrant(a, read, rotated) = k
      BY <1>3, <2>2 DEF ApplyGrant, p
    <2>4. g # None => "person" \in DOMAIN g /\ g.person \in Persons
      BY <1>3, <2>2 DEF Peopled
    <2> HIDE DEF g, b
    <2>5. /\ DOMAIN k = Fields /\ k.epoch = b.epoch /\ k.present = b.present /\ k.token = b.token
          /\ k.life = b.life /\ k.cookies = b.cookies /\ k.profile = b.profile /\ k.grant = g
      BY <2>2, FieldsOf DEF Peopled
    <2> HIDE DEF k
    <2>6. Peopled(k) /\ Lasts(k) BY <2>2, <2>4, <2>5 DEF Peopled, Lasts
    <2>7. Onward(k, a) BY <2>2, <2>5, <2>6, OnwardIf
    <2> QED BY <2>1, <2>3, <2>6, <2>7
  <1> QED BY <1>2, <1>3

(* Injected cookies are the profile's.                                     *)
LEMMA ProfileOnward ==
  ASSUME NEW a, Peopled(a), stored \in Nat, NEW p \in Persons
  PROVE  /\ Onward(CookiesFail([a EXCEPT !.profile = p]), a)
         /\ Onward(CookiesWork([a EXCEPT !.profile = p]), a)
  <1> DEFINE b == [a EXCEPT !.profile = p]
             f == CookiesFail(b)
             w == CookiesWork(b)
  <1>1. /\ DOMAIN b = Fields /\ b.epoch = a.epoch /\ b.present = a.present /\ b.token = a.token
        /\ b.life = a.life /\ b.cookies = a.cookies /\ b.profile = p /\ b.grant = a.grant
    BY FieldsOf DEF Peopled
  <1> HIDE DEF b
  <1>2. /\ DOMAIN f = Fields /\ f.epoch = b.epoch /\ f.present = b.present /\ f.token = b.token
        /\ f.life = b.life /\ f.cookies = b.cookies /\ f.profile = b.profile /\ f.grant = b.grant
    BY <1>1, FieldsOf DEF CookiesFail
  <1>3. /\ DOMAIN w = Fields /\ w.epoch = b.epoch /\ w.present = b.present /\ w.token = b.token
        /\ w.life = b.life /\ w.cookies = b.cookies /\ w.profile = b.profile /\ w.grant = b.grant
    BY <1>1, FieldsOf DEF CookiesWork
  <1> HIDE DEF f, w
  <1>4. Onward(f, a) BY <1>1, <1>2, OnwardIf DEF Peopled
  <1>5. Onward(w, a) BY <1>1, <1>3, OnwardIf DEF Peopled
  <1> QED BY <1>4, <1>5 DEF b, f, w

LEMMA SinceOnward ==
  ASSUME NEW a, NEW b, Peopled(a), Onward(b, a), NEW e \in Nat, e <= a.epoch
  PROVE  e <= b.epoch /\ (Since(a, e) => Since(b, e))
  <1>1. a.epoch \in Nat /\ b.epoch \in Nat /\ a.epoch <= b.epoch
    BY DEF Peopled, Onward
  <1>2. ASSUME Since(a, e), SameEpoch(b, e) PROVE Lasts(b)
    <2>1. b.epoch = e /\ a.epoch = e /\ b.present BY <1>1, <1>2 DEF SameEpoch
    <2>2. SameEpoch(b, a.epoch) BY <2>1 DEF SameEpoch
    <2>3. SameEpoch(a, e) BY <2>1, <2>2 DEF Onward, SameEpoch
    <2> QED BY <1>2, <2>2, <2>3 DEF Onward, Since
  <1> QED BY <1>1, <1>2 DEF Since

(* A caller fits what comes of the account, of the line and of the lock    *)
(* through others, and the captures they end.                              *)
LEMMA FitsOnward ==
  ASSUME NEW q, NEW d, NEW a, NEW b, NEW caps, NEW after, NEW line, NEW new, NEW h, NEW k,
         Peopled(a), Onward(b, a), CapturesOK(caps, a), Fits(q, d, a, caps, line, h),
         Waiting(line, d) => Waiting(new, d), k = h \/ h # d,
         after = caps \/ (h # d /\ after.generation = caps.generation + 1
                            /\ (after.result = TRUE => Since(b, after.epoch)))
  PROVE  Fits(q, d, b, after, new, k)
  <1>1. /\ caps.generation \in Nat
        /\ q.answer # "wrong" /\ (q.pc \in Locked => h = d)
        /\ q.pc = "queued" => Waiting(new, d)
        /\ q.pc \in Browsing \/ (q.pc \in {"queued", "slot"} /\ q.kind = "inject") => q.read.cookies \in Persons
    BY DEF Fits, CapturesOK
  <1>2. q.pc \in {"slot"} \cup Browsing => q.pc \in Locked BY DEF Locked
  <1>3. q.pc \in Locked => k = d BY <1>1
  <1>4. q.pc \in Browsing => q.read.epoch \in Nat /\ q.read.epoch <= b.epoch
    BY SinceOnward DEF Fits
  <1>5. q.pc = "collect" => Since(b, q.read.epoch)
    <2>1. "collect" \in Browsing BY DEF Browsing
    <2> QED BY <2>1, SinceOnward DEF Fits
  <1>6. ASSUME q.pc = "queued", q.kind = "capture"
        PROVE  /\ q.began \in Nat /\ q.began <= after.generation
               /\ q.began # after.generation /\ after.result = TRUE => Since(b, after.epoch)
    <2>1. /\ q.began \in Nat /\ q.began <= caps.generation
          /\ q.began # caps.generation /\ caps.result = TRUE => Since(a, caps.epoch)
      BY <1>6 DEF Fits
    <2>2. CASE after = caps
      <3>1. caps.result = TRUE /\ Since(a, caps.epoch) => Since(b, caps.epoch)
        BY SinceOnward DEF CapturesOK
      <3> QED BY <2>1, <2>2, <3>1
    <2>3. CASE after.generation = caps.generation + 1 /\ (after.result = TRUE => Since(b, after.epoch))
      BY <1>1, <2>1, <2>3
    <2> QED BY <2>2, <2>3
  <1>7. q.pc \in {"slot"} \cup Browsing /\ q.kind = "capture" => q.began = after.generation
    BY <1>1, <1>2 DEF Fits
  <1> QED BY <1>1, <1>3, <1>4, <1>5, <1>6, <1>7 DEF Fits

(* One caller's step is enough to look at.                                 *)
LEMMA FitsStep ==
  ASSUME WorkInv, ToldInv, NEW c \in Askers, NEW p, asks' = [asks EXCEPT ![c] = p],
         Onward(work', work), stored' \in Nat, workLine' \in Seq(Askers),
         \A d \in Askers \ {c} : Waiting(workLine, d) => Waiting(workLine', d),
         workHolder' = workHolder \/ workHolder \in {None, c},
         \/ captures' = captures
         \/ /\ workHolder = c /\ captures'.generation = captures.generation + 1
            /\ captures'.result = TRUE =>
                 captures'.epoch \in Nat /\ captures'.epoch <= work'.epoch /\ Since(work', captures'.epoch),
         Fits(p, c, work', captures', workLine', workHolder')
  PROVE  ToldInv'
  <1>1. Peopled(work') /\ CapturesOK(captures', work')
    <2>1. captures' = captures => CapturesOK(captures', work')
      BY SinceOnward DEF CapturesOK, ToldInv
    <2> QED BY <2>1 DEF ToldInv, CapturesOK, Onward
  <1>2. ASSUME NEW d \in Askers \ {c}
        PROVE  Fits(asks'[d], d, work', captures', workLine', workHolder')
    <2>1. asks'[d] = asks[d] /\ d # None
      BY AskersAssumption DEF WorkInv
    <2>2. workHolder' = workHolder \/ workHolder # d
      BY <2>1
    <2>3. Fits(asks[d], d, work, captures, workLine, workHolder) BY DEF ToldInv
    <2>4. Peopled(work) /\ CapturesOK(captures, work) BY DEF ToldInv
    <2> QED BY <2>1, <2>2, <2>3, <2>4, FitsOnward
  <1>3. asks'[c] = p BY DEF WorkInv
  <1>4. \A d \in Askers : Fits(asks'[d], d, work', captures', workLine', workHolder')
    BY <1>2, <1>3
  <1> QED BY <1>1, <1>4 DEF ToldInv

(* A line that grows by a caller, and one whose first is served.           *)
LEMMA LineGrows ==
  ASSUME NEW line \in Seq(Askers), NEW c \in Askers, NEW new, new = Append(line, c)
  PROVE  new \in Seq(Askers) /\ Waiting(new, c) /\ \A d : Waiting(line, d) => Waiting(new, d)
  <1>1. /\ new \in Seq(Askers) /\ Len(line) \in Nat
        /\ Len(new) = Len(line) + 1 /\ new[Len(line) + 1] = c
        /\ \A i \in 1..Len(line) : new[i] = line[i]
    OBVIOUS
  <1>2. Waiting(new, c) BY <1>1 DEF Waiting
  <1>3. \A d : Waiting(line, d) => Waiting(new, d) BY <1>1 DEF Waiting
  <1> QED BY <1>1, <1>2, <1>3

LEMMA LineShrinks ==
  ASSUME NEW line \in Seq(Askers), line # <<>>, NEW c, Head(line) = c, NEW new, new = Tail(line)
  PROVE  new \in Seq(Askers) /\ \A d : d # c /\ Waiting(line, d) => Waiting(new, d)
  <1>1. /\ new \in Seq(Askers) /\ Len(new) = Len(line) - 1 /\ line[1] = c /\ Len(line) \in Nat
        /\ \A i \in 1..Len(line) - 1 : new[i] = line[i + 1]
    OBVIOUS
  <1>2. ASSUME NEW d, d # c, NEW i \in 1..Len(line), line[i] = d
        PROVE  i - 1 \in 1..Len(new) /\ new[i - 1] = d
    <2>1. i # 1 BY <1>1, <1>2
    <2>2. i - 1 \in 1..Len(line) - 1 /\ (i - 1) + 1 = i BY <1>1, <2>1
    <2> QED BY <1>1, <1>2, <2>2
  <1>3. ASSUME NEW d, d # c, Waiting(line, d) PROVE Waiting(new, d)
    BY <1>2, <1>3 DEF Waiting
  <1> QED BY <1>1, <1>3

(* Who is done and was not told wrong fits any account, and so does who    *)
(* just queued for the next capture.                                       *)
LEMMA OutsideFits ==
  ASSUME NEW p, p.answer # "wrong", NEW c, NEW a, NEW caps, NEW line, NEW h,
         \/ p.pc \in {"done", "cloud"}
         \/ /\ p.pc = "queued" /\ Waiting(line, c) /\ p.kind # "inject"
            /\ p.kind = "capture" => p.began = caps.generation /\ caps.generation \in Nat
         \/ p.pc = "queued" /\ Waiting(line, c) /\ p.kind = "inject" /\ p.read.cookies \in Persons
  PROVE  Fits(p, c, a, caps, line, h)
  BY DEF Fits, Locked, Browsing

LEMMA ToldFits ==
  ASSUME NEW c, NEW epoch, NEW ok, NEW a, ok /\ SameEpoch(a, epoch) => Usable(a)
  PROVE  \E p : p.answer # "wrong" /\ p.pc = "done" /\ Told(c, epoch, ok, a) = [asks EXCEPT ![c] = p]
  <1> DEFINE answer == IF ~ ok THEN "false" ELSE IF Usable(a) THEN "true"
                       ELSE IF SameEpoch(a, epoch) THEN "wrong" ELSE "outdated"
             p == [Asker EXCEPT !.pc = "done", !.answer = answer]
  <1>1. answer # "wrong" OBVIOUS
  <1>2. p.pc = "done" /\ p.answer = answer BY DEF Asker
  <1>3. Told(c, epoch, ok, a) = [asks EXCEPT ![c] = p] BY DEF Told, Done
  <1> HIDE DEF p, answer
  <1> QED BY <1>1, <1>2, <1>3

LEMMA NoneFits ==
  ASSUME NEW c
  PROVE  \E p : p.answer # "wrong" /\ p.pc = "done" /\ Done(c, "none") = [asks EXCEPT ![c] = p]
  BY DEF Done, Asker

(* Who goes without the grant is told truly, or queues for a capture.      *)
LEMMA WithoutFits ==
  ASSUME NEW c \in Askers, NEW q, DOMAIN q = Steps, q.answer # "wrong", NEW a,
         captures.generation \in Nat, NEW line \in Seq(Askers), WithoutGrant(c, q, a, line)
  PROVE  /\ workLine' \in Seq(Askers) /\ \A d : Waiting(line, d) => Waiting(workLine', d)
         /\ \E p : /\ asks' = [asks EXCEPT ![c] = p]
                   /\ \A b, h : Fits(p, c, b, captures, workLine', h)
  <1>1. CASE /\ a.source # "cdp" \/ Lasts(a)
             /\ asks' = Told(c, q.read.epoch, a.source # "cdp" => a.token # None /\ a.life # "expired", a)
             /\ workLine' = line
    <2> DEFINE has == a.source # "cdp" => a.token # None /\ a.life # "expired"
               epoch == q.read.epoch
    <2>1. has /\ SameEpoch(a, epoch) => Usable(a)
      BY <1>1 DEF Usable, Lasts, SameEpoch
    <2>2. asks' = Told(c, epoch, has, a) BY <1>1
    <2> HIDE DEF has, epoch
    <2>3. PICK p : p.answer # "wrong" /\ p.pc = "done" /\ Told(c, epoch, has, a) = [asks EXCEPT ![c] = p]
      BY <2>1, ToldFits
    <2>4. \A b, h : Fits(p, c, b, captures, workLine', h) BY <2>3, OutsideFits
    <2> QED BY <1>1, <2>2, <2>3, <2>4
  <1>2. CASE Queue(c, [q EXCEPT !.pc = "queued", !.kind = "capture",
                                !.began = captures.generation], line)
    <2> DEFINE p == [q EXCEPT !.pc = "queued", !.kind = "capture", !.began = captures.generation]
    <2>1. /\ p.pc = "queued" /\ p.kind = "capture" /\ p.began = captures.generation
          /\ p.answer # "wrong"
      BY FieldsOf
    <2>2. asks' = [asks EXCEPT ![c] = p] /\ workLine' = Append(line, c) BY <1>2 DEF Queue
    <2> HIDE DEF p
    <2>3. /\ workLine' \in Seq(Askers) /\ Waiting(workLine', c)
          /\ \A d : Waiting(line, d) => Waiting(workLine', d)
      BY <2>2, LineGrows
    <2>4. ASSUME NEW b, NEW h PROVE Fits(p, c, b, captures, workLine', h)
      BY <2>1, <2>3, OutsideFits
    <2> QED BY <2>2, <2>3, <2>4
  <1> QED BY <1>1, <1>2 DEF WithoutGrant

(* A caller asks of the account as it is.                                  *)
LEMMA AsksFits ==
  ASSUME WorkInv, ToldInv, NEW c \in Askers, Asks(c)
  PROVE  ToldInv'
  <1> USE FieldsOf
  <1>1. /\ Peopled(work) /\ stored \in Nat /\ workLine \in Seq(Askers) /\ captures.generation \in Nat
        /\ DOMAIN work = Fields
    BY DEF ToldInv, CapturesOK, Peopled
  <1>2. Onward(work, work) BY <1>1, StoredOnward
  <1>3. ASSUME NEW force \in BOOLEAN, NEW grants \in BOOLEAN, EnsureFresh(c, force, grants)
        PROVE  ToldInv'
    <2> DEFINE q == [Asker EXCEPT !.force = force, !.read = work]
               p == [q EXCEPT !.pc = "queued", !.kind = "exchange"]
    <2>1. DOMAIN q = Steps /\ q.answer # "wrong" BY DEF Asker, Steps
    <2>2. p.pc = "queued" /\ p.kind = "exchange" /\ p.answer # "wrong" BY DEF Asker
    <2>3. \/ WithoutGrant(c, q, work, workLine)
          \/ asks' = [asks EXCEPT ![c] = p] /\ workLine' = Append(workLine, c)
      BY <1>3 DEF EnsureFresh, Queue
    <2> HIDE DEF q, p
    <2>4. /\ workLine' \in Seq(Askers) /\ \A d : Waiting(workLine, d) => Waiting(workLine', d)
          /\ \E r : /\ asks' = [asks EXCEPT ![c] = r]
                    /\ Fits(r, c, work', captures, workLine', workHolder')
      <3>1. CASE WithoutGrant(c, q, work, workLine)
        BY <1>1, <2>1, <3>1, WithoutFits
      <3>2. CASE asks' = [asks EXCEPT ![c] = p] /\ workLine' = Append(workLine, c)
        <4>1. /\ workLine' \in Seq(Askers) /\ Waiting(workLine', c)
              /\ \A d : Waiting(workLine, d) => Waiting(workLine', d)
          BY <1>1, <3>2, LineGrows
        <4>2. Fits(p, c, work', captures, workLine', workHolder') BY <2>2, <4>1, OutsideFits
        <4> QED BY <3>2, <4>1, <4>2
      <3> QED BY <2>3, <3>1, <3>2
    <2>5. UNCHANGED <<work, captures, workHolder, stored>> BY <1>3 DEF EnsureFresh
    <2> QED BY <1>1, <1>2, <2>4, <2>5, FitsStep
  <1>4. ASSUME NEW who \in People \cup {None}, InjectCookies(c, who)
        PROVE  ToldInv'
    <2> DEFINE p == [Asker EXCEPT !.pc = "queued", !.kind = "inject", !.read = work',
                                  !.force = who = None]
    <2>1. Onward(work', work) /\ work'.cookies \in Persons
      <3>1. who \in Persons BY DEF Persons
      <3>2. /\ Onward([work EXCEPT !.cookies = who], work)
            /\ [work EXCEPT !.cookies = who].cookies = who
        BY <1>1, <3>1, StoredOnward
      <3> QED BY <1>1, <1>2, <1>4, <3>1, <3>2 DEF InjectCookies, Peopled
    <2>2. p.pc = "queued" /\ p.kind = "inject" /\ p.read = work' /\ p.answer # "wrong" BY DEF Asker
    <2>3. /\ asks' = [asks EXCEPT ![c] = p] /\ workLine' = Append(workLine, c)
          /\ UNCHANGED <<captures, workHolder, stored>>
      BY <1>4 DEF InjectCookies, Queue
    <2> HIDE DEF p
    <2>4. /\ workLine' \in Seq(Askers) /\ Waiting(workLine', c)
          /\ \A d : Waiting(workLine, d) => Waiting(workLine', d)
      BY <1>1, <2>3, LineGrows
    <2>5. Fits(p, c, work', captures', workLine', workHolder')
      BY <2>1, <2>2, <2>4, OutsideFits
    <2> QED BY <1>1, <2>1, <2>3, <2>4, <2>5, FitsStep
  <1>5. ASSUME NEW kind \in {"clear", "remove", "media"}, WaitForLock(c, kind)
        PROVE  ToldInv'
    <2> DEFINE p == [Asker EXCEPT !.pc = "queued", !.kind = kind]
    <2>1. p.pc = "queued" /\ p.kind \notin {"capture", "inject"} /\ p.answer # "wrong" BY DEF Asker
    <2>2. /\ asks' = [asks EXCEPT ![c] = p] /\ workLine' = Append(workLine, c)
          /\ UNCHANGED <<work, captures, workHolder, stored>>
      BY <1>5 DEF WaitForLock, Queue
    <2> HIDE DEF p
    <2>3. /\ workLine' \in Seq(Askers) /\ Waiting(workLine', c)
          /\ \A d : Waiting(workLine, d) => Waiting(workLine', d)
      BY <1>1, <2>2, LineGrows
    <2>4. Fits(p, c, work', captures', workLine', workHolder')
      BY <2>1, <2>3, OutsideFits
    <2> QED BY <1>1, <1>2, <2>2, <2>3, <2>4, FitsStep
  <1>6. CASE CloudAsks(c)
    <2> DEFINE p == [Asker EXCEPT !.pc = "cloud", !.read = work]
    <2>1. p.pc = "cloud" /\ p.answer # "wrong" BY DEF Asker
    <2>2. asks' = [asks EXCEPT ![c] = p] /\ UNCHANGED <<work, captures, workLock, stored>>
      BY <1>6 DEF CloudAsks
    <2> HIDE DEF p
    <2>3. Fits(p, c, work', captures', workLine', workHolder') BY <2>1, OutsideFits
    <2> QED BY <1>1, <1>2, <2>2, <2>3, FitsStep DEF workLock
  <1> QED BY <1>3, <1>4, <1>5, <1>6 DEF Asks

\* A caller whose turn it is: nobody holds the lock, and it leaves the line.
LEMMA TurnFits ==
  ASSUME WorkInv, ToldInv, NEW c \in Askers, NEW kind, WorkTurn(c, kind)
  PROVE  /\ DOMAIN asks[c] = Steps /\ asks[c].answer # "wrong" /\ asks[c].kind = kind
         /\ workHolder = None /\ Tail(workLine) \in Seq(Askers)
         /\ \A d \in Askers \ {c} : Waiting(workLine, d) => Waiting(Tail(workLine), d)
         /\ Peopled(work) /\ stored \in Nat /\ captures.generation \in Nat /\ Onward(work, work)
         /\ kind = "inject" => asks[c].read.cookies \in Persons
         /\ kind = "capture" /\ asks[c].began # captures.generation /\ captures.result = TRUE
              => Since(work, captures.epoch)
  <1>1. Fits(asks[c], c, work, captures, workLine, workHolder) /\ workLine \in Seq(Askers)
    BY DEF ToldInv
  <1>2. /\ workHolder = None /\ workLine # <<>> /\ Head(workLine) = c
        /\ asks[c].pc = "queued" /\ asks[c].kind = kind
    BY DEF WorkTurn
  <1>3. /\ Tail(workLine) \in Seq(Askers)
        /\ \A d : d # c /\ Waiting(workLine, d) => Waiting(Tail(workLine), d)
    BY <1>1, <1>2, LineShrinks
  <1>4. DOMAIN asks[c] = Steps BY DEF WorkInv, Sound
  <1>5. Peopled(work) /\ stored \in Nat /\ captures.generation \in Nat
    BY DEF ToldInv, CapturesOK
  <1>6. Onward(work, work) BY <1>5, StoredOnward
  <1> QED BY <1>1, <1>2, <1>3, <1>4, <1>5, <1>6 DEF Fits

\* It takes the lock, or leaves with an answer.
LEMMA HoldsFits ==
  ASSUME WorkInv, ToldInv, NEW c \in Askers, NEW kind, WorkTurn(c, kind), NEW p, Holds(c, p),
         UNCHANGED <<work, captures, stored>>,
         \A b : Fits(p, c, b, captures, workLine', c)
  PROVE  ToldInv'
  <1>1. /\ workHolder' = c /\ workLine' = Tail(workLine) /\ asks' = [asks EXCEPT ![c] = p]
    BY DEF Holds
  <1>2. Fits(p, c, work', captures', workLine', workHolder') BY <1>1
  <1> QED BY <1>1, <1>2, TurnFits, FitsStep

LEMMA LeavesFits ==
  ASSUME WorkInv, ToldInv, NEW c \in Askers, NEW kind, WorkTurn(c, kind),
         NEW p, p.pc = "done", p.answer # "wrong", asks' = [asks EXCEPT ![c] = p],
         Onward(work', work), UNCHANGED <<captures, workHolder, stored>>, workLine' = Tail(workLine)
  PROVE  ToldInv'
  <1>1. Fits(p, c, work', captures', workLine', workHolder') BY OutsideFits
  <1> QED BY <1>1, TurnFits, FitsStep

LEMMA EnterExchangeFits ==
  ASSUME WorkInv, ToldInv, NEW c \in Askers, EnterExchange(c)
  PROVE  ToldInv'
  <1> DEFINE q == asks[c]
             p == [q EXCEPT !.pc = "exchange"]
             epoch == q.read.epoch
  <1>1. WorkTurn(c, "exchange") /\ UNCHANGED <<captures, stored>> BY DEF EnterExchange
  <1>2. /\ Onward(work, work) /\ DOMAIN q = Steps /\ q.answer # "wrong" /\ stored \in Nat
        /\ Peopled(work) /\ captures.generation \in Nat /\ Tail(workLine) \in Seq(Askers)
        /\ \A d \in Askers \ {c} : Waiting(workLine, d) => Waiting(Tail(workLine), d)
    BY <1>1, TurnFits
  <1>3. \/ /\ work.present /\ Lasts(work) /\ asks' = Told(c, epoch, TRUE, work)
           /\ workLine' = Tail(workLine) /\ UNCHANGED <<work, workHolder>>
        \/ Holds(c, p) /\ UNCHANGED work
        \/ /\ work' \in {work, DropGrant(work, work.grant)}
           /\ WithoutGrant(c, q, work', Tail(workLine)) /\ UNCHANGED workHolder
    BY DEF EnterExchange
  <1>4. CASE /\ work.present /\ Lasts(work) /\ asks' = Told(c, epoch, TRUE, work)
             /\ workLine' = Tail(workLine) /\ UNCHANGED <<work, workHolder>>
    <2> DEFINE ok == TRUE
    <2>1. ok /\ SameEpoch(work, epoch) => Usable(work) BY <1>4 DEF Usable, Lasts
    <2>2. asks' = Told(c, epoch, ok, work) BY <1>4
    <2> HIDE DEF epoch, ok
    <2>3. PICK r : r.answer # "wrong" /\ r.pc = "done" /\ Told(c, epoch, ok, work) = [asks EXCEPT ![c] = r]
      BY <2>1, ToldFits
    <2> QED BY <1>1, <1>2, <1>4, <2>2, <2>3, LeavesFits
  <1>5. CASE Holds(c, p) /\ UNCHANGED work
    <2>1. p.pc = "exchange" /\ p.answer # "wrong" BY <1>2, FieldsOf
    <2> HIDE DEF p
    <2>2. \A b : Fits(p, c, b, captures, workLine', c) BY <2>1 DEF Fits, Locked, Browsing
    <2> QED BY <1>1, <1>5, <2>2, HoldsFits
  <1>6. CASE /\ work' \in {work, DropGrant(work, work.grant)}
             /\ WithoutGrant(c, q, work', Tail(workLine)) /\ UNCHANGED workHolder
    <2> HIDE DEF q
    <2>1. Onward(work', work) BY <1>2, <1>6, StoredOnward
    <2>2. /\ workLine' \in Seq(Askers) /\ \A d : Waiting(Tail(workLine), d) => Waiting(workLine', d)
          /\ \E r : /\ asks' = [asks EXCEPT ![c] = r]
                    /\ \A b, h : Fits(r, c, b, captures, workLine', h)
      BY <1>2, <1>6, WithoutFits
    <2>3. PICK r : /\ asks' = [asks EXCEPT ![c] = r]
                   /\ Fits(r, c, work', captures', workLine', workHolder')
      BY <1>1, <2>2
    <2> QED BY <1>1, <1>2, <1>6, <2>1, <2>2, <2>3, FitsStep
  <1> QED BY <1>3, <1>4, <1>5, <1>6

(* The lock is taken for a capture only when none ended since c queued.    *)
LEMMA EnterCaptureFits ==
  ASSUME WorkInv, ToldInv, NEW c \in Askers, EnterCapture(c)
  PROVE  ToldInv'
  <1> DEFINE q == asks[c]
             p == [q EXCEPT !.pc = "slot"]
             renewed == work.token # q.read.token /\ Lasts(work)
             shares == renewed \/ captures.result
             lasts == work.present /\ Lasts(work)
             epoch == q.read.epoch
  <1>1. WorkTurn(c, "capture") /\ UNCHANGED <<work, captures, stored>> BY DEF EnterCapture
  <1>2. /\ Onward(work, work) /\ DOMAIN q = Steps /\ q.answer # "wrong" /\ q.kind = "capture"
        /\ q.began # captures.generation /\ captures.result = TRUE => Since(work, captures.epoch)
    BY <1>1, TurnFits
  <1>3. \/ Holds(c, p) /\ ~ SharesCapture(c)
        \/ /\ workLine' = Tail(workLine) /\ UNCHANGED workHolder
           /\ \/ work.present /\ SharesCapture(c) /\ asks' = Told(c, captures.epoch, shares, work)
              \/ asks' = Told(c, epoch, lasts, work)
    BY DEF EnterCapture
  <1>4. CASE Holds(c, p) /\ ~ SharesCapture(c)
    <2>1. p.pc = "slot" /\ p.answer # "wrong" /\ p.kind = "capture" /\ p.began = captures.generation
      BY <1>2, <1>4, FieldsOf DEF SharesCapture
    <2> HIDE DEF p
    <2>2. \A b : Fits(p, c, b, captures, workLine', c) BY <2>1 DEF Fits, Locked, Browsing
    <2> QED BY <1>1, <1>4, <2>2, HoldsFits
  <1>5. ASSUME workLine' = Tail(workLine), UNCHANGED workHolder,
               NEW e, NEW ok, ok /\ SameEpoch(work, e) => Usable(work), asks' = Told(c, e, ok, work)
        PROVE  ToldInv'
    <2>1. PICK r : r.answer # "wrong" /\ r.pc = "done" /\ Told(c, e, ok, work) = [asks EXCEPT ![c] = r]
      BY <1>5, ToldFits
    <2> QED BY <1>1, <1>2, <1>5, <2>1, LeavesFits
  <1>6. CASE /\ workLine' = Tail(workLine) /\ UNCHANGED workHolder
             /\ work.present /\ SharesCapture(c) /\ asks' = Told(c, captures.epoch, shares, work)
    <2>1. shares /\ SameEpoch(work, captures.epoch) => Usable(work)
      BY <1>2, <1>6 DEF SharesCapture, Since, Usable, Lasts
    <2>2. UNCHANGED workHolder /\ workLine' = Tail(workLine) /\ asks' = Told(c, captures.epoch, shares, work)
      BY <1>6
    <2> HIDE DEF shares
    <2> QED BY <2>1, <2>2, <1>5
  <1>7. CASE workLine' = Tail(workLine) /\ UNCHANGED workHolder /\ asks' = Told(c, epoch, lasts, work)
    <2>1. lasts /\ SameEpoch(work, epoch) => Usable(work)
      BY DEF Usable, Lasts
    <2>2. UNCHANGED workHolder /\ workLine' = Tail(workLine) /\ asks' = Told(c, epoch, lasts, work)
      BY <1>7
    <2> HIDE DEF lasts, epoch
    <2> QED BY <2>1, <2>2, <1>5
  <1> QED BY <1>3, <1>4, <1>6, <1>7

LEMMA EnterOtherFits ==
  ASSUME WorkInv, ToldInv, NEW c \in Askers, EnterInject(c) \/ EnterMint(c)
  PROVE  ToldInv'
  <1> DEFINE q == asks[c]
  <1>1. CASE EnterInject(c)
    <2> DEFINE p == [q EXCEPT !.pc = "slot"]
    <2>1. WorkTurn(c, "inject") /\ Holds(c, p) /\ UNCHANGED <<work, captures, stored>>
      BY <1>1 DEF EnterInject
    <2>2. /\ DOMAIN q = Steps /\ q.answer # "wrong" /\ q.kind = "inject"
          /\ q.read.cookies \in Persons
      BY <2>1, TurnFits
    <2>3. p.pc = "slot" /\ p.answer # "wrong" /\ p.kind = "inject" /\ p.read.cookies \in Persons
      BY <2>2, FieldsOf
    <2> HIDE DEF p
    <2>4. \A b : Fits(p, c, b, captures, workLine', c) BY <2>3 DEF Fits, Locked, Browsing
    <2> QED BY <2>1, <2>4, HoldsFits
  <1>2. CASE EnterMint(c)
    <2> DEFINE p == [q EXCEPT !.pc = "mint", !.read = work]
    <2>1. /\ WorkTurn(c, "media") /\ UNCHANGED <<work, captures, stored>>
          /\ \/ Holds(c, p)
             \/ asks' = Done(c, "none") /\ workLine' = Tail(workLine) /\ UNCHANGED workHolder
      BY <1>2 DEF EnterMint
    <2>2. DOMAIN q = Steps /\ q.answer # "wrong" /\ Onward(work, work)
      BY <2>1, TurnFits
    <2>3. p.pc = "mint" /\ p.answer # "wrong" BY <2>2, FieldsOf
    <2> HIDE DEF p
    <2>4. \A b : Fits(p, c, b, captures, workLine', c) BY <2>3 DEF Fits, Locked, Browsing
    <2>5. PICK r : r.answer # "wrong" /\ r.pc = "done" /\ Done(c, "none") = [asks EXCEPT ![c] = r]
      BY NoneFits
    <2> QED BY <2>1, <2>2, <2>4, <2>5, HoldsFits, LeavesFits
  <1> QED BY <1>1, <1>2

(* A logout ends an epoch, and a removal the account.                      *)
LEMMA SignOutFits ==
  ASSUME WorkInv, ToldInv, NEW c \in Askers, NEW kind, EnterSignOut(c, kind)
  PROVE  ToldInv'
  <1> DEFINE cleared == [Blank EXCEPT !.epoch = work.epoch + 1, !.email = work.email,
                                      !.source = work.source, !.profile = work.profile]
             removed == [work EXCEPT !.present = FALSE]
  <1>1. /\ WorkTurn(c, kind) /\ work' \in {work, cleared, removed}
        /\ asks' = Done(c, "none") /\ workLine' = Tail(workLine)
        /\ UNCHANGED <<captures, workHolder, stored>>
    BY DEF EnterSignOut
  <1>2. Peopled(work) /\ Onward(work, work)
    BY <1>1, TurnFits
  <1>3. Onward(cleared, work)
    <2>1. /\ DOMAIN cleared = Fields /\ cleared.epoch = work.epoch + 1 /\ cleared.grant = None
          /\ cleared.token = None /\ cleared.cookies = None /\ cleared.profile = work.profile
      BY DEF Blank, Fields
    <2> HIDE DEF cleared
    <2> QED BY <1>2, <2>1 DEF Onward, Peopled, SameEpoch, Persons
  <1>4. Onward(removed, work)
    <2>1. /\ DOMAIN removed = Fields /\ removed.epoch = work.epoch /\ removed.grant = work.grant
          /\ removed.token = work.token /\ removed.cookies = work.cookies
          /\ removed.profile = work.profile /\ ~ removed.present
      BY <1>2, FieldsOf DEF Peopled
    <2> HIDE DEF removed
    <2> QED BY <1>2, <2>1 DEF Onward, Peopled, SameEpoch
  <1>5. PICK r : r.answer # "wrong" /\ r.pc = "done" /\ Done(c, "none") = [asks EXCEPT ![c] = r]
    BY NoneFits
  <1> HIDE DEF cleared, removed
  <1> QED BY <1>1, <1>2, <1>3, <1>4, <1>5, LeavesFits

\* A caller that holds the lock, or asked from the cloud, ends with an answer.
LEMMA EndsFits ==
  ASSUME WorkInv, ToldInv, NEW c \in Askers, workHolder' = workHolder \/ workHolder = c,
         NEW p, p.pc = "done", p.answer # "wrong", asks' = [asks EXCEPT ![c] = p],
         Onward(work', work), stored' \in Nat, UNCHANGED workLine,
         \/ captures' = captures
         \/ /\ workHolder = c /\ captures'.generation = captures.generation + 1
            /\ captures'.result = TRUE =>
                 captures'.epoch \in Nat /\ captures'.epoch <= work'.epoch /\ Since(work', captures'.epoch)
  PROVE  ToldInv'
  <1>1. Fits(p, c, work', captures', workLine', workHolder') BY OutsideFits
  <1>2. workLine \in Seq(Askers) BY DEF ToldInv
  <1> QED BY <1>1, <1>2, FitsStep

(* The endpoint answers: what is stored lasts, and else c asks for a       *)
(* capture.                                                                *)
LEMMA EndpointFits ==
  ASSUME WorkInv, ToldInv, NEW c \in Askers, ExchangeEnds(c) \/ MintEnds(c)
  PROVE  ToldInv'
  <1> DEFINE q == asks[c]
             read == q.read
             g == read.grant
             epoch == read.epoch
  <1>1. /\ Peopled(work) /\ stored \in Nat /\ workLine \in Seq(Askers) /\ captures.generation \in Nat
        /\ Fits(q, c, work, captures, workLine, workHolder) /\ Sound(q)
    BY DEF ToldInv, CapturesOK, WorkInv
  <1>2. q.answer # "wrong" /\ DOMAIN q = Steps /\ (q.pc \in {"exchange", "mint"} => workHolder = c)
    BY <1>1 DEF Fits, Sound, Locked
  <1>3. Onward(work, work) BY <1>1, StoredOnward
  <1>4. CASE MintEnds(c)
    <2>1. /\ work' \in {work, Rotate(work, g)} /\ asks' = Done(c, "none")
          /\ UNCHANGED <<captures, workLine, stored>>
          /\ workHolder' = workHolder \/ workHolder = c
      BY <1>2, <1>4 DEF MintEnds
    <2>2. g # None BY <1>1, <1>4 DEF MintEnds, Sound
    <2> HIDE DEF g
    <2>3. Onward(work', work) BY <1>1, <1>3, <2>1, <2>2, StoredOnward
    <2>4. PICK r : r.answer # "wrong" /\ r.pc = "done" /\ Done(c, "none") = [asks EXCEPT ![c] = r]
      BY NoneFits
    <2> QED BY <1>1, <2>1, <2>3, <2>4, EndsFits
  <1>5. CASE ExchangeEnds(c)
    <2>1. /\ workHolder = c /\ workHolder' = None /\ UNCHANGED captures
          /\ g # None
      BY <1>1, <1>2, <1>5 DEF ExchangeEnds, Sound
    <2>2. \/ /\ work' \in {work, DeferGrant(work, g), DropGrant(work, g)}
             /\ WithoutGrant(c, q, work', workLine) /\ UNCHANGED stored
          \/ \E rotated \in BOOLEAN :
               /\ work' = ApplyGrant(work, read, rotated)
               /\ \/ work' = work /\ WithoutGrant(c, q, work', workLine) /\ UNCHANGED stored
                  \/ /\ work' # work /\ asks' = Told(c, epoch, TRUE, work')
                     /\ stored' = stored + 1 /\ UNCHANGED workLine
      BY <1>5 DEF ExchangeEnds
    <2>3. ASSUME Onward(work', work), WithoutGrant(c, q, work', workLine), UNCHANGED stored
          PROVE  ToldInv'
      <3> HIDE DEF q
      <3>1. /\ workLine' \in Seq(Askers) /\ \A d : Waiting(workLine, d) => Waiting(workLine', d)
            /\ \E r : /\ asks' = [asks EXCEPT ![c] = r]
                      /\ \A b, h : Fits(r, c, b, captures, workLine', h)
        BY <1>1, <1>2, <2>3, WithoutFits
      <3>2. PICK r : /\ asks' = [asks EXCEPT ![c] = r]
                     /\ Fits(r, c, work', captures', workLine', workHolder')
        BY <2>1, <3>1
      <3> QED BY <1>1, <2>1, <2>3, <3>1, <3>2, FitsStep
    <2>4. CASE /\ work' \in {work, DeferGrant(work, g), DropGrant(work, g)}
               /\ WithoutGrant(c, q, work', workLine) /\ UNCHANGED stored
      <3> HIDE DEF g
      <3>1. Onward(work', work) BY <1>1, <1>3, <2>4, StoredOnward
      <3> QED BY <2>3, <2>4, <3>1
    <2>5. ASSUME NEW rotated \in BOOLEAN, work' = ApplyGrant(work, read, rotated),
                 \/ work' = work /\ WithoutGrant(c, q, work', workLine) /\ UNCHANGED stored
                 \/ /\ work' # work /\ asks' = Told(c, epoch, TRUE, work')
                    /\ stored' = stored + 1 /\ UNCHANGED workLine
          PROVE  ToldInv'
      <3>1. Onward(work', work) /\ (work' # work => Lasts(work') /\ work.present)
        BY <1>1, <2>1, <2>5, GrantOnward
      <3>2. CASE work' # work /\ asks' = Told(c, epoch, TRUE, work') /\ stored' = stored + 1
                 /\ UNCHANGED workLine
        <4> DEFINE ok == TRUE
        <4>1. ok /\ SameEpoch(work', epoch) => Usable(work')
          BY <3>1, <3>2 DEF Usable, Lasts, SameEpoch
        <4>2. asks' = Told(c, epoch, ok, work') BY <3>2
        <4> HIDE DEF epoch, ok
        <4>3. PICK r : r.answer # "wrong" /\ r.pc = "done" /\ Told(c, epoch, ok, work') = [asks EXCEPT ![c] = r]
          BY <4>1, ToldFits
        <4>4. stored' \in Nat BY <1>1, <3>2
        <4> QED BY <2>1, <3>1, <3>2, <4>2, <4>3, <4>4, EndsFits
      <3> QED BY <2>3, <2>5, <3>1, <3>2
    <2> QED BY <2>2, <2>4, <2>5
  <1> QED BY <1>4, <1>5

(* A browser session that closes: a capture that succeeded in the account's *)
(* epoch left a token.                                                     *)
LEMMA ClosesFits ==
  ASSUME WorkInv, ToldInv, NEW c \in Askers, asks[c].pc \in {"slot"} \cup Browsing,
         Onward(work', work), stored' \in Nat, UNCHANGED workLine,
         NEW ok \in BOOLEAN, BrowserCloses(c, ok),
         ok /\ asks[c].kind = "capture" =>
           asks[c].pc \in Browsing /\ Since(work', asks[c].read.epoch)
  PROVE  ToldInv'
  <1> DEFINE q == asks[c]
             epoch == q.read.epoch
  <1>1. /\ Fits(q, c, work, captures, workLine, workHolder) /\ captures.generation \in Nat
        /\ Peopled(work)
    BY DEF ToldInv, CapturesOK
  <1>2. workHolder = c /\ (q.kind = "capture" => q.began = captures.generation)
    BY <1>1 DEF Fits, Locked
  <1>3. CASE q.kind = "capture"
    <2>1. /\ captures'.generation = captures.generation + 1 /\ captures'.result = ok
          /\ captures'.epoch = epoch /\ asks' = Told(c, epoch, ok, work')
      BY <1>2, <1>3 DEF BrowserCloses
    <2>2. ok => epoch \in Nat /\ epoch <= work'.epoch /\ Since(work', epoch)
      BY <1>1, <1>3, SinceOnward DEF Fits
    <2>3. ok /\ SameEpoch(work', epoch) => Usable(work')
      BY <2>2 DEF Since, Usable, Lasts, SameEpoch
    <2> HIDE DEF epoch
    <2>4. PICK r : r.answer # "wrong" /\ r.pc = "done" /\ Told(c, epoch, ok, work') = [asks EXCEPT ![c] = r]
      BY <2>3, ToldFits
    <2>5. captures'.result = TRUE =>
            captures'.epoch \in Nat /\ captures'.epoch <= work'.epoch /\ Since(work', captures'.epoch)
      BY <2>1, <2>2
    <2> QED BY <1>2, <2>1, <2>4, <2>5, EndsFits
  <1>4. CASE q.kind # "capture"
    <2>1. UNCHANGED captures /\ asks' = Done(c, "none") BY <1>4 DEF BrowserCloses
    <2>2. PICK r : r.answer # "wrong" /\ r.pc = "done" /\ Done(c, "none") = [asks EXCEPT ![c] = r]
      BY NoneFits
    <2> QED BY <1>2, <2>1, <2>2, EndsFits
  <1> QED BY <1>3, <1>4

\* Or it goes on.
LEMMA BrowsesOn ==
  ASSUME WorkInv, ToldInv, NEW c \in Askers, asks[c].pc \in {"slot"} \cup Browsing,
         Onward(work', work), stored' \in Nat, UNCHANGED <<workLine, workHolder, captures>>,
         NEW p, asks' = [asks EXCEPT ![c] = p], p.pc \in Browsing, p.answer = asks[c].answer,
         p.kind = asks[c].kind, p.began = asks[c].began,
         p.read.cookies \in Persons, p.read.epoch \in Nat, p.read.epoch <= work'.epoch,
         p.pc = "collect" => Since(work', p.read.epoch)
  PROVE  ToldInv'
  <1>1. Fits(asks[c], c, work, captures, workLine, workHolder) /\ workLine \in Seq(Askers)
    BY DEF ToldInv
  <1>2. /\ workHolder = c /\ p.answer # "wrong"
        /\ p.kind = "capture" => p.began = captures.generation
    BY <1>1 DEF Fits, Locked
  <1>3. Fits(p, c, work', captures', workLine', workHolder')
    BY <1>2 DEF Fits, Locked, Browsing
  <1> QED BY <1>1, <1>3, FitsStep

LEMMA BrowserFits ==
  ASSUME WorkInv, ToldInv, NEW c \in Askers,
         \/ BrowserOpens(c) \/ CookiesSet(c) \/ TokenExtracted(c)
         \/ AfterInjection(c) \/ BareProfile(c) \/ Collected(c)
  PROVE  ToldInv'
  <1> USE FieldsOf
  <1> DEFINE q == asks[c]
             read == q.read
  <1>1. /\ Peopled(work) /\ stored \in Nat /\ DOMAIN asks = Askers /\ DOMAIN q = Steps
        /\ Fits(q, c, work, captures, workLine, workHolder)
    BY DEF ToldInv, WorkInv, Sound
  <1>2. Onward(work, work) /\ work.cookies \in Persons /\ work.profile \in Persons /\ work.epoch \in Nat
    BY <1>1, StoredOnward DEF Peopled
  <1>3. q.pc \in Browsing => read.cookies \in Persons /\ read.epoch \in Nat /\ read.epoch <= work.epoch
    BY <1>1 DEF Fits
  <1>4. ASSUME NEW step \in Browsing
        PROVE  LET p == [q EXCEPT !.pc = step] IN
               /\ p.pc = step /\ p.answer = q.answer /\ p.kind = q.kind /\ p.began = q.began
               /\ p.read = read
    BY <1>1
  <1>5. ASSUME q.pc \in Browsing, NEW step \in Browsing, asks' = [asks EXCEPT ![c].pc = step],
               Onward(work', work), stored' \in Nat, UNCHANGED <<workLine, workHolder, captures>>,
               step = "collect" => Since(work', read.epoch)
        PROVE  ToldInv'
    <2> DEFINE p == [q EXCEPT !.pc = step]
    <2>1. asks' = [asks EXCEPT ![c] = p] BY <1>5
    <2>2. /\ p.pc = step /\ p.answer = q.answer /\ p.kind = q.kind /\ p.began = q.began
          /\ p.read = read
      BY <1>4
    <2> HIDE DEF p
    <2>3. /\ p.read.cookies \in Persons /\ p.read.epoch \in Nat /\ p.read.epoch <= work'.epoch
          /\ p.pc = "collect" => Since(work', p.read.epoch)
      BY <1>1, <1>3, <1>5, <2>2, SinceOnward
    <2>4. p.pc \in Browsing /\ q.pc \in {"slot"} \cup Browsing BY <1>5, <2>2
    <2> QED BY <1>5, <2>1, <2>2, <2>3, <2>4, BrowsesOn
  <1>6. CASE BrowserOpens(c)
    <2> DEFINE with == IF q.kind = "inject" THEN read.cookies ELSE work.cookies
               step == IF with = None THEN "bare" ELSE "inject"
               took == [work EXCEPT !.cookies = with]
               p == [q EXCEPT !.pc = step, !.read = took]
    <2>1. q.pc = "slot" /\ UNCHANGED <<workLine, stored>> BY <1>6 DEF BrowserOpens
    <2>2. with \in Persons BY <1>1, <1>2, <2>1 DEF Fits
    <2>3. CASE UNCHANGED work /\ BrowserCloses(c, FALSE)
      <3>1. q.pc \in {"slot"} \cup Browsing BY <2>1
      <3> HIDE DEF q
      <3> QED BY <1>1, <1>2, <2>1, <2>3, <3>1, ClosesFits DEF q
    <2>4. CASE /\ work' \in {work, [work EXCEPT !.profile = None]}
               /\ asks' = [asks EXCEPT ![c].pc = step, ![c].read = took]
               /\ UNCHANGED <<captures, workHolder>>
      <3>1. asks' = [asks EXCEPT ![c] = p] BY <2>4
      <3>2. step \in Browsing /\ step # "collect" BY DEF Browsing
      <3>3. took.cookies = with /\ took.epoch = work.epoch BY <1>1 DEF Peopled
      <3>4. None \in Persons BY DEF Persons
      <3>5. Onward(work', work) BY <1>1, <1>2, <2>4, <3>4, StoredOnward
      <3>6. work.epoch <= work'.epoch BY <3>5 DEF Onward
      <3> HIDE DEF step, took, with
      <3>7. p.pc = step /\ p.answer = q.answer /\ p.kind = q.kind /\ p.began = q.began /\ p.read = took
        BY <1>1
      <3> HIDE DEF p
      <3> QED BY <1>1, <1>2, <2>1, <2>2, <2>4, <3>1, <3>2, <3>3, <3>5, <3>6, <3>7, BrowsesOn
    <2> QED BY <1>6, <2>3, <2>4 DEF BrowserOpens
  <1>7. CASE CookiesSet(c)
    <2> DEFINE fails == CookiesFail([work EXCEPT !.profile = read.cookies])
               works == CookiesWork([work EXCEPT !.profile = read.cookies])
               filled == [work EXCEPT !.profile = read.cookies]
    <2>1. /\ q.pc = "inject" /\ UNCHANGED <<captures, workLine, workHolder>>
          /\ work' \in {work, filled, fails, works}
          /\ \E step \in {"injected", "extract"} : asks' = [asks EXCEPT ![c].pc = step]
          /\ stored' \in {stored, stored + 1}
      BY <1>7 DEF CookiesSet, workLock
    <2>2. q.pc \in Browsing /\ {"injected", "extract"} \subseteq Browsing /\ "collect" \notin {"injected", "extract"}
      BY <2>1 DEF Browsing
    <2>3. Onward(fails, work) /\ Onward(works, work) /\ Onward(filled, work)
      BY <1>1, <1>3, <2>2, ProfileOnward, StoredOnward
    <2> HIDE DEF fails, works, filled
    <2>4. Onward(work', work) BY <1>2, <2>1, <2>3
    <2>5. stored' \in Nat BY <1>1, <2>1
    <2> QED BY <1>5, <2>1, <2>2, <2>4, <2>5
  <1>8. CASE TokenExtracted(c)
    <2>1. /\ q.pc = "extract" /\ UNCHANGED <<captures, workLine, workHolder>>
          /\ work' \in {work, StoreCapture(work, read, read.cookies)}
          /\ asks' = [asks EXCEPT ![c].pc = "injected"] /\ stored' \in {stored, stored + 1}
      BY <1>8 DEF TokenExtracted, workLock
    <2>2. q.pc \in Browsing /\ "injected" \in Browsing BY <2>1 DEF Browsing
    <2>3. Onward(StoreCapture(work, read, read.cookies), work) BY <1>1, <1>3, <2>2, CaptureOnward
    <2>4. Onward(work', work) BY <1>2, <2>1, <2>3
    <2>5. stored' \in Nat BY <1>1, <2>1
    <2> QED BY <1>5, <2>1, <2>2, <2>4, <2>5
  <1>9. CASE AfterInjection(c)
    <2> DEFINE ok == SameEpoch(work, read.epoch)
    <2>1. q.pc = "injected" /\ UNCHANGED <<work, workLine, stored>> BY <1>9 DEF AfterInjection
    <2>2. q.pc \in Browsing /\ "bare" \in Browsing BY <2>1 DEF Browsing
    <2>3. CASE asks' = [asks EXCEPT ![c].pc = "bare"] /\ UNCHANGED <<captures, workHolder>>
      BY <1>1, <1>2, <1>5, <2>1, <2>2, <2>3
    <2>4. CASE BrowserCloses(c, ok) /\ ~ (q.kind = "capture" /\ ok /\ ~ Lasts(work))
      <3>1. q.kind = "capture" => Since(work', read.epoch) BY <2>1, <2>4 DEF Since
      <3>2. ok \in BOOLEAN BY DEF SameEpoch
      <3>3. BrowserCloses(c, ok) /\ Onward(work', work) /\ stored' \in Nat /\ UNCHANGED workLine
        BY <1>1, <1>2, <2>1, <2>4
      <3> HIDE DEF ok
      <3> QED BY <2>2, <3>1, <3>2, <3>3, ClosesFits
    <2> QED BY <1>9, <2>3, <2>4 DEF AfterInjection
  <1>10. CASE BareProfile(c)
    <2> DEFINE kept == StoreCapture(work, read, work.profile)
    <2>1. q.pc = "bare" /\ UNCHANGED workLine BY <1>10 DEF BareProfile
    <2>2. q.pc \in Browsing /\ "collect" \in Browsing BY <2>1 DEF Browsing
    <2>3. CASE work' \in {work, CookiesFail(work)} /\ BrowserCloses(c, FALSE) /\ UNCHANGED stored
      <3>1. Onward(work', work) BY <1>1, <1>2, <2>3, StoredOnward
      <3> QED BY <1>1, <2>1, <2>2, <2>3, <3>1, ClosesFits
    <2>4. CASE /\ kept # work /\ work' = kept /\ stored' = stored + 1
               /\ asks' = [asks EXCEPT ![c].pc = "collect"] /\ UNCHANGED <<captures, workHolder>>
      <3>1. Onward(work', work) /\ Lasts(work') BY <1>1, <1>2, <2>4, CaptureOnward
      <3>2. Since(work', read.epoch) BY <3>1 DEF Since
      <3>3. stored' \in Nat BY <1>1, <2>4
      <3> QED BY <1>5, <2>1, <2>2, <2>4, <3>1, <3>2, <3>3
    <2> QED BY <1>10, <2>3, <2>4 DEF BareProfile
  <1>11. CASE Collected(c)
    <2>1. /\ q.pc = "collect" /\ UNCHANGED <<work, workLine, stored>>
          /\ \E ok \in BOOLEAN : BrowserCloses(c, ok)
      BY <1>11 DEF Collected, SameEpoch
    <2>2. q.pc \in Browsing BY <2>1 DEF Browsing
    <2>3. Since(work', read.epoch) BY <1>1, <2>1 DEF Fits
    <2> QED BY <1>1, <1>2, <2>1, <2>2, <2>3, ClosesFits
  <1> QED BY <1>6, <1>7, <1>8, <1>9, <1>10, <1>11

(* What people do takes the account forward; a token ends to last only     *)
(* when nobody holds the lock or waits for it.                             *)
LEMMA PeopleFit ==
  ASSUME WorkInv, ToldInv,
         \/ \E who \in People, signIn \in BOOLEAN : PushToken(who, signIn)
         \/ PushGrant \/ ClearToken \/ TokenAges \/ GrantPauseEnds
  PROVE  ToldInv'
  <1> USE FieldsOf
  <1>1. /\ Peopled(work) /\ stored \in Nat /\ workLine \in Seq(Askers) /\ CapturesOK(captures, work)
        /\ \A c \in Askers : Fits(asks[c], c, work, captures, workLine, workHolder)
    BY DEF ToldInv
  <1>2. /\ UNCHANGED <<captures, workLine, workHolder, asks>> /\ stored' \in Nat
    <2>1. ASSUME NEW who \in People, NEW signIn \in BOOLEAN, PushToken(who, signIn)
          PROVE  UNCHANGED <<captures, workLine, workHolder, asks>> /\ stored' \in Nat
      <3>1. UNCHANGED <<captures, workLock, asks>> /\ stored' = stored + 1
        BY <2>1, Zenon DEF PushToken
      <3> QED BY <1>1, <3>1 DEF workLock
    <2>2. ASSUME PushGrant \/ ClearToken \/ TokenAges \/ GrantPauseEnds
          PROVE  UNCHANGED <<captures, workLine, workHolder, asks>> /\ stored' \in Nat
      BY <1>1, <2>2 DEF PushGrant, ClearToken, TokenAges, GrantPauseEnds, workLock
    <2> QED BY <2>1, <2>2
  <1>3. ASSUME Onward(work', work) PROVE ToldInv'
    <2>1. \A c \in Askers : Fits(asks[c], c, work', captures, workLine, workHolder)
      BY <1>1, <1>3, FitsOnward
    <2>2. CapturesOK(captures, work') BY <1>1, <1>3, SinceOnward DEF CapturesOK
    <2> QED BY <1>1, <1>2, <1>3, <2>1, <2>2 DEF ToldInv, Onward
  <1>4. ASSUME NEW who \in People, NEW signIn \in BOOLEAN, PushToken(who, signIn)
        PROVE  Onward(work', work)
    <2> DEFINE b == WithToken(work, who)
               g == IF signIn THEN [push |-> stored + 1, turns |-> 0, person |-> who, client |-> "native"]
                    ELSE b.grant
               source == IF b.source = "cdp" /\ work.valid THEN b.source ELSE "manual"
               paused == b.paused /\ ~ signIn
               k == [b EXCEPT !.source = source, !.grant = g, !.paused = paused]
    <2>1. who \in Persons BY DEF Persons
    <2>2. /\ Peopled(b) /\ Lasts(b) /\ b.grant = work.grant /\ b.present = work.present
          /\ b.epoch = work.epoch
      BY <1>1, <2>1, WithTokenLasts
    <2>3. g # None => "person" \in DOMAIN g /\ g.person \in Persons
      BY <2>1, <2>2 DEF Peopled
    <2>4. work' = k BY <1>4 DEF PushToken
    <2> HIDE DEF b, g, source, paused
    <2>5. /\ DOMAIN k = Fields /\ k.epoch = b.epoch /\ k.present = b.present /\ k.token = b.token
          /\ k.life = b.life /\ k.cookies = b.cookies /\ k.profile = b.profile /\ k.grant = g
      BY <2>2 DEF Peopled
    <2> HIDE DEF k
    <2>6. Peopled(k) /\ Lasts(k) BY <2>2, <2>3, <2>5 DEF Peopled, Lasts
    <2> QED BY <1>1, <2>2, <2>4, <2>5, <2>6, OnwardIf
  <1>5. ASSUME PushGrant PROVE Onward(work', work)
    <2> DEFINE g == [push |-> stored + 1, turns |-> 0, person |-> work.token.person, client |-> "spa"]
               k == [work EXCEPT !.paused = FALSE, !.grant = g]
    <2>1. work' = k /\ work.token # None BY <1>5 DEF PushGrant
    <2>2. "person" \in DOMAIN g /\ g.person \in Persons BY <1>1, <2>1 DEF Peopled
    <2> HIDE DEF g
    <2>3. /\ DOMAIN k = Fields /\ k.epoch = work.epoch /\ k.present = work.present
          /\ k.token = work.token /\ k.life = work.life /\ k.cookies = work.cookies
          /\ k.profile = work.profile /\ k.grant = g
      BY <1>1 DEF Peopled
    <2> HIDE DEF k
    <2>4. Peopled(k) BY <1>1, <2>2, <2>3 DEF Peopled
    <2> QED BY <1>1, <2>1, <2>3, <2>4, OnwardIf
  <1>6. ASSUME ClearToken PROVE Onward(work', work)
    <2> DEFINE k == [work EXCEPT !.token = None, !.epoch = @ + 1]
    <2>1. work' = k BY <1>6 DEF ClearToken
    <2>2. /\ DOMAIN k = Fields /\ k.epoch = work.epoch + 1 /\ k.token = None
          /\ k.cookies = work.cookies /\ k.profile = work.profile /\ k.grant = work.grant
      BY <1>1 DEF Peopled
    <2> HIDE DEF k
    <2> QED BY <1>1, <2>1, <2>2 DEF Onward, Peopled, SameEpoch
  <1>7. ASSUME GrantPauseEnds PROVE Onward(work', work)
    BY <1>1, <1>7, OnwardIf DEF GrantPauseEnds, Peopled
  <1>8. ASSUME TokenAges PROVE ToldInv'
    <2> DEFINE k == [work EXCEPT !.life = "due"]
               e == [work EXCEPT !.life = "expired"]
    <2>1. CASE work.life = "due" /\ work' = e
      <3>1. /\ DOMAIN e = Fields /\ e.epoch = work.epoch /\ e.present = work.present
            /\ e.cookies = work.cookies /\ e.token = work.token
            /\ e.profile = work.profile /\ e.grant = work.grant
        BY <1>1 DEF Peopled
      <3> HIDE DEF e
      <3>2. Onward(work', work) BY <1>1, <2>1, <3>1 DEF Onward, Peopled, SameEpoch, Lasts
      <3> QED BY <1>3, <3>2
    <2>2. CASE workHolder = None /\ workLine = <<>> /\ work' = k
      <3>1. /\ DOMAIN k = Fields /\ k.epoch = work.epoch /\ k.cookies = work.cookies
            /\ k.profile = work.profile /\ k.grant = work.grant /\ k.token = work.token
        BY <1>1 DEF Peopled
      <3> HIDE DEF k
      <3>2. Peopled(work') /\ CapturesOK(captures, work')
        BY <1>1, <2>2, <3>1 DEF Peopled, CapturesOK
      <3>3. ASSUME NEW c \in Askers
            PROVE  Fits(asks[c], c, work', captures, workLine, workHolder)
        <4>1. c # None BY AskersAssumption
        <4>2. ~ Waiting(workLine, c) BY <2>2 DEF Waiting
        <4>3. asks[c].pc \notin Locked \cup {"queued"} /\ asks[c].answer # "wrong"
          BY <1>1, <2>2, <4>1, <4>2 DEF Fits
        <4> QED BY <4>3 DEF Fits, Locked, Browsing
      <3> QED BY <1>1, <1>2, <3>2, <3>3 DEF ToldInv
    <2> QED BY <1>8, <2>1, <2>2 DEF TokenAges
  <1> QED BY <1>3, <1>4, <1>5, <1>6, <1>7, <1>8

LEMMA ToldStays ==
  /\ WorkInit => ToldInv
  /\ WorkInv /\ ToldInv /\ [WorkNext]_workVars => ToldInv'
  <1>1. ASSUME WorkInit PROVE ToldInv
    <2>1. Peopled(Blank) BY DEF Peopled, Blank, Fields, Persons
    <2>2. ASSUME NEW who \in People PROVE Peopled(Established(who))
      BY DEF Peopled, Established, Blank, Fields, Persons
    <2>3. Peopled(work) BY <1>1, <2>1, <2>2 DEF WorkInit
    <2>4. CapturesOK(captures, work) BY <1>1 DEF WorkInit, CapturesOK
    <2>5. ASSUME NEW c \in Askers PROVE Fits(asks[c], c, work, captures, workLine, workHolder)
      <3>1. asks[c] = Asker BY <1>1 DEF WorkInit
      <3>2. Asker.pc = "idle" /\ Asker.answer = "none" BY DEF Asker
      <3> QED BY <3>1, <3>2 DEF Fits, Locked, Browsing
    <2> QED BY <1>1, <2>3, <2>4, <2>5 DEF WorkInit, ToldInv
  <1>2. ASSUME WorkInv, ToldInv, WorkNext PROVE ToldInv'
    <2>1. ASSUME NEW c \in Askers, Proceeds(c) PROVE ToldInv'
      BY <1>2, <2>1, EnterExchangeFits, EnterCaptureFits, EnterOtherFits, SignOutFits, EndpointFits,
         BrowserFits DEF Proceeds
    <2>2. ASSUME NEW c \in Askers, Asks(c) PROVE ToldInv'
      BY <1>2, <2>2, AsksFits
    <2> QED BY <1>2, <2>1, <2>2, PeopleFit DEF WorkNext
  <1>3. ASSUME ToldInv, UNCHANGED workVars PROVE ToldInv'
    BY <1>3 DEF workVars, workLock, ToldInv
  <1> QED BY <1>1, <1>2, <1>3

(* For any callers, identities, pushes and rotations: whoever is told that *)
(* the token is usable can use it, unless the account was cleared since it *)
(* began.                                                                  *)
THEOREM ToldCanUse == WorkSpec => []ToldOfUsable
  <1>1. ToldInv => ToldOfUsable BY DEF ToldInv, Fits, ToldOfUsable
  <1> QED BY <1>1, WorkStays, ToldStays, PTL DEF WorkSpec

-----------------------------------------------------------------------------
(* Personal renewals.                                                      *)

LEMMA WantersStay == PersonalSpec => [](DOMAIN wants = Wanters)
  <1>1. PersonalInit => DOMAIN wants = Wanters BY DEF PersonalInit
  <1>2. DOMAIN wants = Wanters /\ [PersonalNext]_personalVars => (DOMAIN wants = Wanters)'
    <2> SUFFICES ASSUME DOMAIN wants = Wanters, [PersonalNext]_personalVars
                 PROVE  DOMAIN wants' = Wanters
      OBVIOUS
    <2>1. CASE wants' = wants BY <2>1
    <2>2. ASSUME NEW c \in Wanters, NEW force, NEW asking, Want(c, force, asking)
          PROVE  DOMAIN wants' = Wanters
      BY <2>2 DEF Want
    <2>3. ASSUME NEW c \in Wanters, NEW ok, Leave(c, ok) PROVE DOMAIN wants' = Wanters
      BY <2>3 DEF Leave, Ends
    <2>4. ASSUME NEW c \in Wanters, EnterPersonal(c) PROVE DOMAIN wants' = Wanters
      BY <2>4 DEF EnterPersonal, Ends
    <2>5. ASSUME NEW c \in Wanters, HttpRenewal(c) \/ PersonalSlot(c) \/ PersonalBrowser(c)
          PROVE  DOMAIN wants' = Wanters
      BY <2>3, <2>5 DEF HttpRenewal, PersonalSlot, PersonalBrowser, Brought
    <2> QED BY <2>1, <2>2, <2>4, <2>5
            DEF PersonalNext, personalVars, PushJwe, ChangeAccount, JweAges, BackOffEnds
  <1> QED BY <1>1, <1>2, PTL DEF PersonalSpec

(* For any callers, subjects and number of changes: neither the token nor  *)
(* the error of a personal renewal is written over a newer capture.        *)
THEOREM NewerCaptureKept == PersonalSpec => NewerCaptureStays
  <1>1. ASSUME DOMAIN wants = Wanters, PersonalNext, NEW c \in Wanters,
               wants[c].pc \in {"http", "browser"}, personal' # personal,
               wants'[c].pc # wants[c].pc
        PROVE  PersonalState(personal)[1] = wants[c].read.token
               /\ personal.session = wants[c].read.session
    <2>1. PICK d \in Wanters : HttpRenewal(d) \/ PersonalBrowser(d)
      BY <1>1 DEF PersonalNext, PushJwe, ChangeAccount, JweAges, BackOffEnds, Want,
                  EnterPersonal, PersonalSlot
    <2>2. d = c
      BY <1>1, <2>1 DEF HttpRenewal, PersonalBrowser, Brought, Leave, Ends
    <2>3. SameCapture(personal, wants[c].read)
      BY <1>1, <2>1, <2>2 DEF HttpRenewal, PersonalBrowser, Brought
    <2> QED BY <2>3 DEF SameCapture, PersonalState
  <1>2. DOMAIN wants = Wanters /\ [PersonalNext]_personalVars =>
          [\A c \in Wanters :
             wants[c].pc \in {"http", "browser"} /\ personal' # personal
               /\ wants'[c].pc # wants[c].pc
             => PersonalState(personal)[1] = wants[c].read.token
                /\ personal.session = wants[c].read.session]_personalVars
    BY <1>1
  <1> QED BY <1>2, WantersStay, PTL DEF PersonalSpec, NewerCaptureStays

-----------------------------------------------------------------------------
(* One attempt per input.  The callers of a personal renewal queue for the *)
(* account; what the last attempt tried and when it ended says which of    *)
(* them may try again.                                                     *)

Slips == [at : Nat, broker : BOOLEAN]

Accounts ==
  [token : Nat \cup {None}, subject : Subjects \cup {None}, session : Slips \cup {None},
   life : {"fresh", "due", "expired"}, failed : BOOLEAN, active : BOOLEAN,
   epoch : Nat, proxy : {0, 1}]

WanterRecords ==
  [pc : {"idle", "queued", "http", "slot", "browser", "done"}, force : BOOLEAN,
   asks : BOOLEAN, epoch : Nat, subject : Subjects \cup {None}, token : Nat \cup {None},
   queued : Nat, read : Accounts \cup {None}, turn : Nat,
   answer : {"none", "usable", "renewed", "failed"}]

States == (Nat \cup {None}) \X (Subjects \cup {None}) \X Nat \X (Slips \cup {None}) \X {0, 1}

PersonalTypes ==
  /\ personal \in Accounts
  /\ attempts \in [generation : Nat, result : BOOLEAN, snapshot : States \cup {None},
                   tried : States \cup {None}, cooled : BOOLEAN]
  /\ personalLine \in Seq(Wanters)
  /\ personalHolder \in Wanters \cup {None}
  /\ wants \in [Wanters -> WanterRecords]
  /\ captured \in Nat /\ changes \in Nat

Trying(q) == q.pc \in {"http", "slot", "browser"}

InLine(c) == \E i \in 1..Len(personalLine) : personalLine[i] = c

\* Who waits is in the line, with a token captured before; one caller at most
\* holds the lock, and its input is the scheduler's snapshot.
Placed(c) ==
  /\ wants[c].pc # "done" => wants[c].answer = "none" /\ (wants[c].read # None => Trying(wants[c]))
  /\ wants[c].pc = "queued" => InLine(c) /\ wants[c].queued <= attempts.generation
  /\ wants[c].pc = "queued" \/ Trying(wants[c]) => wants[c].token \in 0..captured
  /\ Trying(wants[c]) =>
       /\ personalHolder = c /\ wants[c].turn = attempts.generation + 1
       /\ wants[c].read \in Accounts
       /\ attempts.snapshot = PersonalState(wants[c].read)

\* A failure of the latest attempt is the one the snapshot stands for.
FailureKept(c) ==
  wants[c].answer = "failed" /\ wants[c].read # None =>
    /\ wants[c].turn <= attempts.generation
    /\ wants[c].turn = attempts.generation /\ personalHolder = None
         => attempts.snapshot = PersonalState(wants[c].read)

\* A success since c queued left a token that is still fresh.
SuccessKept(c) ==
  /\ personalHolder = None /\ wants[c].pc = "queued"
  /\ wants[c].queued # attempts.generation /\ attempts.result = TRUE
  => /\ attempts.snapshot \in States
     /\ attempts.snapshot[1] \in 1..captured
     /\ attempts.snapshot[1] # wants[c].token
     /\ personal.token = attempts.snapshot[1] => personal.life = "fresh"

PersonalInv ==
  /\ PersonalTypes
  /\ personal.token \in 0..captured \cup {None}
  /\ \A c \in Wanters : Placed(c) /\ FailureKept(c) /\ SuccessKept(c)

(* The state of an account is five of its fields.                          *)
LEMMA StateFields ==
  ASSUME NEW a \in Accounts
  PROVE  PersonalState(a) \in States /\ PersonalState(a)[1] = a.token
  BY DEF PersonalState, States, Accounts

(* The account after a push.                                               *)
LEMMA CaptureFields ==
  ASSUME NEW a \in Accounts, NEW s \in Subjects, NEW t \in Nat, NEW n \in Slips \cup {None}
  PROVE  /\ Captured(a, s, t, n) \in Accounts /\ Captured(a, s, t, n).token = t
         /\ a.token = t /\ a.subject = s => Captured(a, s, t, n).life = a.life
  <1> DEFINE moved == a.token # None /\ a.subject # s
             session == IF n # None THEN n ELSE IF a.subject = s THEN a.session ELSE None
             life == IF a.token = t /\ a.subject = s THEN a.life ELSE "fresh"
             failed == a.failed /\ a.token = t /\ a.subject = s
             epoch == a.epoch + (IF moved THEN 1 ELSE 0) + (IF a.active THEN 0 ELSE 1)
  <1>1. Captured(a, s, t, n) =
          [a EXCEPT !.token = t, !.subject = s, !.session = session, !.life = life,
                    !.failed = failed, !.epoch = epoch, !.active = TRUE]
    BY DEF Captured
  <1>3. Captured(a, s, t, n) =
          [token |-> t, subject |-> s, session |-> session, life |-> life, failed |-> failed,
           active |-> TRUE, epoch |-> epoch, proxy |-> a.proxy]
    <2> HIDE DEF session, life, failed, epoch
    <2> QED BY <1>1 DEF Accounts
  <1>2. session \in Slips \cup {None} /\ life \in {"fresh", "due", "expired"}
        /\ failed \in BOOLEAN /\ epoch \in Nat
        /\ (a.token = t /\ a.subject = s => life = a.life)
    BY DEF Accounts
  <1> HIDE DEF session, life, failed, epoch
  <1>4. a.proxy \in {0, 1} BY DEF Accounts
  <1> QED BY <1>2, <1>3, <1>4 DEF Accounts

(* The account after a renewal.                                            *)
LEMMA RenewedFields ==
  ASSUME NEW a \in Accounts, captured \in Nat, NEW n \in Slips
  PROVE  /\ Renewed(a, n) \in Accounts /\ Renewed(a, n).token = captured + 1
         /\ Renewed(a, n).life = "fresh"
  <1> DEFINE t == captured + 1
  <1>1. Renewed(a, n) = [a EXCEPT !.token = t, !.session = n, !.life = "fresh", !.failed = FALSE]
    BY DEF Renewed
  <1>2. t \in Nat OBVIOUS
  <1> HIDE DEF t
  <1>3. Renewed(a, n) =
          [token |-> t, subject |-> a.subject, session |-> n, life |-> "fresh", failed |-> FALSE,
           active |-> a.active, epoch |-> a.epoch, proxy |-> a.proxy]
    BY <1>1 DEF Accounts
  <1>4. a.subject \in Subjects \cup {None} /\ a.active \in BOOLEAN /\ a.epoch \in Nat /\ a.proxy \in {0, 1}
    BY DEF Accounts
  <1>5. Renewed(a, n) \in Accounts BY <1>2, <1>3, <1>4 DEF Accounts
  <1>6. Renewed(a, n).token = t /\ Renewed(a, n).life = "fresh" BY <1>3
  <1> QED BY <1>5, <1>6 DEF t

(* The callers after an attempt ended.                                     *)
LEMMA EndsFields ==
  ASSUME PersonalTypes, NEW c \in Wanters, NEW q \in WanterRecords, NEW ok \in BOOLEAN,
         NEW a \in Accounts
  PROVE  /\ Ends(c, q, ok, a) \in [Wanters -> WanterRecords]
         /\ Ends(c, q, ok, a)[c].pc = "done" /\ Ends(c, q, ok, a)[c].turn = q.turn
         /\ Ends(c, q, ok, a)[c].answer = "failed" => Ends(c, q, ok, a)[c].read = q.read
         /\ Ends(c, q, ok, a)[c].answer = "renewed" <=> ok
         /\ \A d \in Wanters : d # c => Ends(c, q, ok, a)[d] = wants[d]
  <1> DEFINE answer == IF ok THEN "renewed"
                       ELSE IF q.asks /\ StillGood(a, q) THEN "usable" ELSE "failed"
             read == IF ok THEN None ELSE q.read
             r == [Wanter EXCEPT !.pc = "done", !.turn = q.turn, !.read = read,
                                 !.answer = answer]
  <1>1. answer \in {"usable", "renewed", "failed"} /\ (answer = "renewed" <=> ok) OBVIOUS
  <1>2. read \in Accounts \cup {None} /\ (~ ok => read = q.read)
    BY DEF WanterRecords
  <1>3. q.turn \in Nat BY DEF WanterRecords
  <1>4. Ends(c, q, ok, a) = [wants EXCEPT ![c] = r] BY DEF Ends
  <1> HIDE DEF answer, read
  <1>5. r \in WanterRecords /\ r.pc = "done" /\ r.turn = q.turn /\ r.read = read /\ r.answer = answer
    BY <1>1, <1>2, <1>3 DEF Wanter, WanterRecords
  <1> HIDE DEF r
  <1>6. wants \in [Wanters -> WanterRecords] BY DEF PersonalTypes
  <1> QED BY <1>1, <1>2, <1>4, <1>5, <1>6

\* The account changes, the callers do not.
LEMMA AccountStep ==
  ASSUME PersonalInv, UNCHANGED <<attempts, personalLine, personalHolder, wants>>,
         personal' \in Accounts, captured' \in Nat, changes' \in Nat, captured <= captured',
         personal'.token \in 0..captured' \cup {None},
         personal'.token \in 0..captured =>
           /\ personal'.token = personal.token
           /\ personal.life = "fresh" /\ personalLine # <<>> => personal'.life = "fresh"
  PROVE  PersonalInv'
  <1>1. PersonalTypes' BY DEF PersonalInv, PersonalTypes
  <1>2. ASSUME NEW c \in Wanters PROVE Placed(c)'
    BY DEF PersonalInv, Placed, PersonalTypes, Trying, InLine, PersonalState
  <1>3. ASSUME NEW c \in Wanters PROVE FailureKept(c)'
    BY DEF PersonalInv, FailureKept, PersonalState
  <1>4. ASSUME NEW c \in Wanters PROVE SuccessKept(c)'
    <2> SUFFICES ASSUME (/\ personalHolder = None /\ wants[c].pc = "queued"
                         /\ wants[c].queued # attempts.generation /\ attempts.result = TRUE)'
                 PROVE  (/\ attempts.snapshot \in States
                         /\ attempts.snapshot[1] \in 1..captured
                         /\ attempts.snapshot[1] # wants[c].token
                         /\ personal.token = attempts.snapshot[1] => personal.life = "fresh")'
      BY DEF SuccessKept
    <2>1. /\ attempts.snapshot \in States
          /\ attempts.snapshot[1] \in 1..captured
          /\ attempts.snapshot[1] # wants[c].token
          /\ personal.token = attempts.snapshot[1] => personal.life = "fresh"
      BY DEF PersonalInv, SuccessKept
    <2>2. personalLine # <<>>
      BY DEF PersonalInv, Placed, InLine
    <2>3. attempts.snapshot[1] \in 1..captured'
      BY <2>1 DEF PersonalInv, PersonalTypes
    <2>4. personal'.token = attempts.snapshot[1] => personal'.life = "fresh"
      BY <2>1, <2>2
    <2> QED BY <2>1, <2>3, <2>4
  <1> QED BY <1>1, <1>2, <1>3, <1>4 DEF PersonalInv

(* A token is pushed.                                                      *)
LEMMA PushStep ==
  ASSUME PersonalInv, NEW s \in Subjects, NEW again \in BOOLEAN,
         NEW n \in {"none", "plain", "grant"}, PushJwe(s, again, n)
  PROVE  PersonalInv'
  <1> DEFINE t == IF again THEN personal.token ELSE captured + 1
             k == IF n = "none" THEN None ELSE [at |-> captured + 1, broker |-> n = "grant"]
  <1>1. personal \in Accounts /\ captured \in Nat /\ personal.token \in 0..captured \cup {None}
    BY DEF PersonalInv, PersonalTypes
  <1>2. t \in Nat /\ (again => t \in 0..captured /\ t = personal.token /\ s = personal.subject)
        /\ (~ again => t = captured + 1)
    BY <1>1 DEF PushJwe
  <1>3. k \in Slips \cup {None} BY <1>1 DEF Slips
  <1>4. personal' = Captured(personal, s, t, k) BY DEF PushJwe
  <1> HIDE DEF t, k
  <1>5. /\ personal' \in Accounts /\ personal'.token = t
        /\ personal.token = t /\ personal.subject = s => personal'.life = personal.life
    BY <1>1, <1>2, <1>3, <1>4, CaptureFields
  <1>6. personal'.token \in 0..captured => again BY <1>1, <1>2, <1>5
  <1>7. captured' = captured + 1 /\ changes' \in Nat
        /\ UNCHANGED <<attempts, personalLine, personalHolder, wants>>
    BY DEF PushJwe, Changes, PersonalInv, PersonalTypes
  <1>8. personal'.token \in 0..captured' \cup {None} BY <1>1, <1>2, <1>5, <1>7
  <1> QED BY <1>1, <1>2, <1>5, <1>6, <1>7, <1>8, AccountStep

(* The token is cleared, the protocol switched, or another proxy set.      *)
LEMMA ChangeStep ==
  ASSUME PersonalInv, ChangeAccount PROVE PersonalInv'
  <1>1. personal \in Accounts /\ captured \in Nat /\ personal.token \in 0..captured \cup {None}
        /\ changes' \in Nat /\ captured' = captured
        /\ UNCHANGED <<attempts, personalLine, personalHolder, wants>>
    BY DEF PersonalInv, PersonalTypes, ChangeAccount, Changes
  <1>2. personal' \in Accounts /\ personal'.life = personal.life
        /\ personal'.token \in {None, personal.token}
    <2>1. \A e \in Nat : e + 1 \in Nat OBVIOUS
    <2>2. \A b \in BOOLEAN : (~ b) \in BOOLEAN OBVIOUS
    <2>3. CASE personal' = [personal EXCEPT !.token = None, !.subject = None, !.session = None,
                                            !.failed = FALSE, !.epoch = @ + 1]
      BY <1>1, <2>1, <2>3 DEF Accounts
    <2>4. CASE personal' = [personal EXCEPT !.active = ~ @, !.epoch = @ + 1]
      BY <1>1, <2>1, <2>2, <2>4 DEF Accounts
    <2>5. CASE personal' = [personal EXCEPT !.proxy = 1 - @]
      BY <1>1, <2>5 DEF Accounts
    <2> QED BY <2>3, <2>4, <2>5 DEF ChangeAccount
  <1>3. None \notin 0..captured BY <1>1, WantersAssumption
  <1> QED BY <1>1, <1>2, <1>3, AccountStep

(* The token ages.                                                         *)
LEMMA AgeStep ==
  ASSUME PersonalInv, JweAges PROVE PersonalInv'
  <1>1. personal \in Accounts /\ captured \in Nat /\ personal.token \in 0..captured \cup {None}
        /\ changes' \in Nat /\ captured' = captured
        /\ UNCHANGED <<attempts, personalLine, personalHolder, wants>>
    BY DEF PersonalInv, PersonalTypes, JweAges
  <1>2. personal' \in Accounts /\ personal'.token = personal.token
        /\ (personal.life = "fresh" => personalLine = <<>>)
    BY <1>1 DEF JweAges, Accounts
  <1> QED BY <1>1, <1>2, AccountStep

(* The back-off ends.                                                      *)
LEMMA BackOffStep ==
  ASSUME PersonalInv, BackOffEnds PROVE PersonalInv'
  <1>1. /\ attempts' \in [generation : Nat, result : BOOLEAN, snapshot : States \cup {None},
                          tried : States \cup {None}, cooled : BOOLEAN]
        /\ attempts'.generation = attempts.generation /\ attempts'.result = attempts.result
        /\ attempts'.snapshot = attempts.snapshot
    BY DEF PersonalInv, PersonalTypes, BackOffEnds
  <1>2. UNCHANGED <<personal, personalLine, personalHolder, wants, captured, changes>>
    BY DEF BackOffEnds
  <1>3. PersonalTypes' BY <1>1, <1>2 DEF PersonalInv, PersonalTypes
  <1>4. ASSUME NEW c \in Wanters PROVE Placed(c)' /\ FailureKept(c)' /\ SuccessKept(c)'
    BY <1>1, <1>2 DEF PersonalInv, Placed, FailureKept, SuccessKept, Trying, InLine, PersonalState
  <1> QED BY <1>2, <1>3, <1>4 DEF PersonalInv

(* A caller asks: it has its answer at once or joins the line.             *)
LEMMA WantStep ==
  ASSUME PersonalInv, NEW c \in Wanters, NEW force \in BOOLEAN, NEW told \in BOOLEAN,
         Want(c, force, told)
  PROVE  PersonalInv' /\ wants'[c].answer # "renewed"
         /\ \A d \in Wanters \ {c} : wants'[d] = wants[d]
  <1> DEFINE e == personal.epoch
             s == personal.subject
             t == personal.token
             q == [Wanter EXCEPT !.force = force, !.asks = told, !.epoch = e,
                     !.subject = s, !.token = t]
             g == attempts.generation
             r == [q EXCEPT !.pc = "queued", !.queued = g]
             u == [Wanter EXCEPT !.pc = "done", !.answer = "usable"]
  <1>1. /\ UNCHANGED <<personal, attempts, personalHolder, captured, changes>>
        /\ wants[c].pc = "idle"
    BY DEF Want
  <1>2. /\ e \in Nat /\ s \in Subjects \cup {None} /\ t \in 0..captured /\ t \in Nat
        /\ g \in Nat /\ captured \in Nat
    BY DEF PersonalInv, PersonalTypes, Accounts, Want
  <1>3. wants \in [Wanters -> WanterRecords] /\ personalLine \in Seq(Wanters)
    BY DEF PersonalInv, PersonalTypes
  <1>4. \/ wants' = [wants EXCEPT ![c] = u] /\ personalLine' = personalLine
        \/ wants' = [wants EXCEPT ![c] = r] /\ personalLine' = Append(personalLine, c)
    BY DEF Want
  <1> HIDE DEF e, s, t, g
  <1>5. /\ u \in WanterRecords /\ u.pc = "done" /\ u.answer = "usable" /\ u.read = None
        /\ r \in WanterRecords /\ r.pc = "queued" /\ r.answer = "none" /\ r.read = None
        /\ r.queued = g /\ r.token = t
    BY <1>2 DEF Wanter, WanterRecords
  <1> HIDE DEF q, r, u
  <1>6. /\ personalLine' \in Seq(Wanters)
        /\ \A d \in Wanters : InLine(d) => InLine(d)'
        /\ wants'[c].pc = "queued" => InLine(c)'
    <2>1. CASE wants' = [wants EXCEPT ![c] = u] /\ personalLine' = personalLine
      BY <1>3, <1>5, <2>1 DEF InLine
    <2>2. CASE personalLine' = Append(personalLine, c)
      BY <1>3, <2>2 DEF InLine
    <2> QED BY <1>4, <2>1, <2>2
  <1>7. /\ wants' \in [Wanters -> WanterRecords]
        /\ \A d \in Wanters \ {c} : wants'[d] = wants[d]
        /\ wants'[c].read = None /\ wants'[c].answer \in {"none", "usable"}
        /\ wants'[c].pc \in {"queued", "done"}
        /\ wants'[c].pc = "queued" =>
             wants'[c].answer = "none" /\ wants'[c].queued = g /\ wants'[c].token = t
    BY <1>3, <1>4, <1>5
  <1>8. PersonalTypes' BY <1>1, <1>6, <1>7 DEF PersonalInv, PersonalTypes
  <1>9. Placed(c)' /\ FailureKept(c)' /\ SuccessKept(c)'
    BY <1>1, <1>2, <1>6, <1>7 DEF Placed, FailureKept, SuccessKept, Trying, g
  <1>10. ASSUME NEW d \in Wanters, d # c PROVE Placed(d)' /\ FailureKept(d)' /\ SuccessKept(d)'
    <2>1. wants'[d] = wants[d] BY <1>7, <1>10
    <2>2. Placed(d) /\ FailureKept(d) /\ SuccessKept(d) BY DEF PersonalInv
    <2>3. Placed(d)' BY <1>1, <1>6, <2>1, <2>2 DEF Placed, Trying
    <2> QED BY <1>1, <2>1, <2>2, <2>3 DEF FailureKept, SuccessKept
  <1> QED BY <1>1, <1>7, <1>8, <1>9, <1>10 DEF PersonalInv

-----------------------------------------------------------------------------
\* The first of the line leaves it.
LEMMA LineMoves ==
  ASSUME PersonalInv, NEW c \in Wanters, EnterPersonal(c)
  PROVE  /\ personalLine' \in Seq(Wanters)
         /\ \A d \in Wanters \ {c} : InLine(d) => InLine(d)'
  <1>1. personalLine \in Seq(Wanters) /\ personalLine # <<>> /\ Head(personalLine) = c
        /\ personalLine' = Tail(personalLine)
    BY DEF PersonalInv, PersonalTypes, EnterPersonal
  <1>2. ASSUME NEW d \in Wanters \ {c}, InLine(d) PROVE InLine(d)'
    <2>1. PICK i \in 1..Len(personalLine) : personalLine[i] = d BY <1>2 DEF InLine
    <2>2. i # 1 BY <1>1, <2>1
    <2>3. i - 1 \in 1..Len(personalLine') /\ personalLine'[i - 1] = d
      BY <1>1, <2>1, <2>2
    <2> QED BY <2>3 DEF InLine
  <1> QED BY <1>1, <1>2

\* Whoever comes to the head of the line either has an answer at once, or
\* starts an attempt with the account as it is.
LEMMA EnterFields ==
  ASSUME PersonalInv, NEW c \in Wanters, EnterPersonal(c)
  PROVE  /\ UNCHANGED <<personal, captured, changes>>
         /\ personalHolder = None /\ wants[c].pc = "queued"
         /\ wants' \in [Wanters -> WanterRecords]
         /\ \A d \in Wanters \ {c} : wants'[d] = wants[d]
         /\ \/ /\ UNCHANGED <<attempts, personalHolder>>
               /\ wants'[c].pc = "done" /\ (wants'[c].answer = "failed" => wants'[c].read = None)
               /\ wants'[c].answer = "renewed" =>
                    Renewable(personal) /\ SharesAttempt(c) /\ attempts.result = TRUE
            \/ /\ personalHolder' = c /\ Renewable(personal) /\ ~ SharesAttempt(c)
               /\ attempts' \in [generation : Nat, result : BOOLEAN, snapshot : States \cup {None},
                                 tried : States \cup {None}, cooled : BOOLEAN]
               /\ attempts'.generation = attempts.generation
               /\ attempts'.snapshot = PersonalState(personal)
               /\ wants'[c].pc \in {"http", "slot"} /\ wants'[c].answer = "none"
               /\ wants'[c].read = personal /\ wants'[c].turn = attempts.generation + 1
               /\ wants'[c].token = wants[c].token
  <1>1. /\ personal \in Accounts /\ wants \in [Wanters -> WanterRecords]
        /\ attempts \in [generation : Nat, result : BOOLEAN, snapshot : States \cup {None},
                         tried : States \cup {None}, cooled : BOOLEAN]
        /\ PersonalTypes
    BY DEF PersonalInv, PersonalTypes
  <1>2. UNCHANGED <<personal, captured, changes>> /\ personalHolder = None /\ wants[c].pc = "queued"
    BY DEF EnterPersonal
  <1>3. wants[c].read = None /\ wants[c].answer = "none"
    BY <1>2 DEF PersonalInv, Placed, Trying
  <1>4. CASE ~ Renewable(personal) \/ SharesAttempt(c) \/ BacksOff(c)
    <2> DEFINE ok == Renewable(personal) /\ SharesAttempt(c) /\ attempts.result
    <2>1. UNCHANGED <<attempts, personalHolder>> /\ wants' = Ends(c, wants[c], ok, personal)
      BY <1>4 DEF EnterPersonal
    <2>2. ok \in BOOLEAN
          /\ (ok => Renewable(personal) /\ SharesAttempt(c) /\ attempts.result = TRUE)
      BY <1>1
    <2>3. wants[c] \in WanterRecords BY <1>1
    <2> HIDE DEF ok
    <2> QED BY <1>1, <1>2, <1>3, <2>1, <2>2, <2>3, EndsFields
  <1>5. CASE ~ (~ Renewable(personal) \/ SharesAttempt(c) \/ BacksOff(c))
    <2> DEFINE g == attempts.generation + 1
               pc == IF personal.session.broker THEN "http" ELSE "slot"
               s == PersonalState(personal)
               q == wants[c]
               r == [q EXCEPT !.read = personal, !.turn = g, !.pc = pc]
    <2>1. /\ attempts' = [attempts EXCEPT !.snapshot = s, !.tried = s, !.cooled = FALSE]
          /\ personalHolder' = c /\ wants' = [wants EXCEPT ![c] = r]
      BY <1>5 DEF EnterPersonal
    <2>2. g \in Nat /\ pc \in {"http", "slot"} /\ s \in States /\ q \in WanterRecords
      BY <1>1, StateFields
    <2> HIDE DEF g, pc, s, q
    <2>3. /\ r \in WanterRecords /\ r.read = personal /\ r.turn = g /\ r.pc = pc
          /\ r.answer = q.answer /\ r.token = q.token
      BY <1>1, <2>2 DEF WanterRecords
    <2>4. /\ attempts' \in [generation : Nat, result : BOOLEAN, snapshot : States \cup {None},
                            tried : States \cup {None}, cooled : BOOLEAN]
          /\ attempts'.generation = attempts.generation /\ attempts'.snapshot = s
      BY <1>1, <2>1, <2>2
    <2> HIDE DEF r
    <2>5. wants' \in [Wanters -> WanterRecords] /\ wants'[c] = r
          /\ \A d \in Wanters \ {c} : wants'[d] = wants[d]
      BY <1>1, <2>1, <2>3
    <2>6. Renewable(personal) /\ ~ SharesAttempt(c) BY <1>5
    <2> QED BY <1>2, <1>3, <2>1, <2>2, <2>3, <2>4, <2>5, <2>6 DEF g, s, q
  <1> QED BY <1>4, <1>5

(* The caller at the head of the line tries, or shares what the last       *)
(* attempt brought.                                                        *)
LEMMA EnterStep ==
  ASSUME PersonalInv, NEW c \in Wanters, EnterPersonal(c)
  PROVE  PersonalInv'
  <1>1. /\ personal \in Accounts /\ attempts.generation \in Nat /\ captured \in Nat
        /\ wants[c].token \in 0..captured /\ personalHolder = None /\ c # None
        /\ UNCHANGED <<personal, captured, changes>>
    BY EnterFields, WantersAssumption DEF PersonalInv, PersonalTypes, Placed
  <1>2. PersonalTypes' BY <1>1, EnterFields, LineMoves DEF PersonalInv, PersonalTypes
  <1>3. Placed(c)' /\ FailureKept(c)' /\ SuccessKept(c)'
    BY <1>1, EnterFields DEF Placed, FailureKept, SuccessKept, Trying
  <1>4. ASSUME NEW d \in Wanters, d # c PROVE Placed(d)' /\ FailureKept(d)' /\ SuccessKept(d)'
    <2>1. wants'[d] = wants[d] /\ (InLine(d) => InLine(d)') BY <1>4, EnterFields, LineMoves
    <2>2. Placed(d) /\ FailureKept(d) /\ SuccessKept(d) BY DEF PersonalInv
    <2>3. ~ Trying(wants[d]) BY <1>1, <1>4, <2>2, WantersAssumption DEF Placed
    <2>4. attempts'.generation = attempts.generation BY EnterFields
    <2>5. \/ UNCHANGED <<attempts, personalHolder>>
          \/ personalHolder' = c
      BY EnterFields
    <2>6. Placed(d)' BY <1>1, <2>1, <2>2, <2>3, <2>4 DEF Placed, Trying
    <2> QED BY <1>1, <2>1, <2>2, <2>4, <2>5, <2>6 DEF FailureKept, SuccessKept
  <1> QED BY <1>1, <1>2, <1>3, <1>4 DEF PersonalInv

-----------------------------------------------------------------------------
\* The end of an attempt.
LEMMA LeaveStep ==
  ASSUME PersonalInv, NEW c \in Wanters, Trying(wants[c]), NEW ok \in BOOLEAN, Leave(c, ok),
         UNCHANGED <<personalLine, changes>>, personal' \in Accounts, captured' \in Nat,
         personal'.token \in 0..captured' \cup {None}, captured <= captured',
         ok => personal'.token = captured + 1 /\ captured' = captured + 1
               /\ personal'.life = "fresh"
  PROVE  PersonalInv' /\ (wants'[c].answer = "renewed" => ok)
         /\ \A d \in Wanters \ {c} : wants'[d] = wants[d]
  <1> DEFINE g == attempts.generation + 1
             s == IF ok THEN PersonalState(personal') ELSE attempts.snapshot
  <1>1. /\ attempts \in [generation : Nat, result : BOOLEAN, snapshot : States \cup {None},
                         tried : States \cup {None}, cooled : BOOLEAN]
        /\ wants \in [Wanters -> WanterRecords] /\ captured \in Nat /\ PersonalTypes
    BY DEF PersonalInv, PersonalTypes
  <1>2. attempts' = [attempts EXCEPT !.generation = g, !.result = ok, !.snapshot = s]
        /\ wants' = Ends(c, wants[c], ok, personal') /\ personalHolder' = None
    BY DEF Leave
  <1>3. /\ personalHolder = c /\ wants[c].turn = attempts.generation + 1
        /\ attempts.snapshot = PersonalState(wants[c].read) /\ wants[c].read \in Accounts
    BY DEF PersonalInv, Placed
  <1>4. g \in Nat /\ s \in States /\ (~ ok => s = PersonalState(wants[c].read))
        /\ (ok => s[1] = captured + 1)
    BY <1>1, <1>3, StateFields
  <1>5. /\ attempts' \in [generation : Nat, result : BOOLEAN, snapshot : States \cup {None},
                          tried : States \cup {None}, cooled : BOOLEAN]
        /\ attempts'.generation = g /\ attempts'.result = ok /\ attempts'.snapshot = s
    <2> HIDE DEF g, s
    <2> QED BY <1>1, <1>2, <1>4
  <1>6. /\ wants' \in [Wanters -> WanterRecords] /\ wants'[c].pc = "done"
        /\ wants'[c].turn = g /\ (wants'[c].answer = "renewed" <=> ok)
        /\ wants'[c].answer = "failed" => wants'[c].read = wants[c].read
        /\ \A d \in Wanters \ {c} : wants'[d] = wants[d]
    BY <1>1, <1>2, <1>3, EndsFields
  <1> HIDE DEF s
  <1>7. PersonalTypes' BY <1>1, <1>2, <1>5, <1>6 DEF PersonalTypes
  <1>8. Placed(c)' /\ FailureKept(c)' /\ SuccessKept(c)'
    <2>1. Placed(c)' BY <1>6 DEF Placed, Trying
    <2>2. wants'[c].answer = "failed" => ~ ok BY <1>6
    <2>3. FailureKept(c)' BY <1>4, <1>5, <1>6, <2>2 DEF FailureKept, PersonalState
    <2> QED BY <1>6, <2>1, <2>3 DEF SuccessKept
  <1>9. ASSUME NEW d \in Wanters, d # c PROVE Placed(d)' /\ FailureKept(d)' /\ SuccessKept(d)'
    <2>1. wants'[d] = wants[d] BY <1>6, <1>9
    <2>2. Placed(d) /\ FailureKept(d) BY DEF PersonalInv
    <2>3. ~ Trying(wants[d]) BY <1>3, <1>9, <2>2 DEF Placed
    <2>4. Placed(d)'
      <3>1. InLine(d)' = InLine(d) BY DEF InLine
      <3>2. captured \in Nat /\ attempts.generation \in Nat /\ attempts'.generation = attempts.generation + 1
            /\ wants[d].queued \in Nat
        BY <1>1, <1>5 DEF WanterRecords
      <3>3. ~ Trying(wants[d])' BY <2>1, <2>3 DEF Trying
      <3> HIDE DEF g
      <3> QED BY <2>1, <2>2, <2>3, <3>1, <3>2, <3>3 DEF Placed
    <2>5. FailureKept(d)'
      <3>1. /\ attempts.generation \in Nat /\ attempts'.generation = attempts.generation + 1
            /\ wants[d].turn \in Nat
        BY <1>1, <1>5 DEF WanterRecords
      <3> HIDE DEF g
      <3> QED BY <2>1, <2>2, <3>1 DEF FailureKept
    <2>6. SuccessKept(d)'
      <3> SUFFICES ASSUME wants[d].pc = "queued", ok
                   PROVE  /\ s \in States /\ s[1] \in 1..captured' /\ s[1] # wants[d].token
                          /\ personal'.life = "fresh"
        BY <1>5, <2>1 DEF SuccessKept
      <3>1. wants[d].token \in 0..captured BY <2>2 DEF Placed
      <3> QED BY <1>1, <1>4, <3>1
    <2> QED BY <2>4, <2>5, <2>6
  <1> QED BY <1>6, <1>7, <1>8, <1>9 DEF PersonalInv

\* c moves on within its attempt.
LEMMA MoveStep ==
  ASSUME PersonalInv, NEW c \in Wanters, Trying(wants[c]), NEW pc \in {"slot", "browser"},
         wants' = [wants EXCEPT ![c].pc = pc],
         UNCHANGED <<personal, attempts, personalLine, personalHolder, captured, changes>>
  PROVE  PersonalInv' /\ wants'[c].answer = wants[c].answer
         /\ \A d \in Wanters \ {c} : wants'[d] = wants[d]
  <1>1. wants \in [Wanters -> WanterRecords] BY DEF PersonalInv, PersonalTypes
  <1>2. wants[c].answer = "none" BY DEF PersonalInv, Placed, Trying
  <1>3. /\ wants' \in [Wanters -> WanterRecords] /\ wants'[c].pc = pc
        /\ wants'[c].answer = wants[c].answer /\ wants'[c].read = wants[c].read
        /\ wants'[c].turn = wants[c].turn /\ wants'[c].token = wants[c].token
        /\ \A d \in Wanters \ {c} : wants'[d] = wants[d]
    BY <1>1 DEF WanterRecords
  <1>4. PersonalTypes' BY <1>3 DEF PersonalInv, PersonalTypes
  <1>5. Placed(c)' /\ FailureKept(c)' /\ SuccessKept(c)'
    BY <1>2, <1>3 DEF PersonalInv, Placed, FailureKept, SuccessKept, Trying
  <1>6. ASSUME NEW d \in Wanters, d # c PROVE Placed(d)' /\ FailureKept(d)' /\ SuccessKept(d)'
    BY <1>3, <1>6 DEF PersonalInv, Placed, FailureKept, SuccessKept, Trying, InLine
  <1> QED BY <1>3, <1>4, <1>5, <1>6 DEF PersonalInv

\* What is stored of an attempt has the number of a new capture.
LEMMA BroughtStep ==
  ASSUME PersonalInv, NEW c \in Wanters, Trying(wants[c]), NEW broker \in BOOLEAN,
         Brought(c, broker), UNCHANGED <<personalLine, changes>>
  PROVE  PersonalInv' /\ (wants'[c].answer = "renewed" =>
                            personal'.token = captured + 1 /\ personal'.life = "fresh")
         /\ \A d \in Wanters \ {c} : wants'[d] = wants[d]
  <1> DEFINE fits == SameCapture(personal, wants[c].read) /\ personal.proxy = wants[c].read.proxy
             n == [at |-> captured + 1, broker |-> broker]
  <1>1. /\ personal \in Accounts /\ captured \in Nat /\ personal.token \in 0..captured \cup {None}
        /\ n \in Slips
    BY DEF PersonalInv, PersonalTypes, Slips
  <1>2. /\ personal' = IF fits THEN Renewed(personal, n) ELSE personal
        /\ captured' = IF fits THEN captured + 1 ELSE captured
        /\ Leave(c, fits)
    BY DEF Brought
  <1>3. fits \in BOOLEAN BY DEF SameCapture
  <1> HIDE DEF fits, n
  <1>4. /\ personal' \in Accounts /\ captured' \in Nat /\ captured <= captured'
        /\ personal'.token \in 0..captured' \cup {None}
        /\ fits => personal'.token = captured + 1 /\ captured' = captured + 1
                     /\ personal'.life = "fresh"
    BY <1>1, <1>2, RenewedFields
  <1> QED BY <1>2, <1>3, <1>4, LeaveStep

(* The HTTP renewal, the wait for a browser and the browser.               *)
LEMMA AttemptStep ==
  ASSUME PersonalInv, NEW c \in Wanters,
         HttpRenewal(c) \/ PersonalSlot(c) \/ PersonalBrowser(c)
  PROVE  PersonalInv' /\ (wants'[c].answer = "renewed" =>
                            personal'.token = captured + 1 /\ personal'.life = "fresh")
         /\ \A d \in Wanters \ {c} : wants'[d] = wants[d]
  <1>1. Trying(wants[c]) BY DEF Trying, HttpRenewal, PersonalSlot, PersonalBrowser
  <1>2. /\ personal \in Accounts /\ captured \in Nat /\ personal.token \in 0..captured \cup {None}
        /\ wants[c].answer = "none" /\ UNCHANGED <<personalLine, changes>>
    BY <1>1 DEF PersonalInv, PersonalTypes, Placed, Trying, HttpRenewal, PersonalSlot,
                PersonalBrowser
  <1>3. CASE \E broker \in BOOLEAN : Brought(c, broker)
    BY <1>1, <1>2, <1>3, BroughtStep
  <1>4. CASE /\ \E pc \in {"slot", "browser"} : wants' = [wants EXCEPT ![c].pc = pc]
             /\ UNCHANGED <<personal, attempts, personalHolder, captured>>
    BY <1>1, <1>2, <1>4, MoveStep
  <1>5. CASE /\ personal' \in {personal, [personal EXCEPT !.failed = TRUE]}
             /\ Leave(c, FALSE) /\ UNCHANGED captured
    <2>1. personal' \in Accounts /\ personal'.token = personal.token
      BY <1>2, <1>5 DEF Accounts
    <2>2. PICK ok \in BOOLEAN : ~ ok /\ Leave(c, ok) BY <1>5
    <2>3. /\ captured' \in Nat /\ captured <= captured'
          /\ personal'.token \in 0..captured' \cup {None}
      BY <1>2, <1>5, <2>1
    <2> QED BY <1>1, <1>2, <2>1, <2>2, <2>3, LeaveStep
  <1> QED BY <1>3, <1>4, <1>5 DEF HttpRenewal, PersonalSlot, PersonalBrowser

(* The invariant holds at the start.                                       *)
LEMMA PersonalStart == PersonalInit => PersonalInv
  <1> SUFFICES ASSUME PersonalInit PROVE PersonalInv OBVIOUS
  <1>1. PersonalTypes
    BY DEF PersonalInit, PersonalTypes, Unbound, Accounts, Wanter, WanterRecords
  <1>2. personal.token = None BY DEF PersonalInit, Unbound
  <1>3. ASSUME NEW c \in Wanters PROVE Placed(c) /\ FailureKept(c) /\ SuccessKept(c)
    BY DEF PersonalInit, Wanter, Placed, FailureKept, SuccessKept, Trying
  <1> QED BY <1>1, <1>2, <1>3 DEF PersonalInv

(* Every step keeps the invariant.                                         *)
LEMMA PersonalStep == PersonalInv /\ [PersonalNext]_personalVars => PersonalInv'
  <1> SUFFICES ASSUME PersonalInv, [PersonalNext]_personalVars PROVE PersonalInv' OBVIOUS
  <1>1. CASE UNCHANGED personalVars
    BY <1>1 DEF personalVars, PersonalInv, PersonalTypes, Placed, FailureKept, SuccessKept,
                Trying, InLine
  <1>2. CASE PersonalNext
    BY <1>2, PushStep, ChangeStep, AgeStep, BackOffStep, WantStep, EnterStep, AttemptStep
    DEF PersonalNext
  <1> QED BY <1>1, <1>2

(* The invariant holds throughout.                                         *)
LEMMA PersonalHolds == PersonalSpec => []PersonalInv
  BY PersonalStart, PersonalStep, PTL DEF PersonalSpec

\* An input the latest attempt failed with finds the snapshot of that attempt.
LEMMA NotTriedAgain ==
  ASSUME PersonalInv, PersonalNext, NEW c \in Wanters, NEW d \in Wanters,
         wants[d].pc = "queued", wants'[d].pc \in {"http", "slot"},
         wants[c].read # None, wants[c].answer = "failed",
         wants[c].turn > wants[d].queued, wants[c].turn = attempts.generation
  PROVE  PersonalState(personal) # PersonalState(wants[c].read)
  <1>1. EnterPersonal(d)
    <2>1. wants' # wants OBVIOUS
    <2>2. ASSUME NEW e \in Wanters, EnterPersonal(e) \/ HttpRenewal(e) \/ PersonalSlot(e) \/ PersonalBrowser(e)
          PROVE  e = d
      <3>1. \A f \in Wanters \ {e} : wants'[f] = wants[f]
        BY <2>2, EnterFields, AttemptStep
      <3> QED BY <3>1
    <2>3. ASSUME NEW e \in Wanters, NEW force \in BOOLEAN, NEW told \in BOOLEAN, Want(e, force, told)
          PROVE  FALSE
      BY <2>3 DEF Want, PersonalInv, PersonalTypes
    <2>4. ~ HttpRenewal(d) /\ ~ PersonalSlot(d) /\ ~ PersonalBrowser(d)
      BY DEF HttpRenewal, PersonalSlot, PersonalBrowser
    <2> QED BY <2>1, <2>2, <2>3, <2>4 DEF PersonalNext, PushJwe, ChangeAccount, JweAges, BackOffEnds
  <1>2. personalHolder = None /\ ~ SharesAttempt(d) BY <1>1, EnterFields
  <1>3. attempts.snapshot = PersonalState(wants[c].read)
    BY <1>2 DEF PersonalInv, FailureKept
  <1>4. attempts.generation \in Nat /\ wants[d].queued \in Nat
    BY DEF PersonalInv, PersonalTypes, WanterRecords
  <1> QED BY <1>2, <1>3, <1>4 DEF SharesAttempt

\* Whoever is told of a renewal finds a token it did not have, and a fresh one.
LEMMA NewsHasToken ==
  ASSUME PersonalInv, PersonalNext, NEW c \in Wanters,
         wants'[c].answer = "renewed", wants[c].answer # "renewed"
  PROVE  /\ personal'.token # None /\ personal'.life # "expired"
         /\ personal'.token # wants[c].token
  <1>1. captured \in Nat BY DEF PersonalInv, PersonalTypes
  <1>2. ASSUME NEW e \in Wanters, HttpRenewal(e) \/ PersonalSlot(e) \/ PersonalBrowser(e)
        PROVE  /\ personal'.token # None /\ personal'.life # "expired"
               /\ personal'.token # wants[c].token
    <2>1. e = c BY <1>2, AttemptStep
    <2>2. wants[c].token \in 0..captured
      BY <1>2, <2>1 DEF PersonalInv, Placed, Trying, HttpRenewal, PersonalSlot, PersonalBrowser
    <2>3. personal'.token = captured + 1 /\ personal'.life = "fresh" BY <1>2, <2>1, AttemptStep
    <2> QED BY <1>1, <2>2, <2>3, WantersAssumption
  <1>3. ASSUME NEW e \in Wanters, EnterPersonal(e)
        PROVE  /\ personal'.token # None /\ personal'.life # "expired"
               /\ personal'.token # wants[c].token
    <2>1. e = c BY <1>3, EnterFields
    <2>2. /\ Renewable(personal) /\ SharesAttempt(c) /\ attempts.result = TRUE
          /\ personalHolder = None /\ wants[c].pc = "queued" /\ personal' = personal
      BY <1>3, <2>1, EnterFields
    <2>3. personal.token = attempts.snapshot[1]
      BY <2>2, StateFields DEF SharesAttempt, PersonalInv, PersonalTypes
    <2>4. /\ attempts.snapshot[1] # wants[c].token
          /\ personal.life = "fresh"
      BY <2>2, <2>3 DEF PersonalInv, SuccessKept, SharesAttempt
    <2> QED BY <2>2, <2>3, <2>4 DEF Renewable
  <1>4. ASSUME NEW e \in Wanters, NEW force \in BOOLEAN, NEW told \in BOOLEAN, Want(e, force, told)
        PROVE  FALSE
    BY <1>4, WantStep
  <1> QED BY <1>2, <1>3, <1>4 DEF PersonalNext, PushJwe, ChangeAccount, JweAges, BackOffEnds

(* For any callers, subjects and number of changes: an input that failed   *)
(* in the latest attempt is not tried again by the callers that queued     *)
(* before it ended, and whoever is told of a renewal has its token.        *)
THEOREM OneAttempt == PersonalSpec => OneAttemptPerInput
  <1>1. PersonalInv /\ [PersonalNext]_personalVars =>
          [/\ \A c, d \in Wanters :
                /\ wants[d].pc = "queued" /\ wants'[d].pc \in {"http", "slot"}
                /\ wants[c].read # None /\ wants[c].answer = "failed"
                /\ wants[c].turn > wants[d].queued /\ wants[c].turn = attempts.generation
                => PersonalState(personal) # PersonalState(wants[c].read)
           /\ \A c \in Wanters :
                wants'[c].answer = "renewed" /\ wants[c].answer # "renewed"
                => /\ personal'.token # None /\ personal'.life # "expired"
                   /\ personal'.token # wants[c].token]_personalVars
    BY NotTriedAgain, NewsHasToken
  <1> QED BY <1>1, PersonalHolds, PTL DEF PersonalSpec, OneAttemptPerInput

-----------------------------------------------------------------------------
(* The note of an account.                                                 *)

Notes ==
  [present : BOOLEAN, identity : Identities, epoch : Nat, until : BOOLEAN,
   mode : Modes \cup {None}, at : Nat]

TurnRecords ==
  [pc : {"idle", "waiting", "running", "over"}, mode : Modes \cup {None},
   identity : Identities \cup {None}, epoch : Nat, started : Nat]

Ended == [kind : {"throttled", "worked"}, mode : Modes \cup {None}, started : Nat, at : Nat]

NotedTypes ==
  /\ noted \in Notes /\ turns \in [Turns -> TurnRecords]
  /\ outcomes \in Seq(Ended) /\ now \in Nat

\* What the turn at i of a list of outcomes was told stands: it was throttled, none was
\* throttled after it, and none that worked contradicts it.
Stands(list, i) ==
  /\ i \in 1..Len(list) /\ list[i].kind = "throttled"
  /\ \A j \in 1..Len(list) : list[j].kind = "throttled" => j <= i
  /\ \A j \in 1..Len(list) :
       j > i /\ list[j].kind = "worked" /\ list[i].mode \in {None, list[j].mode}
       => list[j].started <= list[i].at

\* The note is what stands.
Agrees(note, list) ==
  /\ note.until = TRUE <=> \E i \in 1..Len(list) : Stands(list, i)
  /\ \A i \in 1..Len(list) : Stands(list, i) => note.at = list[i].at /\ note.mode = list[i].mode

NoteInv == NotedTypes /\ Agrees(noted, outcomes)

(* The invariant is enough.                                                *)
LEMMA NoteAgrees == NoteInv => NoteIsLatest
  <1> SUFFICES ASSUME NoteInv PROVE NoteIsLatest OBVIOUS
  <1> DEFINE throttles == {i \in DOMAIN outcomes : outcomes[i].kind = "throttled"}
             standing == {i \in throttles :
               /\ \A j \in throttles : j <= i
               /\ ~ \E j \in DOMAIN outcomes :
                      /\ j > i /\ outcomes[j].kind = "worked"
                      /\ outcomes[i].mode \in {None, outcomes[j].mode}
                      /\ outcomes[j].started > outcomes[i].at}
  <1>1. /\ DOMAIN outcomes = 1..Len(outcomes)
        /\ \A i \in 1..Len(outcomes) : outcomes[i] \in Ended
    BY ElementOfSeq, LenProperties DEF NoteInv, NotedTypes
  <1>2. \A i : i \in standing <=> i \in 1..Len(outcomes) /\ Stands(outcomes, i)
    <2> TAKE i
    <2>1. \A j \in 1..Len(outcomes) : outcomes[j].started \in Nat /\ outcomes[j].at \in Nat
      BY <1>1 DEF Ended
    <2>2. \A j \in throttles : j \in 1..Len(outcomes) /\ outcomes[j].kind = "throttled"
      BY <1>1
    <2>3. \A j \in 1..Len(outcomes) : outcomes[j].kind = "throttled" => j \in throttles
      BY <1>1
    <2>4. ASSUME i \in standing PROVE i \in 1..Len(outcomes) /\ Stands(outcomes, i)
      <3>1. i \in throttles /\ \A j \in throttles : j <= i BY <2>4
      <3>2. \A j \in 1..Len(outcomes) :
              j > i /\ outcomes[j].kind = "worked" /\ outcomes[i].mode \in {None, outcomes[j].mode}
              => ~ outcomes[j].started > outcomes[i].at
        BY <1>1, <2>4
      <3> HIDE DEF throttles, standing
      <3>3. i \in 1..Len(outcomes) /\ outcomes[i].kind = "throttled" BY <2>2, <3>1
      <3>4. \A j \in 1..Len(outcomes) : outcomes[j].kind = "throttled" => j <= i
        BY <2>3, <3>1
      <3>5. \A j \in 1..Len(outcomes) :
              j > i /\ outcomes[j].kind = "worked" /\ outcomes[i].mode \in {None, outcomes[j].mode}
              => outcomes[j].started <= outcomes[i].at
        BY <2>1, <3>2, <3>3
      <3> QED BY <3>3, <3>4, <3>5 DEF Stands
    <2>5. ASSUME i \in 1..Len(outcomes), Stands(outcomes, i) PROVE i \in standing
      BY <1>1, <2>1, <2>2, <2>3, <2>5 DEF Stands
    <2> QED BY <2>4, <2>5
  <1>3. noted.until \in BOOLEAN BY DEF NoteInv, NotedTypes, Notes
  <1> HIDE DEF standing
  <1>4. /\ noted.until <=> standing # {}
        /\ \A i \in standing : noted.at = outcomes[i].at /\ noted.mode = outcomes[i].mode
    BY <1>2, <1>3 DEF NoteInv, Agrees
  <1> QED BY <1>4 DEF NoteIsLatest, standing

(* A note that is cleared.                                                 *)
LEMMA ClearedNote ==
  ASSUME NEW a \in Notes
  PROVE  Cleared(a) \in Notes /\ Cleared(a).until = FALSE /\ Cleared(a).epoch \in Nat
  BY DEF Cleared, Notes

(* Which outcome stands once one more turn has ended.                      *)
LEMMA StandsNext ==
  ASSUME NEW list \in Seq(Ended), NEW o \in Ended
  PROVE  LET next == Append(list, o) IN
         /\ o.kind = "throttled" => \A i \in Nat : Stands(next, i) <=> i = Len(list) + 1
         /\ o.kind = "worked" => \A i \in Nat : Stands(next, i) <=>
              /\ Stands(list, i)
              /\ list[i].mode \in {None, o.mode} => o.started <= list[i].at
  <1> DEFINE next == Append(list, o)
             n == Len(list)
  <1>1. /\ n \in Nat /\ Len(next) = n + 1 /\ next[n + 1] = o
        /\ \A i \in 1..n : next[i] = list[i] /\ list[i] \in Ended
    BY ElementOfSeq, LenProperties
  <1> HIDE DEF next, n
  <1>2. ASSUME o.kind = "throttled", NEW i \in Nat PROVE Stands(next, i) <=> i = n + 1
    <2>1. ASSUME i = n + 1 PROVE Stands(next, i)
      BY <1>1, <1>2, <2>1 DEF Stands
    <2>2. ASSUME Stands(next, i) PROVE i = n + 1
      BY <1>1, <1>2, <2>2 DEF Stands
    <2> QED BY <2>1, <2>2
  <1>3. ASSUME o.kind = "worked", NEW i \in Nat
        PROVE  Stands(next, i) <=>
                 /\ Stands(list, i)
                 /\ list[i].mode \in {None, o.mode} => o.started <= list[i].at
    <2>1. ASSUME Stands(next, i)
          PROVE  /\ Stands(list, i)
                 /\ list[i].mode \in {None, o.mode} => o.started <= list[i].at
      <3>1. i \in 1..n BY <1>1, <1>3, <2>1 DEF Stands
      <3>2. Stands(list, i) BY <1>1, <2>1, <3>1 DEF Stands, n
      <3>3. list[i].mode \in {None, o.mode} => o.started <= list[i].at
        BY <1>1, <1>3, <2>1, <3>1 DEF Stands
      <3> QED BY <3>2, <3>3
    <2>2. ASSUME Stands(list, i), list[i].mode \in {None, o.mode} => o.started <= list[i].at
          PROVE  Stands(next, i)
      <3>1. i \in 1..n BY <2>2 DEF Stands, n
      <3>2. \A j \in 1..(n + 1) : j \in 1..n \/ j = n + 1 BY <1>1
      <3> QED BY <1>1, <1>3, <2>2, <3>1, <3>2 DEF Stands, n
    <2> QED BY <2>1, <2>2
  <1> QED BY <1>2, <1>3 DEF next, n

(* Every step keeps the invariant.                                         *)
LEMMA NoteStep == NoteInv /\ [NotesNext]_noteVars => NoteInv'
  <1> SUFFICES ASSUME NoteInv, [NotesNext]_noteVars PROVE NoteInv' OBVIOUS
  <1>1. CASE UNCHANGED noteVars
    BY <1>1 DEF NoteInv, NotedTypes, noteVars
  <1>2. ASSUME UNCHANGED <<noted, outcomes>>, now' \in Nat,
               turns' \in [Turns -> TurnRecords]
        PROVE  NoteInv'
    BY <1>2 DEF NoteInv, NotedTypes
  <1>3. CASE Tick
    BY <1>2, <1>3 DEF Tick, NoteInv, NotedTypes
  <1>4. ASSUME NEW r \in Turns, NEW mode \in Modes \cup {None}, Dispatch(r, mode) PROVE NoteInv'
    BY <1>2, <1>4 DEF Dispatch, Turn, NoteInv, NotedTypes, Notes, TurnRecords
  <1>5. ASSUME NEW r \in Turns, Run(r) PROVE NoteInv'
    <2> DEFINE s == [turns EXCEPT ![r].pc = "running"]
    <2>1. turns \in [Turns -> TurnRecords] /\ now \in Nat BY DEF NoteInv, NotedTypes
    <2>2. s \in [Turns -> TurnRecords] BY <2>1 DEF TurnRecords
    <2>3. turns' = [s EXCEPT ![r].started = now] BY <1>5 DEF Run
    <2> HIDE DEF s
    <2>4. s[r] \in TurnRecords /\ [s[r] EXCEPT !.started = now] \in TurnRecords
      BY <2>1, <2>2 DEF TurnRecords
    <2>5. turns' \in [Turns -> TurnRecords] BY <2>2, <2>3, <2>4
    <2> QED BY <1>2, <1>5, <2>1, <2>5 DEF Run
  <1>6. ASSUME NEW r \in Turns, ReportQuota(r) PROVE NoteInv'
    BY <1>2, <1>6 DEF ReportQuota, NoteInv, NotedTypes
  <1>7. ASSUME NEW r \in Turns, EndTurn(r) PROVE NoteInv'
    <2> DEFINE t == turns[r]
               Heard(kind) ==
                 IF ~ Concerns(noted, t) THEN outcomes
                 ELSE Append(outcomes, [kind |-> kind, mode |-> t.mode, started |-> t.started,
                                        at |-> now])
               over == [Turn EXCEPT !.pc = "over"]
    <2>1. /\ now' = now /\ now \in Nat
          /\ turns' \in [Turns -> TurnRecords]
          /\ t.mode \in Modes \cup {None} /\ t.started \in Nat
          /\ outcomes \in Seq(Ended)
      BY <1>7 DEF EndTurn, Turn, NoteInv, NotedTypes, TurnRecords
    <2>2. CASE UNCHANGED <<noted, outcomes>>
      BY <1>2, <2>1, <2>2
    <2>3. CASE noted' = Throttles(noted, t) /\ outcomes' = Heard("throttled")
      <3>1. CASE ~ Concerns(noted, t)
        BY <1>2, <2>1, <2>3, <3>1 DEF Throttles
      <3>2. CASE Concerns(noted, t)
        <4> DEFINE o == [kind |-> "throttled", mode |-> t.mode, started |-> t.started, at |-> now]
        <4>1. o \in Ended /\ o.kind = "throttled" /\ o.mode = t.mode /\ o.at = now
          BY <2>1 DEF Ended
        <4>2. outcomes' = Append(outcomes, o) BY <2>3, <3>2
        <4>3. /\ noted' \in Notes
              /\ noted'.until = TRUE /\ noted'.mode = t.mode /\ noted'.at = now
          BY <2>1, <2>3, <3>2 DEF Throttles, NoteInv, NotedTypes, Notes
        <4> HIDE DEF o, t
        <4>4. /\ outcomes' \in Seq(Ended) /\ Len(outcomes') = Len(outcomes) + 1
              /\ outcomes'[Len(outcomes) + 1] = o /\ Len(outcomes) \in Nat
          BY <2>1, <4>1, <4>2
        <4>5. \A i \in Nat : Stands(outcomes', i) <=> i = Len(outcomes) + 1
          BY <2>1, <4>1, <4>2, StandsNext
        <4>6. Agrees(noted, outcomes)'
          BY <4>1, <4>3, <4>4, <4>5 DEF Agrees
        <4> QED BY <2>1, <4>3, <4>4, <4>6 DEF NoteInv, NotedTypes, Ended
      <3> QED BY <3>1, <3>2
    <2>4. CASE noted' = Works(noted, t) /\ outcomes' = Heard("worked")
      <3>1. CASE ~ Concerns(noted, t)
        BY <1>2, <2>1, <2>4, <3>1 DEF Works
      <3>2. CASE Concerns(noted, t)
        <4> DEFINE o == [kind |-> "worked", mode |-> t.mode, started |-> t.started, at |-> now]
        <4>1. o \in Ended /\ o.kind = "worked" /\ o.mode = t.mode /\ o.started = t.started
          BY <2>1 DEF Ended
        <4>2. outcomes' = Append(outcomes, o) BY <2>4, <3>2
        <4>3. /\ noted \in Notes
              /\ Agrees(noted, outcomes)
          BY DEF NoteInv, NotedTypes
        <4>4. /\ noted' \in Notes
              /\ noted.until = TRUE /\ noted.mode \in {None, t.mode} /\ t.started > noted.at
                   => noted'.until = FALSE
              /\ ~ (noted.until = TRUE /\ noted.mode \in {None, t.mode} /\ t.started > noted.at)
                   => noted' = noted
          <5>1. noted'.until \in BOOLEAN /\ noted.until \in BOOLEAN /\ noted.at \in Nat
            BY <2>4, <4>3, ClearedNote DEF Works, Notes
          <5>2. noted' = IF \/ ~ noted.until \/ noted.mode \notin {None, t.mode}
                           \/ t.started <= noted.at
                        THEN noted ELSE Cleared(noted)
            BY <2>4, <3>2 DEF Works
          <5>3. t.started \in Nat BY <2>1
          <5>4. noted \in Notes BY <4>3
          <5> HIDE DEF t
          <5>5. CASE noted.until = TRUE /\ noted.mode \in {None, t.mode} /\ t.started > noted.at
            <6>1. noted' = Cleared(noted) BY <5>1, <5>2, <5>3, <5>5
            <6> QED BY <5>4, <5>5, <6>1, ClearedNote
          <5>6. CASE ~ (noted.until = TRUE /\ noted.mode \in {None, t.mode} /\ t.started > noted.at)
            <6>1. noted' = noted BY <5>1, <5>2, <5>3, <5>6
            <6> QED BY <5>4, <5>6, <6>1
          <5> QED BY <5>5, <5>6
        <4> HIDE DEF o, t
        <4>5. /\ outcomes' \in Seq(Ended) /\ Len(outcomes') = Len(outcomes) + 1
              /\ Len(outcomes) \in Nat
              /\ \A i \in 1..Len(outcomes) : outcomes'[i] = outcomes[i]
          BY <2>1, <4>1, <4>2
        <4>6. \A i \in Nat : Stands(outcomes', i) <=>
                 /\ Stands(outcomes, i)
                 /\ outcomes[i].mode \in {None, t.mode} => t.started <= outcomes[i].at
          BY <2>1, <4>1, <4>2, StandsNext
        <4>7. \A i : Stands(outcomes, i) => i \in 1..Len(outcomes) BY DEF Stands
        <4>71. noted.at \in Nat /\ t.started \in Nat BY <2>1, <4>3 DEF Notes
        <4>8. Agrees(noted, outcomes)'
          <5>1. CASE noted.until = TRUE
            <6>1. PICK k \in 1..Len(outcomes) : Stands(outcomes, k) BY <4>3, <5>1 DEF Agrees
            <6>2. noted.at = outcomes[k].at /\ noted.mode = outcomes[k].mode
              BY <4>3, <6>1 DEF Agrees
            <6>3. \A i \in 1..Len(outcomes) : Stands(outcomes, i) => i = k
              BY <4>5, <6>1 DEF Stands
            <6>4. CASE noted.mode \in {None, t.mode} /\ t.started > noted.at
              <7>1. noted'.until = FALSE BY <4>4, <5>1, <6>4
              <7>2. \A i \in Nat : ~ Stands(outcomes', i)
                <8>1. ~ (t.started <= outcomes[k].at) /\ outcomes[k].mode \in {None, t.mode}
                  BY <2>1, <4>71, <6>2, <6>4
                <8>2. TAKE i \in Nat
                <8>3. Stands(outcomes, i) => i = k BY <4>7, <6>3
                <8> QED BY <4>6, <8>1, <8>3
              <7> QED BY <4>5, <7>1, <7>2 DEF Agrees
            <6>5. CASE ~ (noted.mode \in {None, t.mode} /\ t.started > noted.at)
              <7>1. noted' = noted BY <4>4, <6>5
              <7>2. \A i \in Nat : Stands(outcomes', i) <=> i = k
                <8>1. outcomes[k].mode \in {None, t.mode} => t.started <= outcomes[k].at
                  BY <2>1, <4>71, <6>2, <6>5
                <8>2. TAKE i \in Nat
                <8>3. Stands(outcomes, i) <=> i = k BY <4>7, <6>1, <6>3
                <8> QED BY <4>6, <8>1, <8>3
              <7> QED BY <4>5, <5>1, <6>1, <6>2, <7>1, <7>2 DEF Agrees
            <6> QED BY <6>4, <6>5
          <5>2. CASE noted.until # TRUE
            <6>1. noted' = noted BY <4>4, <5>2
            <6>2. \A i \in 1..Len(outcomes) : ~ Stands(outcomes, i) BY <4>3, <5>2 DEF Agrees
            <6>3. \A i \in Nat : ~ Stands(outcomes', i) BY <4>6, <4>7, <6>2
            <6>4. \A i \in 1..Len(outcomes') : ~ Stands(outcomes', i) BY <4>5, <6>3
            <6> HIDE DEF Stands
            <6> QED BY <5>2, <6>1, <6>4 DEF Agrees
          <5> QED BY <5>1, <5>2
        <4> QED BY <2>1, <4>4, <4>5, <4>8 DEF NoteInv, NotedTypes, Ended
      <3> QED BY <3>1, <3>2
    <2> QED BY <1>7, <2>2, <2>3, <2>4 DEF EndTurn
  <1>8. ASSUME NEW identity \in Identities, Rebind(identity) PROVE NoteInv'
    <2>1. /\ noted' \in Notes
          /\ noted'.until = FALSE
      <3> DEFINE a == Cleared(noted)
                 e == a.epoch + 1
      <3>1. a \in Notes /\ a.until = FALSE /\ a.epoch \in Nat
        BY ClearedNote DEF NoteInv, NotedTypes
      <3>2. e \in Nat BY <3>1
      <3>3. noted' = [a EXCEPT !.identity = identity, !.epoch = e]
        BY <1>8, <3>1 DEF Rebind, Notes
      <3> HIDE DEF a, e
      <3> QED BY <3>1, <3>2, <3>3 DEF Notes
    <2>2. outcomes' = <<>> /\ UNCHANGED <<turns, now>> BY <1>8 DEF Rebind
    <2> QED BY <2>1, <2>2 DEF NoteInv, NotedTypes, Agrees
  <1>9. CASE SwitchProtocol \/ \E by \in {"admin", "user"} : RemoveNoted(by)
    <2>1. /\ noted' \in Notes
          /\ noted'.until = noted.until /\ noted'.at = noted.at /\ noted'.mode = noted.mode
          /\ UNCHANGED <<turns, outcomes, now>>
      <3>1. noted \in Notes /\ noted.epoch \in Nat BY DEF NoteInv, NotedTypes, Notes
      <3>2. CASE SwitchProtocol BY <3>1, <3>2 DEF SwitchProtocol, Notes
      <3>3. CASE \E by \in {"admin", "user"} : RemoveNoted(by)
        BY <3>1, <3>3 DEF RemoveNoted, Notes
      <3> QED BY <1>9, <3>2, <3>3
    <2> QED BY <2>1 DEF NoteInv, NotedTypes, Agrees
  <1> QED BY <1>1, <1>3, <1>4, <1>5, <1>6, <1>7, <1>8, <1>9 DEF NotesNext

(* For any turns, modes and identities: the note of an account is of the   *)
(* latest throttled turn that concerns it and that no turn started since   *)
(* contradicts, and there is none otherwise.                               *)
THEOREM NoteHeld == NotesSpec => []NoteIsLatest
  <1>1. NotesInit => NoteInv
    <2> SUFFICES ASSUME NotesInit PROVE NoteInv OBVIOUS
    <2>1. noted \in Notes /\ noted.until = FALSE
      <3>1. PICK i \in Identities :
              noted = [present |-> TRUE, identity |-> i, epoch |-> 0, until |-> FALSE,
                       mode |-> None, at |-> 0]
        BY DEF NotesInit
      <3> QED BY <3>1 DEF Notes
    <2>2. turns \in [Turns -> TurnRecords] BY DEF NotesInit, Turn, TurnRecords
    <2>3. outcomes = <<>> /\ now = 1 BY DEF NotesInit
    <2> QED BY <2>1, <2>2, <2>3 DEF NoteInv, NotedTypes, Agrees
  <1> QED BY <1>1, NoteStep, NoteAgrees, PTL DEF NotesSpec

-----------------------------------------------------------------------------
(* The ceiling of a key.                                                   *)


Level == [rate : Rates, level : Nat, updated : Nat]

RateTypes ==
  /\ rate \in Rates /\ ticks \in Nat
  /\ buckets \in Seq(Level)
  /\ entry \in Nat /\ (entry # 0 => entry \in DOMAIN buckets)
  /\ threads \in [Threads -> [pc : {"idle", "looked"}, bucket : Nat]]
  /\ \A t \in Threads : threads[t].pc = "looked" => threads[t].bucket \in DOMAIN buckets
  /\ passed \in Seq([bucket : Nat, at : Nat])
  /\ \A i \in DOMAIN passed : passed[i].bucket \in DOMAIN buckets

\* The requests from the i-th to the j-th that have the bucket of the i-th.
Sharing(seq, i, j) == {n \in i .. j : seq[n].bucket = seq[i].bucket}

\* Units: of a full bucket, of c tokens, and what accrues at a rate.
Full == Burst * UNIT
Price(c) == c * UNIT
Accrued(r, at, then) == (then - at) * r

\* What c requests since the time at leave of the burst and of what accrued.
Leaves(b, at, c) ==
  at <= b.updated /\ Price(c) + b.level <= Full + Accrued(b.rate, at, b.updated)

Levelled ==
  /\ \A k \in DOMAIN buckets : buckets[k].level <= Full /\ buckets[k].updated <= ticks
  /\ \A i \in DOMAIN passed :
       Leaves(buckets[passed[i].bucket], passed[i].at, Cardinality(Sharing(passed, i, Len(passed))))

RateInv == RateTypes /\ Levelled /\ RateHeld

\* A bucket that replaces another may keep a request's tokens no better.
NoWorse(b, new) ==
  new.rate = b.rate /\ \A at, c \in Nat : Leaves(b, at, c) => Leaves(new, at, c)

(* The price of a count of tokens, and of one more.                        *)
LEMMA Prices ==
  /\ Full \in Nat /\ UNIT \in Nat
  /\ \A c \in Nat : Price(c) \in Nat /\ Price(c + 1) = Price(c) + UNIT
  /\ Price(0) = 0
  <1>1. \A x, y \in Nat : x * y \in Nat /\ (x + 1) * y = x * y + y /\ 0 * y = 0
    OBVIOUS
  <1> QED BY <1>1, RatesAssumption DEF Full, Price

(* What accrues over two spans is what accrues over both.                  *)
LEMMA Accrues ==
  /\ \A r, x, y \in Nat : Accrued(r, x, y) \in Int /\ (x <= y => Accrued(r, x, y) \in Nat)
  /\ \A r, x, y, z \in Nat : Accrued(r, x, z) = Accrued(r, y, z) + Accrued(r, x, y)
  /\ \A r, x \in Nat : Accrued(r, x, x) = 0
  <1>1. \A x, y, z, r \in Int : (z - x) * r = (z - y) * r + (y - x) * r /\ (z - x) * r \in Int
    OBVIOUS
  <1>2. \A x, r \in Nat : x * r \in Nat /\ 0 * r = 0
    OBVIOUS
  <1>3. \A x, y \in Nat : (x <= y => y - x \in Nat) /\ x - x = 0
    OBVIOUS
  <1> QED BY <1>1, <1>2, <1>3 DEF Accrued

LevelOf(r, l, u) == [rate |-> r, level |-> l, updated |-> u]

(* The fields of a bucket.                                                 *)
LEMMA LevelFields ==
  ASSUME NEW b \in Level
  PROVE  /\ b.rate \in Rates /\ b.rate \in Nat /\ b.level \in Nat /\ b.updated \in Nat
         /\ \A l, u : [b EXCEPT !.level = l, !.updated = u] = LevelOf(b.rate, l, u)
         /\ \A l : [b EXCEPT !.level = l] = LevelOf(b.rate, l, b.updated)
         /\ \A l, u \in Nat : LevelOf(b.rate, l, u) \in Level
  <1>1. b.rate \in Rates /\ b.rate \in Nat /\ b.level \in Nat /\ b.updated \in Nat
    BY RatesAssumption DEF Level
  <1>2. ASSUME NEW l, NEW u
        PROVE  [b EXCEPT !.level = l, !.updated = u] = LevelOf(b.rate, l, u)
    <2>1. PICK r, m, v : b = [rate |-> r, level |-> m, updated |-> v] BY DEF Level
    <2>2. [b EXCEPT !.level = l] = [rate |-> r, level |-> l, updated |-> v] BY <2>1
    <2>3. [[rate |-> r, level |-> l, updated |-> v] EXCEPT !.updated = u]
            = [rate |-> r, level |-> l, updated |-> u]
      OBVIOUS
    <2>4. b.rate = r BY <2>1
    <2> QED BY <2>2, <2>3, <2>4 DEF LevelOf
  <1>3. ASSUME NEW l
        PROVE  [b EXCEPT !.level = l] = LevelOf(b.rate, l, b.updated)
    BY DEF Level, LevelOf
  <1>4. \A l, u \in Nat : LevelOf(b.rate, l, u) \in Level
    BY <1>1 DEF Level, LevelOf
  <1> QED BY <1>1, <1>2, <1>3, <1>4

(* What is counted is finite, and a request more counts one more where it  *)
(* has the bucket.                                                         *)
LEMMA SharingFinite ==
  ASSUME NEW seq, NEW i \in Nat, NEW j \in Nat
  PROVE  IsFiniteSet(Sharing(seq, i, j)) /\ Cardinality(Sharing(seq, i, j)) \in Nat
  <1>1. IsFiniteSet(i .. j) BY FS_Interval
  <1>2. Sharing(seq, i, j) \subseteq i .. j BY DEF Sharing
  <1> QED BY <1>1, <1>2, FS_Subset, FS_CardinalityType

(* One more request of the same bucket is one more that shares it, and one *)
(* of another bucket none.                                                 *)
LEMMA SharingGrows ==
  ASSUME NEW e, NEW S, NEW seq \in Seq(S), NEW i \in DOMAIN seq
  PROVE  LET more == Append(seq, e) IN
         /\ \A j \in DOMAIN seq : Sharing(more, i, j) = Sharing(seq, i, j)
         /\ Cardinality(Sharing(more, i, Len(more)))
              = Cardinality(Sharing(seq, i, Len(seq)))
                + (IF e.bucket = seq[i].bucket THEN 1 ELSE 0)
  <1> DEFINE more == Append(seq, e)
             n == Len(seq)
  <1>1. n \in Nat /\ Len(more) = n + 1 /\ i \in 1 .. n OBVIOUS
  <1>2. more[n + 1] = e /\ \A k \in 1 .. n : more[k] = seq[k] OBVIOUS
  <1>3. \A j \in 1 .. n : Sharing(more, i, j) = Sharing(seq, i, j)
    BY <1>1, <1>2 DEF Sharing
  <1>4. Sharing(more, i, n + 1)
          = IF e.bucket = seq[i].bucket THEN Sharing(seq, i, n) \cup {n + 1} ELSE Sharing(seq, i, n)
    <2> HIDE DEF more, n
    <2> QED BY <1>1, <1>2 DEF Sharing
  <1>5. IsFiniteSet(Sharing(seq, i, n)) /\ n + 1 \notin Sharing(seq, i, n)
    BY <1>1, SharingFinite DEF Sharing
  <1>6. Cardinality(Sharing(seq, i, n)) \in Nat
    BY <1>5, FS_CardinalityType
  <1>7. Cardinality(Sharing(seq, i, n) \cup {n + 1}) = Cardinality(Sharing(seq, i, n)) + 1
    BY <1>5, FS_AddElement
  <1> QED BY <1>1, <1>3, <1>4, <1>6, <1>7

(* A request shares its bucket with itself.                                *)
LEMMA SharingOne ==
  ASSUME NEW seq, NEW i \in Nat PROVE Cardinality(Sharing(seq, i, i)) = 1
  <1>1. Sharing(seq, i, i) = {i} BY DEF Sharing
  <1> QED BY <1>1, FS_Singleton

(* The bucket after a refill holds no more than the burst, and no more     *)
(* than it gained, so what was true of earlier requests stays true.        *)
LEMMA Refills ==
  ASSUME NEW b \in Level, ticks \in Nat, b.updated <= ticks, b.level <= Full
  PROVE  /\ Refilled(b) \in Level
         /\ Refilled(b).rate = b.rate /\ Refilled(b).updated = ticks
         /\ Refilled(b).level <= Full
         /\ \A at, c \in Nat : Leaves(b, at, c) => Leaves(Refilled(b), at, c)
  <1> DEFINE gain == Accrued(b.rate, b.updated, ticks)
             left == IF b.level + gain > Full THEN Full ELSE b.level + gain
  <1>1. /\ b.rate \in Nat /\ b.level \in Nat /\ b.updated \in Nat /\ b.rate \in Rates
        /\ gain \in Nat /\ Full \in Nat
    BY LevelFields, Prices, Accrues
  <1>2. Refilled(b) = LevelOf(b.rate, left, ticks)
    <2>1. Refilled(b) = [b EXCEPT !.level = left, !.updated = ticks]
      BY Zenon DEF Refilled, Accrued, Full
    <2> HIDE DEF left
    <2>2. [b EXCEPT !.level = left, !.updated = ticks] = LevelOf(b.rate, left, ticks)
      <3>1. \A l, u : [b EXCEPT !.level = l, !.updated = u] = LevelOf(b.rate, l, u)
        BY LevelFields
      <3> QED BY <3>1, Zenon
    <2> QED BY <2>1, <2>2
  <1>3. left \in Nat /\ left <= Full /\ left <= b.level + gain
    <2> HIDE DEF gain
    <2> QED BY <1>1
  <1>4. ASSUME NEW at \in Nat, NEW c \in Nat, Leaves(b, at, c)
        PROVE  at <= ticks /\ Price(c) + left <= Full + Accrued(b.rate, at, ticks)
    <2>1. at <= b.updated /\ Price(c) + b.level <= Full + Accrued(b.rate, at, b.updated)
      BY <1>4 DEF Leaves
    <2>2. Accrued(b.rate, at, ticks) = gain + Accrued(b.rate, at, b.updated)
      <3>1. \A r, x, y, z \in Nat : Accrued(r, x, z) = Accrued(r, y, z) + Accrued(r, x, y)
        BY Accrues
      <3>2. ticks \in Nat OBVIOUS
      <3> QED BY <1>1, <3>1, <3>2, SMT
    <2>3. Price(c) \in Nat /\ Accrued(b.rate, at, b.updated) \in Int
      BY <1>1, Prices, Accrues
    <2> HIDE DEF left, gain
    <2> QED BY <1>1, <1>3, <2>1, <2>2, <2>3
  <1> HIDE DEF left, gain
  <1>5. Refilled(b) \in Level
    <2>1. \A l, u \in Nat : LevelOf(b.rate, l, u) \in Level BY LevelFields
    <2> QED BY <1>2, <1>3, <2>1
  <1> QED BY <1>2, <1>3, <1>4, <1>5 DEF Leaves, LevelOf

(* A token that is taken is one request more.                              *)
LEMMA Pays ==
  ASSUME NEW b \in Level, b.level >= UNIT, b.level <= Full
  PROVE  LET paid == [b EXCEPT !.level = @ - UNIT] IN
         /\ paid \in Level
         /\ paid.rate = b.rate /\ paid.updated = b.updated /\ paid.level <= Full
         /\ \A at, c \in Nat : Leaves(b, at, c) => Leaves(paid, at, c + 1)
         /\ Leaves(b, b.updated, 0)
  <1> DEFINE l == b.level - UNIT
             paid == LevelOf(b.rate, l, b.updated)
  <1>1. b.rate \in Nat /\ b.level \in Nat /\ b.updated \in Nat /\ Full \in Nat /\ UNIT \in Nat
    BY LevelFields, Prices
  <1>2. [b EXCEPT !.level = @ - UNIT] = paid
    BY LevelFields
  <1>3. l \in Nat /\ l <= Full
    BY <1>1
  <1>4. ASSUME NEW at \in Nat, NEW c \in Nat, Leaves(b, at, c)
        PROVE  Price(c + 1) + l <= Full + Accrued(b.rate, at, b.updated)
    <2>1. Price(c) + b.level <= Full + Accrued(b.rate, at, b.updated)
      BY <1>4 DEF Leaves
    <2>2. /\ Price(c) \in Nat /\ Price(c + 1) = Price(c) + UNIT
          /\ Accrued(b.rate, at, b.updated) \in Int
      BY <1>1, Prices, Accrues
    <2> QED BY <1>1, <2>1, <2>2
  <1>5. Leaves(b, b.updated, 0)
    <2>1. Price(0) = 0 /\ Accrued(b.rate, b.updated, b.updated) = 0
      BY <1>1, Prices, Accrues, Zenon
    <2> QED BY <1>1, <2>1 DEF Leaves
  <1>6. paid \in Level
    BY <1>1, <1>3, LevelFields
  <1>7. paid.rate = b.rate /\ paid.updated = b.updated /\ paid.level = l
    BY DEF LevelOf
  <1> HIDE DEF paid, l
  <1>8. \A at, c \in Nat : Leaves(b, at, c) => Leaves(paid, at, c + 1)
    BY <1>4, <1>7 DEF Leaves
  <1> QED BY <1>2, <1>3, <1>5, <1>6, <1>7, <1>8

(* A level leaves room for no more requests than the burst and what        *)
(* accrued.                                                                *)
LEMMA Spends ==
  ASSUME NEW b \in Level, NEW at \in Nat, NEW c \in Nat, Leaves(b, at, c)
  PROVE  Price(c) <= Full + Accrued(b.rate, at, b.updated)
  <1>1. /\ Price(c) \in Nat /\ Full \in Nat /\ b.level \in Nat
        /\ Accrued(b.rate, at, b.updated) \in Int
    BY LevelFields, Prices, Accrues
  <1> QED BY <1>1 DEF Leaves

(* What a bucket leaves bounds the requests it let through.                *)
LEMMA Held ==
  RateHeld <=>
    \A i, j \in DOMAIN passed :
      i <= j /\ passed[i].bucket = passed[j].bucket =>
        Price(Cardinality(Sharing(passed, i, j)))
          <= Full + Accrued(buckets[passed[i].bucket].rate, passed[i].at, passed[j].at)
  BY Zenon DEF RateHeld, Price, Sharing, Full, Accrued

(* What is known of a request that passed.                                 *)
LEMMA PassedFacts ==
  ASSUME RateTypes, NEW i \in DOMAIN passed
  PROVE  /\ i \in Nat /\ Len(passed) \in Nat /\ DOMAIN passed = 1 .. Len(passed)
         /\ passed[i].bucket \in DOMAIN buckets /\ passed[i].at \in Nat
         /\ buckets[passed[i].bucket] \in Level
         /\ \A j \in DOMAIN passed : Cardinality(Sharing(passed, i, j)) \in Nat
         /\ Cardinality(Sharing(passed, i, Len(passed))) \in Nat
  <1>1. i \in Nat /\ Len(passed) \in Nat /\ DOMAIN passed = 1 .. Len(passed)
    BY DEF RateTypes
  <1>2. passed[i].bucket \in DOMAIN buckets /\ passed[i].at \in Nat
    <2>1. passed \in Seq([bucket : Nat, at : Nat]) BY DEF RateTypes
    <2>2. passed[i] \in [bucket : Nat, at : Nat] BY <1>1, <2>1, ElementOfSeq
    <2> QED BY <2>2 DEF RateTypes
  <1>3. buckets[passed[i].bucket] \in Level
    BY <1>2 DEF RateTypes
  <1>4. \A j \in DOMAIN passed : j \in Nat
    BY <1>1
  <1> QED BY <1>1, <1>2, <1>3, <1>4, SharingFinite

(* What the requests so far have left holds on while no bucket does worse. *)
LEMMA Rebucketed ==
  ASSUME RateInv, passed' = passed,
         \A k \in DOMAIN buckets : k \in DOMAIN buckets' /\ NoWorse(buckets[k], buckets'[k])
  PROVE  /\ \A i \in DOMAIN passed' :
              Leaves(buckets'[passed'[i].bucket], passed'[i].at,
                     Cardinality(Sharing(passed', i, Len(passed'))))
         /\ RateHeld'
  <1>1. ASSUME NEW i \in DOMAIN passed
        PROVE  Leaves(buckets'[passed[i].bucket], passed[i].at,
                      Cardinality(Sharing(passed, i, Len(passed))))
    <2>1. passed[i].bucket \in DOMAIN buckets /\ passed[i].at \in Nat
          /\ Cardinality(Sharing(passed, i, Len(passed))) \in Nat
      BY PassedFacts DEF RateInv
    <2>2. Leaves(buckets[passed[i].bucket], passed[i].at,
                 Cardinality(Sharing(passed, i, Len(passed))))
      BY DEF RateInv, Levelled
    <2> QED BY <2>1, <2>2, Zenon DEF NoWorse
  <1>2. \A i \in DOMAIN passed : buckets'[passed[i].bucket].rate = buckets[passed[i].bucket].rate
    BY PassedFacts, Zenon DEF NoWorse, RateInv
  <1>3. RateHeld'
    <2>1. \A i, j \in DOMAIN passed :
            i <= j /\ passed[i].bucket = passed[j].bucket =>
              Price(Cardinality(Sharing(passed, i, j)))
                <= Full + Accrued(buckets[passed[i].bucket].rate, passed[i].at, passed[j].at)
      BY Held DEF RateInv
    <2>2. ASSUME NEW i \in DOMAIN passed', NEW j \in DOMAIN passed',
                 i <= j /\ passed'[i].bucket = passed'[j].bucket
          PROVE  Price(Cardinality(Sharing(passed', i, j)))
                   <= Full + Accrued(buckets'[passed'[i].bucket].rate, passed'[i].at, passed'[j].at)
      BY <1>2, <2>1, <2>2
    <2> QED BY <2>2, Zenon DEF RateHeld, Price, Full, Accrued, Sharing
  <1> QED BY <1>1, <1>3

(* A bucket is no worse than itself.                                       *)
LEMMA Worse ==
  ASSUME NEW b \in Level PROVE NoWorse(b, b)
  BY DEF NoWorse

(* A thread finds the bucket of the limit, or a new one for a new limit.   *)
LEMMA LookUpStep ==
  ASSUME RateInv, NEW t \in Threads, LookUp(t)
  PROVE  RateInv'
  <1> DEFINE known == entry # 0 /\ buckets[entry].rate = rate
             fresh == LevelOf(rate, Full, ticks)
  <1>1. RateTypes /\ Levelled BY DEF RateInv
  <1>2. fresh \in Level /\ fresh.level = Full /\ fresh.updated = ticks
    BY <1>1, Prices DEF RateTypes, Level, LevelOf
  <1>3. /\ buckets' = IF known THEN buckets ELSE Append(buckets, fresh)
        /\ entry' = IF known THEN entry ELSE Len(buckets')
        /\ threads' = [threads EXCEPT ![t] = [pc |-> "looked", bucket |-> entry']]
        /\ rate' = rate /\ ticks' = ticks /\ passed' = passed
    BY DEF LookUp, LevelOf, Full
  <1> HIDE DEF fresh, known
  <1>4. /\ \A k \in DOMAIN buckets : k \in DOMAIN buckets' /\ buckets'[k] = buckets[k]
        /\ \A k \in DOMAIN buckets' : k \in DOMAIN buckets \/ buckets'[k] = fresh
        /\ buckets' \in Seq(Level)
    <2>1. buckets \in Seq(Level) BY <1>1 DEF RateTypes
    <2>2. CASE known BY <2>1, <2>2, <1>3
    <2>3. CASE ~known
      <3>1. buckets' = Append(buckets, fresh) BY <1>3, <2>3
      <3> QED BY <2>1, <3>1, <1>2
    <2> QED BY <2>2, <2>3
  <1>5. entry' \in DOMAIN buckets' /\ entry' \in Nat
    <2>1. CASE known
      BY <2>1, <1>1, <1>3 DEF known, RateTypes
    <2>2. CASE ~known
      <3>1. buckets \in Seq(Level) BY <1>1 DEF RateTypes
      <3>2. buckets' = Append(buckets, fresh) /\ entry' = Len(buckets') BY <1>3, <2>2
      <3> QED BY <3>1, <3>2
    <2> QED BY <2>1, <2>2
  <1>6. RateTypes'
    <2>1. entry' # 0 => entry' \in DOMAIN buckets' BY <1>5
    <2>2. threads' \in [Threads -> [pc : {"idle", "looked"}, bucket : Nat]]
      BY <1>1, <1>3, <1>5 DEF RateTypes
    <2>3. \A u \in Threads : threads'[u].pc = "looked" => threads'[u].bucket \in DOMAIN buckets'
      <3> SUFFICES ASSUME NEW u \in Threads, threads'[u].pc = "looked"
                   PROVE  threads'[u].bucket \in DOMAIN buckets'
        OBVIOUS
      <3>1. CASE u = t BY <3>1, <1>1, <1>3, <1>5 DEF RateTypes
      <3>2. CASE u # t BY <3>2, <1>1, <1>3, <1>4 DEF RateTypes
      <3> QED BY <3>1, <3>2
    <2>4. \A i \in DOMAIN passed' : passed'[i].bucket \in DOMAIN buckets'
      BY <1>1, <1>3, <1>4 DEF RateTypes
    <2> QED BY <1>1, <1>3, <1>4, <1>5, <2>1, <2>2, <2>3, <2>4 DEF RateTypes
  <1>7. \A k \in DOMAIN buckets' : buckets'[k].level <= Full /\ buckets'[k].updated <= ticks'
    <2> SUFFICES ASSUME NEW k \in DOMAIN buckets'
                 PROVE  buckets'[k].level <= Full /\ buckets'[k].updated <= ticks'
      OBVIOUS
    <2>1. CASE k \in DOMAIN buckets BY <2>1, <1>1, <1>3, <1>4 DEF Levelled
    <2>2. CASE buckets'[k] = fresh
      <3>1. ticks \in Nat /\ ticks' = ticks BY <1>1, <1>3 DEF RateTypes
      <3>2. Full \in Nat BY Prices
      <3> QED BY <2>2, <3>1, <3>2, <1>2
    <2> QED BY <2>1, <2>2, <1>4
  <1>8. \A k \in DOMAIN buckets : k \in DOMAIN buckets' /\ NoWorse(buckets[k], buckets'[k])
    BY <1>1, <1>4, Worse DEF RateTypes
  <1> QED BY <1>3, <1>6, <1>7, <1>8, Rebucketed DEF RateInv, Levelled

(* A refill of the bucket looked up, whatever became of the limit since.   *)
LEMMA AcquireFields ==
  ASSUME RateInv, NEW t \in Threads, threads[t].pc = "looked"
  PROVE  LET i == threads[t].bucket
             b == Refilled(buckets[i]) IN
         /\ i \in DOMAIN buckets /\ i \in Nat /\ buckets[i] \in Level
         /\ b \in Level /\ b.rate = buckets[i].rate /\ b.updated = ticks /\ b.level <= Full
         /\ NoWorse(buckets[i], b)
  <1> DEFINE i == threads[t].bucket
  <1>1. RateTypes /\ Levelled BY DEF RateInv
  <1>2. i \in DOMAIN buckets /\ i \in Nat /\ buckets[i] \in Level /\ ticks \in Nat
    BY <1>1 DEF RateTypes
  <1>3. buckets[i].level <= Full /\ buckets[i].updated <= ticks
    BY <1>1, <1>2 DEF Levelled
  <1> HIDE DEF i
  <1> QED BY <1>2, <1>3, Refills DEF i, NoWorse

(* What a thread does with the bucket it looked up keeps the types.        *)
LEMMA AcquireTypes ==
  ASSUME RateInv, NEW t \in Threads, threads[t].pc = "looked",
         threads' = [threads EXCEPT ![t] = [pc |-> "idle", bucket |-> 0]],
         NEW b \in Level, b.level <= Full, b.updated = ticks,
         buckets' = [buckets EXCEPT ![threads[t].bucket] = b],
         \/ passed' = passed
         \/ passed' = Append(passed, [bucket |-> threads[t].bucket, at |-> ticks]),
         UNCHANGED <<rate, entry, ticks>>
  PROVE  /\ RateTypes'
         /\ DOMAIN buckets' = DOMAIN buckets
         /\ buckets'[threads[t].bucket] = b
         /\ \A k \in DOMAIN buckets : k # threads[t].bucket => buckets'[k] = buckets[k]
         /\ \A k \in DOMAIN buckets' : buckets'[k].level <= Full /\ buckets'[k].updated <= ticks'
  <1> DEFINE i == threads[t].bucket
  <1>1. RateTypes /\ Levelled BY DEF RateInv
  <1>2. i \in DOMAIN buckets /\ i \in Nat /\ ticks \in Nat /\ buckets \in Seq(Level)
    BY <1>1 DEF RateTypes
  <1>3. buckets' = [buckets EXCEPT ![i] = b] OBVIOUS
  <1> HIDE DEF i
  <1>4. /\ DOMAIN buckets' = DOMAIN buckets /\ buckets'[i] = b
        /\ \A k \in DOMAIN buckets : k # i => buckets'[k] = buckets[k]
        /\ buckets' \in Seq(Level)
    <2>1. buckets' \in Seq(Level)
      <3>1. i \in 1 .. Len(buckets) BY <1>2
      <3>2. b \in Level OBVIOUS
      <3>3. [buckets EXCEPT ![i] = b] \in Seq(Level) BY <1>2, <3>1, <3>2, ExceptSeq, Zenon
      <3> QED BY <1>3, <3>3
    <2>2. DOMAIN buckets' = DOMAIN buckets BY <1>3
    <2>3. buckets'[i] = b BY <1>2, <1>3
    <2>4. \A k \in DOMAIN buckets : k # i => buckets'[k] = buckets[k] BY <1>3
    <2> QED BY <2>1, <2>2, <2>3, <2>4
  <1>5. \A k \in DOMAIN buckets' : buckets'[k].level <= Full /\ buckets'[k].updated <= ticks'
    BY <1>1, <1>2, <1>4 DEF Levelled
  <1>6. threads' \in [Threads -> [pc : {"idle", "looked"}, bucket : Nat]]
    BY <1>1 DEF RateTypes
  <1>7. \A u \in Threads : threads'[u].pc = "looked" => threads'[u].bucket \in DOMAIN buckets'
    BY <1>1, <1>4 DEF RateTypes
  <1>8. /\ passed' \in Seq([bucket : Nat, at : Nat])
        /\ \A k \in DOMAIN passed' : passed'[k].bucket \in DOMAIN buckets
    <2> DEFINE new == [bucket |-> i, at |-> ticks]
    <2>1. passed' = passed \/ passed' = Append(passed, new) BY DEF i
    <2>2. new \in [bucket : Nat, at : Nat] /\ new.bucket = i BY <1>2
    <2>3. /\ passed \in Seq([bucket : Nat, at : Nat])
          /\ \A k \in DOMAIN passed : passed[k].bucket \in DOMAIN buckets
      BY <1>1 DEF RateTypes
    <2> HIDE DEF new
    <2>4. CASE passed' = passed BY <2>3, <2>4
    <2>5. CASE passed' = Append(passed, new)
      BY <2>2, <2>3, <2>5, <1>2
    <2> QED BY <2>1, <2>4, <2>5
  <1>9. RateTypes'
    BY <1>1, <1>4, <1>6, <1>7, <1>8 DEF RateTypes
  <1> QED BY <1>4, <1>5, <1>9 DEF i

\* A refusal only notes the refill.
LEMMA RefusalStep ==
  ASSUME RateInv, NEW t \in Threads, threads[t].pc = "looked",
         threads' = [threads EXCEPT ![t] = [pc |-> "idle", bucket |-> 0]],
         buckets' = [buckets EXCEPT ![threads[t].bucket] = Refilled(buckets[threads[t].bucket])],
         UNCHANGED <<rate, entry, ticks, passed>>
  PROVE  RateInv'
  <1> DEFINE i == threads[t].bucket
             b == Refilled(buckets[i])
  <1>1. /\ b \in Level /\ b.rate = buckets[i].rate /\ b.updated = ticks /\ b.level <= Full
        /\ NoWorse(buckets[i], b)
    BY AcquireFields
  <1>2. buckets' = [buckets EXCEPT ![i] = b] OBVIOUS
  <1> HIDE DEF b
  <1>3. /\ RateTypes' /\ DOMAIN buckets' = DOMAIN buckets /\ buckets'[i] = b
        /\ \A k \in DOMAIN buckets : k # i => buckets'[k] = buckets[k]
        /\ \A k \in DOMAIN buckets' : buckets'[k].level <= Full /\ buckets'[k].updated <= ticks'
    BY <1>1, <1>2, AcquireTypes
  <1>4. \A k \in DOMAIN buckets : buckets[k] \in Level BY ElementOfSeq DEF RateInv, RateTypes
  <1>5. \A k \in DOMAIN buckets : k \in DOMAIN buckets' /\ NoWorse(buckets[k], buckets'[k])
    <2> HIDE DEF i
    <2> QED BY <1>1, <1>3, <1>4, Worse
  <1> QED BY <1>3, <1>5, Rebucketed DEF RateInv, Levelled

\* A request let through is one more of those that its bucket let through.
LEMMA PassStep ==
  ASSUME RateInv, NEW t \in Threads, threads[t].pc = "looked",
         threads' = [threads EXCEPT ![t] = [pc |-> "idle", bucket |-> 0]],
         NEW b, b = Refilled(buckets[threads[t].bucket]), b.level >= UNIT,
         buckets' = [buckets EXCEPT ![threads[t].bucket] = [b EXCEPT !.level = @ - UNIT]],
         passed' = Append(passed, [bucket |-> threads[t].bucket, at |-> ticks]),
         UNCHANGED <<rate, entry, ticks>>
  PROVE  RateInv'
  <1> DEFINE own == threads[t].bucket
             paid == [b EXCEPT !.level = @ - UNIT]
             new == [bucket |-> own, at |-> ticks]
             n == Len(passed)
  <1>1. /\ own \in DOMAIN buckets /\ own \in Nat /\ buckets[own] \in Level
        /\ b \in Level /\ b.rate = buckets[own].rate /\ b.updated = ticks /\ b.level <= Full
        /\ NoWorse(buckets[own], b)
    BY AcquireFields
  <1>2. /\ paid \in Level
        /\ paid.rate = b.rate /\ paid.updated = b.updated /\ paid.level <= Full
        /\ \A at, c \in Nat : Leaves(b, at, c) => Leaves(paid, at, c + 1)
        /\ Leaves(b, b.updated, 0)
    BY <1>1, Pays
  <1>3. \A at, c \in Nat : Leaves(b, at, c) => Leaves(paid, at, c)
    <2> SUFFICES ASSUME NEW at \in Nat, NEW c \in Nat, Leaves(b, at, c)
                 PROVE  Leaves(paid, at, c)
      OBVIOUS
    <2>1. Leaves(paid, at, c + 1) BY <1>2
    <2>2. Price(c) \in Nat /\ Price(c + 1) = Price(c) + UNIT /\ UNIT \in Nat BY Prices
    <2>3. paid.level \in Nat /\ paid.rate \in Nat /\ paid.updated \in Nat /\ Full \in Nat
      BY <1>2, LevelFields, Prices
    <2>4. Accrued(paid.rate, at, paid.updated) \in Int BY <2>3, Accrues
    <2> HIDE DEF paid
    <2>5. at <= paid.updated
          /\ Price(c + 1) + paid.level <= Full + Accrued(paid.rate, at, paid.updated)
      BY <2>1 DEF Leaves
    <2>6. Price(c) + paid.level <= Full + Accrued(paid.rate, at, paid.updated)
      BY <2>2, <2>3, <2>4, <2>5
    <2> QED BY <2>5, <2>6 DEF Leaves
  <1>4. buckets' = [buckets EXCEPT ![own] = paid] /\ passed' = Append(passed, new)
    OBVIOUS
  <1>5. new.bucket = own /\ new.at = ticks OBVIOUS
  <1> HIDE DEF paid, new
  <1>6. /\ RateTypes' /\ DOMAIN buckets' = DOMAIN buckets /\ buckets'[own] = paid
        /\ \A k \in DOMAIN buckets : k # own => buckets'[k] = buckets[k]
        /\ \A k \in DOMAIN buckets' : buckets'[k].level <= Full /\ buckets'[k].updated <= ticks'
    BY <1>1, <1>2, <1>4, AcquireTypes DEF new
  <1>7. RateTypes /\ Levelled BY DEF RateInv
  <1>8. passed \in Seq([bucket : Nat, at : Nat]) BY <1>7 DEF RateTypes
  <1>9. /\ n \in Nat /\ DOMAIN passed = 1 .. n /\ Len(passed') = n + 1
        /\ DOMAIN passed' = 1 .. (n + 1) /\ passed'[n + 1] = new
        /\ \A k \in 1 .. n : passed'[k] = passed[k]
    BY <1>4, <1>8
  <1> HIDE DEF n, own
  <1>10. ASSUME NEW k \in DOMAIN passed'
         PROVE  Leaves(buckets'[passed'[k].bucket], passed'[k].at,
                       Cardinality(Sharing(passed', k, n + 1)))
    <2>1. CASE k = n + 1
      <3>1. Cardinality(Sharing(passed', k, n + 1)) = 1 BY <2>1, <1>9, SharingOne
      <3>2. ticks \in Nat BY <1>7 DEF RateTypes
      <3>3. Leaves(paid, ticks, 0 + 1)
        <4>1. Leaves(b, ticks, 0) BY <1>1, <1>2
        <4>2. 0 \in Nat OBVIOUS
        <4> QED BY <4>1, <4>2, <3>2, <1>2, Zenon
      <3>4. 0 + 1 = 1 OBVIOUS
      <3>5. Leaves(paid, ticks, 1) BY <3>3, <3>4, Zenon
      <3> QED BY <2>1, <3>1, <3>5, <1>5, <1>6, <1>9
    <2>2. CASE k \in 1 .. n
      <3> DEFINE c == Cardinality(Sharing(passed, k, n))
                 at == passed[k].at
                 m == passed[k].bucket
      <3>1. k \in DOMAIN passed /\ passed'[k] = passed[k] BY <2>2, <1>9
      <3>2. m \in DOMAIN buckets /\ at \in Nat /\ buckets[m] \in Level /\ c \in Nat
        BY <1>7, <3>1, PassedFacts DEF n
      <3>3. Leaves(buckets[m], at, c) BY <1>7, <3>1 DEF Levelled, n
      <3>4. Cardinality(Sharing(passed', k, n + 1)) = c + (IF m = own THEN 1 ELSE 0)
        <4>1. Cardinality(Sharing(passed', k, Len(passed')))
                = Cardinality(Sharing(passed, k, Len(passed)))
                  + (IF new.bucket = passed[k].bucket THEN 1 ELSE 0)
          BY <1>4, <1>8, <3>1, SharingGrows
        <4> QED BY <1>5, <1>9, <4>1 DEF n
      <3> HIDE DEF c, at, m
      <3>5. CASE m = own
        <4>1. Leaves(b, at, c) BY <1>1, <3>2, <3>3, <3>5 DEF NoWorse
        <4>2. Leaves(paid, at, c + 1) BY <1>2, <3>2, <4>1
        <4> QED BY <1>6, <3>1, <3>4, <3>5, <4>2 DEF at, m
      <3>6. CASE m # own
        <4>1. Cardinality(Sharing(passed', k, n + 1)) = c BY <3>2, <3>4, <3>6
        <4> QED BY <1>6, <3>1, <3>2, <3>3, <3>6, <4>1 DEF at, m
      <3> QED BY <3>5, <3>6
    <2> QED BY <2>1, <2>2, <1>9
  <1>11. Levelled' BY <1>6, <1>9, <1>10 DEF Levelled
  <1>12. \A k \in DOMAIN buckets : buckets'[k].rate = buckets[k].rate
    BY <1>1, <1>2, <1>6
  <1>13. ASSUME NEW k \in DOMAIN passed', NEW j \in DOMAIN passed',
                k <= j, passed'[k].bucket = passed'[j].bucket
         PROVE  Price(Cardinality(Sharing(passed', k, j)))
                  <= Full + Accrued(buckets'[passed'[k].bucket].rate, passed'[k].at, passed'[j].at)
    <2>1. CASE j = n + 1
      <3>1. passed'[j].at = ticks /\ passed'[j].bucket = own BY <2>1, <1>5, <1>9
      <3>2. buckets'[passed'[k].bucket] = paid /\ paid.updated = ticks
        BY <1>1, <1>2, <1>6, <1>13, <3>1
      <3>3. Leaves(paid, passed'[k].at, Cardinality(Sharing(passed', k, j)))
        BY <1>10, <2>1, <3>2
      <3>4. passed'[k].at \in Nat /\ Cardinality(Sharing(passed', k, j)) \in Nat
        <4>1. passed' \in Seq([bucket : Nat, at : Nat]) BY <1>6 DEF RateTypes
        <4>2. k \in 1 .. Len(passed') BY <1>9
        <4>3. passed'[k] \in [bucket : Nat, at : Nat] BY <4>1, <4>2, ElementOfSeq
        <4>4. k \in Nat /\ j \in Nat BY <1>9
        <4> QED BY <4>3, <4>4, SharingFinite
      <3> QED BY <1>2, <3>1, <3>2, <3>3, <3>4, Spends
    <2>2. CASE j # n + 1
      <3>1. k \in DOMAIN passed /\ j \in DOMAIN passed BY <2>2, <1>9, <1>13
      <3>2. passed'[k] = passed[k] /\ passed'[j] = passed[j] BY <3>1, <1>9
      <3>3. Sharing(passed', k, j) = Sharing(passed, k, j)
        BY <1>4, <1>8, <3>1, SharingGrows
      <3>4. passed[k].bucket \in DOMAIN buckets BY <1>7, <3>1, PassedFacts
      <3>5. Price(Cardinality(Sharing(passed, k, j)))
              <= Full + Accrued(buckets[passed[k].bucket].rate, passed[k].at, passed[j].at)
        BY <1>13, <3>1, <3>2, Held DEF RateInv
      <3> QED BY <1>12, <3>2, <3>3, <3>4, <3>5
    <2> QED BY <2>1, <2>2
  <1>14. RateHeld'
    BY <1>13, Zenon DEF RateHeld, Price, Full, Accrued, Sharing
  <1> QED BY <1>6, <1>11, <1>14 DEF RateInv

(* Every step keeps the invariant.                                         *)
LEMMA RatesStep ==
  ASSUME RateInv, [RatesNext]_rateVars
  PROVE  RateInv'
  <1>1. RateTypes /\ Levelled BY DEF RateInv
  <1>2. \A k \in DOMAIN buckets : buckets[k] \in Level BY ElementOfSeq DEF RateInv, RateTypes
  <1>3. ASSUME buckets' = buckets, passed' = passed, threads' = threads, entry' = entry,
               rate' \in Rates, ticks' \in Nat, ticks <= ticks'
        PROVE  RateInv'
    <2>1. RateTypes' BY <1>1, <1>3 DEF RateTypes
    <2>2. \A k \in DOMAIN buckets' : buckets'[k].level <= Full /\ buckets'[k].updated <= ticks'
      <3> SUFFICES ASSUME NEW k \in DOMAIN buckets
                   PROVE  buckets[k].level <= Full /\ buckets[k].updated <= ticks'
        BY <1>3
      <3>1. buckets[k].updated \in Nat BY <1>2, LevelFields
      <3>2. buckets[k].level <= Full /\ buckets[k].updated <= ticks /\ ticks \in Nat
        BY <1>1 DEF Levelled, RateTypes
      <3> QED BY <1>3, <3>1, <3>2
    <2>3. \A k \in DOMAIN buckets : k \in DOMAIN buckets' /\ NoWorse(buckets[k], buckets'[k])
      BY <1>2, <1>3, Worse
    <2> QED BY <1>3, <2>1, <2>2, <2>3, Rebucketed DEF RateInv, Levelled
  <1>4. CASE Clock
    BY <1>1, <1>3, <1>4 DEF Clock, RateTypes
  <1>5. ASSUME NEW r \in Rates, SetLimit(r) PROVE RateInv'
    BY <1>1, <1>3, <1>5 DEF SetLimit, RateTypes
  <1>6. ASSUME NEW t \in Threads, LookUp(t) PROVE RateInv'
    BY <1>6, LookUpStep
  <1>7. ASSUME NEW t \in Threads, Acquire(t) PROVE RateInv'
    <2> DEFINE b == Refilled(buckets[threads[t].bucket])
    <2>1. CASE b.level >= UNIT
      <3> HIDE DEF b
      <3>1. b = Refilled(buckets[threads[t].bucket]) BY DEF b
      <3> QED BY <1>7, <2>1, <3>1, PassStep DEF Acquire
    <2>2. CASE ~(b.level >= UNIT)
      BY <1>7, <2>2, RefusalStep DEF Acquire
    <2> QED BY <2>1, <2>2
  <1>8. CASE UNCHANGED rateVars
    BY <1>1, <1>3, <1>8 DEF rateVars, RateTypes
  <1> QED BY <1>4, <1>5, <1>6, <1>7, <1>8 DEF RatesNext

(* For any threads, limits and burst, and however often the limit is       *)
(* changed between a look-up and its use: between any two requests that    *)
(* one bucket let through lie at most its burst and what accrued           *)
(* meanwhile.                                                              *)
THEOREM LimitHeld == RatesSpec => []RateHeld
  <1>1. RatesInit => RateInv
    BY DEF RatesInit, RateInv, RateTypes, Levelled, RateHeld
  <1>2. RateInv /\ [RatesNext]_rateVars => RateInv'
    BY RatesStep
  <1>3. RateInv => RateHeld
    BY DEF RateInv
  <1> QED BY <1>1, <1>2, <1>3, PTL DEF RatesSpec
===============================================================================
