------------------------------ MODULE PkceLogins ------------------------------
(***************************************************************************)
(* Signing in with a pasted redirect: the started sign-ins of the pool's   *)
(* accounts (pkce_login.py) and the pages that finish them, the admin's    *)
(* and each account's own (routes_pkce.py).  What is pasted is the whole   *)
(* redirect, with the state of its sign-in, or the bare code.  Every       *)
(* operation first drops the sign-ins that are too old, so an expired one  *)
(* is not in the map.                                                      *)
(***************************************************************************)
EXTENDS Common, Integers, Sequences, FiniteSets

CONSTANTS PoolAccounts,
          Signers,     \* Microsoft identities
          MaxPending,  \* sign-ins in progress (_MAX_PENDING)
          MaxLogins    \* bound: sign-ins started

VARIABLES
  person,    \* whose token each account has: an identity, None or "removed"
  opened,    \* the account of every sign-in, in the order they started
  pending,   \* the sign-ins that can still be finished
  codes,     \* the codes Microsoft gave out and that were not redeemed
  exchanges, \* the requests that wait for the token endpoint
  signedIn     \* history: the credentials sign-ins brought

pkceVars == <<person, opened, pending, codes, exchanges, signedIn>>
-----------------------------------------------------------------------------
PkceInit ==
  /\ person = [a \in PoolAccounts |-> None]
  /\ opened = <<>> /\ signedIn = <<>>
  /\ pending = {} /\ codes = {} /\ exchanges = {}

Alive(a) == person[a] # "removed"

StartLogin(a) ==
  /\ Alive(a) /\ Len(opened) < MaxLogins /\ Cardinality(pending) < MaxPending
  /\ opened' = Append(opened, a)
  /\ pending' = pending \cup {Len(opened) + 1}
  /\ UNCHANGED <<person, codes, exchanges, signedIn>>

\* Somebody opens the address of a sign-in, as often as they like, and picks
\* an identity: a code for that sign-in's verifier.
SignsInAt(login, p) ==
  /\ codes' = codes \cup {[login |-> login, person |-> p]}
  /\ codes' # codes
  /\ UNCHANGED <<person, opened, pending, exchanges, signedIn>>

Expires(login) ==
  /\ login \in pending
  /\ pending' = pending \ {login}
  /\ UNCHANGED <<person, opened, codes, exchanges, signedIn>>

\* take by state, only_pending for a bare code.
Found(code, bare) ==
  IF ~ bare THEN pending \cap {code.login}
  ELSE IF Cardinality(pending) = 1 THEN pending ELSE {}

\* Mutant: the sign-in stays until it expires.
Consumed_Kept(login) == pending

Consumed(login) == pending \ {login}

\* A sign-in of another account: a bare code is refused before its entry is
\* consumed, a state consumes it.
RefusesForeign(page, code) ==
  /\ \E login \in Found(code, FALSE) : page \notin {"admin", opened[login]}
  /\ pending' = Consumed(code.login)
  /\ UNCHANGED <<person, opened, codes, exchanges, signedIn>>

\* The sign-in is used up before the code is redeemed, also when its account
\* is gone.
Complete(page, code, bare) ==
  \E login \in Found(code, bare) :
    LET a == opened[login] IN
    /\ page \in {"admin", a}
    /\ pending' = Consumed(login)
    /\ exchanges' = IF Alive(a) THEN exchanges \cup {[login |-> login, code |-> code]}
                    ELSE exchanges
    /\ UNCHANGED <<person, opened, codes, signedIn>>

ExchangeFails(x) ==
  /\ exchanges' = exchanges \ {x}
  /\ UNCHANGED <<person, opened, pending, codes, signedIn>>

\* Microsoft redeems a code once, and only for the verifier it was made for.
Redeemed(x) == x.code \in codes /\ x.code.login = x.login

\* The account is looked at again: only now, and it may be another's, or gone.
ExchangeStores(x) ==
  LET a == opened[x.login]
      p == x.code.person
      stores == person[a] \in {None, p} IN
  /\ Redeemed(x)
  /\ exchanges' = exchanges \ {x}
  /\ codes' = codes \ {x.code}
  /\ person' = IF stores THEN [person EXCEPT ![a] = p] ELSE person
  /\ signedIn' = IF stores
               THEN Append(signedIn, [login |-> x.login, code |-> x.code,
                                    account |-> a, was |-> person[a]])
               ELSE signedIn
  /\ UNCHANGED <<opened, pending>>

\* A pushed token, a logout and a removal meanwhile.
TokenChanges(a, p) ==
  /\ Alive(a) /\ p # person[a]
  /\ person' = [person EXCEPT ![a] = p]
  /\ UNCHANGED <<opened, pending, codes, exchanges, signedIn>>

PkceNext ==
  \/ \E a \in PoolAccounts :
       StartLogin(a) \/ \E p \in Signers \cup {None, "removed"} : TokenChanges(a, p)
  \/ \E login \in DOMAIN opened, p \in Signers : SignsInAt(login, p)
  \/ \E login \in pending : Expires(login)
  \/ \E code \in codes, page \in PoolAccounts \cup {"admin"} :
       \/ RefusesForeign(page, code)
       \/ \E bare \in BOOLEAN : Complete(page, code, bare)
  \/ \E x \in exchanges : ExchangeFails(x) \/ ExchangeStores(x)

PkceSpec == PkceInit /\ [][PkceNext]_pkceVars
-----------------------------------------------------------------------------
(* Whichever code is pasted where, and whatever happens to the accounts    *)
(* meanwhile: a credential that a sign-in stores was obtained on that      *)
(* sign-in's page, went to the account it was started for, replaced nobody *)
(* else's, and is the only one of that sign-in.                            *)
SignInsAreOwn ==
  \A i \in DOMAIN signedIn :
    LET s == signedIn[i] IN
    /\ s.code.login = s.login /\ opened[s.login] = s.account
    /\ s.was \in {None, s.code.person}
    /\ \A j \in DOMAIN signedIn : signedIn[j].login = s.login => j = i
=============================================================================
