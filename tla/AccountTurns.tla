----------------------------- MODULE AccountTurns -----------------------------
(***************************************************************************)
(* The ceiling on the upstream turns of an account: AccountConcurrency and *)
(* ThrottledClient of account_concurrency.py.                              *)
(*                                                                         *)
(* Each turn reads the limit when it starts, and finds the account's gate  *)
(* for that limit: a semaphore, replaced by a new one when the limit has   *)
(* changed since the gate was made.  A turn keeps the gate it found, as    *)
(* the ones already queued or running on a replaced gate do.  Limit 0      *)
(* means no gate: the turn is counted and never waits.                     *)
(*                                                                         *)
(* The semaphore is asyncio's (external): a released slot is given to the  *)
(* first turn in line, which runs later; until then nobody overtakes it.   *)
(***************************************************************************)
EXTENDS Integers, Sequences, FiniteSets

CONSTANTS Turns, Accounts, Limits,
          MaxChanges  \* bound: how often an admin saves the limit

ASSUME TurnsAssumption == IsFiniteSet(Turns)
ASSUME LimitsAssumption == Limits \subseteq Nat
ASSUME ChangesAssumption == MaxChanges \in Nat

VARIABLES
  limit,    \* app.state.account_concurrency
  changes,  \* how often it was saved
  gates,    \* every semaphore made so far
  current,  \* _gates: the account's semaphore, 0 for none yet
  inflight, \* _inflight
  waiting,  \* _waiting
  turn      \* each turn's progress, account and gate (0 for none); since is
            \* the account's gate at the time the turn got its slot

vars == <<limit, changes, gates, current, inflight, waiting, turn>>
-----------------------------------------------------------------------------
(* asyncio.Semaphore (external) *)

Semaphore(a, n) == [account |-> a, limit |-> n, free |-> n, line |-> <<>>]

OnGate(g, state) == {t \in Turns : turn[t].gate = g /\ turn[t].at = state}

\* A turn that was given a slot and has not run yet still counts as waiting.
Locked(g) ==
  \/ gates[g].free = 0
  \/ gates[g].line # <<>>
  \/ OnGate(g, "woken") # {}

\* One slot of s goes to the head of its line, if it has both.
Passed(s) ==
  IF s.free > 0 /\ s.line # <<>>
  THEN [s EXCEPT !.free = @ - 1, !.line = Tail(@)]
  ELSE s

\* The turns after that: with the head woken, if it got the slot.
Awake(s, turns) ==
  IF s.free > 0 /\ s.line # <<>>
  THEN [turns EXCEPT ![Head(s.line)].at = "woken",
                     ![Head(s.line)].since = current[s.account]]
  ELSE turns

Returned(s) == [s EXCEPT !.free = @ + 1]

Without(q, t) ==
  LET i == CHOOSE n \in DOMAIN q : q[n] = t
  IN [j \in 1..(Len(q) - 1) |-> IF j < i THEN q[j] ELSE q[j + 1]]
-----------------------------------------------------------------------------
(* AccountConcurrency *)

Init ==
  /\ limit \in Limits /\ changes = 0
  /\ gates = <<>> /\ current = [a \in Accounts |-> 0]
  /\ inflight = [a \in Accounts |-> 0]
  /\ waiting = [a \in Accounts |-> 0]
  /\ turn \in [Turns -> {[at |-> "idle", account |-> a, gate |-> 0, since |-> 0]
                           : a \in Accounts}]

\* POST /admin/runtime-settings
SaveLimit ==
  /\ changes < MaxChanges
  /\ changes' = changes + 1
  /\ limit' \in Limits \ {limit}
  /\ UNCHANGED <<gates, current, inflight, waiting, turn>>

\* The account's gate was made for the limit of this moment.
Fits(a) == current[a] # 0 /\ gates[current[a]].limit = limit

\* hold with limit <= 0
StartUnlimited(t) ==
  LET a == turn[t].account IN
  /\ turn[t].at = "idle" /\ limit = 0
  /\ inflight' = [inflight EXCEPT ![a] = @ + 1]
  /\ turn' = [turn EXCEPT ![t].at = "running", ![t].since = current[a]]
  /\ UNCHANGED <<limit, changes, gates, current, waiting>>

\* _gate makes a semaphore, and the turn takes its first slot.
StartOnNewGate(t) ==
  LET a == turn[t].account
      g == Len(gates) + 1
  IN
  /\ turn[t].at = "idle" /\ limit > 0 /\ ~Fits(a)
  /\ gates' = Append(gates, [Semaphore(a, limit) EXCEPT !.free = @ - 1])
  /\ current' = [current EXCEPT ![a] = g]
  /\ inflight' = [inflight EXCEPT ![a] = @ + 1]
  /\ turn' = [turn EXCEPT ![t].at = "running", ![t].gate = g, ![t].since = g]
  /\ UNCHANGED <<limit, changes, waiting>>

StartOnGate(t) ==
  LET a == turn[t].account
      g == current[a]
  IN
  /\ turn[t].at = "idle" /\ limit > 0 /\ Fits(a) /\ ~Locked(g)
  /\ gates' = [gates EXCEPT ![g].free = @ - 1]
  /\ inflight' = [inflight EXCEPT ![a] = @ + 1]
  /\ turn' = [turn EXCEPT ![t].at = "running", ![t].gate = g, ![t].since = g]
  /\ UNCHANGED <<limit, changes, current, waiting>>

Queue(t) ==
  LET a == turn[t].account
      g == current[a]
  IN
  /\ turn[t].at = "idle" /\ limit > 0 /\ Fits(a) /\ Locked(g)
  /\ gates' = [gates EXCEPT ![g].line = Append(@, t)]
  /\ waiting' = [waiting EXCEPT ![a] = @ + 1]
  /\ turn' = [turn EXCEPT ![t].at = "queued", ![t].gate = g]
  /\ UNCHANGED <<limit, changes, current, inflight>>

\* acquire returns: the turn passes a further free slot on, and runs.
Admit(t) ==
  LET a == turn[t].account
      g == turn[t].gate
  IN
  /\ turn[t].at = "woken"
  /\ gates' = [gates EXCEPT ![g] = Passed(@)]
  /\ inflight' = [inflight EXCEPT ![a] = @ + 1]
  /\ waiting' = [waiting EXCEPT ![a] = @ - 1]
  /\ turn' = Awake(gates[g], [turn EXCEPT ![t].at = "running"])
  /\ UNCHANGED <<limit, changes, current>>

\* The request is cancelled while its turn is in line.
CancelQueued(t) ==
  LET a == turn[t].account
      g == turn[t].gate
  IN
  /\ turn[t].at = "queued"
  /\ gates' = [gates EXCEPT ![g].line = Without(@, t)]
  /\ waiting' = [waiting EXCEPT ![a] = @ - 1]
  /\ turn' = [turn EXCEPT ![t].at = "done"]
  /\ UNCHANGED <<limit, changes, current, inflight>>

\* It is cancelled after it got its slot and before it ran.
CancelWoken(t) ==
  LET a == turn[t].account
      g == turn[t].gate
  IN
  /\ turn[t].at = "woken"
  /\ gates' = [gates EXCEPT ![g] = Passed(Returned(@))]
  /\ waiting' = [waiting EXCEPT ![a] = @ - 1]
  /\ turn' = Awake(Returned(gates[g]), [turn EXCEPT ![t].at = "done"])
  /\ UNCHANGED <<limit, changes, current, inflight>>

\* Mutant: a turn that fails leaves without its release.
Finish_Kept(t) ==
  LET a == turn[t].account IN
  /\ turn[t].at = "running"
  /\ inflight' = [inflight EXCEPT ![a] = @ - 1]
  /\ turn' = [turn EXCEPT ![t].at = "done"]
  /\ UNCHANGED <<limit, changes, gates, current, waiting>>

\* The answer ends, the upstream fails, the request is cancelled, or the
\* generator is closed: all leave through the same finally.
Finish(t) ==
  LET a == turn[t].account
      g == turn[t].gate
  IN
  /\ turn[t].at = "running"
  /\ inflight' = [inflight EXCEPT ![a] = @ - 1]
  /\ IF g = 0
     THEN /\ turn' = [turn EXCEPT ![t].at = "done"]
          /\ gates' = gates
     ELSE /\ turn' = Awake(Returned(gates[g]), [turn EXCEPT ![t].at = "done"])
          /\ gates' = [gates EXCEPT ![g] = Passed(Returned(@))]
  /\ UNCHANGED <<limit, changes, current, waiting>>

Next ==
  \/ SaveLimit
  \/ \E t \in Turns :
       \/ StartUnlimited(t) \/ StartOnNewGate(t) \/ StartOnGate(t)
       \/ Queue(t) \/ Admit(t)
       \/ CancelQueued(t) \/ CancelWoken(t) \/ Finish(t)

\* The loop runs what is ready, and an upstream turn ends: by its answer, or
\* by the idle timeout of its client.
Fairness == \A t \in Turns : WF_vars(Admit(t)) /\ WF_vars(Finish(t))

Spec == Init /\ [][Next]_vars /\ Fairness
-----------------------------------------------------------------------------
(* Properties *)

States == {"idle", "queued", "woken", "running", "done"}

\* No gate has more free slots than it was made with, also when turns of an
\* older limit give theirs back.
TypeOK ==
  /\ limit \in Limits /\ changes \in 0..MaxChanges
  /\ gates \in Seq([account : Accounts, limit : Nat \ {0}, free : Nat,
                    line : Seq(Turns)])
  /\ \A g \in DOMAIN gates : gates[g].free \in 0..gates[g].limit
  /\ current \in [Accounts -> 0..Len(gates)]
  /\ inflight \in [Accounts -> Nat] /\ waiting \in [Accounts -> Nat]
  /\ turn \in [Turns -> [at : States, account : Accounts,
                         gate : 0..Len(gates), since : 0..Len(gates)]]

TurnsOf(a, states) == {t \in Turns : turn[t].account = a /\ turn[t].at \in states}

\* The numbers on the dashboard are the turns that run and wait, whatever was
\* cancelled, failed or ran on a replaced gate.
BooksBalance ==
  \A a \in Accounts :
    /\ inflight[a] = Cardinality(TurnsOf(a, {"running"}))
    /\ waiting[a] = Cardinality(TurnsOf(a, {"queued", "woken"}))

\* No slot leaks and none is invented: each slot of a gate is free, or some
\* turn of that gate's account runs on it or is about to.
SlotsAccounted ==
  \A g \in DOMAIN gates :
    LET users == OnGate(g, "running") \cup OnGate(g, "woken") IN
    /\ gates[g].free + Cardinality(users) = gates[g].limit
    /\ \A t \in users : turn[t].account = gates[g].account

\* A turn in line runs, or its request is cancelled: no limit change, failure
\* or cancelled neighbour leaves it behind.
EveryTurnRuns ==
  \A t \in Turns : turn[t].at = "queued" ~> turn[t].at \in {"running", "done"}

\* account_concurrency.py:38: turns holding the old gate keep running, so "for
\* the length of one turn an account can briefly exceed the new limit".  Once
\* every turn that ran when the gate was replaced has ended, the limit holds.
ShrinkSettles ==
  \A a \in Accounts :
    LET running == TurnsOf(a, {"running"}) IN
    current[a] # 0 /\ (\A t \in running : turn[t].since = current[a])
      => Cardinality(running) <= gates[current[a]].limit
=============================================================================
