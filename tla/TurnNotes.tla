------------------------------- MODULE TurnNotes -------------------------------
(***************************************************************************)
(* What turns report about their account while and after they run: the     *)
(* reset time of a throttled request (_record_turn_outcome in              *)
(* dependencies.py, account_store.py) and the message quota of a           *)
(* conversation (conversation_quota.py).  Both may arrive late: the        *)
(* account can have another identity, another protocol, or be gone.        *)
(***************************************************************************)
EXTENDS Common, Integers, Sequences

CONSTANTS Turns, Identities,
          Modes,       \* a client may also have none
          MaxClock,    \* bound: ticks of the clock
          MaxSwitches  \* bound: changes of the account

VARIABLES
  noted,     \* the account: identity, epoch, and the observation
  quota,     \* readings: "none" or "shown"; and the tombstone
  turns,     \* each turn's progress
  outcomes,  \* how the turns that concern this identity ended, in that order
  now, switches

noteVars == <<noted, quota, turns, outcomes, now, switches>>

-----------------------------------------------------------------------------
\* _clear_throttle_observation
Cleared(a) == [a EXCEPT !.until = FALSE, !.mode = None, !.at = 0]

Turn == [pc |-> "idle", mode |-> None, identity |-> None, epoch |-> 0, started |-> 0]

NotesInit ==
  /\ noted \in {[present |-> TRUE, identity |-> i, epoch |-> 0, until |-> FALSE,
                 mode |-> None, at |-> 0] : i \in Identities}
  /\ quota = [shown |-> FALSE, forgotten |-> FALSE, removed |-> "no"]
  /\ turns = [r \in Turns |-> Turn]
  /\ outcomes = <<>> /\ now = 1 /\ switches = 0

Tick ==
  /\ now < MaxClock /\ now' = now + 1
  /\ UNCHANGED <<noted, quota, turns, outcomes, switches>>

\* The client is built for the account as it is: identity and epoch are
\* read here, before the wait for a slot.
Dispatch(r, mode) ==
  /\ turns[r].pc = "idle" /\ noted.present
  /\ turns' = [turns EXCEPT ![r] = [Turn EXCEPT !.pc = "waiting", !.mode = mode,
       !.identity = noted.identity, !.epoch = noted.epoch]]
  /\ UNCHANGED <<noted, quota, outcomes, now, switches>>

\* ThrottledClient: started_at is read inside the slot.
Run(r) ==
  /\ turns[r].pc = "waiting"
  /\ turns' = [turns EXCEPT ![r].pc = "running", ![r].started = now]
  /\ UNCHANGED <<noted, quota, outcomes, now, switches>>

\* Mutant: the reading is stored although the account was forgotten.
Recorded_Always(q) == [q EXCEPT !.shown = TRUE]

\* ConversationQuotaStore.record
Recorded(q) == IF q.forgotten THEN q ELSE [q EXCEPT !.shown = TRUE]

ReportQuota(r) ==
  /\ turns[r].pc = "running"
  /\ quota' = Recorded(quota)
  /\ UNCHANGED <<noted, turns, outcomes, now, switches>>

Concerns(a, t) == a.present /\ a.identity = t.identity /\ a.epoch = t.epoch

\* set_throttled_until: the latest request's observation.
Throttles(a, t) ==
  IF ~ Concerns(a, t) THEN a ELSE [a EXCEPT !.until = TRUE, !.mode = t.mode, !.at = now]

\* Mutant: whatever was observed is contradicted by a turn that worked.
Works_Any(a, t) == IF ~ Concerns(a, t) THEN a ELSE Cleared(a)

\* clear_throttled_until: never an observation newer than the turn; one of
\* an unnamed mode by any turn.
Works(a, t) ==
  IF \/ ~ Concerns(a, t) \/ ~ a.until \/ a.mode \notin {None, t.mode} \/ t.started <= a.at
  THEN a ELSE Cleared(a)

\* The turn ends: throttled, with an answer, or with neither (another error,
\* a cancellation, an empty answer).
EndTurn(r) ==
  LET t == turns[r]
      Heard(kind) ==
        IF ~ Concerns(noted, t) THEN outcomes
        ELSE Append(outcomes, [kind |-> kind, mode |-> t.mode, started |-> t.started, at |-> now]) IN
  /\ t.pc = "running"
  /\ turns' = [turns EXCEPT ![r] = [Turn EXCEPT !.pc = "over"]]
  /\ \/ noted' = Throttles(noted, t) /\ outcomes' = Heard("throttled")
     \/ noted' = Works(noted, t) /\ outcomes' = Heard("worked")
     \/ UNCHANGED <<noted, outcomes>>
  /\ UNCHANGED <<quota, now, switches>>

Switch == switches < MaxSwitches /\ switches' = switches + 1

\* A consumer push of somebody else, and a logout.
Rebind(identity) ==
  /\ noted.present /\ identity # noted.identity /\ Switch
  /\ noted' = [Cleared(noted) EXCEPT !.identity = identity, !.epoch = @ + 1]
  /\ outcomes' = <<>>
  /\ UNCHANGED <<quota, turns, now>>

\* activate_protocol
SwitchProtocol ==
  /\ noted.present /\ Switch
  /\ noted' = [noted EXCEPT !.epoch = @ + 1]
  /\ UNCHANGED <<quota, turns, outcomes, now>>

\* DELETE /admin/accounts/{acc_id} forgets the quota; the last user to unbind
\* (POST /user/account/unbind) and a push that displaces the account remove
\* it, too, and do not.
RemoveNoted(by) ==
  /\ noted.present
  /\ noted' = [noted EXCEPT !.present = FALSE]
  /\ quota' = [quota EXCEPT !.removed = by, !.forgotten = by = "admin", !.shown = @ /\ by # "admin"]
  /\ UNCHANGED <<turns, outcomes, now, switches>>

NotesNext ==
  \/ Tick \/ SwitchProtocol
  \/ \E identity \in Identities : Rebind(identity)
  \/ \E by \in {"admin", "user"} : RemoveNoted(by)
  \/ \E r \in Turns :
       \/ \E mode \in Modes \cup {None} : Dispatch(r, mode)
       \/ Run(r) \/ ReportQuota(r) \/ EndTurn(r)

NotesSpec == NotesInit /\ [][NotesNext]_noteVars
-----------------------------------------------------------------------------
(* What the account page shows is the last throttled request of this       *)
(* identity, unless a turn of the same mode that started later worked (any *)
(* mode, if it had none), in whatever order turns start and end.           *)
NoteIsLatest ==
  LET throttles == {i \in DOMAIN outcomes : outcomes[i].kind = "throttled"}
      standing == {i \in throttles :
        /\ \A j \in throttles : j <= i
        /\ ~ \E j \in DOMAIN outcomes :
               /\ j > i /\ outcomes[j].kind = "worked"
               /\ outcomes[i].mode \in {None, outcomes[j].mode}
               /\ outcomes[j].started > outcomes[i].at} IN
  /\ noted.until <=> standing # {}
  /\ \A i \in standing : noted.at = outcomes[i].at /\ noted.mode = outcomes[i].mode

(* A reading that a turn in flight reports after the admin deleted its     *)
(* account does not bring the account's quota back.                        *)
ForgottenStays == quota.removed = "admin" => ~ quota.shown

(* "a quota row that outlives its account is exactly the stale-authority   *)
(* problem this module's header rejects."                                  *)
QuotaHasAccount == quota.shown => noted.present
=============================================================================
