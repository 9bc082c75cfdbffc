----------------------------- MODULE SessionTurns -----------------------------
(***************************************************************************)
(* The turns of persistent conversations, from routes_api_chat.py down to  *)
(* SubstrateCopilotClient.chat_stream, composed with the slots of their    *)
(* account (AccountTurns, whose limit stays what it is here).              *)
(*                                                                         *)
(* Each turn of AccountTurns belongs to a request, which is named for it.  *)
(* A request decides what to send when it arrives: the whole history of    *)
(* its client, or only what follows the last answer.  Then it waits for a  *)
(* slot, and with the slot for the lock of its session.  Upstream keeps    *)
(* each conversation; what it knows of a client's history is what it was   *)
(* sent and what it answered there.                                        *)
(*                                                                         *)
(* A history is a set of exchanges: Old stands for those of before this    *)
(* session (a client that goes on after its session was evicted, or that   *)
(* switched to a named one), a request for itself with its answer.  A turn *)
(* that is repeated runs on a conversation nobody goes back to, 0.         *)
(***************************************************************************)
EXTENDS AccountTurns

CONSTANTS Sessions, Old

ASSUME OldAssumption == Old \notin Turns

VARIABLES
  count,    \* turn_count of each session
  line,     \* session.lock: the turn that holds it, and those that wait
  upstream, \* the conversations of each session, the last one its own:
            \* the prompts each was sent, and what it knows
  req       \* each request: its progress, session, whether it sends only
            \* what is new, the history before it, whether its turn starts
            \* a conversation, whether this is the repetition of an empty
            \* one, its conversation, and whether that got the prompt

chatVars == <<vars, count, line, upstream, req>>
-----------------------------------------------------------------------------
NewConversation == [posted |-> <<>>, knows |-> {}]

ChatInit ==
  /\ Init
  /\ count = [s \in Sessions |-> 0]
  /\ line = [s \in Sessions |-> <<>>]
  /\ upstream = [s \in Sessions |-> <<NewConversation>>]
  /\ req \in [Turns ->
       {[pc |-> "new", session |-> s, inc |-> FALSE, prior |-> {},
         start |-> FALSE, again |-> FALSE, conv |-> 0, sent |-> FALSE]
          : s \in Sessions}]

Ended == {"answered", "failed"}

\* What the client has on record of this session.
History(s) ==
  {Old} \cup {q \in Turns : req[q].session = s /\ req[q].pc = "answered"}

\* The handler looks its session up and translates the request: incremental
\* from the second turn on.
Ask(t) ==
  LET s == req[t].session IN
  /\ req[t].pc = "new"
  /\ req' = [req EXCEPT ![t] = [req[t] EXCEPT !.pc = "asked",
                                  !.inc = (count[s] > 0), !.prior = History(s)]]
  /\ UNCHANGED <<vars, count, line, upstream>>

\* Waiting for a slot of the account
WaitForSlot(t) ==
  /\ req[t].pc = "asked" /\ Queue(t)
  /\ UNCHANGED <<count, line, upstream, req>>

\* chat_stream is entered with the slot, and asks for the lock.
Enter(t) ==
  /\ req[t].pc = "asked"
  /\ \/ StartUnlimited(t) \/ StartOnNewGate(t)
     \/ StartOnGate(t) \/ Admit(t)
  /\ line' = [line EXCEPT ![req[t].session] = Append(@, t)]
  /\ req' = [req EXCEPT ![t].pc = "locking"]
  /\ UNCHANGED <<count, upstream>>

CancelWait(t) ==
  /\ req[t].pc = "asked"
  /\ CancelQueued(t) \/ CancelWoken(t)
  /\ req' = [req EXCEPT ![t].pc = "failed"]
  /\ UNCHANGED <<count, line, upstream>>

\* Mutant: the generator keeps its slot when it ends.
End_KeepsSlot(t, result) ==
  /\ line' = [line EXCEPT ![req[t].session] = Without(@, t)]
  /\ req' = [req EXCEPT ![t].pc = result]
  /\ UNCHANGED vars

\* Mutant: the lock is not released.
End_KeepsLock(t, result) ==
  /\ Finish(t)
  /\ req' = [req EXCEPT ![t].pc = result]
  /\ UNCHANGED line

\* The finally of chat_stream and that of the slot: one unwinding.
End(t, result) ==
  /\ Finish(t)
  /\ line' = [line EXCEPT ![req[t].session] = Without(@, t)]
  /\ req' = [req EXCEPT ![t].pc = result]

Reserved(t) ==
  [req[t] EXCEPT !.pc = "connecting", !.start = (count[req[t].session] = 0),
                 !.conv = Len(upstream[req[t].session])]

\* Mutant: a turn that waited too long goes on without the lock.
GiveUp_GoesOn(t) ==
  LET s == req[t].session IN
  /\ req[t].pc = "locking" /\ Head(line[s]) # t
  /\ count' = [count EXCEPT ![s] = @ + 1]
  /\ req' = [req EXCEPT ![t] = Reserved(t)]
  /\ UNCHANGED <<vars, line, upstream>>

\* Cancelled, or after _SESSION_LOCK_TIMEOUT.
GiveUp(t) ==
  /\ req[t].pc = "locking" /\ End(t, "failed")
  /\ UNCHANGED <<count, upstream>>

\* reserve_turn: the turn counts before anything is sent.
Reserve(t) ==
  LET s == req[t].session IN
  /\ req[t].pc = "locking" /\ Head(line[s]) = t
  /\ count' = [count EXCEPT ![s] = @ + 1]
  /\ req' = [req EXCEPT ![t] = Reserved(t)]
  /\ UNCHANGED <<vars, line, upstream>>

\* Whatever of the history the prompt repeats.
Transcript(t) == IF req[t].inc THEN {} ELSE req[t].prior

Told(c, t) ==
  [posted |-> Append(c.posted, t), knows |-> c.knows \cup Transcript(t)]

Learned(c, t) == [posted |-> c.posted, knows |-> c.knows \cup {t}]

\* The connection stands, and the turn is sent.
Invoke(t) ==
  LET s == req[t].session
      n == req[t].conv
  IN
  /\ req[t].pc = "connecting"
  /\ IF n = 0
     THEN /\ req' = [req EXCEPT ![t].pc = "streaming"]
          /\ upstream' = upstream
     ELSE /\ req' = [req EXCEPT ![t] = [req[t] EXCEPT !.pc = "streaming",
                                                      !.sent = TRUE]]
          /\ upstream' = [upstream EXCEPT
               ![s] = [upstream[s] EXCEPT ![n] = Told(upstream[s][n], t)]]
  /\ UNCHANGED <<vars, count, line>>

\* Text was streamed to its end.
Answer(t) ==
  LET s == req[t].session
      n == req[t].conv
  IN
  /\ req[t].pc = "streaming" /\ End(t, "answered")
  /\ upstream' = IF n = 0 THEN upstream
                 ELSE [upstream EXCEPT
                   ![s] = [upstream[s] EXCEPT ![n] = Learned(upstream[s][n], t)]]
  /\ UNCHANGED count

\* Mutant: an empty turn is repeated where it was.
Empty_SameConversation(t) ==
  /\ req[t].pc = "streaming" /\ ~req[t].again
  /\ req' = [req EXCEPT ![t].pc = "connecting", ![t].again = TRUE]
  /\ UNCHANGED <<vars, count, line, upstream>>

\* A turn without text is repeated once, on a conversation of its own.
Empty(t) ==
  /\ req[t].pc = "streaming" /\ ~req[t].again
  /\ req' = [req EXCEPT ![t] = [req[t] EXCEPT !.pc = "connecting",
                                              !.again = TRUE, !.conv = 0]]
  /\ UNCHANGED <<vars, count, line, upstream>>

Healed(t) ==
  [req[t] EXCEPT !.pc = "connecting", !.start = TRUE, !.again = FALSE,
                 !.sent = FALSE, !.conv = Len(upstream[req[t].session]) + 1]

\* A continuation is refused before any text, by its conversation or by the
\* one an empty turn was repeated on: reset_conversation and reserve_turn,
\* and the same prompt once more.
Heal(t) ==
  LET s == req[t].session IN
  /\ req[t].pc = "streaming" /\ ~req[t].start
  /\ upstream' = [upstream EXCEPT ![s] = Append(@, NewConversation)]
  /\ count' = [count EXCEPT ![s] = 1]
  /\ req' = [req EXCEPT ![t] = Healed(t)]
  /\ UNCHANGED <<vars, line>>

\* No connection, the idle timeout, an error, a second empty answer, a refusal
\* that is not healed, or the client has left.
Break(t) ==
  /\ req[t].pc \in {"connecting", "streaming"} /\ End(t, "failed")
  /\ UNCHANGED <<count, upstream>>

Attempt(t) == Invoke(t) \/ Answer(t) \/ Empty(t) \/ Heal(t) \/ Break(t)

ChatNext ==
  \E t \in Turns :
    \/ Ask(t) \/ WaitForSlot(t) \/ Enter(t) \/ CancelWait(t)
    \/ Reserve(t) \/ GiveUp(t) \/ Attempt(t)

\* The loop runs every request that can run; an attempt ends by its answer, the
\* handshake timeout or the idle timeout.  Giving up is never required.
ChatFairness ==
  \A t \in Turns :
    /\ WF_chatVars(WaitForSlot(t)) /\ WF_chatVars(Enter(t))
    /\ WF_chatVars(Reserve(t)) /\ WF_chatVars(Attempt(t))

ChatSpec == ChatInit /\ [][ChatNext]_chatVars /\ ChatFairness
-----------------------------------------------------------------------------
(* Properties *)

Steps == {"new", "asked", "locking", "connecting", "streaming"} \cup Ended

Conversation == [posted : Seq(Turns), knows : SUBSET (Turns \cup {Old})]

Request == [pc : Steps, session : Sessions, inc : BOOLEAN,
            prior : SUBSET (Turns \cup {Old}), start : BOOLEAN,
            again : BOOLEAN, conv : Nat, sent : BOOLEAN]

\* The session's own conversation is the last one, and no turn names another
\* than one of its session.
ChatTypeOK ==
  /\ TypeOK
  /\ count \in [Sessions -> Nat]
  /\ line \in [Sessions -> Seq(Turns)]
  /\ upstream \in [Sessions -> Seq(Conversation)]
  /\ req \in [Turns -> Request]
  /\ \A t \in Turns : req[t].conv \in 0..Len(upstream[req[t].session])

\* A user's message is never posted twice to one conversation, however often
\* its turn is repeated: substrate_client.py:650.
MessageOnce ==
  \A s \in Sessions : \A n \in DOMAIN upstream[s] :
    LET p == upstream[s][n].posted IN
    \A i, j \in DOMAIN p : p[i] = p[j] => i = j

\* What the conversation that answered t does not know of t's history.
Forgotten(t) == req[t].prior \ upstream[req[t].session][req[t].conv].knows

\* Those that were answered by another conversation.
Elsewhere(t) == {q \in Turns : req[q].conv # req[t].conv}

Answered == {t \in Turns : req[t].pc = "answered" /\ req[t].conv # 0}

\* The turn that was to bring the history to a conversation never got there.
NeverStarted(s, n) ==
  \E q \in Turns :
    /\ req[q].session = s /\ req[q].conv = n /\ req[q].pc \in Ended
    /\ req[q].start /\ ~req[q].sent

\* The history of before this session, where nothing brought it: a healed
\* conversation is sent the one prompt that was refused.
NotBrought(t) ==
  IF req[t].conv > 1 \/ NeverStarted(req[t].session, req[t].conv)
  THEN {Old} ELSE {}

\* An answer is given in the knowledge of the whole history before it, but for
\* what a repeated turn or a healed conversation leaves behind, and what a turn
\* that counted and was never sent did not bring: not for turns that overlap,
\* give up or fail, whatever the order of their requests.
ContextKept ==
  \A t \in Answered : Forgotten(t) \subseteq Elsewhere(t) \cup NotBrought(t)

\* translator.py:785: in incremental mode "the M365 server already remembers
\* everything up to and including its last assistant response".  Unless an
\* answer came from another conversation, as the retries accept.
ServerRemembers ==
  \A t \in Answered :
    req[t].inc /\ req[t].conv = 1 => Forgotten(t) \subseteq Elsewhere(t)

\* The slots of the account work as AccountTurns says, and every turn that
\* holds one ends: waiting for the lock of a session while holding a slot
\* leads to no deadlock.
ImplementsSlots == Spec

\* Every request is answered or fails: the ones that wait for a slot, those
\* that wait for their session with a slot, and those of a refused session.
EveryRequestEnds == \A t \in Turns : req[t].pc = "asked" ~> req[t].pc \in Ended
=============================================================================
