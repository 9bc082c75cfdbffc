---------------------------- MODULE ResponseChain ----------------------------
(***************************************************************************)
(* Continuations of POST /v1/responses: PersistentSession in               *)
(* session_store.py and the request flow of routes_api_responses.py.       *)
(*                                                                         *)
(* One store key is modelled.  Every request draws exactly one response id *)
(* (resp_id), so a request names its own response: ids are requests.  A    *)
(* client may send as previous_response_id any id it was ever shown, also  *)
(* the id of a stream that is still running, of a failed turn, or of a     *)
(* turn from before a restart.                                             *)
(*                                                                         *)
(* response_lock is an asyncio.Lock: FIFO, one holder per session object.  *)
(* A session object that left the store (LRU, prune, delete, restart) may  *)
(* still be held by a request that captured it earlier.                    *)
(***************************************************************************)
EXTENDS Common, Integers, Sequences, FiniteSets

CONSTANTS Requests,    \* request tasks; a request's response id is the request
          MaxObjects,  \* bound: session objects created under the key
          MaxIds       \* the cap of 64 on issued and consumed ids

ASSUME RequestsAssumption == None \notin Requests
ASSUME BoundsAssumption ==
  /\ MaxObjects \in Nat \ {0} /\ None \notin 1..MaxObjects
  /\ MaxIds \in Nat \ {0}

Objects == 1..MaxObjects

VARIABLES
  req,    \* the local state of each request's handler
  seen,   \* the response ids clients have been shown
  sess,   \* each PersistentSession object
  made,   \* how many session objects exist
  store,  \* the object stored under the key, or None
  disk,   \* the session last written to the file, or None
  queue,  \* per object, the requests waiting for response_lock, in order
  holder  \* per object, the request that owns response_lock, or None

vars == <<req, seen, sess, made, store, disk, queue, holder>>

-----------------------------------------------------------------------------
(* The session object.  children is a history variable: the links parent   *)
(* to child that complete_response_continuation committed.                 *)

NewSession == [issued |-> <<>>, readOnly |-> {}, consumed |-> <<>>,
               latest |-> None, pending |-> {}, children |-> {}]

Members(s) == {s[i] : i \in DOMAIN s}

Trim(s) == IF Len(s) > MaxIds THEN Tail(s) ELSE s

\* issued_response_calls[id] = ...; latest_response_id = id; the oldest id
\* over the cap is forgotten with its read-only mark.
RecordResponse(s, id, mode) ==
  LET ids == Trim(Append(s.issued, id))
      marked == IF mode = "read_only" THEN s.readOnly \cup {id} ELSE s.readOnly
  IN
  [s EXCEPT !.issued = ids,
            !.readOnly = marked \cap Members(ids),
            !.latest = id]

\* matches: the submitted outputs are exactly the calls the response issued.
AllowsResponseOutputs(s, id, matches) ==
  id = s.latest /\ id \in Members(s.issued) /\ matches

MayBegin(s, id) ==
  /\ id \in Members(s.issued)
  /\ id = s.latest
  /\ id \notin Members(s.consumed)
  /\ ~ \E p \in s.pending : p[1] = id

\* The reservation nonce is drawn by one request: the request stands for it.
BeginContinuation(s, id, r) == [s EXCEPT !.pending = @ \cup {<<id, r>>}]

\* Mutant: a failed continuation keeps its reservation.
ReleaseContinuation_Leaks(s, id, r) == s

\* finish_response_continuation(..., success=False)
ReleaseContinuation(s, id, r) == [s EXCEPT !.pending = @ \ {<<id, r>>}]

\* Mutant: the child is recorded, but latest_response_id stays at the parent.
CompleteContinuation_StaleLatest(s, id, r, mode) ==
  IF <<id, r>> \notin s.pending THEN s
  ELSE [s EXCEPT !.pending = @ \ {<<id, r>>},
                 !.consumed = Trim(Append(@, id)),
                 !.children = @ \cup {<<id, r>>},
                 !.issued = Trim(Append(@, r))]

CompleteContinuation(s, id, r, mode) ==
  IF <<id, r>> \notin s.pending THEN s
  ELSE LET c == [s EXCEPT !.pending = @ \ {<<id, r>>},
                          !.consumed = Trim(Append(@, id)),
                          !.children = @ \cup {<<id, r>>}]
       IN RecordResponse(c, r, mode)

\* _load: the reservations are not persisted, and a latest id that is no
\* longer issued falls back to the newest issued one.
Loaded(d) ==
  [d EXCEPT !.pending = {},
            !.latest = IF d.latest \in Members(d.issued) THEN d.latest
                       ELSE IF d.issued = <<>> THEN None
                       ELSE d.issued[Len(d.issued)]]

-----------------------------------------------------------------------------
Modes == {"open", "read_only"}   \* read_only_guard

PCs == {"idle", "waiting", "running", "streaming", "issued",
        "answered", "refused", "failed", "cut"}

Idle == [pc |-> "idle", prev |-> None, inherit |-> FALSE, guard |-> "open",
         obj |-> None]

Init ==
  /\ req = [r \in Requests |-> Idle]
  /\ seen = {}
  /\ sess = [o \in Objects |-> NewSession]
  /\ made = 0
  /\ store = None
  /\ disk = None
  /\ queue = [o \in Objects |-> <<>>]
  /\ holder = [o \in Objects |-> None]

\* A handler that ends without an answer keeps no local state.
Gone(pc) == [Idle EXCEPT !.pc = pc]

\* The request captures the session object and queues for its lock.  A
\* request without previous_response_id gets or creates the session; one
\* with it needs the key to be in the store.
Arrive(r, prev) ==
  LET o == IF store # None THEN store ELSE made + 1 IN
  /\ req[r].pc = "idle"
  /\ \/ /\ store # None
        /\ UNCHANGED <<made, store>>
     \/ /\ store = None /\ prev = None /\ made < MaxObjects
        /\ made' = o
        /\ store' = o
  /\ req' = [req EXCEPT ![r].pc = "waiting", ![r].prev = prev, ![r].obj = o]
  /\ queue' = [queue EXCEPT ![o] = Append(@, r)]
  /\ UNCHANGED <<seen, sess, disk, holder>>

\* "Invalid or expired Responses previous_response_id": the id decodes to a
\* session key that is gone.
RejectUnknown(r) ==
  /\ req[r].pc = "idle" /\ store = None /\ seen # {}
  /\ req' = [req EXCEPT ![r] = Gone("refused")]
  /\ UNCHANGED <<seen, sess, made, store, disk, queue, holder>>

\* The queue q with its entry for r taken out.
Without(q, r) ==
  LET i == CHOOSE n \in DOMAIN q : q[n] = r
  IN [j \in 1..(Len(q) - 1) |-> IF j < i THEN q[j] ELSE q[j + 1]]

\* The waiting task is cancelled; asyncio.Lock drops it from the queue.
CancelWait(r) ==
  /\ req[r].pc = "waiting"
  /\ req' = [req EXCEPT ![r] = Gone("refused")]
  /\ queue' = [queue EXCEPT ![req[r].obj] = Without(@, r)]
  /\ UNCHANGED <<seen, sess, made, store, disk, holder>>

NextInLine(r) ==
  LET o == req[r].obj IN
  /\ req[r].pc = "waiting"
  /\ holder[o] = None
  /\ queue[o] # <<>> /\ Head(queue[o]) = r

Accepted(r, matches) ==
  LET s == sess[req[r].obj]  p == req[r].prev IN
  p # None => AllowsResponseOutputs(s, p, matches) /\ MayBegin(s, p)

\* Mutant: the parent's read-only mark is not consulted.
ReadOnlyGuard_OwnOnly(r, own, inherit) == own

\* own: the guard the request's own text and permissions give.  inherit: it
\* only feeds tool outputs back (no newer user text), so the parent's mark
\* counts too.
ReadOnlyGuard(r, own, inherit) ==
  LET p == req[r].prev IN
  IF p # None /\ inherit /\ p \in sess[req[r].obj].readOnly THEN "read_only" ELSE own

\* The lock is taken and every check passes.  A stream shows its response
\* id to the client in its first event.  The rest of the request body is
\* chosen here, where the handler first uses it.
Admit(r, stream, own, inherit) ==
  LET o == req[r].obj  p == req[r].prev IN
  /\ NextInLine(r) /\ Accepted(r, TRUE)
  /\ queue' = [queue EXCEPT ![o] = Tail(@)]
  /\ holder' = [holder EXCEPT ![o] = r]
  /\ sess' = IF p = None THEN sess
             ELSE [sess EXCEPT ![o] = BeginContinuation(@, p, r)]
  /\ req' = [req EXCEPT ![r].pc = IF stream THEN "streaming" ELSE "running",
                        ![r].guard = ReadOnlyGuard(r, own, inherit),
                        ![r].inherit = p # None /\ inherit]
  /\ seen' = IF stream THEN seen \cup {r} ELSE seen
  /\ UNCHANGED <<made, store, disk>>

\* A 400 under the lock, which the finally clause releases at once: a check
\* failed, or a required tool_choice conflicts with the read-only guard.
Reject(r, matches, own, inherit) ==
  /\ NextInLine(r)
  /\ ~ Accepted(r, matches) \/ ReadOnlyGuard(r, own, inherit) = "read_only"
  /\ queue' = [queue EXCEPT ![req[r].obj] = Tail(@)]
  /\ req' = [req EXCEPT ![r] = Gone("refused")]
  /\ UNCHANGED <<seen, sess, made, store, disk, holder>>

Recorded(r) ==
  LET o == req[r].obj  p == req[r].prev IN
  IF p = None THEN RecordResponse(sess[o], r, req[r].guard)
  ELSE CompleteContinuation(sess[o], p, r, req[r].guard)

\* Mutant: a path that forgets response_lock.release().
Release_Forgotten(r) == UNCHANGED holder

Release(r) == holder' = [holder EXCEPT ![req[r].obj] = None]

\* Non-streaming success: record, commit and release without an await.
Answer(r) ==
  /\ req[r].pc = "running"
  /\ sess' = [sess EXCEPT ![req[r].obj] = Recorded(r)]
  /\ seen' = seen \cup {r}
  /\ req' = [req EXCEPT ![r].pc = "answered"]
  /\ Release(r)
  /\ UNCHANGED <<made, store, disk, queue>>

\* Mutant: a continuation commits when it is issued, before delivery.
Issue_CommitsEarly(r) ==
  /\ req[r].pc = "streaming"
  /\ sess' = [sess EXCEPT ![req[r].obj] = Recorded(r)]
  /\ req' = [req EXCEPT ![r].pc = "issued"]
  /\ UNCHANGED <<seen, made, store, disk, queue, holder>>

\* record_issued_response in a stream: a first turn is recorded before the
\* last events are delivered, a continuation is only noted as pending.
Issue(r) ==
  /\ req[r].pc = "streaming"
  /\ sess' = IF req[r].prev # None THEN sess
             ELSE [sess EXCEPT ![req[r].obj] = Recorded(r)]
  /\ req' = [req EXCEPT ![r].pc = "issued"]
  /\ UNCHANGED <<seen, made, store, disk, queue, holder>>

\* The terminal body write was accepted after the stream reported success:
\* the continuation commits, then the lock is released.
Deliver(r) ==
  /\ req[r].pc = "issued"
  /\ sess' = IF req[r].prev = None THEN sess
             ELSE [sess EXCEPT ![req[r].obj] = Recorded(r)]
  /\ req' = [req EXCEPT ![r].pc = "answered"]
  /\ Release(r)
  /\ UNCHANGED <<seen, made, store, disk, queue>>

Owning == {"running", "streaming", "issued"}

\* What is left of a handler that is cut short.  A first turn that was
\* issued stays recorded ("cut").
CutShort(q) ==
  IF q.pc = "waiting" THEN Gone("refused")
  ELSE IF q.pc = "issued" /\ q.prev = None THEN [q EXCEPT !.pc = "cut"]
  ELSE IF q.pc \in Owning THEN Gone("failed")
  ELSE q

\* Upstream error, cancellation, disconnect or write deadline: the
\* reservation is released, then the lock.
Fail(r) ==
  LET o == req[r].obj  p == req[r].prev IN
  /\ req[r].pc \in Owning
  /\ sess' = IF p = None THEN sess
             ELSE [sess EXCEPT ![o] = ReleaseContinuation(@, p, r)]
  /\ req' = [req EXCEPT ![r] = CutShort(@)]
  /\ Release(r)
  /\ UNCHANGED <<seen, made, store, disk, queue>>

\* LRU overflow, prune or an explicit delete: the object leaves the store,
\* requests that hold it go on using it.
Drop ==
  /\ store # None
  /\ store' = None
  /\ UNCHANGED <<req, seen, sess, made, disk, queue, holder>>

\* The file is replaced by the current map (SessionFlush has the detail).
Persist ==
  /\ disk' = IF store = None THEN None ELSE sess[store]
  /\ UNCHANGED <<req, seen, sess, made, store, queue, holder>>

\* The process dies and starts again from the file.
Restart ==
  /\ made < MaxObjects
  /\ req' = [r \in Requests |-> CutShort(req[r])]
  /\ queue' = [o \in Objects |-> <<>>]
  /\ holder' = [o \in Objects |-> None]
  /\ made' = made + 1
  /\ store' = IF disk = None THEN None ELSE made'
  /\ sess' = [o \in Objects |-> IF o = store' THEN Loaded(disk) ELSE NewSession]
  /\ UNCHANGED <<seen, disk>>

Next ==
  \/ \E r \in Requests :
       \/ \E prev \in seen \cup {None} : Arrive(r, prev)
       \/ RejectUnknown(r) \/ CancelWait(r)
       \/ \E x, inherit \in BOOLEAN, own \in Modes :
            Admit(r, x, own, inherit) \/ Reject(r, x, own, inherit)
       \/ Answer(r) \/ Issue(r) \/ Deliver(r) \/ Fail(r)
  \/ Drop \/ Persist \/ Restart

Spec == Init /\ [][Next]_vars

\* The event loop runs a woken waiter, and the upstream idle timeout and the
\* write deadline end every turn.
Fairness ==
  \A r \in Requests :
    /\ WF_vars(\E x, inherit \in BOOLEAN, own \in Modes :
                 Admit(r, x, own, inherit) \/ Reject(r, x, own, inherit))
    /\ WF_vars(Answer(r) \/ Issue(r) \/ Deliver(r) \/ Fail(r))

FairSpec == Spec /\ Fairness
-----------------------------------------------------------------------------
Ids == Requests \cup {None}

Session == [issued : Seq(Requests), readOnly : SUBSET Requests,
            consumed : Seq(Requests), latest : Ids,
            pending : SUBSET (Requests \X Requests),
            children : SUBSET (Requests \X Requests)]

ASSUME SessionAssumption == None \notin Session

Handler == [pc : PCs, prev : Ids, inherit : BOOLEAN, guard : Modes,
            obj : Objects \cup {None}]

TypeOK ==
  /\ req \in [Requests -> Handler]
  /\ seen \subseteq Requests
  /\ sess \in [Objects -> Session]
  /\ made \in 0..MaxObjects
  /\ store \in Objects \cup {None}
  /\ disk \in Session \cup {None}
  /\ queue \in [Objects -> Seq(Requests)]
  /\ holder \in [Objects -> Requests \cup {None}]

Images == {sess[o] : o \in Objects} \cup (IF disk = None THEN {} ELSE {Loaded(disk)})

(* Whenever no turn owns a session, its latest response can be continued:  *)
(* begin_response_continuation would accept it.  No failure, cancellation, *)
(* write timeout or restart leaves a reservation or a consumed mark that   *)
(* locks the client out of its conversation.                               *)
HeadContinuable ==
  /\ \A o \in Objects :
       holder[o] = None /\ sess[o].latest # None => MayBegin(sess[o], sess[o].latest)
  /\ disk # None /\ Loaded(disk).latest # None
       => MayBegin(Loaded(disk), Loaded(disk).latest)

(* A response is answered at most once: no two committed responses share   *)
(* a parent, also after ids over the cap were forgotten and after restarts *)
(* ("Commit a successful linear continuation").                            *)
LinearChildren ==
  \A s \in Images : \A e, f \in s.children : e[1] = f[1] => e = f

(* A turn that only feeds tool outputs back runs under the read-only guard *)
(* of the response that asked for them, along the whole chain.             *)
ReadOnlyInherited ==
  \A s \in Images : \A e \in s.children :
    req[e[2]].inherit /\ req[e[1]].guard = "read_only"
      => req[e[2]].guard = "read_only"

(* A continuation the client received completely was committed in that     *)
(* very step, and one that was cut short never is.                         *)
CommitIffDelivered ==
  [][\A r \in Requests :
       req[r].prev # None /\ req[r].pc \in Owning =>
         LET link == <<req[r].prev, r>> IN
         /\ req'[r].pc = "answered" => link \in sess'[req[r].obj].children
         /\ req'[r].pc # "answered" => \A o \in Objects : link \notin sess'[o].children]_vars

(* A queued request is always served or refused: every path that takes the *)
(* lock gives it back.                                                     *)
NobodyWaitsForever ==
  \A r \in Requests : req[r].pc = "waiting" ~> req[r].pc # "waiting"

-----------------------------------------------------------------------------
(* What clients are promised, as an abstract history (LinearHistory).      *)

RecordedIds ==
  {r \in Requests : \/ req[r].pc = "answered"
                    \/ req[r].pc \in {"issued", "cut"} /\ req[r].prev = None}

History == INSTANCE LinearHistory WITH
  Ids   <- Requests,
  head  <- IF store = None THEN None ELSE sess[store].latest,
  links <- IF store = None THEN {} ELSE sess[store].children,
  saved <- IF disk = None THEN <<None, {}>>
           ELSE <<Loaded(disk).latest, Loaded(disk).children>>,
  used  <- RecordedIds

ImplementsHistory == History!Spec
=============================================================================
