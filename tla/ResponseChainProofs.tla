------------------------- MODULE ResponseChainProofs -------------------------
(***************************************************************************)
(* Proofs about ResponseChain for every set of requests and every bound.   *)
(***************************************************************************)
EXTENDS ResponseChain, TLAPS

-----------------------------------------------------------------------------
(* Sequences *)

(* Trimming a non-empty id list forgets its oldest id at most: the result is *)
(* a list of ids it held before, and its last id is kept.                    *)
LEMMA TrimProperties ==
  ASSUME NEW q \in Seq(Requests), NEW x \in Requests
  PROVE  LET t == Trim(Append(q, x)) IN
         /\ t \in Seq(Requests)
         /\ Members(t) \subseteq Members(q) \cup {x}
         /\ x \in Members(t)
<1> DEFINE a == Append(q, x)
<1>1. /\ a \in Seq(Requests) /\ Len(a) = Len(q) + 1 /\ Len(q) \in Nat
      /\ a[Len(a)] = x
      /\ \A i \in 1..Len(q) : a[i] = q[i]
  OBVIOUS
<1>2. CASE Len(a) > MaxIds
  <2>1. /\ Tail(a) \in Seq(Requests) /\ Len(Tail(a)) = Len(a) - 1
        /\ \A i \in 1..Len(a) - 1 : Tail(a)[i] = a[i + 1]
    BY <1>1
  <2>2. Len(a) >= 2
    BY <1>1, <1>2, BoundsAssumption
  <2>3. Tail(a)[Len(a) - 1] = x
    BY <1>1, <2>1, <2>2
  <2>4. \A i \in DOMAIN Tail(a) : Tail(a)[i] \in Members(q) \cup {x}
    BY <1>1, <2>1 DEF Members
  <2>5. Members(Tail(a)) \subseteq Members(q) \cup {x}
    BY <2>4 DEF Members
  <2>6. Len(a) - 1 \in DOMAIN Tail(a)
    BY <1>1, <2>1, <2>2
  <2>7. x \in Members(Tail(a))
    BY <2>3, <2>6 DEF Members
  <2>8. Trim(a) = Tail(a)
    BY <1>2 DEF Trim
  <2> QED
    BY <2>1, <2>5, <2>7, <2>8
<1>3. CASE ~ (Len(a) > MaxIds)
  BY <1>1, <1>3 DEF Trim, Members
<1> QED
  BY <1>2, <1>3

(* Taking a cancelled waiter out of a queue leaves a queue of requests.    *)
LEMMA WithoutType ==
  ASSUME NEW q \in Seq(Requests), NEW r \in Requests
  PROVE  Without(q, r) \in Seq(Requests)
<1> DEFINE i == CHOOSE n \in DOMAIN q : q[n] = r
<1> DEFINE f == [j \in 1..(Len(q) - 1) |-> IF j < i THEN q[j] ELSE q[j + 1]]
<1>1. CASE q = <<>>
  <2>1. Len(q) - 1 = -1
    BY <1>1
  <2>2. f = <<>>
    BY <2>1
  <2> QED
    BY <2>2 DEF Without
<1>2. CASE q # <<>>
  <2>1. Len(q) - 1 \in Nat
    BY <1>2
  <2>2. ASSUME NEW j \in 1..(Len(q) - 1) PROVE q[j] \in Requests /\ q[j + 1] \in Requests
    OBVIOUS
  <2>3. \A j \in 1..(Len(q) - 1) : (IF j < i THEN q[j] ELSE q[j + 1]) \in Requests
    BY <2>2
  <2>4. f \in [1..(Len(q) - 1) -> Requests]
    BY <2>3
  <2>5. f \in Seq(Requests)
    BY <2>1, <2>4
  <2> QED
    BY <2>5 DEF Without
<1> QED
  BY <1>1, <1>2

-----------------------------------------------------------------------------
(* The operations on a session object *)

(* What recording response id in s gives: the session t, where id is the   *)
(* latest response and an issued one, and no other id was added.           *)
RecordedIn(t, s, id, mode) ==
  /\ t \in Session
  /\ t.latest = id /\ id \in Members(t.issued)
  /\ Members(t.issued) \subseteq Members(s.issued) \cup {id}
  /\ t.readOnly = (IF mode = "read_only" THEN s.readOnly \cup {id} ELSE s.readOnly)
                    \cap Members(t.issued)
  /\ t.consumed = s.consumed /\ t.pending = s.pending
  /\ t.children = s.children

LEMMA RecordProperties ==
  ASSUME NEW s \in Session, NEW id \in Requests, NEW mode \in Modes
  PROVE  RecordedIn(RecordResponse(s, id, mode), s, id, mode)
<1> DEFINE ids == Trim(Append(s.issued, id))
<1> DEFINE marks == (IF mode = "read_only" THEN s.readOnly \cup {id} ELSE s.readOnly)
                      \cap Members(ids)
<1> DEFINE t == [s EXCEPT !.issued = ids, !.readOnly = marks, !.latest = id]
<1>1. s.issued \in Seq(Requests)
  BY DEF Session
<1>2. /\ ids \in Seq(Requests)
      /\ Members(ids) \subseteq Members(s.issued) \cup {id}
      /\ id \in Members(ids)
  BY <1>1, TrimProperties
<1>3. RecordResponse(s, id, mode) = t
  BY DEF RecordResponse
<1>4. marks \in SUBSET Requests
  BY DEF Session
<1> HIDE DEF ids
<1>5. marks = (IF mode = "read_only" THEN s.readOnly \cup {id} ELSE s.readOnly)
                \cap Members(ids)
  OBVIOUS
<1> HIDE DEF marks
<1>6. /\ t.issued = ids /\ t.latest = id /\ t.readOnly = marks
      /\ t.consumed = s.consumed /\ t.pending = s.pending /\ t.children = s.children
      /\ t \in Session
  BY <1>2, <1>4 DEF Session, Ids
<1> HIDE DEF t
<1> QED
  BY <1>2, <1>3, <1>5, <1>6 DEF RecordedIn

(* A continuation that still owns its reservation commits: it consumes its *)
(* parent, links itself to it and becomes the latest response.             *)
CommittedIn(t, s, id, r, mode) ==
  /\ t \in Session
  /\ t.latest = r /\ r \in Members(t.issued)
  /\ Members(t.issued) \subseteq Members(s.issued) \cup {r}
  /\ t.readOnly = (IF mode = "read_only" THEN s.readOnly \cup {r} ELSE s.readOnly)
                    \cap Members(t.issued)
  /\ Members(t.consumed) \subseteq Members(s.consumed) \cup {id}
  /\ t.pending = s.pending \ {<<id, r>>}
  /\ t.children = s.children \cup {<<id, r>>}

LEMMA CompleteProperties ==
  ASSUME NEW s \in Session, NEW id \in Requests, NEW r \in Requests,
         NEW mode \in Modes, <<id, r>> \in s.pending
  PROVE  CommittedIn(CompleteContinuation(s, id, r, mode), s, id, r, mode)
<1> DEFINE cs == Trim(Append(s.consumed, id))
<1> DEFINE c == [s EXCEPT !.pending = @ \ {<<id, r>>}, !.consumed = cs,
                          !.children = @ \cup {<<id, r>>}]
<1> DEFINE t == CompleteContinuation(s, id, r, mode)
<1>1. s.consumed \in Seq(Requests)
  BY DEF Session
<1>2. cs \in Seq(Requests) /\ Members(cs) \subseteq Members(s.consumed) \cup {id}
  BY <1>1, TrimProperties
<1>3. t = RecordResponse(c, r, mode)
  BY DEF CompleteContinuation
<1> HIDE DEF cs
<1>4. /\ c.issued = s.issued /\ c.readOnly = s.readOnly /\ c.consumed = cs
      /\ c.pending = s.pending \ {<<id, r>>}
      /\ c.children = s.children \cup {<<id, r>>}
      /\ c \in Session
  BY <1>2 DEF Session
<1> HIDE DEF c, t
<1>5. RecordedIn(t, c, r, mode)
  BY <1>3, <1>4, RecordProperties
<1>6. CommittedIn(t, s, id, r, mode)
  BY <1>2, <1>4, <1>5 DEF RecordedIn, CommittedIn
<1> QED
  BY <1>6 DEF t

(* Loading gives a session, and no reservation survives it.                *)
LEMMA LoadedType ==
  ASSUME NEW s \in Session
  PROVE  Loaded(s) \in Session /\ Loaded(s).pending = {}
<1>1. s.issued \in Seq(Requests) /\ s.latest \in Ids
  BY DEF Session
<1>2. s.issued # <<>> => s.issued[Len(s.issued)] \in Requests
  BY <1>1
<1> DEFINE l == IF s.latest \in Members(s.issued) THEN s.latest
                ELSE IF s.issued = <<>> THEN None ELSE s.issued[Len(s.issued)]
<1>3. l \in Ids
  BY <1>1, <1>2 DEF Ids
<1>4. Loaded(s) = [s EXCEPT !.pending = {}, !.latest = l]
  BY DEF Loaded
<1> HIDE DEF l
<1> QED
  BY <1>3, <1>4 DEF Session

LEMMA NewSessionType == NewSession \in Session
BY DEF NewSession, Session, Ids

(* Releasing or reserving changes nothing but the reservations.            *)
LEMMA PendingProperties ==
  ASSUME NEW s \in Session, NEW id \in Requests, NEW r \in Requests
  PROVE  /\ BeginContinuation(s, id, r) \in Session
         /\ ReleaseContinuation(s, id, r) \in Session
<1>1. s.pending \subseteq Requests \X Requests
  BY DEF Session
<1>2. /\ s.pending \cup {<<id, r>>} \in SUBSET (Requests \X Requests)
      /\ s.pending \ {<<id, r>>} \in SUBSET (Requests \X Requests)
  BY <1>1
<1> QED
  BY <1>2 DEF BeginContinuation, ReleaseContinuation, Session

-----------------------------------------------------------------------------
(* The inductive invariant *)

(* What every session image satisfies, whatever happens to its requests:   *)
(* rec are the recorded responses, g the requests' local states.           *)
SessionOK(s, rec, g) ==
  /\ Members(s.issued) \cup Members(s.consumed) \subseteq rec
  /\ s.children \subseteq rec \X rec
  /\ s.latest = None => s.issued = <<>>
  /\ s.latest # None =>
       /\ s.latest \in Members(s.issued)
       /\ s.latest \notin Members(s.consumed)
       /\ \A e \in s.children : e[1] # s.latest
  /\ \A e, f \in s.children : e[1] = f[1] => e = f
  /\ \A e \in s.children :
       g[e[2]].inherit /\ g[e[1]].guard = "read_only" => g[e[2]].guard = "read_only"
  /\ s.readOnly = {i \in Members(s.issued) : g[i].guard = "read_only"}

SessionsOK ==
  /\ \A o \in Objects : SessionOK(sess[o], RecordedIds, req)
  /\ disk # None => SessionOK(disk, RecordedIds, req)

(* response_lock and the turns that own it name each other.                *)
LockOK ==
  /\ \A r \in Requests :
       /\ req[r].pc = "waiting" => req[r].obj \in Objects
       /\ req[r].pc \in Owning => req[r].obj \in Objects /\ holder[req[r].obj] = r
  /\ \A o \in Objects :
       holder[o] # None => req[holder[o]].pc \in Owning /\ req[holder[o]].obj = o

(* A reservation belongs to the turn that holds the lock, and its parent   *)
(* is the latest response until that turn commits or gives up.             *)
ReservationOK ==
  /\ \A o \in Objects : \A e \in sess[o].pending :
       holder[o] = e[2] /\ req[e[2]].prev = e[1]
  /\ \A r \in Requests :
       LET s == sess[req[r].obj]  p == req[r].prev IN
       req[r].pc \in Owning /\ p # None =>
         /\ <<p, r>> \in s.pending /\ p = s.latest
         /\ req[r].inherit /\ req[p].guard = "read_only" => req[r].guard = "read_only"

IInv == TypeOK /\ LockOK /\ ReservationOK /\ SessionsOK

-----------------------------------------------------------------------------
(* The session operations preserve SessionOK *)

LEMMA NewSessionOK ==
  ASSUME NEW rec, NEW g
  PROVE  SessionOK(NewSession, rec, g)
BY DEF NewSession, SessionOK, Members

(* Recorded responses are never forgotten and keep their guard.            *)
Keeps(rec, g, rec2, g2) ==
  /\ rec \subseteq rec2
  /\ \A i \in rec : g2[i].guard = g[i].guard /\ g2[i].inherit = g[i].inherit

LEMMA KeptSession ==
  ASSUME NEW s \in Session, NEW rec, NEW g, NEW rec2, NEW g2,
         SessionOK(s, rec, g), Keeps(rec, g, rec2, g2)
  PROVE  SessionOK(s, rec2, g2)
<1>1. \A i \in Members(s.issued) : g2[i].guard = g[i].guard
  BY DEF SessionOK, Keeps
<1>2. \A e \in s.children : /\ e[1] \in rec /\ e[2] \in rec
                            /\ g2[e[1]].guard = g[e[1]].guard
                            /\ g2[e[2]].guard = g[e[2]].guard
                            /\ g2[e[2]].inherit = g[e[2]].inherit
  BY DEF SessionOK, Keeps
<1>3. s.readOnly = {i \in Members(s.issued) : g2[i].guard = "read_only"}
  BY <1>1 DEF SessionOK
<1>4. /\ Members(s.issued) \cup Members(s.consumed) \subseteq rec2
      /\ s.children \subseteq rec2 \X rec2
  BY DEF SessionOK, Keeps
<1> QED
  BY <1>2, <1>3, <1>4 DEF SessionOK

(* A loaded session has the latest response it was saved with.             *)
LEMMA LoadedSession ==
  ASSUME NEW s \in Session, NEW rec, NEW g, SessionOK(s, rec, g)
  PROVE  /\ Loaded(s) = [s EXCEPT !.pending = {}]
         /\ Loaded(s) \in Session /\ Loaded(s).pending = {}
         /\ SessionOK(Loaded(s), rec, g)
<1>1. s.issued \in Seq(Requests) /\ s.latest \in Ids
  BY DEF Session
<1>2. (IF s.latest \in Members(s.issued) THEN s.latest
       ELSE IF s.issued = <<>> THEN None ELSE s.issued[Len(s.issued)]) = s.latest
  BY <1>1 DEF SessionOK
<1>3. Loaded(s) = [s EXCEPT !.pending = {}, !.latest = s.latest]
  BY <1>2 DEF Loaded
<1>4. Loaded(s) = [s EXCEPT !.pending = {}]
  BY <1>3 DEF Session
<1>5. /\ Loaded(s).issued = s.issued /\ Loaded(s).readOnly = s.readOnly
      /\ Loaded(s).consumed = s.consumed /\ Loaded(s).latest = s.latest
      /\ Loaded(s).children = s.children /\ Loaded(s).pending = {}
      /\ Loaded(s) \in Session
  BY <1>4 DEF Session
<1>6. SessionOK(Loaded(s), rec, g)
  BY <1>5 DEF SessionOK
<1> QED
  BY <1>4, <1>5, <1>6

LEMMA PendingSession ==
  ASSUME NEW s \in Session, NEW rec, NEW g, SessionOK(s, rec, g),
         NEW id \in Requests, NEW r \in Requests
  PROVE  /\ SessionOK(BeginContinuation(s, id, r), rec, g)
         /\ SessionOK(ReleaseContinuation(s, id, r), rec, g)
BY DEF BeginContinuation, ReleaseContinuation, SessionOK, Session

(* Recording a response that was never recorded before.                    *)
LEMMA RecordSession ==
  ASSUME NEW s \in Session, NEW rec \in SUBSET Requests, NEW g, SessionOK(s, rec, g),
         NEW id \in Requests, id \notin rec, NEW mode \in Modes, g[id].guard = mode
  PROVE  SessionOK(RecordResponse(s, id, mode), rec \cup {id}, g)
<1> DEFINE t == RecordResponse(s, id, mode)
<1>1. RecordedIn(t, s, id, mode)
  BY RecordProperties
<1> HIDE DEF t
<1>2. Members(t.issued) \cup Members(t.consumed) \subseteq rec \cup {id}
  BY <1>1 DEF RecordedIn, SessionOK
<1>3. t.children \subseteq (rec \cup {id}) \X (rec \cup {id})
  BY <1>1 DEF RecordedIn, SessionOK
<1>4. t.latest = id /\ id # None
  BY <1>1, RequestsAssumption DEF RecordedIn
<1>5. /\ id \in Members(t.issued) /\ id \notin Members(t.consumed)
      /\ \A e \in t.children : e[1] # id
  BY <1>1 DEF RecordedIn, SessionOK
<1>6. t.readOnly = {i \in Members(t.issued) : g[i].guard = "read_only"}
  <2>1. \A i \in Members(t.issued) : i = id \/ i \in Members(s.issued)
    BY <1>1 DEF RecordedIn
  <2>2. id \notin Members(s.issued)
    BY DEF SessionOK
  <2>3. s.readOnly = {i \in Members(s.issued) : g[i].guard = "read_only"}
    BY DEF SessionOK
  <2>4. \A i \in Members(t.issued) : i \in t.readOnly <=> g[i].guard = "read_only"
    BY <1>1, <2>1, <2>2, <2>3 DEF RecordedIn
  <2> QED
    BY <1>1, <2>4 DEF RecordedIn
<1>7. t.children = s.children
  BY <1>1 DEF RecordedIn
<1>8. /\ \A e, f \in t.children : e[1] = f[1] => e = f
      /\ \A e \in t.children :
           g[e[2]].inherit /\ g[e[1]].guard = "read_only" => g[e[2]].guard = "read_only"
  BY <1>7 DEF SessionOK
<1>9. SessionOK(t, rec \cup {id}, g)
  BY <1>2, <1>3, <1>4, <1>5, <1>6, <1>8 DEF SessionOK
<1> QED
  BY <1>9 DEF t

(* Committing the continuation of the latest response.                     *)
LEMMA CompleteSession ==
  ASSUME NEW s \in Session, NEW rec \in SUBSET Requests, NEW g, SessionOK(s, rec, g),
         NEW id \in Requests, id = s.latest, NEW r \in Requests, r \notin rec,
         <<id, r>> \in s.pending, NEW mode \in Modes, g[r].guard = mode,
         g[r].inherit /\ g[id].guard = "read_only" => g[r].guard = "read_only"
  PROVE  SessionOK(CompleteContinuation(s, id, r, mode), rec \cup {r}, g)
<1> DEFINE t == CompleteContinuation(s, id, r, mode)
<1>1. CommittedIn(t, s, id, r, mode)
  BY CompleteProperties
<1> HIDE DEF t
<1>0. id # None /\ id \in Members(s.issued) /\ id \in rec /\ id # r
  BY RequestsAssumption DEF SessionOK
<1>2. Members(t.issued) \cup Members(t.consumed) \subseteq rec \cup {r}
  BY <1>0, <1>1 DEF CommittedIn, SessionOK
<1>7. t.children = s.children \cup {<<id, r>>}
  BY <1>1 DEF CommittedIn
<1>3. t.children \subseteq (rec \cup {r}) \X (rec \cup {r})
  BY <1>0, <1>7 DEF SessionOK
<1>4. t.latest = r /\ r # None
  BY <1>1, RequestsAssumption DEF CommittedIn
<1>5. /\ r \in Members(t.issued) /\ r \notin Members(t.consumed)
      /\ \A e \in t.children : e[1] # r
  <2>1. r \in Members(t.issued)
    BY <1>1 DEF CommittedIn
  <2>2. r \notin Members(t.consumed)
    BY <1>0, <1>1 DEF CommittedIn, SessionOK
  <2>3. \A e \in s.children : e[1] # r
    BY DEF SessionOK
  <2> QED
    BY <1>0, <1>7, <2>1, <2>2, <2>3
<1>6. t.readOnly = {i \in Members(t.issued) : g[i].guard = "read_only"}
  <2>1. \A i \in Members(t.issued) : i = r \/ i \in Members(s.issued)
    BY <1>1 DEF CommittedIn
  <2>2. r \notin Members(s.issued)
    BY DEF SessionOK
  <2>3. s.readOnly = {i \in Members(s.issued) : g[i].guard = "read_only"}
    BY DEF SessionOK
  <2>4. \A i \in Members(t.issued) : i \in t.readOnly <=> g[i].guard = "read_only"
    BY <1>1, <2>1, <2>2, <2>3 DEF CommittedIn
  <2> QED
    BY <1>1, <2>4 DEF CommittedIn
<1>8. \A e, f \in t.children : e[1] = f[1] => e = f
  <2>1. \A e \in s.children : e[1] # id
    BY <1>0 DEF SessionOK
  <2> QED
    BY <1>7, <2>1 DEF SessionOK
<1>9. \A e \in t.children :
        g[e[2]].inherit /\ g[e[1]].guard = "read_only" => g[e[2]].guard = "read_only"
  BY <1>7 DEF SessionOK
<1>10. SessionOK(t, rec \cup {r}, g)
  BY <1>2, <1>3, <1>4, <1>5, <1>6, <1>8, <1>9 DEF SessionOK
<1> QED
  BY <1>10 DEF t

-----------------------------------------------------------------------------
(* Every action preserves the inductive invariant *)

LEMMA RecordedType == RecordedIds \in SUBSET Requests
BY DEF RecordedIds

(* The sessions stay well formed when none changes ...                     *)
LEMMA SessionsKept ==
  ASSUME TypeOK, SessionsOK, Keeps(RecordedIds, req, RecordedIds', req'),
         sess' = sess, disk' = disk
  PROVE  SessionsOK'
<1>1. ASSUME NEW o \in Objects PROVE SessionOK(sess'[o], RecordedIds', req')
  <2>1. sess[o] \in Session /\ SessionOK(sess[o], RecordedIds, req)
    BY DEF TypeOK, SessionsOK
  <2> QED
    BY <2>1, KeptSession
<1>2. disk' # None => SessionOK(disk', RecordedIds', req')
  <2>1. disk # None => disk \in Session /\ SessionOK(disk, RecordedIds, req)
    BY DEF TypeOK, SessionsOK
  <2> QED
    BY <2>1, KeptSession
<1> QED
  BY <1>1, <1>2 DEF SessionsOK

(* ... and when one becomes a well formed session t.                       *)
LEMMA SessionsUpdated ==
  ASSUME TypeOK, SessionsOK, Keeps(RecordedIds, req, RecordedIds', req'),
         NEW o \in Objects, NEW t \in Session, SessionOK(t, RecordedIds', req'),
         sess' = [sess EXCEPT ![o] = t], disk' = disk
  PROVE  SessionsOK'
<1>1. ASSUME NEW n \in Objects PROVE SessionOK(sess'[n], RecordedIds', req')
  <2>1. sess[n] \in Session /\ SessionOK(sess[n], RecordedIds, req)
    BY DEF TypeOK, SessionsOK
  <2>2. sess'[n] = t \/ sess'[n] = sess[n]
    BY DEF TypeOK
  <2>3. SessionOK(sess[n], RecordedIds', req')
    BY <2>1, KeptSession
  <2> QED
    BY <2>2, <2>3
<1>2. disk' # None => SessionOK(disk', RecordedIds', req')
  <2>1. disk # None => disk \in Session /\ SessionOK(disk, RecordedIds, req)
    BY DEF TypeOK, SessionsOK
  <2> QED
    BY <2>1, KeptSession
<1> QED
  BY <1>1, <1>2 DEF SessionsOK

(* A step of a request that is not recorded and does not get recorded.     *)
LEMMA UnrecordedStep ==
  ASSUME TypeOK, NEW r \in Requests, NEW q,
         req' = [req EXCEPT ![r] = q], r \notin RecordedIds,
         q.pc \notin {"issued", "answered", "cut"}
  PROVE  RecordedIds' = RecordedIds /\ Keeps(RecordedIds, req, RecordedIds', req')
<1>1. \A i \in Requests : req'[i] = IF i = r THEN q ELSE req[i]
  BY DEF TypeOK
<1> QED
  BY <1>1 DEF RecordedIds, Keeps

(* The parent of a running continuation is a recorded response.            *)
LEMMA PrevRecorded ==
  ASSUME IInv, NEW r \in Requests, req[r].pc \in Owning, req[r].prev # None
  PROVE  /\ req[r].obj \in Objects
         /\ req[r].prev \in RecordedIds
         /\ req[r].prev = sess[req[r].obj].latest
         /\ <<req[r].prev, r>> \in sess[req[r].obj].pending
         /\ req[r].inherit /\ req[req[r].prev].guard = "read_only" => req[r].guard = "read_only"
<1>1. req[r].obj \in Objects
  BY DEF IInv, LockOK
<1>2. /\ req[r].prev = sess[req[r].obj].latest
      /\ <<req[r].prev, r>> \in sess[req[r].obj].pending
      /\ req[r].inherit /\ req[req[r].prev].guard = "read_only" => req[r].guard = "read_only"
  BY DEF IInv, ReservationOK
<1>3. SessionOK(sess[req[r].obj], RecordedIds, req)
  BY <1>1 DEF IInv, SessionsOK
<1> QED
  BY <1>1, <1>2, <1>3 DEF SessionOK

(* A handler outside the lock arrives, is refused or is cancelled.         *)
LEMMA QuietStep ==
  ASSUME IInv, NEW r \in Requests, NEW q \in Handler, req' = [req EXCEPT ![r] = q],
         req[r].pc \in {"idle", "waiting"}, q.pc \in {"waiting", "refused"},
         q.pc = "waiting" => q.obj \in Objects,
         sess' = sess, disk' = disk, holder' = holder
  PROVE  LockOK' /\ ReservationOK' /\ SessionsOK'
<1>0. TypeOK /\ LockOK /\ ReservationOK /\ SessionsOK
  BY DEF IInv
<1>1. \A i \in Requests : req'[i] = IF i = r THEN q ELSE req[i]
  BY <1>0 DEF TypeOK
<1>2. req[r].pc \notin Owning /\ q.pc \notin Owning /\ r \notin RecordedIds
  BY DEF Owning, RecordedIds
<1>3. LockOK'
  <2>1. ASSUME NEW i \in Requests
        PROVE  /\ req'[i].pc = "waiting" => req'[i].obj \in Objects
               /\ req'[i].pc \in Owning => req'[i].obj \in Objects /\ holder[req'[i].obj] = i
    BY <1>0, <1>1, <1>2 DEF LockOK
  <2>2. ASSUME NEW o \in Objects, holder[o] # None
        PROVE  req'[holder[o]].pc \in Owning /\ req'[holder[o]].obj = o
    BY <1>0, <1>1, <1>2, <2>2 DEF LockOK, TypeOK
  <2> QED
    BY <2>1, <2>2 DEF LockOK
<1>4. Keeps(RecordedIds, req, RecordedIds', req')
  BY <1>0, <1>2, UnrecordedStep
<1>5. SessionsOK'
  BY <1>0, <1>4, SessionsKept
<1>6. ReservationOK'
  <2>1. ASSUME NEW o \in Objects, NEW e \in sess[o].pending
        PROVE  holder[o] = e[2] /\ req'[e[2]].prev = e[1]
    <3>1. holder[o] = e[2] /\ req[e[2]].prev = e[1]
      BY <1>0 DEF ReservationOK
    <3>2. e[2] \in Requests
      BY <1>0 DEF TypeOK, Session
    <3>3. e[2] # r
      BY <1>0, <1>2, <3>1, <3>2, RequestsAssumption DEF LockOK
    <3> QED
      BY <1>1, <3>1, <3>2, <3>3
  <2>2. ASSUME NEW i \in Requests, req'[i].pc \in Owning, req'[i].prev # None
        PROVE  /\ <<req'[i].prev, i>> \in sess[req'[i].obj].pending
               /\ req'[i].prev = sess[req'[i].obj].latest
               /\ req'[i].inherit /\ req'[req'[i].prev].guard = "read_only"
                    => req'[i].guard = "read_only"
    <3>1. i # r /\ req'[i] = req[i]
      BY <1>1, <1>2, <2>2
    <3>2. req[i].prev \in RecordedIds
      BY <2>2, <3>1, PrevRecorded
    <3>3. req'[req[i].prev].guard = req[req[i].prev].guard
      BY <1>4, <3>2 DEF Keeps
    <3> QED
      BY <2>2, <3>1, <3>3, PrevRecorded
  <2> QED
    BY <2>1, <2>2 DEF ReservationOK
<1> QED
  BY <1>3, <1>5, <1>6

(* A turn ends: it leaves the session t without a reservation, then        *)
(* releases the lock.                                                      *)
LEMMA EndStep ==
  ASSUME IInv, NEW r \in Requests, NEW q \in Handler, NEW t \in Session,
         req' = [req EXCEPT ![r] = q], req[r].pc \in Owning,
         q.pc \in {"answered", "failed", "cut"}, t.pending = {},
         sess' = [sess EXCEPT ![req[r].obj] = t],
         holder' = [holder EXCEPT ![req[r].obj] = None],
         Keeps(RecordedIds, req, RecordedIds', req')
  PROVE  LockOK' /\ ReservationOK'
<1>0. TypeOK /\ LockOK /\ ReservationOK /\ SessionsOK
  BY DEF IInv
<1> DEFINE o == req[r].obj
<1>1. \A i \in Requests : req'[i] = IF i = r THEN q ELSE req[i]
  BY <1>0 DEF TypeOK
<1>2. o \in Objects /\ holder[o] = r
  BY <1>0 DEF LockOK
<1> HIDE DEF o
<1>3. \A n \in Objects : /\ sess'[n] = IF n = o THEN t ELSE sess[n]
                         /\ holder'[n] = IF n = o THEN None ELSE holder[n]
  BY <1>0, <1>2 DEF TypeOK, o
<1>4. \A i \in Requests : i # r /\ req[i].pc \in Owning => req[i].obj # o
  BY <1>0, <1>2 DEF LockOK
<1>5. q.pc \notin Owning /\ q.pc # "waiting"
  BY DEF Owning
<1>6. LockOK'
  <2>1. ASSUME NEW i \in Requests
        PROVE  /\ req'[i].pc = "waiting" => req'[i].obj \in Objects
               /\ req'[i].pc \in Owning => req'[i].obj \in Objects /\ holder'[req'[i].obj] = i
    BY <1>0, <1>1, <1>3, <1>4, <1>5 DEF LockOK
  <2>2. ASSUME NEW n \in Objects, holder'[n] # None
        PROVE  req'[holder'[n]].pc \in Owning /\ req'[holder'[n]].obj = n
    <3>1. n # o /\ holder'[n] = holder[n]
      BY <1>3, <2>2
    <3>2. req[holder[n]].pc \in Owning /\ req[holder[n]].obj = n /\ holder[n] \in Requests
      BY <1>0, <2>2, <3>1 DEF LockOK, TypeOK
    <3>3. holder[n] # r
      BY <3>1, <3>2 DEF o
    <3> QED
      BY <1>1, <3>1, <3>2, <3>3
  <2> QED
    BY <2>1, <2>2 DEF LockOK
<1>7. ReservationOK'
  <2>1. ASSUME NEW n \in Objects, NEW e \in sess'[n].pending
        PROVE  holder'[n] = e[2] /\ req'[e[2]].prev = e[1]
    <3>1. n # o /\ e \in sess[n].pending
      BY <1>3, <2>1
    <3>2. holder[n] = e[2] /\ req[e[2]].prev = e[1] /\ e[2] \in Requests
      BY <1>0, <3>1 DEF ReservationOK, TypeOK, Session
    <3>3. e[2] # r
      BY <1>0, <3>1, <3>2, RequestsAssumption DEF LockOK, o
    <3> QED
      BY <1>1, <1>3, <3>1, <3>2, <3>3
  <2>2. ASSUME NEW i \in Requests, req'[i].pc \in Owning, req'[i].prev # None
        PROVE  /\ <<req'[i].prev, i>> \in sess'[req'[i].obj].pending
               /\ req'[i].prev = sess'[req'[i].obj].latest
               /\ req'[i].inherit /\ req'[req'[i].prev].guard = "read_only"
                    => req'[i].guard = "read_only"
    <3>1. i # r /\ req'[i] = req[i]
      BY <1>1, <1>5, <2>2
    <3>2. req[i].prev \in RecordedIds /\ req[i].obj \in Objects /\ req[i].obj # o
      BY <1>4, <2>2, <3>1, PrevRecorded
    <3>3. req'[req[i].prev].guard = req[req[i].prev].guard /\ sess'[req[i].obj] = sess[req[i].obj]
      BY <1>3, <3>2, <1>0 DEF Keeps
    <3> QED
      BY <2>2, <3>1, <3>3, PrevRecorded
  <2> QED
    BY <2>1, <2>2 DEF ReservationOK
<1> QED
  BY <1>6, <1>7

LEMMA GoneType ==
  ASSUME NEW pc \in PCs
  PROVE  Gone(pc) \in Handler /\ Gone(pc).pc = pc
BY DEF Gone, Idle, Handler, Ids, Modes

(* The only reservation on the session of a turn is its own.               *)
LEMMA OwnReservation ==
  ASSUME IInv, NEW r \in Requests, req[r].pc \in Owning
  PROVE  \A e \in sess[req[r].obj].pending : e = <<req[r].prev, r>> /\ req[r].prev # None
<1>0. TypeOK /\ LockOK /\ ReservationOK
  BY DEF IInv
<1>1. req[r].obj \in Objects /\ holder[req[r].obj] = r
  BY <1>0 DEF LockOK
<1>2. ASSUME NEW e \in sess[req[r].obj].pending
      PROVE  e = <<req[r].prev, r>> /\ req[r].prev # None
  <2>1. e \in Requests \X Requests
    BY <1>0, <1>1 DEF TypeOK, Session
  <2>2. e[2] = r /\ e[1] = req[r].prev
    BY <1>0, <1>1 DEF ReservationOK
  <2> QED
    BY <2>1, <2>2, RequestsAssumption
<1> QED
  BY <1>2

(* What a turn leaves when it records its response.                        *)
LEMMA RecordedSession ==
  ASSUME IInv, NEW r \in Requests, req[r].pc \in Owning, r \notin RecordedIds
  PROVE  /\ Recorded(r) \in Session
         /\ Recorded(r).pending = {}
         /\ SessionOK(Recorded(r), RecordedIds \cup {r}, req)
<1> DEFINE o == req[r].obj
<1> DEFINE p == req[r].prev
<1> DEFINE mode == req[r].guard
<1>1. o \in Objects /\ sess[o] \in Session /\ SessionOK(sess[o], RecordedIds, req)
  BY DEF IInv, LockOK, TypeOK, SessionsOK
<1>2. mode \in Modes /\ p \in Ids
  BY DEF IInv, TypeOK, Handler
<1>3. \A e \in sess[o].pending : e = <<p, r>> /\ p # None
  BY OwnReservation
<1>4. CASE p = None
  <2>1. Recorded(r) = RecordResponse(sess[o], r, mode)
    BY <1>4 DEF Recorded
  <2>2. RecordedIn(Recorded(r), sess[o], r, mode)
    BY <1>1, <1>2, <2>1, RecordProperties
  <2>3. SessionOK(Recorded(r), RecordedIds \cup {r}, req)
    BY <1>1, <1>2, <2>1, RecordSession, RecordedType
  <2>4. sess[o].pending = {}
    BY <1>3, <1>4
  <2> QED
    BY <2>2, <2>3, <2>4 DEF RecordedIn
<1>5. CASE p # None
  <2>1. Recorded(r) = CompleteContinuation(sess[o], p, r, mode)
    BY <1>5 DEF Recorded
  <2>2. p \in Requests
    BY <1>2, <1>5 DEF Ids
  <2>3. /\ p = sess[o].latest /\ <<p, r>> \in sess[o].pending
        /\ req[r].inherit /\ req[p].guard = "read_only" => req[r].guard = "read_only"
    BY <1>5, PrevRecorded
  <2>4. CommittedIn(Recorded(r), sess[o], p, r, mode)
    BY <1>1, <1>2, <2>1, <2>2, <2>3, CompleteProperties
  <2> HIDE DEF o, p
  <2>5. SessionOK(Recorded(r), RecordedIds \cup {r}, req)
    BY <1>1, <1>2, <2>1, <2>2, <2>3, CompleteSession, RecordedType
  <2>6. Recorded(r).pending = {}
    BY <1>3, <2>4 DEF CommittedIn
  <2> QED
    BY <2>4, <2>5, <2>6 DEF CommittedIn
<1> QED
  BY <1>4, <1>5

LEMMA ArriveStep ==
  ASSUME IInv, NEW r \in Requests, NEW prev \in seen \cup {None}, Arrive(r, prev)
  PROVE  IInv'
<1>0. TypeOK
  BY DEF IInv
<1> DEFINE o == IF store # None THEN store ELSE made + 1
<1>1. o \in Objects /\ made' \in 0..MaxObjects /\ store' \in Objects \cup {None}
  BY <1>0, BoundsAssumption DEF Arrive, TypeOK, Objects
<1>2. /\ req[r].pc = "idle"
      /\ req' = [req EXCEPT ![r].pc = "waiting", ![r].prev = prev, ![r].obj = o]
      /\ queue' = [queue EXCEPT ![o] = Append(@, r)]
      /\ UNCHANGED <<seen, sess, disk, holder>>
  BY DEF Arrive
<1> HIDE DEF o
<1> DEFINE q == [req[r] EXCEPT !.pc = "waiting", !.prev = prev, !.obj = o]
<1>3. prev \in Ids /\ req[r] \in Handler
  BY <1>0 DEF TypeOK, Ids
<1>4. q \in Handler /\ q.pc = "waiting" /\ q.obj = o
  BY <1>1, <1>3 DEF Handler, PCs
<1>5. req' = [req EXCEPT ![r] = q]
  BY <1>0, <1>2 DEF TypeOK
<1> HIDE DEF q
<1>6. TypeOK'
  <2>1. req' \in [Requests -> Handler]
    BY <1>0, <1>4, <1>5 DEF TypeOK
  <2>2. queue' \in [Objects -> Seq(Requests)]
    BY <1>0, <1>1, <1>2 DEF TypeOK
  <2> QED
    BY <1>0, <1>1, <1>2, <2>1, <2>2 DEF TypeOK
<1>7. LockOK' /\ ReservationOK' /\ SessionsOK'
  BY <1>1, <1>2, <1>4, <1>5, QuietStep
<1> QED
  BY <1>6, <1>7 DEF IInv

(* A handler that ends with a 400 or by cancellation, before it owned the  *)
(* lock; the queue stays a queue.                                          *)
LEMMA RefusedStep ==
  ASSUME IInv, NEW r \in Requests, req[r].pc \in {"idle", "waiting"},
         req' = [req EXCEPT ![r] = Gone("refused")],
         queue' \in [Objects -> Seq(Requests)],
         UNCHANGED <<seen, sess, made, store, disk, holder>>
  PROVE  IInv'
<1>0. TypeOK
  BY DEF IInv
<1>1. Gone("refused") \in Handler /\ Gone("refused").pc = "refused"
  BY GoneType DEF PCs
<1>2. TypeOK'
  BY <1>0, <1>1 DEF TypeOK
<1>3. LockOK' /\ ReservationOK' /\ SessionsOK'
  BY <1>1, QuietStep
<1> QED
  BY <1>2, <1>3 DEF IInv

LEMMA AnswerStep ==
  ASSUME IInv, NEW r \in Requests, NEW t \in Session, req[r].pc \in Owning,
         t.pending = {}, SessionOK(t, RecordedIds \cup {r}, req),
         sess' = [sess EXCEPT ![req[r].obj] = t],
         req' = [req EXCEPT ![r].pc = "answered"],
         holder' = [holder EXCEPT ![req[r].obj] = None],
         seen' \subseteq seen \cup {r},
         UNCHANGED <<made, store, disk, queue>>
  PROVE  IInv'
<1>0. TypeOK /\ SessionsOK
  BY DEF IInv
<1>1. req[r].obj \in Objects /\ req[r] \in Handler
  BY DEF IInv, LockOK, TypeOK
<1> DEFINE q == [req[r] EXCEPT !.pc = "answered"]
<1>2. q \in Handler /\ q.pc = "answered" /\ q.guard = req[r].guard /\ q.inherit = req[r].inherit
  BY <1>1 DEF Handler, PCs
<1>3. req' = [req EXCEPT ![r] = q]
  BY <1>0 DEF TypeOK
<1> HIDE DEF q
<1>4. \A i \in Requests : req'[i] = IF i = r THEN q ELSE req[i]
  BY <1>0, <1>3 DEF TypeOK
<1>5. RecordedIds' = RecordedIds \cup {r}
  BY <1>2, <1>4 DEF RecordedIds
<1>6. /\ Keeps(RecordedIds, req, RecordedIds', req')
      /\ Keeps(RecordedIds \cup {r}, req, RecordedIds', req')
  BY <1>2, <1>4, <1>5, RecordedType DEF Keeps
<1>7. SessionOK(t, RecordedIds', req')
  BY <1>6, KeptSession
<1>8. SessionsOK'
  BY <1>0, <1>1, <1>6, <1>7, SessionsUpdated
<1>9. LockOK' /\ ReservationOK'
  BY <1>2, <1>3, <1>6, EndStep
<1>10. TypeOK'
  <2>1. req' \in [Requests -> Handler]
    BY <1>0, <1>2, <1>3 DEF TypeOK
  <2>2. sess' \in [Objects -> Session] /\ holder' \in [Objects -> Requests \cup {None}]
    BY <1>0, <1>1 DEF TypeOK
  <2> QED
    BY <1>0, <2>1, <2>2 DEF TypeOK
<1> QED
  BY <1>8, <1>9, <1>10 DEF IInv

LEMMA AdmitStep ==
  ASSUME IInv, NEW r \in Requests, NEW stream \in BOOLEAN, NEW own \in Modes,
         NEW inherit \in BOOLEAN, Admit(r, stream, own, inherit)
  PROVE  IInv'
<1>0. TypeOK /\ LockOK /\ ReservationOK /\ SessionsOK
  BY DEF IInv
<1> DEFINE o == req[r].obj
<1> DEFINE p == req[r].prev
<1> DEFINE t == IF p = None THEN sess[o] ELSE BeginContinuation(sess[o], p, r)
<1> DEFINE q == [req[r] EXCEPT !.pc = IF stream THEN "streaming" ELSE "running",
                               !.guard = ReadOnlyGuard(r, own, inherit),
                               !.inherit = p # None /\ inherit]
<1>1. /\ req[r].pc = "waiting" /\ holder[o] = None /\ Accepted(r, TRUE)
      /\ queue[o] # <<>> /\ queue' = [queue EXCEPT ![o] = Tail(@)]
      /\ holder' = [holder EXCEPT ![o] = r]
      /\ seen' = IF stream THEN seen \cup {r} ELSE seen
      /\ UNCHANGED <<made, store, disk>>
  BY DEF Admit, NextInLine
<1>2. o \in Objects /\ sess[o] \in Session /\ req[r] \in Handler /\ p \in Ids
  BY <1>0, <1>1 DEF LockOK, TypeOK, Handler
<1>3. sess[o].pending = {}
  BY <1>0, <1>1, <1>2, RequestsAssumption DEF ReservationOK, TypeOK, Session
<1>4. SessionOK(sess[o], RecordedIds, req)
  BY <1>0, <1>2 DEF SessionsOK
<1>5. p # None => p = sess[o].latest /\ p \in Members(sess[o].issued) /\ p \in RecordedIds
  BY <1>1, <1>4 DEF Accepted, MayBegin, SessionOK
<1>6. ReadOnlyGuard(r, own, inherit) \in Modes
  BY DEF ReadOnlyGuard, Modes
<1>7. p # None /\ inherit /\ req[p].guard = "read_only"
        => ReadOnlyGuard(r, own, inherit) = "read_only"
  BY <1>4, <1>5 DEF ReadOnlyGuard, SessionOK
<1>8. /\ q \in Handler /\ q.pc \in {"running", "streaming"} /\ q.obj = o /\ q.prev = p
      /\ q.inherit = (p # None /\ inherit) /\ q.guard = ReadOnlyGuard(r, own, inherit)
  BY <1>2, <1>6 DEF Handler, PCs
<1>9. req' = [req EXCEPT ![r] = q]
  BY <1>0 DEF Admit, TypeOK
<1>10. /\ t \in Session /\ SessionOK(t, RecordedIds, req) /\ t.latest = sess[o].latest
       /\ t.pending = IF p = None THEN {} ELSE {<<p, r>>}
  <2>1. CASE p = None
    BY <1>2, <1>3, <1>4, <2>1
  <2>2. CASE p # None
    <3>1. p \in Requests
      BY <1>2, <2>2 DEF Ids
    <3>2. t = BeginContinuation(sess[o], p, r)
      BY <2>2
    <3>3. t.latest = sess[o].latest /\ t.pending = {<<p, r>>}
      BY <1>2, <1>3, <3>2 DEF BeginContinuation, Session
    <3> HIDE DEF t, p, o
    <3> QED
      BY <1>2, <1>4, <2>2, <3>1, <3>2, <3>3, PendingProperties, PendingSession
  <2> QED
    BY <2>1, <2>2
<1>11. sess' = [sess EXCEPT ![o] = t]
  BY <1>0, <1>2 DEF Admit, TypeOK
<1> HIDE DEF q, t
<1>12. \A i \in Requests : req'[i] = IF i = r THEN q ELSE req[i]
  BY <1>0, <1>9 DEF TypeOK
<1>13. r \notin RecordedIds
  BY <1>1 DEF RecordedIds
<1>14. RecordedIds' = RecordedIds /\ Keeps(RecordedIds, req, RecordedIds', req')
  BY <1>0, <1>8, <1>9, <1>13, UnrecordedStep
<1>15. SessionsOK'
  <2>1. SessionOK(t, RecordedIds', req')
    BY <1>10, <1>14, KeptSession
  <2> HIDE DEF o
  <2> QED
    BY <1>0, <1>1, <1>2, <1>10, <1>11, <1>14, <2>1, SessionsUpdated
<1>16. \A n \in Objects : /\ sess'[n] = IF n = o THEN t ELSE sess[n]
                          /\ holder'[n] = IF n = o THEN r ELSE holder[n]
  BY <1>0, <1>1, <1>2, <1>11 DEF TypeOK
<1>17. TypeOK'
  <2> HIDE DEF o
  <2>1. req' \in [Requests -> Handler]
    BY <1>0, <1>8, <1>9 DEF TypeOK
  <2>2. /\ sess' \in [Objects -> Session]
        /\ holder' \in [Objects -> Requests \cup {None}]
        /\ seen' \subseteq Requests
    BY <1>0, <1>1, <1>2, <1>10, <1>11 DEF TypeOK
  <2>3. Tail(queue[o]) \in Seq(Requests)
    BY <1>0, <1>1, <1>2 DEF TypeOK
  <2>4. queue' \in [Objects -> Seq(Requests)]
    BY <1>0, <1>1, <2>3 DEF TypeOK
  <2> QED
    BY <1>0, <1>1, <2>1, <2>2, <2>4 DEF TypeOK
<1>18. \A i \in Requests : i # r /\ req[i].pc \in Owning => req[i].obj # o
  BY <1>0, <1>1, RequestsAssumption DEF LockOK
<1>19. LockOK'
  <2> HIDE DEF o
  <2>1. ASSUME NEW i \in Requests
        PROVE  /\ req'[i].pc = "waiting" => req'[i].obj \in Objects
               /\ req'[i].pc \in Owning => req'[i].obj \in Objects /\ holder'[req'[i].obj] = i
    <3>1. CASE i = r
      BY <1>2, <1>8, <1>12, <1>16, <3>1 DEF Owning
    <3>2. CASE i # r
      <4>1. req'[i] = req[i]
        BY <1>12, <3>2
      <4>2. /\ req[i].pc = "waiting" => req[i].obj \in Objects
            /\ req[i].pc \in Owning => req[i].obj \in Objects /\ holder[req[i].obj] = i
        BY <1>0 DEF LockOK
      <4>3. req[i].pc \in Owning => holder'[req[i].obj] = i
        BY <4>2, <1>16, <1>18, <3>2
      <4> QED
        BY ONLY <4>1, <4>2, <4>3
    <3> QED
      BY <3>1, <3>2
  <2>2. ASSUME NEW n \in Objects, holder'[n] # None
        PROVE  req'[holder'[n]].pc \in Owning /\ req'[holder'[n]].obj = n
    <3>1. CASE n = o
      BY <1>8, <1>12, <1>16, <3>1 DEF Owning
    <3>2. CASE n # o
      <4>0. holder'[n] = holder[n] /\ holder[n] # None
        BY <1>16, <2>2, <3>2
      <4>1. holder[n] # r /\ holder[n] \in Requests /\ holder'[n] = holder[n]
        BY <1>0, <1>1, <2>2, <3>2, <4>0 DEF LockOK, TypeOK, Owning
      <4> QED
        BY <1>0, <1>12, <4>1, <2>2 DEF LockOK
    <3> QED
      BY <3>1, <3>2
  <2> QED
    BY <2>1, <2>2 DEF LockOK
<1>20. ReservationOK'
  <2> HIDE DEF o, p
  <2>1. ASSUME NEW n \in Objects, NEW e \in sess'[n].pending
        PROVE  holder'[n] = e[2] /\ req'[e[2]].prev = e[1]
    <3>1. CASE n = o
      BY <1>8, <1>10, <1>12, <1>16, <3>1
    <3>2. CASE n # o
      <4>1. holder[n] = e[2] /\ req[e[2]].prev = e[1] /\ e[2] \in Requests
        BY <1>0, <1>16, <3>2 DEF ReservationOK, TypeOK, Session
      <4>2. e[2] # r
        BY <1>0, <1>1, <4>1, RequestsAssumption DEF LockOK, Owning
      <4> QED
        BY <1>12, <1>16, <3>2, <4>1, <4>2
    <3> QED
      BY <3>1, <3>2
  <2>2. ASSUME NEW i \in Requests, req'[i].pc \in Owning, req'[i].prev # None
        PROVE  /\ <<req'[i].prev, i>> \in sess'[req'[i].obj].pending
               /\ req'[i].prev = sess'[req'[i].obj].latest
               /\ req'[i].inherit /\ req'[req'[i].prev].guard = "read_only"
                    => req'[i].guard = "read_only"
    <3>1. CASE i = r
      <4>1. req'[i] = q /\ p # None
        BY <1>8, <1>12, <2>2, <3>1
      <4>2. req'[p].guard = req[p].guard
        BY <1>5, <1>14, <4>1 DEF Keeps
      <4>3. sess'[o] = t
        BY <1>2, <1>16
      <4> QED
        BY <1>5, <1>7, <1>8, <1>10, <3>1, <4>1, <4>2, <4>3
    <3>2. CASE i # r
      <4>1. req'[i] = req[i]
        BY <1>12, <3>2
      <4>2. req[i].prev \in RecordedIds /\ req[i].obj \in Objects /\ req[i].obj # o
        BY <1>18, <2>2, <3>2, <4>1, PrevRecorded
      <4>3. req'[req[i].prev].guard = req[req[i].prev].guard /\ sess'[req[i].obj] = sess[req[i].obj]
        BY <1>14, <1>16, <4>2 DEF Keeps
      <4> QED
        BY <2>2, <4>1, <4>3, PrevRecorded
    <3> QED
      BY <3>1, <3>2
  <2> QED
    BY <2>1, <2>2 DEF ReservationOK
<1> QED
  BY <1>15, <1>17, <1>19, <1>20 DEF IInv

LEMMA IssueStep ==
  ASSUME IInv, NEW r \in Requests, Issue(r)
  PROVE  IInv'
<1>0. TypeOK /\ LockOK /\ ReservationOK /\ SessionsOK
  BY DEF IInv
<1> DEFINE o == req[r].obj
<1> DEFINE p == req[r].prev
<1> DEFINE q == [req[r] EXCEPT !.pc = "issued"]
<1>1. /\ req[r].pc = "streaming" /\ req[r].pc \in Owning /\ r \notin RecordedIds
      /\ UNCHANGED <<seen, made, store, disk, queue, holder>>
  BY DEF Issue, Owning, RecordedIds
<1>2. o \in Objects /\ holder[o] = r /\ req[r] \in Handler
  BY <1>0, <1>1 DEF LockOK, TypeOK
<1>3. /\ q \in Handler /\ q.pc = "issued" /\ q.prev = p /\ q.obj = o
      /\ q.guard = req[r].guard /\ q.inherit = req[r].inherit
  BY <1>2 DEF Handler, PCs
<1>4. req' = [req EXCEPT ![r] = q]
  BY <1>0 DEF Issue, TypeOK
<1> HIDE DEF q
<1>5. \A i \in Requests : req'[i] = IF i = r THEN q ELSE req[i]
  BY <1>0, <1>4 DEF TypeOK
<1>6. LockOK'
  <2>1. \A i \in Requests : /\ req'[i].pc = "waiting" <=> req[i].pc = "waiting"
                            /\ req'[i].pc \in Owning <=> req[i].pc \in Owning
                            /\ req'[i].obj = req[i].obj
    BY <1>1, <1>3, <1>5 DEF Owning
  <2>2. ASSUME NEW n \in Objects, holder[n] # None
        PROVE  req'[holder[n]].pc \in Owning /\ req'[holder[n]].obj = n
    <3>1. holder[n] \in Requests /\ req[holder[n]].pc \in Owning /\ req[holder[n]].obj = n
      BY <1>0, <2>2 DEF LockOK, TypeOK
    <3> QED
      BY <2>1, <3>1
  <2> QED
    BY <1>0, <1>1, <2>1, <2>2 DEF LockOK
<1>7. CASE p # None
  <2>1. sess' = sess
    BY <1>7 DEF Issue
  <2>2. RecordedIds' = RecordedIds /\ Keeps(RecordedIds, req, RecordedIds', req')
    BY <1>1, <1>3, <1>5, <1>7 DEF RecordedIds, Keeps
  <2>3. SessionsOK'
    BY <1>0, <1>1, <2>1, <2>2, SessionsKept
  <2>4. TypeOK'
    BY <1>0, <1>1, <1>3, <1>4, <2>1 DEF TypeOK
  <2>5. \A i \in Requests : /\ req'[i].prev = req[i].prev /\ req'[i].obj = req[i].obj
                            /\ req'[i].pc \in Owning <=> req[i].pc \in Owning
                            /\ req'[i].guard = req[i].guard /\ req'[i].inherit = req[i].inherit
    BY <1>1, <1>3, <1>5 DEF Owning
  <2>6. \A n \in Objects : \A e \in sess[n].pending : e[2] \in Requests
    BY <1>0 DEF TypeOK, Session
  <2>7. \A i \in Requests : req[i].pc \in Owning /\ req[i].prev # None => req[i].prev \in Requests
    BY PrevRecorded, RecordedType
  <2>8. ReservationOK'
    BY <1>0, <1>1, <2>1, <2>5, <2>6, <2>7 DEF ReservationOK
  <2> QED
    BY <1>6, <2>3, <2>4, <2>8 DEF IInv
<1>8. CASE p = None
  <2> DEFINE t == Recorded(r)
  <2>1. sess' = [sess EXCEPT ![o] = t]
    BY <1>8 DEF Issue
  <2>2. t \in Session /\ t.pending = {} /\ SessionOK(t, RecordedIds \cup {r}, req)
    BY <1>1, RecordedSession
  <2> HIDE DEF t, o, p
  <2>3. RecordedIds' = RecordedIds \cup {r}
    BY <1>1, <1>3, <1>5, <1>8 DEF RecordedIds
  <2>4. /\ Keeps(RecordedIds, req, RecordedIds', req')
        /\ Keeps(RecordedIds \cup {r}, req, RecordedIds', req')
    BY <1>3, <1>5, <2>3, RecordedType DEF Keeps
  <2>5. SessionOK(t, RecordedIds', req')
    BY <2>2, <2>4, KeptSession
  <2>6. SessionsOK'
    BY <1>0, <1>1, <1>2, <2>1, <2>2, <2>4, <2>5, SessionsUpdated
  <2>7. TypeOK'
    <3>1. req' \in [Requests -> Handler] /\ sess' \in [Objects -> Session]
      BY <1>0, <1>2, <1>3, <1>4, <2>1, <2>2 DEF TypeOK
    <3> QED
      BY <1>0, <1>1, <3>1 DEF TypeOK
  <2>8. \A n \in Objects : sess'[n] = IF n = o THEN t ELSE sess[n]
    BY <1>0, <2>1 DEF TypeOK
  <2>9. ASSUME NEW n \in Objects, NEW e \in sess'[n].pending
        PROVE  holder[n] = e[2] /\ req'[e[2]].prev = e[1]
    <3>1. n # o /\ e \in sess[n].pending
      BY <2>2, <2>8, <2>9
    <3>2. holder[n] = e[2] /\ req[e[2]].prev = e[1] /\ e[2] \in Requests
      BY <1>0, <3>1 DEF ReservationOK, TypeOK, Session
    <3> QED
      BY <1>3, <1>5, <3>2 DEF p
  <2>10. ASSUME NEW i \in Requests, req'[i].pc \in Owning, req'[i].prev # None
         PROVE  /\ <<req'[i].prev, i>> \in sess'[req'[i].obj].pending
                /\ req'[i].prev = sess'[req'[i].obj].latest
                /\ req'[i].inherit /\ req'[req'[i].prev].guard = "read_only"
                     => req'[i].guard = "read_only"
    <3>1. i # r /\ req'[i] = req[i]
      BY <1>3, <1>5, <1>8, <2>10
    <3>2. req[i].prev \in RecordedIds /\ req[i].obj \in Objects
      BY <2>10, <3>1, PrevRecorded
    <3>3. req[i].obj # o
      BY <1>0, <1>2, <2>10, <3>1 DEF LockOK
    <3>4. req'[req[i].prev].guard = req[req[i].prev].guard /\ sess'[req[i].obj] = sess[req[i].obj]
      BY <2>4, <2>8, <3>2, <3>3 DEF Keeps
    <3> QED
      BY <2>10, <3>1, <3>4, PrevRecorded
  <2>11. ReservationOK'
    BY <1>1, <2>9, <2>10 DEF ReservationOK
  <2> QED
    BY <1>6, <2>6, <2>7, <2>11 DEF IInv
<1> QED
  BY <1>7, <1>8

(* Cutting a handler short keeps what it recorded, and nothing else.       *)
LEMMA CutProperties ==
  ASSUME NEW q \in Handler
  PROVE  /\ CutShort(q) \in Handler
         /\ CutShort(q).pc \notin Owning /\ CutShort(q).pc # "waiting"
         /\ CutShort(q).pc \in {"answered", "cut"} <=>
              q.pc \in {"answered", "cut"} \/ (q.pc = "issued" /\ q.prev = None)
         /\ CutShort(q).pc \in {"answered", "cut"} =>
              /\ CutShort(q).guard = q.guard /\ CutShort(q).inherit = q.inherit
              /\ CutShort(q).prev = q.prev
         /\ q.pc \in Owning => CutShort(q).pc \in {"failed", "cut"}
         /\ CutShort(q).pc = "answered" <=> q.pc = "answered"
<1>1. /\ Gone("refused") \in Handler /\ Gone("refused").pc = "refused"
      /\ Gone("failed") \in Handler /\ Gone("failed").pc = "failed"
  BY GoneType DEF PCs
<1>2. [q EXCEPT !.pc = "cut"] \in Handler
  BY DEF Handler, PCs
<1>3. q.pc \in PCs
  BY DEF Handler
<1>4. CASE q.pc = "waiting"
  BY <1>1, <1>4 DEF CutShort, Owning
<1>5. CASE q.pc = "issued" /\ q.prev = None
  <2>1. CutShort(q) = [q EXCEPT !.pc = "cut"]
    BY <1>5 DEF CutShort
  <2> QED
    BY <1>2, <1>5, <2>1 DEF Owning, Handler
<1>6. CASE q.pc \in Owning /\ ~ (q.pc = "issued" /\ q.prev = None)
  <2>1. CutShort(q) = Gone("failed")
    BY <1>6 DEF CutShort, Owning
  <2> QED
    BY <1>1, <1>6, <2>1 DEF Owning
<1>7. CASE q.pc \notin Owning /\ q.pc # "waiting"
  <2>1. CutShort(q) = q
    BY <1>7 DEF CutShort, Owning
  <2> QED
    BY <1>7, <2>1 DEF Owning
<1> QED
  BY <1>4, <1>5, <1>6, <1>7

(* Whoever is cut short, the recorded responses are the same.              *)
LEMMA CutKeeps ==
  ASSUME TypeOK, \A i \in Requests : req'[i] = req[i] \/ req'[i] = CutShort(req[i])
  PROVE  RecordedIds' = RecordedIds /\ Keeps(RecordedIds, req, RecordedIds', req')
<1>1. ASSUME NEW i \in Requests
      PROVE  /\ i \in RecordedIds' <=> i \in RecordedIds
             /\ i \in RecordedIds => /\ req'[i].guard = req[i].guard
                                    /\ req'[i].inherit = req[i].inherit
  <2>1. req[i] \in Handler
    BY DEF TypeOK
  <2>2. CASE req'[i] = req[i]
    BY <2>2 DEF RecordedIds
  <2>3. CASE req'[i] = CutShort(req[i])
    BY <2>1, <2>3, CutProperties DEF RecordedIds, Owning
  <2> QED
    BY <2>2, <2>3
<1>2. RecordedIds' \subseteq Requests /\ RecordedIds \subseteq Requests
  BY DEF RecordedIds
<1> QED
  BY <1>1, <1>2 DEF Keeps

LEMMA FailStep ==
  ASSUME IInv, NEW r \in Requests, Fail(r)
  PROVE  IInv'
<1>0. TypeOK /\ LockOK /\ ReservationOK /\ SessionsOK
  BY DEF IInv
<1> DEFINE o == req[r].obj
<1> DEFINE p == req[r].prev
<1> DEFINE q == CutShort(req[r])
<1> DEFINE t == IF p = None THEN sess[o] ELSE ReleaseContinuation(sess[o], p, r)
<1>1. /\ req[r].pc \in Owning /\ req' = [req EXCEPT ![r] = q]
      /\ holder' = [holder EXCEPT ![o] = None]
      /\ UNCHANGED <<seen, made, store, disk, queue>>
  BY DEF Fail, Release
<1>2. o \in Objects /\ req[r] \in Handler /\ sess[o] \in Session
  BY <1>0, <1>1 DEF LockOK, TypeOK
<1>3. q \in Handler /\ q.pc \in {"failed", "cut"}
  BY <1>1, <1>2, CutProperties
<1>4. sess' = [sess EXCEPT ![o] = t]
  BY <1>0, <1>2 DEF Fail, TypeOK
<1>5. \A e \in sess[o].pending : e = <<p, r>> /\ p # None
  BY <1>1, OwnReservation
<1>6. SessionOK(sess[o], RecordedIds, req)
  BY <1>0, <1>2 DEF SessionsOK
<1>7. t \in Session /\ t.pending = {} /\ SessionOK(t, RecordedIds, req)
  <2>1. CASE p = None
    BY <1>2, <1>5, <1>6, <2>1
  <2>2. CASE p # None
    <3>1. p \in Requests
      BY <1>2, <2>2 DEF Handler, Ids
    <3>2. t = ReleaseContinuation(sess[o], p, r)
      BY <2>2
    <3>3. t.pending = {}
      BY <1>2, <1>5, <3>2 DEF ReleaseContinuation, Session
    <3> HIDE DEF t, p, o
    <3> QED
      BY <1>2, <1>6, <3>1, <3>2, <3>3, PendingProperties, PendingSession
  <2> QED
    BY <2>1, <2>2
<1> HIDE DEF t, q
<1>8. \A i \in Requests : req'[i] = req[i] \/ req'[i] = CutShort(req[i])
  BY <1>0, <1>1 DEF TypeOK, q
<1>9. RecordedIds' = RecordedIds /\ Keeps(RecordedIds, req, RecordedIds', req')
  BY <1>0, <1>8, CutKeeps
<1>10. LockOK' /\ ReservationOK'
  BY <1>1, <1>3, <1>4, <1>7, <1>9, EndStep
<1>11. SessionOK(t, RecordedIds', req')
  BY <1>7, <1>9, KeptSession
<1> HIDE DEF o
<1>12. SessionsOK'
  BY <1>0, <1>1, <1>2, <1>4, <1>7, <1>9, <1>11, SessionsUpdated
<1>13. TypeOK'
  <2>1. req' \in [Requests -> Handler]
    BY <1>0, <1>1, <1>3 DEF TypeOK
  <2>2. sess' \in [Objects -> Session] /\ holder' \in [Objects -> Requests \cup {None}]
    BY <1>0, <1>1, <1>2, <1>4, <1>7 DEF TypeOK
  <2> QED
    BY <1>0, <1>1, <2>1, <2>2 DEF TypeOK
<1> QED
  BY <1>10, <1>12, <1>13 DEF IInv

(* Dropping and persisting touch no session object and no handler.         *)
LEMMA StoreStep ==
  ASSUME IInv, UNCHANGED <<req, seen, sess, made, queue, holder>>,
         store' \in Objects \cup {None},
         disk' \in {disk, None} \cup {sess[o] : o \in Objects}
  PROVE  IInv'
<1>0. TypeOK /\ LockOK /\ ReservationOK /\ SessionsOK
  BY DEF IInv
<1>1. RecordedIds' = RecordedIds
  BY DEF RecordedIds
<1>2. TypeOK'
  BY <1>0 DEF TypeOK
<1>3. LockOK'
  BY <1>0 DEF LockOK
<1>4. ReservationOK'
  BY <1>0 DEF ReservationOK
<1>5. ASSUME NEW o \in Objects PROVE SessionOK(sess'[o], RecordedIds', req')
  BY <1>0, <1>1 DEF SessionsOK
<1>6. disk' # None => SessionOK(disk', RecordedIds', req')
  BY <1>0, <1>1 DEF SessionsOK
<1>7. SessionsOK'
  BY <1>5, <1>6 DEF SessionsOK
<1> QED
  BY <1>2, <1>3, <1>4, <1>7 DEF IInv

LEMMA RestartStep ==
  ASSUME IInv, Restart
  PROVE  IInv'
<1>0. TypeOK /\ LockOK /\ ReservationOK /\ SessionsOK
  BY DEF IInv
<1>1. /\ req' = [r \in Requests |-> CutShort(req[r])]
      /\ queue' = [o \in Objects |-> <<>>]
      /\ holder' = [o \in Objects |-> None]
      /\ made < MaxObjects /\ made' = made + 1
      /\ store' = (IF disk = None THEN None ELSE made')
      /\ sess' = [o \in Objects |-> IF o = store' THEN Loaded(disk) ELSE NewSession]
      /\ UNCHANGED <<seen, disk>>
  BY DEF Restart
<1>2. made' \in 0..MaxObjects /\ made' \in Objects /\ store' \in Objects \cup {None}
  BY <1>0, <1>1, BoundsAssumption DEF TypeOK, Objects
<1>3. \A r \in Requests : /\ req'[r] = CutShort(req[r]) /\ req'[r] \in Handler
                          /\ req'[r].pc \notin Owning /\ req'[r].pc # "waiting"
  BY <1>0, <1>1, CutProperties DEF TypeOK
<1>4. RecordedIds' = RecordedIds /\ Keeps(RecordedIds, req, RecordedIds', req')
  BY <1>0, <1>3, CutKeeps
<1>5. ASSUME NEW o \in Objects
      PROVE  /\ sess'[o] \in Session /\ sess'[o].pending = {}
             /\ SessionOK(sess'[o], RecordedIds', req')
  <2>1. CASE o = store'
    <3>1. disk # None /\ sess'[o] = Loaded(disk)
      BY <1>1, <2>1, BoundsAssumption DEF Objects
    <3>2. disk \in Session /\ SessionOK(disk, RecordedIds, req)
      BY <1>0, <3>1 DEF TypeOK, SessionsOK
    <3>3. Loaded(disk) \in Session /\ Loaded(disk).pending = {} /\ SessionOK(Loaded(disk), RecordedIds, req)
      BY <3>2, LoadedSession
    <3> QED
      BY <1>4, <3>1, <3>3, KeptSession
  <2>2. CASE o # store'
    <3>1. sess'[o] = NewSession
      BY <1>1, <2>2
    <3>2. NewSession.pending = {}
      BY DEF NewSession
    <3> QED
      BY <3>1, <3>2, NewSessionType, NewSessionOK
  <2> QED
    BY <2>1, <2>2
<1>6. disk' # None => SessionOK(disk', RecordedIds', req')
  <2>1. disk # None => disk \in Session /\ SessionOK(disk, RecordedIds, req)
    BY <1>0 DEF TypeOK, SessionsOK
  <2> QED
    BY <1>1, <1>4, <2>1, KeptSession
<1>7. SessionsOK'
  BY <1>5, <1>6 DEF SessionsOK
<1>8. TypeOK'
  <2>1. req' \in [Requests -> Handler] /\ sess' \in [Objects -> Session]
    BY <1>1, <1>3, <1>5
  <2>2. queue' \in [Objects -> Seq(Requests)] /\ holder' \in [Objects -> Requests \cup {None}]
    BY <1>1
  <2> QED
    BY <1>0, <1>1, <1>2, <2>1, <2>2 DEF TypeOK
<1>9. LockOK' /\ ReservationOK'
  BY <1>1, <1>3, <1>5 DEF LockOK, ReservationOK
<1> QED
  BY <1>7, <1>8, <1>9 DEF IInv

-----------------------------------------------------------------------------
(* The theorems *)

LEMMA InitOK == Init => IInv
<1> SUFFICES ASSUME Init PROVE IInv
  OBVIOUS
<1>1. Idle \in Handler /\ Idle.pc = "idle"
  BY DEF Idle, Handler, PCs, Ids, Modes
<1>2. /\ \A r \in Requests : req[r] = Idle
      /\ \A o \in Objects : sess[o] = NewSession /\ holder[o] = None
  BY DEF Init
<1>3. TypeOK
  <2>1. /\ req \in [Requests -> Handler] /\ sess \in [Objects -> Session]
        /\ queue \in [Objects -> Seq(Requests)] /\ holder \in [Objects -> Requests \cup {None}]
    BY <1>1, NewSessionType DEF Init
  <2> QED
    BY <2>1, BoundsAssumption DEF Init, TypeOK
<1>4. LockOK
  BY <1>1, <1>2 DEF LockOK, Owning
<1>5. \A o \in Objects : sess[o].pending = {}
  BY <1>2 DEF NewSession
<1>6. ReservationOK
  BY <1>1, <1>2, <1>5 DEF ReservationOK, Owning
<1>7. SessionsOK
  <2>1. disk = None
    BY DEF Init
  <2> QED
    BY <1>2, <2>1, NewSessionOK DEF SessionsOK
<1> QED
  BY <1>3, <1>4, <1>6, <1>7 DEF IInv

LEMMA NextOK == IInv /\ [Next]_vars => IInv'
<1> SUFFICES ASSUME IInv, [Next]_vars PROVE IInv'
  OBVIOUS
<1>0. TypeOK /\ LockOK
  BY DEF IInv
<1>1. ASSUME NEW r \in Requests, NEW prev \in seen \cup {None}, Arrive(r, prev)
      PROVE  IInv'
  BY <1>1, ArriveStep
<1>2. ASSUME NEW r \in Requests, RejectUnknown(r)
      PROVE  IInv'
  <2>1. queue' \in [Objects -> Seq(Requests)]
    BY <1>0, <1>2 DEF RejectUnknown, TypeOK
  <2> QED
    BY <1>2, <2>1, RefusedStep DEF RejectUnknown
<1>3. ASSUME NEW r \in Requests, CancelWait(r)
      PROVE  IInv'
  <2>1. req[r].obj \in Objects /\ queue[req[r].obj] \in Seq(Requests)
    BY <1>0, <1>3 DEF CancelWait, LockOK, TypeOK
  <2>2. Without(queue[req[r].obj], r) \in Seq(Requests)
    BY <2>1, WithoutType
  <2>3. queue' \in [Objects -> Seq(Requests)]
    BY <1>0, <1>3, <2>2 DEF CancelWait, TypeOK
  <2> QED
    BY <1>3, <2>3, RefusedStep DEF CancelWait
<1>4. ASSUME NEW r \in Requests, NEW x \in BOOLEAN, NEW own \in Modes,
             NEW inherit \in BOOLEAN, Admit(r, x, own, inherit)
      PROVE  IInv'
  BY <1>4, AdmitStep
<1>5. ASSUME NEW r \in Requests, NEW x \in BOOLEAN, NEW own \in Modes,
             NEW inherit \in BOOLEAN, Reject(r, x, own, inherit)
      PROVE  IInv'
  <2>1. /\ req[r].pc = "waiting" /\ queue[req[r].obj] # <<>>
        /\ req' = [req EXCEPT ![r] = Gone("refused")]
        /\ queue' = [queue EXCEPT ![req[r].obj] = Tail(@)]
        /\ UNCHANGED <<seen, sess, made, store, disk, holder>>
    BY <1>5 DEF Reject, NextInLine
  <2>2. queue[req[r].obj] \in Seq(Requests)
    BY <1>0, <2>1 DEF LockOK, TypeOK
  <2>3. Tail(queue[req[r].obj]) \in Seq(Requests)
    BY <2>1, <2>2
  <2>4. queue' \in [Objects -> Seq(Requests)]
    BY <1>0, <2>1, <2>3 DEF TypeOK
  <2> QED
    BY <2>1, <2>4, RefusedStep
<1>6. ASSUME NEW r \in Requests, Answer(r)
      PROVE  IInv'
  <2>1. req[r].pc \in Owning /\ r \notin RecordedIds
    BY <1>6 DEF Answer, Owning, RecordedIds
  <2>2. /\ Recorded(r) \in Session /\ Recorded(r).pending = {}
        /\ SessionOK(Recorded(r), RecordedIds \cup {r}, req)
    BY <2>1, RecordedSession
  <2> QED
    BY <1>6, <2>1, <2>2, AnswerStep DEF Answer, Release
<1>7. ASSUME NEW r \in Requests, Issue(r)
      PROVE  IInv'
  BY <1>7, IssueStep
<1>8. ASSUME NEW r \in Requests, Deliver(r)
      PROVE  IInv'
  <2>1. req[r].pc \in Owning /\ req[r].pc = "issued" /\ req[r].obj \in Objects
    BY <1>0, <1>8 DEF Deliver, Owning, LockOK
  <2>2. CASE req[r].prev # None
    <3>1. r \notin RecordedIds
      BY <2>1, <2>2 DEF RecordedIds
    <3>2. /\ Recorded(r) \in Session /\ Recorded(r).pending = {}
          /\ SessionOK(Recorded(r), RecordedIds \cup {r}, req)
      BY <2>1, <3>1, RecordedSession
    <3> QED
      BY <1>8, <2>1, <2>2, <3>2, AnswerStep DEF Deliver, Release
  <2>3. CASE req[r].prev = None
    <3> DEFINE t == sess[req[r].obj]
    <3>1. r \in RecordedIds
      BY <2>1, <2>3 DEF RecordedIds
    <3>2. RecordedIds \cup {r} = RecordedIds
      BY <3>1
    <3>3. t \in Session /\ SessionOK(t, RecordedIds, req)
      BY <1>0, <2>1 DEF IInv, TypeOK, SessionsOK
    <3>4. t.pending = {}
      BY <2>1, <2>3, OwnReservation
    <3>5. sess' = [sess EXCEPT ![req[r].obj] = t]
      BY <1>0, <1>8, <2>3 DEF Deliver, TypeOK
    <3> HIDE DEF t
    <3> QED
      BY <1>8, <2>1, <3>2, <3>3, <3>4, <3>5, AnswerStep DEF Deliver, Release
  <2> QED
    BY <2>2, <2>3
<1>9. ASSUME NEW r \in Requests, Fail(r)
      PROVE  IInv'
  BY <1>9, FailStep
<1>10. CASE Drop
  BY <1>10, StoreStep DEF Drop
<1>11. CASE Persist
  <2>1. store # None => store \in Objects
    BY <1>0 DEF TypeOK
  <2>2. disk' \in {disk, None} \cup {sess[o] : o \in Objects}
    BY <1>11, <2>1 DEF Persist
  <2> QED
    BY <1>0, <1>11, <2>2, StoreStep DEF Persist, TypeOK
<1>12. CASE Restart
  BY <1>12, RestartStep
<1>13. CASE UNCHANGED vars
  <2>1. UNCHANGED <<req, seen, sess, made, queue, holder>> /\ store' = store /\ disk' = disk
    BY <1>13 DEF vars
  <2> QED
    BY <1>0, <2>1, StoreStep DEF TypeOK
<1> QED
  BY <1>1, <1>2, <1>3, <1>4, <1>5, <1>6, <1>7, <1>8, <1>9, <1>10, <1>11, <1>12, <1>13 DEF Next

(* The inductive invariant holds in every reachable state.                 *)
THEOREM Invariance == Spec => []IInv
BY InitOK, NextOK, PTL DEF Spec

(* Every variable has its type, in particular no operation on a session    *)
(* stores a reservation without the request that owns it.                  *)
THEOREM TypeCorrect == Spec => []TypeOK
<1>1. IInv => TypeOK
  BY DEF IInv
<1> QED
  BY <1>1, Invariance, PTL

(* A session without a running turn can be continued from its latest       *)
(* response, in memory and as it would be loaded from the file.            *)
THEOREM Continuable == Spec => []HeadContinuable
<1>1. IInv => HeadContinuable
  <2> SUFFICES ASSUME IInv PROVE HeadContinuable
    OBVIOUS
  <2>1. ASSUME NEW o \in Objects, holder[o] = None, sess[o].latest # None
        PROVE  MayBegin(sess[o], sess[o].latest)
    <3>1. SessionOK(sess[o], RecordedIds, req)
      BY DEF IInv, SessionsOK
    <3>2. sess[o].pending = {}
      BY <2>1, RequestsAssumption DEF IInv, ReservationOK, TypeOK, Session
    <3> QED
      BY <2>1, <3>1, <3>2 DEF MayBegin, SessionOK
  <2>2. ASSUME disk # None, Loaded(disk).latest # None
        PROVE  MayBegin(Loaded(disk), Loaded(disk).latest)
    <3>1. Loaded(disk).pending = {} /\ SessionOK(Loaded(disk), RecordedIds, req)
      BY <2>2, LoadedSession DEF IInv, TypeOK, SessionsOK
    <3> QED
      BY <2>2, <3>1 DEF MayBegin, SessionOK
  <2> QED
    BY <2>1, <2>2 DEF HeadContinuable
<1> QED
  BY <1>1, Invariance, PTL

(* What SessionOK says of every session a client can meet.                 *)
LEMMA ImagesOK ==
  ASSUME IInv
  PROVE  \A s \in Images : SessionOK(s, RecordedIds, req)
<1>1. \A o \in Objects : SessionOK(sess[o], RecordedIds, req)
  BY DEF IInv, SessionsOK
<1>2. disk # None => SessionOK(Loaded(disk), RecordedIds, req)
  BY LoadedSession DEF IInv, TypeOK, SessionsOK
<1> QED
  BY <1>1, <1>2 DEF Images

(* No two committed responses continue the same parent.                    *)
THEOREM Linear == Spec => []LinearChildren
<1>1. IInv => LinearChildren
  BY ImagesOK DEF LinearChildren, SessionOK
<1> QED
  BY <1>1, Invariance, PTL

(* Tool outputs never escape the read-only guard of the response that      *)
(* asked for them.                                                         *)
THEOREM GuardInherited == Spec => []ReadOnlyInherited
<1>1. IInv => ReadOnlyInherited
  BY ImagesOK DEF ReadOnlyInherited, SessionOK
<1> QED
  BY <1>1, Invariance, PTL

-----------------------------------------------------------------------------
(* ResponseChain implements the linear history of LinearHistory, and a     *)
(* continuation is committed in the step that delivers it: for every set   *)
(* of requests and every bound.                                            *)

(* Which responses are recorded after a step of one request.               *)
LEMMA RecordedAfter ==
  ASSUME TypeOK, NEW r \in Requests, NEW q, req' = [req EXCEPT ![r] = q]
  PROVE  RecordedIds' = IF q.pc = "answered" \/ (q.pc \in {"issued", "cut"} /\ q.prev = None)
                        THEN RecordedIds \cup {r} ELSE RecordedIds \ {r}
<1>1. \A i \in Requests : req'[i] = IF i = r THEN q ELSE req[i]
  BY DEF TypeOK
<1> QED
  BY <1>1 DEF RecordedIds

(* A turn that records its response makes it the latest of its session,    *)
(* and a continuation adds its link; no other session is touched.          *)
LEMMA RecordedHead ==
  ASSUME IInv, NEW r \in Requests, req[r].pc \in Owning
  PROVE  /\ req[r].obj \in Objects
         /\ Recorded(r).latest = r
         /\ req[r].prev = None => Recorded(r).children = sess[req[r].obj].children
         /\ req[r].prev # None =>
              /\ req[r].prev = sess[req[r].obj].latest
              /\ Recorded(r).children = sess[req[r].obj].children \cup {<<req[r].prev, r>>}
<1> DEFINE o == req[r].obj
           p == req[r].prev
           mode == req[r].guard
<1>1. o \in Objects /\ sess[o] \in Session /\ mode \in Modes /\ p \in Ids
  BY DEF IInv, LockOK, TypeOK, Handler
<1>2. CASE p = None
  <2>1. RecordedIn(Recorded(r), sess[o], r, mode)
    BY <1>1, <1>2, RecordProperties DEF Recorded
  <2> QED
    BY <1>1, <1>2, <2>1 DEF RecordedIn
<1>3. CASE p # None
  <2>1. p \in Requests /\ p = sess[o].latest /\ <<p, r>> \in sess[o].pending
    BY <1>1, <1>3, PrevRecorded DEF Ids
  <2>2. CommittedIn(Recorded(r), sess[o], p, r, mode)
    BY <1>1, <1>3, <2>1, CompleteProperties DEF Recorded
  <2> QED
    BY <1>1, <1>3, <2>1, <2>2 DEF CommittedIn
<1> QED
  BY <1>2, <1>3

-----------------------------------------------------------------------------
(* Objects beyond made are as new, and nobody has one of them.             *)

FreshInv ==
  /\ \A o \in Objects : o > made => sess[o] = NewSession
  /\ \A r \in Requests : req[r].obj # None => req[r].obj <= made
  /\ store # None => store <= made

LEMMA FreshKept ==
  ASSUME FreshInv, made' = made, store' \in {store, None},
         \A r \in Requests : req'[r].obj \in {req[r].obj, None},
         \A o \in Objects : o > made => sess'[o] = sess[o]
  PROVE  FreshInv'
BY DEF FreshInv

LEMMA FreshOwned ==
  ASSUME IInv, FreshInv, NEW r \in Requests, req[r].pc \in Owning, NEW t, NEW q,
         sess' = [sess EXCEPT ![req[r].obj] = t] \/ sess' = sess,
         req' = [req EXCEPT ![r] = q], q.obj \in {req[r].obj, None},
         made' = made, store' = store
  PROVE  FreshInv'
<1>1. req[r].obj \in Objects /\ req[r].obj # None /\ req[r].obj <= made
  BY BoundsAssumption DEF IInv, LockOK, FreshInv, Objects
<1>2. \A o \in Objects : o > made => sess'[o] = sess[o]
  <2>1. made \in Nat /\ sess \in [Objects -> Session]
    BY BoundsAssumption DEF IInv, TypeOK
  <2>2. ASSUME NEW o \in Objects, o > made PROVE sess'[o] = sess[o]
    <3>1. o # req[r].obj
      BY <1>1, <2>1, <2>2 DEF Objects
    <3> QED
      BY <2>1, <3>1
  <2> QED
    BY <2>2
<1>3. \A i \in Requests : req'[i].obj \in {req[i].obj, None}
  BY DEF IInv, TypeOK
<1> QED
  BY <1>2, <1>3, FreshKept

LEMMA FreshInit == Init => FreshInv
<1> SUFFICES ASSUME Init PROVE FreshInv
  OBVIOUS
<1>1. \A r \in Requests : req[r].obj = None
  BY DEF Init, Idle
<1> QED
  BY <1>1 DEF Init, FreshInv

LEMMA FreshNext ==
  ASSUME IInv, FreshInv, [Next]_vars
  PROVE  FreshInv'
<1>0. TypeOK /\ made \in Nat /\ req \in [Requests -> Handler] /\ sess \in [Objects -> Session]
  BY BoundsAssumption DEF IInv, TypeOK
<1>1. ASSUME NEW r \in Requests, NEW prev \in seen \cup {None}, Arrive(r, prev)
      PROVE  FreshInv'
  <2> DEFINE o == IF store # None THEN store ELSE made + 1
  <2>1. /\ req' = [req EXCEPT ![r].pc = "waiting", ![r].prev = prev, ![r].obj = o]
        /\ sess' = sess
        /\ \/ store # None /\ made' = made /\ store' = store
           \/ store = None /\ made' = made + 1 /\ store' = made + 1
    BY <1>1 DEF Arrive
  <2>2. o <= made' /\ made <= made' /\ made' \in Nat /\ (store' # None => store' <= made')
    BY <1>0, <2>1 DEF FreshInv
  <2>3. ASSUME NEW i \in Requests, req'[i].obj # None PROVE req'[i].obj <= made'
    <3>1. CASE i = r
      <4>1. req'[i].obj = o
        BY <1>0, <2>1, <3>1 DEF Handler
      <4> QED
        BY <2>2, <4>1
    <3>2. CASE i # r
      <4>1. req'[i] = req[i]
        BY <1>0, <2>1, <3>2
      <4>2. req[i].obj \in Objects /\ req[i].obj <= made
        BY <1>0, <2>3, <4>1 DEF FreshInv, Handler
      <4> QED
        BY <1>0, <2>2, <4>1, <4>2 DEF Objects
    <3> QED
      BY <3>1, <3>2
  <2>4. ASSUME NEW n \in Objects, n > made' PROVE sess'[n] = NewSession
    BY <1>0, <2>1, <2>2, <2>4 DEF FreshInv, Objects
  <2> QED
    BY <2>2, <2>3, <2>4 DEF FreshInv
<1>2. ASSUME NEW r \in Requests, RejectUnknown(r) \/ CancelWait(r)
      PROVE  FreshInv'
  <2>1. \A i \in Requests : req'[i].obj \in {req[i].obj, None}
    BY <1>0, <1>2 DEF RejectUnknown, CancelWait, Gone, Idle
  <2> QED
    BY <1>2, <2>1, FreshKept DEF RejectUnknown, CancelWait
<1>3. ASSUME NEW r \in Requests, NEW x \in BOOLEAN, NEW own \in Modes,
             NEW inherit \in BOOLEAN, Admit(r, x, own, inherit) \/ Reject(r, x, own, inherit)
      PROVE  FreshInv'
  <2>1. \A i \in Requests : req'[i].obj \in {req[i].obj, None}
    <3>1. CASE Reject(r, x, own, inherit)
      <4>1. req' = [req EXCEPT ![r] = Gone("refused")]
        BY <3>1 DEF Reject
      <4> QED
        BY <1>0, <4>1 DEF Gone, Idle
    <3>2. CASE Admit(r, x, own, inherit)
      <4>1. PICK pc, guard, inh : req' = [req EXCEPT ![r].pc = pc, ![r].guard = guard,
                                                    ![r].inherit = inh]
        BY <3>2 DEF Admit
      <4> QED
        BY <1>0, <4>1 DEF Handler
    <3> QED
      BY <1>3, <3>1, <3>2
  <2>2. req[r].obj \in Objects /\ req[r].obj # None /\ req[r].obj <= made
    BY <1>3, BoundsAssumption DEF Admit, Reject, NextInLine, IInv, LockOK, FreshInv, Objects
  <2>3. \/ sess' = sess
        \/ \E t : sess' = [sess EXCEPT ![req[r].obj] = t]
    BY <1>3 DEF Admit, Reject
  <2>4. ASSUME NEW o \in Objects, o > made PROVE sess'[o] = sess[o]
    <3>1. o # req[r].obj
      BY <1>0, <2>2, <2>4 DEF Objects
    <3> QED
      BY <1>0, <2>3, <3>1
  <2> QED
    BY <1>3, <2>1, <2>4, FreshKept DEF Admit, Reject
<1>4. ASSUME NEW r \in Requests, Answer(r) \/ Issue(r) \/ Deliver(r) \/ Fail(r)
      PROVE  FreshInv'
  <2>1. req[r].pc \in Owning
    BY <1>4 DEF Answer, Issue, Deliver, Fail, Owning
  <2>2. PICK q : req' = [req EXCEPT ![r] = q] /\ q.obj \in {req[r].obj, None}
    <3>1. CASE Fail(r)
      <4>1. req' = [req EXCEPT ![r] = CutShort(req[r])]
        BY <3>1 DEF Fail
      <4>2. CutShort(req[r]).obj \in {req[r].obj, None}
        BY <1>0 DEF CutShort, Gone, Idle, Handler
      <4> QED
        BY <4>1, <4>2
    <3>2. ASSUME NEW pc, req' = [req EXCEPT ![r].pc = pc]
          PROVE  \E q : req' = [req EXCEPT ![r] = q] /\ q.obj \in {req[r].obj, None}
      <4>1. req' = [req EXCEPT ![r] = [req[r] EXCEPT !.pc = pc]]
        BY <3>2
      <4>2. [req[r] EXCEPT !.pc = pc].obj = req[r].obj
        BY <1>0 DEF Handler
      <4> QED
        BY <4>1, <4>2
    <3> QED
      BY <1>4, <3>1, <3>2 DEF Answer, Issue, Deliver
  <2>3. \E t : sess' = [sess EXCEPT ![req[r].obj] = t] \/ sess' = sess
    BY <1>4 DEF Answer, Issue, Deliver, Fail
  <2> QED
    BY <1>4, <2>1, <2>2, <2>3, FreshOwned DEF Answer, Issue, Deliver, Fail
<1>5. CASE Drop \/ Persist \/ UNCHANGED vars
  BY <1>5, FreshKept DEF Drop, Persist, vars
<1>6. CASE Restart
  <2>1. /\ made' = made + 1
        /\ store' = IF disk = None THEN None ELSE made'
        /\ req' = [r \in Requests |-> CutShort(req[r])]
        /\ sess' = [o \in Objects |-> IF o = store' THEN Loaded(disk) ELSE NewSession]
    BY <1>6 DEF Restart
  <2>2. ASSUME NEW o \in Objects, o > made' PROVE sess'[o] = NewSession
    <3>1. o # store'
      BY <1>0, <2>1, <2>2, BoundsAssumption DEF Objects
    <3> QED
      BY <2>1, <3>1
  <2>3. ASSUME NEW i \in Requests, req'[i].obj # None PROVE req'[i].obj <= made'
    <3>1. req'[i].obj \in {req[i].obj, None}
      BY <1>0, <2>1 DEF CutShort, Gone, Idle, Handler
    <3>2. req[i].obj \in Objects /\ req[i].obj <= made
      BY <1>0, <2>3, <3>1 DEF FreshInv, Handler
    <3> QED
      BY <1>0, <2>1, <2>3, <3>1, <3>2 DEF Objects
  <2>4. store' # None => store' <= made'
    BY <1>0, <2>1
  <2> QED
    BY <2>2, <2>3, <2>4 DEF FreshInv
<1> QED
  BY <1>1, <1>2, <1>3, <1>4, <1>5, <1>6 DEF Next

-----------------------------------------------------------------------------
(* The steps, as the abstract history sees them.                           *)

(* Only the latest responses, the links, the saved session and what is     *)
(* recorded are seen.                                                      *)
LEMMA UnseenStep ==
  ASSUME TypeOK, disk' = disk, RecordedIds' = RecordedIds, store' = store,
         \A o \in Objects : sess'[o].latest = sess[o].latest /\ sess'[o].children = sess[o].children
  PROVE  UNCHANGED History!hvars
<1>1. store # None => store \in Objects
  BY DEF TypeOK
<1> QED
  BY <1>1 DEF History!hvars

LEMMA RecordingStep ==
  ASSUME IInv, NEW r \in Requests, req[r].pc \in Owning, r \notin RecordedIds,
         sess' = [sess EXCEPT ![req[r].obj] = Recorded(r)],
         RecordedIds' = RecordedIds \cup {r}, store' = store, disk' = disk
  PROVE  History!Next
<1> DEFINE o == req[r].obj
           p == req[r].prev
<1>1. /\ o \in Objects /\ Recorded(r).latest = r
      /\ p = None => Recorded(r).children = sess[o].children
      /\ p # None => /\ p = sess[o].latest
                     /\ Recorded(r).children = sess[o].children \cup {<<p, r>>}
  BY RecordedHead
<1>2. History!Fresh(r)
  BY DEF History!Fresh
<1>3. /\ sess'[o] = Recorded(r)
      /\ \A n \in Objects : n # o => sess'[n] = sess[n]
      /\ store # None => store \in Objects
  BY <1>1 DEF IInv, TypeOK
<1>4. o # None
  BY <1>1, BoundsAssumption DEF Objects
<1>5. CASE store # o
  BY <1>2, <1>3, <1>5 DEF History!Next, History!Elsewhere
<1>6. CASE store = o /\ p = None
  BY <1>1, <1>2, <1>3, <1>4, <1>6 DEF History!Next, History!Root
<1>7. CASE store = o /\ p # None
  BY <1>1, <1>2, <1>3, <1>4, <1>7 DEF History!Next, History!Extend
<1> QED
  BY <1>5, <1>6, <1>7

(* Handlers outside the lock, and the reservation a turn starts with.      *)
LEMMA OutsideSteps ==
  ASSUME IInv, FreshInv, NEW r \in Requests,
         \/ \E prev \in seen \cup {None} : Arrive(r, prev)
         \/ RejectUnknown(r) \/ CancelWait(r)
         \/ \E x, inherit \in BOOLEAN, own \in Modes :
              Admit(r, x, own, inherit) \/ Reject(r, x, own, inherit)
  PROVE  UNCHANGED History!hvars
<1>0. TypeOK /\ made \in Nat /\ req \in [Requests -> Handler] /\ sess \in [Objects -> Session]
  BY BoundsAssumption DEF IInv, TypeOK
<1>1. r \notin RecordedIds /\ disk' = disk
  BY DEF Arrive, RejectUnknown, CancelWait, Admit, Reject, NextInLine, RecordedIds
<1>2. PICK q : req' = [req EXCEPT ![r] = q] /\ q.pc \in {"waiting", "refused", "running", "streaming"}
  <2>0. Gone("refused").pc = "refused"
    BY DEF Gone, Idle
  <2>1. CASE RejectUnknown(r) \/ CancelWait(r)
    BY <2>0, <2>1 DEF RejectUnknown, CancelWait
  <2>2. CASE \E prev \in seen \cup {None} : Arrive(r, prev)
    <3>1. PICK prev, o : req' = [req EXCEPT ![r].pc = "waiting", ![r].prev = prev, ![r].obj = o]
      BY <2>2 DEF Arrive
    <3>2. req' = [req EXCEPT ![r] = [req[r] EXCEPT !.pc = "waiting", !.prev = prev, !.obj = o]]
      BY <1>0, <3>1
    <3>3. [req[r] EXCEPT !.pc = "waiting", !.prev = prev, !.obj = o].pc = "waiting"
      BY <1>0 DEF Handler
    <3> QED
      BY <3>2, <3>3
  <2>3. CASE \E x, inherit \in BOOLEAN, own \in Modes : Reject(r, x, own, inherit)
    BY <2>0, <2>3 DEF Reject
  <2>4. CASE \E x, inherit \in BOOLEAN, own \in Modes : Admit(r, x, own, inherit)
    <3>0. PICK x \in BOOLEAN, inherit \in BOOLEAN, own \in Modes : Admit(r, x, own, inherit)
      BY <2>4
    <3> DEFINE pc == IF x THEN "streaming" ELSE "running"
               guard == ReadOnlyGuard(r, own, inherit)
               inh == req[r].prev # None /\ inherit
    <3>1. req' = [req EXCEPT ![r].pc = pc, ![r].guard = guard, ![r].inherit = inh]
      BY <3>0 DEF Admit
    <3> HIDE DEF guard, inh
    <3>2. req' = [req EXCEPT ![r] = [req[r] EXCEPT !.pc = pc, !.guard = guard, !.inherit = inh]]
      BY <1>0, <3>1
    <3>3. [req[r] EXCEPT !.pc = pc, !.guard = guard, !.inherit = inh].pc = pc
      BY <1>0 DEF Handler
    <3> QED
      BY <3>2, <3>3
  <2> QED
    BY <2>1, <2>2, <2>3, <2>4
<1>3. RecordedIds' = RecordedIds
  <2>1. RecordedIds' = IF q.pc = "answered" \/ (q.pc \in {"issued", "cut"} /\ q.prev = None)
                       THEN RecordedIds \cup {r} ELSE RecordedIds \ {r}
    BY ONLY <1>0, <1>2, RecordedAfter
  <2>2. ~ (q.pc = "answered" \/ (q.pc \in {"issued", "cut"} /\ q.prev = None))
    BY ONLY <1>2
  <2> QED
    BY ONLY <1>1, <2>1, <2>2
<1>4. CASE store' = store
  <2>1. ASSUME NEW o \in Objects
        PROVE  sess'[o].latest = sess[o].latest /\ sess'[o].children = sess[o].children
    <3>1. \/ sess' = sess
          \/ sess' = [sess EXCEPT ![req[r].obj] = BeginContinuation(@, req[r].prev, r)]
      BY DEF Arrive, RejectUnknown, CancelWait, Admit, Reject
    <3>2. \/ sess'[o] = sess[o]
          \/ sess'[o] = BeginContinuation(sess[o], req[r].prev, r)
      BY <1>0, <3>1
    <3> QED
      BY <1>0, <3>2 DEF BeginContinuation, Session
  <2> QED
    BY <1>0, <1>1, <1>3, <1>4, <2>1, UnseenStep
<1>5. CASE store' # store
  <2>1. store = None /\ store' = made + 1 /\ made < MaxObjects /\ sess' = sess
    BY <1>5 DEF Arrive, RejectUnknown, CancelWait, Admit, Reject
  <2>2. made + 1 \in Objects /\ made + 1 > made
    BY <1>0, <2>1, BoundsAssumption DEF Objects
  <2>3. sess'[store'] = NewSession /\ store' # None
    BY <2>1, <2>2, BoundsAssumption DEF FreshInv, Objects
  <2>4. sess'[store'].latest = None /\ sess'[store'].children = {}
    BY <2>3 DEF NewSession
  <2> QED
    BY <1>1, <1>3, <2>1, <2>3, <2>4 DEF History!hvars
<1> QED
  BY <1>4, <1>5

(* A turn that owns the lock records its response, or is not seen.         *)
LEMMA OwnedSteps ==
  ASSUME IInv, NEW r \in Requests, Answer(r) \/ Issue(r) \/ Deliver(r) \/ Fail(r)
  PROVE  [History!Next]_History!hvars
<1>0. TypeOK /\ req \in [Requests -> Handler] /\ sess \in [Objects -> Session]
      /\ req[r].pc \in Owning
  BY DEF IInv, TypeOK, Answer, Issue, Deliver, Fail, Owning
<1>1. store' = store /\ disk' = disk
  BY DEF Answer, Issue, Deliver, Fail
<1>2. CASE /\ sess' = [sess EXCEPT ![req[r].obj] = Recorded(r)]
           /\ RecordedIds' = RecordedIds \cup {r} /\ r \notin RecordedIds
  BY <1>0, <1>1, <1>2, RecordingStep
<1>3. CASE sess' = sess /\ RecordedIds' = RecordedIds
  BY <1>0, <1>1, <1>3, UnseenStep
<1>4. ASSUME NEW pc, req' = [req EXCEPT ![r].pc = pc]
      PROVE  RecordedIds' = IF pc = "answered" \/ (pc \in {"issued", "cut"} /\ req[r].prev = None)
                            THEN RecordedIds \cup {r} ELSE RecordedIds \ {r}
  <2> DEFINE q == [req[r] EXCEPT !.pc = pc]
  <2>1. req' = [req EXCEPT ![r] = q]
    BY <1>0, <1>4
  <2>2. q.pc = pc /\ q.prev = req[r].prev
    BY <1>0 DEF Handler
  <2> HIDE DEF q
  <2> QED
    BY <1>0, <2>1, <2>2, RecordedAfter
<1>5. CASE Answer(r)
  <2>1. r \notin RecordedIds
    BY <1>5 DEF Answer, RecordedIds
  <2> QED
    BY <1>2, <1>4, <1>5, <2>1 DEF Answer
<1>6. CASE Issue(r)
  <2>0. r \notin RecordedIds
    BY <1>6 DEF Issue, RecordedIds
  <2>1. req' = [req EXCEPT ![r].pc = "issued"]
    BY <1>6 DEF Issue
  <2>2. RecordedIds' = IF req[r].prev = None THEN RecordedIds \cup {r} ELSE RecordedIds \ {r}
    <3>1. RecordedIds' = IF "issued" = "answered"
                            \/ ("issued" \in {"issued", "cut"} /\ req[r].prev = None)
                         THEN RecordedIds \cup {r} ELSE RecordedIds \ {r}
      BY <1>4, <2>1, Zenon
    <3> QED
      BY <3>1
  <2> QED
    <3>1. CASE req[r].prev = None
      BY <1>2, <1>6, <2>0, <2>2, <3>1 DEF Issue
    <3>2. CASE req[r].prev # None
      <4>1. sess' = sess
        BY <1>6, <3>2 DEF Issue
      <4>2. RecordedIds' = RecordedIds
        BY <2>0, <2>2, <3>2
      <4> QED
        BY <1>3, <4>1, <4>2
    <3> QED
      BY <3>1, <3>2
<1>7. CASE Deliver(r)
  <2>1. r \in RecordedIds <=> req[r].prev = None
    BY <1>7 DEF Deliver, RecordedIds
  <2>2. RecordedIds' = RecordedIds \cup {r}
    BY <1>4, <1>7 DEF Deliver
  <2> QED
    BY <1>2, <1>3, <1>7, <2>1, <2>2 DEF Deliver
<1>8. CASE Fail(r)
  <2>1. RecordedIds' = RecordedIds
    <3>1. req' = [req EXCEPT ![r] = CutShort(req[r])]
      BY <1>8 DEF Fail
    <3>2. CASE req[r].pc = "issued" /\ req[r].prev = None
      <4>1. CutShort(req[r]).pc = "cut" /\ CutShort(req[r]).prev = None /\ r \in RecordedIds
        BY <1>0, <3>2 DEF CutShort, RecordedIds, Handler
      <4> QED
        BY <1>0, <3>1, <4>1, RecordedAfter
    <3>3. CASE ~ (req[r].pc = "issued" /\ req[r].prev = None)
      <4>1. CutShort(req[r]).pc = "failed"
        BY <1>0, <3>3 DEF CutShort, Gone, Idle, Owning
      <4>2. r \notin RecordedIds
        BY <1>0, <3>3 DEF Owning, RecordedIds
      <4>3. RecordedIds' = RecordedIds \ {r}
        <5> DEFINE q == CutShort(req[r])
        <5>1. req' = [req EXCEPT ![r] = q] /\ q.pc = "failed"
          BY <3>1, <4>1
        <5> HIDE DEF q
        <5> QED
          BY <1>0, <5>1, RecordedAfter
      <4> QED
        BY <4>2, <4>3
    <3> QED
      BY <3>2, <3>3
  <2>2. ASSUME NEW o \in Objects
        PROVE  sess'[o].latest = sess[o].latest /\ sess'[o].children = sess[o].children
    <3>1. \/ sess'[o] = sess[o]
          \/ sess'[o] = ReleaseContinuation(sess[o], req[r].prev, r)
      BY <1>0, <1>8 DEF Fail
    <3> QED
      BY <1>0, <3>1 DEF ReleaseContinuation, Session
  <2> QED
    BY <1>0, <1>1, <2>1, <2>2, UnseenStep
<1> QED
  BY <1>5, <1>6, <1>7, <1>8

(* A restart returns to what was saved.                                    *)
LEMMA RestartRecovers ==
  ASSUME IInv, Restart
  PROVE  History!Recover
<1>0. TypeOK /\ made \in Nat
  BY BoundsAssumption DEF IInv, TypeOK
<1>1. RecordedIds' = RecordedIds
  <2>1. ASSUME NEW r \in Requests PROVE r \in RecordedIds' <=> r \in RecordedIds
    <3>1. req'[r] = CutShort(req[r]) /\ req[r] \in Handler
      BY <1>0 DEF Restart, TypeOK
    <3> QED
      BY <3>1 DEF CutShort, Gone, Idle, Owning, RecordedIds, Handler
  <2> QED
    BY <2>1 DEF RecordedIds
<1>2. disk' = disk
  BY DEF Restart
<1>3. CASE disk = None
  BY <1>1, <1>2, <1>3 DEF Restart, History!Recover
<1>4. CASE disk # None
  <2>1. store' = made + 1 /\ made + 1 \in Objects
    BY <1>0, <1>4, BoundsAssumption DEF Restart, Objects
  <2>2. store' # None /\ sess'[store'] = Loaded(disk)
    BY <2>1, BoundsAssumption DEF Restart, Objects
  <2> QED
    BY <1>1, <1>2, <1>4, <2>2 DEF History!Recover
<1> QED
  BY <1>3, <1>4

LEMMA StepImplements ==
  ASSUME IInv, FreshInv, [Next]_vars
  PROVE  [History!Next]_History!hvars
<1>0. TypeOK
  BY DEF IInv
<1>1. CASE \E r \in Requests :
             \/ \E prev \in seen \cup {None} : Arrive(r, prev)
             \/ RejectUnknown(r) \/ CancelWait(r)
             \/ \E x, inherit \in BOOLEAN, own \in Modes :
                  Admit(r, x, own, inherit) \/ Reject(r, x, own, inherit)
  BY <1>1, OutsideSteps
<1>2. CASE \E r \in Requests : Answer(r) \/ Issue(r) \/ Deliver(r) \/ Fail(r)
  BY <1>2, OwnedSteps
<1>3. CASE Drop
  <2>1. RecordedIds' = RecordedIds
    BY <1>3 DEF Drop, RecordedIds
  <2> QED
    BY <1>3, <2>1 DEF Drop, History!Next, History!Forget
<1>4. CASE Persist
  <2>1. RecordedIds' = RecordedIds
    BY <1>4 DEF Persist, RecordedIds
  <2>2. CASE store = None
    BY <1>4, <2>1, <2>2 DEF Persist, History!Next, History!Save
  <2>3. CASE store # None
    <3>1. sess[store] \in Session /\ SessionOK(sess[store], RecordedIds, req)
      BY <1>0, <2>3 DEF TypeOK, IInv, SessionsOK
    <3>2. /\ Loaded(sess[store]).latest = sess[store].latest
          /\ Loaded(sess[store]).children = sess[store].children
      BY <3>1, LoadedSession DEF Session
    <3>3. disk' = sess[store] /\ store' = store /\ sess' = sess
      BY <1>4, <2>3 DEF Persist
    <3>4. disk' # None
      BY <3>1, <3>3, SessionAssumption
    <3> QED
      BY <2>1, <2>3, <3>2, <3>3, <3>4 DEF History!Next, History!Save
  <2> QED
    BY <2>2, <2>3
<1>5. CASE Restart
  BY <1>5, RestartRecovers DEF History!Next
<1>6. CASE UNCHANGED vars
  BY <1>6 DEF vars, RecordedIds, History!hvars
<1> QED
  BY <1>1, <1>2, <1>3, <1>4, <1>5, <1>6 DEF Next

(* The continuations implement the linear history, for any requests, any   *)
(* number of session objects and any cap.                                  *)
THEOREM HistoryImplemented == Spec => ImplementsHistory
<1>1. Init => History!Init
  <2> SUFFICES ASSUME Init PROVE History!Init
    OBVIOUS
  <2>1. RecordedIds = {}
    BY DEF Init, Idle, RecordedIds
  <2> QED
    BY <2>1 DEF Init, History!Init
<1>2. Spec => []FreshInv
  BY FreshInit, FreshNext, Invariance, PTL DEF Spec
<1> QED
  BY <1>1, <1>2, StepImplements, Invariance, PTL DEF Spec, ImplementsHistory, History!Spec

-----------------------------------------------------------------------------
(* Commit and delivery.                                                    *)

(* A continuation that owns the lock commits, or stays, or is not recorded. *)
LEMMA OwnedStep ==
  ASSUME IInv, [Next]_vars, NEW r \in Requests, req[r].pc \in Owning, req[r].prev # None
  PROVE  \/ Answer(r) \/ Deliver(r)
         \/ r \notin RecordedIds' /\ req'[r].pc # "answered"
<1>0. req \in [Requests -> Handler] /\ req[r] \in Handler
  BY DEF IInv, TypeOK
<1>1. SUFFICES ASSUME ~ Answer(r), ~ Deliver(r)
               PROVE  req'[r].pc # "answered" /\ (req'[r].pc \in {"issued", "cut"} => req'[r].prev # None)
  BY DEF RecordedIds
<1>2. CASE req'[r] = req[r]
  BY <1>2 DEF Owning
<1>3. CASE req'[r] = CutShort(req[r])
  <2>1. CutShort(req[r]).pc = "failed"
    BY <1>0 DEF CutShort, Gone, Idle, Owning
  <2> QED
    BY <1>3, <2>1
<1>4. CASE req' = [req EXCEPT ![r].pc = "issued"]
  <2>1. req'[r].pc = "issued" /\ req'[r].prev = req[r].prev
    BY <1>0, <1>4 DEF Handler
  <2> QED
    BY <2>1
<1>5. ASSUME NEW i \in Requests,
             \/ \E prev \in seen \cup {None} : Arrive(i, prev)
             \/ RejectUnknown(i) \/ CancelWait(i)
             \/ \E x, inherit \in BOOLEAN, own \in Modes :
                  Admit(i, x, own, inherit) \/ Reject(i, x, own, inherit)
      PROVE  req'[r] = req[r]
  <2>1. i # r
    BY <1>5 DEF Arrive, RejectUnknown, CancelWait, Admit, Reject, NextInLine, Owning
  <2> QED
    BY <1>0, <1>5, <2>1 DEF Arrive, RejectUnknown, CancelWait, Admit, Reject
<1>6. ASSUME NEW i \in Requests, Answer(i) \/ Issue(i) \/ Deliver(i) \/ Fail(i), i # r
      PROVE  req'[r] = req[r]
  BY <1>0, <1>6 DEF Answer, Issue, Deliver, Fail
<1>7. Issue(r) => req' = [req EXCEPT ![r].pc = "issued"]
  BY DEF Issue
<1>8. Fail(r) \/ Restart => req'[r] = CutShort(req[r])
  BY <1>0 DEF Fail, Restart
<1>9. Drop \/ Persist \/ UNCHANGED vars => req'[r] = req[r]
  BY DEF Drop, Persist, vars
<1>10. ASSUME NEW i \in Requests, Answer(i) \/ Issue(i) \/ Deliver(i) \/ Fail(i)
       PROVE  \/ req'[r] = req[r] \/ req'[r] = CutShort(req[r])
              \/ req' = [req EXCEPT ![r].pc = "issued"]
  BY <1>1, <1>6, <1>7, <1>8, <1>10
<1> QED
  BY <1>2, <1>3, <1>4, <1>5, <1>8, <1>9, <1>10 DEF Next

(* For any requests, session objects and caps: what a client received      *)
(* completely is committed in that step, and what was cut short never is.  *)
THEOREM CommittedAsDelivered == Spec => CommitIffDelivered
<1>1. ASSUME IInv, IInv', [Next]_vars, NEW r \in Requests, req[r].prev # None,
             req[r].pc \in Owning
      PROVE  LET link == <<req[r].prev, r>> IN
             /\ req'[r].pc = "answered" => link \in sess'[req[r].obj].children
             /\ req'[r].pc # "answered" => \A o \in Objects : link \notin sess'[o].children
  <2> DEFINE link == <<req[r].prev, r>>
  <2>1. CASE Answer(r) \/ Deliver(r)
    <3>1. /\ req[r].obj \in Objects
          /\ link \in Recorded(r).children
      BY <1>1, RecordedHead
    <3>2. sess' = [sess EXCEPT ![req[r].obj] = Recorded(r)]
      BY <1>1, <2>1 DEF Answer, Deliver
    <3>3. sess'[req[r].obj] = Recorded(r)
      BY <1>1, <3>1, <3>2 DEF IInv, TypeOK
    <3>4. req'[r].pc = "answered"
      BY <1>1, <2>1 DEF Answer, Deliver, IInv, TypeOK, Handler
    <3> QED
      BY <3>1, <3>3, <3>4
  <2>2. CASE r \notin RecordedIds' /\ req'[r].pc # "answered"
    <3>1. \A o \in Objects : sess'[o].children \subseteq RecordedIds' \X RecordedIds'
      BY <1>1 DEF IInv, SessionsOK, SessionOK
    <3> QED
      BY <2>2, <3>1
  <2> QED
    BY <1>1, <2>1, <2>2, OwnedStep
<1>2. IInv /\ IInv' /\ [Next]_vars =>
        [\A r \in Requests :
           req[r].prev # None /\ req[r].pc \in Owning =>
             LET link == <<req[r].prev, r>> IN
             /\ req'[r].pc = "answered" => link \in sess'[req[r].obj].children
             /\ req'[r].pc # "answered" =>
                  \A o \in Objects : link \notin sess'[o].children]_vars
  BY <1>1
<1> QED
  BY <1>2, Invariance, PTL DEF Spec, CommitIffDelivered

=============================================================================
