------------------------------ MODULE HistoryIndex ------------------------------
(***************************************************************************)
(* How a conversation that the client does not name finds its session      *)
(* again: HistoryDigestIndex (history_index.py) and _auto_session,         *)
(* record_auto_session_response (session_helpers.py).                      *)
(*                                                                         *)
(* A digest stands for the history it is made of.  All conversations ask   *)
(* the same questions, from a templated opener on, and differ only by      *)
(* what was answered; a client resends all it has seen.                    *)
(***************************************************************************)
EXTENDS Common, Lists, Integers, Sequences, SequencesExt, FiniteSets

CONSTANTS Talks, Replies,
          MaxEntries,  \* _MAX_ENTRIES
          MaxTurns,    \* bound: questions of one conversation
          MaxKeys      \* bound: sessions ever begun

\* A part of an answer is not an answer; keys are told from none.
ASSUME IndexAssumption ==
  /\ MaxEntries \in Nat \ {0} /\ MaxKeys \in Nat
  /\ None \notin 1..MaxKeys /\ "part" \notin Replies

MaxOwners == 2

VARIABLES
  index,   \* <<[history, owners]>>, least recently used first
  live,    \* keys of the sessions in the store
  posted,  \* per key: the conversations that were sent to its thread
  keys,    \* sessions begun so far
  talks,   \* each client's messages, and its turn in flight
  forgot   \* something that was seen or sent is not in the index any more

indexVars == <<index, live, posted, keys, talks, forgot>>

-----------------------------------------------------------------------------
(* The index *)

\* normalize_history: system messages do not count, they change every turn.
Pairs(messages) ==
  Selected(messages, {i \in DOMAIN messages : messages[i].role \in {"user", "assistant"}})

Located(history) == {i \in DOMAIN index : index[i].history = history}

Heads(pairs, longest) == {SubSeq(pairs, 1, n) : n \in 1..longest}

\* Mutant: the last answer is left out of the search.
Match_Shorter(pairs) ==
  LET known == {h \in Heads(pairs, Len(pairs) - 2) : Located(h) # {}} IN
  IF known = {} THEN <<>> ELSE CHOOSE h \in known : \A g \in known : Len(g) <= Len(h)

\* match: the longest strict prefix that is known.
Match(pairs) ==
  LET known == {h \in Heads(pairs, Len(pairs) - 1) : Located(h) # {}} IN
  IF known = {} THEN <<>> ELSE CHOOSE h \in known : \A g \in known : Len(g) <= Len(h)

OwnersOf(history) ==
  UNION {index[i].owners : i \in Located(history)}

\* move_to_end
Touched(idx, history) ==
  LET at == {i \in DOMAIN idx : idx[i].history = history} IN
  Selected(idx, DOMAIN idx \ at) \o Selected(idx, at)

\* Mutant: the newest owner takes a history over.
Owned_Newest(owners, key) == {key}

Owned(owners, key) == IF Cardinality(owners) < MaxOwners THEN owners \cup {key} ELSE owners

\* record: the entry is the newest one, and the oldest ones go.
Record(idx, history, key) ==
  LET at == {i \in DOMAIN idx : idx[i].history = history}
      owners == UNION {idx[i].owners : i \in at}
      all == Append(Selected(idx, DOMAIN idx \ at),
                    [history |-> history, owners |-> Owned(owners, key)]) IN
  SubSeq(all, IF Len(all) > MaxEntries THEN Len(all) - MaxEntries + 1 ELSE 1, Len(all))

RecordedUnder(history, key, looked) ==
  /\ index' = Record(looked, history, key)
  /\ forgot' = (forgot \/ \E e \in Range(index) : \A f \in Range(index') : f.history # e.history)

-----------------------------------------------------------------------------
(* Clients and requests *)

Talk == [pc |-> "idle", messages |-> <<>>, key |-> None, kept |-> None]

IndexInit ==
  /\ index = <<>> /\ live = {} /\ keys = 0
  /\ posted = [k \in 1..MaxKeys |-> {}]
  /\ talks = [c \in Talks |-> Talk]
  /\ forgot = FALSE

Question(messages) ==
  [role |-> "user", text |-> 1 + Cardinality({i \in DOMAIN messages : messages[i].role = "user"})]

\* The client's next question, or the last one again if it got no answer.
Asked(messages) ==
  IF messages # <<>> /\ Last(messages).role = "user" THEN messages
  ELSE Append(messages, Question(messages))

\* _auto_session: an exact match, or a fresh session under a key of its own.
Say(c) ==
  LET messages == Asked(talks[c].messages)
      pairs == Pairs(<<[role |-> "system", text |-> keys]>> \o messages)
      found == IF \E m \in Range(messages) : m.role = "assistant" THEN Match(pairs) ELSE <<>>
      looked == IF found = <<>> THEN index ELSE Touched(index, found)
      joins == Cardinality(OwnersOf(found)) = 1 /\ OwnersOf(found) \subseteq live
      key == IF joins THEN CHOOSE k \in OwnersOf(found) : TRUE ELSE keys + 1 IN
  /\ talks[c].pc = "idle" /\ Question(messages).text <= MaxTurns + 1
  /\ joins \/ keys < MaxKeys
  /\ keys' = IF joins THEN keys ELSE keys + 1
  /\ live' = live \cup {key}
  /\ posted' = [posted EXCEPT ![key] = @ \cup {c}]
  /\ talks' = [talks EXCEPT ![c] = [@ EXCEPT !.pc = "running", !.messages = messages, !.key = key]]
  /\ RecordedUnder(pairs, key, looked)

\* record_auto_session_response, before the answer is complete; nothing is
\* recorded for a session that is not in the store any more.
Answered(c, a) ==
  LET t == talks[c]
      messages == Append(t.messages, [role |-> "assistant", text |-> a])
      known == t.key \in live IN
  /\ t.pc = "running"
  /\ talks' = [talks EXCEPT ![c] = [@ EXCEPT !.pc = "idle", !.messages = messages,
                                             !.kept = IF known THEN t.key ELSE None]]
  /\ IF known THEN RecordedUnder(Pairs(messages), t.key, index)
     ELSE forgot' = TRUE /\ UNCHANGED index
  /\ UNCHANGED <<live, posted, keys>>

\* The turn breaks; the client keeps a part of the answer, or nothing.
Unanswered(c) ==
  /\ talks[c].pc = "running"
  /\ \E part \in {<<>>, <<[role |-> "assistant", text |-> "part"]>>} :
       talks' = [talks EXCEPT ![c] = [@ EXCEPT !.pc = "idle", !.kept = None,
                                               !.messages = talks[c].messages \o part]]
  /\ UNCHANGED <<index, live, posted, keys, forgot>>

\* A session is evicted, pruned or deleted.
Dropped(k) ==
  /\ k \in live
  /\ live' = live \ {k}
  /\ UNCHANGED <<index, posted, keys, talks, forgot>>

\* The process starts again: sessions are on disk, the index is not.
RestartsEmpty ==
  /\ index # <<>>
  /\ index' = <<>> /\ forgot' = TRUE
  /\ talks' = [c \in Talks |-> [talks[c] EXCEPT !.pc = "idle", !.kept =
                                  IF talks[c].pc = "running" THEN None ELSE @]]
  /\ UNCHANGED <<live, posted, keys>>

IndexNext ==
  \/ \E c \in Talks :
       Say(c) \/ Unanswered(c) \/ \E a \in Replies : Answered(c, a)
  \/ \E k \in 1..keys : Dropped(k)
  \/ RestartsEmpty

IndexSpec == IndexInit /\ [][IndexNext]_indexVars
-----------------------------------------------------------------------------
(* As long as the index remembers, no conversation continues on the thread *)
(* of another one, although both open with the same text and may have been *)
(* answered alike: "choosing either owner would leak context".             *)
JoinsOwn == forgot \/ \A k \in 1..MaxKeys : Cardinality(posted[k]) <= 1

(* A conversation that was answered in full finds its session back, unless *)
(* another one has the very same history or the session is gone.           *)
FindsOwn ==
  [][\A c \in Talks :
       /\ ~ forgot /\ talks[c].pc = "idle" /\ talks'[c].pc = "running"
       /\ talks[c].kept \in live
       /\ \A d \in Talks \ {c} : ~ IsPrefix(talks[c].messages, talks[d].messages)
       => talks'[c].key = talks[c].kept]_indexVars

(* "A continuation that misses the index starts a fresh upstream           *)
(* conversation": it never continues on another one's thread.              *)
NeverMerges == \A k \in 1..MaxKeys : Cardinality(posted[k]) <= 1
=============================================================================
