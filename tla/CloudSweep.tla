------------------------------ MODULE CloudSweep ------------------------------
(***************************************************************************)
(* Idle reclaim: the auto-clean loop (session_autoclean.py), the cleanup   *)
(* and delete pages (routes_sessions.py), and the sweep of an account's    *)
(* cloud conversations (m365_cloud_client.py), beside the turns that       *)
(* create, use and renew those conversations.                              *)
(*                                                                         *)
(* Whoever cleans reads the session store once and then awaits one         *)
(* upstream call after another; requests run in between.  A conversation   *)
(* ("thread") is a number; a session that is renewed gets a fresh one.     *)
(***************************************************************************)
EXTENDS Common, Lists, Integers, Sequences, Functions, FiniteSets

CONSTANTS Tenants,    \* API keys, each with one conversation of its own
          Cleaners,   \* what may clean at the same time
          MaxThreads  \* bound: conversations ever begun

VARIABLES
  open,     \* the session store: <<[tenant, thread, idle]>>, newest used last
  cloud,    \* the account's conversations upstream, newest first
  stale,    \* of these, the ones not updated for the cleanup threshold
  gone,     \* conversations deleted upstream, and by which kind of cleaning
  minted,  \* conversations begun so far
  running,  \* the conversation of each tenant's turn in flight, or None
  cleaners  \* each cleaner's progress

sweepVars == <<open, cloud, stale, gone, minted, running, cleaners>>

-----------------------------------------------------------------------------
(* Sessions and their turns *)

\* aged, cap: the rules by age and by count (0: none); spared: the
\* conversations never touched; kept: those that earlier rounds let live.
NoSweep == [kind |-> "none", pc |-> "idle", aged |-> FALSE, cap |-> 0, spared |-> {},
         kept |-> {}, pending |-> <<>>, moved |-> FALSE, thread |-> None, tenant |-> None]

SweepInit ==
  /\ open = <<>> /\ cloud = <<>> /\ stale = {} /\ gone = {} /\ minted = 0
  /\ running = [t \in Tenants |-> None]
  /\ cleaners = [w \in Cleaners |-> NoSweep]

SessionOf(t) == {s \in Range(open) : s.tenant = t}
ThreadsOf(ss) == {s.thread : s \in ss}
Without(seq, drops) == Selected(seq, {i \in DOMAIN seq : seq[i] \notin drops})

\* PersistentSessionStore.get: the tenant's session, or one with a new thread
UseSession(t) ==
  LET found == SessionOf(t)
      s == IF found # {} THEN CHOOSE x \in found : TRUE
           ELSE [tenant |-> t, thread |-> minted + 1, idle |-> FALSE] IN
  /\ running[t] = None /\ (found = {} => minted < MaxThreads)
  /\ open' = Append(Without(open, found), [s EXCEPT !.idle = FALSE])
  /\ running' = [running EXCEPT ![t] = s.thread]
  /\ minted' = IF found = {} THEN minted + 1 ELSE minted
  /\ UNCHANGED <<cloud, stale, gone, cleaners>>

\* The prompt reaches upstream: the thread is the newest one there.  A turn
\* whose thread is gone fails.
PostPrompt(t) ==
  LET thread == running[t] IN
  /\ thread # None
  /\ running' = [running EXCEPT ![t] = None]
  /\ IF thread \in {g.thread : g \in gone} THEN UNCHANGED <<cloud, stale>>
     ELSE /\ cloud' = <<thread>> \o Without(cloud, {thread})
          /\ stale' = stale \ {thread}
  /\ UNCHANGED <<open, gone, minted, cleaners>>

\* reset_conversation: a refused continuation moves the session to a new one.
RenewThread(t) ==
  /\ running[t] # None /\ minted < MaxThreads
  /\ minted' = minted + 1
  /\ open' = [i \in DOMAIN open |-> IF open[i].thread = running[t]
                                    THEN [open[i] EXCEPT !.thread = minted + 1] ELSE open[i]]
  /\ running' = [running EXCEPT ![t] = minted + 1]
  /\ UNCHANGED <<cloud, stale, gone, cleaners>>

\* Hours pass: the thresholds are longer than any request or sweep.
HoursPass ==
  /\ \A t \in Tenants : running[t] = None
  /\ \A w \in Cleaners : cleaners[w].pc = "idle"
  /\ \E sessions, conversations \in BOOLEAN :
       /\ open' = IF sessions THEN [i \in DOMAIN open |-> [open[i] EXCEPT !.idle = TRUE]] ELSE open
       /\ stale' = IF conversations THEN Range(cloud) ELSE stale
  /\ UNCHANGED <<cloud, gone, minted, running, cleaners>>

-----------------------------------------------------------------------------
(* Cleaning *)

\* PersistentSessionStore.prune: by idle age and by count, newest kept.
Pruned(scope, aged, cap) ==
  LET scoped == {i \in DOMAIN open : open[i].tenant \in scope}
      Newer(i) == {j \in scoped : j > i} IN
  {open[i] : i \in {i \in scoped : (aged /\ open[i].idle)
                                   \/ (cap > 0 /\ Cardinality(Newer(i)) >= cap)}}

Begin(w, rec) == cleaners' = [cleaners EXCEPT ![w] = rec]

\* Mutant: only what the sweep keeps itself is spared.
Spared_None(sessions) == {}

\* The conversations that the surviving sessions point at.
Spared(sessions) == ThreadsOf(sessions)

\* auto_cleanup_once: every tenant by age, then the cloud.
BeginAuto(w, sessionsAge) ==
  LET drops == IF sessionsAge THEN Pruned(Tenants, TRUE, 0) ELSE {} IN
  /\ cleaners[w].pc = "idle"
  /\ open' = Without(open, drops)
  /\ Begin(w, [NoSweep EXCEPT !.kind = "auto", !.pc = "list", !.aged = TRUE,
                           !.spared = Spared(Range(open'))])
  /\ UNCHANGED <<cloud, stale, gone, minted, running>>

\* POST /admin/sessions/cleanup: all tenants or one, by age and count, and
\* then the whole account.
BeginAdmin(w, scope, aged, cap) ==
  /\ cleaners[w].pc = "idle"
  /\ open' = Without(open, Pruned(scope, aged, cap))
  /\ Begin(w, [NoSweep EXCEPT !.kind = "admin", !.pc = "list", !.aged = aged, !.cap = cap,
                           !.spared = Spared({s \in Range(open') : s.tenant \in scope})])
  /\ UNCHANGED <<cloud, stale, gone, minted, running>>

\* POST /user/sessions/cleanup: only the conversations of the sessions it
\* dropped.
BeginUser(w, t, aged, cap) ==
  LET drops == Pruned({t}, aged, cap) IN
  /\ cleaners[w].pc = "idle" /\ drops # {}
  /\ open' = Without(open, drops)
  /\ Begin(w, [NoSweep EXCEPT !.kind = "user", !.pc = "delete",
                           !.pending = LET doomed == Without(open, Range(open) \ drops) IN
                             [i \in DOMAIN doomed |-> [thread |-> doomed[i].thread, old |-> TRUE]]])
  /\ UNCHANGED <<cloud, stale, gone, minted, running>>

\* POST /admin/sessions/delete, /user/sessions/delete: one session, or (the
\* admin) a cloud row that belongs to none.
BeginDelete(w, t) ==
  /\ cleaners[w].pc = "idle"
  /\ \/ \E s \in SessionOf(t) :
          Begin(w, [NoSweep EXCEPT !.kind = "delete", !.pc = "one", !.thread = s.thread, !.tenant = t])
     \/ \E thread \in Range(cloud) \ ThreadsOf(Range(open)) :
          Begin(w, [NoSweep EXCEPT !.kind = "delete", !.pc = "one", !.thread = thread])
  /\ UNCHANGED <<open, cloud, stale, gone, minted, running>>

\* What upstream does with a deletion: it may also fail, or be carried out
\* with its answer lost.
Upstream(w, thread, deleted) ==
  IF deleted /\ thread \in Range(cloud)
  THEN /\ cloud' = Without(cloud, {thread})
       /\ stale' = stale \ {thread}
       /\ gone' = gone \cup {[thread |-> thread, kind |-> cleaners[w].kind]}
  ELSE UNCHANGED <<cloud, stale, gone>>

\* _delete_one awaits the cloud's answer, ...
DeleteUpstream(w) ==
  /\ cleaners[w].pc = "one"
  /\ \E deleted, told \in BOOLEAN :
       /\ told => deleted
       /\ Upstream(w, cleaners[w].thread, deleted)
       /\ Begin(w, [cleaners[w] EXCEPT !.pc = "unbind", !.moved = told])
  /\ UNCHANGED <<open, minted, running>>

\* ... and removes the session in any case, and whatever points at a
\* conversation that is known to be deleted.
Unnamed(c) ==
  {s \in Range(open) : s.tenant = c.tenant \/ (c.moved /\ s.thread = c.thread)}

Unbind(w) ==
  /\ cleaners[w].pc = "unbind"
  /\ open' = Without(open, Unnamed(cleaners[w]))
  /\ Begin(w, NoSweep)
  /\ UNCHANGED <<cloud, stale, gone, minted, running>>

\* cleanup_conversations lists the account once per round.  A failure ends
\* the account's sweep.
ListRound(w) ==
  LET c == cleaners[w]
      chats == Without(cloud, c.spared \cup c.kept) IN
  /\ c.pc = "list"
  /\ \/ /\ chats # <<>>
        /\ Begin(w, [c EXCEPT !.pc = "delete", !.moved = FALSE, !.pending =
             [i \in DOMAIN chats |-> [thread |-> chats[i], old |-> c.aged /\ chats[i] \in stale]]])
     \/ Begin(w, NoSweep)
  /\ UNCHANGED <<open, cloud, stale, gone, minted, running>>

\* One conversation of the round: kept (also when it cannot be deleted), or
\* deleted.  The user's cleanup gives up on the first failure.
SweepOne(w) ==
  LET c == cleaners[w]
      chat == Head(c.pending)
      over == c.cap > 0 /\ Cardinality(c.kept) >= c.cap
      keeps == [c EXCEPT !.pending = Tail(@), !.kept = @ \cup {chat.thread}] IN
  /\ c.pc = "delete" /\ c.pending # <<>>
  /\ \/ ~ chat.old /\ ~ over /\ Begin(w, keeps) /\ UNCHANGED <<cloud, stale, gone>>
     \/ /\ chat.old \/ over
        /\ \E deleted, told \in BOOLEAN :
             /\ told => deleted
             /\ Upstream(w, chat.thread, deleted)
             /\ Begin(w, IF told THEN [c EXCEPT !.pending = Tail(@), !.moved = TRUE]
                         ELSE IF c.kind = "user" THEN NoSweep ELSE keeps)
  /\ UNCHANGED <<open, minted, running>>

\* The round is over; another one follows if anything was deleted.
RoundEnds(w) ==
  LET c == cleaners[w] IN
  /\ c.pc = "delete" /\ c.pending = <<>>
  /\ Begin(w, IF c.moved /\ c.kind # "user" THEN [c EXCEPT !.pc = "list"] ELSE NoSweep)
  /\ UNCHANGED <<open, cloud, stale, gone, minted, running>>

Cleans(w) ==
  \/ \E sessionsAge \in BOOLEAN : BeginAuto(w, sessionsAge)
  \/ \E t \in Tenants, all, aged \in BOOLEAN, cap \in 0..1 :
       \/ BeginAdmin(w, IF all THEN Tenants ELSE {t}, aged, cap)
       \/ ~ all /\ BeginUser(w, t, aged, cap)
  \/ \E t \in Tenants : BeginDelete(w, t)
  \/ DeleteUpstream(w) \/ Unbind(w) \/ ListRound(w) \/ SweepOne(w) \/ RoundEnds(w)

SweepNext ==
  \/ \E t \in Tenants : UseSession(t) \/ PostPrompt(t) \/ RenewThread(t)
  \/ HoursPass
  \/ \E w \in Cleaners : Cleans(w)

SweepSpec == SweepInit /\ [][SweepNext]_sweepVars
-----------------------------------------------------------------------------
\* The sessions whose conversation was deleted by one of these kinds of
\* cleaning, but for a deletion that has yet to remove the session.
BrokenBy(kinds) ==
  {s \in Range(open) :
     /\ \E kind \in kinds : [thread |-> s.thread, kind |-> kind] \in gone
     /\ ~ \E w \in Cleaners : cleaners[w].pc = "unbind" /\ cleaners[w].thread = s.thread}

(* Neither the auto-clean loop nor a user's cleanup or deletion leaves a   *)
(* session behind that points at a deleted conversation, although sessions *)
(* are created, used and renewed during the sweep, and answers get lost.   *)
SessionsResume == BrokenBy({"auto", "user", "delete"}) = {}

(* "cleaning up abandoned cloud history can never break a conversation     *)
(* that is still in use."                                                  *)
CleanupBreaksNothing == BrokenBy({"admin"}) = {}
=============================================================================
