---------------------------- MODULE SessionFlush ----------------------------
(***************************************************************************)
(* How PersistentSessionStore gets a session to sessions.json: _save,      *)
(* flush, _write_now and _load in session_store.py, with the threads that  *)
(* run them.                                                               *)
(*                                                                         *)
(* The event loop changes a session statement by statement, without the    *)
(* store lock; timer threads (and the loop itself, once at shutdown and    *)
(* once at exit) write the map.  A snapshot copies the scalars of a        *)
(* session but only refers to its lists, which json.dumps reads later.     *)
(* All writers share one temporary file.                                   *)
(*                                                                         *)
(* One session is modelled.  Responses are numbered in the order they are  *)
(* recorded; 0 is no response.                                             *)
(***************************************************************************)
EXTENDS Naturals, FiniteSets

CONSTANTS Timers,   \* flush timer threads that may be alive at once: one when
                    \* every write is faster than flush_interval
          Loop,     \* the thread of the event loop
          None,
          MaxTurns  \* bound: responses recorded in one history

ASSUME ThreadsAssumption == Loop \notin Timers /\ None \notin Timers \cup {Loop}
ASSUME NoneAssumption == None \notin Nat
ASSUME TurnsAssumption == MaxTurns \in Nat \ {0}

Threads == Timers \cup {Loop}

VARIABLES
  mem,     \* the session in memory
  step,    \* where the event loop is in a commit
  dirty,   \* _dirty
  timer,   \* is _flush_timer armed
  lock,    \* the thread that holds the store's lock across steps, or None
  writer,  \* each thread's progress through flush
  inode,   \* the contents of the files that exist or are open
  tmp,     \* the inode named sessions.tmp, or None
  file,    \* the inode named sessions.json, or None
  phase    \* the life of the process

vars == <<mem, step, dirty, timer, lock, writer, inode, tmp, file, phase>>

session == <<mem, step>>
files   == <<inode, tmp, file>>

-----------------------------------------------------------------------------
Turns == 0..MaxTurns

New == [issued |-> 0, consumed |-> {}, latest |-> 0]

Image == [issued : Turns, consumed : SUBSET Turns, latest : Turns]

\* Files hold nothing yet, a whole image, or the bytes of two images.
Contents == [kind : {"empty", "whole", "mixed"}, image : Image]

Empty == [kind |-> "empty", image |-> New]
Mixed == [kind |-> "mixed", image |-> New]

\* A file for sessions.json, sessions.tmp and each open descriptor.
Inodes == 1..(2 + Cardinality(Threads))

Asleep == [pc |-> "idle", seen |-> 0, latest |-> 0, image |-> New, fd |-> None]

Init ==
  /\ mem = New /\ step = "idle"
  /\ dirty = FALSE /\ timer = FALSE /\ lock = None
  /\ writer = [w \in Threads |-> Asleep]
  /\ inode = [i \in Inodes |-> Empty] /\ tmp = None /\ file = None
  /\ phase = "up"

\* _load: an unreadable file gives no session at all.
Restored ==
  IF file # None /\ inode[file].kind = "whole" THEN inode[file].image ELSE New

-----------------------------------------------------------------------------
(* The event loop: record_response and complete_response_continuation.     *)

\* A turn starts to commit: a continuation consumes the latest response.
Consume ==
  /\ phase = "up" /\ step = "idle" /\ mem.issued < MaxTurns
  /\ \/ UNCHANGED mem
     \/ /\ mem.latest # 0 /\ mem.latest \notin mem.consumed
        /\ mem' = [mem EXCEPT !.consumed = @ \cup {mem.latest}]
  /\ step' = "consumed"
  /\ UNCHANGED <<dirty, timer, lock, writer, files, phase>>

\* issued_response_calls and issued_response_contexts get the child.
IssueChild ==
  /\ step = "consumed"
  /\ mem' = [mem EXCEPT !.issued = @ + 1]
  /\ step' = "issued"
  /\ UNCHANGED <<dirty, timer, lock, writer, files, phase>>

Point ==
  /\ step = "issued"
  /\ mem' = [mem EXCEPT !.latest = mem.issued]
  /\ step' = "pointed"
  /\ UNCHANGED <<dirty, timer, lock, writer, files, phase>>

\* _on_change: _save marks the map dirty and arms the timer.
Notify ==
  /\ step = "pointed" /\ lock = None
  /\ dirty' = TRUE /\ timer' = TRUE
  /\ step' = "idle"
  /\ UNCHANGED <<mem, lock, writer, files, phase>>

\* reset, remove and an eviction replace or drop the object under the lock;
\* the numbers go on.
Reset ==
  /\ phase = "up" /\ step = "idle" /\ lock = None
  /\ mem.issued < MaxTurns
  /\ mem' = [New EXCEPT !.issued = mem.issued + 1]
  /\ dirty' = TRUE /\ timer' = TRUE
  /\ UNCHANGED <<step, lock, writer, files, phase>>

-----------------------------------------------------------------------------
(* The writers.                                                            *)

Goes(w, pc) == writer' = [writer EXCEPT ![w].pc = pc]

\* _on_flush_timer
Fire(w) ==
  /\ w \in Timers /\ timer /\ lock = None /\ writer[w].pc = "idle"
  /\ timer' = FALSE
  /\ Goes(w, "flush")
  /\ UNCHANGED <<session, dirty, lock, files, phase>>

\* flush: cancel the timer, and clear _dirty before the write.
Flush(w) ==
  /\ writer[w].pc = "flush" /\ lock = None
  /\ timer' = FALSE /\ dirty' = FALSE
  /\ Goes(w, IF dirty THEN "snapshot" ELSE "idle")
  /\ UNCHANGED <<session, lock, files, phase>>

\* _write_now takes the lock and starts on the session: the contexts are
\* encrypted first.
SnapshotBegin(w) ==
  /\ writer[w].pc = "snapshot" /\ lock = None
  /\ lock' = w
  /\ writer' = [writer EXCEPT ![w].pc = "contexts", ![w].seen = mem.issued]
  /\ UNCHANGED <<session, dirty, timer, files, phase>>

\* latest_response_id is copied; the lists are not.
SnapshotEnd(w) ==
  /\ writer[w].pc = "contexts"
  /\ lock' = None
  /\ writer' = [writer EXCEPT ![w].pc = "dump", ![w].latest = mem.latest]
  /\ UNCHANGED <<session, dirty, timer, files, phase>>

\* Mutant: the lock is not released when the loop raises.
SnapshotRaises_Locked(w) ==
  /\ writer[w].pc = "contexts" /\ mem.issued # writer[w].seen
  /\ writer' = [writer EXCEPT ![w] = Asleep]
  /\ UNCHANGED <<session, dirty, timer, lock, files, phase>>

\* The loop over issued_response_contexts may find that the dictionary
\* changed under it: the RuntimeError ends the writer.
SnapshotRaises(w) ==
  /\ writer[w].pc = "contexts" /\ mem.issued # writer[w].seen
  /\ lock' = None
  /\ writer' = [writer EXCEPT ![w] = Asleep]
  /\ UNCHANGED <<session, dirty, timer, files, phase>>

InUse == {tmp, file} \cup {writer[w].fd : w \in Threads}

\* tmp.write_text(json.dumps(data)): the lists are read now, and opening
\* truncates the file another writer may have open.
Open(w) ==
  /\ writer[w].pc = "dump"
  /\ LET i == IF tmp # None THEN tmp ELSE CHOOSE n \in Inodes : n \notin InUse IN
       /\ tmp' = i
       /\ inode' = [inode EXCEPT ![i] = Empty]
       /\ writer' = [writer EXCEPT ![w].pc = "write", ![w].fd = i,
                                   ![w].image = [mem EXCEPT !.latest = writer[w].latest]]
  /\ UNCHANGED <<session, dirty, timer, lock, file, phase>>

\* A second writer overwrites the bytes of the first from offset 0, and may
\* leave their tail.
Write(w) ==
  /\ writer[w].pc = "write"
  /\ \E c \in {[kind |-> "whole", image |-> writer[w].image]} \cup
              (IF inode[writer[w].fd] = Empty THEN {} ELSE {Mixed}) :
       inode' = [inode EXCEPT ![writer[w].fd] = c]
  /\ writer' = [writer EXCEPT ![w].pc = "replace", ![w].fd = None]
  /\ UNCHANGED <<session, dirty, timer, lock, tmp, file, phase>>

Replace(w) ==
  /\ writer[w].pc = "replace" /\ tmp # None
  /\ file' = tmp /\ tmp' = None
  /\ writer' = [writer EXCEPT ![w] = Asleep]
  /\ UNCHANGED <<session, dirty, timer, lock, inode, phase>>

\* Mutant: a failed write is dropped.
Failed_Dropped(w) ==
  /\ writer[w].pc \in {"dump", "write", "replace"}
  /\ writer' = [writer EXCEPT ![w] = Asleep]
  /\ UNCHANGED <<session, dirty, timer, lock, files, phase>>

\* An OSError of any file operation, among them a rename whose source the
\* other writer already moved: stay dirty, but nothing is armed.
Failed(w) ==
  /\ writer[w].pc \in {"dump", "write", "replace"} /\ lock = None
  /\ dirty' = TRUE
  /\ writer' = [writer EXCEPT ![w] = Asleep]
  /\ UNCHANGED <<session, timer, lock, files, phase>>

-----------------------------------------------------------------------------
(* The process.                                                            *)

\* The shutdown hook _flush_sessions runs on the loop, after the last turn;
\* the atexit handler flushes again.
Stop ==
  /\ writer[Loop].pc = "idle" /\ step = "idle"
  /\ \/ phase = "up" /\ phase' = "shutdown"
     \/ phase = "shutdown" /\ phase' = "atexit"
  /\ Goes(Loop, "flush")
  /\ UNCHANGED <<session, dirty, timer, lock, files>>

\* The interpreter exits: daemon timer threads die where they are.
Exit ==
  /\ phase = "atexit" /\ writer[Loop].pc = "idle"
  /\ phase' = "down"
  /\ UNCHANGED <<session, dirty, timer, lock, writer, files>>

\* SIGKILL, or a start after an exit: the next process loads the file.
Restart ==
  /\ mem' = Restored /\ step' = "idle"
  /\ dirty' = FALSE /\ timer' = FALSE /\ lock' = None
  /\ writer' = [w \in Threads |-> Asleep]
  /\ phase' = "up"
  /\ UNCHANGED files

WriterStep(w) ==
  /\ phase # "down"
  /\ \/ Flush(w) \/ SnapshotBegin(w) \/ SnapshotEnd(w) \/ SnapshotRaises(w)
     \/ Open(w) \/ Write(w) \/ Replace(w) \/ Failed(w)

CommitStep == IssueChild \/ Point \/ Notify

Next ==
  \/ Consume \/ CommitStep \/ Reset
  \/ \E w \in Threads : (phase # "down" /\ Fire(w)) \/ WriterStep(w)
  \/ Stop \/ Exit \/ Restart

Spec == Init /\ [][Next]_vars

\* The operating system runs every thread, and an armed timer fires.
Fairness ==
  /\ WF_vars(CommitStep)
  /\ \A w \in Threads : WF_vars(Fire(w)) /\ WF_vars(WriterStep(w))

FairSpec == Spec /\ Fairness
-----------------------------------------------------------------------------
TypeOK ==
  /\ mem \in Image
  /\ step \in {"idle", "consumed", "issued", "pointed"}
  /\ dirty \in BOOLEAN /\ timer \in BOOLEAN /\ lock \in Threads \cup {None}
  /\ writer \in [Threads ->
       [pc : {"idle", "flush", "snapshot", "contexts", "dump", "write", "replace"},
        seen : Turns, latest : Turns, image : Image, fd : Inodes \cup {None}]]
  /\ inode \in [Inodes -> Contents]
  /\ tmp \in Inodes \cup {None} /\ file \in Inodes \cup {None}
  /\ phase \in {"up", "shutdown", "atexit", "down"}

Settled == step = "idle" /\ ~ dirty /\ ~ timer /\ \A w \in Threads : writer[w].pc = "idle"

(* Once every commit is notified, nothing is dirty and every writer is     *)
(* done, a restart finds exactly the session in memory: no interleaving of *)
(* commits, flushes and failed writes loses a change silently.             *)
FlushLands == phase = "up" /\ Settled => Restored = mem

(* A change reaches the file, or the map stays dirty for the next change   *)
(* after a write that failed.                                              *)
SavedOrRetried ==
  mem # Restored ~> mem = Restored \/ (dirty /\ ~ timer) \/ phase # "up"

(* A kill costs at most the last turns: the session a restart loads can be *)
(* continued from its latest response.                                     *)
KillResumes ==
  Restored.latest # 0 => Restored.latest \notin Restored.consumed
=============================================================================
