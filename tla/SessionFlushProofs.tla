------------------------- MODULE SessionFlushProofs --------------------------
(***************************************************************************)
(* Proofs about SessionFlush with one timer thread, for any number of      *)
(* turns, crashes and failed writes: what is not dirty is on the disk.     *)
(* With two timers it is not so, which the overlap run shows.              *)
(***************************************************************************)
EXTENDS SessionFlush, FiniteSetTheorems, TLAPS

Writer ==
  [pc : {"idle", "flush", "snapshot", "contexts", "dump", "write", "replace"},
   seen : Turns, latest : Turns, image : Image, fd : Inodes \cup {None}]

\* The files: what is being written is not what a restart would load.
Apart == tmp # None => tmp # file

\* A turn that began has a number left.
Numbered == step = "consumed" => mem.issued < MaxTurns

\* Where a writer is while the process is up.
Alone(t) ==
  phase = "up" =>
    /\ writer[Loop].pc = "idle"
    /\ lock = IF writer[t].pc = "contexts" THEN t ELSE None
    /\ writer[t].pc = "contexts" /\ mem.issued # writer[t].seen => step \in {"issued", "pointed"}
    /\ writer[t].pc = "write" =>
         tmp # None /\ writer[t].fd = tmp /\ inode[tmp] = Empty
    /\ writer[t].pc = "replace" =>
         tmp # None /\ inode[tmp] = [kind |-> "whole", image |-> writer[t].image]

\* What a writer carries is the session in memory, while nothing is dirty.
Carried(t) ==
  phase = "up" /\ step = "idle" /\ ~ dirty =>
    /\ writer[t].pc \in {"idle", "flush"} => Restored = mem
    /\ writer[t].pc = "dump" => writer[t].latest = mem.latest
    /\ writer[t].pc \in {"write", "replace"} => writer[t].image = mem

FlushInv(t) == TypeOK /\ Apart /\ Numbered /\ Alone(t) /\ Carried(t)

(* The invariant is enough.                                                *)
LEMMA FlushInvImplies ==
  ASSUME NEW t \in Threads, FlushInv(t) PROVE FlushLands
  BY DEF FlushInv, Carried, FlushLands, Settled

(* The constants and the values at the start have their types.             *)
LEMMA Constants ==
  /\ 0 \in Turns /\ New \in Image /\ Empty \in Contents /\ Mixed \in Contents
  /\ MaxTurns \in Nat
  /\ \A im \in Image : [kind |-> "whole", image |-> im] \in Contents
  /\ \A im \in Image : im.issued \in Turns /\ im.latest \in Turns /\ im.consumed \in SUBSET Turns
  /\ None \notin Threads /\ Loop \in Threads
  BY TurnsAssumption, ThreadsAssumption DEF Turns, New, Image, Empty, Mixed, Contents, Threads

(* What a restart would load is an image.                                  *)
LEMMA RestoredType == TypeOK => Restored \in Image
  <1> SUFFICES ASSUME TypeOK PROVE Restored \in Image
    OBVIOUS
  <1>1. CASE file # None /\ inode[file].kind = "whole"
    BY <1>1 DEF TypeOK, Restored, Contents
  <1>2. CASE ~ (file # None /\ inode[file].kind = "whole")
    BY <1>2, Constants DEF Restored
  <1> QED BY <1>1, <1>2

(* The fields of a writer.                                                 *)
LEMMA WriterFields ==
  ASSUME NEW r \in Writer
  PROVE  /\ r.seen \in Turns /\ r.latest \in Turns /\ r.image \in Image /\ r.fd \in Inodes \cup {None}
         /\ \A pc \in {"idle", "flush", "snapshot", "contexts", "dump", "write", "replace"} :
              [r EXCEPT !.pc = pc] \in Writer /\ [r EXCEPT !.pc = pc].pc = pc
  BY DEF Writer

(* TypeOK variable by variable.                                            *)
LEMMA Types ==
  TypeOK <=>
    /\ mem \in Image
    /\ step \in {"idle", "consumed", "issued", "pointed"}
    /\ dirty \in BOOLEAN /\ timer \in BOOLEAN /\ lock \in Threads \cup {None}
    /\ writer \in [Threads -> Writer]
    /\ inode \in [Inodes -> Contents]
    /\ tmp \in Inodes \cup {None} /\ file \in Inodes \cup {None}
    /\ phase \in {"up", "shutdown", "atexit", "down"}
  BY DEF TypeOK, Writer

(* The fields of an image.                                                 *)
LEMMA ImageFields ==
  ASSUME NEW im \in Image, NEW l \in Turns, NEW n \in Turns, NEW x \in Turns
  PROVE  /\ [im EXCEPT !.issued = n] \in Image
         /\ [im EXCEPT !.issued = n].issued = n
         /\ [im EXCEPT !.latest = l] \in Image
         /\ [im EXCEPT !.latest = l].issued = im.issued
         /\ [im EXCEPT !.latest = im.latest] = im
         /\ [im EXCEPT !.consumed = @ \cup {x}] \in Image
         /\ [im EXCEPT !.consumed = @ \cup {x}].issued = im.issued
  BY DEF Image

(* The event loop's steps change the session, and touch no file.           *)
LEMMA LoopSteps ==
  ASSUME NEW t, Timers = {t}, FlushInv(t), Consume \/ CommitStep \/ Reset
  PROVE  FlushInv(t)'
  <1>1. UNCHANGED <<lock, writer, inode, tmp, file, phase>>
    BY DEF Consume, CommitStep, IssueChild, Point, Notify, Reset, files
  <1>2. TypeOK /\ Apart /\ Numbered /\ Alone(t) /\ Carried(t)
    BY DEF FlushInv
  <1>3. mem \in Image /\ mem.issued \in Turns /\ mem.latest \in Turns
    BY <1>2, Constants DEF TypeOK
  <1>4. t \in Threads /\ t # None /\ t # Loop /\ Loop # None
    BY ThreadsAssumption DEF Threads
  <1>5. Restored' = Restored /\ Apart'
    BY <1>1, <1>2 DEF Restored, Apart
  <1>6. ASSUME mem' \in Image, step' \in {"idle", "consumed", "issued", "pointed"},
               dirty' \in BOOLEAN, timer' \in BOOLEAN, Numbered',
               step' = "idle" => dirty',
               writer[t].pc = "contexts" /\ mem'.issued # writer[t].seen /\ phase = "up"
                 => step' \in {"issued", "pointed"}
        PROVE  FlushInv(t)'
    <2>1. TypeOK' BY <1>1, <1>2, <1>6 DEF TypeOK
    <2>2. Alone(t)' BY <1>1, <1>2, <1>6 DEF Alone
    <2>3. Carried(t)' BY <1>6 DEF Carried
    <2> QED BY <1>5, <1>6, <2>1, <2>2, <2>3 DEF FlushInv
  <1>7. CASE Consume
    <2>1. mem' \in Image /\ mem'.issued = mem.issued
      <3>1. [mem EXCEPT !.consumed = @ \cup {mem.latest}] \in Image
            /\ [mem EXCEPT !.consumed = @ \cup {mem.latest}].issued = mem.issued
        BY <1>3 DEF Image
      <3> QED BY <1>3, <1>7, <3>1 DEF Consume
    <2> QED BY <1>2, <1>6, <1>7, <2>1 DEF Consume, Numbered, Alone, TypeOK
  <1>8. CASE IssueChild
    <2>1. mem.issued + 1 \in Turns
      BY <1>2, <1>3, <1>8, TurnsAssumption DEF IssueChild, Numbered, Turns
    <2>2. mem' \in Image
      BY <1>3, <1>8, <2>1, ImageFields DEF IssueChild
    <2> QED BY <1>2, <1>6, <1>8, <2>2 DEF IssueChild, Numbered, TypeOK
  <1>9. CASE Point
    <2>1. mem' \in Image /\ mem'.issued = mem.issued
      <3>1. mem' = [mem EXCEPT !.latest = mem.issued] BY <1>9 DEF Point
      <3>2. ASSUME NEW l \in Turns
            PROVE  [mem EXCEPT !.latest = l] \in Image /\ [mem EXCEPT !.latest = l].issued = mem.issued
        BY <1>3 DEF Image
      <3> QED BY <1>3, <3>1, <3>2, Zenon
    <2> QED BY <1>2, <1>6, <1>9, <2>1 DEF Point, Numbered, TypeOK
  <1>10. CASE Notify
    <2>1. phase = "up" => writer[t].pc # "contexts"
      BY <1>2, <1>4, <1>10 DEF Notify, Alone
    <2> QED BY <1>2, <1>3, <1>6, <1>10, <2>1 DEF Notify, Numbered
  <1>11. CASE Reset
    <2>1. phase = "up" => writer[t].pc # "contexts"
      BY <1>2, <1>4, <1>11 DEF Reset, Alone
    <2>2. mem.issued + 1 \in Turns
      BY <1>3, <1>11, TurnsAssumption DEF Reset, Turns
    <2>3. mem' \in Image
      BY <1>11, <2>2, Constants, ImageFields DEF Reset
    <2> QED BY <1>2, <1>6, <1>11, <2>1, <2>3 DEF Reset, Numbered, TypeOK
  <1> QED BY <1>7, <1>8, <1>9, <1>10, <1>11 DEF CommitStep

\* A writer other than the timer's only runs once the process stops.
LEMMA NotUp ==
  ASSUME NEW t, phase' # "up", TypeOK', Apart', Numbered'
  PROVE  FlushInv(t)'
  BY DEF FlushInv, Alone, Carried

(* The process stops, exits, is killed, starts.                            *)
LEMMA ProcessSteps ==
  ASSUME NEW t, Timers = {t}, FlushInv(t), Stop \/ Exit \/ Restart
  PROVE  FlushInv(t)'
  <1>1. TypeOK /\ Apart /\ Numbered BY DEF FlushInv
  <1>2. writer \in [Threads -> Writer] BY <1>1, Types
  <1>3. CASE Stop
    <2>1. writer' = [writer EXCEPT ![Loop].pc = "flush"]
      BY <1>3 DEF Stop, Goes
    <2>2. writer' \in [Threads -> Writer]
      BY <1>2, <2>1, WriterFields
    <2>3. phase' \in {"shutdown", "atexit"} BY <1>3 DEF Stop
    <2>4. UNCHANGED <<mem, step, dirty, timer, lock, inode, tmp, file>>
      BY <1>3 DEF Stop, session, files
    <2>5. TypeOK' BY <1>1, <2>2, <2>3, <2>4 DEF TypeOK, Writer
    <2> QED BY <1>1, <2>3, <2>4, <2>5, NotUp DEF Apart, Numbered
  <1>4. CASE Exit
    BY <1>1, <1>4, NotUp DEF Exit, TypeOK, Apart, Numbered, session, files
  <1>5. CASE Restart
    <2>1. Asleep \in Writer /\ Asleep.pc = "idle" BY Constants DEF Asleep, Writer
    <2>2. /\ mem' = Restored /\ step' = "idle" /\ dirty' = FALSE /\ timer' = FALSE /\ lock' = None
          /\ writer' = [w \in Threads |-> Asleep] /\ phase' = "up"
          /\ UNCHANGED <<inode, tmp, file>>
      BY <1>5 DEF Restart, files
    <2>3. mem' \in Image BY <1>1, <2>2, RestoredType
    <2>4. TypeOK' BY <1>1, <2>1, <2>2, <2>3 DEF TypeOK, Writer
    <2>5. Restored' = mem' BY <2>2 DEF Restored
    <2>6. t \in Threads /\ Loop \in Threads BY DEF Threads
    <2>7. Apart' /\ Numbered' BY <1>1, <2>2 DEF Apart, Numbered
    <2>8. Alone(t)' BY <2>1, <2>2, <2>6 DEF Alone
    <2>9. Carried(t)' BY <2>1, <2>2, <2>5, <2>6 DEF Carried
    <2> QED BY <2>4, <2>7, <2>8, <2>9 DEF FlushInv
  <1> QED BY <1>3, <1>4, <1>5

\* Two threads, two names and two descriptors need no fifth inode.
LEMMA FourInodes ==
  ASSUME NEW t, Timers = {t}
  PROVE  Inodes = 1 .. 4
  <1>1. Threads = {t} \cup {Loop} /\ t # Loop
    BY ThreadsAssumption DEF Threads
  <1>2. IsFiniteSet({t}) /\ Cardinality({t}) = 1 BY FS_Singleton
  <1>3. Cardinality({t} \cup {Loop}) = 2 BY <1>1, <1>2, FS_AddElement
  <1> QED BY <1>1, <1>3 DEF Inodes

(* There is an inode that is free.                                         *)
LEMMA FreeInode ==
  ASSUME NEW t, Timers = {t}, TypeOK, tmp = None
  PROVE  (CHOOSE n \in Inodes : n \notin InUse) \in Inodes \ InUse
  <1>1. Threads = {t, Loop}
    BY DEF Threads
  <1>3. Inodes = 1 .. 4 BY FourInodes
  <1>4. InUse = {None, file, writer[t].fd, writer[Loop].fd}
    BY <1>1 DEF InUse
  <1>5. \E n \in Inodes : n \notin InUse
    <2>1. ASSUME 1 \in InUse, 2 \in InUse, 3 \in InUse, 4 \in InUse PROVE FALSE
      <3> DEFINE a == file
                 b == writer[t].fd
                 c == writer[Loop].fd
      <3>1. \A n \in 1 .. 4 : n \in {a, b, c}
        <4>1. None \notin 1 .. 4 BY NoneAssumption
        <4>2. \A n \in 1 .. 4 : n \in InUse BY <2>1
        <4> QED BY <1>4, <4>1, <4>2
      <3> HIDE DEF a, b, c
      <3> QED BY <3>1
    <2> QED BY <2>1, <1>3
  <1> QED BY <1>5

WriterActs(w) ==
  Fire(w) \/ Flush(w) \/ SnapshotBegin(w) \/ SnapshotEnd(w) \/ SnapshotRaises(w)
    \/ Open(w) \/ Write(w) \/ Replace(w) \/ Failed(w)

(* The writers keep the types, and never write to what a restart loads.    *)
LEMMA WriterTypes ==
  ASSUME NEW t, Timers = {t}, TypeOK, Apart, NEW w \in Threads, WriterActs(w)
  PROVE  TypeOK' /\ Apart' /\ UNCHANGED <<mem, step, phase>>
  <1>1. UNCHANGED <<mem, step, phase>>
    BY DEF WriterActs, Fire, Flush, SnapshotBegin, SnapshotEnd, SnapshotRaises, Open, Write, Replace,
           Failed, session
  <1>2. writer \in [Threads -> Writer] /\ writer[w] \in Writer
    BY Types
  <1>3. Asleep \in Writer BY Constants DEF Asleep, Writer
  <1>4. mem \in Image /\ mem.issued \in Turns /\ mem.latest \in Turns
    BY Constants DEF TypeOK
  <1>5. w # None BY Constants
  <1>6. CASE Fire(w)
    <2>1. writer' \in [Threads -> Writer] BY <1>2, <1>6, WriterFields DEF Fire, Goes
    <2> QED BY <1>1, <1>6, <2>1, Types DEF Fire, files, Apart, TypeOK, Writer
  <1>7. CASE Flush(w)
    <2>1. writer' \in [Threads -> Writer] BY <1>2, <1>7, WriterFields DEF Flush, Goes
    <2> QED BY <1>1, <1>7, <2>1 DEF Flush, files, Apart, TypeOK, Writer
  <1>8. CASE SnapshotBegin(w)
    <2>1. writer' \in [Threads -> Writer] BY <1>2, <1>4, <1>8 DEF SnapshotBegin, Writer
    <2> QED BY <1>1, <1>8, <2>1 DEF SnapshotBegin, files, Apart, TypeOK, Writer
  <1>9. CASE SnapshotEnd(w)
    <2>1. writer' \in [Threads -> Writer] BY <1>2, <1>4, <1>9 DEF SnapshotEnd, Writer
    <2> QED BY <1>1, <1>9, <2>1 DEF SnapshotEnd, files, Apart, TypeOK, Writer
  <1>10. CASE SnapshotRaises(w)
    <2>1. writer' \in [Threads -> Writer] BY <1>2, <1>3, <1>10 DEF SnapshotRaises
    <2> QED BY <1>1, <1>10, <2>1 DEF SnapshotRaises, files, Apart, TypeOK, Writer
  <1>11. CASE Open(w)
    <2> DEFINE i == IF tmp # None THEN tmp ELSE CHOOSE n \in Inodes : n \notin InUse
               im == [mem EXCEPT !.latest = writer[w].latest]
    <2>1. i \in Inodes /\ (tmp = None => i \notin InUse)
      BY FreeInode DEF TypeOK
    <2>2. im \in Image
      BY <1>2, <1>4 DEF Writer, Image
    <2>3. /\ tmp' = i /\ inode' = [inode EXCEPT ![i] = Empty]
          /\ writer' = [writer EXCEPT ![w].pc = "write", ![w].fd = i, ![w].image = im]
          /\ UNCHANGED <<dirty, timer, lock, file>>
      BY <1>11 DEF Open
    <2> HIDE DEF i, im
    <2>4. writer' \in [Threads -> Writer]
      BY <1>2, <2>1, <2>2, <2>3 DEF Writer
    <2>5. inode' \in [Inodes -> Contents]
      BY <2>1, <2>3, Constants DEF TypeOK
    <2>6. TypeOK'
      BY <1>1, <2>1, <2>3, <2>4, <2>5 DEF TypeOK, Writer
    <2>7. Apart'
      BY <2>1, <2>3 DEF Apart, InUse, i
    <2> QED BY <1>1, <2>6, <2>7
  <1>12. CASE Write(w)
    <2>1. PICK c \in {[kind |-> "whole", image |-> writer[w].image], Mixed} :
            inode' = [inode EXCEPT ![writer[w].fd] = c]
      BY <1>12 DEF Write
    <2>2. c \in Contents
      <3>1. writer[w].image \in Image BY <1>2, WriterFields
      <3> QED BY <2>1, <3>1, Constants
    <2>3. inode' \in [Inodes -> Contents] BY <2>1, <2>2 DEF TypeOK
    <2>4. writer' \in [Threads -> Writer] BY <1>2, <1>12 DEF Write, Writer
    <2> QED BY <1>1, <1>12, <2>3, <2>4 DEF Write, Apart, TypeOK, Writer
  <1>13. CASE Replace(w)
    <2>1. writer' \in [Threads -> Writer] BY <1>2, <1>3, <1>13 DEF Replace
    <2> QED BY <1>1, <1>13, <2>1 DEF Replace, Apart, TypeOK, Writer
  <1>14. CASE Failed(w)
    <2>1. writer' \in [Threads -> Writer] BY <1>2, <1>3, <1>14 DEF Failed
    <2> QED BY <1>1, <1>14, <2>1 DEF Failed, files, Apart, TypeOK, Writer
  <1> QED BY <1>6, <1>7, <1>8, <1>9, <1>10, <1>11, <1>12, <1>13, <1>14 DEF WriterActs

(* While the process is up the one timer's thread writes alone, and what   *)
(* it carries is the session in memory or a change that will make it       *)
(* dirty again.                                                            *)
LEMMA WriterSteps ==
  ASSUME NEW t, Timers = {t}, FlushInv(t), phase = "up", NEW w \in Threads, WriterActs(w)
  PROVE  Alone(t)' /\ Carried(t)'
  <1>1. TypeOK /\ Apart /\ Alone(t) /\ Carried(t) BY DEF FlushInv
  <1>2. Threads = {t, Loop} /\ t # Loop /\ t # None /\ Loop # None /\ t \in Threads /\ Loop \in Threads
    BY ThreadsAssumption DEF Threads
  <1>3. UNCHANGED <<mem, step, phase>>
    BY <1>1, WriterTypes
  <1>4. writer \in [Threads -> Writer] BY <1>1, Types
  <1>5. writer[Loop].pc = "idle" BY <1>1 DEF Alone
  <1>6. w = t
    BY <1>2, <1>5
       DEF WriterActs, Fire, Flush, SnapshotBegin, SnapshotEnd, SnapshotRaises, Open, Write, Replace, Failed
  <1>7. writer[t] \in Writer BY <1>2, <1>4
  <1>8. CASE Fire(t)
    <2>1. /\ writer'[t].pc = "flush" /\ writer[t].pc = "idle" /\ writer'[Loop] = writer[Loop]
          /\ UNCHANGED <<dirty, lock, inode, tmp, file>>
      BY <1>2, <1>4, <1>7, <1>8 DEF Fire, Goes, files, Writer
    <2>2. Restored' = Restored BY <2>1 DEF Restored
    <2> QED BY <1>1, <1>3, <2>1, <2>2 DEF Alone, Carried
  <1>9. CASE Flush(t)
    <2>1. /\ writer'[t].pc = (IF dirty THEN "snapshot" ELSE "idle") /\ writer[t].pc = "flush"
          /\ writer'[Loop] = writer[Loop]
          /\ UNCHANGED <<lock, inode, tmp, file>>
      BY <1>2, <1>4, <1>7, <1>9 DEF Flush, Goes, files, Writer
    <2>2. Restored' = Restored BY <2>1 DEF Restored
    <2> QED BY <1>1, <1>3, <2>1, <2>2 DEF Alone, Carried
  <1>10. CASE SnapshotBegin(t)
    <2>1. /\ writer'[t].pc = "contexts" /\ writer'[t].seen = mem.issued
          /\ writer'[Loop] = writer[Loop] /\ lock' = t
      BY <1>2, <1>4, <1>7, <1>10 DEF SnapshotBegin, Writer
    <2> QED BY <1>1, <1>2, <1>3, <2>1 DEF Alone, Carried
  <1>11. CASE SnapshotEnd(t)
    <2>1. /\ writer'[t].pc = "dump" /\ writer'[t].latest = mem.latest
          /\ writer'[Loop] = writer[Loop] /\ lock' = None
      BY <1>2, <1>4, <1>7, <1>11 DEF SnapshotEnd, Writer
    <2> QED BY <1>1, <1>3, <2>1 DEF Alone, Carried
  <1>12. CASE SnapshotRaises(t)
    <2>1. /\ writer'[t].pc = "idle" /\ writer'[Loop] = writer[Loop] /\ lock' = None
          /\ writer[t].pc = "contexts" /\ mem.issued # writer[t].seen
      BY <1>2, <1>4, <1>7, <1>12 DEF SnapshotRaises, Writer, Asleep
    <2>2. step \in {"issued", "pointed"} BY <1>1, <2>1 DEF Alone
    <2> QED BY <1>1, <1>3, <2>1, <2>2 DEF Alone, Carried
  <1>13. CASE Open(t)
    <2> DEFINE i == IF tmp # None THEN tmp ELSE CHOOSE n \in Inodes : n \notin InUse
               im == [mem EXCEPT !.latest = writer[t].latest]
    <2>1. /\ tmp' = i /\ inode' = [inode EXCEPT ![i] = Empty]
          /\ writer' = [writer EXCEPT ![t].pc = "write", ![t].fd = i, ![t].image = im]
          /\ writer[t].pc = "dump" /\ UNCHANGED <<dirty, lock>>
      BY <1>13 DEF Open
    <2>2. i \in Inodes BY <1>1, FreeInode DEF TypeOK
    <2>4. im \in Image /\ (writer[t].latest = mem.latest => im = mem)
      BY <1>1, <1>7 DEF TypeOK, Image, Writer
    <2> HIDE DEF i, im
    <2>3. i # None
      <3>1. Inodes = 1 .. 4 BY FourInodes
      <3>2. None \notin 1 .. 4 BY NoneAssumption
      <3> QED BY <2>2, <3>1, <3>2
    <2>5. /\ writer'[t].pc = "write" /\ writer'[t].fd = i /\ writer'[t].image = im
          /\ writer'[Loop] = writer[Loop]
      BY <1>2, <1>4, <1>7, <2>1 DEF Writer
    <2>6. inode'[i] = Empty BY <1>1, <2>1, <2>2 DEF TypeOK
    <2>7. Alone(t)' BY <1>1, <1>3, <2>1, <2>3, <2>5, <2>6 DEF Alone
    <2>8. Carried(t)' BY <1>1, <1>3, <2>1, <2>4, <2>5 DEF Carried
    <2> QED BY <2>7, <2>8
  <1>14. CASE Write(t)
    <2> DEFINE c == [kind |-> "whole", image |-> writer[t].image]
    <2>1. writer[t].pc = "write" /\ tmp # None /\ writer[t].fd = tmp /\ inode[tmp] = Empty
      BY <1>1, <1>14 DEF Write, Alone
    <2>2. tmp \in Inodes BY <1>1, <2>1 DEF TypeOK
    <2>3. inode' = [inode EXCEPT ![tmp] = c]
      BY <1>14, <2>1 DEF Write
    <2>4. inode'[tmp] = c BY <1>1, <2>2, <2>3 DEF TypeOK
    <2>5. /\ writer'[t].pc = "replace" /\ writer'[t].image = writer[t].image
          /\ writer'[Loop] = writer[Loop] /\ UNCHANGED <<dirty, lock, tmp, file>>
      BY <1>2, <1>4, <1>7, <1>14 DEF Write, Writer
    <2>6. Alone(t)' BY <1>1, <1>3, <2>1, <2>4, <2>5 DEF Alone
    <2>7. Carried(t)' BY <1>1, <1>3, <2>1, <2>5 DEF Carried
    <2> QED BY <2>6, <2>7
  <1>15. CASE Replace(t)
    <2>1. /\ writer[t].pc = "replace" /\ tmp # None
          /\ inode[tmp] = [kind |-> "whole", image |-> writer[t].image]
      BY <1>1, <1>15 DEF Replace, Alone
    <2>2. /\ writer'[t].pc = "idle" /\ writer'[Loop] = writer[Loop]
          /\ file' = tmp /\ UNCHANGED <<dirty, lock, inode>>
      BY <1>2, <1>4, <1>7, <1>15 DEF Replace, Writer, Asleep
    <2>3. Restored' = writer[t].image BY <2>1, <2>2 DEF Restored
    <2> QED BY <1>1, <1>3, <2>1, <2>2, <2>3 DEF Alone, Carried
  <1>16. CASE Failed(t)
    <2>1. /\ writer'[t].pc = "idle" /\ writer'[Loop] = writer[Loop]
          /\ dirty' /\ lock = None /\ lock' = lock
      BY <1>2, <1>4, <1>7, <1>16 DEF Failed, Writer, Asleep
    <2> QED BY <1>1, <1>3, <2>1 DEF Alone, Carried
  <1> QED BY <1>6, <1>8, <1>9, <1>10, <1>11, <1>12, <1>13, <1>14, <1>15, <1>16 DEF WriterActs

(* Every step keeps the invariant.                                         *)
LEMMA FlushStep ==
  ASSUME NEW t, Timers = {t}, FlushInv(t), [Next]_vars
  PROVE  FlushInv(t)'
  <1>1. CASE Consume \/ CommitStep \/ Reset BY <1>1, LoopSteps
  <1>2. CASE Stop \/ Exit \/ Restart BY <1>2, ProcessSteps
  <1>3. ASSUME NEW w \in Threads, WriterActs(w) PROVE FlushInv(t)'
    <2>1. TypeOK' /\ Apart' /\ UNCHANGED <<mem, step, phase>>
      BY <1>3, WriterTypes DEF FlushInv
    <2>2. Numbered' BY <2>1 DEF FlushInv, Numbered
    <2>3. CASE phase = "up"
      <3>1. Alone(t)' /\ Carried(t)' BY <1>3, <2>3, WriterSteps
      <3> QED BY <2>1, <2>2, <3>1 DEF FlushInv
    <2>4. CASE phase # "up" BY <2>1, <2>2, <2>4, NotUp
    <2> QED BY <2>3, <2>4
  <1>4. CASE UNCHANGED vars
    <2>1. Restored' = Restored BY <1>4 DEF vars, session, files, Restored
    <2> QED BY <1>4, <2>1
            DEF vars, session, files, FlushInv, TypeOK, Apart, Numbered, Alone, Carried
  <1> QED BY <1>1, <1>2, <1>3, <1>4 DEF Next, WriterStep, WriterActs

(* With one flush in flight at a time (writes faster than the interval,    *)
(* so that a timer fires only after the last write ended), no interleaving *)
(* of commits, flushes and failed writes loses a change.                   *)
THEOREM AloneFlushLands ==
  ASSUME NEW t, Timers = {t}
  PROVE  Spec => []FlushLands
  <1>1. Init => FlushInv(t)
    <2> SUFFICES ASSUME Init PROVE FlushInv(t)
      OBVIOUS
    <2>1. Asleep \in Writer /\ Asleep.pc = "idle" BY Constants DEF Asleep, Writer
    <2>2. t \in Threads /\ Loop \in Threads BY DEF Threads
    <2>3. TypeOK BY <2>1, Constants, Types DEF Init
    <2>4. Restored = mem BY DEF Restored, Init
    <2> QED BY <2>1, <2>2, <2>3, <2>4 DEF Init, FlushInv, Apart, Numbered, Alone, Carried
  <1>2. FlushInv(t) /\ [Next]_vars => FlushInv(t)'
    BY FlushStep
  <1>3. FlushInv(t) => FlushLands
    BY FlushInvImplies DEF Threads
  <1> QED BY <1>1, <1>2, <1>3, PTL DEF Spec

=============================================================================
