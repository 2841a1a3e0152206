--------------------------- MODULE JSONLSinkProofs ---------------------------
(***************************************************************************)
(* Proofs about JSONLSink, for any writers, frames, limits and faults.     *)
(*                                                                         *)
(* SinkInv: who holds the mutex is the only one past the lock, and the     *)
(* handle and the stamp agree with where it is.  From it the types, and    *)
(* that an archive is never touched again.  Effect: what a step of the     *)
(* holder comes to for the files - nothing, a rename, a chunk more, an     *)
(* fsync - with or without the write's return; CutFile is what a crash     *)
(* comes to.  On those rest PlaceInv, that every record has at most one    *)
(* chunk in all the files, and with it the refinement of FrameStore and    *)
(* that an acknowledged frame is stored exactly once; BoundInv, that       *)
(* whoever is about to write has room; and DayInv, that the file, the      *)
(* handle, the stamp and the frame agree on the day.                       *)
(***************************************************************************)
EXTENDS JSONLSink, TLAPS, SequenceTheorems, FiniteSetTheorems,
        WellFoundedInduction

(* The first free name is a free one: the least of a set of numbers is in  *)
(* the set.                                                                *)
LEMMA ArchiveNameIsFree ==
  ASSUME FreeNames # {}
  PROVE  /\ ArchiveName(FreeNames) \in 0 .. ArchiveTries - 1
         /\ <<stamp, ArchiveName(FreeNames)>> \notin DOMAIN archives
<1>1. FreeNames \subseteq Nat
  BY SinkAssumption DEF FreeNames
<1>2. PICK i \in FreeNames :
        \A j \in FreeNames : <<j, i>> \notin OpToRel(<, Nat)
  BY <1>1, NatLessThanWellFounded, WFMin
<1>3. ASSUME NEW j \in FreeNames
      PROVE  i <= j
  <2>1. i \in Nat /\ j \in Nat
    BY <1>1
  <2>2. ~(j < i)
    BY <1>2, <2>1 DEF OpToRel
  <2> QED
    BY <2>1, <2>2
<1>4. ArchiveName(FreeNames) \in FreeNames
  BY <1>3 DEF ArchiveName
<1> QED
  BY <1>4 DEF FreeNames

(* Days follow the clock. *)
LEMMA DayMonotone ==
  ASSUME NEW s \in Nat, NEW t \in Nat, s <= t
  PROVE  Day(s) <= Day(t) /\ Day(s) \in Nat
  BY SinkAssumption DEF Day

-----------------------------------------------------------------------------
(* The mutex: what is typed and what holds of the writers ... *)
Locked == {"ensure", "close", "rotate", "move", "stat", "open", "write", "sync"}

WritersOK ==
    /\ clock \in Nat
    /\ mu \in Writers \cup {Free}
    /\ pc \in [Writers -> Labels]
    /\ frame \in [Writers -> Records \cup {NoRecord}]
    /\ now \in Nat /\ stamp \in Stamps
    /\ DOMAIN born \subseteq Records
    /\ \A r \in DOMAIN born : born[r] \in Nat
    /\ acked \subseteq Records
    /\ \A w \in Writers : pc[w] \in Locked <=> mu = w
    /\ \A w \in Writers : pc[w] = "idle" <=> frame[w] = NoRecord

ActiveFiles ==
    [exists : BOOLEAN, chunks : Seq(Chunks), synced : Nat, mtime : Nat]

(* ... and of the files. *)
FilesOK ==
    /\ active \in ActiveFiles
    /\ active.synced <= Len(active.chunks)
    /\ DOMAIN archives \subseteq Stamps \X (0 .. ArchiveTries - 1)
    /\ \A n \in DOMAIN archives : archives[n] \in Seq(Chunks)
    /\ handle \in [open : BOOLEAN, size : Nat, day : Nat]
    /\ ~active.exists => active.chunks = <<>>

(* Where the holder of the mutex is, the handle and the stamp agree with.  *)
HolderInv ==
    /\ handle.open => active.exists
    /\ \A w \in Writers :
        /\ pc[w] \in {"close", "write", "sync"} => handle.open
        /\ pc[w] \in {"rotate", "move", "stat", "open"} => ~handle.open
        /\ pc[w] \in {"close", "rotate", "move"} => stamp # NoStamp

SinkInv == WritersOK /\ FilesOK /\ HolderInv

LEMMA SinkInvIsTyped == SinkInv => TypeOK
  BY DEF SinkInv, WritersOK, FilesOK, ActiveFiles, TypeOK

(* A step inside the lock that goes on. *)
LEMMA GoesOn ==
  ASSUME WritersOK, NEW w \in Writers, pc[w] \in Locked, NEW label \in Locked,
         Goto(w, label), UnchangedWriter, now' \in Nat, stamp' \in Stamps
  PROVE  /\ WritersOK'
         /\ \A v \in Writers : v # w => pc'[v] = pc[v] /\ pc[v] \notin Locked
         /\ pc'[w] = label
  BY DEF WritersOK, Goto, UnchangedWriter, Locked, Labels

(* A step inside the lock that returns. *)
LEMMA Returns ==
  ASSUME WritersOK, NEW w \in Writers, pc[w] \in Locked, NEW err, Return(w, err)
  PROVE  /\ WritersOK'
         /\ \A v \in Writers : pc'[v] \notin Locked
  BY SinkAssumption DEF WritersOK, Return, Goto, Locked, Labels, Stamps, NoStamp

(* A write adds a chunk to the active file. *)
NewChunk(r, whole, n) ==
    [record |-> r, whole |-> whole, end |-> Size(active.chunks) + n]

(* A file with chunks has a last one, ... *)
LEMMA LastChunk ==
  ASSUME NEW file \in Seq(Chunks), file # <<>>
  PROVE  Len(file) \in DOMAIN file /\ file[Len(file)] \in Chunks
<1>1. Len(file) \in Nat /\ Len(file) # 0 /\ DOMAIN file = 1 .. Len(file)
  BY EmptySeq
<1>2. Len(file) \in 1 .. Len(file)
  BY <1>1
<1> QED
  BY <1>1, <1>2

(* ... which tells the size. *)
LEMMA SizeType ==
  ASSUME NEW file \in Seq(Chunks)
  PROVE  Size(file) \in Nat /\ (file # <<>> => Size(file) > 0)
<1>1. ASSUME file # <<>>
      PROVE  file[Len(file)].end \in Nat \ {0}
  BY <1>1, LastChunk DEF Chunks
<1> QED
  BY <1>1 DEF Size

(* The active file after a write. *)
LEMMA AppendedFields ==
  ASSUME FilesOK, WritersOK, NEW r \in Records, NEW whole \in BOOLEAN,
         NEW n \in Nat \ {0}
  PROVE  /\ Appended(r, whole, n) \in ActiveFiles
         /\ Appended(r, whole, n).exists = active.exists
         /\ Appended(r, whole, n).chunks
                = Append(active.chunks, NewChunk(r, whole, n))
         /\ Appended(r, whole, n).synced = active.synced
         /\ Appended(r, whole, n).mtime = clock
         /\ NewChunk(r, whole, n) \in Chunks
         /\ Len(Appended(r, whole, n).chunks) = Len(active.chunks) + 1
<1>1. active \in ActiveFiles /\ active.chunks \in Seq(Chunks) /\ clock \in Nat
  BY DEF FilesOK, WritersOK, ActiveFiles
<1>2. Size(active.chunks) + n \in Nat \ {0}
  BY <1>1, SizeType
<1>3. NewChunk(r, whole, n) \in Chunks
  BY <1>2 DEF NewChunk, Chunks
<1> DEFINE longer == Append(active.chunks, NewChunk(r, whole, n))
<1>4. longer \in Seq(Chunks) /\ Len(longer) = Len(active.chunks) + 1
  BY <1>1, <1>3
<1>5. Appended(r, whole, n)
        = [active EXCEPT !.chunks = longer, !.mtime = clock]
  BY DEF Appended, NewChunk
<1> HIDE DEF longer
<1>6. /\ Appended(r, whole, n) \in ActiveFiles
      /\ Appended(r, whole, n).exists = active.exists
      /\ Appended(r, whole, n).chunks = longer
      /\ Appended(r, whole, n).synced = active.synced
      /\ Appended(r, whole, n).mtime = clock
  BY <1>1, <1>4, <1>5 DEF ActiveFiles
<1> QED
  BY <1>3, <1>4, <1>6 DEF longer

(* Nobody holds the mutex, and there is no file. *)
LEMMA InitSinkInv == Init => SinkInv
  BY SinkAssumption DEF Init, SinkInv, WritersOK, FilesOK, HolderInv, ActiveFiles, NoFile, NoHandle,
         Labels, Locked, Stamps, NoStamp

(* A writer on its way carries a frame. *)
LEMMA HolderWrites ==
  ASSUME WritersOK, NEW w \in Writers, pc[w] # "idle"
  PROVE  frame[w] \in Records /\ NextBytes(w) \in Nat \ {0}
  BY SinkAssumption DEF WritersOK, NextBytes

(* SinkInv, action by action. *)
LEMMA WriteSanitizedFrameInv ==
  ASSUME SinkInv, NEW w \in Writers, NEW r \in Records,
         WriteSanitizedFrame(w, r)
  PROVE  SinkInv'
<1>1. WritersOK'
  BY SinkAssumption DEF SinkInv, WritersOK, WriteSanitizedFrame, Goto, Labels, Locked
<1>2. HolderInv'
  BY DEF SinkInv, WritersOK, HolderInv, WriteSanitizedFrame, Goto
<1>3. FilesOK'
  BY DEF SinkInv, FilesOK, WriteSanitizedFrame
<1> QED
  BY <1>1, <1>2, <1>3 DEF SinkInv

(* SinkInv, action by action. *)
LEMMA LockInv ==
  ASSUME SinkInv, NEW w \in Writers, Lock(w)
  PROVE  SinkInv'
<1>1. WritersOK'
  BY SinkAssumption DEF SinkInv, WritersOK, Lock, Goto, Labels, Locked
<1>2. HolderInv'
  BY DEF SinkInv, WritersOK, HolderInv, Lock, Goto
<1>3. FilesOK'
  BY DEF SinkInv, FilesOK, Lock
<1> QED
  BY <1>1, <1>2, <1>3 DEF SinkInv

LEMMA EnsureWriterInv ==
  ASSUME SinkInv, NEW w \in Writers, EnsureWriter(w)
  PROVE  SinkInv'
<1>1. pc[w] \in Locked /\ pc[w] = "ensure"
  BY DEF EnsureWriter, Locked
<1>2. now' \in Nat /\ stamp' \in Stamps
  BY DayMonotone DEF SinkInv, WritersOK, FilesOK, EnsureWriter, ArchiveStamp, Stamps
<1>3. PICK label \in {"close", "write", "stat"} :
        /\ Goto(w, label)
        /\ label \in {"close", "write"} <=> handle.open
        /\ label = "close" => stamp' # NoStamp
  BY DEF EnsureWriter, ArchiveStamp, NoStamp
<1>4. /\ WritersOK' /\ pc'[w] = label
      /\ \A v \in Writers : v # w => pc'[v] = pc[v] /\ pc[v] \notin Locked
  BY <1>1, <1>2, <1>3, GoesOn DEF SinkInv, EnsureWriter, Locked
<1>5. FilesOK' /\ UNCHANGED <<active, handle>>
  BY DEF SinkInv, FilesOK, EnsureWriter
<1>6. HolderInv'
  BY <1>3, <1>4, <1>5 DEF SinkInv, HolderInv, Locked
<1> QED
  BY <1>4, <1>5, <1>6 DEF SinkInv

LEMMA CloseFileInv ==
  ASSUME SinkInv, NEW w \in Writers, CloseFile(w)
  PROVE  SinkInv'
<1>1. pc[w] \in Locked /\ pc[w] = "close" /\ stamp # NoStamp
  BY DEF CloseFile, Locked, SinkInv, HolderInv
<1>2. FilesOK' /\ UNCHANGED active /\ ~handle'.open
  BY DEF SinkInv, FilesOK, CloseFile, NoHandle
<1>3. CASE Return(w, "error")
  BY <1>1, <1>2, <1>3, Returns DEF SinkInv, HolderInv, Locked
<1>4. CASE Goto(w, "rotate") /\ UNCHANGED <<now, stamp>> /\ UnchangedWriter
  <2>1. /\ WritersOK' /\ pc'[w] = "rotate"
        /\ \A v \in Writers : v # w => pc'[v] = pc[v] /\ pc[v] \notin Locked
    BY <1>1, <1>4, GoesOn DEF SinkInv, Locked, WritersOK
  <2> QED
    BY <1>1, <1>2, <1>4, <2>1 DEF SinkInv, HolderInv, Locked
<1> QED
  BY <1>3, <1>4 DEF CloseFile

(* The archive that a rename makes. *)
Archived(name) ==
    /\ name \in Stamps \X (0 .. ArchiveTries - 1)
    /\ name \notin DOMAIN archives
    /\ name[1] = stamp /\ stamp # NoStamp
    /\ DOMAIN archives' = DOMAIN archives \cup {name}
    /\ \A n \in DOMAIN archives : archives'[n] = archives[n]
    /\ archives'[name] = active.chunks
    /\ active' = NoFile

(* Move archives the active file or leaves both alone. *)
LEMMA MoveFacts ==
  ASSUME SinkInv, NEW w \in Writers, Move(w)
  PROVE  /\ pc[w] \in Locked /\ stamp # NoStamp
         /\ ~handle.open /\ UNCHANGED handle
         /\ \/ UNCHANGED <<active, archives>>
            \/ active.exists /\ \E name : Archived(name)
         /\ \/ /\ Goto(w, AfterRotation(w)) /\ UNCHANGED <<now, stamp>>
               /\ UnchangedWriter
            \/ Return(w, "error") /\ UNCHANGED <<active, archives>>
<1>1. /\ pc[w] \in Locked /\ stamp # NoStamp /\ stamp \in Stamps
      /\ ~handle.open /\ UNCHANGED handle
  BY DEF SinkInv, WritersOK, HolderInv, Move, Locked
<1>2. ASSUME FreeNames # {}, active' = NoFile,
             archives' = [n \in DOMAIN archives \cup
                                {<<stamp, ArchiveName(FreeNames)>>} |->
                            IF n = <<stamp, ArchiveName(FreeNames)>>
                            THEN active.chunks ELSE archives[n]]
      PROVE  Archived(<<stamp, ArchiveName(FreeNames)>>)
  BY <1>1, <1>2, ArchiveNameIsFree DEF Archived
<1> QED
  BY <1>1, <1>2 DEF Move

LEMMA MoveInv ==
  ASSUME SinkInv, NEW w \in Writers, Move(w)
  PROVE  SinkInv'
<1>1. FilesOK' /\ UNCHANGED handle /\ ~handle.open
  <2>1. CASE UNCHANGED <<active, archives>>
    BY <2>1, MoveFacts DEF SinkInv, FilesOK
  <2>2. ASSUME NEW name, Archived(name)
        PROVE  FilesOK'
    <3>1. NoFile \in ActiveFiles /\ NoFile.synced = 0 /\ NoFile.chunks = <<>>
      BY DEF NoFile, ActiveFiles
    <3>2. active.chunks \in Seq(Chunks)
      BY DEF SinkInv, FilesOK, ActiveFiles
    <3> QED
      BY <2>2, <3>1, <3>2, MoveFacts DEF SinkInv, FilesOK, Archived
  <2> QED
    BY <2>1, <2>2, MoveFacts
<1>2. CASE Return(w, "error")
  BY <1>1, <1>2, MoveFacts, Returns DEF SinkInv, HolderInv, Locked
<1>3. CASE Goto(w, AfterRotation(w)) /\ UNCHANGED <<now, stamp>> /\ UnchangedWriter
  <2>1. AfterRotation(w) \in {"stat", "open"}
    BY DEF AfterRotation
  <2>2. /\ WritersOK' /\ pc'[w] = AfterRotation(w)
        /\ \A v \in Writers : v # w => pc'[v] = pc[v] /\ pc[v] \notin Locked
    BY <1>3, <2>1, MoveFacts, GoesOn DEF SinkInv, Locked, WritersOK
  <2> QED
    BY <1>1, <1>3, <2>1, <2>2 DEF SinkInv, HolderInv, Locked
<1> QED
  BY <1>2, <1>3, MoveFacts

LEMMA StatPathInv ==
  ASSUME SinkInv, NEW w \in Writers, StatPath(w)
  PROVE  SinkInv'
<1>1. pc[w] \in Locked /\ ~handle.open /\ UNCHANGED <<active, handle>>
  BY DEF StatPath, Locked, SinkInv, HolderInv
<1>2. FilesOK'
  BY DEF SinkInv, FilesOK, StatPath
<1>3. CASE Return(w, "error")
  BY <1>1, <1>2, <1>3, Returns DEF SinkInv, HolderInv, Locked
<1>4. CASE /\ Goto(w, "open") /\ UNCHANGED <<now, stamp>> /\ UnchangedWriter
  <2>1. /\ WritersOK' /\ pc'[w] = "open"
        /\ \A v \in Writers : v # w => pc'[v] = pc[v] /\ pc[v] \notin Locked
    BY <1>1, <1>4, GoesOn DEF SinkInv, Locked, WritersOK
  <2> QED
    BY <1>1, <1>2, <2>1 DEF SinkInv, HolderInv, Locked
<1>5. CASE /\ stamp' = ArchiveStamp(Day(active.mtime), now, StaleDay)
           /\ Goto(w, "move") /\ UNCHANGED now /\ UnchangedWriter
  <2>1. now \in Nat /\ Day(active.mtime) \in Nat
    BY DayMonotone DEF SinkInv, WritersOK, FilesOK, ActiveFiles
  <2>2. stamp' \in Stamps /\ stamp' # NoStamp
    BY <1>5, <2>1 DEF ArchiveStamp, Stamps, NoStamp
  <2>3. /\ WritersOK' /\ pc'[w] = "move"
        /\ \A v \in Writers : v # w => pc'[v] = pc[v] /\ pc[v] \notin Locked
    BY <1>1, <1>5, <2>2, GoesOn DEF SinkInv, Locked, WritersOK
  <2> QED
    BY <1>1, <1>2, <2>2, <2>3 DEF SinkInv, HolderInv, Locked
<1> QED
  BY <1>3, <1>4, <1>5 DEF StatPath

LEMMA OpenFileInv ==
  ASSUME SinkInv, NEW w \in Writers, OpenFile(w)
  PROVE  SinkInv'
<1>1. pc[w] \in Locked /\ ~handle.open /\ UNCHANGED archives
  BY DEF OpenFile, Locked, SinkInv, HolderInv
<1>2. CASE Return(w, "error") /\ UNCHANGED <<active, handle>>
  BY <1>1, <1>2, Returns DEF SinkInv, HolderInv, FilesOK, Locked
<1>3. CASE /\ active' = IF active.exists THEN active
                        ELSE [NoFile EXCEPT !.exists = TRUE, !.mtime = clock]
           /\ \E size \in {Size(active.chunks)} \cup
                           (IF "fstat" \in Faults THEN {0} ELSE {}) :
                handle' = [open |-> TRUE, size |-> size, day |-> Day(now)]
           /\ Goto(w, "write") /\ UNCHANGED <<now, stamp>> /\ UnchangedWriter
  <2>1. handle' \in [open : BOOLEAN, size : Nat, day : Nat] /\ handle'.open
    BY <1>3, SizeType, DayMonotone
    DEF SinkInv, FilesOK, ActiveFiles, WritersOK
  <2>2. /\ active' \in ActiveFiles /\ active'.exists
        /\ active'.synced <= Len(active'.chunks)
    <3>1. CASE active.exists
      BY <1>3, <3>1 DEF SinkInv, FilesOK
    <3>2. CASE ~active.exists
      <4>1. active' = [exists |-> TRUE, chunks |-> <<>>, synced |-> 0,
                       mtime |-> clock]
        BY <1>3, <3>2 DEF NoFile
      <4> QED
        BY <4>1 DEF SinkInv, WritersOK, ActiveFiles
    <3> QED
      BY <3>1, <3>2
  <2>3. FilesOK'
    BY <1>1, <2>1, <2>2 DEF SinkInv, FilesOK
  <2>4. /\ WritersOK' /\ pc'[w] = "write"
        /\ \A v \in Writers : v # w => pc'[v] = pc[v] /\ pc[v] \notin Locked
    BY <1>1, <1>3, GoesOn DEF SinkInv, Locked, WritersOK
  <2> QED
    BY <1>1, <2>1, <2>2, <2>3, <2>4 DEF SinkInv, HolderInv, Locked
<1> QED
  BY <1>1, <1>2, <1>3 DEF OpenFile

(* Whatever a write leaves of its line, the active file stays a file. *)
LEMMA AppendedFilesOK ==
  ASSUME SinkInv, NEW w \in Writers, pc[w] = "write", NEW whole \in BOOLEAN,
         NEW n \in Nat \ {0}, active' = Appended(frame[w], whole, n),
         UNCHANGED archives,
         handle' \in [open : BOOLEAN, size : Nat, day : Nat]
  PROVE  FilesOK' /\ active'.exists
<1>1. frame[w] \in Records /\ active.exists
  BY HolderWrites DEF SinkInv, HolderInv
<1>2. /\ active' \in ActiveFiles /\ active'.exists = active.exists
      /\ active'.synced = active.synced
      /\ Len(active'.chunks) = Len(active.chunks) + 1
  BY <1>1, AppendedFields DEF SinkInv
<1>3. active.synced \in Nat /\ Len(active.chunks) \in Nat
  BY DEF SinkInv, FilesOK, ActiveFiles
<1> QED
  BY <1>1, <1>2, <1>3 DEF SinkInv, FilesOK

LEMMA WriteLineInv ==
  ASSUME SinkInv, NEW w \in Writers, WriteLine(w)
  PROVE  SinkInv'
<1>1. pc[w] \in Locked /\ pc[w] = "write" /\ NextBytes(w) \in Nat \ {0}
  BY HolderWrites DEF WriteLine, Locked, SinkInv
<1>2. handle' \in [open : BOOLEAN, size : Nat, day : Nat] /\ handle'.open
  BY <1>1 DEF WriteLine, SinkInv, FilesOK, HolderInv
<1>3. FilesOK' /\ active'.exists
  BY <1>1, <1>2, AppendedFilesOK DEF WriteLine
<1>4. CASE Return(w, "nil")
  BY <1>1, <1>2, <1>3, <1>4, Returns DEF SinkInv, HolderInv, Locked
<1>5. CASE Goto(w, "sync") /\ UNCHANGED <<now, stamp>> /\ UnchangedWriter
  <2>1. /\ WritersOK' /\ pc'[w] = "sync"
        /\ \A v \in Writers : v # w => pc'[v] = pc[v] /\ pc[v] \notin Locked
    BY <1>1, <1>5, GoesOn DEF SinkInv, Locked, WritersOK
  <2> QED
    BY <1>2, <1>3, <2>1 DEF SinkInv, HolderInv, Locked
<1> QED
  BY <1>4, <1>5 DEF WriteLine

LEMMA WriteFailsInv ==
  ASSUME SinkInv, NEW w \in Writers, WriteFails(w)
  PROVE  SinkInv'
<1>1. pc[w] \in Locked /\ pc[w] = "write" /\ Return(w, "error")
      /\ UNCHANGED <<archives, handle>>
  BY DEF WriteFails, Locked
<1>2. FilesOK' /\ active'.exists
  <2>1. CASE UNCHANGED active
    BY <1>1, <2>1 DEF SinkInv, FilesOK, HolderInv
  <2>2. CASE active' = Appended(frame[w], FALSE, FragmentBytes)
    BY <1>1, <2>2, AppendedFilesOK, SinkAssumption DEF SinkInv, FilesOK
  <2> QED
    BY <2>1, <2>2 DEF WriteFails
<1> QED
  BY <1>1, <1>2, Returns DEF SinkInv, HolderInv, Locked

LEMMA SyncFileInv ==
  ASSUME SinkInv, NEW w \in Writers, SyncFile(w)
  PROVE  SinkInv'
<1>1. PICK err : Return(w, err)
  BY DEF SyncFile
<1>2. /\ pc[w] \in Locked
      /\ UNCHANGED <<archives, handle>>
      /\ \/ UNCHANGED active
         \/ active' = [active EXCEPT !.synced = Len(active.chunks)]
  BY DEF SyncFile, Locked
<1>3. FilesOK' /\ active'.exists = active.exists
  BY <1>2 DEF SinkInv, FilesOK, ActiveFiles
<1> QED
  BY <1>1, <1>2, <1>3, Returns DEF SinkInv, HolderInv, Locked

LEMMA CloseInv ==
  ASSUME SinkInv, Close
  PROVE  SinkInv'
<1>1. FilesOK' /\ UNCHANGED active /\ ~handle'.open
  BY DEF SinkInv, FilesOK, Close, NoHandle
<1>2. WritersOK' /\ \A w \in Writers : pc'[w] = pc[w] /\ pc[w] \notin Locked
  BY SinkAssumption DEF SinkInv, WritersOK, Close
<1> QED
  BY <1>1, <1>2 DEF SinkInv, HolderInv, Locked

(* The active file, or the one that the write under way makes of it. *)
Written(file, mtime) ==
    \/ file = active.chunks /\ mtime = active.mtime
    \/ \E w \in Writers, whole \in BOOLEAN, n \in Nat \ {0} :
        /\ pc[w] = "write"
        /\ ~whole => "torn" \in Faults
        /\ whole => n = NextBytes(w)
        /\ file = Append(active.chunks, NewChunk(frame[w], whole, n))
        /\ mtime = clock

(* A chunk of which a loss of power has left a fragment. *)
Torn(i, file) ==
    /\ "power" \in Faults /\ "torn" \in Faults
    /\ active.synced < i
    /\ active'.chunks[i].record = file[i].record
    /\ active'.chunks[i].whole = FALSE

(* What a crash leaves of it: a prefix, with all that was fsynced, whose   *)
(* last chunk may be torn.                                                 *)
Survives(file, n) ==
    /\ Written(file, active'.mtime)
    /\ active'.chunks \in Seq(Chunks) /\ Len(active'.chunks) = n
    /\ \A i \in 1 .. n : active'.chunks[i] = file[i] \/ Torn(i, file)
    /\ active.synced <= n /\ n <= Len(file)
    /\ n < Len(file) => "power" \in Faults

(* The file that a process leaves that dies. *)
LEMMA InterruptedFile ==
  ASSUME SinkInv, NEW file \in Interrupted
  PROVE  /\ file \in ActiveFiles
         /\ file.synced = active.synced /\ file.exists = active.exists
         /\ file.synced <= Len(file.chunks)
         /\ ~file.exists => file.chunks = <<>>
         /\ Written(file.chunks, file.mtime)
<1>1. CASE file = active
  BY <1>1 DEF SinkInv, FilesOK, Written
<1>2. ASSUME mu # Free, pc[mu] = "write", NEW whole \in BOOLEAN, NEW n \in Nat \ {0},
             ~whole => "torn" \in Faults, whole => n = NextBytes(mu),
             file = Appended(frame[mu], whole, n)
      PROVE  /\ file \in ActiveFiles
             /\ file.synced = active.synced /\ file.exists = active.exists
             /\ file.synced <= Len(file.chunks) /\ active.exists
             /\ Written(file.chunks, file.mtime)
  <2>1. mu \in Writers /\ frame[mu] \in Records
    BY <1>2, HolderWrites DEF SinkInv, WritersOK
  <2>2. active.exists
    BY <1>2, <2>1 DEF SinkInv, HolderInv
  <2>3. active.synced \in Nat /\ Len(active.chunks) \in Nat
        /\ active.synced <= Len(active.chunks)
    BY DEF SinkInv, FilesOK, ActiveFiles
  <2>4. /\ file \in ActiveFiles
        /\ file.synced = active.synced /\ file.exists = active.exists
        /\ file.mtime = clock
        /\ file.chunks = Append(active.chunks, NewChunk(frame[mu], whole, n))
        /\ Len(file.chunks) = Len(active.chunks) + 1
    BY <1>2, <2>1, AppendedFields DEF SinkInv
  <2>5. file.synced <= Len(file.chunks)
    BY <2>3, <2>4
  <2>6. Written(file.chunks, file.mtime)
    BY <1>2, <2>1, <2>4 DEF Written
  <2> QED
    BY <2>2, <2>4, <2>5, <2>6
<1>3. ASSUME file # active
      PROVE  /\ mu \in Writers /\ mu # Free /\ pc[mu] = "write"
             /\ \/ file = Appended(frame[mu], TRUE, NextBytes(mu))
                \/ /\ file = Appended(frame[mu], FALSE, FragmentBytes)
                   /\ "torn" \in Faults
  BY <1>3 DEF Interrupted, SinkInv, WritersOK
<1>4. CASE file # active
  <2>1. NextBytes(mu) \in Nat \ {0} /\ FragmentBytes \in Nat \ {0}
    BY <1>3, <1>4, HolderWrites, SinkAssumption DEF SinkInv
  <2> QED
    BY <1>2, <1>3, <1>4, <2>1
<1> QED
  BY <1>1, <1>4

(* A prefix of a file, ... *)
LEMMA PrefixOf ==
  ASSUME NEW file \in Seq(Chunks), NEW n \in Nat, n <= Len(file)
  PROVE  /\ SubSeq(file, 1, n) \in Seq(Chunks) /\ Len(SubSeq(file, 1, n)) = n
         /\ \A i \in 1 .. n : SubSeq(file, 1, n)[i] = file[i]
<1>1. \A i \in 1 .. n : i \in 1 .. Len(file)
  OBVIOUS
<1> QED
  BY <1>1, SubSeqProperties

(* ... and one whose last chunk is torn.                                   *)
LEMMA TornFile ==
  ASSUME NEW file \in Seq(Chunks), NEW n \in Nat \ {0}, n <= Len(file)
  PROVE  /\ TornAt(file, n) \in Seq(Chunks) /\ Len(TornAt(file, n)) = n
         /\ \A i \in 1 .. n : i # n => TornAt(file, n)[i] = file[i]
         /\ TornAt(file, n)[n].record = file[n].record
         /\ TornAt(file, n)[n].whole = FALSE
<1> DEFINE front == SubSeq(file, 1, n - 1)
<1> DEFINE rest == [record |-> file[n].record, whole |-> FALSE,
                    end    |-> Size(front) + FragmentBytes]
<1>1. n - 1 \in Nat /\ n - 1 <= Len(file)
  OBVIOUS
<1>2. /\ front \in Seq(Chunks) /\ Len(front) = n - 1
      /\ \A i \in 1 .. n - 1 : front[i] = file[i]
  BY <1>1, PrefixOf
<1>3. TornAt(file, n) = Append(front, rest)
  BY DEF TornAt
<1> HIDE DEF front
<1>4. rest \in Chunks
  <2>1. Size(front) \in Nat
    BY <1>2, SizeType
  <2>2. file[n] \in Chunks
    OBVIOUS
  <2> QED
    BY <2>1, <2>2, SinkAssumption DEF Chunks
<1>5. rest.record = file[n].record /\ rest.whole = FALSE
  OBVIOUS
<1> HIDE DEF rest
<1>6. /\ Append(front, rest) \in Seq(Chunks) /\ Len(Append(front, rest)) = n
      /\ \A i \in 1 .. n - 1 : Append(front, rest)[i] = front[i]
      /\ Append(front, rest)[n] = rest
  BY <1>2, <1>4, AppendProperties
<1>7. \A i \in 1 .. n : i # n => i \in 1 .. n - 1
  OBVIOUS
<1> QED
  BY <1>2, <1>3, <1>5, <1>6, <1>7

(* A crash keeps what is durable, and the file it leaves is well formed. *)
LEMMA CrashFacts ==
  ASSUME SinkInv, Crash
  PROVE  /\ active' \in ActiveFiles
         /\ active'.synced = active.synced /\ active'.exists = active.exists
         /\ active'.synced <= Len(active'.chunks)
         /\ ~active'.exists => active'.chunks = <<>>
         /\ \E file \in Seq(Chunks), n \in Nat : Survives(file, n)
<1>1. PICK file \in Interrupted :
        active' = file \/ ("power" \in Faults /\ active' \in PowerCut(file))
  BY DEF Crash
<1>2. /\ file \in ActiveFiles /\ file.chunks \in Seq(Chunks)
      /\ Len(file.chunks) \in Nat
      /\ file.synced \in Nat /\ file.synced <= Len(file.chunks)
      /\ file.synced = active.synced /\ file.exists = active.exists
  BY <1>1, InterruptedFile DEF ActiveFiles
<1>3. Written(file.chunks, file.mtime)
  BY <1>1, InterruptedFile
<1>4. CASE active' = file
  <2>1. Survives(file.chunks, Len(file.chunks))
    BY <1>2, <1>3, <1>4 DEF Survives
  <2> QED
    BY <1>1, <1>2, <1>4, <2>1, InterruptedFile
<1>5. ASSUME "power" \in Faults, NEW n \in file.synced .. Len(file.chunks),
             active' = [file EXCEPT !.chunks = SubSeq(file.chunks, 1, n)]
      PROVE  /\ active' \in ActiveFiles
             /\ active'.synced = active.synced /\ active'.exists = active.exists
             /\ active'.synced <= Len(active'.chunks)
             /\ ~active'.exists => active'.chunks = <<>>
             /\ Survives(file.chunks, n) /\ n \in Nat
  <2>2. n \in Nat /\ file.synced <= n /\ n <= Len(file.chunks)
    BY <1>2
  <2> DEFINE shorter == SubSeq(file.chunks, 1, n)
  <2>3. /\ shorter \in Seq(Chunks) /\ Len(shorter) = n
        /\ \A i \in 1 .. n : shorter[i] = file.chunks[i]
    BY <1>2, <2>2, PrefixOf
  <2>4. file.chunks = <<>> => shorter = <<>>
    BY <1>2, <2>2, <2>3, EmptySeq
  <2> HIDE DEF shorter
  <2>5. /\ active' \in ActiveFiles /\ active'.chunks = shorter
        /\ active'.synced = file.synced /\ active'.exists = file.exists
        /\ active'.mtime = file.mtime
    BY <1>2, <1>5, <2>3 DEF ActiveFiles, shorter
  <2>6. Survives(file.chunks, n)
    BY <1>2, <1>3, <1>5, <2>2, <2>3, <2>5 DEF Survives
  <2> QED
    BY <1>1, <1>2, <2>2, <2>3, <2>4, <2>5, <2>6, InterruptedFile
<1>6. ASSUME "power" \in Faults, "torn" \in Faults,
             NEW n \in file.synced + 1 .. Len(file.chunks),
             active' = [file EXCEPT !.chunks = TornAt(file.chunks, n)]
      PROVE  /\ active' \in ActiveFiles
             /\ active'.synced = active.synced /\ active'.exists = active.exists
             /\ active'.synced <= Len(active'.chunks)
             /\ ~active'.exists => active'.chunks = <<>>
             /\ Survives(file.chunks, n) /\ n \in Nat
  <2>1. n \in Nat \ {0} /\ file.synced < n /\ n <= Len(file.chunks)
    BY <1>2
  <2> DEFINE torn == TornAt(file.chunks, n)
  <2>2. /\ torn \in Seq(Chunks) /\ Len(torn) = n
        /\ \A i \in 1 .. n : i # n => torn[i] = file.chunks[i]
        /\ torn[n].record = file.chunks[n].record /\ torn[n].whole = FALSE
    BY <1>2, <2>1, TornFile
  <2>3. file.exists
    <3>1. file.chunks # <<>>
      BY <1>2, <2>1
    <3> QED
      BY <1>1, <3>1, InterruptedFile
  <2> HIDE DEF torn
  <2>4. /\ active' \in ActiveFiles /\ active'.chunks = torn
        /\ active'.synced = file.synced /\ active'.exists = file.exists
        /\ active'.mtime = file.mtime
    BY <1>2, <1>6, <2>2 DEF ActiveFiles, torn
  <2>5. \A i \in 1 .. n : active'.chunks[i] = file.chunks[i] \/ Torn(i, file.chunks)
    BY <1>2, <1>6, <2>1, <2>2, <2>4 DEF Torn
  <2>6. Survives(file.chunks, n)
    BY <1>2, <1>3, <1>6, <2>1, <2>2, <2>4, <2>5 DEF Survives
  <2> QED
    BY <1>2, <2>1, <2>2, <2>3, <2>4, <2>6
<1>7. CASE "power" \in Faults /\ active' \in PowerCut(file)
  <2>1. \/ \E n \in file.synced .. Len(file.chunks) :
            active' = [file EXCEPT !.chunks = SubSeq(file.chunks, 1, n)]
        \/ /\ "torn" \in Faults
           /\ \E n \in file.synced + 1 .. Len(file.chunks) :
                active' = [file EXCEPT !.chunks = TornAt(file.chunks, n)]
    BY <1>7 DEF PowerCut
  <2> QED
    BY <1>2, <1>5, <1>6, <1>7, <2>1
<1> QED
  BY <1>1, <1>4, <1>7

LEMMA CrashInv ==
  ASSUME SinkInv, Crash
  PROVE  SinkInv'
<1>1. FilesOK' /\ ~handle'.open
  BY CrashFacts DEF SinkInv, FilesOK, Crash, NoHandle
<1>2. WritersOK' /\ \A w \in Writers : pc'[w] = "idle"
  BY SinkAssumption
  DEF SinkInv, WritersOK, Crash, Labels, Locked, Stamps, NoStamp
<1> QED
  BY <1>1, <1>2 DEF SinkInv, HolderInv

(* The mutex, the handle and the files stay in step. *)
LEMMA NextSinkInv == SinkInv /\ [Next]_vars => SinkInv'
<1> SUFFICES ASSUME SinkInv, [Next]_vars
             PROVE  SinkInv'
  OBVIOUS
<1>1. ASSUME NEW w \in Writers, Advance(w)
      PROVE  SinkInv'
  BY <1>1, EnsureWriterInv, CloseFileInv, MoveInv, StatPathInv, OpenFileInv,
     WriteLineInv, WriteFailsInv, SyncFileInv DEF Advance
<1>2. CASE Tick
  BY <1>2 DEF Tick, SinkInv, WritersOK, FilesOK, HolderInv
<1>3. CASE UNCHANGED vars
  BY <1>3 DEF vars, SinkInv, WritersOK, FilesOK, HolderInv
<1> QED
  BY <1>1, <1>2, <1>3, WriteSanitizedFrameInv, LockInv, CloseInv, CrashInv
  DEF Next

(* The sink keeps its types: in particular a writer that holds the mutex   *)
(* is the only one inside, and no archive has a name out of range.         *)
THEOREM SinkTypeCorrect == Spec => []TypeOK
<1>1. Spec => []SinkInv
  BY InitSinkInv, NextSinkInv, PTL DEF Spec
<1> QED
  BY <1>1, SinkInvIsTyped, PTL

-----------------------------------------------------------------------------
(* What the steps of the lock's holder come to, seen from the files. *)
KeepsFiles ==
    /\ active'.chunks = active.chunks /\ active'.synced = active.synced
    /\ UNCHANGED archives

AddsChunk(w, whole, n) ==
    /\ pc[w] = "write"
    /\ active'.chunks = Append(active.chunks, NewChunk(frame[w], whole, n))
    /\ active'.synced = active.synced
    /\ UNCHANGED archives

Others(w) ==
    /\ UNCHANGED <<clock, born>>
    /\ \A v \in Writers : v # w => pc'[v] = pc[v] /\ frame'[v] = frame[v]

EndsWith(w, acks) ==
    /\ Others(w)
    /\ pc'[w] = "idle"
    /\ frame' = [frame EXCEPT ![w] = NoRecord]
    /\ acked' = acked \cup acks

(* The holder goes on, and may have renamed the active file. *)
GoOnEffect(w) ==
    /\ Others(w)
    /\ pc[w] \notin {"write", "sync"} /\ pc'[w] \in Locked \ {"sync"}
    /\ UNCHANGED <<frame, acked>>
    /\ KeepsFiles \/ \E name : Archived(name)

FailEffect(w) ==
    /\ EndsWith(w, {})
    /\ \/ KeepsFiles
       \/ "torn" \in Faults /\ AddsChunk(w, FALSE, FragmentBytes)

(* The line is in the file, and fsync is to come ... *)
PutEffect(w) ==
    /\ Others(w)
    /\ Sync /\ AddsChunk(w, TRUE, NextBytes(w))
    /\ pc'[w] = "sync"
    /\ UNCHANGED <<frame, acked>>

(* ... or not. *)
AckEffect(w) ==
    ~Sync /\ AddsChunk(w, TRUE, NextBytes(w)) /\ EndsWith(w, {frame[w]})

SyncEffect(w) ==
    /\ pc[w] = "sync"
    /\ active'.chunks = active.chunks /\ UNCHANGED archives
    /\ active'.synced = Len(active.chunks)
    /\ EndsWith(w, {frame[w]})

Effect(w) ==
    /\ pc[w] \in Locked
    /\ \/ GoOnEffect(w)
       \/ FailEffect(w)
       \/ PutEffect(w)
       \/ AckEffect(w)
       \/ SyncEffect(w)

(* A return ends the write, acknowledged or not. *)
LEMMA ReturnEnds ==
  ASSUME WritersOK, NEW w \in Writers
  PROVE  /\ Return(w, "error") => EndsWith(w, {})
         /\ Return(w, "nil") => EndsWith(w, {frame[w]})
  BY DEF WritersOK, Return, EndsWith, Others, Goto

(* A step of one writer is no step of the others. *)
LEMMA GotoOthers ==
  ASSUME WritersOK, NEW w \in Writers, NEW label, Goto(w, label), UnchangedWriter
  PROVE  Others(w) /\ pc'[w] = label /\ UNCHANGED <<frame, acked>>
  BY DEF WritersOK, Goto, UnchangedWriter, Others

(* Effect, for a step that goes on and for one that fails. *)
LEMMA GoesOnEffect ==
  ASSUME WritersOK, NEW w \in Writers, pc[w] \in Locked \ {"write", "sync"},
         NEW label \in Locked \ {"sync"}, Goto(w, label), UnchangedWriter,
         KeepsFiles \/ \E name : Archived(name)
  PROVE  Effect(w)
<1>1. GoOnEffect(w)
  BY GotoOthers DEF GoOnEffect
<1> QED
  BY <1>1 DEF Effect

LEMMA FailsEffect ==
  ASSUME WritersOK, NEW w \in Writers, pc[w] \in Locked, Return(w, "error"),
         \/ KeepsFiles
         \/ "torn" \in Faults /\ AddsChunk(w, FALSE, FragmentBytes)
  PROVE  Effect(w)
<1>1. FailEffect(w)
  BY ReturnEnds DEF FailEffect
<1> QED
  BY <1>1 DEF Effect

(* Every step of the holder has one of the effects. *)
LEMMA AdvanceHasEffect ==
  ASSUME SinkInv, NEW w \in Writers, Advance(w)
  PROVE  Effect(w)
<1> USE DEF Locked
<1>0. WritersOK
  BY DEF SinkInv
<1>1. CASE EnsureWriter(w)
  <2>1. pc[w] = "ensure" /\ KeepsFiles /\ UnchangedWriter
    BY <1>1 DEF EnsureWriter, KeepsFiles
  <2>2. PICK label \in {"close", "write", "stat"} : Goto(w, label)
    BY <1>1 DEF EnsureWriter
  <2> QED
    BY <1>0, <2>1, <2>2, GoesOnEffect
<1>2. CASE CloseFile(w)
  <2>1. pc[w] = "close" /\ KeepsFiles
    BY <1>2 DEF CloseFile, KeepsFiles
  <2>2. CASE Goto(w, "rotate") /\ UnchangedWriter
    BY <1>0, <2>1, <2>2, GoesOnEffect
  <2>3. CASE Return(w, "error")
    BY <1>0, <2>1, <2>3, FailsEffect
  <2> QED
    BY <1>2, <2>2, <2>3 DEF CloseFile
<1>3. CASE Move(w)
  <2>1. pc[w] \in {"rotate", "move"} /\ AfterRotation(w) \in {"stat", "open"}
    BY <1>3 DEF Move, AfterRotation
  <2>2. CASE Return(w, "error") /\ UNCHANGED <<active, archives>>
    BY <1>0, <2>1, <2>2, FailsEffect DEF KeepsFiles
  <2>3. CASE Goto(w, AfterRotation(w)) /\ UnchangedWriter
    <3>1. KeepsFiles \/ \E name : Archived(name)
      BY <1>3, MoveFacts DEF KeepsFiles
    <3> QED
      BY <1>0, <2>1, <2>3, <3>1, GoesOnEffect
  <2> QED
    BY <1>3, <2>2, <2>3, MoveFacts
<1>4. CASE StatPath(w)
  <2>1. pc[w] = "stat" /\ KeepsFiles
    BY <1>4 DEF StatPath, KeepsFiles
  <2>2. CASE Goto(w, "move") /\ UnchangedWriter
    BY <1>0, <2>1, <2>2, GoesOnEffect
  <2>3. CASE Goto(w, "open") /\ UnchangedWriter
    BY <1>0, <2>1, <2>3, GoesOnEffect
  <2>4. CASE Return(w, "error")
    BY <1>0, <2>1, <2>4, FailsEffect
  <2> QED
    BY <1>4, <2>2, <2>3, <2>4 DEF StatPath
<1>5. CASE OpenFile(w)
  <2>1. ~active.exists => active.chunks = <<>> /\ active.synced = 0
    BY DEF SinkInv, FilesOK, ActiveFiles
  <2>2. pc[w] = "open" /\ KeepsFiles
    BY <1>5, <2>1 DEF OpenFile, KeepsFiles, NoFile
  <2>3. CASE Goto(w, "write") /\ UnchangedWriter
    BY <1>0, <2>2, <2>3, GoesOnEffect
  <2>4. CASE Return(w, "error")
    BY <1>0, <2>2, <2>4, FailsEffect
  <2> QED
    BY <1>5, <2>3, <2>4 DEF OpenFile
<1>6. CASE WriteLine(w)
  <2>1. pc[w] = "write" /\ AddsChunk(w, TRUE, NextBytes(w))
    BY <1>6, AppendedFields, HolderWrites DEF WriteLine, AddsChunk, SinkInv
  <2>2. CASE Sync
    <3>1. PutEffect(w)
      BY <1>0, <1>6, <2>1, <2>2, GotoOthers DEF WriteLine, PutEffect
    <3> QED
      BY <2>1, <3>1 DEF Effect
  <2>3. CASE ~Sync
    <3>1. AckEffect(w)
      BY <1>0, <1>6, <2>1, <2>3, ReturnEnds DEF WriteLine, AckEffect
    <3> QED
      BY <2>1, <3>1 DEF Effect
  <2> QED
    BY <2>2, <2>3
<1>7. CASE WriteFails(w)
  <2>1. /\ pc[w] = "write" /\ Return(w, "error")
        /\ frame[w] \in Records /\ FragmentBytes \in Nat \ {0}
    BY <1>7, HolderWrites, SinkAssumption DEF WriteFails, SinkInv
  <2>2. CASE UNCHANGED active
    BY <1>0, <1>7, <2>1, <2>2, FailsEffect DEF WriteFails, KeepsFiles
  <2>3. CASE /\ "torn" \in Faults
             /\ active' = Appended(frame[w], FALSE, FragmentBytes)
    <3>1. /\ active'.chunks = Append(active.chunks,
                                     NewChunk(frame[w], FALSE, FragmentBytes))
          /\ active'.synced = active.synced
      BY <2>1, <2>3, AppendedFields DEF SinkInv
    <3>2. AddsChunk(w, FALSE, FragmentBytes)
      BY <1>7, <3>1 DEF WriteFails, AddsChunk
    <3> QED
      BY <1>0, <2>1, <2>3, <3>2, FailsEffect
  <2> QED
    BY <1>7, <2>2, <2>3 DEF WriteFails
<1>8. CASE SyncFile(w)
  <2>1. pc[w] = "sync"
    BY <1>8 DEF SyncFile
  <2>2. CASE Return(w, "error") /\ UNCHANGED active
    BY <1>0, <1>8, <2>1, <2>2, FailsEffect DEF SyncFile, KeepsFiles
  <2>3. CASE /\ active' = [active EXCEPT !.synced = Len(active.chunks)]
             /\ Return(w, "nil")
    <3>1. /\ active'.chunks = active.chunks
          /\ active'.synced = Len(active.chunks)
      BY <2>3 DEF SinkInv, FilesOK, ActiveFiles
    <3>2. SyncEffect(w)
      BY <1>0, <1>8, <2>1, <2>3, <3>1, ReturnEnds DEF SyncFile, SyncEffect
    <3> QED
      BY <2>1, <3>2 DEF Effect
  <2> QED
    BY <1>8, <2>2, <2>3 DEF SyncFile
<1> QED
  BY <1>1, <1>2, <1>3, <1>4, <1>5, <1>6, <1>7, <1>8 DEF Advance

(* An archive, once named, is never overwritten, removed or changed: the   *)
(* name that rotatePathLocked settles on is free (storage.go:198-211).     *)
THEOREM ArchivesStayFinal == Spec => ArchivesAreFinal
<1> DEFINE Kept == \A n \in DOMAIN archives :
                        n \in DOMAIN archives' /\ archives'[n] = archives[n]
<1>1. ASSUME SinkInv, NEW w \in Writers, Effect(w)
      PROVE  Kept
  BY <1>1 DEF Effect, GoOnEffect, FailEffect, PutEffect, AckEffect, SyncEffect,
              KeepsFiles, AddsChunk, Archived
<1>2. SinkInv /\ [Next]_vars => Kept
  <2> SUFFICES ASSUME SinkInv, [Next]_vars
               PROVE  Kept
    OBVIOUS
  <2>1. ASSUME NEW w \in Writers, NEW r \in Records, WriteSanitizedFrame(w, r)
        PROVE  UNCHANGED archives
    BY <2>1 DEF WriteSanitizedFrame
  <2>2. ASSUME NEW w \in Writers, Lock(w)
        PROVE  UNCHANGED archives
    BY <2>2 DEF Lock
  <2>3. Close \/ Tick \/ Crash \/ UNCHANGED vars => UNCHANGED archives
    BY DEF Close, Tick, Crash, vars
  <2> QED
    BY <1>1, <2>1, <2>2, <2>3, AdvanceHasEffect DEF Next
<1>3. Spec => []SinkInv
  BY InitSinkInv, NextSinkInv, PTL DEF Spec
<1> QED
  BY <1>2, <1>3, PTL DEF Spec, ArchivesAreFinal

-----------------------------------------------------------------------------
(* All files by name, the active one under a name that no archive has. *)
ActiveName == <<NoStamp, 0>>

Names == {ActiveName} \cup DOMAIN archives

File(n) == IF n = ActiveName THEN active.chunks ELSE archives[n]

(* Where the chunks of a record are: no two chunks are of one record, all  *)
(* are of frames that came in ...                                          *)
UniqueInv ==
    \A n, m \in Names : \A i \in DOMAIN File(n), j \in DOMAIN File(m) :
        File(n)[i].record = File(m)[j].record => n = m /\ i = j

BornInv ==
    /\ \A n \in Names : \A i \in DOMAIN File(n) :
        File(n)[i].record \in DOMAIN born
    /\ \A w \in Writers : pc[w] # "idle" => frame[w] \in DOMAIN born

(* ... and a frame on its way, which only one writer has, has none until   *)
(* its write, and a whole line from then on.                               *)
Mentioned ==
    {r \in Records :
        \E n \in Names : \E i \in DOMAIN File(n) : File(n)[i].record = r}

FrameInv ==
    \A w \in Writers :
        /\ \A v \in Writers : v # w /\ pc[w] # "idle" => frame[v] # frame[w]
        /\ pc[w] \notin {"idle", "sync"} => frame[w] \notin Mentioned
        /\ pc[w] = "sync" => Sync /\ LinesOf(frame[w], active.chunks) # {}

PlaceInv ==
    ActiveName \notin DOMAIN archives /\ UniqueInv /\ BornInv /\ FrameInv

(* Every chunk was there before, or is the one of the write under way. *)
Grown ==
    /\ Names' = Names
    /\ \A n \in Names : \A i \in DOMAIN File(n)' :
        \/ i \in DOMAIN File(n) /\ File(n)'[i].record = File(n)[i].record
        \/ /\ n = ActiveName /\ i = Len(active.chunks) + 1
           /\ \E w \in Writers :
                pc[w] = "write" /\ File(n)'[i].record = frame[w]

(* The active file as a sequence. *)
LEMMA ActiveChunks ==
  ASSUME SinkInv
  PROVE  /\ active.chunks \in Seq(Chunks) /\ Len(active.chunks) \in Nat
         /\ DOMAIN active.chunks = 1 .. Len(active.chunks)
         /\ active.synced \in 0 .. Len(active.chunks)
  BY DEF SinkInv, FilesOK, ActiveFiles

(* What the effects come to for the places of the chunks. *)
LEMMA KeptFiles ==
  ASSUME active'.chunks = active.chunks, UNCHANGED archives
  PROVE  Names' = Names /\ (\A n : File(n)' = File(n)) /\ Grown
<1>1. Names' = Names /\ \A n : File(n)' = File(n)
  BY DEF Names, File
<1> QED
  BY <1>1 DEF Grown

LEMMA AddedChunk ==
  ASSUME SinkInv, NEW w \in Writers, NEW whole \in BOOLEAN, NEW bytes \in Nat \ {0},
         AddsChunk(w, whole, bytes)
  PROVE  /\ Names' = Names
         /\ \A n : n # ActiveName => File(n)' = File(n)
         /\ DOMAIN active'.chunks = 1 .. Len(active.chunks) + 1
         /\ \A i \in 1 .. Len(active.chunks) :
                active'.chunks[i] = active.chunks[i]
         /\ active'.chunks[Len(active.chunks) + 1]
                = NewChunk(frame[w], whole, bytes)
         /\ Grown
<1>1. Names' = Names /\ \A n : n # ActiveName => File(n)' = File(n)
  BY DEF AddsChunk, Names, File
<1>2. NewChunk(frame[w], whole, bytes) \in Chunks
  BY HolderWrites, AppendedFields DEF AddsChunk, SinkInv
<1>3. /\ DOMAIN active'.chunks = 1 .. Len(active.chunks) + 1
      /\ \A i \in 1 .. Len(active.chunks) : active'.chunks[i] = active.chunks[i]
      /\ active'.chunks[Len(active.chunks) + 1]
            = NewChunk(frame[w], whole, bytes)
  BY <1>2, ActiveChunks, AppendProperties DEF AddsChunk
<1>4. ASSUME NEW i \in DOMAIN active'.chunks
      PROVE  \/ i \in 1 .. Len(active.chunks)
             \/ i = Len(active.chunks) + 1
  BY <1>3, <1>4, ActiveChunks
<1>5. NewChunk(frame[w], whole, bytes).record = frame[w]
  BY DEF NewChunk
<1>6. Grown
  BY <1>1, <1>3, <1>4, <1>5, ActiveChunks DEF Grown, File, AddsChunk
<1> QED
  BY <1>1, <1>3, <1>6

LEMMA AddedLine ==
  ASSUME SinkInv, NEW w \in Writers, NEW bytes \in Nat \ {0},
         AddsChunk(w, TRUE, bytes)
  PROVE  Len(active.chunks) + 1 \in LinesOf(frame[w], active'.chunks)
<1> DEFINE last == Len(active.chunks) + 1
<1>0. DOMAIN active'.chunks = 1 .. Len(active.chunks) + 1
  BY AddedChunk, Zenon
<1>1. last \in DOMAIN active'.chunks
  BY <1>0, ActiveChunks
<1>2. active'.chunks[last] = NewChunk(frame[w], TRUE, bytes)
  BY AddedChunk
<1> HIDE DEF last
<1>3. active'.chunks[last].record = frame[w] /\ active'.chunks[last].whole
  BY <1>2 DEF NewChunk
<1> QED
  BY <1>1, <1>3 DEF LinesOf, last

LEMMA MovedFile ==
  ASSUME SinkInv, NEW name, Archived(name)
  PROVE  /\ Names' = Names \cup {name} /\ name # ActiveName
         /\ name \notin DOMAIN archives
         /\ DOMAIN File(ActiveName)' = {}
         /\ File(name)' = active.chunks
         /\ \A n \in DOMAIN archives : archives'[n] = archives[n]
<1>1. name # ActiveName
  BY DEF Archived, ActiveName
<1>2. active'.chunks = <<>>
  BY DEF Archived, NoFile
<1> QED
  BY <1>1, <1>2 DEF Archived, Names, File

(* A chunk that the write under way adds, or a fragment of it. *)
UnderWay(chunk) ==
    \E w \in Writers :
        /\ pc[w] = "write"
        /\ chunk.record = frame[w]
        /\ \/ chunk = NewChunk(frame[w], TRUE, NextBytes(w))
           \/ chunk.whole = FALSE /\ "torn" \in Faults

(* One that was being written when the process died. *)
Interrupts(i) ==
    i = Len(active.chunks) + 1 /\ UnderWay(active'.chunks[i])

(* After a crash: a prefix of the old chunks with all that was fsynced,    *)
(* the last one torn perhaps, and perhaps the chunk that was being written. *)
LEMMA CutFile ==
  ASSUME SinkInv, Crash
  PROVE  /\ Names' = Names
         /\ \A n : n # ActiveName => File(n)' = File(n)
         /\ active'.synced = active.synced
         /\ 1 .. active.synced \subseteq DOMAIN active'.chunks
         /\ "power" \notin Faults =>
                1 .. Len(active.chunks) \subseteq DOMAIN active'.chunks
         /\ \A i \in DOMAIN active'.chunks :
                \/ i \in DOMAIN active.chunks /\ active'.chunks[i] = active.chunks[i]
                \/ i \in DOMAIN active.chunks /\ Torn(i, active.chunks)
                \/ Interrupts(i)
         /\ Grown
<1>1. PICK file \in Seq(Chunks), n \in Nat : Survives(file, n)
  BY CrashFacts
<1>2. /\ Len(file) \in Nat /\ n <= Len(file) /\ active.synced <= n
      /\ active.synced \in Nat /\ Len(active.chunks) \in Nat
      /\ DOMAIN active.chunks = 1 .. Len(active.chunks)
      /\ DOMAIN file = 1 .. Len(file)
  BY <1>1, ActiveChunks DEF Survives
<1>3. /\ DOMAIN active'.chunks = 1 .. n
      /\ \A i \in 1 .. n : active'.chunks[i] = file[i] \/ Torn(i, file)
  BY <1>1 DEF Survives
<1>4. /\ Len(active.chunks) <= Len(file)
      /\ \A i \in 1 .. Len(file) :
            \/ i \in 1 .. Len(active.chunks) /\ file[i] = active.chunks[i]
            \/ i = Len(active.chunks) + 1 /\ UnderWay(file[i])
  <2>1. CASE file = active.chunks
    BY <1>2, <2>1
  <2>2. ASSUME NEW w \in Writers, NEW whole \in BOOLEAN, NEW bytes \in Nat \ {0},
               pc[w] = "write", ~whole => "torn" \in Faults,
               whole => bytes = NextBytes(w),
               file = Append(active.chunks, NewChunk(frame[w], whole, bytes))
        PROVE  <1>4
    <3>1. /\ NewChunk(frame[w], whole, bytes) \in Chunks
          /\ NewChunk(frame[w], whole, bytes).record = frame[w]
          /\ NewChunk(frame[w], whole, bytes).whole = whole
      BY <2>2, HolderWrites, AppendedFields DEF SinkInv, NewChunk
    <3>2. /\ Len(file) = Len(active.chunks) + 1
          /\ \A i \in 1 .. Len(active.chunks) : file[i] = active.chunks[i]
          /\ file[Len(active.chunks) + 1] = NewChunk(frame[w], whole, bytes)
      BY <2>2, <3>1, ActiveChunks, AppendProperties
    <3>3. \A i \in 1 .. Len(file) :
            i \in 1 .. Len(active.chunks) \/ i = Len(active.chunks) + 1
      BY <1>2, <3>2
    <3>4. \/ NewChunk(frame[w], whole, bytes) = NewChunk(frame[w], TRUE, NextBytes(w))
          \/ whole = FALSE /\ "torn" \in Faults
      BY <2>2
    <3>5. UnderWay(NewChunk(frame[w], whole, bytes))
      BY <2>2, <3>1, <3>4 DEF UnderWay
    <3> QED
      BY <1>2, <3>2, <3>3, <3>5
  <2> QED
    BY <1>1, <2>1, <2>2 DEF Survives, Written
<1>5. /\ Names' = Names
      /\ \A m : m # ActiveName => File(m)' = File(m)
      /\ active'.synced = active.synced
  BY CrashFacts DEF Crash, Names, File
<1>6. /\ 1 .. active.synced \subseteq DOMAIN active'.chunks
      /\ "power" \notin Faults =>
            1 .. Len(active.chunks) \subseteq DOMAIN active'.chunks
  BY <1>1, <1>2, <1>3, <1>4 DEF Survives
<1>7. \A i \in 1 .. n : i \in 1 .. Len(file)
  BY <1>2
<1>8. ASSUME NEW i \in DOMAIN active'.chunks
      PROVE  \/ i \in DOMAIN active.chunks /\ active'.chunks[i] = active.chunks[i]
             \/ i \in DOMAIN active.chunks /\ Torn(i, active.chunks)
             \/ Interrupts(i)
  <2>1. i \in 1 .. Len(file) /\ (active'.chunks[i] = file[i] \/ Torn(i, file))
    BY <1>3, <1>7, <1>8
  <2>2. CASE i \in 1 .. Len(active.chunks) /\ file[i] = active.chunks[i]
    BY <1>2, <2>1, <2>2 DEF Torn
  <2>3. CASE i = Len(active.chunks) + 1 /\ UnderWay(file[i])
    <3>1. CASE active'.chunks[i] = file[i]
      BY <2>3, <3>1 DEF Interrupts
    <3>2. CASE Torn(i, file)
      BY <2>3, <3>2 DEF Interrupts, UnderWay, Torn
    <3> QED
      BY <2>1, <3>1, <3>2
  <2> QED
    BY <1>4, <2>1, <2>2, <2>3
<1>9. Grown
  <2>1. ASSUME NEW i \in DOMAIN active'.chunks
        PROVE  \/ /\ i \in DOMAIN active.chunks
                  /\ active'.chunks[i].record = active.chunks[i].record
               \/ /\ i = Len(active.chunks) + 1
                  /\ \E w \in Writers :
                        pc[w] = "write" /\ active'.chunks[i].record = frame[w]
    BY <1>8 DEF Torn, Interrupts, UnderWay
  <2>2. File(ActiveName)' = active'.chunks /\ File(ActiveName) = active.chunks
    BY DEF File
  <2> QED
    BY <1>5, <2>1, <2>2, Zenon DEF Grown
<1> QED
  BY <1>5, <1>6, <1>8, <1>9

(* The places stay unique. *)
LEMMA MentionedHas ==
  ASSUME SinkInv, PlaceInv, NEW n \in Names, NEW i \in DOMAIN File(n)
  PROVE  File(n)[i].record \in Mentioned
  BY DEF Mentioned, PlaceInv, BornInv, SinkInv, WritersOK

(* No record has two chunks after a write, which adds one for a new record ... *)
LEMMA GrownUnique ==
  ASSUME SinkInv, PlaceInv, Grown
  PROVE  /\ UniqueInv'
         /\ \A n \in Names' : \A i \in DOMAIN File(n)' :
                File(n)'[i].record \in DOMAIN born
<1>1. ASSUME NEW n \in Names, NEW m \in Names,
             NEW i \in DOMAIN File(n)', NEW j \in DOMAIN File(m)',
             File(n)'[i].record = File(m)'[j].record
      PROVE  n = m /\ i = j
  <2> DEFINE Old(k, x) ==
        x \in DOMAIN File(k) /\ File(k)'[x].record = File(k)[x].record
  <2> DEFINE New(k, x) ==
        /\ k = ActiveName /\ x = Len(active.chunks) + 1
        /\ \E w \in Writers : pc[w] = "write" /\ File(k)'[x].record = frame[w]
  <2>1. (Old(n, i) \/ New(n, i)) /\ (Old(m, j) \/ New(m, j))
    BY DEF Grown
  <2>2. CASE Old(n, i) /\ Old(m, j)
    <3>1. File(n)[i].record = File(m)[j].record
      BY <1>1, <2>2
    <3> QED
      BY <1>1, <2>2, <3>1, Zenon DEF PlaceInv, UniqueInv
  <2>3. CASE New(n, i) /\ New(m, j)
    BY <2>3
  <2>4. CASE Old(n, i) /\ New(m, j)
    BY <1>1, <2>4, MentionedHas DEF PlaceInv, FrameInv
  <2>5. CASE New(n, i) /\ Old(m, j)
    BY <1>1, <2>5, MentionedHas DEF PlaceInv, FrameInv
  <2> QED
    BY <2>1, <2>2, <2>3, <2>4, <2>5
<1>2. UniqueInv'
  BY <1>1 DEF UniqueInv, Grown
<1> QED
  BY <1>2 DEF Grown, PlaceInv, BornInv

(* ... and none after a rename, which adds no chunk. *)
LEMMA MovedUnique ==
  ASSUME SinkInv, PlaceInv, NEW name, Archived(name)
  PROVE  /\ UniqueInv' /\ ActiveName \notin DOMAIN archives'
         /\ \A n \in Names' : \A i \in DOMAIN File(n)' :
                \E m \in Names : i \in DOMAIN File(m) /\ File(n)'[i] = File(m)[i]
<1> DEFINE Was(n) == IF n = name THEN ActiveName ELSE n
<1>1. ASSUME NEW n \in Names', NEW i \in DOMAIN File(n)'
      PROVE  /\ Was(n) \in Names /\ i \in DOMAIN File(Was(n))
             /\ File(n)'[i] = File(Was(n))[i]
             /\ n # ActiveName
  <2>1. n # ActiveName
    BY <1>1, MovedFile
  <2>2. CASE n = name
    BY <1>1, <2>2, MovedFile DEF Names, File
  <2>3. CASE n # name
    <3>1. n \in DOMAIN archives
      BY <2>1, <2>3, MovedFile DEF Names
    <3>2. File(n)' = archives'[n] /\ File(n) = archives[n]
      BY <2>1 DEF File
    <3>3. archives'[n] = archives[n]
      BY <3>1, MovedFile
    <3> QED
      BY <1>1, <2>1, <2>3, <3>1, <3>2, <3>3 DEF Names
  <2> QED
    BY <2>2, <2>3
<1>2. ASSUME NEW n \in Names', NEW m \in Names',
             NEW i \in DOMAIN File(n)', NEW j \in DOMAIN File(m)',
             File(n)'[i].record = File(m)'[j].record
      PROVE  n = m /\ i = j
  <2>1. Was(n) = Was(m) /\ i = j
    <3> HIDE DEF Was
    <3> QED
      BY <1>1, <1>2 DEF PlaceInv, UniqueInv
  <2> QED
    BY <1>1, <2>1
<1>3. ActiveName \notin DOMAIN archives'
  BY MovedFile DEF PlaceInv, Archived
<1> QED
  BY <1>1, <1>2, <1>3 DEF UniqueInv

(* The frames that the other writers carry are untouched by a step of the  *)
(* holder.                                                                 *)
LEMMA OthersKept ==
  ASSUME SinkInv, PlaceInv, NEW w \in Writers, pc[w] \in Locked, Others(w),
         NEW v \in Writers, v # w
  PROVE  /\ pc'[v] = pc[v] /\ frame'[v] = frame[v] /\ pc[v] \in {"idle", "lock"}
         /\ frame[v] # frame[w]
         /\ pc[v] # "idle" =>
                frame[v] \notin Mentioned /\ frame[v] \in DOMAIN born
  BY DEF SinkInv, WritersOK, PlaceInv, FrameInv, BornInv, Others, Labels, Locked

(* PlaceInv, effect by effect. *)
LEMMA AdvancePlaces ==
  ASSUME SinkInv, PlaceInv, NEW w \in Writers, Effect(w)
  PROVE  PlaceInv'
<1>1. Others(w) /\ UNCHANGED born /\ pc[w] \in Locked
  BY DEF Effect, GoOnEffect, FailEffect, PutEffect, AckEffect, SyncEffect,
         EndsWith, Others
<1>2. /\ frame[w] \in Records /\ frame[w] # NoRecord /\ frame[w] \in DOMAIN born
      /\ pc[w] # "idle" /\ NextBytes(w) \in Nat \ {0} /\ FragmentBytes \in Nat \ {0}
  BY <1>1, HolderWrites, SinkAssumption DEF SinkInv, PlaceInv, BornInv, Locked
<1>3. \/ Grown /\ UNCHANGED archives
      \/ GoOnEffect(w) /\ \E name : Archived(name)
  BY <1>2, KeptFiles, AddedChunk
  DEF Effect, GoOnEffect, FailEffect, PutEffect, AckEffect, SyncEffect,
      KeepsFiles, AddsChunk
<1>4. /\ UniqueInv' /\ ActiveName \notin DOMAIN archives'
      /\ \A n \in Names' : \A i \in DOMAIN File(n)' :
            File(n)'[i].record \in DOMAIN born
  <2>1. CASE Grown /\ UNCHANGED archives
    BY <2>1, GrownUnique DEF PlaceInv
  <2>2. CASE \E name : Archived(name)
    BY <2>2, MovedUnique DEF PlaceInv, BornInv
  <2> QED
    BY <1>3, <2>1, <2>2
<1>5. Mentioned' \subseteq Mentioned \cup {frame[w]}
  <2>1. CASE \E name : Archived(name)
    BY <2>1, MovedUnique DEF Mentioned
  <2>2. CASE Grown
    <3>1. ASSUME NEW v \in Writers, pc[v] = "write"
          PROVE  v = w
      BY <1>1, <3>1 DEF SinkInv, WritersOK, Locked
    <3> QED
      BY <2>2, <3>1 DEF Mentioned, Grown
  <2> QED
    BY <1>3, <2>1, <2>2
<1>6. ASSUME NEW v \in Writers, v # w
      PROVE  /\ frame'[v] = frame[v] /\ pc'[v] \in {"idle", "lock"}
             /\ pc'[v] # "idle" =>
                    frame'[v] \notin Mentioned' /\ frame'[v] \in DOMAIN born
             /\ frame'[v] # frame[w]
  BY <1>1, <1>5, <1>6, OthersKept
<1>7. \/ /\ pc'[w] = "idle" /\ frame'[w] = NoRecord
      \/ /\ frame'[w] = frame[w] /\ pc'[w] # "idle" /\ pc'[w] # "sync"
         /\ frame[w] \notin Mentioned'
      \/ /\ frame'[w] = frame[w] /\ pc'[w] = "sync" /\ Sync
         /\ LinesOf(frame[w], active'.chunks) # {}
  <2>1. CASE GoOnEffect(w)
    <3>1. frame[w] \notin Mentioned
      BY <1>1, <2>1 DEF GoOnEffect, PlaceInv, FrameInv, Locked
    <3>2. frame[w] \notin Mentioned'
      BY <2>1, <3>1, MovedUnique, KeptFiles
      DEF GoOnEffect, KeepsFiles, Mentioned
    <3> QED
      BY <2>1, <3>2 DEF GoOnEffect, Locked
  <2>2. CASE PutEffect(w)
    <3>1. AddsChunk(w, TRUE, NextBytes(w))
      BY <2>2 DEF PutEffect
    <3>2. Len(active.chunks) + 1 \in LinesOf(frame[w], active'.chunks)
      BY <1>2, <3>1, AddedLine
    <3> QED
      BY <2>2, <3>2 DEF PutEffect
  <2>3. CASE FailEffect(w) \/ AckEffect(w) \/ SyncEffect(w)
    BY <2>3 DEF FailEffect, AckEffect, SyncEffect, EndsWith, SinkInv, WritersOK
  <2> QED
    BY <2>1, <2>2, <2>3 DEF Effect
<1>8. BornInv'
  BY <1>1, <1>2, <1>4, <1>6, <1>7 DEF BornInv
<1>9. FrameInv'
  <2>1. ASSUME NEW u \in Writers, NEW v \in Writers, v # u, pc'[u] # "idle"
        PROVE  frame'[v] # frame'[u]
    <3>1. CASE u = w
      BY <1>6, <1>7, <2>1, <3>1
    <3>2. CASE u # w /\ v # w
      BY <1>1, <1>6, <2>1, <3>2, OthersKept DEF PlaceInv, FrameInv
    <3>3. CASE u # w /\ v = w
      <4>1. frame'[u] \in Records
        BY <1>1, <2>1, <3>3, HolderWrites, OthersKept DEF SinkInv
      <4> QED
        BY <1>6, <1>7, <3>3, <4>1, SinkAssumption
    <3> QED
      BY <3>1, <3>2, <3>3
  <2>2. ASSUME NEW u \in Writers
        PROVE  /\ pc'[u] \notin {"idle", "sync"} => frame'[u] \notin Mentioned'
               /\ pc'[u] = "sync" =>
                    Sync /\ LinesOf(frame'[u], active'.chunks) # {}
    BY <1>6, <1>7
  <2> QED
    BY <2>1, <2>2 DEF FrameInv
<1> QED
  BY <1>4, <1>8, <1>9 DEF PlaceInv

LEMMA InitPlaces == Init => PlaceInv
<1> SUFFICES ASSUME Init
             PROVE  PlaceInv
  OBVIOUS
<1>1. DOMAIN archives = {} /\ active.chunks = <<>> /\ \A w \in Writers : pc[w] = "idle"
  BY DEF Init, NoFile
<1>2. \A n \in Names : DOMAIN File(n) = {}
  BY <1>1 DEF Names, File
<1> QED
  BY <1>1, <1>2 DEF PlaceInv, UniqueInv, BornInv, FrameInv

LEMMA CrashPlaces ==
  ASSUME SinkInv, PlaceInv, Crash
  PROVE  PlaceInv'
<1>1. /\ UniqueInv' /\ UNCHANGED <<archives, born>>
      /\ \A n \in Names' : \A i \in DOMAIN File(n)' :
            File(n)'[i].record \in DOMAIN born
  <2>1. UNCHANGED <<archives, born>>
    BY DEF Crash
  <2> QED
    BY <2>1, CutFile, GrownUnique
<1>2. \A w \in Writers : pc'[w] = "idle"
  BY DEF Crash
<1> QED
  BY <1>1, <1>2 DEF PlaceInv, BornInv, FrameInv

LEMMA WriteSanitizedFramePlaces ==
  ASSUME SinkInv, PlaceInv, NEW w \in Writers, NEW r \in Records,
         WriteSanitizedFrame(w, r)
  PROVE  PlaceInv'
<1>1. /\ UNCHANGED <<active, archives>> /\ Names' = Names
      /\ \A n : File(n)' = File(n)
  BY DEF WriteSanitizedFrame, Names, File
<1>2. UniqueInv' /\ Mentioned' = Mentioned
  BY <1>1 DEF PlaceInv, UniqueInv, Mentioned
<1>3. /\ DOMAIN born' = DOMAIN born \cup {r} /\ r \notin DOMAIN born
      /\ frame'[w] = r /\ pc'[w] = "lock"
      /\ \A v \in Writers : v # w => frame'[v] = frame[v] /\ pc'[v] = pc[v]
  BY DEF WriteSanitizedFrame, Goto, SinkInv, WritersOK
<1>4. r \notin Mentioned
  BY <1>3 DEF PlaceInv, BornInv, Mentioned
<1>5. BornInv'
  BY <1>1, <1>3 DEF PlaceInv, BornInv
<1>6. \A v \in Writers : frame[v] # r
  BY <1>3, SinkAssumption DEF PlaceInv, BornInv, SinkInv, WritersOK
<1>7. FrameInv'
  BY <1>1, <1>2, <1>3, <1>4, <1>6 DEF PlaceInv, FrameInv
<1> QED
  BY <1>1, <1>2, <1>5, <1>7 DEF PlaceInv

(* The steps that touch neither the files nor a frame. *)
LEMMA QuietPlaces ==
  ASSUME PlaceInv, UNCHANGED <<active, archives, born, frame>>,
         \A w \in Writers : \/ pc'[w] = pc[w]
                            \/ pc[w] = "lock" /\ pc'[w] = "ensure"
  PROVE  PlaceInv'
<1>1. Names' = Names /\ \A n : File(n)' = File(n)
  BY DEF Names, File
<1>2. UniqueInv' /\ BornInv' /\ Mentioned' = Mentioned
  BY <1>1 DEF PlaceInv, UniqueInv, BornInv, Mentioned
<1>3. FrameInv'
  BY <1>2 DEF PlaceInv, FrameInv
<1> QED
  BY <1>2, <1>3 DEF PlaceInv

(* The steps that touch neither files nor frames. *)
LEMMA QuietSteps ==
  ASSUME SinkInv, (\E w \in Writers : Lock(w)) \/ Close \/ Tick \/ UNCHANGED vars
  PROVE  /\ UNCHANGED <<active, archives, born, frame, acked>>
         /\ \A w \in Writers : \/ pc'[w] = pc[w]
                               \/ pc[w] = "lock" /\ pc'[w] = "ensure"
  BY DEF SinkInv, WritersOK, Lock, Goto, Close, Tick, vars

LEMMA NextPlaces == SinkInv /\ PlaceInv /\ [Next]_vars => PlaceInv'
<1> SUFFICES ASSUME SinkInv, PlaceInv, [Next]_vars
             PROVE  PlaceInv'
  OBVIOUS
<1>1. CASE (\E w \in Writers : Lock(w)) \/ Close \/ Tick \/ UNCHANGED vars
  BY <1>1, QuietSteps, QuietPlaces
<1> QED
  BY <1>1, WriteSanitizedFramePlaces, AdvanceHasEffect, AdvancePlaces,
     CrashPlaces DEF Next

-----------------------------------------------------------------------------
(* The sink as a store: what each step does to the frames that are stored  *)
(* and to those that are durable.                                          *)
LEMMA ArchiveHasPlaces ==
  ASSUME NEW files, NEW r
  PROVE  UNION {{n} \X LinesOf(r, files[n]) : n \in DOMAIN files} = {}
            <=> \A n \in DOMAIN files : LinesOf(r, files[n]) = {}
<1>1. ASSUME NEW n \in DOMAIN files, NEW i \in LinesOf(r, files[n])
      PROVE  <<n, i>> \in UNION {{m} \X LinesOf(r, files[m]) : m \in DOMAIN files}
  BY <1>1
<1>2. ASSUME NEW p \in UNION {{m} \X LinesOf(r, files[m]) : m \in DOMAIN files}
      PROVE  \E n \in DOMAIN files : LinesOf(r, files[n]) # {}
  BY <1>2
<1> QED
  BY <1>1, <1>2

InArchives(r) == \E n \in DOMAIN archives : LinesOf(r, archives[n]) # {}

(* The abstract store's variables in terms of lines, before and after a step. *)
LEMMA StoredAndDurable ==
  /\ Stored = {r \in Records : LinesOf(r, active.chunks) # {} \/ InArchives(r)}
  /\ Durable = {r \in Records :
                    \/ \E i \in LinesOf(r, active.chunks) : i <= active.synced
                    \/ InArchives(r)}
<1>1. \A r : ArchivePlaces(r) # {} <=> InArchives(r)
  BY ArchiveHasPlaces DEF ArchivePlaces, InArchives
<1> QED
  BY <1>1 DEF Stored, Durable, ActivePlaces

LEMMA StoredAndDurableNext ==
  /\ Stored' = {r \in Records :
                    \/ LinesOf(r, active'.chunks) # {}
                    \/ \E n \in DOMAIN archives' : LinesOf(r, archives'[n]) # {}}
  /\ Durable' = {r \in Records :
                    \/ \E i \in LinesOf(r, active'.chunks) : i <= active'.synced
                    \/ \E n \in DOMAIN archives' : LinesOf(r, archives'[n]) # {}}
<1>1. \A r : ArchivePlaces(r)' # {} <=>
            \E n \in DOMAIN archives' : LinesOf(r, archives'[n]) # {}
  BY ArchiveHasPlaces DEF ArchivePlaces
<1> QED
  BY <1>1 DEF Stored, Durable, ActivePlaces

(* What the effects come to for the abstract store. *)
LEMMA KeptStore ==
  ASSUME KeepsFiles
  PROVE  Stored' = Stored /\ Durable' = Durable
  BY StoredAndDurable, StoredAndDurableNext DEF KeepsFiles, InArchives

LEMMA SyncedStore ==
  ASSUME SinkInv, active'.chunks = active.chunks, UNCHANGED archives,
         active'.synced = Len(active.chunks)
  PROVE  Stored' = Stored /\ Durable' = Stored
<1>1. \A r : \A i \in LinesOf(r, active.chunks) : i <= Len(active.chunks)
  BY ActiveChunks DEF LinesOf
<1> QED
  BY <1>1, StoredAndDurable, StoredAndDurableNext DEF InArchives

LEMMA MovedStore ==
  ASSUME SinkInv, NEW name, Archived(name)
  PROVE  Stored' = Stored /\ Durable' = Stored /\ Durable \subseteq Stored
<1>1. \A r : LinesOf(r, active'.chunks) = {}
  BY DEF Archived, NoFile, LinesOf
<1>2. \A r : (\E n \in DOMAIN archives' : LinesOf(r, archives'[n]) # {}) <=>
            \/ LinesOf(r, active.chunks) # {}
            \/ \E n \in DOMAIN archives : LinesOf(r, archives[n]) # {}
  BY DEF Archived
<1> QED
  BY <1>1, <1>2, StoredAndDurable, StoredAndDurableNext DEF InArchives

(* A write adds at most the one line of its frame. *)
LEMMA AddedLines ==
  ASSUME SinkInv, NEW w \in Writers, NEW whole \in BOOLEAN, NEW bytes \in Nat \ {0},
         AddsChunk(w, whole, bytes), NEW r
  PROVE  LinesOf(r, active'.chunks)
            = LinesOf(r, active.chunks) \cup
                {i \in {Len(active.chunks) + 1} : whole /\ r = frame[w]}
<1> DEFINE last == Len(active.chunks) + 1
<1>1. active'.chunks[last].record = frame[w] /\ active'.chunks[last].whole = whole
  <2>1. active'.chunks[last] = NewChunk(frame[w], whole, bytes)
    BY AddedChunk
  <2> HIDE DEF last
  <2> QED
    BY <2>1 DEF NewChunk
<1>2. /\ DOMAIN active'.chunks = DOMAIN active.chunks \cup {last}
      /\ last \notin DOMAIN active.chunks
  BY AddedChunk, ActiveChunks
<1>3. \A i \in DOMAIN active.chunks : active'.chunks[i] = active.chunks[i]
  BY AddedChunk, ActiveChunks
<1> HIDE DEF last
<1>4. LinesOf(r, active'.chunks)
        = LinesOf(r, active.chunks) \cup {i \in {last} : whole /\ r = frame[w]}
  BY <1>1, <1>2, <1>3 DEF LinesOf
<1> QED
  BY <1>4 DEF last

LEMMA AddedStore ==
  ASSUME SinkInv, NEW w \in Writers, NEW whole \in BOOLEAN, NEW bytes \in Nat \ {0},
         AddsChunk(w, whole, bytes)
  PROVE  /\ Stored' = Stored \cup {r \in {frame[w]} : whole}
         /\ Durable' = Durable
<1>1. frame[w] \in Records /\ UNCHANGED archives /\ active'.synced = active.synced
  BY HolderWrites DEF AddsChunk, SinkInv
<1>2. ~(Len(active.chunks) + 1 <= active.synced)
  BY ActiveChunks
<1>3. Stored' = Stored \cup {r \in {frame[w]} : whole}
  <2>1. ASSUME NEW r
        PROVE  LinesOf(r, active'.chunks) # {} <=>
                    LinesOf(r, active.chunks) # {} \/ (whole /\ r = frame[w])
    <3> DEFINE new == {i \in {Len(active.chunks) + 1} : whole /\ r = frame[w]}
    <3>1. LinesOf(r, active'.chunks) = LinesOf(r, active.chunks) \cup new
      BY AddedLines
    <3>2. new # {} <=> whole /\ r = frame[w]
      OBVIOUS
    <3> HIDE DEF new
    <3> QED
      BY <3>1, <3>2
  <2> QED
    BY <1>1, <2>1, StoredAndDurable, StoredAndDurableNext DEF InArchives
<1>4. Durable' = Durable
  BY <1>1, <1>2, AddedLines, StoredAndDurable, StoredAndDurableNext
  DEF InArchives
<1> QED
  BY <1>3, <1>4

(* A crash takes nothing durable away, and adds at most a line under way. *)
LEMMA CutStore ==
  ASSUME SinkInv, Crash
  PROVE  /\ Durable' = Durable /\ Durable \subseteq Stored'
         /\ \/ Stored' \subseteq Stored
            \/ \E w \in Writers : /\ frame[w] # NoRecord
                                  /\ Stored' \subseteq Stored \cup {frame[w]}
<1>1. UNCHANGED archives /\ active'.synced = active.synced
  BY CutFile DEF Crash
<1>2. ASSUME NEW r
      PROVE  (\E i \in LinesOf(r, active'.chunks) : i <= active.synced)
                <=> \E i \in LinesOf(r, active.chunks) : i <= active.synced
  <2>1. \A i \in DOMAIN active'.chunks : i <= active.synced =>
            i \in DOMAIN active.chunks /\ active'.chunks[i] = active.chunks[i]
    <3>1. ASSUME NEW i \in DOMAIN active.chunks, i <= active.synced
          PROVE  ~Torn(i, active.chunks)
      BY <3>1, ActiveChunks DEF Torn
    <3>2. ASSUME NEW i, i <= active.synced
          PROVE  ~Interrupts(i)
      <4>1. i # Len(active.chunks) + 1
        BY <3>2, ActiveChunks
      <4> QED
        BY <4>1 DEF Interrupts
    <3> QED
      BY <3>1, <3>2, CutFile
  <2>2. \A i \in DOMAIN active.chunks : i <= active.synced =>
            i \in DOMAIN active'.chunks
    BY CutFile, ActiveChunks
  <2> QED
    BY <2>1, <2>2 DEF LinesOf
<1>3. Durable' = Durable /\ Durable \subseteq Stored'
  BY <1>1, <1>2, StoredAndDurable, StoredAndDurableNext DEF InArchives
<1>4. ASSUME NEW r \in Stored' \ Stored
      PROVE  \E w \in Writers : pc[w] = "write" /\ frame[w] = r
  <2>1. PICK i \in LinesOf(r, active'.chunks) : i \notin LinesOf(r, active.chunks)
    BY <1>1, <1>4, StoredAndDurable, StoredAndDurableNext DEF InArchives
  <2>2. ~Torn(i, active.chunks)
    BY <2>1 DEF LinesOf, Torn
  <2>3. Interrupts(i)
    BY <2>1, <2>2, CutFile DEF LinesOf
  <2> QED
    BY <2>1, <2>3 DEF LinesOf, Interrupts, UnderWay
<1>5. CASE Stored' \subseteq Stored
  BY <1>3, <1>5
<1>6. CASE ~(Stored' \subseteq Stored)
  <2>1. PICK w \in Writers : pc[w] = "write"
    BY <1>4, <1>6
  <2>2. \A v \in Writers : pc[v] = "write" => v = w
    BY <2>1 DEF SinkInv, WritersOK, Locked
  <2>3. Stored' \subseteq Stored \cup {frame[w]}
    BY <1>4, <2>2
  <2>4. frame[w] # NoRecord
    BY <2>1 DEF SinkInv, WritersOK
  <2> QED
    BY <1>3, <2>3, <2>4
<1> QED
  BY <1>5, <1>6

(* A step of the lock's holder is a step of the store, or none. *)
LEMMA AdvanceRefines ==
  ASSUME SinkInv, PlaceInv, NEW w \in Writers, Effect(w)
  PROVE  [Store!StoreNext]_(Store!storeVars)
<1>1. /\ pc[w] # "idle" /\ frame[w] \in Records /\ frame[w] # NoRecord
      /\ NextBytes(w) \in Nat \ {0} /\ FragmentBytes \in Nat \ {0}
  BY HolderWrites, SinkAssumption DEF Effect, Locked, SinkInv
<1>2. CASE GoOnEffect(w)
  <2>1. CASE KeepsFiles
    BY <1>2, <2>1, KeptStore DEF GoOnEffect, Store!storeVars
  <2>2. CASE \E name : Archived(name)
    <3>1. Store!Settle
      BY <1>2, <2>2, MovedStore DEF GoOnEffect, Store!Settle
    <3> QED
      BY <3>1 DEF Store!StoreNext
  <2> QED
    BY <1>2, <2>1, <2>2 DEF GoOnEffect
<1>3. CASE FailEffect(w)
  <2>1. Stored' = Stored /\ Durable' = Durable
    <3>1. CASE KeepsFiles
      BY <3>1, KeptStore
    <3>2. CASE AddsChunk(w, FALSE, FragmentBytes)
      BY <1>1, <3>2, AddedStore
    <3> QED
      BY <1>3, <3>1, <3>2 DEF FailEffect
  <2>2. Store!Fail(w)
    BY <1>1, <1>3, <2>1 DEF FailEffect, EndsWith, Store!Fail, Store!End
  <2> QED
    BY <2>2 DEF Store!StoreNext
<1>4. CASE PutEffect(w)
  <2>1. Stored' = Stored \cup {frame[w]} /\ Durable' = Durable
    BY <1>1, <1>4, AddedStore DEF PutEffect
  <2>2. Store!Put(w)
    BY <1>1, <1>4, <2>1 DEF PutEffect, Store!Put
  <2> QED
    BY <2>2 DEF Store!StoreNext
<1>5. CASE AckEffect(w)
  <2>1. Stored' = Stored \cup {frame[w]} /\ Durable' = Durable
    BY <1>1, <1>5, AddedStore DEF AckEffect
  <2>2. Store!Ack(w)
    BY <1>1, <1>5, <2>1 DEF AckEffect, EndsWith, Store!Ack, Store!End
  <2> QED
    BY <2>2 DEF Store!StoreNext
<1>6. CASE SyncEffect(w)
  <2>1. Stored' = Stored /\ Durable' = Stored
    BY <1>6, SyncedStore DEF SyncEffect
  <2>2. Sync /\ frame[w] \in Stored
    BY <1>1, <1>6, StoredAndDurable DEF SyncEffect, PlaceInv, FrameInv
  <2>3. Store!Ack(w)
    BY <1>1, <1>6, <2>1, <2>2 DEF SyncEffect, EndsWith, Store!Ack, Store!End
  <2> QED
    BY <2>3 DEF Store!StoreNext
<1> QED
  BY <1>2, <1>3, <1>4, <1>5, <1>6 DEF Effect

(* The sink implements the plain store that the ingest service takes it    *)
(* for (storage.go:71-102, 126-214).                                       *)
THEOREM SinkImplementsFrameStore == Spec => ImplementsFrameStore
<1>1. Init => Store!StoreInit
  <2> SUFFICES ASSUME Init
               PROVE  Store!StoreInit
    OBVIOUS
  <2>1. DOMAIN archives = {} /\ active.chunks = <<>>
    BY DEF Init, NoFile
  <2>2. Stored = {} /\ Durable = {}
    BY <2>1, StoredAndDurable DEF LinesOf, InArchives
  <2> QED
    BY <2>2 DEF Init, Store!StoreInit
<1>2. SinkInv /\ PlaceInv /\ [Next]_vars => [Store!StoreNext]_(Store!storeVars)
  <2> SUFFICES ASSUME SinkInv, PlaceInv, [Next]_vars
               PROVE  [Store!StoreNext]_(Store!storeVars)
    OBVIOUS
  <2>1. ASSUME NEW w \in Writers, NEW r \in Records, WriteSanitizedFrame(w, r)
        PROVE  Store!StoreNext
    <3>1. Stored' = Stored /\ Durable' = Durable
      BY <2>1, KeptStore DEF WriteSanitizedFrame, KeepsFiles
    <3>2. Store!Begin(w, r)
      BY <2>1, <3>1
      DEF WriteSanitizedFrame, Store!Begin, SinkInv, WritersOK
    <3> QED
      BY <3>2 DEF Store!StoreNext
  <2>2. ASSUME NEW w \in Writers, Advance(w)
        PROVE  [Store!StoreNext]_(Store!storeVars)
    BY <2>2, AdvanceHasEffect, AdvanceRefines
  <2>3. CASE Crash
    <3>1. \E late \in {{}} \cup {{frame[w]} : w \in Writers} :
            Stored' \in SUBSET (Stored \cup (late \ {NoRecord}))
      <4>1. CASE Stored' \subseteq Stored
        BY <4>1
      <4>2. ASSUME NEW w \in Writers, frame[w] # NoRecord,
                   Stored' \subseteq Stored \cup {frame[w]}
            PROVE  <3>1
        <5>1. {frame[w]} \ {NoRecord} = {frame[w]}
          BY <4>2
        <5> QED
          BY <4>2, <5>1
      <4> QED
        BY <2>3, <4>1, <4>2, CutStore
    <3>2. Store!StoreCrash
      BY <2>3, <3>1, CutStore DEF Crash, Store!StoreCrash
    <3> QED
      BY <3>2 DEF Store!StoreNext
  <2>4. CASE (\E w \in Writers : Lock(w)) \/ Close \/ Tick \/ UNCHANGED vars
    <3>1. Stored' = Stored /\ Durable' = Durable
      BY <2>4, QuietSteps, KeptStore DEF KeepsFiles
    <3> QED
      BY <2>4, <3>1, QuietSteps DEF Store!storeVars
  <2> QED
    BY <2>1, <2>2, <2>3, <2>4 DEF Next
<1> QED
  BY <1>1, <1>2, InitSinkInv, NextSinkInv, InitPlaces, NextPlaces, PTL
  DEF Spec, ImplementsFrameStore, Store!StoreSpec

-----------------------------------------------------------------------------
(* Acknowledged frames are stored, and durable where power may fail. *)
AckInv == acked \subseteq Stored /\ ("power" \in Faults => acked \subseteq Durable)

(* AckInv is kept by every step. *)
LEMMA NextAckInv ==
  ASSUME Sync \/ "power" \notin Faults, SinkInv, PlaceInv, AckInv, [Next]_vars
  PROVE  AckInv'
<1>1. ASSUME NEW w \in Writers, Effect(w)
      PROVE  AckInv'
  <2>1. /\ frame[w] \in Records
        /\ NextBytes(w) \in Nat \ {0} /\ FragmentBytes \in Nat \ {0}
    BY <1>1, HolderWrites, SinkAssumption DEF Effect, Locked, SinkInv
  <2>2. CASE GoOnEffect(w)
    <3>1. acked' = acked
      BY <2>2 DEF GoOnEffect
    <3>2. CASE KeepsFiles
      BY <3>1, <3>2, KeptStore DEF AckInv
    <3>3. CASE \E name : Archived(name)
      BY <3>1, <3>3, MovedStore DEF AckInv
    <3> QED
      BY <2>2, <3>2, <3>3 DEF GoOnEffect
  <2>3. CASE FailEffect(w)
    <3>1. acked' = acked
      BY <2>3 DEF FailEffect, EndsWith
    <3>2. CASE KeepsFiles
      BY <3>1, <3>2, KeptStore DEF AckInv
    <3>3. CASE AddsChunk(w, FALSE, FragmentBytes)
      BY <2>1, <3>1, <3>3, AddedStore DEF AckInv
    <3> QED
      BY <2>3, <3>2, <3>3 DEF FailEffect
  <2>4. CASE PutEffect(w) \/ AckEffect(w)
    <3>1. Stored' = Stored \cup {frame[w]} /\ Durable' = Durable
      BY <2>1, <2>4, AddedStore DEF PutEffect, AckEffect
    <3>2. /\ acked' \subseteq acked \cup {frame[w]}
          /\ "power" \in Faults => acked' = acked
      BY <2>4 DEF PutEffect, AckEffect, EndsWith
    <3> QED
      BY <3>1, <3>2 DEF AckInv
  <2>5. CASE SyncEffect(w)
    <3>1. Stored' = Stored /\ Durable' = Stored
      BY <2>5, SyncedStore DEF SyncEffect
    <3>2. frame[w] \in Stored
      BY <2>1, <2>5, StoredAndDurable DEF SyncEffect, PlaceInv, FrameInv
    <3> QED
      BY <2>5, <3>1, <3>2 DEF SyncEffect, EndsWith, AckInv
  <2> QED
    BY <1>1, <2>2, <2>3, <2>4, <2>5 DEF Effect
<1>2. CASE Crash
  <2>1. acked' = acked /\ Durable' = Durable /\ Durable \subseteq Stored'
    BY <1>2, CutStore DEF Crash
  <2>2. ASSUME "power" \notin Faults
        PROVE  Stored \subseteq Stored'
    <3>1. ASSUME NEW i \in DOMAIN active.chunks
          PROVE  i \in DOMAIN active'.chunks /\ active'.chunks[i] = active.chunks[i]
      <4>1. ~Torn(i, active.chunks)
        BY <2>2 DEF Torn
      <4>2. i # Len(active.chunks) + 1 /\ i \in 1 .. Len(active.chunks)
        BY <3>1, ActiveChunks
      <4>3. ~Interrupts(i)
        BY <4>2 DEF Interrupts
      <4>4. i \in DOMAIN active'.chunks
        BY <1>2, <2>2, <4>2, CutFile
      <4> QED
        BY <1>2, <4>1, <4>3, <4>4, CutFile
    <3>2. UNCHANGED archives /\ \A r : LinesOf(r, active.chunks)
                                        \subseteq LinesOf(r, active'.chunks)
      BY <1>2, <3>1 DEF Crash, LinesOf
    <3> QED
      BY <3>2, StoredAndDurable, StoredAndDurableNext DEF InArchives
  <2> QED
    BY <2>1, <2>2 DEF AckInv
<1>3. ASSUME NEW w \in Writers, NEW r \in Records, WriteSanitizedFrame(w, r)
      PROVE  AckInv'
  BY <1>3, KeptStore DEF WriteSanitizedFrame, KeepsFiles, AckInv
<1>4. CASE (\E w \in Writers : Lock(w)) \/ Close \/ Tick \/ UNCHANGED vars
  BY <1>4, QuietSteps, KeptStore DEF KeepsFiles, AckInv
<1> QED
  BY <1>1, <1>2, <1>3, <1>4, AdvanceHasEffect DEF Next

(* One place of a stored record is the only one. *)
LEMMA StoredOnce ==
  ASSUME SinkInv, PlaceInv, NEW r \in Stored
  PROVE  Cardinality(ActivePlaces(r)) + Cardinality(ArchivePlaces(r)) = 1
<1> DEFINE InFile(n, i) == i \in DOMAIN File(n) /\ File(n)[i].record = r
<1>1. ASSUME NEW n \in Names, NEW m \in Names, NEW i, NEW j,
             InFile(n, i), InFile(m, j)
      PROVE  n = m /\ i = j
  BY <1>1 DEF PlaceInv, UniqueInv
<1>2. ASSUME NEW i \in ActivePlaces(r)
      PROVE  ActiveName \in Names /\ InFile(ActiveName, i)
  BY <1>2 DEF ActivePlaces, LinesOf, Names, File
<1>3. ASSUME NEW p \in ArchivePlaces(r)
      PROVE  \E n \in DOMAIN archives : \E i \in LinesOf(r, archives[n]) :
                p = <<n, i>>
  BY <1>3 DEF ArchivePlaces
<1>4. ASSUME NEW n \in DOMAIN archives, NEW i \in LinesOf(r, archives[n])
      PROVE  n \in Names /\ n # ActiveName /\ InFile(n, i)
  BY <1>4 DEF LinesOf, Names, File, PlaceInv
<1> HIDE DEF InFile
<1>5. CASE ActivePlaces(r) # {}
  <2>1. PICK i \in ActivePlaces(r) : TRUE
    BY <1>5
  <2>2. ActivePlaces(r) = {i} /\ ArchivePlaces(r) = {}
    BY <1>1, <1>2, <1>3, <1>4, <2>1
  <2> QED
    BY <2>2, FS_Singleton, FS_EmptySet
<1>6. CASE ActivePlaces(r) = {}
  <2>1. PICK n \in DOMAIN archives : LinesOf(r, archives[n]) # {}
    BY <1>6, StoredAndDurable DEF InArchives, ActivePlaces
  <2>2. PICK i \in LinesOf(r, archives[n]) : TRUE
    BY <2>1
  <2>3. <<n, i>> \in ArchivePlaces(r)
    BY <2>1, <2>2 DEF ArchivePlaces
  <2>4. ArchivePlaces(r) = {<<n, i>>}
    BY <1>1, <1>3, <1>4, <2>1, <2>2, <2>3
  <2>5. Cardinality(ArchivePlaces(r)) = 1
    BY <2>4, FS_Singleton, Zenon
  <2>6. Cardinality(ActivePlaces(r)) = 0
    BY <1>6, FS_EmptySet
  <2> QED
    BY <2>5, <2>6
<1> QED
  BY <1>5, <1>6

(* However writes fail, whenever the process dies, and even if power does  *)
(* where fsync is on: a frame whose write returned nil is in the files,    *)
(* once (storage.go:88-101, 183-214).                                      *)
THEOREM AckedStaysStoredOnce ==
  ASSUME Sync \/ "power" \notin Faults
  PROVE  Spec => []AckedIsStoredOnce
<1>1. Init => AckInv
  BY DEF Init, AckInv
<1>2. SinkInv /\ PlaceInv /\ AckInv /\ [Next]_vars => AckInv'
  BY NextAckInv
<1>3. SinkInv /\ PlaceInv /\ AckInv => AckedIsStoredOnce
  BY StoredOnce DEF AckInv, AckedIsStoredOnce
<1> QED
  BY <1>1, <1>2, <1>3, InitSinkInv, NextSinkInv, InitPlaces, NextPlaces, PTL
  DEF Spec

-----------------------------------------------------------------------------
(* Rotation by size.  What the holder of the mutex has to know for no file *)
(* to outgrow MaxBytes: the size that the sink keeps is the file's, and    *)
(* whoever is about to write has room, unless the file is empty.           *)
Fits(file) == \A i \in DOMAIN file : i > 1 => file[i].end <= MaxBytes

HasRoom(w) ==
    active.chunks # <<>> => Size(active.chunks) + NextBytes(w) <= MaxBytes

AllFit == Fits(active.chunks) /\ \A n \in DOMAIN archives : Fits(archives[n])

RoomInv ==
    /\ handle.open => handle.size = Size(active.chunks)
    /\ \A w \in Writers : pc[w] \in {"open", "write"} => HasRoom(w)

BoundInv == MaxBytes > 0 => AllFit /\ RoomInv

(* Only the holder of the mutex is past the lock after a step of its own. *)
LEMMA OnlyTheHolder ==
  ASSUME SinkInv, NEW w \in Writers, Effect(w), NEW v \in Writers,
         pc'[v] \in Locked
  PROVE  v = w
<1>1. Others(w) /\ pc[w] \in Locked
  BY DEF Effect, GoOnEffect, FailEffect, PutEffect, AckEffect, SyncEffect,
         EndsWith
<1> QED
  BY <1>1 DEF Others, SinkInv, WritersOK

(* The size of a file to which a chunk was added. *)
LEMMA AddedSize ==
  ASSUME SinkInv, NEW w \in Writers, NEW whole \in BOOLEAN,
         NEW bytes \in Nat \ {0}, AddsChunk(w, whole, bytes)
  PROVE  Size(active'.chunks) = Size(active.chunks) + bytes
<1>1. NewChunk(frame[w], whole, bytes) \in Chunks
  BY HolderWrites, AppendedFields DEF AddsChunk, SinkInv
<1>2. /\ Len(active'.chunks) = Len(active.chunks) + 1
      /\ active'.chunks[Len(active.chunks) + 1]
            = NewChunk(frame[w], whole, bytes)
  BY <1>1, ActiveChunks, AppendProperties DEF AddsChunk
<1>3. active'.chunks # <<>>
  BY <1>2, ActiveChunks
<1> QED
  BY <1>2, <1>3 DEF Size, NewChunk

(* A whole line that has room keeps the files within their bound ... *)
LEMMA AdvanceFits ==
  ASSUME SinkInv, AllFit, RoomInv, "torn" \notin Faults,
         NEW w \in Writers, Effect(w)
  PROVE  AllFit'
<1>1. CASE active'.chunks = active.chunks /\ UNCHANGED archives
  BY <1>1 DEF AllFit, Fits
<1>2. ASSUME NEW name, Archived(name)
      PROVE  AllFit'
  <2>1. /\ active'.chunks = <<>> /\ archives'[name] = active.chunks
        /\ DOMAIN archives' = DOMAIN archives \cup {name}
        /\ \A n \in DOMAIN archives : archives'[n] = archives[n]
    BY <1>2 DEF Archived, NoFile
  <2> QED
    BY <2>1 DEF AllFit, Fits
<1>3. CASE AddsChunk(w, TRUE, NextBytes(w))
  <2>1. /\ pc[w] = "write" /\ NextBytes(w) \in Nat \ {0} /\ HasRoom(w)
        /\ UNCHANGED archives
    BY <1>3, HolderWrites DEF SinkInv, AddsChunk, RoomInv
  <2>2. /\ DOMAIN active'.chunks = 1 .. Len(active.chunks) + 1
        /\ \A i \in 1 .. Len(active.chunks) :
                active'.chunks[i] = active.chunks[i]
        /\ active'.chunks[Len(active.chunks) + 1]
                = NewChunk(frame[w], TRUE, NextBytes(w))
    BY <1>3, <2>1, AddedChunk
  <2>3. ASSUME NEW i \in DOMAIN active'.chunks, i > 1
        PROVE  active'.chunks[i].end <= MaxBytes
    <3>1. CASE i \in 1 .. Len(active.chunks)
      BY <2>2, <2>3, <3>1, ActiveChunks DEF AllFit, Fits
    <3>2. CASE i = Len(active.chunks) + 1
      <4>1. active.chunks # <<>>
        BY <2>3, <3>2, ActiveChunks
      <4> QED
        BY <2>1, <2>2, <3>2, <4>1 DEF HasRoom, NewChunk
    <3> QED
      BY <2>2, <2>3, <3>1, <3>2, ActiveChunks
  <2> QED
    BY <2>1, <2>3 DEF AllFit, Fits
<1> QED
  BY <1>1, <1>2, <1>3
  DEF Effect, GoOnEffect, FailEffect, PutEffect, AckEffect, SyncEffect,
      KeepsFiles

(* ... and each step of the holder leaves room for the line to come. *)
LEMMA AdvanceRoom ==
  ASSUME SinkInv, RoomInv, MaxBytes > 0, "fstat" \notin Faults,
         "torn" \notin Faults, NEW w \in Writers, Advance(w)
  PROVE  RoomInv'
<1> DEFINE Goal ==
        /\ handle'.open => handle'.size = Size(active'.chunks)
        /\ pc'[w] \in {"open", "write"} => HasRoom(w)'
<1>1. Goal => RoomInv'
  <2>1. Effect(w)
    BY AdvanceHasEffect
  <2>2. ASSUME NEW v \in Writers, pc'[v] \in {"open", "write"}
        PROVE  v = w
    BY <2>1, <2>2, OnlyTheHolder DEF Locked
  <2> QED
    BY <2>2 DEF RoomInv
<1>2. /\ active.chunks \in Seq(Chunks) /\ Size(active.chunks) \in Nat
      /\ active.chunks # <<>> => Size(active.chunks) > 0
      /\ pc[w] # "idle" => NextBytes(w) \in Nat \ {0}
      /\ MaxBytes \in Nat /\ handle.size \in Nat
  BY ActiveChunks, SizeType, HolderWrites, SinkAssumption DEF SinkInv, FilesOK
<1>3. ASSUME active'.chunks = active.chunks, frame' = frame
      PROVE  HasRoom(w)' <=> HasRoom(w)
  BY <1>3 DEF HasRoom, NextBytes
<1>4. ASSUME NEW label, Goto(w, label)
      PROVE  pc'[w] = label
  BY <1>4 DEF Goto, SinkInv, WritersOK
<1>5. ASSUME NEW err, Return(w, err)
      PROVE  pc'[w] = "idle"
  BY <1>4, <1>5 DEF Return
<1>6. CASE EnsureWriter(w)
  <2>1. UNCHANGED <<active, handle, frame>> /\ pc[w] = "ensure"
    BY <1>6 DEF EnsureWriter, UnchangedWriter
  <2>2. ASSUME pc'[w] \in {"open", "write"}
        PROVE  handle.open /\ ~SizeLimit(w)
    BY <1>4, <1>6, <2>2 DEF EnsureWriter
  <2>3. handle.open /\ ~SizeLimit(w) => HasRoom(w)
    BY <1>2, <2>1 DEF SizeLimit, RoomInv, HasRoom
  <2> QED
    BY <1>1, <1>3, <2>1, <2>2, <2>3 DEF RoomInv
<1>7. CASE CloseFile(w)
  BY <1>1, <1>4, <1>5, <1>7 DEF CloseFile, NoHandle
<1>8. CASE Move(w)
  <2>1. ~handle'.open
    BY <1>8, MoveFacts
  <2>2. ASSUME pc'[w] \in {"open", "write"}
        PROVE  active'.chunks = <<>>
    BY <1>4, <1>5, <1>8, <2>2 DEF Move, NoFile, SinkInv, FilesOK
  <2> QED
    BY <1>1, <2>1, <2>2 DEF HasRoom
<1>9. CASE StatPath(w)
  <2>1. /\ UNCHANGED <<active, handle>> /\ ~handle.open /\ pc[w] = "stat"
    BY <1>9 DEF StatPath, SinkInv, HolderInv
  <2>2. ASSUME pc'[w] \in {"open", "write"}
        PROVE  ~(active.exists /\ StaleSize(w)) /\ frame' = frame
    BY <1>4, <1>5, <1>9, <2>2 DEF StatPath, UnchangedWriter
  <2>3. ~(active.exists /\ StaleSize(w)) => HasRoom(w)
    BY <1>2, <2>1 DEF StaleSize, HasRoom, SinkInv, FilesOK
  <2> QED
    BY <1>1, <1>3, <2>1, <2>2, <2>3
<1>10. CASE OpenFile(w)
  <2>1. pc[w] = "open" /\ HasRoom(w) /\ ~handle.open
    BY <1>10 DEF OpenFile, RoomInv, SinkInv, HolderInv
  <2>2. active'.chunks = active.chunks
    BY <1>10 DEF OpenFile, NoFile, SinkInv, FilesOK
  <2>3. ASSUME pc'[w] \in {"open", "write"}
        PROVE  frame' = frame
    BY <1>5, <1>10, <2>3 DEF OpenFile, UnchangedWriter
  <2>4. handle'.open => handle'.size = Size(active.chunks)
    BY <1>10, <2>1 DEF OpenFile
  <2> QED
    BY <1>1, <1>3, <2>1, <2>2, <2>3, <2>4
<1>11. CASE WriteLine(w)
  <2>1. pc[w] = "write" /\ AddsChunk(w, TRUE, NextBytes(w)) /\ handle.open
    BY <1>11, AppendedFields, HolderWrites
    DEF WriteLine, AddsChunk, SinkInv, HolderInv
  <2>2. Size(active'.chunks) = Size(active.chunks) + NextBytes(w)
    BY <1>2, <2>1, AddedSize
  <2>3. handle'.size = handle.size + NextBytes(w)
    BY <1>11 DEF WriteLine, SinkInv, FilesOK
  <2>4. pc'[w] \in {"sync", "idle"}
    BY <1>4, <1>5, <1>11 DEF WriteLine
  <2> QED
    BY <1>1, <2>1, <2>2, <2>3, <2>4 DEF RoomInv
<1>12. CASE WriteFails(w)
  BY <1>1, <1>5, <1>12 DEF WriteFails, RoomInv
<1>13. CASE SyncFile(w)
  <2>1. active'.chunks = active.chunks /\ UNCHANGED handle
    BY <1>13 DEF SyncFile, SinkInv, FilesOK, ActiveFiles
  <2>2. pc'[w] = "idle"
    BY <1>5, <1>13 DEF SyncFile
  <2> QED
    BY <1>1, <2>1, <2>2 DEF RoomInv
<1> QED
  BY <1>6, <1>7, <1>8, <1>9, <1>10, <1>11, <1>12, <1>13 DEF Advance

(* A crash takes chunks away, or adds the line that was being written. *)
LEMMA CrashBound ==
  ASSUME SinkInv, AllFit, RoomInv, "torn" \notin Faults, Crash
  PROVE  AllFit' /\ RoomInv'
<1>1. RoomInv'
  BY DEF Crash, RoomInv, NoHandle
<1>2. ASSUME NEW i \in DOMAIN active'.chunks, i > 1
      PROVE  active'.chunks[i].end <= MaxBytes
  <2>1. CASE i \in DOMAIN active.chunks /\ active'.chunks[i] = active.chunks[i]
    BY <1>2, <2>1 DEF AllFit, Fits
  <2>2. ASSUME i = Len(active.chunks) + 1, NEW v \in Writers,
               pc[v] = "write",
               active'.chunks[i] = NewChunk(frame[v], TRUE, NextBytes(v))
        PROVE  active'.chunks[i].end <= MaxBytes
    <3>1. active.chunks # <<>> /\ HasRoom(v)
      BY <1>2, <2>2, ActiveChunks DEF RoomInv
    <3> QED
      BY <2>2, <3>1 DEF HasRoom, NewChunk
  <2>3. ~Torn(i, active.chunks)
    BY DEF Torn
  <2>4. CASE Interrupts(i)
    <3>1. PICK v \in Writers :
            /\ pc[v] = "write"
            /\ active'.chunks[i] = NewChunk(frame[v], TRUE, NextBytes(v))
      BY <2>4 DEF Interrupts, UnderWay
    <3> QED
      BY <2>2, <2>4, <3>1 DEF Interrupts
  <2> QED
    BY <1>2, <2>1, <2>3, <2>4, CutFile
<1>3. UNCHANGED archives
  BY DEF Crash
<1> QED
  BY <1>1, <1>2, <1>3 DEF AllFit, Fits

(* The other steps touch neither the files nor who is about to write. *)
LEMMA QuietBound ==
  ASSUME SinkInv, AllFit, RoomInv,
         \/ \E w \in Writers, r \in Records : WriteSanitizedFrame(w, r)
         \/ (\E w \in Writers : Lock(w)) \/ Close \/ Tick \/ UNCHANGED vars
  PROVE  AllFit' /\ RoomInv'
<1>1. UNCHANGED <<active, archives>>
  BY DEF WriteSanitizedFrame, Lock, Close, Tick, vars
<1>2. ASSUME NEW v \in Writers, pc'[v] \in {"open", "write"}
      PROVE  pc[v] = pc'[v] /\ frame'[v] = frame[v]
  BY <1>2 DEF WriteSanitizedFrame, Lock, Close, Tick, vars, Goto, SinkInv,
              WritersOK
<1>3. UNCHANGED handle \/ ~handle'.open
  <2>1. Close => ~handle'.open
    BY DEF Close, NoHandle
  <2>2. UNCHANGED handle \/ Close
    BY DEF WriteSanitizedFrame, Lock, Tick, vars
  <2> QED
    BY <2>1, <2>2
<1> QED
  BY <1>1, <1>2, <1>3 DEF AllFit, RoomInv, HasRoom, NextBytes, Fits

(* BoundInv is kept by every step. *)
LEMMA NextBoundInv ==
  ASSUME "torn" \notin Faults, "fstat" \notin Faults,
         SinkInv, BoundInv, [Next]_vars
  PROVE  BoundInv'
<1> SUFFICES ASSUME MaxBytes > 0, AllFit, RoomInv
             PROVE  AllFit' /\ RoomInv'
  BY DEF BoundInv
<1>1. ASSUME NEW w \in Writers, Advance(w)
      PROVE  AllFit' /\ RoomInv'
  BY <1>1, AdvanceHasEffect, AdvanceFits, AdvanceRoom
<1> QED
  BY <1>1, CrashBound, QuietBound DEF Next

(* No file outgrows MaxBytes, except by a single line that is too long by  *)
(* itself: while no write fails half way and fstat works, the size that    *)
(* the sink keeps is the file's, and each of the three ways to a write -   *)
(* an open file, a rotated one, one found at a restart - has looked at it  *)
(* (storage.go:132, 159).                                                  *)
THEOREM FilesStayBounded ==
  ASSUME "torn" \notin Faults, "fstat" \notin Faults
  PROVE  Spec => []FilesAreBounded
<1>1. Init => BoundInv
  BY DEF Init, BoundInv, AllFit, RoomInv, Fits, NoFile, NoHandle
<1>2. SinkInv /\ BoundInv /\ [Next]_vars => BoundInv'
  BY NextBoundInv
<1>3. SinkInv /\ BoundInv => FilesAreBounded
  <2> SUFFICES ASSUME SinkInv, AllFit, NEW file \in Files, Len(file) > 1
               PROVE  Size(file) <= MaxBytes
    BY DEF BoundInv, FilesAreBounded
  <2>1. file \in Seq(Chunks) /\ Fits(file)
    BY DEF Files, SinkInv, FilesOK, ActiveFiles, AllFit
  <2>2. file # <<>> /\ Len(file) \in DOMAIN file
    BY <2>1, LastChunk
  <2> QED
    BY <2>1, <2>2 DEF Size, Fits
<1> QED
  BY <1>1, <1>2, <1>3, InitSinkInv, NextSinkInv, PTL DEF Spec

-----------------------------------------------------------------------------
(* Rotation by day.  A frame is stamped before it waits for the mutex, so  *)
(* it may be written to the file of a later day than its own, never to     *)
(* that of an earlier one.                                                 *)
Before(file, day) == \A i \in DOMAIN file : Day(born[file[i].record]) <= day

ChunksAreOlder ==
    \A i \in DOMAIN active.chunks : born[active.chunks[i].record] <= active.mtime

HandleDay == RotateDaily /\ handle.open => Before(active.chunks, handle.day)

WriterDay(w) ==
    /\ pc[w] \in {"close", "rotate", "move"} /\ stamp[1] = "day" =>
            Before(active.chunks, stamp[2])
    /\ pc[w] \in Locked \ {"ensure", "sync"} => born[frame[w]] <= now
    /\ RotateDaily /\ pc[w] = "open" /\ active.chunks # <<>> =>
            Day(active.mtime) = Day(now)
    /\ RotateDaily /\ pc[w] = "write" => Day(born[frame[w]]) <= handle.day

DayInv ==
    /\ \A r \in DOMAIN born : born[r] <= clock
    /\ ChunksAreOlder /\ HandleDay
    /\ \A w \in Writers : WriterDay(w)
    /\ NoFrameAfterItsArchive

(* Every chunk and every frame on its way has a time. *)
LEMMA TimesAreKnown ==
  ASSUME SinkInv, PlaceInv
  PROVE  /\ \A i \in DOMAIN active.chunks :
                /\ active.chunks[i].record \in DOMAIN born
                /\ born[active.chunks[i].record] \in Nat
         /\ \A w \in Writers : pc[w] # "idle" =>
                frame[w] \in DOMAIN born /\ born[frame[w]] \in Nat
         /\ active.mtime \in Nat /\ now \in Nat /\ clock \in Nat
<1>1. /\ ActiveName \in Names /\ File(ActiveName) = active.chunks
  BY DEF Names, File
<1>2. \A i \in DOMAIN active.chunks : active.chunks[i].record \in DOMAIN born
  BY <1>1 DEF PlaceInv, BornInv
<1>3. active.mtime \in Nat
  BY DEF SinkInv, FilesOK, ActiveFiles
<1> QED
  BY <1>2, <1>3 DEF SinkInv, WritersOK, PlaceInv, BornInv

(* A file that was just written to is younger than its chunks. *)
LEMMA JustWritten ==
  ASSUME PlaceInv', active'.mtime = clock',
         \A r \in DOMAIN born' : born'[r] <= clock'
  PROVE  ChunksAreOlder'
<1>1. ActiveName \in Names' /\ File(ActiveName)' = active'.chunks
  BY DEF Names, File
<1>2. \A i \in DOMAIN active'.chunks : active'.chunks[i].record \in DOMAIN born'
  BY <1>1 DEF PlaceInv, BornInv
<1> QED
  BY <1>2 DEF ChunksAreOlder

(* The line that is written is not of a later day than the file. *)
LEMMA AddedDays ==
  ASSUME SinkInv, PlaceInv, DayInv, NEW w \in Writers, NEW whole \in BOOLEAN,
         NEW bytes \in Nat \ {0}, AddsChunk(w, whole, bytes), UNCHANGED born,
         handle'.day = handle.day
  PROVE  HandleDay'
<1> SUFFICES ASSUME RotateDaily, NEW i \in DOMAIN active'.chunks
             PROVE  Day(born[active'.chunks[i].record]) <= handle.day
  BY DEF HandleDay, Before
<1>1. /\ pc[w] = "write" /\ handle.open
  BY DEF AddsChunk, SinkInv, HolderInv
<1>2. /\ DOMAIN active'.chunks = 1 .. Len(active.chunks) + 1
      /\ \A j \in 1 .. Len(active.chunks) :
            active'.chunks[j] = active.chunks[j]
      /\ active'.chunks[Len(active.chunks) + 1]
            = NewChunk(frame[w], whole, bytes)
  BY AddedChunk
<1>3. CASE i \in 1 .. Len(active.chunks)
  BY <1>1, <1>2, <1>3, ActiveChunks DEF DayInv, HandleDay, Before
<1>4. CASE i = Len(active.chunks) + 1
  BY <1>1, <1>2, <1>4 DEF DayInv, WriterDay, NewChunk
<1> QED
  BY <1>2, <1>3, <1>4, ActiveChunks

(* The steps of the holder: that the writer about to write, the handle,    *)
(* the stamp and the file agree on the day.                                *)
LEMMA AdvanceDays ==
  ASSUME SinkInv, PlaceInv, DayInv, PlaceInv', NEW w \in Writers, Advance(w)
  PROVE  DayInv'
<1>1. /\ Effect(w) /\ UNCHANGED <<clock, born>>
      /\ \A r \in DOMAIN born : born[r] <= clock
      /\ pc[w] # "idle"
  BY AdvanceHasEffect
  DEF Effect, GoOnEffect, FailEffect, PutEffect, AckEffect, SyncEffect,
      EndsWith, Others, DayInv, Locked
<1>2. ASSUME ChunksAreOlder', HandleDay', WriterDay(w)', NoFrameAfterItsArchive'
      PROVE  DayInv'
  <2>1. ASSUME NEW v \in Writers, v # w
        PROVE  WriterDay(v)'
    <3>1. pc'[v] \notin Locked
      BY <1>1, <2>1, OnlyTheHolder
    <3> QED
      BY <3>1 DEF WriterDay, Locked
  <2> QED
    BY <1>1, <1>2, <2>1 DEF DayInv
<1>3. /\ ChunksAreOlder /\ HandleDay /\ WriterDay(w) /\ NoFrameAfterItsArchive
  BY DEF DayInv
<1>4. ASSUME UNCHANGED archives
      PROVE  NoFrameAfterItsArchive'
  BY <1>1, <1>3, <1>4 DEF NoFrameAfterItsArchive
<1>5. ASSUME active'.chunks = active.chunks, active'.mtime = active.mtime
      PROVE  ChunksAreOlder'
  BY <1>1, <1>3, <1>5 DEF ChunksAreOlder
<1>6. ASSUME NEW label, Goto(w, label)
      PROVE  pc'[w] = label
  BY <1>6 DEF Goto, SinkInv, WritersOK
<1>7. ASSUME pc'[w] \in {"idle", "sync"}
      PROVE  WriterDay(w)'
  BY <1>7 DEF WriterDay, Locked
<1>8. ASSUME NEW err, Return(w, err)
      PROVE  pc'[w] = "idle" /\ WriterDay(w)'
  BY <1>6, <1>7, <1>8 DEF Return
<1>9. /\ frame[w] \in DOMAIN born /\ born[frame[w]] \in Nat
      /\ born[frame[w]] <= clock
  BY <1>1, TimesAreKnown
<1>10. CASE EnsureWriter(w)
  <2>1. /\ UNCHANGED <<active, archives, handle, frame>> /\ now' = clock
    BY <1>10 DEF EnsureWriter, UnchangedWriter
  <2>2. Day(born[frame[w]]) <= Day(clock)
    BY <1>9, DayMonotone, TimesAreKnown
  <2>3. CASE /\ handle.open /\ Goto(w, "close")
             /\ stamp' = ArchiveStamp(handle.day, clock, DayBoundary)
    <3>1. stamp'[1] = "day" => RotateDaily /\ stamp'[2] = handle.day
      BY <2>3 DEF ArchiveStamp, DayBoundary
    <3>2. stamp'[1] = "day" => Before(active.chunks, stamp[2])'
      BY <1>1, <1>3, <2>1, <2>3, <3>1 DEF HandleDay, Before
    <3> QED
      BY <1>1, <1>2, <1>3, <1>4, <1>5, <1>6, <1>9, <2>1, <2>3, <3>2
      DEF WriterDay, HandleDay, Before
  <2>4. CASE handle.open /\ ~DayBoundary /\ Goto(w, "write")
    <3>1. RotateDaily => Day(clock) = handle.day
      BY <2>4 DEF DayBoundary
    <3> QED
      BY <1>1, <1>2, <1>3, <1>4, <1>5, <1>6, <1>9, <2>1, <2>2, <2>4, <3>1
      DEF WriterDay, HandleDay, Before
  <2>5. CASE Goto(w, "stat")
    BY <1>1, <1>2, <1>3, <1>4, <1>5, <1>6, <1>9, <2>1, <2>5
    DEF WriterDay, HandleDay, Before
  <2> QED
    BY <1>10, <2>3, <2>4, <2>5 DEF EnsureWriter
<1>11. CASE CloseFile(w)
  <2>1. pc[w] = "close" /\ UNCHANGED <<active, archives>> /\ ~handle'.open
    BY <1>11 DEF CloseFile, NoHandle
  <2>2. WriterDay(w)'
    <3>1. CASE Return(w, "error")
      BY <1>8, <3>1
    <3>2. CASE Goto(w, "rotate") /\ UNCHANGED <<now, stamp>> /\ UnchangedWriter
      BY <1>1, <1>3, <1>6, <2>1, <3>2
      DEF WriterDay, Before, UnchangedWriter, Locked
    <3> QED
      BY <1>11, <3>1, <3>2 DEF CloseFile
  <2> QED
    BY <1>2, <1>4, <1>5, <2>1, <2>2 DEF HandleDay
<1>12. CASE Move(w)
  <2>1. ~handle'.open /\ pc[w] \in {"rotate", "move"}
    BY <1>12, MoveFacts DEF Move
  <2>2. ChunksAreOlder' /\ NoFrameAfterItsArchive'
    <3>1. CASE UNCHANGED <<active, archives>>
      BY <1>4, <1>5, <3>1
    <3>2. ASSUME NEW name, Archived(name)
          PROVE  ChunksAreOlder' /\ NoFrameAfterItsArchive'
      <4>1. active'.chunks = <<>>
        BY <3>2 DEF Archived, NoFile
      <4>2. name[1][1] = "day" => Before(active.chunks, name[1][2])
        BY <1>3, <2>1, <3>2 DEF WriterDay, Archived
      <4>3. ASSUME NEW n \in DOMAIN archives', n[1][1] = "day",
                   NEW i \in DOMAIN archives'[n]
            PROVE  Day(born[archives'[n][i].record]) <= n[1][2]
        <5>1. CASE n = name
          BY <3>2, <4>2, <4>3, <5>1 DEF Archived, Before
        <5>2. CASE n \in DOMAIN archives /\ archives'[n] = archives[n]
          BY <1>3, <4>3, <5>2 DEF NoFrameAfterItsArchive
        <5> QED
          BY <3>2, <5>1, <5>2 DEF Archived
      <4>4. ChunksAreOlder'
        BY <4>1 DEF ChunksAreOlder
      <4> QED
        BY <1>1, <4>3, <4>4 DEF NoFrameAfterItsArchive
    <3> QED
      BY <1>12, <3>1, <3>2, MoveFacts
  <2>3. WriterDay(w)'
    <3>1. CASE Return(w, "error")
      BY <1>8, <3>1
    <3>2. CASE /\ Goto(w, AfterRotation(w)) /\ UNCHANGED <<now, stamp>>
               /\ UnchangedWriter
      <4>1. pc'[w] \in {"stat", "open"} /\ UNCHANGED <<frame, now>>
        BY <1>6, <3>2 DEF AfterRotation, UnchangedWriter
      <4>2. pc'[w] = "open" => active'.chunks = <<>>
        BY <1>8, <1>12, <4>1 DEF Move, NoFile, SinkInv, FilesOK
      <4>3. born[frame[w]] <= now
        BY <1>3, <2>1 DEF WriterDay, Locked
      <4> QED
        BY <1>1, <4>1, <4>2, <4>3 DEF WriterDay
    <3> QED
      BY <1>12, <3>1, <3>2, MoveFacts
  <2> QED
    BY <1>2, <2>1, <2>2, <2>3 DEF HandleDay
<1>13. CASE StatPath(w)
  <2>1. pc[w] = "stat" /\ UNCHANGED <<active, archives, handle>> /\ ~handle.open
    BY <1>13 DEF StatPath, SinkInv, HolderInv
  <2>2. born[frame[w]] <= now
    BY <1>3, <2>1 DEF WriterDay, Locked
  <2>3. WriterDay(w)'
    <3>1. CASE Return(w, "error")
      BY <1>8, <3>1
    <3>2. CASE /\ Goto(w, "move") /\ UNCHANGED now /\ UnchangedWriter
               /\ stamp' = ArchiveStamp(Day(active.mtime), now, StaleDay)
      <4>1. Before(active.chunks, Day(active.mtime))
        BY <1>3, DayMonotone, TimesAreKnown DEF ChunksAreOlder, Before
      <4>2. stamp'[1] = "day" => stamp'[2] = Day(active.mtime)
        BY <3>2 DEF ArchiveStamp
      <4> QED
        BY <1>1, <1>6, <2>1, <2>2, <3>2, <4>1, <4>2
        DEF WriterDay, UnchangedWriter, Before
    <3>3. CASE /\ Goto(w, "open") /\ UNCHANGED now /\ UnchangedWriter
               /\ ~(active.exists /\ StaleDay)
      <4>1. RotateDaily /\ active.chunks # <<>> => Day(active.mtime) = Day(now)
        BY <3>3, ActiveChunks, SizeType DEF StaleDay, SinkInv, FilesOK
      <4> QED
        BY <1>1, <1>6, <2>1, <2>2, <3>3, <4>1 DEF WriterDay, UnchangedWriter
    <3> QED
      BY <1>13, <3>1, <3>2, <3>3 DEF StatPath
  <2> QED
    BY <1>2, <1>4, <1>5, <2>1, <2>3 DEF HandleDay
<1>14. CASE OpenFile(w)
  <2>1. /\ pc[w] = "open" /\ UNCHANGED archives /\ active'.chunks = active.chunks
        /\ active.chunks = <<>> \/ active'.mtime = active.mtime
    BY <1>14 DEF OpenFile, NoFile, SinkInv, FilesOK
  <2>2. ChunksAreOlder'
    BY <1>5, <2>1 DEF ChunksAreOlder
  <2>3. CASE Return(w, "error") /\ UNCHANGED handle
    BY <1>1, <1>2, <1>3, <1>4, <1>8, <2>1, <2>2, <2>3 DEF HandleDay, Before
  <2>4. CASE /\ Goto(w, "write") /\ UNCHANGED now /\ UnchangedWriter
             /\ handle'.day = Day(now)
    <3>1. Day(born[frame[w]]) <= Day(now) /\ born[frame[w]] <= now
      BY <1>3, <1>9, <2>1, DayMonotone, TimesAreKnown DEF WriterDay, Locked
    <3>2. RotateDaily => Before(active.chunks, Day(now))
      <4>1. CASE active.chunks = <<>>
        BY <4>1 DEF Before
      <4>2. CASE active.chunks # <<>>
        BY <1>3, <2>1, <4>2, DayMonotone, TimesAreKnown
        DEF WriterDay, Before, ChunksAreOlder
      <4> QED
        BY <4>1, <4>2
    <3>3. HandleDay'
      BY <1>1, <2>1, <2>4, <3>2 DEF HandleDay, Before
    <3>4. WriterDay(w)'
      BY <1>1, <1>6, <2>4, <3>1 DEF WriterDay, UnchangedWriter
    <3> QED
      BY <1>2, <1>4, <2>1, <2>2, <3>3, <3>4
  <2> QED
    BY <1>14, <2>3, <2>4 DEF OpenFile
<1>15. CASE WriteLine(w) \/ WriteFails(w)
  <2>1. /\ UNCHANGED archives /\ handle'.day = handle.day
        /\ pc'[w] \in {"idle", "sync"}
    BY <1>6, <1>8, <1>15 DEF WriteLine, WriteFails, SinkInv, FilesOK
  <2>2. ASSUME NEW whole \in BOOLEAN, NEW n \in Nat \ {0},
               active' = Appended(frame[w], whole, n)
        PROVE  HandleDay' /\ ChunksAreOlder'
    <3>1. pc[w] = "write" /\ frame[w] \in Records
      BY <1>15, HolderWrites DEF WriteLine, WriteFails, SinkInv
    <3>2. /\ active'.mtime = clock /\ active'.synced = active.synced
          /\ active'.chunks = Append(active.chunks,
                                     NewChunk(frame[w], whole, n))
      BY <2>2, <3>1, AppendedFields DEF SinkInv
    <3>3. AddsChunk(w, whole, n)
      BY <2>1, <3>1, <3>2 DEF AddsChunk
    <3> QED
      BY <1>1, <2>1, <3>2, <3>3, AddedDays, JustWritten
  <2>3. NextBytes(w) \in Nat \ {0} /\ FragmentBytes \in Nat \ {0}
    BY <1>1, HolderWrites, SinkAssumption DEF SinkInv
  <2>4. CASE UNCHANGED <<active, handle>>
    BY <1>1, <1>2, <1>3, <1>4, <1>5, <1>7, <2>1, <2>4 DEF HandleDay, Before
  <2>5. \/ UNCHANGED <<active, handle>>
        \/ active' = Appended(frame[w], TRUE, NextBytes(w))
        \/ active' = Appended(frame[w], FALSE, FragmentBytes)
    BY <1>15 DEF WriteLine, WriteFails
  <2> QED
    BY <1>2, <1>4, <1>7, <2>1, <2>2, <2>3, <2>4, <2>5
<1>16. CASE SyncFile(w)
  <2>1. /\ active'.chunks = active.chunks /\ active'.mtime = active.mtime
        /\ UNCHANGED <<handle, archives>>
    BY <1>16 DEF SyncFile, SinkInv, FilesOK, ActiveFiles
  <2>2. WriterDay(w)'
    BY <1>8, <1>16 DEF SyncFile
  <2> QED
    BY <1>1, <1>2, <1>3, <1>4, <1>5, <2>1, <2>2 DEF HandleDay, Before
<1> QED
  BY <1>10, <1>11, <1>12, <1>13, <1>14, <1>15, <1>16 DEF Advance

(* After a crash the file has lost chunks, or was just written to. *)
LEMMA CrashDays ==
  ASSUME SinkInv, PlaceInv, DayInv, PlaceInv', Crash
  PROVE  DayInv'
<1>1. /\ UNCHANGED <<clock, born, archives>> /\ ~handle'.open
      /\ \A w \in Writers : pc'[w] = "idle"
  BY DEF Crash, NoHandle
<1>2. ChunksAreOlder'
  <2>1. PICK file \in Seq(Chunks), n \in Nat : Survives(file, n)
    BY CrashFacts
  <2>2. CASE active'.mtime = clock
    BY <1>1, <2>2, JustWritten DEF DayInv
  <2>3. CASE file = active.chunks /\ active'.mtime = active.mtime
    <3>1. /\ DOMAIN active'.chunks = 1 .. n /\ n <= Len(active.chunks)
          /\ \A i \in 1 .. n :
                active'.chunks[i].record = active.chunks[i].record
      BY <2>1, <2>3 DEF Survives, Torn
    <3>2. \A i \in 1 .. n : i \in 1 .. Len(active.chunks)
      BY <2>1, <3>1, ActiveChunks
    <3> QED
      BY <1>1, <2>3, <3>1, <3>2, ActiveChunks DEF DayInv, ChunksAreOlder
  <2> QED
    BY <2>1, <2>2, <2>3 DEF Survives, Written
<1>3. NoFrameAfterItsArchive'
  BY <1>1 DEF DayInv, NoFrameAfterItsArchive
<1>4. \A w \in Writers : WriterDay(w)'
  BY <1>1 DEF WriterDay, Locked
<1> QED
  BY <1>1, <1>2, <1>3, <1>4 DEF DayInv, HandleDay

(* The steps outside the lock: a new frame is stamped with the time, and   *)
(* the time goes on.                                                       *)
LEMMA QuietDays ==
  ASSUME SinkInv, PlaceInv, DayInv,
         \/ \E w \in Writers, r \in Records : WriteSanitizedFrame(w, r)
         \/ (\E w \in Writers : Lock(w)) \/ Close \/ Tick \/ UNCHANGED vars
  PROVE  DayInv'
<1>1. /\ UNCHANGED <<active, archives, now, stamp>>
      /\ UNCHANGED handle \/ ~handle'.open
  <2>1. Close => ~handle'.open
    BY DEF Close, NoHandle
  <2>2. UNCHANGED handle \/ Close
    BY DEF WriteSanitizedFrame, Lock, Tick, vars
  <2>3. UNCHANGED <<active, archives, now, stamp>>
    BY DEF WriteSanitizedFrame, Lock, Close, Tick, vars
  <2> QED
    BY <2>1, <2>2, <2>3
<1>2. /\ DOMAIN born \subseteq DOMAIN born'
      /\ \A r \in DOMAIN born : born'[r] = born[r]
  BY DEF WriteSanitizedFrame, Lock, Close, Tick, vars
<1>3. \A r \in DOMAIN born' : born'[r] <= clock'
  <2>1. ASSUME NEW w \in Writers, NEW r \in Records, WriteSanitizedFrame(w, r)
        PROVE  \A x \in DOMAIN born' : born'[x] <= clock'
    <3>1. /\ DOMAIN born' = DOMAIN born \cup {r} /\ born'[r] = clock
          /\ clock' = clock /\ clock \in Nat
      BY <2>1 DEF WriteSanitizedFrame, SinkInv, WritersOK
    <3> QED
      BY <1>2, <3>1 DEF DayInv
  <2>2. CASE (\E w \in Writers : Lock(w)) \/ Close \/ Tick \/ UNCHANGED vars
    <3>1. /\ born' = born /\ clock \in Nat /\ clock' \in Nat /\ clock <= clock'
      BY <2>2 DEF Lock, Close, Tick, vars, SinkInv, WritersOK
    <3>2. \A r \in DOMAIN born : born[r] \in Nat
      BY DEF SinkInv, WritersOK
    <3> QED
      BY <3>1, <3>2 DEF DayInv
  <2> QED
    BY <2>1, <2>2
<1>4. ASSUME NEW v \in Writers, pc'[v] \in Locked \ {"ensure"}
      PROVE  pc[v] = pc'[v] /\ frame'[v] = frame[v] /\ UNCHANGED handle
  <2>1. ASSUME Close
        PROVE  pc'[v] \notin Locked
    BY <2>1, SinkAssumption DEF Close, SinkInv, WritersOK
  <2> QED
    BY <1>4, <2>1 DEF WriteSanitizedFrame, Lock, Tick, vars, Goto, SinkInv,
                      WritersOK, Locked
<1>5. \A i \in DOMAIN active.chunks :
        born'[active.chunks[i].record] = born[active.chunks[i].record]
  BY <1>2, TimesAreKnown
<1>6. ChunksAreOlder' /\ HandleDay'
  BY <1>1, <1>5 DEF DayInv, ChunksAreOlder, HandleDay, Before
<1>7. ASSUME NEW v \in Writers
      PROVE  WriterDay(v)'
  <2>1. CASE pc'[v] \notin Locked \ {"ensure"}
    BY <2>1 DEF WriterDay, Locked
  <2>2. CASE pc'[v] \in Locked \ {"ensure"}
    <3>1. /\ pc[v] = pc'[v] /\ frame'[v] = frame[v] /\ UNCHANGED handle
      BY <1>4, <2>2
    <3>2. born'[frame[v]] = born[frame[v]]
      BY <1>2, <2>2, <3>1, TimesAreKnown DEF Locked
    <3>3. WriterDay(v)
      BY DEF DayInv
    <3> QED
      BY <1>1, <1>5, <3>1, <3>2, <3>3 DEF WriterDay, Before
  <2> QED
    BY <2>1, <2>2
<1>8. NoFrameAfterItsArchive'
  <2>1. ASSUME NEW n \in DOMAIN archives, NEW i \in DOMAIN archives[n]
        PROVE  archives[n][i].record \in DOMAIN born
    BY <2>1 DEF PlaceInv, BornInv, Names, File
  <2> QED
    BY <1>1, <1>2, <2>1 DEF DayInv, NoFrameAfterItsArchive
<1> QED
  BY <1>3, <1>6, <1>7, <1>8 DEF DayInv

(* DayInv is kept by every step. *)
LEMMA NextDays ==
  ASSUME SinkInv, PlaceInv, DayInv, PlaceInv', [Next]_vars
  PROVE  DayInv'
  BY AdvanceDays, CrashDays, QuietDays DEF Next

(* An archive named after a day holds no frame sanitized on a later day,   *)
(* however long a frame waits for the mutex, whenever midnight passes      *)
(* between the steps of a write, and whether the file was open or was      *)
(* found at a restart (storage.go:131-136, 149-157).                       *)
THEOREM NoFrameIsAfterItsArchive == Spec => []NoFrameAfterItsArchive
<1>1. Init => DayInv
  BY DEF Init, DayInv, ChunksAreOlder, HandleDay, WriterDay, Before, NoFile,
         NoHandle, Locked, NoFrameAfterItsArchive
<1>2. SinkInv /\ PlaceInv /\ PlaceInv' /\ DayInv /\ [Next]_vars => DayInv'
  BY NextDays
<1>3. DayInv => NoFrameAfterItsArchive
  BY DEF DayInv
<1> QED
  BY <1>1, <1>2, <1>3, InitSinkInv, NextSinkInv, InitPlaces, NextPlaces, PTL
  DEF Spec

=============================================================================
