------------------------------ MODULE JSONLSink ------------------------------
(***************************************************************************)
(* storage.JSONLSink (server/internal/storage/storage.go): one JSON line   *)
(* per sanitized frame, appended to the active file under a mutex, with    *)
(* rotation by size and by UTC day into archive files whose names are      *)
(* never reused.  One action per system call, because the process may die  *)
(* between any two and the clock may pass midnight; only the search for a  *)
(* free archive name and the rename (Move) are one, since all but the      *)
(* rename look at names that nobody else touches under the mutex.          *)
(*                                                                         *)
(* A file is a sequence of chunks, one per write: a whole line, or the     *)
(* fragment - without the final newline - that a failed write leaves.  A   *)
(* chunk knows its end offset, so the last one tells the file's size.      *)
(*                                                                         *)
(* External: the file system.  Writes append (O_APPEND), rename is atomic, *)
(* fsync makes the whole file durable, and losing power may take any       *)
(* suffix of the active file that was not fsynced (created, renamed and    *)
(* closed files are taken to be durable).                                  *)
(***************************************************************************)
EXTENDS Integers, Sequences, FiniteSets

CONSTANTS
    Writers,         \* goroutines
    Free,            \* the value of mu when nobody holds it
    Records,         \* the sanitized frames to be written, each once
    NoRecord,        \* a writer with nothing to write
    RecordBytes,     \* record |-> the length of its line
    FragmentBytes,   \* the length of a fragment
    MaxBytes,        \* options; 0 disables rotation by size
    RotateDaily,
    Sync,
    ArchiveTries,    \* 100: how many names rotatePathLocked tries
    DayLength,       \* clock ticks per UTC day
    MaxClock,        \* bound on the clock
    Faults           \* what may go wrong: a subset of AllFaults

AllFaults == {"close", "stat", "rename", "open", "fstat", "write", "torn",
              "sync", "crash", "power"}

ASSUME SinkAssumption ==
    /\ Free \notin Writers /\ NoRecord \notin Records
    /\ RecordBytes \in [Records -> Nat \ {0}]
    /\ FragmentBytes \in Nat \ {0}
    /\ \A r \in Records : FragmentBytes < RecordBytes[r]
    /\ MaxBytes \in Nat
    /\ RotateDaily \in BOOLEAN /\ Sync \in BOOLEAN
    /\ ArchiveTries \in Nat /\ DayLength \in Nat \ {0} /\ MaxClock \in Nat
    /\ Faults \subseteq AllFaults

VARIABLES
    clock,      \* time.Now
    active,     \* the file at s.path: [exists, chunks, synced, mtime]
    archives,   \* <<stamp, i>> |-> the chunks of a rotated file
    handle,     \* s.file, s.size and s.day: [open, size, day]
    mu,         \* s.mu: its holder, or Free
    pc,         \* where each writer is in WriteSanitizedFrame
    frame,      \* the record each writer is writing
    now,        \* the time that ensureWriter has read
    stamp,      \* the archive stamp it has chosen
    born,       \* record |-> its sanitized_at, for those written so far
    acked       \* history: records whose write returned nil

vars == <<clock, active, archives, handle, mu, pc, frame, now, stamp, born,
          acked>>

Day(t) == t \div DayLength

NoFile == [exists |-> FALSE, chunks |-> <<>>, synced |-> 0, mtime |-> 0]

NoHandle == [open |-> FALSE, size |-> 0, day |-> 0]

NoStamp == <<"none", 0>>

Size(chunks) == IF chunks = <<>> THEN 0 ELSE chunks[Len(chunks)].end

Init ==
    /\ clock = 0
    /\ active = NoFile
    /\ archives = [n \in {} |-> <<>>]
    /\ handle = NoHandle
    /\ mu = Free
    /\ pc = [w \in Writers |-> "idle"]
    /\ frame = [w \in Writers |-> NoRecord]
    /\ now = 0
    /\ stamp = NoStamp
    /\ born = [r \in {} |-> 0]
    /\ acked = {}

-----------------------------------------------------------------------------
Goto(w, label) == pc' = [pc EXCEPT ![w] = label]

(* What a writer's step inside the lock leaves alone. *)
UnchangedWriter == UNCHANGED <<clock, mu, frame, born, acked>>

(* An error return that forgets to unlock. *)
ReturnLocked(w, err) ==
    /\ Goto(w, "idle")
    /\ mu' = IF err = "nil" THEN Free ELSE mu
    /\ frame' = [frame EXCEPT ![w] = NoRecord]
    /\ acked' = IF err = "nil" THEN acked \cup {frame[w]} ELSE acked
    /\ now' = 0
    /\ stamp' = NoStamp
    /\ UNCHANGED <<clock, born>>

(* A return below the lock: the deferred Unlock; now and stamp are locals. *)
Return(w, err) ==
    /\ Goto(w, "idle")
    /\ mu' = Free
    /\ frame' = [frame EXCEPT ![w] = NoRecord]
    /\ acked' = IF err = "nil" THEN acked \cup {frame[w]} ELSE acked
    /\ now' = 0
    /\ stamp' = NoStamp
    /\ UNCHANGED <<clock, born>>

(* The sanitizer has stamped the frame; the sink is called, and waits for  *)
(* its mutex.                                                              *)
WriteSanitizedFrame(w, r) ==
    /\ pc[w] = "idle"
    /\ r \notin DOMAIN born
    /\ born' = [x \in DOMAIN born \cup {r} |->
                    IF x = r THEN clock ELSE born[x]]
    /\ frame' = [frame EXCEPT ![w] = r]
    /\ Goto(w, "lock")
    /\ UNCHANGED <<clock, active, archives, handle, mu, now, stamp, acked>>

Lock(w) ==
    /\ pc[w] = "lock"
    /\ mu = Free
    /\ mu' = w
    /\ Goto(w, "ensure")
    /\ UNCHANGED <<clock, active, archives, handle, frame, now, stamp, born,
                   acked>>

NextBytes(w) == RecordBytes[frame[w]]

(* A day boundary that is noticed a day late. *)
DayBoundaryLate == RotateDaily /\ Day(clock) > handle.day + 1

DayBoundary == RotateDaily /\ Day(clock) # handle.day

(* A limit checked without the line to be written. *)
SizeLimitAfter(w) == MaxBytes > 0 /\ handle.size > MaxBytes

SizeLimit(w) == MaxBytes > 0 /\ handle.size + NextBytes(w) > MaxBytes

(* Day archives carry the file's day, size archives the time of rotation.  *)
ArchiveStamp(day, t, dayBoundary) ==
    IF dayBoundary THEN <<"day", day>> ELSE <<"time", t>>

(* ensureWriter reads the clock and looks at the open file, if any. *)
EnsureWriter(w) ==
    /\ pc[w] = "ensure"
    /\ now' = clock
    /\ \/ /\ handle.open /\ (DayBoundary \/ SizeLimit(w))
          /\ stamp' = ArchiveStamp(handle.day, clock, DayBoundary)
          /\ Goto(w, "close")
       \/ /\ handle.open /\ ~(DayBoundary \/ SizeLimit(w))
          /\ Goto(w, "write")
          /\ UNCHANGED stamp
       \/ /\ ~handle.open
          /\ Goto(w, "stat")
          /\ UNCHANGED stamp
    /\ UNCHANGED <<active, archives, handle>>
    /\ UnchangedWriter

(* rotateLocked closes first; closeFile forgets the handle in any case. *)
CloseFile(w) ==
    /\ pc[w] = "close"
    /\ handle' = NoHandle
    /\ \/ /\ Goto(w, "rotate")
          /\ UNCHANGED <<now, stamp>>
          /\ UnchangedWriter
       \/ "close" \in Faults /\ Return(w, "error")
    /\ UNCHANGED <<active, archives>>

(* One name too many. *)
FreeNamesOneMore ==
    {i \in 0 .. ArchiveTries : <<stamp, i>> \notin DOMAIN archives}

(* The candidate names of rotatePathLocked that are not taken. *)
FreeNames == {i \in 0 .. ArchiveTries - 1 : <<stamp, i>> \notin DOMAIN archives}

(* The plain name, taken or not. *)
ArchiveNameFirst(names) == 0

ArchiveName(names) == CHOOSE i \in names : \A j \in names : i <= j

(* After rotatePathLocked, ensureWriter looks at the path again if it came *)
(* here with an open file, and opens it otherwise.                         *)
AfterRotation(w) == IF pc[w] = "rotate" THEN "stat" ELSE "open"

(* rotatePathLocked: rename the active file to the first free name. *)
Move(w) ==
    /\ pc[w] \in {"rotate", "move"}
    /\ \/ /\ ~active.exists
          /\ Goto(w, AfterRotation(w))
          /\ UNCHANGED <<active, archives, now, stamp>>
          /\ UnchangedWriter
       \/ /\ active.exists /\ FreeNames # {}
          /\ LET name == <<stamp, ArchiveName(FreeNames)>> IN
             archives' = [n \in DOMAIN archives \cup {name} |->
                            IF n = name THEN active.chunks ELSE archives[n]]
          /\ active' = NoFile
          /\ Goto(w, AfterRotation(w))
          /\ UNCHANGED <<now, stamp>>
          /\ UnchangedWriter
       \/ /\ \/ active.exists /\ FreeNames = {}
             \/ "stat" \in Faults
             \/ "rename" \in Faults /\ active.exists
          /\ Return(w, "error")
          /\ UNCHANGED <<active, archives>>
    /\ UNCHANGED handle

StaleDay ==
    RotateDaily /\ Day(active.mtime) # Day(now) /\ Size(active.chunks) > 0

StaleSize(w) ==
    /\ MaxBytes > 0
    /\ Size(active.chunks) > 0
    /\ Size(active.chunks) + NextBytes(w) > MaxBytes

(* No open file: an existing one is rotated first if it is of an earlier   *)
(* day or has no room.                                                     *)
StatPath(w) ==
    /\ pc[w] = "stat"
    /\ \/ /\ active.exists /\ (StaleDay \/ StaleSize(w))
          /\ stamp' = ArchiveStamp(Day(active.mtime), now, StaleDay)
          /\ Goto(w, "move")
          /\ UNCHANGED now
          /\ UnchangedWriter
       \/ /\ ~(active.exists /\ (StaleDay \/ StaleSize(w)))
          /\ Goto(w, "open")
          /\ UNCHANGED <<now, stamp>>
          /\ UnchangedWriter
       \/ "stat" \in Faults /\ Return(w, "error")
    /\ UNCHANGED <<active, archives, handle>>

(* OpenFile with O_TRUNC in place of O_APPEND. *)
OpenTruncates(w) ==
    /\ pc[w] = "open"
    /\ active' = [NoFile EXCEPT !.exists = TRUE, !.mtime = clock]
    /\ handle' = [open |-> TRUE, size |-> 0, day |-> Day(now)]
    /\ Goto(w, "write")
    /\ UNCHANGED <<archives, now, stamp>>
    /\ UnchangedWriter

(* OpenFile creates the file or appends to it.  A failing fstat is         *)
(* ignored: the sink then believes the file is empty.                      *)
OpenFile(w) ==
    /\ pc[w] = "open"
    /\ \/ /\ active' = IF active.exists THEN active
                       ELSE [NoFile EXCEPT !.exists = TRUE, !.mtime = clock]
          /\ \E size \in {Size(active.chunks)} \cup
                         (IF "fstat" \in Faults THEN {0} ELSE {}) :
                handle' = [open |-> TRUE, size |-> size, day |-> Day(now)]
          /\ Goto(w, "write")
          /\ UNCHANGED <<now, stamp>>
          /\ UnchangedWriter
       \/ /\ "open" \in Faults
          /\ Return(w, "error")
          /\ UNCHANGED <<active, handle>>
    /\ UNCHANGED archives

(* The active file after a write of n bytes for record r. *)
Appended(r, whole, n) ==
    [active EXCEPT
        !.chunks = Append(@, [record |-> r, whole |-> whole,
                              end |-> Size(active.chunks) + n]),
        !.mtime = clock]

WriteLine(w) ==
    /\ pc[w] = "write"
    /\ active' = Appended(frame[w], TRUE, NextBytes(w))
    /\ handle' = [handle EXCEPT !.size = @ + NextBytes(w)]
    /\ IF Sync
       THEN Goto(w, "sync") /\ UNCHANGED <<now, stamp>> /\ UnchangedWriter
       ELSE Return(w, "nil")
    /\ UNCHANGED archives

(* A failed write, with or without a fragment left behind; the byte count  *)
(* it returns is not looked at.                                            *)
WriteFails(w) ==
    /\ pc[w] = "write"
    /\ \/ "write" \in Faults /\ UNCHANGED active
       \/ "torn" \in Faults /\ active' = Appended(frame[w], FALSE, FragmentBytes)
    /\ Return(w, "error")
    /\ UNCHANGED <<archives, handle>>

(* The result of fsync is not looked at. *)
SyncUnchecked(w) ==
    /\ pc[w] = "sync"
    /\ \/ active' = [active EXCEPT !.synced = Len(active.chunks)]
       \/ "sync" \in Faults /\ UNCHANGED active
    /\ Return(w, "nil")
    /\ UNCHANGED <<archives, handle>>

SyncFile(w) ==
    /\ pc[w] = "sync"
    /\ \/ /\ active' = [active EXCEPT !.synced = Len(active.chunks)]
          /\ Return(w, "nil")
       \/ /\ "sync" \in Faults
          /\ Return(w, "error")
          /\ UNCHANGED active
    /\ UNCHANGED <<archives, handle>>

-----------------------------------------------------------------------------
(* JSONLSink.Close: between two writes.  A later write opens the file      *)
(* again.                                                                  *)
Close ==
    /\ mu = Free
    /\ handle.open
    /\ handle' = NoHandle
    /\ UNCHANGED <<clock, active, archives, mu, pc, frame, now, stamp, born,
                   acked>>

Tick ==
    /\ clock < MaxClock
    /\ clock' = clock + 1
    /\ UNCHANGED <<active, archives, handle, mu, pc, frame, now, stamp, born,
                   acked>>

(* What is left of the active file: a write under way may have added       *)
(* nothing, a fragment or the whole line.                                  *)
Interrupted ==
    {active} \cup
    (IF mu # Free /\ pc[mu] = "write"
     THEN {Appended(frame[mu], TRUE, NextBytes(mu))} \cup
          (IF "torn" \in Faults
           THEN {Appended(frame[mu], FALSE, FragmentBytes)} ELSE {})
     ELSE {})

(* The first n chunks of a file, of the last one only a fragment. *)
TornAt(chunks, n) ==
    Append(SubSeq(chunks, 1, n - 1),
           [record |-> chunks[n].record, whole |-> FALSE,
            end    |-> Size(SubSeq(chunks, 1, n - 1)) + FragmentBytes])

(* Losing power takes any suffix of the file that was not fsynced, which   *)
(* may begin in the middle of a line.                                      *)
PowerCut(file) ==
    {[file EXCEPT !.chunks = SubSeq(@, 1, n)] :
        n \in file.synced .. Len(file.chunks)} \cup
    (IF "torn" \in Faults
     THEN {[file EXCEPT !.chunks = TornAt(@, n)] :
              n \in file.synced + 1 .. Len(file.chunks)}
     ELSE {})

(* The process dies and a new one starts: NewJSONLSink opens nothing. *)
Crash ==
    /\ "crash" \in Faults
    /\ \E file \in Interrupted :
        \/ active' = file
        \/ "power" \in Faults /\ active' \in PowerCut(file)
    /\ handle' = NoHandle
    /\ mu' = Free
    /\ pc' = [w \in Writers |-> "idle"]
    /\ frame' = [w \in Writers |-> NoRecord]
    /\ now' = 0
    /\ stamp' = NoStamp
    /\ UNCHANGED <<clock, archives, born, acked>>

-----------------------------------------------------------------------------
(* The steps of a writer that holds the mutex. *)
Advance(w) ==
    \/ EnsureWriter(w)
    \/ CloseFile(w)
    \/ Move(w)
    \/ StatPath(w)
    \/ OpenFile(w)
    \/ WriteLine(w)
    \/ WriteFails(w)
    \/ SyncFile(w)

Next ==
    \/ \E w \in Writers :
        \/ \E r \in Records : WriteSanitizedFrame(w, r)
        \/ Lock(w)
        \/ Advance(w)
    \/ Close
    \/ Tick
    \/ Crash

Spec == Init /\ [][Next]_vars

(* A runnable goroutine runs, and Go hands a contended mutex to a waiter.  *)
Fairness == \A w \in Writers : SF_vars(Lock(w)) /\ WF_vars(Advance(w))

FairSpec == Spec /\ Fairness

-----------------------------------------------------------------------------
Labels == {"idle", "lock", "ensure", "close", "rotate", "move", "stat", "open",
           "write", "sync"}

Chunks == [record : Records, whole : BOOLEAN, end : Nat \ {0}]

Stamps == {"none", "day", "time"} \X Nat

(* Type invariant of the sink. *)
TypeOK ==
    /\ clock \in Nat
    /\ active \in [exists : BOOLEAN, chunks : Seq(Chunks), synced : Nat,
                   mtime : Nat]
    /\ active.synced <= Len(active.chunks)
    /\ DOMAIN archives \subseteq Stamps \X (0 .. ArchiveTries - 1)
    /\ \A n \in DOMAIN archives : archives[n] \in Seq(Chunks)
    /\ handle \in [open : BOOLEAN, size : Nat, day : Nat]
    /\ mu \in Writers \cup {Free}
    /\ pc \in [Writers -> Labels]
    /\ frame \in [Writers -> Records \cup {NoRecord}]
    /\ now \in Nat /\ stamp \in Stamps
    /\ DOMAIN born \subseteq Records
    /\ \A r \in DOMAIN born : born[r] \in Nat
    /\ acked \subseteq Records

(* The files of the sink, the active one under the name "active". *)
Files == {active.chunks} \cup {archives[n] : n \in DOMAIN archives}

(* The places of a file, of the active one and of the archives at which a  *)
(* record's whole line is.                                                 *)
LinesOf(r, file) == {i \in DOMAIN file : file[i].record = r /\ file[i].whole}

ActivePlaces(r) == LinesOf(r, active.chunks)

ArchivePlaces(r) ==
    UNION {{n} \X LinesOf(r, archives[n]) : n \in DOMAIN archives}

(* A frame whose write returned nil is in the files, once: rotation, a     *)
(* restart in the middle of it and a failing step neither lose nor repeat  *)
(* a line, and with fsync on no loss of power does (storage.go:88-101,     *)
(* 183-214).                                                               *)
AckedIsStoredOnce ==
    \A r \in acked :
        Cardinality(ActivePlaces(r)) + Cardinality(ArchivePlaces(r)) = 1

(* What the abstract store sees of the files: the frames with a whole      *)
(* line, and those out of a power cut's reach.                             *)
Stored ==
    {r \in Records : ActivePlaces(r) # {} \/ ArchivePlaces(r) # {}}

Durable ==
    {r \in Records : \/ \E i \in ActivePlaces(r) : i <= active.synced
                     \/ ArchivePlaces(r) # {}}

Store == INSTANCE FrameStore
         WITH writing <- frame, stored <- Stored, durable <- Durable

(* Whatever is closed, renamed and opened again, whatever fails and        *)
(* whenever the process dies, the sink is the plain store that the ingest  *)
(* service takes it for: a frame comes in by a write of its own, is taken  *)
(* away by nothing but a crash before it is durable, and is durable when   *)
(* the write returns nil (storage.go:71-102, 126-214).                     *)
ImplementsFrameStore == Store!StoreSpec

(* An archive, once named, is neither overwritten nor removed nor changed  *)
(* (storage.go:198-211, "Avoid clobbering an existing archive name").      *)
ArchivesAreFinal ==
    [][\A n \in DOMAIN archives :
        n \in DOMAIN archives' /\ archives'[n] = archives[n]]_vars

(* "MaxBytes rotates the active file when its size reaches this threshold" *)
(* (storage.go:25): no file outgrows MaxBytes except by a single line that *)
(* is too long by itself (storage.go:132, 159).  It holds while no write   *)
(* fails half way and fstat works.                                         *)
FilesAreBounded ==
    MaxBytes > 0 =>
        \A file \in Files : Len(file) > 1 => Size(file) <= MaxBytes

(* An archive named after a day holds no frame sanitized on a later day    *)
(* (storage.go:131-136, 149-157).                                          *)
NoFrameAfterItsArchive ==
    \A n \in DOMAIN archives :
        n[1][1] = "day" =>
            \A i \in DOMAIN archives[n] :
                Day(born[archives[n][i].record]) <= n[1][2]

(* "accept + line in sanitized JSONL" (README.md:84): an accepted frame is *)
(* a line of its own, that is, does not continue a fragment.               *)
AckedIsALine ==
    \A file \in Files : \A i \in DOMAIN file :
        file[i].record \in acked /\ file[i].whole /\ i > 1 => file[i - 1].whole

(* Every write returns (storage.go:85-86): the mutex is released on each   *)
(* path, whatever fails.                                                   *)
WritesReturn == \A w \in Writers : pc[w] = "lock" ~> pc[w] = "idle"

=============================================================================
