-------------------------- MODULE SQLiteReplayGuard --------------------------
(***************************************************************************)
(* SQLiteReplayGuard of server/internal/auth/replay_sqlite.go, statement   *)
(* by statement.  CheckAndRecord takes the guard's mutex, opens a          *)
(* transaction, looks the frame ID and the sequence up, inserts, upserts   *)
(* and commits; every early return rolls the transaction back and releases *)
(* the mutex (the two defers).  The process may be closed, die at any      *)
(* point, and reopen the database file.                                    *)
(*                                                                         *)
(* External: SQLite itself.  Statements of an open transaction read and    *)
(* write the transaction's own view (tx); COMMIT makes it the database     *)
(* (WAL with the default synchronous=FULL: durable at once); losing the    *)
(* process rolls an open transaction back.  A failed COMMIT may or may not *)
(* have taken effect.                                                      *)
(***************************************************************************)
EXTENDS ReplayTables

CONSTANTS
    Callers,   \* goroutines: one per RPC in flight
    Free       \* the value of mu when nobody holds it

ASSUME FreeAssumption == Free \notin Callers

VARIABLES
    db,        \* the committed tables
    tx,        \* the open transaction's view of the tables
    mu,        \* g.mu: its holder, or Free
    handle,    \* g.db: "open", "closed" by Close, or "down" with the process
    pc,        \* where each caller is in CheckAndRecord
    request,   \* the arguments of each caller inside CheckAndRecord
    verdict,   \* what each caller's last call returned
    granted    \* history: the calls that returned nil, in order

vars == <<db, tx, mu, handle, pc, request, verdict, granted>>

Verdicts == {"none", "nil", "ErrReplay", "ErrMalformed", "error"}

(* The points of CheckAndRecord at which the mutex is held. *)
Held == {"begin", "lookupFrame", "lookupSequence", "insertFrame",
         "upsertSequence", "commit"}

(* Type invariant of the SQLite guard (replay_sqlite.go:15-18, 45-55). *)
TypeOK ==
    /\ db \in Tables
    /\ tx \in Tables
    /\ mu \in Callers \cup {Free}
    /\ handle \in {"open", "closed", "down"}
    /\ pc \in [Callers -> {"idle", "lock"} \cup Held]
    /\ request \in [Callers -> Requests \cup {NoRequest}]
    /\ verdict \in [Callers -> Verdicts]
    /\ granted \in Seq(Requests)

Init ==
    /\ db = EmptyTables
    /\ tx = EmptyTables
    /\ mu = Free
    /\ handle = "open"
    /\ pc = [c \in Callers |-> "idle"]
    /\ request = [c \in Callers |-> NoRequest]
    /\ verdict = [c \in Callers |-> "none"]
    /\ granted = <<>>

-----------------------------------------------------------------------------
At(c, label) == pc[c] = label

Goto(c, label) ==
    /\ pc' = [pc EXCEPT ![c] = label]
    /\ UNCHANGED <<mu, handle, request, verdict, granted>>

(* A return that forgets the deferred Unlock. *)
ReturnLocked(c, v) ==
    /\ pc' = [pc EXCEPT ![c] = "idle"]
    /\ verdict' = [verdict EXCEPT ![c] = v]
    /\ request' = [request EXCEPT ![c] = NoRequest]
    /\ tx' = EmptyTables
    /\ UNCHANGED <<mu, handle>>

(* Every return below the lock runs the defers: Rollback (which only       *)
(* discards what was not committed), then Unlock.                          *)
Return(c, v) ==
    /\ pc' = [pc EXCEPT ![c] = "idle"]
    /\ verdict' = [verdict EXCEPT ![c] = v]
    /\ request' = [request EXCEPT ![c] = NoRequest]
    /\ tx' = EmptyTables
    /\ mu' = Free
    /\ UNCHANGED handle

Refuse(c, v) ==
    /\ Return(c, v)
    /\ UNCHANGED <<db, granted>>

CheckAndRecord(c, r) ==
    /\ At(c, "idle")
    /\ handle # "down"
    /\ request' = [request EXCEPT ![c] = r]
    /\ verdict' = [verdict EXCEPT ![c] = "none"]
    /\ pc' = [pc EXCEPT ![c] = "lock"]
    /\ UNCHANGED <<db, tx, mu, handle, granted>>

(* A call with an empty device or frame ID returns before the lock. *)
RejectEmptyID(c) ==
    /\ At(c, "idle")
    /\ handle # "down"
    /\ verdict' = [verdict EXCEPT ![c] = "ErrMalformed"]
    /\ UNCHANGED <<db, tx, mu, handle, pc, request, granted>>

Lock(c) ==
    /\ At(c, "lock")
    /\ mu = Free
    /\ mu' = c
    /\ pc' = [pc EXCEPT ![c] = "begin"]
    /\ UNCHANGED <<db, tx, handle, request, verdict, granted>>

Begin(c) ==
    /\ At(c, "begin")
    /\ \/ /\ handle = "open"
          /\ Goto(c, "lookupFrame")
          /\ tx' = db
          /\ UNCHANGED db
       \/ /\ handle = "closed"
          /\ Refuse(c, "error")

LookupFrame(c) ==
    /\ At(c, "lookupFrame")
    /\ \/ /\ SeenFrame(tx, request[c])
          /\ Refuse(c, "ErrReplay")
       \/ /\ ~SeenFrame(tx, request[c])
          /\ Goto(c, "lookupSequence")
          /\ UNCHANGED <<db, tx>>

LookupSequence(c) ==
    /\ At(c, "lookupSequence")
    /\ \/ /\ StaleSequence(tx, request[c])
          /\ Refuse(c, "ErrReplay")
       \/ /\ ~StaleSequence(tx, request[c])
          /\ Goto(c, "insertFrame")
          /\ UNCHANGED <<db, tx>>

(* The insert in autocommit mode: visible in the database at once. *)
InsertFrameAutocommit(c) ==
    /\ At(c, "insertFrame")
    /\ Goto(c, "upsertSequence")
    /\ tx' = InsertFrame(tx, request[c])
    /\ db' = InsertFrame(db, request[c])

InsertFrameRow(c) ==
    /\ At(c, "insertFrame")
    /\ Goto(c, "upsertSequence")
    /\ tx' = InsertFrame(tx, request[c])
    /\ UNCHANGED db

(* The sequence is cast to int64 where its high bit is set. *)
UpsertSequenceRowWrapped(c) ==
    /\ At(c, "upsertSequence")
    /\ Goto(c, "commit")
    /\ tx' = UpsertSequence(tx,
                 IF Bindable(request[c]) THEN request[c]
                 ELSE [request[c] EXCEPT !.sequence = @ - 2 * Int64Limit])
    /\ UNCHANGED db

UpsertSequenceRow(c) ==
    /\ At(c, "upsertSequence")
    /\ \/ /\ Bindable(request[c])
          /\ Goto(c, "commit")
          /\ tx' = UpsertSequence(tx, request[c])
          /\ UNCHANGED db
       \/ /\ ~Bindable(request[c])
          /\ Refuse(c, "error")

Commit(c) ==
    /\ At(c, "commit")
    /\ Return(c, "nil")
    /\ db' = tx
    /\ granted' = Append(granted, request[c])

(* Commit reports an error although the transaction took effect. *)
CommitInDoubt(c) ==
    /\ At(c, "commit")
    /\ Return(c, "error")
    /\ db' = tx
    /\ UNCHANGED granted

(* Any statement of the transaction may fail (I/O error, disk full, ...).  *)
StatementFails(c) ==
    /\ pc[c] \in Held
    /\ Refuse(c, "error")

(* Close does not take the mutex.  database/sql lets a transaction that    *)
(* has begun run to its end and makes every later Begin fail.              *)
Close ==
    /\ handle = "open"
    /\ handle' = "closed"
    /\ UNCHANGED <<db, tx, mu, pc, request, verdict, granted>>

(* The process ends, by a crash or after Close.  A COMMIT under way may    *)
(* have reached the disk.                                                  *)
Crash ==
    /\ handle # "down"
    /\ handle' = "down"
    /\ \/ UNCHANGED db
       \/ \E c \in Callers : At(c, "commit") /\ db' = tx
    /\ tx' = EmptyTables
    /\ mu' = Free
    /\ pc' = [c \in Callers |-> "idle"]
    /\ request' = [c \in Callers |-> NoRequest]
    /\ verdict' = [c \in Callers |-> "none"]
    /\ UNCHANGED granted

(* Reopening that drops and recreates the tables. *)
OpenAfresh ==
    /\ handle = "down"
    /\ handle' = "open"
    /\ db' = EmptyTables
    /\ UNCHANGED <<tx, mu, pc, request, verdict, granted>>

(* A new process: NewSQLiteReplayGuard keeps the tables it finds           *)
(* (CREATE TABLE IF NOT EXISTS).                                           *)
NewSQLiteReplayGuard ==
    /\ handle = "down"
    /\ handle' = "open"
    /\ UNCHANGED <<db, tx, mu, pc, request, verdict, granted>>

-----------------------------------------------------------------------------
(* The steps of a call from the lock to its return. *)
Advance(c) ==
    \/ Begin(c)
    \/ LookupFrame(c)
    \/ LookupSequence(c)
    \/ InsertFrameRow(c)
    \/ UpsertSequenceRow(c)
    \/ Commit(c)
    \/ CommitInDoubt(c)
    \/ StatementFails(c)

Next ==
    \/ \E c \in Callers :
        \/ \E r \in Requests : CheckAndRecord(c, r)
        \/ RejectEmptyID(c)
        \/ Lock(c)
        \/ Advance(c)
    \/ Close
    \/ Crash
    \/ NewSQLiteReplayGuard

Spec == Init /\ [][Next]_vars

(* A runnable goroutine runs; a goroutine blocked on the mutex gets it in  *)
(* the end, because a Go mutex with a waiter of more than 1ms is handed to *)
(* the waiter.                                                             *)
Fairness ==
    \A c \in Callers : SF_vars(Lock(c)) /\ WF_vars(Advance(c))

FairSpec == Spec /\ Fairness

-----------------------------------------------------------------------------
(* The guard implements the abstract one, with the committed tables as     *)
(* what is recorded.                                                       *)
Abstract ==
    INSTANCE ReplayGuard WITH tables <- db

(* Every step of the SQL transaction under concurrent calls, Close, crash  *)
(* and restart is a step of the atomic guard or changes nothing it shows   *)
(* (replay_sqlite.go:69-128).                                              *)
ImplementsReplayGuard == Abstract!GuardSpec

(* Of two granted calls of one device the later one has a new frame ID and *)
(* a larger sequence number, across crashes and restarts of the process    *)
(* (replay_sqlite.go:91-109).                                              *)
GrantsIncrease == Increasing(granted)

(* A granted call is in the committed tables from its return on, whatever  *)
(* fails afterwards (replay_sqlite.go:111-126, comment at 13-14).          *)
GrantsRemembered == AllRecorded(db, granted)

(* Every call of CheckAndRecord returns: the mutex is released on each of  *)
(* its paths (replay_sqlite.go:77-78, 84).                                 *)
CallsReturn ==
    \A c \in Callers : pc[c] = "lock" ~> pc[c] = "idle"

=============================================================================
