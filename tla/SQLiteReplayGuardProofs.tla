----------------------- MODULE SQLiteReplayGuardProofs -----------------------
(***************************************************************************)
(* Proofs about the SQLite replay guard, for every set of callers,         *)
(* devices, frame IDs and sequence numbers: its type invariant, that it    *)
(* implements the abstract guard, and that granted calls increase and stay *)
(* recorded.                                                               *)
(***************************************************************************)
EXTENDS SQLiteReplayGuard, ReplayTablesProofs

-----------------------------------------------------------------------------
(* Exactly the callers inside CheckAndRecord have arguments. *)
RequestInv ==
    \A c \in Callers : pc[c] = "idle" <=> request[c] = NoRequest

(* The mutex is held exactly between Lock and the return. *)
MutexInv ==
    \A c \in Callers : pc[c] \in Held <=> mu = c

(* What the transaction's view has become at each point, in terms of the   *)
(* committed tables.  It needs the mutex: nobody else commits meanwhile.   *)
TransactionInv ==
    \A c \in Callers :
        /\ pc[c] \in {"lookupFrame", "lookupSequence", "insertFrame"} => tx = db
        /\ pc[c] = "lookupSequence" => ~SeenFrame(db, request[c])
        /\ pc[c] \in {"insertFrame", "upsertSequence", "commit"} =>
            ~Replayed(db, request[c])
        /\ pc[c] = "upsertSequence" => tx = InsertFrame(db, request[c])
        /\ pc[c] = "commit" => tx = Remember(db, request[c])

(* The inductive invariant. *)
IInv == TypeOK /\ RequestInv /\ MutexInv /\ TransactionInv

(* The invariant holds when the guard is first opened. *)
LEMMA InitIInv == Init => IInv
<1> SUFFICES ASSUME Init PROVE IInv
  OBVIOUS
<1>1. TypeOK
  BY DEF Init, TypeOK, EmptyTables, Tables, Held, Verdicts
<1>2. RequestInv /\ TransactionInv
  BY DEF Init, RequestInv, TransactionInv
<1>3. MutexInv
  BY FreeAssumption DEF Init, MutexInv, Held
<1> QED
  BY <1>1, <1>2, <1>3 DEF IInv

(* The tables of a new database are well formed. *)
LEMMA EmptyTablesType == EmptyTables \in Tables
  BY DEF EmptyTables, Tables

(* A caller in the middle of a call has arguments. *)
LEMMA RequestType ==
  ASSUME IInv, NEW c \in Callers, pc[c] # "idle"
  PROVE  request[c] \in Requests
  BY NoRequestAssumption DEF IInv, TypeOK, RequestInv

(* Every early return, by rollback and unlock, keeps the invariant. *)
LEMMA ReturnIInv ==
  ASSUME IInv, NEW c \in Callers, pc[c] \in Held,
         NEW v \in Verdicts, Return(c, v), db' \in Tables,
         granted' \in Seq(Requests)
  PROVE  IInv'
<1> USE DEF IInv
<1>1. TypeOK'
  BY EmptyTablesType DEF TypeOK, Return
<1>2. RequestInv'
  BY DEF TypeOK, RequestInv, Return
<1>3. \A x \in Callers : pc'[x] \notin Held
  BY DEF TypeOK, MutexInv, Return, Held
<1>4. MutexInv'
  BY <1>3, FreeAssumption DEF MutexInv, Return
<1>5. TransactionInv'
  BY <1>3 DEF TransactionInv, Held
<1> QED
  BY <1>1, <1>2, <1>4, <1>5

(* Every step of the guard keeps the invariant. *)
LEMMA NextIInv == IInv /\ [Next]_vars => IInv'
<1> SUFFICES ASSUME IInv, [Next]_vars PROVE IInv'
  OBVIOUS
<1> USE DEF IInv
<1>1. ASSUME NEW c \in Callers, NEW r \in Requests, CheckAndRecord(c, r)
      PROVE  IInv'
  <2>1. TypeOK'
    BY <1>1 DEF CheckAndRecord, At, TypeOK, Verdicts
  <2>2. RequestInv'
    BY <1>1, NoRequestAssumption DEF CheckAndRecord, At, TypeOK, RequestInv
  <2>3. MutexInv'
    BY <1>1 DEF CheckAndRecord, At, TypeOK, MutexInv, Held
  <2>4. TransactionInv'
    BY <1>1 DEF CheckAndRecord, At, TypeOK, TransactionInv
  <2> QED
    BY <2>1, <2>2, <2>3, <2>4
<1>2. ASSUME NEW c \in Callers, RejectEmptyID(c)
      PROVE  IInv'
  <2>1. TypeOK'
    BY <1>2 DEF RejectEmptyID, TypeOK, Verdicts
  <2> QED
    BY <1>2, <2>1 DEF RejectEmptyID, RequestInv, MutexInv, TransactionInv
<1>3. ASSUME NEW c \in Callers, Lock(c)
      PROVE  IInv'
  <2>1. TypeOK'
    BY <1>3 DEF Lock, At, TypeOK, Held
  <2>2. RequestInv'
    BY <1>3 DEF Lock, At, TypeOK, RequestInv
  <2>3. MutexInv'
    BY <1>3, FreeAssumption DEF Lock, At, TypeOK, MutexInv, Held
  <2>4. TransactionInv'
    BY <1>3 DEF Lock, At, TypeOK, TransactionInv
  <2> QED
    BY <2>1, <2>2, <2>3, <2>4
<1>4. ASSUME NEW c \in Callers, NEW v \in Verdicts, pc[c] \in Held, Refuse(c, v)
      PROVE  IInv'
  BY <1>4, ReturnIInv DEF Refuse, TypeOK
<1>5. ASSUME NEW c \in Callers, NEW label \in Held, pc[c] \in Held,
             Goto(c, label), db' = db, tx' \in Tables
      PROVE  /\ TypeOK' /\ RequestInv' /\ MutexInv'
             /\ pc'[c] = label
             /\ \A x \in Callers \ {c} : pc'[x] \notin Held
  <2>1. TypeOK'
    BY <1>5 DEF Goto, TypeOK
  <2>2. RequestInv'
    BY <1>5 DEF Goto, TypeOK, RequestInv, Held
  <2>3. MutexInv' /\ pc'[c] = label
    BY <1>5 DEF Goto, TypeOK, MutexInv
  <2>4. \A x \in Callers \ {c} : pc'[x] \notin Held
    BY <1>5, <2>3 DEF MutexInv
  <2> QED
    BY <2>1, <2>2, <2>3, <2>4
<1>6. ASSUME NEW c \in Callers, Begin(c)
      PROVE  IInv'
  <2>1. CASE handle = "open" /\ Goto(c, "lookupFrame") /\ tx' = db /\ db' = db
    <3>1. /\ TypeOK' /\ RequestInv' /\ MutexInv' /\ pc'[c] = "lookupFrame"
          /\ \A x \in Callers \ {c} : pc'[x] \notin Held
      BY <1>5, <1>6, <2>1 DEF Begin, At, Held, TypeOK
    <3>2. TransactionInv'
      BY <2>1, <3>1 DEF TransactionInv, Held
    <3> QED
      BY <3>1, <3>2
  <2>2. CASE Refuse(c, "error")
    BY <1>4, <1>6, <2>2 DEF Begin, At, Held, Verdicts
  <2> QED
    BY <1>6, <2>1, <2>2 DEF Begin
<1>7. ASSUME NEW c \in Callers, LookupFrame(c)
      PROVE  IInv'
  <2>1. CASE Refuse(c, "ErrReplay")
    BY <1>4, <1>7, <2>1 DEF LookupFrame, At, Held, Verdicts
  <2>2. CASE /\ ~SeenFrame(tx, request[c]) /\ Goto(c, "lookupSequence")
             /\ UNCHANGED <<db, tx>>
    <3>1. /\ TypeOK' /\ RequestInv' /\ MutexInv' /\ pc'[c] = "lookupSequence"
          /\ \A x \in Callers \ {c} : pc'[x] \notin Held
      BY <1>5, <1>7, <2>2 DEF LookupFrame, At, Held, TypeOK
    <3>2. tx = db /\ request' = request
      BY <1>7, <2>2 DEF LookupFrame, At, TransactionInv, Goto
    <3>3. TransactionInv'
      BY <2>2, <3>1, <3>2 DEF TransactionInv, Held, SeenFrame
    <3> QED
      BY <3>1, <3>3
  <2> QED
    BY <1>7, <2>1, <2>2 DEF LookupFrame
<1>8. ASSUME NEW c \in Callers, LookupSequence(c)
      PROVE  IInv'
  <2>1. CASE Refuse(c, "ErrReplay")
    BY <1>4, <1>8, <2>1 DEF LookupSequence, At, Held, Verdicts
  <2>2. CASE /\ ~StaleSequence(tx, request[c]) /\ Goto(c, "insertFrame")
             /\ UNCHANGED <<db, tx>>
    <3>1. /\ TypeOK' /\ RequestInv' /\ MutexInv' /\ pc'[c] = "insertFrame"
          /\ \A x \in Callers \ {c} : pc'[x] \notin Held
      BY <1>5, <1>8, <2>2 DEF LookupSequence, At, Held, TypeOK
    <3>2. tx = db /\ request' = request /\ ~SeenFrame(db, request[c])
      BY <1>8, <2>2 DEF LookupSequence, At, TransactionInv, Goto
    <3>3. ~Replayed(db, request[c])
      BY <2>2, <3>2 DEF Replayed
    <3>4. TransactionInv'
      BY <2>2, <3>1, <3>2, <3>3
      DEF TransactionInv, Held, Replayed, SeenFrame, StaleSequence
    <3> QED
      BY <3>1, <3>4
  <2> QED
    BY <1>8, <2>1, <2>2 DEF LookupSequence
<1>9. ASSUME NEW c \in Callers, InsertFrameRow(c)
      PROVE  IInv'
  <2>1. /\ Goto(c, "upsertSequence") /\ db' = db /\ request' = request
        /\ tx = db /\ ~Replayed(db, request[c])
        /\ tx' = InsertFrame(db, request[c])
    BY <1>9 DEF InsertFrameRow, At, TransactionInv, Goto
  <2>2. tx' \in Tables
    BY <1>9, <2>1, RequestType, InsertFrameType, RequestHasIDs
    DEF InsertFrameRow, At, TypeOK
  <2>3. /\ TypeOK' /\ RequestInv' /\ MutexInv' /\ pc'[c] = "upsertSequence"
        /\ \A x \in Callers \ {c} : pc'[x] \notin Held
    BY <1>5, <1>9, <2>1, <2>2 DEF InsertFrameRow, At, Held
  <2>4. TransactionInv'
    BY <2>1, <2>3
    DEF TransactionInv, Held, Replayed, SeenFrame, StaleSequence, InsertFrame
  <2> QED
    BY <2>3, <2>4
<1>10. ASSUME NEW c \in Callers, UpsertSequenceRow(c)
       PROVE  IInv'
  <2>1. CASE Refuse(c, "error")
    BY <1>4, <1>10, <2>1 DEF UpsertSequenceRow, At, Held, Verdicts
  <2>2. CASE /\ Goto(c, "commit") /\ tx' = UpsertSequence(tx, request[c])
             /\ db' = db
    <3>1. /\ request' = request /\ ~Replayed(db, request[c])
          /\ tx' = Remember(db, request[c])
      BY <1>10, <2>2 DEF UpsertSequenceRow, At, TransactionInv, Goto, Remember
    <3>2. tx' \in Tables
      BY <1>10, <3>1, RequestType, RememberType, RequestHasIDs
      DEF UpsertSequenceRow, At, TypeOK
    <3>3. /\ TypeOK' /\ RequestInv' /\ MutexInv' /\ pc'[c] = "commit"
          /\ \A x \in Callers \ {c} : pc'[x] \notin Held
      BY <1>5, <1>10, <2>2, <3>2 DEF UpsertSequenceRow, At, Held
    <3>4. TransactionInv'
      BY <2>2, <3>1, <3>3
      DEF TransactionInv, Held, Replayed, SeenFrame, StaleSequence,
          Remember, UpsertSequence, InsertFrame
    <3> QED
      BY <3>3, <3>4
  <2> QED
    BY <1>10, <2>1, <2>2 DEF UpsertSequenceRow
<1>11. ASSUME NEW c \in Callers, Commit(c)
       PROVE  IInv'
  <2>1. request[c] \in Requests
    BY <1>11, RequestType DEF Commit, At
  <2> QED
    BY <1>11, <2>1, ReturnIInv DEF Commit, At, Held, TypeOK, Verdicts
<1>12. ASSUME NEW c \in Callers, CommitInDoubt(c)
       PROVE  IInv'
  BY <1>12, ReturnIInv DEF CommitInDoubt, At, Held, TypeOK, Verdicts
<1>13. ASSUME NEW c \in Callers, StatementFails(c)
       PROVE  IInv'
  BY <1>4, <1>13 DEF StatementFails, Verdicts
<1>14. ASSUME Close
       PROVE  IInv'
  BY <1>14 DEF Close, TypeOK, RequestInv, MutexInv, TransactionInv
<1>15. ASSUME Crash
       PROVE  IInv'
  <2>1. TypeOK'
    BY <1>15, EmptyTablesType DEF Crash, TypeOK, Verdicts
  <2>2. RequestInv' /\ TransactionInv'
    BY <1>15 DEF Crash, RequestInv, TransactionInv
  <2>3. MutexInv'
    BY <1>15, FreeAssumption DEF Crash, MutexInv, Held
  <2> QED
    BY <2>1, <2>2, <2>3
<1>16. ASSUME NewSQLiteReplayGuard
       PROVE  IInv'
  BY <1>16
  DEF NewSQLiteReplayGuard, TypeOK, RequestInv, MutexInv, TransactionInv
<1>17. CASE UNCHANGED vars
  BY <1>17 DEF vars, TypeOK, RequestInv, MutexInv, TransactionInv
<1> QED
  BY <1>1, <1>2, <1>3, <1>6, <1>7, <1>8, <1>9, <1>10, <1>11, <1>12, <1>13,
     <1>14, <1>15, <1>16, <1>17 DEF Next, Advance

(* The inductive invariant holds of every behaviour of the guard. *)
LEMMA SpecIInv == Spec => []IInv
  BY InitIInv, NextIInv, PTL DEF Spec

(* Type correctness of the SQLite guard: in particular the tables hold     *)
(* only naturals, whatever statement fails and whenever the process dies.  *)
THEOREM TypeCorrect == Spec => []TypeOK
  BY SpecIInv, PTL DEF IInv

-----------------------------------------------------------------------------
(* The abstract guard's operators on tables are the concrete one's. *)
LEMMA SameTables ==
  /\ Abstract!Requests = Requests
  /\ Abstract!EmptyTables = EmptyTables
  /\ \A t, r : Abstract!Replayed(t, r) <=> Replayed(t, r)
  /\ \A t, r : Abstract!Remember(t, r) = Remember(t, r)
  BY DEF Abstract!Requests, Requests, Abstract!EmptyTables, EmptyTables,
         Abstract!Replayed, Replayed, Abstract!SeenFrame, SeenFrame,
         Abstract!StaleSequence, StaleSequence, Abstract!Remember, Remember,
         Abstract!UpsertSequence, UpsertSequence,
         Abstract!InsertFrame, InsertFrame

(* Every step of the SQL transaction is a step of the atomic guard, with   *)
(* the committed tables as what is recorded, or leaves it as it is.        *)
LEMMA StepSimulation ==
  IInv /\ [Next]_vars => [Abstract!GuardNext]_(Abstract!absVars)
<1> SUFFICES ASSUME IInv, [Next]_vars
             PROVE  Abstract!GuardNext \/ UNCHANGED Abstract!absVars
  BY DEF Abstract!absVars
<1> USE DEF Abstract!absVars
<1>1. ASSUME NEW c \in Callers, NEW r \in Requests, CheckAndRecord(c, r)
      PROVE  Abstract!Call(c, r)
  BY <1>1 DEF CheckAndRecord, At, Abstract!Call, IInv, RequestInv
<1>2. ASSUME NEW c \in Callers, RejectEmptyID(c)
      PROVE  Abstract!Malformed(c)
  BY <1>2 DEF RejectEmptyID, At, Abstract!Malformed, IInv, RequestInv
<1>3. ASSUME NEW c \in Callers, Lock(c)
      PROVE  UNCHANGED Abstract!absVars
  BY <1>3 DEF Lock
<1>4. ASSUME NEW c \in Callers, NEW v, pc[c] # "idle", Return(c, v)
      PROVE  Abstract!Answer(c, v)
  BY <1>4 DEF Return, Abstract!Answer, IInv, RequestInv
<1>5. ASSUME NEW c \in Callers, pc[c] # "idle", Refuse(c, "error")
      PROVE  Abstract!Fail(c)
  BY <1>4, <1>5 DEF Refuse, Abstract!Fail
<1>6. ASSUME NEW c \in Callers, pc[c] # "idle", Refuse(c, "ErrReplay"),
             Replayed(db, request[c])
      PROVE  Abstract!Refuse(c)
  BY <1>4, <1>6, SameTables DEF Refuse, Abstract!Refuse
<1>7. ASSUME NEW c \in Callers, NEW label, Goto(c, label), db' = db
      PROVE  UNCHANGED Abstract!absVars
  BY <1>7 DEF Goto
<1>8. ASSUME NEW c \in Callers, Begin(c)
      PROVE  Abstract!Fail(c) \/ UNCHANGED Abstract!absVars
  BY <1>5, <1>7, <1>8 DEF Begin, At
<1>9. ASSUME NEW c \in Callers, LookupFrame(c)
      PROVE  Abstract!Refuse(c) \/ UNCHANGED Abstract!absVars
  <2>1. tx = db /\ pc[c] # "idle"
    BY <1>9 DEF LookupFrame, At, IInv, TransactionInv
  <2> QED
    BY <1>6, <1>7, <1>9, <2>1 DEF LookupFrame, Replayed
<1>10. ASSUME NEW c \in Callers, LookupSequence(c)
       PROVE  Abstract!Refuse(c) \/ UNCHANGED Abstract!absVars
  <2>1. tx = db /\ pc[c] # "idle"
    BY <1>10 DEF LookupSequence, At, IInv, TransactionInv
  <2> QED
    BY <1>6, <1>7, <1>10, <2>1 DEF LookupSequence, Replayed
<1>11. ASSUME NEW c \in Callers, InsertFrameRow(c)
       PROVE  UNCHANGED Abstract!absVars
  BY <1>7, <1>11 DEF InsertFrameRow
<1>12. ASSUME NEW c \in Callers, UpsertSequenceRow(c)
       PROVE  Abstract!Fail(c) \/ UNCHANGED Abstract!absVars
  BY <1>5, <1>7, <1>12 DEF UpsertSequenceRow, At
<1>13. ASSUME NEW c \in Callers, pc[c] = "commit"
       PROVE  tx = Remember(db, request[c]) /\ ~Replayed(db, request[c])
  BY <1>13 DEF IInv, TransactionInv
<1>14. ASSUME NEW c \in Callers, Commit(c)
       PROVE  Abstract!Grant(c)
  BY <1>4, <1>13, <1>14, SameTables DEF Commit, At, Abstract!Grant
<1>15. ASSUME NEW c \in Callers, CommitInDoubt(c)
       PROVE  Abstract!Fail(c)
  BY <1>4, <1>13, <1>15, SameTables DEF CommitInDoubt, At, Abstract!Fail
<1>16. ASSUME NEW c \in Callers, StatementFails(c)
       PROVE  Abstract!Fail(c)
  BY <1>5, <1>16 DEF StatementFails, Held
<1>17. ASSUME Close \/ NewSQLiteReplayGuard
       PROVE  UNCHANGED Abstract!absVars
  BY <1>17 DEF Close, NewSQLiteReplayGuard
<1>18. ASSUME Crash
       PROVE  Abstract!Die
  <2>1. \/ db' = db
        \/ \E c \in Callers : /\ request[c] # NoRequest
                              /\ ~Replayed(db, request[c])
                              /\ db' = Remember(db, request[c])
    BY <1>13, <1>18 DEF Crash, At, IInv, RequestInv
  <2> QED
    BY <1>18, <2>1, SameTables DEF Crash, Abstract!Die
<1>19. CASE UNCHANGED vars
  BY <1>19 DEF vars
<1> QED
  BY <1>1, <1>2, <1>3, <1>8, <1>9, <1>10, <1>11, <1>12, <1>14, <1>15, <1>16,
     <1>17, <1>18, <1>19, SameTables DEF Next, Advance, Abstract!GuardNext

(* The SQLite guard implements the atomic one: concurrent transactions     *)
(* with rollback, Close, crashes and restarts show nothing else.           *)
THEOREM Refinement == Spec => ImplementsReplayGuard
<1>1. Init => Abstract!GuardInit
  BY SameTables DEF Init, Abstract!GuardInit
<1> QED
  BY <1>1, StepSimulation, SpecIInv, PTL
  DEF Spec, ImplementsReplayGuard, Abstract!GuardSpec

-----------------------------------------------------------------------------
(* What the history of granted calls adds to the invariant. *)
HistoryInv == GrantsRemembered /\ GrantsIncrease

(* Every step keeps the history's promise: the committed tables change     *)
(* only by recording a call that is not a replay.                          *)
LEMMA NextHistoryInv == IInv /\ HistoryInv /\ [Next]_vars => HistoryInv'
<1> SUFFICES ASSUME IInv, HistoryInv, [Next]_vars PROVE HistoryInv'
  OBVIOUS
<1>1. db \in Tables /\ granted \in Seq(Requests)
  BY DEF IInv, TypeOK
<1>2. ASSUME NEW c \in Callers, pc[c] = "commit"
      PROVE  /\ request[c] \in Requests
             /\ tx = Remember(db, request[c]) /\ ~Replayed(db, request[c])
  BY <1>2, RequestType DEF IInv, TransactionInv
<1>3. ASSUME UNCHANGED <<db, granted>>
      PROVE  HistoryInv'
  BY <1>3 DEF HistoryInv, GrantsRemembered, GrantsIncrease
<1>4. ASSUME NEW c \in Callers, pc[c] = "commit", db' = tx, granted' = granted
      PROVE  HistoryInv'
  BY <1>1, <1>2, <1>4, RememberKeepsAll
  DEF HistoryInv, GrantsRemembered, GrantsIncrease
<1>5. ASSUME NEW c \in Callers, Commit(c)
      PROVE  HistoryInv'
  <2>1. /\ request[c] \in Requests /\ ~Replayed(db, request[c])
        /\ db' = Remember(db, request[c])
        /\ granted' = Append(granted, request[c])
    BY <1>2, <1>5 DEF Commit, At
  <2> QED
    BY <1>1, <2>1, GrantExtends
    DEF HistoryInv, GrantsRemembered, GrantsIncrease
<1>6. ASSUME NEW c \in Callers, CommitInDoubt(c)
      PROVE  HistoryInv'
  BY <1>4, <1>6 DEF CommitInDoubt, At
<1>7. ASSUME Crash
      PROVE  HistoryInv'
  BY <1>3, <1>4, <1>7 DEF Crash, At
<1>8. ASSUME NEW c \in Callers,
             \/ \E r \in Requests : CheckAndRecord(c, r)
             \/ RejectEmptyID(c) \/ Lock(c) \/ Begin(c) \/ LookupFrame(c)
             \/ LookupSequence(c) \/ InsertFrameRow(c) \/ UpsertSequenceRow(c)
             \/ StatementFails(c)
      PROVE  HistoryInv'
  BY <1>3, <1>8
  DEF CheckAndRecord, RejectEmptyID, Lock, Begin, LookupFrame, LookupSequence,
      InsertFrameRow, UpsertSequenceRow, StatementFails, Refuse, Goto
<1>9. ASSUME Close \/ NewSQLiteReplayGuard \/ UNCHANGED vars
      PROVE  HistoryInv'
  BY <1>3, <1>9 DEF Close, NewSQLiteReplayGuard, vars
<1> QED
  BY <1>5, <1>6, <1>7, <1>8, <1>9 DEF Next, Advance

(* The history's promise holds of every behaviour. *)
LEMMA SpecHistoryInv == Spec => []HistoryInv
<1>1. Init => HistoryInv
  BY DEF Init, HistoryInv, GrantsRemembered, GrantsIncrease, AllRecorded,
         Increasing
<1> QED
  BY <1>1, NextHistoryInv, SpecIInv, PTL DEF Spec

(* Granted calls of a device have new frame IDs and increasing sequence    *)
(* numbers, across any number of crashes and restarts.                     *)
THEOREM GrantsAlwaysIncrease == Spec => []GrantsIncrease
  BY SpecHistoryInv, PTL DEF HistoryInv

(* A granted call is in the committed tables for good, whatever fails or   *)
(* crashes after it.                                                       *)
THEOREM GrantsStayRemembered == Spec => []GrantsRemembered
  BY SpecHistoryInv, PTL DEF HistoryInv

=============================================================================
