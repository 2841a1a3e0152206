-------------------------- MODULE ReplayGuardProofs --------------------------
(***************************************************************************)
(* Proofs about the abstract replay guard, for every set of callers,       *)
(* devices, frame IDs and sequence numbers.                                *)
(***************************************************************************)
EXTENDS ReplayGuard, ReplayTablesProofs

(* The inductive invariant: granted calls increase because every one of    *)
(* them stays recorded.                                                    *)
GuardInv == GuardTypeOK /\ GrantsRemembered /\ GrantsIncrease

(* The abstract guard's granted calls increase and stay recorded.          *)
THEOREM GuardCorrect == GuardSpec => []GuardInv
<1>1. GuardInit => GuardInv
  <2> SUFFICES ASSUME GuardInit PROVE GuardInv
    OBVIOUS
  <2>1. GuardTypeOK
    BY DEF GuardInit, GuardTypeOK, EmptyTables, Tables, Verdicts
  <2>2. DOMAIN granted = {}
    BY DEF GuardInit
  <2> QED
    BY <2>1, <2>2
    DEF GuardInv, GrantsRemembered, GrantsIncrease, AllRecorded, Increasing
<1>2. GuardInv /\ [GuardNext]_absVars => GuardInv'
  <2> SUFFICES ASSUME GuardInv, [GuardNext]_absVars PROVE GuardInv'
    OBVIOUS
  <2> USE DEF GuardInv
  <2>1. ASSUME granted' = granted,
               tables' = tables \/ \E r \in Requests :
                    ~Replayed(tables, r) /\ tables' = Remember(tables, r)
        PROVE  GrantsRemembered' /\ GrantsIncrease'
    BY <2>1, RememberKeepsAll
    DEF GuardTypeOK, GrantsRemembered, GrantsIncrease
  <2>2. ASSUME NEW c \in Callers, NEW r \in Requests, Call(c, r)
        PROVE  GuardInv'
    <3>1. GuardTypeOK'
      BY <2>2 DEF Call, GuardTypeOK, Verdicts
    <3> QED
      BY <2>1, <2>2, <3>1 DEF Call, GuardTypeOK
  <2>3. ASSUME NEW c \in Callers, Malformed(c)
        PROVE  GuardInv'
    <3>1. GuardTypeOK'
      BY <2>3 DEF Malformed, GuardTypeOK, Verdicts
    <3> QED
      BY <2>1, <2>3, <3>1 DEF Malformed, GuardTypeOK
  <2>4. ASSUME NEW c \in Callers, Grant(c)
        PROVE  GuardInv'
    <3> DEFINE r == request[c]
    <3>1. /\ r \in Requests
          /\ tables \in Tables
          /\ ~Replayed(tables, r)
          /\ tables' = Remember(tables, r)
          /\ granted \in Seq(Requests)
          /\ granted' = Append(granted, r)
      BY <2>4 DEF Grant, Answer, GuardTypeOK
    <3>2. tables' \in Tables
      BY <3>1, RememberType, RequestHasIDs
    <3>3. GuardTypeOK'
      BY <2>4, <3>1, <3>2 DEF Grant, Answer, GuardTypeOK, Verdicts
    <3> QED
      BY <3>1, <3>3, GrantExtends DEF GrantsRemembered, GrantsIncrease
  <2>5. ASSUME NEW c \in Callers, Refuse(c)
        PROVE  GuardInv'
    <3>1. GuardTypeOK'
      BY <2>5 DEF Refuse, Answer, GuardTypeOK, Verdicts
    <3> QED
      BY <2>1, <2>5, <3>1 DEF Refuse, GuardTypeOK
  <2>6. ASSUME NEW c \in Callers, Fail(c)
        PROVE  GuardInv'
    <3>1. request[c] \in Requests /\ tables \in Tables
      BY <2>6 DEF Fail, Answer, GuardTypeOK
    <3>2. tables' \in Tables
      BY <2>6, <3>1, RememberType, RequestHasIDs DEF Fail
    <3>3. GuardTypeOK'
      BY <2>6, <3>2 DEF Fail, Answer, GuardTypeOK, Verdicts
    <3> QED
      BY <2>1, <2>6, <3>1, <3>2, <3>3 DEF Fail
  <2>7. ASSUME Die
        PROVE  GuardInv'
    <3>1. \/ tables' = tables
          \/ \E r \in Requests :
                ~Replayed(tables, r) /\ tables' = Remember(tables, r)
      BY <2>7 DEF Die, GuardTypeOK
    <3>2. tables' \in Tables
      BY <3>1, RememberType, RequestHasIDs DEF GuardTypeOK
    <3>3. GuardTypeOK'
      BY <2>7, <3>2 DEF Die, GuardTypeOK, Verdicts
    <3> QED
      BY <2>1, <2>7, <3>1, <3>2, <3>3 DEF Die
  <2>8. CASE UNCHANGED absVars
    <3>1. GuardTypeOK'
      BY <2>8 DEF absVars, GuardTypeOK
    <3> QED
      BY <2>1, <2>8, <3>1 DEF absVars, GuardTypeOK
  <2> QED
    BY <2>2, <2>3, <2>4, <2>5, <2>6, <2>7, <2>8 DEF GuardNext
<1> QED
  BY <1>1, <1>2, PTL DEF GuardSpec

=============================================================================
