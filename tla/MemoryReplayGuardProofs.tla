----------------------- MODULE MemoryReplayGuardProofs -----------------------
(***************************************************************************)
(* Proofs about the in-memory replay guard, for every set of callers,      *)
(* devices, frame IDs and sequence numbers and every cap: its types and    *)
(* its mutex, that it implements the abstract guard, and that the cap      *)
(* holds.  What a caller has found out before it records is still so when  *)
(* it does, because nobody else is past the lock meanwhile.                *)
(***************************************************************************)
EXTENDS MemoryReplayGuard, ReplayTablesProofs, FiniteSetTheorems

Inside == {"check", "record"}

(* Exactly the callers inside CheckAndRecord have arguments. *)
RequestInv == \A c \in Callers : pc[c] = "idle" <=> request[c] = NoRequest

(* The table of a device is finite: it grows by one frame at a time. *)
FiniteInv == \A d \in DOMAIN devices : IsFiniteSet(devices[d].seenFrames)

(* What the check has found out holds until the call is recorded. *)
Fresh(r) ==
    /\ r.frame \notin State(r.device).seenFrames
    /\ State(r.device).maxSequence < r.sequence
    /\ Cardinality(State(r.device).seenFrames) < Limit

CheckedInv == \A c \in Callers : pc[c] = "record" => Fresh(request[c])

(* The inductive invariant. *)
MemoryInv == TypeOK /\ RequestInv /\ FiniteInv /\ CheckedInv

-----------------------------------------------------------------------------
(* What there is of a device, called for or not. *)
LEMMA StateType ==
  ASSUME MemoryInv, NEW d
  PROVE  State(d) \in ReplayState /\ IsFiniteSet(State(d).seenFrames)
<1>1. NewReplayState \in ReplayState /\ NewReplayState.seenFrames = {}
  BY DEF NewReplayState, ReplayState
<1> QED
  BY <1>1, FS_EmptySet DEF MemoryInv, TypeOK, FiniteInv, State

(* A cap is in force whatever the test hook sets. *)
LEMMA LimitType ==
  ASSUME MemoryInv
  PROVE  Limit \in Nat \ {0}
  BY MemoryAssumption DEF MemoryInv, TypeOK, Limit

(* A caller inside has arguments. *)
LEMMA InsideHasRequest ==
  ASSUME MemoryInv, NEW c \in Callers, pc[c] # "idle"
  PROVE  /\ request[c] \in Requests /\ request[c] # NoRequest
         /\ request[c].device \in Devices /\ request[c].frame \in Frames
         /\ request[c].sequence \in Nat
<1>1. request[c] \in Requests /\ request[c] # NoRequest
  BY DEF MemoryInv, TypeOK, RequestInv
<1> QED
  BY <1>1, RequestHasIDs DEF HasIDs

(* Setting the state of one device leaves the others alone. *)
LEMMA SetStateEffect ==
  ASSUME NEW d, NEW state,
         devices' = [x \in DOMAIN devices \cup {d} |->
                        IF x = d THEN state ELSE devices[x]]
  PROVE  /\ DOMAIN devices' = DOMAIN devices \cup {d}
         /\ devices'[d] = state
         /\ \A x \in DOMAIN devices \ {d} : devices'[x] = devices[x]
         /\ \A x : State(x)' = IF x = d THEN state ELSE State(x)
<1>1. /\ DOMAIN devices' = DOMAIN devices \cup {d}
      /\ \A x \in DOMAIN devices \cup {d} :
            devices'[x] = IF x = d THEN state ELSE devices[x]
  OBVIOUS
<1> QED
  BY <1>1 DEF State

(* ... and keeps the tables well formed and finite. *)
LEMMA SetStateType ==
  ASSUME MemoryInv, NEW d \in Devices, NEW state \in ReplayState,
         IsFiniteSet(state.seenFrames), SetState(d, state)
  PROVE  /\ DOMAIN devices' \subseteq Devices
         /\ \A x \in DOMAIN devices' : devices'[x] \in ReplayState
         /\ \A x \in DOMAIN devices' : IsFiniteSet(devices'[x].seenFrames)
<1>1. /\ DOMAIN devices' = DOMAIN devices \cup {d}
      /\ devices'[d] = state
      /\ \A x \in DOMAIN devices \ {d} : devices'[x] = devices[x]
  BY SetStateEffect DEF SetState
<1>2. /\ DOMAIN devices \subseteq Devices
      /\ \A x \in DOMAIN devices : devices[x] \in ReplayState
      /\ \A x \in DOMAIN devices : IsFiniteSet(devices[x].seenFrames)
  BY DEF MemoryInv, TypeOK, FiniteInv
<1> QED
  BY <1>1, <1>2

(* The guard starts empty and unlocked. *)
LEMMA InitMemoryInv == Init => MemoryInv
  BY MemoryAssumption
  DEF Init, MemoryInv, TypeOK, RequestInv, FiniteInv, CheckedInv

(* A return unlocks. *)
LEMMA ReturnMemoryInv ==
  ASSUME MemoryInv, NEW c \in Callers, pc[c] \in Inside,
         NEW v \in {"nil", "ErrReplay", "ErrReplayStateFull"}, Return(c, v),
         granted' \in Seq(Requests),
         NEW state \in ReplayState, IsFiniteSet(state.seenFrames),
         SetState(request[c].device, state)
  PROVE  MemoryInv'
<1> USE DEF MemoryInv
<1>1. \A x \in Callers : pc'[x] \notin Inside
  BY DEF TypeOK, Return, Inside
<1>2. /\ DOMAIN devices' \subseteq Devices
      /\ \A x \in DOMAIN devices' : devices'[x] \in ReplayState
      /\ \A x \in DOMAIN devices' : IsFiniteSet(devices'[x].seenFrames)
  BY SetStateType, InsideHasRequest DEF Inside
<1>3. TypeOK'
  BY <1>1, <1>2, MemoryAssumption DEF TypeOK, Return, Inside
<1>4. RequestInv'
  BY DEF TypeOK, RequestInv, Return
<1> QED
  BY <1>1, <1>2, <1>3, <1>4 DEF FiniteInv, CheckedInv, Inside

(* Every step of the guard keeps the invariant. *)
LEMMA NextMemoryInv == MemoryInv /\ [Next]_vars => MemoryInv'
<1> SUFFICES ASSUME MemoryInv, [Next]_vars
             PROVE  MemoryInv'
  OBVIOUS
<1>0. TypeOK /\ RequestInv /\ FiniteInv /\ CheckedInv
  BY DEF MemoryInv
<1>1. ASSUME NEW c \in Callers, NEW r \in Requests, CheckAndRecord(c, r)
      PROVE  MemoryInv'
  <2>1. TypeOK' /\ UNCHANGED <<devices, maxSeenFrames>>
    BY <1>0, <1>1 DEF CheckAndRecord, TypeOK
  <2>2. RequestInv'
    BY <1>0, <1>1, NoRequestAssumption DEF CheckAndRecord, TypeOK, RequestInv
  <2>3. CheckedInv'
    BY <1>0, <1>1, <2>1
    DEF CheckAndRecord, TypeOK, CheckedInv, Fresh, State, Limit
  <2> QED
    BY <1>0, <2>1, <2>2, <2>3 DEF MemoryInv, FiniteInv
<1>2. ASSUME NEW c \in Callers, RejectEmptyID(c)
      PROVE  MemoryInv'
  <2>1. TypeOK'
    BY <1>0, <1>2 DEF RejectEmptyID, TypeOK
  <2>2. UNCHANGED <<devices, maxSeenFrames, pc, request>>
    BY <1>2 DEF RejectEmptyID
  <2> QED
    BY <1>0, <2>1, <2>2
    DEF MemoryInv, RequestInv, FiniteInv, CheckedInv, Fresh, State, Limit
<1>3. ASSUME NEW c \in Callers, Lock(c)
      PROVE  MemoryInv'
  <2>1. TypeOK' /\ UNCHANGED <<devices, maxSeenFrames, request>>
    BY <1>0, <1>3, MemoryAssumption DEF Lock, TypeOK
  <2>2. RequestInv' /\ CheckedInv'
    BY <1>0, <1>3, <2>1
    DEF Lock, TypeOK, RequestInv, CheckedInv, Fresh, State, Limit
  <2> QED
    BY <1>0, <2>1, <2>2 DEF MemoryInv, FiniteInv
<1>4. ASSUME NEW c \in Callers, Check(c)
      PROVE  MemoryInv'
  <2> DEFINE r == request[c]  state == State(request[c].device)
  <2>1. /\ pc[c] = "check" /\ pc[c] \in Inside /\ r \in Requests
        /\ r.device \in Devices /\ r.sequence \in Nat
        /\ state \in ReplayState /\ IsFiniteSet(state.seenFrames)
        /\ SetState(r.device, state) /\ UNCHANGED granted
    BY <1>4, InsideHasRequest, StateType DEF Check, Inside
  <2>2. CASE Return(c, "ErrReplay") \/ Return(c, "ErrReplayStateFull")
    BY <1>0, <2>1, <2>2, ReturnMemoryInv DEF TypeOK
  <2>3. CASE /\ ~(r.frame \in state.seenFrames \/ r.sequence <= state.maxSequence)
             /\ ~Full(state)
             /\ pc' = [pc EXCEPT ![c] = "record"]
             /\ UNCHANGED <<maxSeenFrames, mu, request, verdict>>
    <3>1. /\ DOMAIN devices' \subseteq Devices
          /\ \A x \in DOMAIN devices' : devices'[x] \in ReplayState
          /\ \A x \in DOMAIN devices' : IsFiniteSet(devices'[x].seenFrames)
      BY <2>1, SetStateType
    <3>2. TypeOK'
      BY <1>0, <2>1, <2>3, <3>1 DEF TypeOK
    <3>3. RequestInv'
      BY <1>0, <2>1, <2>3 DEF TypeOK, RequestInv
    <3>4. \A x : State(x)' = State(x)
      BY <2>1, SetStateEffect DEF SetState
    <3>5. Fresh(r)
      <4>1. Cardinality(state.seenFrames) < Limit
        BY <2>1, <2>3, LimitType, FS_CardinalityType DEF Full
      <4>2. state.maxSequence \in Nat
        BY <2>1 DEF ReplayState
      <4>3. state.maxSequence < r.sequence /\ r.frame \notin state.seenFrames
        BY <2>1, <2>3, <4>2
      <4> QED
        BY <4>1, <4>3 DEF Fresh
    <3>6. ASSUME NEW x \in Callers, pc'[x] = "record"
          PROVE  x = c
      BY <1>0, <2>1, <2>3, <3>6 DEF TypeOK
    <3>7. CheckedInv'
      BY <2>3, <3>4, <3>5, <3>6 DEF CheckedInv, Fresh, Limit
    <3> QED
      BY <3>1, <3>2, <3>3, <3>7 DEF MemoryInv, FiniteInv
  <2> QED
    BY <1>4, <2>2, <2>3 DEF Check
<1>5. ASSUME NEW c \in Callers, Record(c)
      PROVE  MemoryInv'
  <2> DEFINE r == request[c]
             state == [maxSequence |-> r.sequence,
                       seenFrames |-> State(r.device).seenFrames \cup {r.frame}]
  <2>1. /\ pc[c] \in Inside /\ r \in Requests /\ r.frame \in Frames
        /\ r.sequence \in Nat
        /\ SetState(r.device, state) /\ Return(c, "nil")
        /\ granted' = Append(granted, r)
    BY <1>5, InsideHasRequest DEF Record, Inside
  <2>2. State(r.device) \in ReplayState /\ IsFiniteSet(State(r.device).seenFrames)
    BY StateType
  <2>3. state \in ReplayState
    BY <2>1, <2>2 DEF ReplayState
  <2>4. IsFiniteSet(state.seenFrames)
    BY <2>2, FS_AddElement
  <2>5. granted' \in Seq(Requests)
    BY <1>0, <2>1 DEF TypeOK
  <2> QED
    BY <2>1, <2>3, <2>4, <2>5, ReturnMemoryInv
<1>6. ASSUME NEW n \in TestLimits, SetMaxSeenFramesForTest(n)
      PROVE  MemoryInv'
  <2>1. TypeOK' /\ UNCHANGED <<devices, pc, request>>
    BY <1>0, <1>6, MemoryAssumption DEF SetMaxSeenFramesForTest, TypeOK
  <2>2. \A c \in Callers : pc'[c] # "record"
    BY <1>0, <1>6, MemoryAssumption DEF SetMaxSeenFramesForTest, TypeOK
  <2> QED
    BY <1>0, <2>1, <2>2 DEF MemoryInv, RequestInv, FiniteInv, CheckedInv
<1>7. CASE UNCHANGED vars
  BY <1>0, <1>7 DEF vars, MemoryInv, TypeOK, RequestInv, FiniteInv, CheckedInv,
                    Fresh, State, Limit
<1> QED
  BY <1>1, <1>2, <1>3, <1>4, <1>5, <1>6, <1>7 DEF Next

(* The invariant holds of every behaviour of the guard. *)
LEMMA SpecMemoryInv == Spec => []MemoryInv
  BY InitMemoryInv, NextMemoryInv, PTL DEF Spec

(* The guard keeps its types, and its mutex is held by exactly the caller  *)
(* that is inside (auth.go:90-99, 123-124).                                *)
THEOREM MemoryTypeCorrect == Spec => []TypeOK
  BY SpecMemoryInv, PTL DEF MemoryInv

-----------------------------------------------------------------------------
(* The states of the devices change by a recording alone. *)
LEMMA KeptOrRecorded ==
  ASSUME MemoryInv, [Next]_vars
  PROVE  \/ \A d : State(d)' = State(d)
         \/ \E c \in Callers :
                /\ Record(c) /\ Fresh(request[c]) /\ request[c] \in Requests
                /\ \A d : State(d)' =
                    IF d = request[c].device
                    THEN [maxSequence |-> request[c].sequence,
                          seenFrames  |-> State(d).seenFrames
                                            \cup {request[c].frame}]
                    ELSE State(d)
<1>1. CASE UNCHANGED devices
  BY <1>1 DEF State
<1>2. ASSUME NEW c \in Callers, Check(c)
      PROVE  \A d : State(d)' = State(d)
  BY <1>2, SetStateEffect DEF Check, SetState
<1>3. ASSUME NEW c \in Callers, Record(c)
      PROVE  /\ Fresh(request[c]) /\ request[c] \in Requests
             /\ \A d : State(d)' =
                    IF d = request[c].device
                    THEN [maxSequence |-> request[c].sequence,
                          seenFrames  |-> State(d).seenFrames
                                            \cup {request[c].frame}]
                    ELSE State(d)
  <2>1. Fresh(request[c]) /\ request[c] \in Requests
    BY <1>3, InsideHasRequest DEF Record, MemoryInv, CheckedInv
  <2> DEFINE dev == request[c].device
             new == [maxSequence |-> request[c].sequence,
                     seenFrames  |-> State(dev).seenFrames
                                        \cup {request[c].frame}]
  <2>2. devices' = [x \in DOMAIN devices \cup {dev} |->
                        IF x = dev THEN new ELSE devices[x]]
    BY <1>3 DEF Record, SetState
  <2>3. \A d : State(d)' = IF d = dev THEN new ELSE State(d)
    <3> HIDE DEF dev, new
    <3> QED
      BY <2>2, SetStateEffect
  <2> QED
    BY <2>1, <2>3
<1>4. \/ UNCHANGED devices
      \/ \E c \in Callers : Check(c) \/ Record(c)
  BY DEF Next, CheckAndRecord, RejectEmptyID, Lock, SetMaxSeenFramesForTest, vars
<1> QED
  BY <1>1, <1>2, <1>3, <1>4

(* A device's frame IDs are never forgotten, and one is added only while   *)
(* there is room under the cap in force, also after the cap was lowered    *)
(* below what is held (auth.go:137-145).                                   *)
THEOREM SeenFramesStayCapped == Spec => SeenFramesCapped
<1> DEFINE Capped == \A d \in Devices :
                /\ State(d).seenFrames \subseteq State(d)'.seenFrames
                /\ State(d)'.seenFrames # State(d).seenFrames =>
                    Cardinality(State(d)'.seenFrames) <= Limit
<1>1. MemoryInv /\ [Next]_vars => Capped
  <2> SUFFICES ASSUME MemoryInv, [Next]_vars, NEW d \in Devices,
                      State(d)' # State(d)
               PROVE  /\ State(d).seenFrames \subseteq State(d)'.seenFrames
                      /\ Cardinality(State(d)'.seenFrames) <= Limit
    OBVIOUS
  <2>1. PICK c \in Callers :
            /\ Fresh(request[c]) /\ d = request[c].device
            /\ State(d)'.seenFrames = State(d).seenFrames \cup {request[c].frame}
    BY KeptOrRecorded
  <2>2. IsFiniteSet(State(d).seenFrames) /\ Limit \in Nat
    BY StateType, LimitType
  <2>3. Cardinality(State(d).seenFrames) < Limit
    BY <2>1 DEF Fresh
  <2> DEFINE held == State(d).seenFrames
             more == held \cup {request[c].frame}
  <2>4. /\ Cardinality(held) \in Nat
        /\ Cardinality(more) = IF request[c].frame \in held
                               THEN Cardinality(held)
                               ELSE Cardinality(held) + 1
    <3> HIDE DEF held
    <3>1. IsFiniteSet(held)
      BY <2>2 DEF held
    <3> QED
      BY <3>1, FS_AddElement, FS_CardinalityType
  <2>5. Cardinality(more) <= Limit
    <3> HIDE DEF more
    <3> QED
      BY <2>2, <2>3, <2>4
  <2>6. State(d)'.seenFrames = more /\ held \subseteq more
    BY <2>1
  <2> HIDE DEF more
  <2> QED
    BY <2>5, <2>6
<1> QED
  BY <1>1, SpecMemoryInv, PTL DEF Spec, SeenFramesCapped

-----------------------------------------------------------------------------
(* The abstract guard's operators on tables are the concrete one's. *)
LEMMA SameTables ==
  /\ Abstract!Requests = Requests
  /\ Abstract!EmptyTables = EmptyTables
  /\ \A t, r : Abstract!Replayed(t, r) <=> Replayed(t, r)
  /\ \A t, r : Abstract!Remember(t, r) = Remember(t, r)
  BY DEF Abstract!Requests, Requests, Abstract!EmptyTables, EmptyTables,
         Abstract!Replayed, Replayed, Abstract!SeenFrame, SeenFrame,
         Abstract!StaleSequence, StaleSequence, Abstract!Remember, Remember,
         Abstract!UpsertSequence, UpsertSequence,
         Abstract!InsertFrame, InsertFrame

(* What is recorded are tables, and they say of a call what the device's   *)
(* state says.                                                             *)
LEMMA RecordedTablesType ==
  ASSUME MemoryInv
  PROVE  /\ RecordedTables \in Tables
         /\ \A r \in Requests :
                Replayed(RecordedTables, r)
                    <=> \/ r.frame \in State(r.device).seenFrames
                        \/ r.sequence <= State(r.device).maxSequence
<1>1. \A d : State(d).maxSequence \in Nat
  BY StateType DEF ReplayState
<1>2. RecordedTables \in Tables
  BY <1>1 DEF RecordedTables, Tables
<1>3. ASSUME NEW r \in Requests
      PROVE  Replayed(RecordedTables, r)
                    <=> \/ r.frame \in State(r.device).seenFrames
                        \/ r.sequence <= State(r.device).maxSequence
  <2>1. r.device \in Devices /\ r.frame \in Frames
    BY DEF Requests
  <2>2. /\ <<r.device, r.frame>> \in RecordedTables.seen
                <=> r.frame \in State(r.device).seenFrames
        /\ RecordedTables.max[r.device] = State(r.device).maxSequence
    BY <2>1 DEF RecordedTables
  <2> QED
    BY <2>2 DEF Replayed, SeenFrame, StaleSequence
<1> QED
  BY <1>2, <1>3

(* Recording a call in the device's state records it in the tables. *)
LEMMA RecordRemembers ==
  ASSUME MemoryInv, MemoryInv', NEW c \in Callers, request[c] \in Requests,
         \A d : State(d)' =
                    IF d = request[c].device
                    THEN [maxSequence |-> request[c].sequence,
                          seenFrames  |-> State(d).seenFrames
                                            \cup {request[c].frame}]
                    ELSE State(d)
  PROVE  RecordedTables' = Remember(RecordedTables, request[c])
<1> DEFINE r == request[c]  t == RecordedTables  u == Remember(t, r)
<1>1. r.device \in Devices /\ r.frame \in Frames /\ HasIDs(r)
  BY RequestHasIDs DEF HasIDs
<1>2. /\ t \in Tables
      /\ t.seen = {x \in Devices \X Frames : x[2] \in State(x[1]).seenFrames}
      /\ t.max = [d \in Devices |-> State(d).maxSequence]
  BY RecordedTablesType DEF RecordedTables
<1>3. u \in Tables
  BY <1>1, <1>2, RememberType
<1>4. /\ u.seen = t.seen \cup {<<r.device, r.frame>>}
      /\ u.max = [t.max EXCEPT ![r.device] = r.sequence]
  BY <1>1, <1>2, RememberFields
<1>5. RecordedTables' =
        [seen |-> {x \in Devices \X Frames : x[2] \in State(x[1])'.seenFrames},
         max  |-> [d \in Devices |-> State(d)'.maxSequence]]
  BY DEF RecordedTables
<1> HIDE DEF u
<1>6. {x \in Devices \X Frames : x[2] \in State(x[1])'.seenFrames} = u.seen
  <2>1. ASSUME NEW d \in Devices, NEW f \in Frames
        PROVE  f \in State(d)'.seenFrames <=> <<d, f>> \in u.seen
    <3>1. CASE d = r.device
      <4>1. State(d)'.seenFrames = State(d).seenFrames \cup {r.frame}
        BY <3>1
      <4>2. <<d, f>> \in t.seen <=> f \in State(d).seenFrames
        BY <1>2
      <4> HIDE DEF t
      <4> QED
        BY <1>4, <3>1, <4>1, <4>2
    <3>2. CASE d # r.device
      <4>1. State(d)'.seenFrames = State(d).seenFrames
        BY <3>2
      <4>2. <<d, f>> \in t.seen <=> f \in State(d).seenFrames
        BY <1>2
      <4> HIDE DEF t
      <4> QED
        BY <1>4, <3>2, <4>1, <4>2
    <3> QED
      BY <3>1, <3>2
  <2>2. u.seen \subseteq Devices \X Frames
    BY <1>3, TablesFields
  <2> QED
    BY <2>1, <2>2
<1>7. [d \in Devices |-> State(d)'.maxSequence] = u.max
  BY <1>1, <1>2, <1>4
<1>8. u = [seen |-> u.seen, max |-> u.max]
  BY <1>3 DEF Tables
<1> QED
  BY <1>5, <1>6, <1>7, <1>8 DEF u

(* A caller that records is granted a call that is no replay. *)
LEMMA RecordGrants ==
  ASSUME MemoryInv, MemoryInv', NEW c \in Callers, Record(c)
  PROVE  /\ pc[c] # "idle" /\ Return(c, "nil") /\ request[c] \in Requests
         /\ ~Replayed(RecordedTables, request[c])
         /\ RecordedTables' = Remember(RecordedTables, request[c])
         /\ granted' = Append(granted, request[c])
<1> DEFINE r == request[c]
<1>1. /\ pc[c] # "idle" /\ Return(c, "nil") /\ r \in Requests
      /\ granted' = Append(granted, r) /\ Fresh(r)
  BY InsideHasRequest DEF Record, MemoryInv, CheckedInv
<1>2. RecordedTables' = Remember(RecordedTables, r)
  <2> DEFINE dev == r.device
             new == [maxSequence |-> r.sequence,
                     seenFrames  |-> State(dev).seenFrames \cup {r.frame}]
  <2>1. devices' = [x \in DOMAIN devices \cup {dev} |->
                        IF x = dev THEN new ELSE devices[x]]
    BY DEF Record, SetState
  <2>2. \A d : State(d)' = IF d = dev THEN new ELSE State(d)
    <3> HIDE DEF dev, new
    <3> QED
      BY <2>1, SetStateEffect
  <2> QED
    BY <1>1, <2>2, RecordRemembers
<1>3. State(r.device).maxSequence \in Nat /\ r.sequence \in Nat
  BY <1>1, StateType, InsideHasRequest DEF ReplayState
<1>4. ~Replayed(RecordedTables, r)
  BY <1>1, <1>3, RecordedTablesType DEF Fresh
<1> QED
  BY <1>1, <1>2, <1>4

(* Every step of the in-memory guard is a step of the atomic one or leaves *)
(* it as it is.                                                            *)
LEMMA MemoryStepSimulation ==
  MemoryInv /\ MemoryInv' /\ [Next]_vars
      => [Abstract!GuardNext]_(Abstract!absVars)
<1> SUFFICES ASSUME MemoryInv, MemoryInv', [Next]_vars
             PROVE  Abstract!GuardNext \/ UNCHANGED Abstract!absVars
  BY DEF Abstract!absVars
<1> USE DEF Abstract!absVars
<1>0. TypeOK /\ RequestInv
  BY DEF MemoryInv
<1>1. ASSUME \A d : State(d)' = State(d)
      PROVE  UNCHANGED RecordedTables
  BY <1>1 DEF RecordedTables
<1>2. ASSUME UNCHANGED devices
      PROVE  UNCHANGED RecordedTables
  BY <1>2 DEF RecordedTables, State
<1>3. ASSUME UNCHANGED verdict
      PROVE  UNCHANGED AbstractVerdict
  BY <1>3 DEF AbstractVerdict
<1>4. ASSUME NEW c \in Callers, NEW v, verdict' = [verdict EXCEPT ![c] = v]
      PROVE  AbstractVerdict' =
                [AbstractVerdict EXCEPT
                    ![c] = IF v = "ErrReplayStateFull" THEN "error" ELSE v]
  BY <1>0, <1>4 DEF AbstractVerdict, TypeOK
<1>5. ASSUME NEW c \in Callers, NEW r \in Requests, CheckAndRecord(c, r)
      PROVE  Abstract!Call(c, r)
  BY <1>0, <1>2, <1>4, <1>5 DEF CheckAndRecord, Abstract!Call, RequestInv
<1>6. ASSUME NEW c \in Callers, RejectEmptyID(c)
      PROVE  Abstract!Malformed(c)
  BY <1>0, <1>2, <1>4, <1>6 DEF RejectEmptyID, Abstract!Malformed, RequestInv
<1>7. ASSUME NEW c \in Callers, Lock(c)
      PROVE  UNCHANGED Abstract!absVars
  BY <1>2, <1>3, <1>7 DEF Lock
<1>8. ASSUME NEW c \in Callers, NEW v, pc[c] # "idle", Return(c, v)
      PROVE  Abstract!Answer(c, IF v = "ErrReplayStateFull" THEN "error" ELSE v)
  BY <1>0, <1>4, <1>8 DEF Return, Abstract!Answer, RequestInv
<1>9. ASSUME NEW c \in Callers, Check(c)
      PROVE  \/ Abstract!Refuse(c) \/ Abstract!Fail(c)
             \/ UNCHANGED Abstract!absVars
  <2> DEFINE r == request[c]
             replayed == \/ r.frame \in State(r.device).seenFrames
                         \/ r.sequence <= State(r.device).maxSequence
  <2>1. UNCHANGED <<RecordedTables, granted>> /\ r \in Requests /\ pc[c] # "idle"
    BY <1>1, <1>9, SetStateEffect, InsideHasRequest DEF Check, SetState
  <2>2. replayed <=> Abstract!Replayed(RecordedTables, r)
    BY <2>1, RecordedTablesType, SameTables
  <2>3. CASE replayed /\ Return(c, "ErrReplay")
    BY <1>8, <2>1, <2>2, <2>3 DEF Abstract!Refuse
  <2>4. CASE Return(c, "ErrReplayStateFull")
    BY <1>8, <2>1, <2>4 DEF Abstract!Fail
  <2>5. CASE UNCHANGED <<request, verdict>>
    BY <1>3, <2>1, <2>5
  <2> QED
    BY <1>9, <2>3, <2>4, <2>5 DEF Check
<1>10. ASSUME NEW c \in Callers, Record(c)
       PROVE  Abstract!Grant(c)
  BY <1>8, <1>10, RecordGrants, SameTables DEF Abstract!Grant
<1>11. ASSUME NEW n \in TestLimits, SetMaxSeenFramesForTest(n)
       PROVE  UNCHANGED Abstract!absVars
  BY <1>2, <1>3, <1>11 DEF SetMaxSeenFramesForTest
<1>12. CASE UNCHANGED vars
  BY <1>2, <1>3, <1>12 DEF vars
<1> QED
  BY <1>5, <1>6, <1>7, <1>9, <1>10, <1>11, <1>12, SameTables
  DEF Next, Abstract!GuardNext

(* Under any interleaving of calls, and with the cap moved at any moment,  *)
(* the in-memory guard is the atomic guard that the SQLite one implements  *)
(* too: refusing at the cap records nothing (auth.go:118-148).             *)
THEOREM MemoryRefinement == Spec => ImplementsReplayGuard
<1>1. Init => Abstract!GuardInit
  <2> SUFFICES ASSUME Init
               PROVE  Abstract!GuardInit
    OBVIOUS
  <2>1. \A d : State(d) = NewReplayState
    BY DEF Init, State
  <2>2. RecordedTables = EmptyTables
    BY <2>1 DEF RecordedTables, EmptyTables, NewReplayState
  <2>3. AbstractVerdict = [c \in Callers |-> "none"]
    BY DEF Init, AbstractVerdict
  <2> QED
    BY <2>2, <2>3, SameTables DEF Init, Abstract!GuardInit
<1> QED
  BY <1>1, MemoryStepSimulation, SpecMemoryInv, PTL
  DEF Spec, ImplementsReplayGuard, Abstract!GuardSpec

-----------------------------------------------------------------------------
(* The history of granted calls: all of them are recorded, so the next one *)
(* that is granted differs from each.                                      *)
GrantedInv == AllRecorded(RecordedTables, granted) /\ Increasing(granted)

(* GrantedInv is kept by every step. *)
LEMMA NextGrantedInv ==
  ASSUME MemoryInv, MemoryInv', GrantedInv, [Next]_vars
  PROVE  GrantedInv'
<1>1. ASSUME NEW c \in Callers, Record(c)
      PROVE  GrantedInv'
  <2>1. RecordedTables \in Tables /\ granted \in Seq(Requests)
    BY RecordedTablesType DEF MemoryInv, TypeOK
  <2>2. /\ request[c] \in Requests /\ ~Replayed(RecordedTables, request[c])
        /\ RecordedTables' = Remember(RecordedTables, request[c])
        /\ granted' = Append(granted, request[c])
    BY <1>1, RecordGrants
  <2>3. AllRecorded(RecordedTables, granted)' <=>
            AllRecorded(Remember(RecordedTables, request[c]),
                        Append(granted, request[c]))
    BY <2>2 DEF AllRecorded, SeenFrame, StaleSequence
  <2>4. Increasing(granted)' <=> Increasing(Append(granted, request[c]))
    BY <2>2 DEF Increasing
  <2> QED
    BY <2>1, <2>2, <2>3, <2>4, GrantExtends DEF GrantedInv
<1>2. CASE ~\E c \in Callers : Record(c)
  <2>1. \A d : State(d)' = State(d)
    BY <1>2, KeptOrRecorded
  <2>2. UNCHANGED RecordedTables
    BY <2>1 DEF RecordedTables
  <2>3. UNCHANGED granted
    BY <1>2 DEF Next, CheckAndRecord, RejectEmptyID, Lock, Check,
                SetMaxSeenFramesForTest, vars
  <2> QED
    BY <2>2, <2>3 DEF GrantedInv
<1> QED
  BY <1>1, <1>2

(* Of two granted calls of one device the later one has a new frame ID and *)
(* a larger sequence number, however the calls interleave                  *)
(* (auth.go:131-136).                                                      *)
THEOREM MemoryGrantsIncrease == Spec => []Increasing(granted)
<1>1. Init => GrantedInv
  BY DEF Init, GrantedInv, AllRecorded, Increasing
<1>2. MemoryInv /\ MemoryInv' /\ GrantedInv /\ [Next]_vars => GrantedInv'
  BY NextGrantedInv
<1>3. GrantedInv => Increasing(granted)
  BY DEF GrantedInv
<1> QED
  BY <1>1, <1>2, <1>3, SpecMemoryInv, PTL DEF Spec

=============================================================================
