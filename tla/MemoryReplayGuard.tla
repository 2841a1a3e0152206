-------------------------- MODULE MemoryReplayGuard --------------------------
(***************************************************************************)
(* MemoryReplayGuard of server/internal/auth/auth.go: the replay guard     *)
(* that keeps its tables in memory and refuses new frames of a device once *)
(* it holds maxSeenFrames frame IDs for it.  The lookups and the recording *)
(* are steps of their own: only the mutex keeps two calls apart.           *)
(***************************************************************************)
EXTENDS ReplayTables, FiniteSets

CONSTANTS
    Callers,               \* goroutines: one per RPC in flight
    Free,                  \* the value of mu when nobody holds it
    MaxMemorySeenFrames,   \* the default cap
    TestLimits             \* the arguments of SetMaxSeenFramesForTest

ASSUME MemoryAssumption ==
    /\ Free \notin Callers
    /\ MaxMemorySeenFrames \in Nat \ {0}
    /\ TestLimits \subseteq Int

VARIABLES
    devices,         \* device ID |-> [maxSequence, seenFrames], once called for
    maxSeenFrames,   \* the cap; 0 or less stands for the default
    mu,              \* g.mu: its holder, or Free
    pc,              \* where each caller is in CheckAndRecord
    request,         \* the arguments of each caller inside CheckAndRecord
    verdict,         \* what each caller's last call returned
    granted          \* history: the calls that returned nil, in order

vars == <<devices, maxSeenFrames, mu, pc, request, verdict, granted>>

ReplayState == [maxSequence : Nat, seenFrames : SUBSET Frames]

NewReplayState == [maxSequence |-> 0, seenFrames |-> {}]

(* NewMemoryReplayGuard *)
Init ==
    /\ devices = [d \in {} |-> NewReplayState]
    /\ maxSeenFrames = MaxMemorySeenFrames
    /\ mu = Free
    /\ pc = [c \in Callers |-> "idle"]
    /\ request = [c \in Callers |-> NoRequest]
    /\ verdict = [c \in Callers |-> "none"]
    /\ granted = <<>>

-----------------------------------------------------------------------------
State(d) == IF d \in DOMAIN devices THEN devices[d] ELSE NewReplayState

SetState(d, state) ==
    devices' = [x \in DOMAIN devices \cup {d} |->
                    IF x = d THEN state ELSE devices[x]]

(* An error return that forgets the deferred Unlock. *)
ReturnLocked(c, v) ==
    /\ pc' = [pc EXCEPT ![c] = "idle"]
    /\ verdict' = [verdict EXCEPT ![c] = v]
    /\ request' = [request EXCEPT ![c] = NoRequest]
    /\ mu' = IF v = "nil" THEN Free ELSE mu
    /\ UNCHANGED maxSeenFrames

(* A call that finds the table full tries again. *)
ReturnOrRetry(c, v) ==
    /\ pc' = [pc EXCEPT ![c] = IF v = "ErrReplayStateFull" THEN "lock" ELSE "idle"]
    /\ verdict' = [verdict EXCEPT ![c] = IF pc'[c] = "lock" THEN "none" ELSE v]
    /\ request' = [request EXCEPT ![c] = IF pc'[c] = "lock" THEN @ ELSE NoRequest]
    /\ mu' = Free
    /\ UNCHANGED maxSeenFrames

Return(c, v) ==
    /\ pc' = [pc EXCEPT ![c] = "idle"]
    /\ verdict' = [verdict EXCEPT ![c] = v]
    /\ request' = [request EXCEPT ![c] = NoRequest]
    /\ mu' = Free
    /\ UNCHANGED maxSeenFrames

CheckAndRecord(c, r) ==
    /\ pc[c] = "idle"
    /\ pc' = [pc EXCEPT ![c] = "lock"]
    /\ request' = [request EXCEPT ![c] = r]
    /\ verdict' = [verdict EXCEPT ![c] = "none"]
    /\ UNCHANGED <<devices, maxSeenFrames, mu, granted>>

(* A call with an empty device or frame ID returns before the lock. *)
RejectEmptyID(c) ==
    /\ pc[c] = "idle"
    /\ verdict' = [verdict EXCEPT ![c] = "ErrMalformed"]
    /\ UNCHANGED <<devices, maxSeenFrames, mu, pc, request, granted>>

Lock(c) ==
    /\ pc[c] = "lock"
    /\ mu = Free
    /\ mu' = c
    /\ pc' = [pc EXCEPT ![c] = "check"]
    /\ UNCHANGED <<devices, maxSeenFrames, request, verdict, granted>>

Limit == IF maxSeenFrames <= 0 THEN MaxMemorySeenFrames ELSE maxSeenFrames

(* A cap that lets one frame too many in. *)
FullLate(state) == Cardinality(state.seenFrames) > Limit

Full(state) == Cardinality(state.seenFrames) >= Limit

(* The device's state is created before anything is decided; what follows  *)
(* either ends the call or lets it record.                                 *)
Check(c) ==
    /\ pc[c] = "check"
    /\ LET r == request[c]  state == State(r.device)
           replayed == r.frame \in state.seenFrames
                       \/ r.sequence <= state.maxSequence
       IN  /\ SetState(r.device, state)
           /\ \/ replayed /\ Return(c, "ErrReplay")
              \/ ~replayed /\ Full(state) /\ Return(c, "ErrReplayStateFull")
              \/ /\ ~replayed /\ ~Full(state)
                 /\ pc' = [pc EXCEPT ![c] = "record"]
                 /\ UNCHANGED <<maxSeenFrames, mu, request, verdict>>
    /\ UNCHANGED granted

(* The sequence is raised although the frame is not recorded. *)
RecordSequenceOnly(c) ==
    /\ pc[c] = "record"
    /\ SetState(request[c].device,
                [State(request[c].device) EXCEPT
                    !.maxSequence = request[c].sequence])
    /\ Return(c, "nil")
    /\ granted' = Append(granted, request[c])

Record(c) ==
    /\ pc[c] = "record"
    /\ SetState(request[c].device,
                [maxSequence |-> request[c].sequence,
                 seenFrames |-> State(request[c].device).seenFrames
                                    \cup {request[c].frame}])
    /\ Return(c, "nil")
    /\ granted' = Append(granted, request[c])

SetMaxSeenFramesForTest(n) ==
    /\ mu = Free
    /\ maxSeenFrames' = n
    /\ UNCHANGED <<devices, mu, pc, request, verdict, granted>>

-----------------------------------------------------------------------------
Next ==
    \/ \E c \in Callers :
        \/ \E r \in Requests : CheckAndRecord(c, r)
        \/ RejectEmptyID(c)
        \/ Lock(c)
        \/ Check(c)
        \/ Record(c)
    \/ \E n \in TestLimits : SetMaxSeenFramesForTest(n)

(* A runnable goroutine runs, and Go hands a contended mutex to a waiter.  *)
Fairness ==
    \A c \in Callers : SF_vars(Lock(c)) /\ WF_vars(Check(c) \/ Record(c))

Spec == Init /\ [][Next]_vars

FairSpec == Spec /\ Fairness

-----------------------------------------------------------------------------
(* What the abstract guard sees: no entry is an empty one, and a full      *)
(* table is an error.                                                      *)
RecordedTables ==
    [seen |-> {x \in Devices \X Frames : x[2] \in State(x[1]).seenFrames},
     max  |-> [d \in Devices |-> State(d).maxSequence]]

AbstractVerdict ==
    [c \in Callers |->
        IF verdict[c] = "ErrReplayStateFull" THEN "error" ELSE verdict[c]]

Abstract ==
    INSTANCE ReplayGuard WITH tables <- RecordedTables,
                              verdict <- AbstractVerdict

(* Under any interleaving of calls, and with the cap moved at any moment,  *)
(* the in-memory guard is the atomic guard that the SQLite one implements  *)
(* too: refusing at the cap records nothing (auth.go:118-148).             *)
ImplementsReplayGuard == Abstract!GuardSpec

(* Type invariant of the in-memory guard (auth.go:90-99), with the mutex   *)
(* held by exactly the caller inside it.                                   *)
TypeOK ==
    /\ DOMAIN devices \subseteq Devices
    /\ \A d \in DOMAIN devices : devices[d] \in ReplayState
    /\ maxSeenFrames \in Int
    /\ mu \in Callers \cup {Free}
    /\ pc \in [Callers -> {"idle", "lock", "check", "record"}]
    /\ \A c \in Callers : pc[c] \in {"check", "record"} <=> mu = c
    /\ request \in [Callers -> Requests \cup {NoRequest}]
    /\ verdict \in [Callers -> {"none", "nil", "ErrReplay", "ErrMalformed",
                                "ErrReplayStateFull"}]
    /\ granted \in Seq(Requests)

(* A device's frame IDs are never forgotten, and one is added only while   *)
(* there is room under the cap in force, also after the cap was lowered    *)
(* below what is held (auth.go:137-145).                                   *)
SeenFramesCapped ==
    [][\A d \in Devices :
        /\ State(d).seenFrames \subseteq State(d)'.seenFrames
        /\ State(d)'.seenFrames # State(d).seenFrames =>
            Cardinality(State(d)'.seenFrames) <= Limit]_vars

(* Every call returns, the refused ones too (auth.go:123-124).             *)
CallsReturn == \A c \in Callers : pc[c] = "lock" ~> pc[c] = "idle"

=============================================================================
