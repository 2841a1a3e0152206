----------------------------- MODULE ReplayGuard -----------------------------
(***************************************************************************)
(* What a replay guard promises, as one atomic step per call: the          *)
(* auth.ReplayGuard interface (auth.go:86-88).  A call is granted only if  *)
(* its frame ID is new and its sequence is above everything recorded for   *)
(* the device, and being granted records it.  A call may also end in an    *)
(* I/O error, either with nothing recorded or - when the error hides a     *)
(* commit that took effect - with the call recorded and not granted.       *)
(* Whatever is recorded survives a crash of the process.                   *)
(*                                                                         *)
(* SQLiteReplayGuard implements this specification.                        *)
(***************************************************************************)
EXTENDS ReplayTables

CONSTANT Callers   \* goroutines: one per RPC in flight

VARIABLES
    tables,    \* what has been recorded
    request,   \* the arguments of each caller inside CheckAndRecord
    verdict,   \* what each caller's last call returned
    granted    \* history: the calls that returned nil, in order

absVars == <<tables, request, verdict, granted>>

Verdicts == {"none", "nil", "ErrReplay", "ErrMalformed", "error"}

(* Type invariant of the abstract guard. *)
GuardTypeOK ==
    /\ tables \in Tables
    /\ request \in [Callers -> Requests \cup {NoRequest}]
    /\ verdict \in [Callers -> Verdicts]
    /\ granted \in Seq(Requests)

GuardInit ==
    /\ tables = EmptyTables
    /\ request = [c \in Callers |-> NoRequest]
    /\ verdict = [c \in Callers |-> "none"]
    /\ granted = <<>>

Answer(c, v) ==
    /\ request[c] # NoRequest
    /\ request' = [request EXCEPT ![c] = NoRequest]
    /\ verdict' = [verdict EXCEPT ![c] = v]

Call(c, r) ==
    /\ request[c] = NoRequest
    /\ request' = [request EXCEPT ![c] = r]
    /\ verdict' = [verdict EXCEPT ![c] = "none"]
    /\ UNCHANGED <<tables, granted>>

Malformed(c) ==
    /\ request[c] = NoRequest
    /\ verdict' = [verdict EXCEPT ![c] = "ErrMalformed"]
    /\ UNCHANGED <<tables, request, granted>>

Grant(c) ==
    /\ Answer(c, "nil")
    /\ ~Replayed(tables, request[c])
    /\ tables' = Remember(tables, request[c])
    /\ granted' = Append(granted, request[c])

Refuse(c) ==
    /\ Answer(c, "ErrReplay")
    /\ Replayed(tables, request[c])
    /\ UNCHANGED <<tables, granted>>

(* An I/O error; the call may have been recorded all the same. *)
Fail(c) ==
    /\ Answer(c, "error")
    /\ \/ UNCHANGED tables
       \/ /\ ~Replayed(tables, request[c])
          /\ tables' = Remember(tables, request[c])
    /\ UNCHANGED granted

(* The process dies: nobody is answered, and at most the call that was     *)
(* committing is recorded.                                                 *)
Die ==
    /\ request' = [c \in Callers |-> NoRequest]
    /\ \/ UNCHANGED tables
       \/ \E c \in Callers :
            /\ request[c] # NoRequest
            /\ ~Replayed(tables, request[c])
            /\ tables' = Remember(tables, request[c])
    /\ verdict' = [c \in Callers |-> "none"]
    /\ UNCHANGED granted

GuardNext ==
    \/ \E c \in Callers :
        \/ \E r \in Requests : Call(c, r)
        \/ Malformed(c)
        \/ Grant(c)
        \/ Refuse(c)
        \/ Fail(c)
    \/ Die

GuardSpec == GuardInit /\ [][GuardNext]_absVars

(* Of two granted calls of one device the later one has a new frame ID and *)
(* a larger sequence number (auth.go:131-136).                             *)
GrantsIncrease == Increasing(granted)

(* A granted call is recorded, from the moment it returns and for good.    *)
GrantsRemembered == AllRecorded(tables, granted)

=============================================================================
