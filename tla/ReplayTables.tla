---------------------------- MODULE ReplayTables ----------------------------
(***************************************************************************)
(* The data both replay guards keep: for every device the frame IDs it has *)
(* used and the largest sequence number it has used, with the operators    *)
(* that read and extend them.  Pure definitions; the guards themselves are *)
(* the state machines ReplayGuard and SQLiteReplayGuard.                   *)
(*                                                                         *)
(* The two SQLite tables seen_frames(device_id, frame_id) and              *)
(* device_state(device_id, max_sequence) are the two fields of one record. *)
(* A device without a device_state row has max_sequence 0, exactly what    *)
(* the code's uninitialised maxSequence stands for (replay_sqlite.go:106). *)
(***************************************************************************)
EXTENDS Integers, Sequences

CONSTANTS
    Devices,           \* non-empty device IDs
    Frames,            \* non-empty frame IDs
    SequenceNumbers,   \* the uint64 sequence numbers that callers use
    NoRequest,         \* the arguments of a goroutine outside any call
    Int64Limit         \* 2^63: the first uint64 the SQL driver cannot bind

ASSUME Int64LimitAssumption == Int64Limit \in Nat \ {0}

(* sequence is a uint64: below 2^64 = 2 * 2^63 *)
ASSUME SequenceNumbersAssumption ==
    SequenceNumbers \subseteq 0 .. 2 * Int64Limit - 1

(* The arguments of CheckAndRecord(deviceID, frameID, sequence). *)
Requests == [device : Devices, frame : Frames, sequence : SequenceNumbers]

ASSUME NoRequestAssumption == NoRequest \notin Requests

Tables == [seen : SUBSET (Devices \X Frames), max : [Devices -> Nat]]

EmptyTables == [seen |-> {}, max |-> [d \in Devices |-> 0]]

SeenFrame(t, r) == <<r.device, r.frame>> \in t.seen

(* The last sequence number may be used again. *)
StaleSequenceStrict(t, r) == r.sequence < t.max[r.device]

StaleSequence(t, r) == r.sequence <= t.max[r.device]

(* Frame IDs may be used again. *)
ReplayedBySequence(t, r) == StaleSequence(t, r)

Replayed(t, r) == SeenFrame(t, r) \/ StaleSequence(t, r)

InsertFrame(t, r) == [t EXCEPT !.seen = @ \cup {<<r.device, r.frame>>}]

UpsertSequence(t, r) == [t EXCEPT !.max[r.device] = r.sequence]

(* database/sql converts a uint64 argument to int64 and refuses one with   *)
(* the high bit set.                                                       *)
Bindable(r) == r.sequence < Int64Limit

Remember(t, r) == UpsertSequence(InsertFrame(t, r), r)

-----------------------------------------------------------------------------
(* For the guards' properties: a history g of calls that were granted, in  *)
(* order.  Later calls of a device have new frame IDs and larger sequence  *)
(* numbers, ...                                                            *)
Increasing(g) ==
    \A i, j \in DOMAIN g :
        i < j /\ g[i].device = g[j].device =>
            /\ g[i].frame # g[j].frame
            /\ g[i].sequence < g[j].sequence

(* ... and the tables t would refuse every one of them.                    *)
AllRecorded(t, g) ==
    \A i \in DOMAIN g : SeenFrame(t, g[i]) /\ StaleSequence(t, g[i])

=============================================================================
