----------------------------- MODULE FrameStore -----------------------------
(***************************************************************************)
(* What a sink for sanitized frames promises: the storage.Sink interface   *)
(* (storage.go:19-21), as Service.IngestFrame relies on it.  A call ends   *)
(* with its frame stored and acknowledged, or with an error - then the     *)
(* frame may be stored all the same.  A stored frame stays.  Only a crash  *)
(* takes frames away, and none that is durable: with fsync on, none that   *)
(* was stored before the last acknowledgement.  There are no files, no     *)
(* rotation and no lock here.                                              *)
(*                                                                         *)
(* JSONLSink implements this specification.                                *)
(***************************************************************************)
CONSTANTS
    Writers,    \* goroutines
    Records,    \* sanitized frames
    NoRecord,   \* a writer with nothing to write
    Sync        \* each write is fsynced

VARIABLES
    writing,    \* the frame each caller of WriteSanitizedFrame hands over
    stored,     \* the frames that are stored
    durable,    \* those that no crash takes away
    acked       \* history: the frames whose write returned nil

storeVars == <<writing, stored, durable, acked>>

StoreInit ==
    /\ writing = [w \in Writers |-> NoRecord]
    /\ stored = {}
    /\ durable = {}
    /\ acked = {}

Begin(w, r) ==
    /\ writing[w] = NoRecord
    /\ writing' = [writing EXCEPT ![w] = r]
    /\ UNCHANGED <<stored, durable, acked>>

Put(w) ==
    /\ writing[w] # NoRecord
    /\ stored' = stored \cup {writing[w]}
    /\ UNCHANGED <<writing, durable, acked>>

End(w) ==
    /\ writing[w] # NoRecord
    /\ writing' = [writing EXCEPT ![w] = NoRecord]

(* The write returns nil: the frame is stored, and with fsync on it and    *)
(* all that was stored before it are durable.                              *)
Ack(w) ==
    /\ End(w)
    /\ acked' = acked \cup {writing[w]}
    /\ \/ ~Sync /\ stored' = stored \cup {writing[w]} /\ UNCHANGED durable
       \/ Sync /\ writing[w] \in stored /\ durable' = stored /\ UNCHANGED stored

Fail(w) == End(w) /\ UNCHANGED <<stored, durable, acked>>

(* Stored frames may become durable at any time. *)
Settle ==
    /\ durable' \in SUBSET stored
    /\ durable \subseteq durable'
    /\ UNCHANGED <<writing, stored, acked>>

(* The writes under way end unanswered, at most one of them stored. *)
StoreCrash ==
    /\ writing' = [w \in Writers |-> NoRecord]
    /\ \E late \in {{}} \cup {{writing[w]} : w \in Writers} :
        stored' \in SUBSET (stored \cup (late \ {NoRecord}))
    /\ durable \subseteq stored'
    /\ UNCHANGED <<durable, acked>>

StoreNext ==
    \/ \E w \in Writers :
        \/ \E r \in Records : Begin(w, r)
        \/ Put(w)
        \/ Ack(w)
        \/ Fail(w)
    \/ Settle
    \/ StoreCrash

StoreSpec == StoreInit /\ [][StoreNext]_storeVars

=============================================================================
