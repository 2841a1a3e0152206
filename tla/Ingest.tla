-------------------------------- MODULE Ingest --------------------------------
(***************************************************************************)
(* The ingest path of the proxy: GRPCServer.IngestFrame and                *)
(* Service.IngestFrame (server/internal/ingest) composed with the          *)
(* verifier, the replay guard, the sanitizer and the JSONL sink.           *)
(*                                                                         *)
(* One handler goroutine serves one RPC.  A message is an RPC as the       *)
(* network delivers it; any message may arrive any number of times, at     *)
(* any time and in any order (duplicates, retries, reordering), on         *)
(* concurrent handlers.  The client may give up (cancel) while the         *)
(* handler runs.  The process, or the machine, may go down at any point    *)
(* and come back.                                                          *)
(*                                                                         *)
(* The replay guard's CheckAndRecord is one atomic step here: that is what *)
(* SQLiteReplayGuard implements (ReplayGuard).  The sink is one            *)
(* append-only file; its files, rotation and partial writes are the        *)
(* subject of JSONLSink.                                                   *)
(***************************************************************************)
EXTENDS ReplayTables, Verifier, Sanitize

CONSTANTS
    Handlers,     \* handler goroutines
    Messages,     \* the RPCs that may be delivered
    NoMessage,    \* a handler with nothing to do
    Envelope,     \* message |-> the envelope it carries
    Peer,         \* message |-> fingerprint of the peer's TLS certificate
    Decoded,      \* payload |-> the raw frame, for those that are JSON frames
    Sync,         \* storage_fsync
    Faults,       \* what may go wrong: a subset of AllFaults
    Observed,     \* the answers that the history variable keeps
    StartClock,   \* the time at which the model starts ...
    MaxClock      \* ... and the bound on the clock

AllFaults == {"replay", "append", "sync", "cancel", "crash"}

(* A Response carries a decision, an error a gRPC status. *)
Answers == {"accept", "drop", "quarantine", "InvalidArgument",
            "Unauthenticated", "AlreadyExists", "ResourceExhausted",
            "Internal"}

ASSUME IngestAssumption ==
    /\ Faults \subseteq AllFaults
    /\ Observed \subseteq Answers
    /\ NoMessage \notin Messages
    /\ Sync \in BOOLEAN
    /\ StartClock \in Nat /\ MaxClock \in Nat
    /\ \A m \in Messages :
        /\ Envelope[m].device \in Devices \cup {""}
        /\ Envelope[m].frame \in Frames \cup {""}
        /\ Envelope[m].sequence \in SequenceNumbers
    /\ "" \notin Devices \cup Frames

VARIABLES
    up,          \* the process runs
    clock,       \* time.Now
    tables,      \* what the replay guard has recorded
    journal,     \* the lines of the sanitized JSONL file
    synced,      \* the length of its prefix that fsync has made durable
    pc,          \* where each handler is
    msg,         \* the message each handler serves
    cancelled,   \* whether its client has given up
    answers      \* history: the observed <<message, answer>> pairs

vars == <<up, clock, tables, journal, synced, pc, msg, cancelled, answers>>

Labels == {"idle", "verify", "record", "process", "store", "append", "sync"}

Init ==
    /\ up = TRUE
    /\ clock = StartClock
    /\ tables = EmptyTables
    /\ journal = <<>>
    /\ synced = 0
    /\ pc = [h \in Handlers |-> "idle"]
    /\ msg = [h \in Handlers |-> NoMessage]
    /\ cancelled = [h \in Handlers |-> FALSE]
    /\ answers = {}

-----------------------------------------------------------------------------
Env(h) == Envelope[msg[h]]

At(h, label) == up /\ pc[h] = label

Goto(h, label) ==
    /\ pc' = [pc EXCEPT ![h] = label]
    /\ UNCHANGED <<msg, cancelled, answers>>

Observe(m, answer) ==
    answers' = answers \cup ({<<m, answer>>} \cap (Messages \X Observed))

(* The handler returns its answer and is done. *)
Respond(h, answer) ==
    /\ Observe(msg[h], answer)
    /\ pc' = [pc EXCEPT ![h] = "idle"]
    /\ msg' = [msg EXCEPT ![h] = NoMessage]
    /\ cancelled' = [cancelled EXCEPT ![h] = FALSE]

(* GRPCServer.IngestFrame takes the message; EnvelopeFromProto refuses one *)
(* without a timestamp at once.                                            *)
Receive(h, m) ==
    /\ At(h, "idle")
    /\ \/ /\ Envelope[m].signedAt = NilTime
          /\ Observe(m, "InvalidArgument")
          /\ UNCHANGED <<pc, msg>>
       \/ /\ Envelope[m].signedAt # NilTime
          /\ pc' = [pc EXCEPT ![h] = "verify"]
          /\ msg' = [msg EXCEPT ![h] = m]
          /\ UNCHANGED answers
    /\ UNCHANGED <<up, clock, tables, journal, synced, cancelled>>

(* Verifier.Verify up to the replay guard. *)
Authenticate(h) ==
    /\ At(h, "verify")
    /\ IF Verified(Env(h), Peer[msg[h]], clock)
       THEN Goto(h, "record")
       ELSE Respond(h, MapAuthError(VerifyError(Env(h), Peer[msg[h]], clock)))
    /\ UNCHANGED <<up, clock, tables, journal, synced>>

(* Verifier.Verify asks the replay guard last (auth.go:227).  The guard's  *)
(* own refusal of empty IDs (replay_sqlite.go:70-72) cannot apply here:    *)
(* the first check of Verify has refused them.                             *)
Record(h) ==
    /\ At(h, "record")
    /\ \/ /\ Replayed(tables, Env(h))
          /\ Respond(h, MapAuthError("ErrReplay"))
          /\ UNCHANGED tables
       \/ /\ ~Replayed(tables, Env(h)) /\ Bindable(Env(h))
          /\ tables' = Remember(tables, Env(h))
          /\ Goto(h, "process")
    /\ UNCHANGED <<up, clock, journal, synced>>

(* The guard fails (I/O error, or a sequence it cannot bind); a failed     *)
(* commit may have been recorded all the same.                             *)
RecordFails(h) ==
    /\ At(h, "record")
    /\ "replay" \in Faults \/ ~Bindable(Env(h))
    /\ Respond(h, MapAuthError("error"))
    /\ \/ UNCHANGED tables
       \/ /\ ~Replayed(tables, Env(h)) /\ Bindable(Env(h))
          /\ tables' = Remember(tables, Env(h))
    /\ UNCHANGED <<up, clock, journal, synced>>

Decodes(e) == e.payload \in DOMAIN Decoded

(* bindEnvelopeToFrame: empty IDs of the payload's frame are filled from   *)
(* the envelope ...                                                        *)
BoundFrame(e) ==
    [field \in DOMAIN Decoded[e.payload] |->
        IF field \in StringIDs /\ Decoded[e.payload][field] = ""
        THEN e[field]
        ELSE Decoded[e.payload][field]]

(* The sequence is left out of the comparison. *)
BindsStringsOnly(e) == \A id \in StringIDs : BoundFrame(e)[id] = e[id]

(* ... and then all of them, and the sequence, must agree.                 *)
Binds(e) == \A id \in StringIDs \cup {"sequence"} : BoundFrame(e)[id] = e[id]

(* From json.Unmarshal to the sanitizer's decision. *)
Outcome(e) ==
    IF Decodes(e) /\ Binds(e) THEN Decision(BoundFrame(e))
    ELSE "InvalidArgument"

(* Only a frame that is to be dropped is turned away. *)
ProcessStoresQuarantined(h) ==
    /\ At(h, "process")
    /\ \E outcome \in {Outcome(Env(h))} :
        \/ outcome \in {"accept", "quarantine"} /\ Goto(h, "store")
        \/ outcome \notin {"accept", "quarantine"} /\ Respond(h, outcome)
    /\ UNCHANGED <<up, clock, tables, journal, synced>>

Process(h) ==
    /\ At(h, "process")
    /\ \E outcome \in {Outcome(Env(h))} :
        \/ outcome = "accept" /\ Goto(h, "store")
        \/ outcome # "accept" /\ Respond(h, outcome)
    /\ UNCHANGED <<up, clock, tables, journal, synced>>

(* WriteSanitizedFrame returns ctx.Err() before it touches the file. *)
CheckContext(h) ==
    /\ At(h, "store")
    /\ \/ cancelled[h] /\ Respond(h, "Internal")
       \/ ~cancelled[h] /\ Goto(h, "append")
    /\ UNCHANGED <<up, clock, tables, journal, synced>>

(* The mutex is taken twice. *)
SinkFreeOfWaiters == \A h \in Handlers : pc[h] \notin {"append", "sync"}

(* The sink's mutex is held from the write to the end of the sync. *)
SinkFree == \A h \in Handlers : pc[h] # "sync"

Line(e) == SanitizedFrame(BoundFrame(e))

(* The messages whose frames the sanitizer accepts, and their lines. *)
Storable == {m \in Messages : Outcome(Envelope[m]) = "accept"}

Lines == {Line(Envelope[m]) : m \in Storable}

(* Answering before the fsync has finished. *)
AppendAnswersFirst(h) ==
    /\ At(h, "append") /\ SinkFree
    /\ journal' = Append(journal, Line(Env(h)))
    /\ Respond(h, "accept")
    /\ UNCHANGED <<up, clock, tables, synced>>

AppendLine(h) ==
    /\ At(h, "append") /\ SinkFree
    /\ journal' = Append(journal, Line(Env(h)))
    /\ IF Sync THEN Goto(h, "sync") ELSE Respond(h, "accept")
    /\ UNCHANGED <<up, clock, tables, synced>>

AppendFails(h) ==
    /\ "append" \in Faults
    /\ At(h, "append") /\ SinkFree
    /\ Respond(h, "Internal")
    /\ UNCHANGED <<up, clock, tables, journal, synced>>

SyncFile(h) ==
    /\ At(h, "sync")
    /\ synced' = Len(journal)
    /\ Respond(h, "accept")
    /\ UNCHANGED <<up, clock, tables, journal>>

(* The fsync fails: the line stays in the file, the client hears Internal. *)
SyncFails(h) ==
    /\ "sync" \in Faults
    /\ At(h, "sync")
    /\ Respond(h, "Internal")
    /\ UNCHANGED <<up, clock, tables, journal, synced>>

-----------------------------------------------------------------------------
(* The client's deadline passes or its connection breaks: the handler runs *)
(* on with a cancelled context.                                            *)
Cancel(h) ==
    /\ "cancel" \in Faults
    /\ up /\ pc[h] # "idle" /\ ~cancelled[h]
    /\ cancelled' = [cancelled EXCEPT ![h] = TRUE]
    /\ UNCHANGED <<up, clock, tables, journal, synced, pc, msg, answers>>

Tick ==
    /\ clock < MaxClock
    /\ clock' = clock + 1
    /\ UNCHANGED <<up, tables, journal, synced, pc, msg, cancelled, answers>>

(* The process or the machine goes down.  What the replay guard committed  *)
(* is durable; of the journal at least the fsynced prefix is.              *)
Crash ==
    /\ "crash" \in Faults
    /\ up
    /\ up' = FALSE
    /\ \E n \in synced .. Len(journal) : journal' = SubSeq(journal, 1, n)
    /\ pc' = [h \in Handlers |-> "idle"]
    /\ msg' = [h \in Handlers |-> NoMessage]
    /\ cancelled' = [h \in Handlers |-> FALSE]
    /\ UNCHANGED <<clock, tables, synced, answers>>

(* A restart that begins with an empty replay guard. *)
RestartForgetful ==
    /\ ~up
    /\ up' = TRUE
    /\ tables' = EmptyTables
    /\ UNCHANGED <<clock, journal, synced, pc, msg, cancelled, answers>>

(* run() opens the sink and the replay database it finds. *)
Restart ==
    /\ ~up
    /\ up' = TRUE
    /\ UNCHANGED <<clock, tables, journal, synced, pc, msg, cancelled, answers>>

-----------------------------------------------------------------------------
(* A handler's own steps. *)
Step(h) ==
    \/ Authenticate(h)
    \/ Record(h)
    \/ RecordFails(h)
    \/ Process(h)
    \/ CheckContext(h)
    \/ SyncFile(h)
    \/ SyncFails(h)

(* The step for which it must get the sink's mutex. *)
Write(h) == AppendLine(h) \/ AppendFails(h)

Next ==
    \/ \E h \in Handlers :
        \/ \E m \in Messages : Receive(h, m)
        \/ Step(h)
        \/ Write(h)
        \/ Cancel(h)
    \/ Tick
    \/ Crash
    \/ Restart

Spec == Init /\ [][Next]_vars

(* A runnable goroutine runs, and Go hands a contended mutex to a waiter.  *)
Fairness == \A h \in Handlers : WF_vars(Step(h)) /\ SF_vars(Write(h))

FairSpec == Spec /\ Fairness

-----------------------------------------------------------------------------
(* Type invariant of the ingest path. *)
TypeOK ==
    /\ up \in BOOLEAN
    /\ clock \in Nat
    /\ tables \in Tables
    /\ journal \in Seq(Lines)
    /\ synced \in 0 .. Len(journal)
    /\ pc \in [Handlers -> Labels]
    /\ msg \in [Handlers -> Messages \cup {NoMessage}]
    /\ \A h \in Handlers : pc[h] # "idle" => msg[h] \in Messages
    /\ cancelled \in [Handlers -> BOOLEAN]
    /\ answers \subseteq Messages \X Observed

(* However often, in whatever order and on however many handlers the       *)
(* network delivers them, no two stored lines of a device share a frame ID *)
(* or a sequence number, crashes and restarts included (auth.go:227,       *)
(* service.go:48-91).                                                      *)
AtMostOnce ==
    \A i, j \in DOMAIN journal :
        i # j /\ journal[i].device = journal[j].device =>
            /\ journal[i].frame # journal[j].frame
            /\ journal[i].sequence # journal[j].sequence

(* Storage never runs ahead of replay protection: the IDs of a stored line *)
(* are recorded in the replay tables, so the frame cannot be stored again  *)
(* (auth.go:227 before service.go:88).                                     *)
StoredIsRecorded ==
    \A i \in DOMAIN journal :
        SeenFrame(tables, journal[i]) /\ StaleSequence(tables, journal[i])

(* A client that was told "accept" finds its frame in the file for good:   *)
(* with fsync on, not even losing power takes it away                      *)
(* (storage.go:96-100, service.go:88-99).                                  *)
AcceptedIsStored ==
    Sync => \A m \in Messages :
        <<m, "accept">> \in answers =>
            m \in Storable /\ \E i \in DOMAIN journal :
                journal[i] = Line(Envelope[m])

(* What is stored is a frame whose very bytes a registered device signed   *)
(* under the line's IDs and delivered over the TLS client certificate it   *)
(* is bound to, from an allowed and not sensitive app, without the texts   *)
(* the redactor objects to (auth.go:200-226, 236-256, service.go:54-61,    *)
(* sanitize.go:111-120, 290-303).                                          *)
StoredIsAuthorised ==
    \A i \in DOMAIN journal :
        \E m \in Messages :
            LET e == Envelope[m]  raw == BoundFrame(e) IN
            /\ KnownDevice(e)
            /\ e.signature.key = Registry[e.device].key
            /\ e.signature.over = CanonicalBytes(e)
            /\ Registry[e.device].cert \in {"", Peer[m]}
            /\ Decodes(e)
            /\ \A id \in StringIDs \cup {"sequence"} : journal[i][id] = e[id]
            /\ journal[i].package = raw.package
            /\ Package(raw) \in AllowedPackages \ SensitivePackages
            /\ journal[i].hashes \cap (RegexPII \cup NEREntities) = {}

SameFrame(a, b) == a.device = b.device /\ a.frame = b.frame

(* A frame that was refused by the sanitizer, to whichever of its          *)
(* deliveries the refusal went, is never stored (service.go:69-87).        *)
RefusedIsNotStored ==
    \A m \in Messages :
        (<<m, "drop">> \in answers \/ <<m, "quarantine">> \in answers) =>
            \A i \in DOMAIN journal : ~SameFrame(journal[i], Envelope[m])

(* Every RPC whose message has come is answered unless the process goes    *)
(* down: no handler waits for ever on the sink's mutex (storage.go:85-86). *)
RequestsAnswered ==
    \A h \in Handlers : pc[h] # "idle" ~> pc[h] = "idle"

(* Sync "keeps storage durable relative to replay recording"               *)
(* (storage.go:30-31): once no handler is at work on it, a frame that the  *)
(* replay guard has recorded and that the sanitizer would accept is in the *)
(* file.                                                                   *)
StorageDurableRelativeToReplay ==
    \A m \in Storable :
        /\ SeenFrame(tables, Envelope[m])
        /\ \A h \in Handlers : pc[h] = "idle"
        => \E i \in DOMAIN journal : SameFrame(journal[i], Envelope[m])

=============================================================================
