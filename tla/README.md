# golem-harness: TLA+ models and proofs

golem-harness is a Go server (`golem-proxy`) that receives signed UI-telemetry
frames over gRPC, verifies them, refuses replays, sanitizes them and appends the
sanitized frames to a JSONL file. This directory models that program in TLA+, checks
it with TLC on small instances and proves its main safety properties with TLAPS
for every instance.

Paths below are relative to the repository; `auth.go` is
`server/internal/auth/auth.go`, and so on.

## 1. The system

| Component | State it keeps | Operations | Hard behaviour |
|---|---|---|---|
| SQLite replay guard (`replay_sqlite.go`) | tables `seen_frames`, `device_state`; a mutex; an open transaction | `CheckAndRecord`, `Close`, `NewSQLiteReplayGuard` | concurrent callers, a failing statement between insert and upsert, commit in doubt, process death, sequences of 2^63 and above |
| In-memory guard (`auth.go`) | a map per device, with a cap; a mutex | `CheckAndRecord`, `SetMaxSeenFramesForTest` | the cap, moved while frames are held |
| Verifier, device registry (`auth.go`) | none (constant registry) | `Verify`, `bindClientCert`, `NewStaticDeviceRegistry` | order of checks, freshness bounds, what is under the signature, several entries of one device |
| Signing, wire conversion (`pkg/signing`, `convert.go`) | none | `CanonicalBytes`, `SignEnvelope`, `EnvelopeToProto`, `EnvelopeFromProto`, decisions | nil and zero timestamps, empty optional fields, unknown decisions |
| Ingest service, gRPC adapter (`ingest`) | one handler per RPC | `IngestFrame` | duplicates, reordering, retries, cancellation, failures between recording a frame and storing it |
| Sanitizer (`sanitize.go`) | a redactor per call | `Process`, the walk of the UI tree, the report | precedence of lists, failures drop, paths of redacted fields |
| JSONL sink (`storage.go`) | active file, archives, cached size and day, a mutex | `WriteSanitizedFrame`, rotation, `Close` | partial writes, failing fsync, crash in the middle of a rotation, midnight, exhausted archive names |
| Configuration (`config.go`) | none | `Load`, `Validate`, `AuthDevices`, `SignatureTTL` | defaults, overflow of a duration, certificate policy |
| Process (`cmd/golem-proxy/main.go`) | servers, signal context, deferred calls | start, graceful stop, stop, exit | errors half way through the start, unbounded `GracefulStop`, `Close` while handlers run |
| Client library, mock client | a key file | build, sign, send two frames | sequences from the clock, overlapping runs, death while the key is written, one deadline for two calls |

Interaction: a gRPC handler calls `Verifier.Verify`, whose last act is the replay
guard's `CheckAndRecord`; then it decodes the payload, binds it to the envelope,
calls the sanitizer and, on "accept", the sink. Guard and sink are the only shared
state. Each has its own mutex and its own file; nothing makes the two updates
atomic. `run` opens the sink, then the guard, builds the rest from the configuration,
serves, and closes guard and sink in reverse order. What makes each part correct:

- guards: of two granted calls of a device the later has a new frame ID and a larger
  sequence, across restarts; a granted call stays recorded; every call returns; the
  in-memory guard at its cap refuses and forgets nothing;
- ingest: a frame is stored at most once; nothing is stored whose IDs are not
  recorded; "accept" means stored for good; a refused frame is never stored; what is
  stored was signed by a registered device and cleared by the sanitizer; every RPC whose
  message has come is answered;
- sanitizer: the walk decides by the texts alone, wherever they are in the tree, and
  its report names exactly what it took out;
- sink: an acknowledged line is in exactly one file, archives are final, files are
  bounded, writes return;
- process: every way of stopping and starting again keeps all of the above; guard and
  sink are closed under no client that still waits; a process whose server has failed
  ends, and one that is told to stop ends unless a client opens a stream and neither
  sends its message nor goes away (`GracefulStop` has no limit); what it serves has the
  limits and the certificate policy that were configured;
- mock client: a run that is alone hears what the documentation promises.

## 2. Modules

| Module | Models | Source |
|---|---|---|
| `ReplayTables` | the two tables, look-ups, insert, upsert (pure) | `replay_sqlite.go:86-127` |
| `ReplayGuard` | the abstract guard: one atomic step per call | `auth.go:86-88` |
| `SQLiteReplayGuard` | the guard statement by statement; implements `ReplayGuard` | `replay_sqlite.go` |
| `MemoryReplayGuard` | the guard in memory, with its cap; implements `ReplayGuard` | `auth.go:90-148` |
| `Signing`, `Verifier` | pure operators: canonical bytes, signature, the checks of `Verify` | `signing.go`, `auth.go:158-256` |
| `Wire` | domain types to messages and back (pure) | `proto.go`, `convert.go`, `client.go` |
| `Sanitize` | the sanitizer as a property of the set of a frame's texts (pure) | `sanitize.go` |
| `Pipeline` | `Process` with the recursive walk, the redactor and the report | `sanitize.go:100-356` |
| `Ingest` | handlers, guard (atomic), journal file, crashes | `service.go`, `grpc_server.go` |
| `FrameStore` | the abstract sink: stored, durable, acknowledged frames | `storage.go:19-21` |
| `JSONLSink` | the sink, one action per system call; implements `FrameStore` | `storage.go` |
| `Config` | the types of a file, defaults, validation, registry, durations, TLS policy (pure) | `config.go:16-166`, `auth.go:50-84`, `main.go:148-171` |
| `Startup` | `run` up to its servers, every error return, deferred calls; uses `Config` | `main.go:28-132`, `config.go:16-69` |
| `Proxy` | the process around `Ingest`; implements it | `main.go:28-130` |
| `MockClient` | runs of the mock client against a proxy; uses `Wire`, `Verifier`, `ReplayTables`, `Sanitize` | `mock-client/main.go`, `client.go` |
| `MC*` | instances for TLC | |
| `ReplayTablesProofs`, `ReplayGuardProofs`, `SQLiteReplayGuardProofs`, `MemoryReplayGuardProofs`, `IngestProofs` (with `Proxy`), `JSONLSinkProofs`, `StartupProofs`, `MockClientProofs` | proofs | |

Operators whose comment tells of a deviation (`GracefulStopInBackground`,
`OpenTruncates`, ...) are slips somebody might make in that code. No specification uses
them; each is put in place of the definition that follows it to see that the property it
is listed with in `PROJECT.json` notices.

### State and actions

**SQLiteReplayGuard.** `db` is the committed database, `tx` the transaction's view,
`mu` the mutex, `handle` the `*sql.DB` (open, closed, or gone with the process). The
program counter of a caller names the next statement of `CheckAndRecord`. `Return`
is what the two deferred calls do: rollback and unlock. `StatementFails` is an error
of any statement, `CommitInDoubt` an error of a commit that took effect, `Crash` the
death of the process (a commit under way may or may not have reached the disk).
SQLite is external: transactions are atomic and durable at commit (WAL,
`synchronous=FULL`), and an argument of 2^63 or more is refused by `database/sql`.

**MemoryReplayGuard.** `devices` maps the devices called for so far to their largest
sequence and frame IDs. `Lock`, `Check` and `Record` are separate steps, so that the
mutex matters. The refinement mapping turns a missing entry into an empty one and
`ErrReplayStateFull` into the abstract guard's "error".

**Verifier** is a table of checks in the order of `Verify`; the first that fails gives
the error. Cryptography is ideal, and the canonical bytes are taken to be injective
(they are for IDs without line breaks; the code does not escape them).

**Sanitize and Pipeline.** `Sanitize` keeps of a UI tree the set of its texts; the
patterns, the entity recogniser and the screenshot planner are parameters. `Pipeline`
has the tree: `Node` is the recursion with the redactor handed through it, stopping at
the first error, and paths are the digits `strconvI` writes. `Call` and `Return` are a
call of `Process`; nothing is kept between calls. `Ingest` uses `Sanitize`; the
`sanitizer` run justifies that.

**Ingest.** A message is an RPC as delivered; any message may be delivered any number
of times, to any idle handler. A handler goes through `verify`, `record`, `process`,
`store` (the context check of the sink), `append`, `sync`. `journal` is the file,
`synced` its durable prefix. `Crash` keeps any prefix of the file that contains the
durable one, and the replay tables. The guard is the atomic step that
`SQLiteReplayGuard` is shown to implement; the sink's rotation and partial writes are
left to `JSONLSink`. `answers` remembers the answers named by `Observed`. Not
reachable, and left out: unset dependencies (`FailedPrecondition`), a nil envelope
(answered like a missing timestamp), frames that fail the sink's
`validateSanitizedFrame`; gRPC's own message-size limit is outside the model.

**FrameStore and JSONLSink.** The abstract store knows which frames are stored and
which are durable; a write ends in an acknowledgement or an error, and only a crash
takes away what is not durable. In `JSONLSink` a file is a sequence of chunks, one per
`write`: a whole line or the fragment a failed write leaves. `handle` is the cached
`file`, `size`, `day`. `EnsureWriter`, `CloseFile`, `Move`, `StatPath`, `OpenFile`,
`WriteLine`, `WriteFails`, `SyncFile` are the calls of one write in order; `Crash` may
fall between any two, and inside a write. `Move` has the search for a free name and the
rename in one step, since under the mutex nobody else touches these names. `PowerCut`
takes any suffix of the active file that was not fsynced, from the middle of a line or
between two. A frame is stored for the abstract store when
some file has its whole line. The file system is external: appends, atomic
renames, fsync makes the whole file durable, created, renamed and closed files are
durable. `born` is the `sanitized_at` of a frame.

**Config and Startup.** `Completed` is what `Validate` fills in, `Valid` its checks.
Durations are computed modulo the width of int64, scaled down. `Startup` takes any
configuration of a set through `Load`, `Register`, `OpenSink`, `OpenGuard`, `Build`,
`Serve`; each may fail except `Register`, whose errors `Load` has found, and `Close` runs
the deferred calls, last one first.

**Proxy** adds to `Ingest` where `run` is (`phase`), the gRPC server (`grpc`), the RPCs
whose message has not come yet (`streams`), a server error waiting in `errCh` and the
signal. An RPC begins with `OpenStream`; its message calls the handler (`Accept`), or the
stream ends without one (`Abandon`), or neither ever happens. `GracefulStop` refuses new
RPCs and waits for all others, open streams included, without limit; `Stop` closes the
connections and does not wait for handlers, which may find the guard closed
(`CheckAndRecord` fails) or the sink closed (it opens its file again). `Exit` ends
what still runs, `Die` is a kill at any time, `Start` a new process on the same files.
grpc-go is external, as described in the module.

**MockClient.** Each run of the program loads or creates the key file (empty between
`os.WriteFile`'s open and its write), takes its sequence numbers from the clock, sends
the allowed frame, waits, sends the sensitive one, and gives up at one deadline. Runs
may overlap and die; requests and answers may be delayed or never come. The proxy is
one step, made of the same `Verifier`, `ReplayTables` and `Sanitize` operators and the
`Wire` conversions, with a healthy guard and sink. Assumptions: the clock is not set
back, a process start and an RPC each take at least one unit of time (a nanosecond in
the code), and the deadline (5 s) is within the signature's lifetime. A crash that
leaves the key file empty makes every later run fail; the model has that, and no
property claims otherwise.

## 3. Runs

Every run takes under three minutes.

| Run | Bounds | Shows |
|---|---|---|
| `sqlite_guard` | 3 callers, 1 device, 2 frame IDs, sequences 1..3, 3 standing for 2^63 | `TypeOK`, `GrantsIncrease`, `GrantsRemembered`, `ImplementsReplayGuard`, `CallsReturn` |
| `memory_guard` | 2 callers, 2 devices, 2 frame IDs, sequences 1..2, cap 1, moved to the default and to 2 | `TypeOK`, `ImplementsReplayGuard`, `SeenFramesCapped`, `CallsReturn` |
| `ingest_delivery` | 2 handlers, 6 messages of 2 devices, all faults | `AtMostOnce`, `StoredIsRecorded`, `AcceptedIsStored` |
| `ingest_unwanted` | 2 handlers, 27 messages: one per check of `Verify`, and frames refused at every later stage; clock 2..3; failing guard and crashes | `TypeOK`, `RefusedIsNotStored`, `StoredIsAuthorised` |
| `proxy` | 2 handlers, 2 messages, streams whose message comes late or never, failing guard, cancellation, crashes | `NoLiveRPCWhileClosing`, `ImplementsIngest`, `ShutdownCompletes`, `RequestsAnswered` |
| `startup` | all device lists of up to 2 of 7 entries with all TLS settings; numbers around their limits; empty and blank strings | `CertBoundDevicesNeedCerts`, `LimitsInForce`, `RegistryIsConfigured`, `NothingLeftOpen` |
| `sanitizer` | trees of up to three levels over six kinds of text, rows of twelve nodes | `WalkDecides`, `DroppedFieldsAreThePlaces`, `RulesExplainTheTree` |
| `mock_client` | 2 runs, deadline and lifetime 3, clock up to 8 | `RunAloneIsServed`, `PrintedKeyIsKept`, `SensitiveComesSecond`, `RunsEnd` |
| `sink_faults` | 2 writers, 4 lines, limit 3 bytes, 2 archive names, all faults | `TypeOK`, `AckedIsStoredOnce`, `ImplementsFrameStore`, `ArchivesAreFinal`, `WritesReturn` |
| `sink_rotation` | 2 writers, 3 lines, limit 4 bytes, 3 days, all faults but torn writes and a failing fstat | `AckedIsStoredOnce`, `FilesAreBounded`, `NoFrameAfterItsArchive`, `ImplementsFrameStore` |
| `ingest_durable`, `sink_glue` | minimal | two disagreements between documentation and code, see below |

Why the bounds are enough: the guards' interference is per device; two frames and two or
three sequences give a replay by ID, by sequence and a fresh call, three callers one
that holds the mutex, one that waits and one that comes later. In `Ingest` two handlers
are enough for every race, because the guard and the sink serialise them; the messages
include a frame ID used again under a new sequence, a sequence used again under a new
frame ID, and a frame sent under a sequence that is not its own. `proxy` asks about
stopping and starting, for which two good messages do; the clock stands still there,
since `ingest_unwanted` moves it. In `startup` int64 has four bits, so that a number of
seconds overflows to a negative and to a short positive duration. Rows of twelve nodes
make indexes of two digits. In `sink_faults`, lines of 2 and 3 bytes against a limit of
3 fill a file each, and with two archive names the rotations use up the names; in
`sink_rotation`, lines of 2 and 5 bytes against a limit of 4 fit exactly, do not fit, or
exceed the limit by themselves. In `mock_client` the second run may start before, during
and after the first and after late requests of it. `MaxClock`, the finite record and
message sets and `ArchiveTries` (100 in the code) are the only bounds on the state.

Fairness: `WF` of a goroutine's own steps (a runnable goroutine runs; system calls
return, with an error or not), `SF` of taking a mutex (a Go mutex with a waiter of more
than 1 ms is handed to the waiter), the deferred `Close` of the sink included. In
`MockClient`, `WF` of time and of a run's own steps; the proxy need not answer. Opening
streams, sending messages, signals, failures, cancelling, crashing and restarting are
not fair, nor is time elsewhere. Since nothing makes a client send its message,
`ShutdownCompletes` says what happens after a signal under the assumption, stated in the
property, that each open stream gets its message or is closed; without it TLC finds the
process that waits for ever. After the failure of a server the property needs no such
assumption, because `Stop` closes the connections. Deadlock is checked except in
`startup` and `mock_client`, where the processes end.

### What the violations show

- `ingest_durable`: the guard records a frame before it is stored, so a crash between
  the two (or a cancelled context, or a full disk) loses the frame: a retry is refused
  as a replay. Storage is at-most-once, not exactly-once, although `storage.go:30-31`
  says fsync keeps "storage durable relative to replay recording".
- `sink_glue`: after a write that failed half way the next accepted frame continues
  the fragment's line (`storage.go:91`); `README.md:84` expects a line.

More limits of the code follow from the model and bound what the passing runs say.
The bytes of a write that failed half way are not counted (`storage.go:92-95`), so
`FilesAreBounded` is checked without torn writes, and without a failing `fstat`, which
counts as an empty file (`storage.go:173-176`). A frame sanitized before midnight
and written after it goes to the next day's archive (`storage.go:134-135` speaks of the
day of the frames), so only the weaker `NoFrameAfterItsArchive` holds. A client that opens
a stream and stays silent keeps a process alive that was told to stop (`main.go:121`, no
keepalive or age limit in `ingest/grpc.go`). And two overlapping first runs of the mock
client overwrite each other's key, so `PrintedKeyIsKept` speaks of runs that met no other.

## 4. Proofs

All constants are arbitrary, under the named assumptions of the modules
(`Int64Limit` positive, sequences below twice that, `NoRequest`, `Free`, `NoMessage`
distinct from real values, IDs of an envelope are devices and frames or empty; for
`Proxy`, that a guard, a context and a process may fail; for the sink, that lines have
at least one byte and that a day has a length; for `Startup`, that the default lifetime
does not overflow, the default payload size is at least the minimum, and that every
configuration is of the types of the struct, `ConfigFiles`; for `MockClient`, that the
deadline of 5 s is positive and within the lifetime of an envelope, that random names of
runs are none of the special values, and that the proxy has the packages of
`dev-config.example.json`, `DevConfigAssumption`). TLC evaluates all of them
on its instances, and has checked every inductive invariant on an instance of the
component's runs before it was proved.

- `ReplayTablesProofs`: what recording a call changes and keeps; a call that is not a
  replay clashes with nothing recorded (`FreshDoesNotClash`). Stated for any record
  that has the three IDs, so that requests, envelopes and lines share the lemmas.
- `ReplayGuardProofs`: `GuardCorrect`, the atomic guard keeps its promises.
- `SQLiteReplayGuardProofs`: `GrantsIncrease` is not inductive, because a caller about
  to commit was checked some steps ago. The inductive invariant `IInv` adds that the
  mutex is held exactly from lock to return, and what `tx` is at each point in terms
  of `db` (`TransactionInv`): at the commit, `tx = Remember(db, request)` and the
  request is still no replay of `db`. It gives `TypeCorrect`, `Refinement`
  (`Spec => ImplementsReplayGuard`, every step a step of the atomic guard or a
  stutter), `GrantsAlwaysIncrease` and `GrantsStayRemembered`.
- `IngestProofs`: `AtMostOnce` needs to know about lines that are still to come.
  `IInv` adds that a handler past the guard has its IDs recorded, that no two handlers
  before their write clash (`PendingInv`), none clashes with a stored line
  (`UnstoredInv`), that stored lines are recorded, and that acknowledged lines are in
  the durable prefix (`DurableInv`). `LineIDs` uses the binding of payload to envelope;
  `VerifiedHasIDs` the first check of `Verify`. It gives `TypeCorrect`,
  `StoredAtMostOnce`, `StoredStaysRecorded` and `AcceptedStaysStored`. What a step does
  to file, tables and answers is then stated once (`NextHasEffect`), and two more
  invariants rest on it: `AuthorisedInv`, handlers past the verifier carry authorised
  messages and every line comes from such a message that the sanitizer clears, gives
  `StoredStaysAuthorised`; `RefusedInv`, the frame ID of a refused message is recorded,
  no handler that may still write has it and no line has it, gives
  `RefusedStaysUnstored`. The latter is not inductive without the middle part, which
  in turn needs `PendingInv`: of two deliveries only one got past the guard.
- `IngestProofs`, last part: each step of the process is a step of `Ingest` or leaves its state
  alone (`StepImplementsNext`): stopping is cancelling, exit and death are crashes that
  keep at least the durable lines, a start is a restart. So `ProxyImplementsIngest`,
  and with it `ProxyStoresAtMostOnce`, `ProxyKeepsAccepted`, `ProxyStoresAuthorised` and
  `ProxyKeepsRefusedOut` from the theorems on `Ingest`. `ClosingMeetsNoLiveRPC` is about
  the order of the shutdown: who closes the guard after `GracefulStop` does not look at
  the RPCs, so `LifeInv` adds what each phase knows of the server and that nothing is
  left, nor begins, of a drained one; after `Stop`, that a cancelled handler stays
  cancelled until it is done.
- `MemoryReplayGuardProofs`: a call is checked in one step and recorded in a later one.
  `MemoryInv` says that what the check found out still holds when the caller records
  (`CheckedInv`), which the mutex alone guarantees, and that tables are finite, so that
  their cardinality means something. It gives `MemoryTypeCorrect`,
  `SeenFramesStayCapped` (also when the limit is lowered below what is held) and
  `MemoryRefinement`: with the devices' states read as tables (`RecordedTables`), the
  guard in memory implements the same `ReplayGuard` as the one on SQLite.
  `MemoryGrantsIncrease` is what that comes to for the history of granted calls.
- `JSONLSinkProofs`: `SinkInv` ties the mutex, the handle and the stamp to the place
  where the holder is; with it `SinkTypeCorrect`, and `ArchivesStayFinal` because the
  rename goes to a free name. `PlaceInv` says that all chunks in all files are of
  different records, that a frame on its way has none before its write and a whole
  line before its fsync. The steps are classified once by what they do to the files
  (`Effect`; `CutFile` for a crash, which may tear the last chunk that was not fsynced),
  and on that rest
  - `SinkImplementsFrameStore`: a step adds or loses what the abstract store may add or
    lose; a rename stores nothing new, a crash keeps what is durable;
  - `AckedStaysStoredOnce`, which assumes what the code promises durability under:
    `Sync`, or no loss of power among the faults;
  - `FilesStayBounded`, with `BoundInv`: an open handle's `size` is that of the file,
    and whoever is about to write has room. It assumes that no write is torn and that
    `fstat` works; with them the property is false, see section 3;
  - `NoFrameIsAfterItsArchive`, with `DayInv`: the day of the handle, of the stamp and of
    the modification time is not before that of any frame in the file.
- `StartupProofs`: `StackInv`, what is open is what has a deferred `Close`, gives
  `NothingStaysOpen`. `BuildInv`, from `Load` on the configuration is a completed and
  valid one and the server is built from it, gives `CertBoundDevicesAreAsked`,
  `LimitsAreInForce` (`WrapBounds`: a product that wraps around is below what it should
  be or not positive, in which case the verifier takes its default) and
  `RegistryStaysConfigured` (`RegistryEntry`: an entry of the registry is the last one
  of its device) for every configuration file, where TLC tries some hundred.
- `MockClientProofs`: none of the three properties is inductive, and `MockInv` is what
  they rest on together. What the proxy does with a request is worked out first, from
  the definitions of `Signing`, `Wire`, `Verifier` and `Sanitize`: the envelope that
  arrives is the one that was built (`ArrivedEnvelope`), the bytes under its signature
  are those it is checked against (`SignatureSurvives`), all fifteen checks of `Verify`
  pass for the registered key while the envelope lives (`FreshIsVerified`), and the
  sanitizer accepts one frame and quarantines the other (`FrameDecision`). So an error
  has one of four causes (`ServeEffect`): another key, an expired envelope, a frame seen
  before, or a sequence number that is not above the latest. `MockInv` then says
  - who met whom (`AloneInv`), and that nobody is about to write the key file once a run
    alone has its key (`KeyInv`), which gives `PrintedKeysAreKept`;
  - what is on the wire, recorded and answered: every request once, in one of these
    places, and the second only after the first (`NetInv`, `ServedInv`), and only after
    the allowed frame was stored (`OrderInv`), which gives `SensitiveStaysSecond`;
  - that the numbers of a run alone are above all others in use (`SequenceInv`), because
    those are no later than the clock when it began and it reads its base later; that
    therefore no answer within its deadline is an error (`AnswerInv`, which is where
    `Deadline <= TTL` is used); and what it has heard (`HeardInv`), which gives
    `RunsAloneAreServed`.

Only model-checked: liveness (`CallsReturn`, `RequestsAnswered`, `WritesReturn`,
`ShutdownCompletes`, `RunsEnd`), which needs fairness and `ENABLED`, out of the prover's
reach; and `WalkDecides`, `DroppedFieldsAreThePlaces` and `RulesExplainTheTree` of
`Pipeline`, whose recursion over trees would need induction over data. Every other
property of a passing run is a theorem.

## 5. Not modelled, and the plan

Not modelled: the bodies of the health endpoints (constant), TLS handshakes, logging
with `safeReason` and request IDs, the regular expressions and the recogniser's rules,
the JSON syntax of configuration and payload, test utilities, gRPC's message-size
options, and the generated protobuf code beyond the decision enum, the message fields
and the stubs of the one RPC. An envelope is checked for freshness before it waits for
guard and sink, so it may be stored later than its lifetime allows; nothing in the
repository bounds that time, and no property does. SQLite, the file system, the Go
scheduler and gRPC are external and modelled by how the code uses them. Of the file
system it is assumed that a rename is atomic, and that a loss of power takes only bytes of
the active file that were not fsynced: created, renamed and closed files are taken to be
durable, although the code does not fsync the directory.

What could come next:

1. The mock client against the handlers of `Ingest` instead of the proxy in one step, so
   that its promises are also checked with a guard or a sink that fails.
2. The guards' theorems derived from `GuardCorrect` through their refinements, instead of
   from the invariant of each guard.
