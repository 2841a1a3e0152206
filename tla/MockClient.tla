----------------------------- MODULE MockClient -----------------------------
(***************************************************************************)
(* The mock client (mock-client/main.go) over the client library           *)
(* (server/pkg/client), the wire conversions and a proxy.  Each run of the *)
(* program is a process of its own: it loads or creates the device key,    *)
(* sends one frame of an allowed package and, after the answer, one of a   *)
(* sensitive package, with sequence numbers taken from the clock, and      *)
(* gives up at one deadline for both.  Runs may overlap, die at any step   *)
(* and leave requests behind that the proxy serves later or never.         *)
(*                                                                         *)
(* The proxy here is the whole handler in one step, with a healthy guard   *)
(* and sink; Ingest takes it apart.  The operator copies the public key    *)
(* that a run printed into the proxy's configuration and starts it.  Time  *)
(* is counted in units that a process start, and an RPC, do not undercut   *)
(* (the code's unit is a nanosecond), on one clock that never goes back.   *)
(***************************************************************************)
EXTENDS Wire, ReplayTables, Sanitize

CONSTANTS
    Runs,              \* the runs of the program
    NoKey,             \* no key
    TTL, ClockSkew,    \* of the proxy's verifier
    Deadline,          \* the 5 s of context.WithTimeout
    MaxClock           \* bound: the last instant

DeviceID == "mock-device"
PublicKeyID == "mock-key"
Kinds == {"allowed", "sensitive"}

(* The names of the runs are random and none of the special values.        *)
ASSUME MockClientAssumption ==
    /\ Deadline \in Nat \ {0} /\ TTL \in Nat /\ ClockSkew \in Nat
    /\ Deadline <= TTL
    /\ Runs \cap {NoKey, "absent", "empty", ""} = {}
    /\ DeviceID \in Devices /\ Runs \X Kinds \subseteq Frames /\ "" \notin Frames

(* The proxy runs with the packages of dev-config.example.json, and its    *)
(* recogniser and planner do not fail on the synthetic frames.             *)
ASSUME DevConfigAssumption ==
    /\ "" \notin AllowedPackages \cup SensitivePackages
    /\ TrimSpace["com.android.settings"] \in AllowedPackages \ SensitivePackages
    /\ TrimSpace["com.example.bank"] \in SensitivePackages
    /\ NERErrors \cap {"Settings", "Open Wi-Fi"} = {} /\ "" \notin VisionErrors

VARIABLES
    clock,
    keyFile,       \* "absent", "empty" or a key; run r generates the key r
    phase,         \* where run r is
    key,           \* the key of run r, once it has printed it
    began,         \* when run r, or its current call, began
    base,          \* seqBase of run r, 0 before it is read
    expires,       \* when the context of run r expires
    heard,         \* the answers run r has heard, in order
    met,           \* history: runs that overlapped with another
    net,           \* requests on their way to the proxy
    replies,       \* answers on their way back
    registered,    \* the key in the proxy's registry; NoKey: not running
    tables,        \* the replay guard's tables
    stored         \* the frames in the sink

client == <<phase, key, began, base, expires, heard>>
proxy == <<tables, stored, registered>>
vars == <<clock, keyFile, client, met, net, replies, proxy>>

Live == {r \in Runs : phase[r] \notin {"idle", "done", "failed", "dead"}}

-----------------------------------------------------------------------------
(* syntheticFrame; the frame ID of run r ends in "-allowed" or "-sensitive". *)
SyntheticFrame(r, kind, sequence) ==
    [protocol |-> "golem.v1", device |-> DeviceID, trajectory |-> r,
     frame |-> <<r, kind>>, sequence |-> sequence,
     package |-> IF kind = "allowed" THEN "com.android.settings"
                 ELSE "com.example.bank",
     texts |-> {"Settings", "Open Wi-Fi"}, screenshot |-> ""]

(* BuildSignedEnvelopeWithKey: the payload is the frame. *)
BuildSignedEnvelopeWithKey(k, now, frame) ==
    SignEnvelope(k,
        [protocol |-> frame.protocol, device |-> frame.device,
         trajectory |-> frame.trajectory, frame |-> frame.frame,
         sequence |-> frame.sequence, signedAt |-> now, payload |-> frame,
         hash |-> {}, alg |-> SignatureAlgEd25519, keyID |-> PublicKeyID,
         cert |-> "", signature |-> NoSignature])

(* client.IngestFrame: the request of run r goes out.  In the model it     *)
(* carries what the message is made from, ...                              *)
IngestFrame(r, kind, sequence) ==
    net' = net \cup {[run |-> r, kind |-> kind, sequence |-> sequence,
                      key |-> key[r], signedAt |-> clock]}

(* ... and this is the message. *)
Message(req) ==
    EnvelopeToProto(BuildSignedEnvelopeWithKey(req.key, req.signedAt,
        SyntheticFrame(req.run, req.kind, req.sequence)))

-----------------------------------------------------------------------------
Init ==
    /\ clock = 1
    /\ keyFile = "absent"
    /\ phase = [r \in Runs |-> "idle"]
    /\ key = [r \in Runs |-> NoKey]
    /\ began = [r \in Runs |-> 0]
    /\ base = [r \in Runs |-> 0]
    /\ expires = [r \in Runs |-> 0]
    /\ heard = [r \in Runs |-> <<>>]
    /\ met = {}
    /\ net = {}
    /\ replies = {}
    /\ registered = NoKey
    /\ tables = EmptyTables
    /\ stored = {}

Goto(r, p) ==
    /\ phase' = [phase EXCEPT ![r] = p]
    /\ UNCHANGED began

Enter(r, p) ==
    /\ phase' = [phase EXCEPT ![r] = p]
    /\ began' = [began EXCEPT ![r] = clock]

(* main *)
Start(r) ==
    /\ phase[r] = "idle"
    /\ clock + 1 + Deadline <= MaxClock
    /\ Enter(r, "load")
    /\ met' = IF Live = {} THEN met ELSE met \cup Live \cup {r}
    /\ UNCHANGED <<clock, keyFile, key, base, expires, heard, net, replies,
                   proxy>>

(* The file is not looked at: every run creates a key. *)
CreateAlways(r) ==
    /\ phase[r] = "load"
    /\ Goto(r, "generate")
    /\ UNCHANGED <<clock, keyFile, key, base, expires, heard, met, net, replies,
                   proxy>>

(* loadOrCreateKeypair reads the file; a key in it is used, anything else  *)
(* of the wrong length is an error.                                        *)
ReadKey(r) ==
    /\ phase[r] = "load"
    /\ \/ /\ keyFile = "absent"
          /\ Goto(r, "generate")
          /\ UNCHANGED key
       \/ /\ keyFile = "empty"
          /\ Goto(r, "failed")
          /\ UNCHANGED key
       \/ /\ keyFile \in Runs
          /\ Goto(r, "ready")
          /\ key' = [key EXCEPT ![r] = keyFile]
    /\ UNCHANGED <<clock, keyFile, base, expires, heard, met, net, replies,
                   proxy>>

(* ed25519.GenerateKey, and os.WriteFile opens the file: it is empty now. *)
CreateKeyFile(r) ==
    /\ phase[r] = "generate"
    /\ keyFile' = "empty"
    /\ Goto(r, "write")
    /\ UNCHANGED <<clock, key, base, expires, heard, met, net, replies, proxy>>

(* os.WriteFile writes the key; run prints the public half. *)
WriteKey(r) ==
    /\ phase[r] = "write"
    /\ keyFile' = r
    /\ key' = [key EXCEPT ![r] = r]
    /\ Goto(r, "ready")
    /\ UNCHANGED <<clock, base, expires, heard, met, net, replies, proxy>>

(* The sequence numbers of every run begin at one. *)
SeqBaseOne(r) == 1

(* uint64(time.Now().UnixNano()) *)
SeqBase(r) == clock

(* Both frames are sent before the first is answered. *)
SendBoth(r) ==
    /\ phase[r] = "ready"
    /\ clock > began[r]
    /\ base' = [base EXCEPT ![r] = SeqBase(r)]
    /\ expires' = [expires EXCEPT ![r] = clock + Deadline]
    /\ net' = net \cup {[run |-> r, kind |-> kind, key |-> key[r], signedAt |-> clock,
                         sequence |-> SeqBase(r) + IF kind = "allowed" THEN 0 ELSE 1] :
                        kind \in Kinds}
    /\ Enter(r, "allowed")
    /\ UNCHANGED <<clock, keyFile, key, heard, met, replies, proxy>>

(* run, from the context to the first request. *)
SendAllowed(r) ==
    /\ phase[r] = "ready"
    /\ clock > began[r]
    /\ base' = [base EXCEPT ![r] = SeqBase(r)]
    /\ expires' = [expires EXCEPT ![r] = clock + Deadline]
    /\ IngestFrame(r, "allowed", SeqBase(r))
    /\ Enter(r, "allowed")
    /\ UNCHANGED <<clock, keyFile, key, heard, met, replies, proxy>>

(* The call returns with the proxy's answer; the decision is printed. *)
Hear(r, reply) ==
    /\ reply \in replies
    /\ reply.run = r /\ reply.kind = phase[r]
    /\ clock > began[r] /\ clock <= expires[r]
    /\ replies' = replies \ {reply}
    /\ heard' = [heard EXCEPT ![r] =
                    Append(@, IF reply.status = "OK"
                              THEN ResponseFromProto(reply.response).decision
                              ELSE reply.status)]

(* After the answer to the first frame, whatever the decision, the second. *)
SendSensitive(r) ==
    /\ phase[r] = "allowed"
    /\ \E reply \in replies :
          /\ Hear(r, reply)
          /\ \/ /\ reply.status = "OK"
                /\ IngestFrame(r, "sensitive", base[r] + 1)
                /\ Enter(r, "sensitive")
             \/ /\ reply.status # "OK"
                /\ Goto(r, "failed")
                /\ UNCHANGED net
    /\ UNCHANGED <<clock, keyFile, key, base, expires, met, proxy>>

Finish(r) ==
    /\ phase[r] = "sensitive"
    /\ \E reply \in replies :
          /\ Hear(r, reply)
          /\ Goto(r, IF reply.status = "OK" THEN "done" ELSE "failed")
    /\ UNCHANGED <<clock, keyFile, key, base, expires, met, net, proxy>>

Waiting(r) == phase[r] \in Kinds

(* The second call has a deadline of its own, which nobody cancels. *)
FirstDeadlineOnly(r) ==
    /\ phase[r] = "allowed" /\ clock >= expires[r]
    /\ Goto(r, "failed")
    /\ UNCHANGED <<clock, keyFile, key, base, expires, heard, met, net, replies,
                   proxy>>

(* DeadlineExceeded: the context that both calls share has expired. *)
DeadlineExceeded(r) ==
    /\ Waiting(r) /\ clock >= expires[r]
    /\ Goto(r, "failed")
    /\ UNCHANGED <<clock, keyFile, key, base, expires, heard, met, net, replies,
                   proxy>>

(* The connection fails under a call, or the process is killed; a request  *)
(* it has sent may still arrive.                                           *)
Die(r) ==
    /\ r \in Live
    /\ Goto(r, "dead")
    /\ UNCHANGED <<clock, keyFile, key, base, expires, heard, met, net, replies,
                   proxy>>

-----------------------------------------------------------------------------
(* The operator registers the key that run r has printed, once. *)
Configure(r) ==
    /\ registered = NoKey
    /\ key[r] # NoKey
    /\ registered' = key[r]
    /\ UNCHANGED <<clock, keyFile, client, met, net, replies, tables, stored>>

(* The proxy's verifier, with the registered key for the one device. *)
V == INSTANCE Verifier WITH
        Registry <- [d \in {DeviceID} |->
                        [key |-> registered, keyID |-> PublicKeyID, cert |-> ""]],
        PayloadSize <- [p \in {Message(req).canonical_payload : req \in net} |-> 1],
        MaxPayloadBytes <- 0

OK(decision) == [status |-> "OK", response |-> ResponseToProto([decision |-> decision])]
Error(status) == [status |-> status, response |-> ResponseToProto([decision |-> ""])]

(* The answer of the proxy to the envelope e. *)
Answer(e) ==
    CASE ~V!Verified(e, "", clock) ->
            Error(V!MapAuthError(V!VerifyError(e, "", clock)))
      [] V!Verified(e, "", clock) /\ Replayed(tables, e) ->
            Error(V!MapAuthError("ErrReplay"))
      [] OTHER -> OK(Decision(e.payload))

(* The RPC at the proxy: GRPCServer.IngestFrame with all it calls. *)
Serve ==
    /\ registered # NoKey
    /\ \E req \in net :
          LET e == EnvelopeFromProto(Message(req))
              answer == IF EnvelopeRefused(Message(req))
                        THEN Error("InvalidArgument") ELSE Answer(e)
          IN  /\ net' = net \ {req}
              /\ replies' = replies \cup
                    {[run |-> req.run, kind |-> req.kind, status |-> answer.status,
                      response |-> answer.response]}
              /\ tables' = IF answer.status = "OK" THEN Remember(tables, e) ELSE tables
              /\ stored' = IF answer = OK("accept") THEN stored \cup {e.frame} ELSE stored
    /\ UNCHANGED <<clock, keyFile, client, met, registered>>

(* The bound on the clock leaves every run the time until its deadline.   *)
Tick ==
    /\ clock < MaxClock
    /\ \A r \in Live : ~Waiting(r) => clock + 1 + Deadline <= MaxClock
    /\ clock' = clock + 1
    /\ UNCHANGED <<keyFile, client, met, net, replies, proxy>>

(* What a run does by itself. *)
Step(r) ==
    \/ ReadKey(r) \/ CreateKeyFile(r) \/ WriteKey(r)
    \/ SendAllowed(r) \/ SendSensitive(r) \/ Finish(r)
    \/ DeadlineExceeded(r)

Next ==
    \/ \E r \in Runs : Start(r) \/ Step(r) \/ Die(r) \/ Configure(r)
    \/ Serve
    \/ Tick

Spec == Init /\ [][Next]_vars

(* A process goes on as long as it can, and time passes.  The proxy need   *)
(* not answer, and no process need be started.                             *)
FairSpec == Spec /\ WF_vars(Tick) /\ \A r \in Runs : WF_vars(Step(r))

-----------------------------------------------------------------------------
(* A run that overlaps with no other and uses the key the operator         *)
(* registered hears what the documentation promises, accept for the first  *)
(* frame and quarantine for the second, or nothing: whatever earlier runs  *)
(* did, wherever they died and whichever of their requests arrive late,    *)
(* its sequence numbers are not taken for a replay, its envelopes are      *)
(* fresh, and signature and decision survive the wire.                     *)
RunAloneIsServed ==
    \A r \in Runs \ met :
        key[r] = registered =>
            heard[r] \in {<<>>, <<"accept">>, <<"accept", "quarantine">>}

(* The key that a run has loaded or created, no other run being there      *)
(* meanwhile, stays in the key file for good: the public key it printed    *)
(* is the one later runs sign with.                                        *)
PrintedKeyIsKept ==
    \A r \in Runs \ met :
        key[r] # NoKey => keyFile = key[r]

(* The proxy sees a run's sensitive frame only after it has accepted and   *)
(* stored the run's allowed one, and never stores the sensitive frame:     *)
(* the run waits for the first answer before it sends the second frame.    *)
SensitiveComesSecond ==
    \A r \in Runs :
        <<DeviceID, <<r, "sensitive">>>> \in tables.seen =>
            /\ <<r, "allowed">> \in stored
            /\ <<r, "sensitive">> \notin stored

(* Every run that is started ends, answered or not. *)
RunsEnd == \A r \in Runs : (r \in Live) ~> (r \notin Live)

=============================================================================
