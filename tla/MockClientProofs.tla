--------------------------- MODULE MockClientProofs ---------------------------
(***************************************************************************)
(* Proofs about the mock client, for any number of runs, any instants and  *)
(* any deadline within the lifetime of an envelope.                        *)
(***************************************************************************)
EXTENDS MockClient, ReplayTablesProofs

(* Where a run is before its first request. *)
Early == {"idle", "load", "generate", "write", "ready"}
Phases == Early \cup Kinds \cup {"done", "failed", "dead"}

Statuses == {"OK", "InvalidArgument", "Unauthenticated", "AlreadyExists",
             "ResourceExhausted"}

(* What goes over the wire. *)
Sent == [run : Runs, kind : Kinds, sequence : Nat, key : Runs, signedAt : Nat]
Replies == [run : Runs, kind : Kinds, status : Statuses,
            response : [decision : 0 .. 3]]

ClientTypeOK ==
    /\ clock \in Nat \ {0}
    /\ keyFile \in Runs \cup {"absent", "empty"}
    /\ phase \in [Runs -> Phases]
    /\ key \in [Runs -> Runs \cup {NoKey}]
    /\ began \in [Runs -> Nat] /\ base \in [Runs -> Nat]
    /\ expires \in [Runs -> Nat]
    /\ DOMAIN heard = Runs
    /\ met \subseteq Runs

ProxyTypeOK ==
    /\ net \subseteq Sent
    /\ replies \subseteq Replies
    /\ registered \in Runs \cup {NoKey}
    /\ tables \in Tables
    /\ stored \subseteq Runs \X Kinds

-----------------------------------------------------------------------------
(* Runs that are there together have met. *)
AloneInv == \A r, q \in Live : r # q => r \in met

(* A run has its key from the moment it prints it, and nobody creates      *)
(* another one once a run that met no other has.                           *)
KeyInv ==
    /\ \A r \in Runs :
        /\ phase[r] \in Early \ {"ready"} => key[r] = NoKey
        /\ phase[r] \in {"ready"} \cup Kinds => key[r] \in Runs
    /\ \A r \in Runs \ met :
        key[r] # NoKey =>
            /\ keyFile = key[r]
            /\ \A q \in Runs : phase[q] \notin {"generate", "write"}

(* The instants of a run: its calls begin after it has taken its numbers.  *)
TimeInv ==
    \A r \in Runs :
        /\ began[r] <= clock
        /\ Waiting(r) => /\ base[r] \in 1 .. began[r]
                         /\ expires[r] = base[r] + Deadline

Seen(r, kind) == <<DeviceID, <<r, kind>>>> \in tables.seen

Late(r, kind) ==
    phase[r] \notin Early /\ (kind = "sensitive" => phase[r] # "allowed")

(* A request is on its way at most once, and is not recorded then.         *)
NetInv ==
    /\ \A req \in net :
        /\ req.key = key[req.run]
        /\ req.sequence \in 1 .. clock
        /\ req.signedAt \in 1 .. clock
        /\ req.signedAt >= base[req.run]
        /\ req.sequence = base[req.run] + (IF req.kind = "allowed" THEN 0 ELSE 1)
        /\ ~Seen(req.run, req.kind)
        /\ Late(req.run, req.kind)
        /\ req.kind = "allowed" => phase[req.run] # "sensitive"
    /\ \A a, b \in net : a.run = b.run /\ a.kind = b.kind => a = b

(* What the proxy has recorded or answered was sent, and is no longer on   *)
(* its way.                                                                *)
ServedInv ==
    /\ \A r \in Runs, kind \in Kinds : Seen(r, kind) => Late(r, kind)
    /\ \A reply \in replies :
        /\ Late(reply.run, reply.kind)
        /\ \A req \in net : reply.run # req.run \/ reply.kind # req.kind

(* A sensitive frame is about only when the allowed one was accepted.      *)
OrderInv ==
    /\ \A r \in Runs : <<r, "sensitive">> \notin stored
    /\ \A r \in Runs : phase[r] = "sensitive" \/ Seen(r, "sensitive")
                        => <<r, "allowed">> \in stored
    /\ \A req \in net : req.kind = "sensitive" => <<req.run, "allowed">> \in stored
    /\ \A reply \in replies : reply.status = "OK" =>
        /\ reply.response = ResponseToProto([decision |->
                IF reply.kind = "allowed" THEN "accept" ELSE "quarantine"])
        /\ reply.kind = "allowed" => <<reply.run, "allowed">> \in stored

(* The sequence numbers in use are no later than now, and those of a run   *)
(* that is alone are later than all of earlier runs.                       *)
SequenceInv ==
    /\ tables.max[DeviceID] <= clock
    /\ \A r \in Live \ met :
        /\ phase[r] \in Early =>
            /\ tables.max[DeviceID] <= began[r]
            /\ \A req \in net : req.sequence <= began[r]
        /\ Waiting(r) =>
            /\ \A req \in net : IF req.run = r
                                THEN tables.max[DeviceID] < req.sequence
                                ELSE req.sequence < base[r]
            /\ tables.max[DeviceID]
                    <= base[r] + (IF phase[r] = "allowed" THEN 0 ELSE 1)

(* An answer that a run alone still hears, from a proxy that has its key,  *)
(* is no error.                                                            *)
AnswerInv ==
    \A reply \in replies :
        LET r == reply.run IN
        /\ r \notin met
        /\ key[r] = registered
        /\ phase[r] = reply.kind
        /\ clock <= expires[r]
        => reply.status = "OK"

(* What runs have heard. *)
HeardInv ==
    /\ registered = NoKey => replies = {} /\ \A r \in Runs : heard[r] = <<>>
    /\ \A r \in Runs :
        /\ phase[r] \in Early \cup {"allowed"} => heard[r] = <<>>
        /\ phase[r] = "sensitive" => heard[r] = <<"accept">>
    /\ RunAloneIsServed

TypesOK == ClientTypeOK /\ ProxyTypeOK

WireInv == NetInv /\ ServedInv

MockInv ==
    /\ TypesOK /\ AloneInv /\ KeyInv /\ TimeInv /\ WireInv
    /\ OrderInv /\ SequenceInv /\ AnswerInv /\ HeardInv

-----------------------------------------------------------------------------
(* The proxy's side of a request.  Its envelope, as far as it depends on   *)
(* hash and signature: ...                                                 *)
Frame(req) == SyntheticFrame(req.run, req.kind, req.sequence)
FrameID(req) == <<req.run, req.kind>>
NoCert == ""

Envelope(req, hash, signature) ==
    [protocol |-> "golem.v1", device |-> DeviceID, trajectory |-> req.run,
     frame |-> FrameID(req), sequence |-> req.sequence,
     signedAt |-> req.signedAt, payload |-> Frame(req), hash |-> hash,
     alg |-> SignatureAlgEd25519, keyID |-> PublicKeyID, cert |-> NoCert,
     signature |-> signature]

Signature(req) ==
    [length |-> SignatureSize, key |-> req.key,
     over |-> CanonicalBytes(Envelope(req, HashPayload(Frame(req)), NoSignature))]

Arrived(req) == EnvelopeFromProto(Message(req))

(* ... what arrives is what was built and signed, ...                      *)
LEMMA ArrivedEnvelope ==
  ASSUME NEW req \in Sent, req.signedAt # 0
  PROVE  /\ Arrived(req) = Envelope(req, HashPayload(Frame(req)), Signature(req))
         /\ Message(req).canonical_payload = Frame(req)
         /\ ~EnvelopeRefused(Message(req))
<1> DEFINE hash == HashPayload(Frame(req))
           blank == Envelope(req, {}, NoSignature)
           unsigned == Envelope(req, hash, NoSignature)
           signed == Envelope(req, hash, Signature(req))
<1>1. BuildSignedEnvelopeWithKey(req.key, req.signedAt, Frame(req))
        = SignEnvelope(req.key, blank)
  BY DEF BuildSignedEnvelopeWithKey, Frame, SyntheticFrame, Envelope, FrameID,
         NoCert
<1>2. Completed(blank) = unsigned
  <2>1. blank.payload = Frame(req)
    BY DEF Envelope
  <2>2. [blank EXCEPT !.alg = SignatureAlgEd25519] = blank
    BY DEF Envelope
  <2>3. [blank EXCEPT !.hash = hash] = unsigned
    BY DEF Envelope
  <2>4. Completed(blank) =
            [[blank EXCEPT !.alg = SignatureAlgEd25519] EXCEPT !.hash = hash]
    BY <2>1 DEF Completed
  <2> QED
    BY <2>2, <2>3, <2>4
<1>3. Sign(req.key, unsigned) = signed
  BY DEF Sign, Envelope, Signature
<1>4. Message(req) = EnvelopeToProto(signed)
  BY <1>1, <1>2, <1>3 DEF Message, SignEnvelope, Frame
<1>5. EnvelopeFromProto(EnvelopeToProto(signed)) = signed
  BY DEF EnvelopeFromProto, EnvelopeToProto, Envelope, ZeroTime
<1>6. /\ EnvelopeToProto(signed).canonical_payload = Frame(req)
      /\ EnvelopeToProto(signed).signed_at = req.signedAt
  BY DEF EnvelopeToProto, Envelope, ZeroTime
<1>7. req.signedAt # NilTime
  BY DEF Sent, NilTime
<1> QED
  BY <1>4, <1>5, <1>6, <1>7 DEF Arrived, EnvelopeRefused

(* ... with its fields, ...                                                *)
LEMMA ArrivedFields ==
  ASSUME NEW req \in Sent, req.signedAt # 0
  PROVE  LET e == Arrived(req) IN
         /\ e.protocol = "golem.v1" /\ e.device = DeviceID
         /\ e.trajectory = req.run /\ e.frame = FrameID(req)
         /\ e.sequence = req.sequence /\ e.signedAt = req.signedAt
         /\ e.payload = Frame(req)
         /\ e.alg = SignatureAlgEd25519 /\ e.hash = HashPayload(Frame(req))
         /\ e.keyID = PublicKeyID /\ e.cert = NoCert
         /\ e.signature.length = SignatureSize /\ e.signature.key = req.key
<1> DEFINE hash == HashPayload(Frame(req))
           e == Envelope(req, hash, Signature(req))
<1>1. /\ e.protocol = "golem.v1" /\ e.device = DeviceID
      /\ e.trajectory = req.run /\ e.frame = FrameID(req)
      /\ e.sequence = req.sequence /\ e.signedAt = req.signedAt
      /\ e.payload = Frame(req)
      /\ e.alg = SignatureAlgEd25519 /\ e.hash = hash
      /\ e.keyID = PublicKeyID /\ e.cert = NoCert
      /\ e.signature = Signature(req)
  BY DEF Envelope
<1>2. Signature(req).length = SignatureSize /\ Signature(req).key = req.key
  BY DEF Signature
<1> QED
  BY <1>1, <1>2, ArrivedEnvelope

(* ... and the bytes under the signature are those it is checked against.  *)
LEMMA SignatureSurvives ==
  ASSUME NEW req \in Sent, req.signedAt # 0
  PROVE  Arrived(req).signature.over = CanonicalBytes(Arrived(req))
<1> DEFINE hash == HashPayload(Frame(req))
           unsigned == Envelope(req, hash, NoSignature)
           signed == Envelope(req, hash, Signature(req))
<1>1. /\ DOMAIN signed = DOMAIN unsigned
      /\ \A field \in DOMAIN unsigned \ {"signature"} :
            signed[field] = unsigned[field]
  BY DEF Envelope
<1>2. CanonicalBytes(signed) = CanonicalBytes(unsigned)
  BY <1>1 DEF CanonicalBytes
<1>3. signed.signature.over = CanonicalBytes(unsigned)
  BY DEF Envelope, Signature
<1> QED
  BY <1>2, <1>3, ArrivedEnvelope

-----------------------------------------------------------------------------
(* A request signed with the registered key passes all checks of the       *)
(* verifier for as long as its envelope lives.                             *)
LEMMA FreshIsVerified ==
  ASSUME NEW req \in net, net \subseteq Sent, clock \in Nat,
         req.signedAt \in 1 .. clock, req.key = registered,
         clock - req.signedAt <= TTL
  PROVE  V!Verified(Arrived(req), NoCert, clock)
<1> DEFINE e == Arrived(req)
<1>1. req \in Sent /\ req.signedAt # 0
  OBVIOUS
<1>2. /\ e.protocol = "golem.v1" /\ e.device = DeviceID
      /\ e.trajectory = req.run /\ e.frame = FrameID(req)
      /\ e.sequence = req.sequence /\ e.signedAt = req.signedAt
      /\ e.payload = Frame(req)
      /\ e.alg = SignatureAlgEd25519 /\ e.hash = HashPayload(Frame(req))
      /\ e.keyID = PublicKeyID /\ e.cert = NoCert
      /\ e.signature.length = SignatureSize /\ e.signature.key = req.key
  BY <1>1, ArrivedFields
<1>3. \A id \in {"protocol", "device", "trajectory", "frame"} : e[id] # NoCert
  <2>1. req.run \in Runs /\ <<req.run, req.kind>> \in Frames
    BY <1>1, MockClientAssumption DEF Sent
  <2>2. req.run # NoCert /\ FrameID(req) # NoCert
    BY <2>1, MockClientAssumption DEF NoCert, FrameID
  <2>3. "golem.v1" # NoCert /\ DeviceID # NoCert
    BY DEF NoCert, DeviceID
  <2> QED
    BY <1>2, <2>2, <2>3
<1>4. ~\E id \in V!StringIDs : e[id] = ""
  BY <1>3 DEF V!StringIDs, NoCert
<1>5. V!KnownDevice(e)
  BY <1>2, Zenon DEF V!KnownDevice
<1>6. ~V!KeyIDMismatch(e)
  BY <1>2, Zenon DEF V!KeyIDMismatch
<1>7. ~V!CertMismatch(e, NoCert)
  BY <1>2, Zenon DEF V!CertMismatch, NoCert
<1>8. ~V!FuturePayload(e, clock) /\ ~V!ExpiredPayload(e, clock)
  <2>1. e.signedAt = req.signedAt /\ TTL \in Nat /\ ClockSkew \in Nat
    BY <1>2, MockClientAssumption
  <2> HIDE DEF e
  <2> QED
    BY <2>1 DEF V!FuturePayload, V!ExpiredPayload
<1>9. ~V!CanonicalFails(e)
  BY <1>2, <1>4 DEF V!CanonicalFails, HashPayload, SignatureAlgEd25519
<1>10. V!VerifySignature(registered, e)
  <2>1. V!CanonicalBytes(e) = CanonicalBytes(e)
    BY DEF V!CanonicalBytes, CanonicalBytes
  <2> QED
    BY <1>1, <1>2, <2>1, SignatureSurvives DEF V!VerifySignature
<1>11. /\ e.alg = V!SignatureAlgEd25519 /\ e.hash = V!HashPayload(e.payload)
       /\ e.signature.length = V!SignatureSize /\ V!SignatureSize # 0
       /\ e.signedAt # V!ZeroTime
  BY <1>2 DEF V!SignatureAlgEd25519, SignatureAlgEd25519, V!HashPayload,
     HashPayload, V!SignatureSize, SignatureSize, V!ZeroTime
<1>12. [p \in {Message(r).canonical_payload : r \in net} |-> 1][e.payload] = 1
  BY <1>1, <1>2, ArrivedEnvelope
<1>13. [d \in {DeviceID} |-> [key |-> registered, keyID |-> PublicKeyID,
                              cert |-> ""]][e.device].key = registered
  BY <1>2, Zenon
<1>14. ASSUME NEW check \in V!Checks(e, NoCert, clock)
       PROVE  ~check.fails
  <2> HIDE DEF e
  <2> DEFINE Size == [p \in {Message(r).canonical_payload : r \in net} |-> 1]
             Registered == [d \in {DeviceID} |->
                    [key |-> registered, keyID |-> PublicKeyID, cert |-> ""]]
  <2> DEFINE f1 == \E id \in V!StringIDs : e[id] = ""
             f2 == e.alg # V!SignatureAlgEd25519
             f3 == e.signature.length = 0
             f4 == e.signature.length # V!SignatureSize
             f5 == Size[e.payload] = 0
             f6 == 0 > 0 /\ Size[e.payload] > 0
             f7 == e.signedAt = V!ZeroTime
             f8 == V!FuturePayload(e, clock)
             f9 == V!ExpiredPayload(e, clock)
             f10 == e.hash # V!HashPayload(e.payload)
             f11 == ~V!KnownDevice(e)
             f12 == V!KnownDevice(e) /\ V!KeyIDMismatch(e)
             f13 == V!KnownDevice(e) /\ V!CertMismatch(e, NoCert)
             f14 == V!CanonicalFails(e)
             f15 == /\ V!KnownDevice(e)
                    /\ ~V!VerifySignature(Registered[e.device].key, e)
  <2> DEFINE c1 == V!Check(1, f1, "ErrMalformed")
             c2 == V!Check(2, f2, "ErrMalformed")
             c3 == V!Check(3, f3, "ErrMissingSignature")
             c4 == V!Check(4, f4, "ErrInvalidSignature")
             c5 == V!Check(5, f5, "ErrMalformed")
             c6 == V!Check(6, f6, "ErrOversizedPayload")
             c7 == V!Check(7, f7, "ErrMalformed")
             c8 == V!Check(8, f8, "ErrFuturePayload")
             c9 == V!Check(9, f9, "ErrExpiredPayload")
             c10 == V!Check(10, f10, "ErrMalformed")
             c11 == V!Check(11, f11, "ErrUnauthorized")
             c12 == V!Check(12, f12, "ErrUnauthorized")
             c13 == V!Check(13, f13, "ErrCertMismatch")
             c14 == V!Check(14, f14, "ErrMalformed")
             c15 == V!Check(15, f15, "ErrInvalidSignature")
  <2>1. check \in {c1, c2, c3, c4, c5, c6, c7, c8, c9, c10, c11, c12, c13, c14, c15}
    BY <1>14, Zenon DEF V!Checks
  <2>2. ~(0 > 0)
    OBVIOUS
  <2>3. Size[e.payload] # 0 /\ e.signature.length # 0
    BY <1>11, <1>12
  <2>4. V!VerifySignature(Registered[e.device].key, e)
    BY <1>10, <1>13
  <2>5. ~f1 /\ ~f2 /\ ~f3 /\ ~f4 /\ ~f5 /\ ~f6 /\ ~f7 /\ ~f8 /\ ~f9 /\ ~f10
    BY <1>4, <1>8, <1>11, <2>2, <2>3, Zenon
  <2>6. ~f11 /\ ~f12 /\ ~f13 /\ ~f14 /\ ~f15
    BY <1>5, <1>6, <1>7, <1>9, <2>4, Zenon
  <2> HIDE DEF f1, f2, f3, f4, f5, f6, f7, f8, f9, f10, f11, f12, f13, f14, f15
  <2>8. /\ ~c1.fails /\ ~c2.fails /\ ~c3.fails /\ ~c4.fails /\ ~c5.fails
        /\ ~c6.fails /\ ~c7.fails /\ ~c8.fails /\ ~c9.fails /\ ~c10.fails
    BY <2>5, Zenon DEF V!Check
  <2>9. ~c11.fails /\ ~c12.fails /\ ~c13.fails /\ ~c14.fails /\ ~c15.fails
    BY <2>6, Zenon DEF V!Check
  <2> HIDE DEF c1, c2, c3, c4, c5, c6, c7, c8, c9, c10, c11, c12, c13, c14, c15
  <2> QED
    BY <2>1, <2>8, <2>9, Zenon
<1> QED
  BY <1>14 DEF V!Verified

-----------------------------------------------------------------------------
Verdict(kind) == IF kind = "allowed" THEN "accept" ELSE "quarantine"

(* What the sanitizer makes of the frame of a request. *)
LEMMA FrameDecision ==
  ASSUME NEW req \in Sent
  PROVE  Decision(Frame(req)) = Verdict(req.kind)
<1> DEFINE raw == Frame(req)
<1>1. /\ raw.package = IF req.kind = "allowed" THEN "com.android.settings"
                       ELSE "com.example.bank"
      /\ raw.texts = {"Settings", "Open Wi-Fi"} /\ raw.screenshot = NoCert
  BY DEF Frame, SyntheticFrame, NoCert
<1> HIDE DEF raw
<1>2. CASE req.kind = "allowed"
  <2>1. Package(raw) \in AllowedPackages \ SensitivePackages /\ Package(raw) # ""
    BY <1>1, <1>2, DevConfigAssumption DEF Package
  <2>2. ~WalkFails(raw) /\ raw.screenshot \notin VisionErrors
    BY <1>1, DevConfigAssumption DEF WalkFails, NoCert
  <2> QED
    BY <1>2, <2>1, <2>2 DEF Decision, Verdict, raw
<1>3. CASE req.kind = "sensitive"
  <2>1. Package(raw) \in SensitivePackages /\ Package(raw) # ""
    BY <1>1, <1>3, DevConfigAssumption DEF Package
  <2> QED
    BY <1>3, <2>1 DEF Decision, Verdict, raw
<1> QED
  BY <1>2, <1>3 DEF Sent, Kinds

(* No error is reported as OK. *)
LEMMA ErrorStatus == \A err : V!MapAuthError(err) \in Statuses \ {"OK"}
  BY DEF V!MapAuthError, Statuses

(* Every decision has a number on the wire. *)
LEMMA ResponseType ==
  \A d : ResponseToProto([decision |-> d]) \in [decision : 0 .. 3]
  BY DEF ResponseToProto, DecisionToProto, DecisionAccept, DecisionDrop,
         DecisionQuarantine, DecisionUnspecified

(* The answer to a request is an error, or what the sanitizer decides.     *)
LEMMA AnswerOutcome ==
  ASSUME NEW req \in Sent, req.signedAt # 0
  PROVE  LET answer == Answer(Arrived(req)) IN
         /\ answer.status \in Statuses /\ answer.response \in [decision : 0 .. 3]
         /\ answer.status = "OK" =>
                ~Replayed(tables, Arrived(req)) /\ answer = OK(Verdict(req.kind))
         /\ answer.status # "OK" =>
                \/ ~V!Verified(Arrived(req), NoCert, clock)
                \/ Replayed(tables, Arrived(req))
<1> DEFINE e == Arrived(req)
           verified == V!Verified(e, "", clock)
           error == V!MapAuthError(V!VerifyError(e, "", clock))
           replay == V!MapAuthError("ErrReplay")
<1>1. \A status : /\ Error(status).status = status
                  /\ Error(status).response = ResponseToProto([decision |-> ""])
  BY Zenon DEF Error
<1>2. \A d : /\ OK(d).status = "OK"
             /\ OK(d).response = ResponseToProto([decision |-> d])
  BY Zenon DEF OK
<1>3. ResponseToProto([decision |-> ""]) \in [decision : 0 .. 3]
  BY ResponseType, Zenon
<1>4. \A status \in Statuses \ {"OK"} :
        /\ Error(status).status \in Statuses /\ Error(status).status # "OK"
        /\ Error(status).response \in [decision : 0 .. 3]
  BY <1>1, <1>3, Zenon
<1>5. Decision(e.payload) = Verdict(req.kind)
  BY ArrivedFields, FrameDecision
<1>6. error \in Statuses \ {"OK"} /\ replay \in Statuses \ {"OK"}
  BY ErrorStatus, Zenon
<1>7. /\ OK(Verdict(req.kind)).status = "OK"
      /\ OK(Verdict(req.kind)).response \in [decision : 0 .. 3]
      /\ "OK" \in Statuses
  BY <1>2, ResponseType, Zenon DEF Statuses
<1> HIDE DEF e, verified, error, replay
<1>8. CASE ~verified
  <2>1. Answer(e) = Error(error)
    BY <1>8, Zenon DEF Answer, verified, error
  <2> QED
    BY <1>4, <1>6, <1>8, <2>1, Zenon DEF e, verified, NoCert
<1>9. CASE verified /\ Replayed(tables, e)
  <2>1. Answer(e) = Error(replay)
    BY <1>9, Zenon DEF Answer, verified, replay
  <2> QED
    BY <1>4, <1>6, <1>9, <2>1, Zenon DEF e
<1>10. CASE verified /\ ~Replayed(tables, e)
  <2>1. Answer(e) = OK(Verdict(req.kind))
    BY <1>5, <1>10, Zenon DEF Answer, verified
  <2> QED
    BY <1>7, <1>10, <2>1, Zenon DEF e
<1> QED
  BY <1>8, <1>9, <1>10, Zenon

-----------------------------------------------------------------------------
(* What serving a request comes to. *)
ServeEffect(req, reply) ==
    /\ registered # NoKey
    /\ reply.run = req.run /\ reply.kind = req.kind
    /\ net' = net \ {req}
    /\ replies' = replies \cup {reply}
    /\ \/ /\ reply.status = "OK"
          /\ reply.response = ResponseToProto([decision |-> Verdict(req.kind)])
          /\ tables.max[DeviceID] < req.sequence
          /\ tables'.seen = tables.seen \cup {<<DeviceID, <<req.run, req.kind>>>>}
          /\ tables'.max[DeviceID] = req.sequence
          /\ stored' = IF req.kind = "allowed"
                       THEN stored \cup {<<req.run, "allowed">>} ELSE stored
       \/ /\ reply.status # "OK"
          /\ UNCHANGED <<tables, stored>>
          /\ \/ req.key # registered
             \/ clock - req.signedAt > TTL
             \/ Seen(req.run, req.kind)
             \/ req.sequence <= tables.max[DeviceID]
    /\ UNCHANGED <<clock, keyFile, client, met, registered>>

(* An error is told from the four causes it can have here: another key     *)
(* than the registered one, an expired envelope, a frame seen before, or a *)
(* sequence number that is not above the latest.                           *)
LEMMA ServeHasEffect ==
  ASSUME TypesOK, NetInv, Serve
  PROVE  /\ \E req \in net, reply \in Replies : ServeEffect(req, reply)
         /\ tables' \in Tables
<1>1. PICK req \in net :
        LET e == Arrived(req)
            answer == IF EnvelopeRefused(Message(req))
                      THEN Error("InvalidArgument") ELSE Answer(e)
        IN  /\ net' = net \ {req}
            /\ replies' = replies \cup
                  {[run |-> req.run, kind |-> req.kind, status |-> answer.status,
                    response |-> answer.response]}
            /\ tables' = IF answer.status = "OK" THEN Remember(tables, e) ELSE tables
            /\ stored' = IF answer = OK("accept") THEN stored \cup {e.frame} ELSE stored
  BY Zenon DEF Serve, Arrived
<1>2. registered # NoKey /\ UNCHANGED <<clock, keyFile, client, met, registered>>
  BY Zenon DEF Serve
<1> DEFINE e == Arrived(req)
           answer == Answer(e)
           reply == [run |-> req.run, kind |-> req.kind, status |-> answer.status,
                     response |-> answer.response]
<1>3. /\ req \in Sent /\ req.signedAt \in 1 .. clock /\ req.signedAt # 0
      /\ clock \in Nat /\ tables \in Tables /\ net \subseteq Sent
  BY DEF TypesOK, ClientTypeOK, ProxyTypeOK, NetInv
<1>4. /\ net' = net \ {req}
      /\ replies' = replies \cup {reply}
      /\ tables' = IF answer.status = "OK" THEN Remember(tables, e) ELSE tables
      /\ stored' = IF answer = OK("accept") THEN stored \cup {e.frame} ELSE stored
  BY <1>1, <1>3, ArrivedEnvelope, Zenon
<1>5. /\ e.device = DeviceID /\ e.frame = <<req.run, req.kind>>
      /\ e.sequence = req.sequence
  BY <1>3, ArrivedFields DEF FrameID
<1>6. HasIDs(e)
  BY <1>3, <1>5, MockClientAssumption DEF HasIDs, Sent
<1>7. /\ answer.status \in Statuses /\ answer.response \in [decision : 0 .. 3]
      /\ answer.status = "OK" =>
            ~Replayed(tables, e) /\ answer = OK(Verdict(req.kind))
      /\ answer.status # "OK" => ~V!Verified(e, NoCert, clock) \/ Replayed(tables, e)
  BY <1>3, AnswerOutcome, Zenon
<1>8. reply \in Replies
  BY <1>3, <1>7 DEF Replies, Sent
<1>9. /\ reply.run = req.run /\ reply.kind = req.kind
      /\ reply.status = answer.status /\ reply.response = answer.response
  BY Zenon
<1>10. tables' \in Tables
  BY <1>3, <1>4, <1>6, RememberType
<1>11. Replayed(tables, e) <=>
            Seen(req.run, req.kind) \/ req.sequence <= tables.max[DeviceID]
  BY <1>5 DEF Replayed, SeenFrame, StaleSequence, Seen
<1>12. tables.max[DeviceID] \in Nat /\ req.sequence \in Nat
  BY <1>3, TablesFields, MockClientAssumption DEF Sent
<1>13. \A d : /\ OK(d).status = "OK"
              /\ OK(d).response = ResponseToProto([decision |-> d])
  BY Zenon DEF OK
<1> HIDE DEF e, answer, reply
<1>14. CASE answer.status = "OK"
  <2>1. answer = OK("accept") <=> req.kind = "allowed"
    <3>1. \A d : OK(d).response.decision = DecisionToProto(d)
      BY Zenon DEF OK, ResponseToProto
    <3>2. DecisionToProto("accept") = 1 /\ DecisionToProto("quarantine") = 3
      BY DEF DecisionToProto, DecisionAccept, DecisionQuarantine
    <3> QED
      BY <1>7, <1>14, <3>1, <3>2 DEF Verdict
  <2>2. reply.response = ResponseToProto([decision |-> Verdict(req.kind)])
    BY <1>7, <1>9, <1>13, <1>14, Zenon
  <2>3. /\ tables'.seen = tables.seen \cup {<<DeviceID, <<req.run, req.kind>>>>}
        /\ tables'.max = [tables.max EXCEPT ![DeviceID] = req.sequence]
    BY <1>3, <1>4, <1>5, <1>6, <1>14, RememberFields
  <2>4. tables'.max[DeviceID] = req.sequence
    BY <1>3, <2>3, TablesFields, MockClientAssumption
  <2>5. tables.max[DeviceID] < req.sequence
    BY <1>7, <1>11, <1>12, <1>14
  <2>6. stored' = IF req.kind = "allowed"
                  THEN stored \cup {<<req.run, "allowed">>} ELSE stored
    BY <1>4, <1>5, <2>1
  <2>7. ServeEffect(req, reply)
    BY <1>2, <1>4, <1>9, <1>14, <2>2, <2>3, <2>4, <2>5, <2>6, Zenon DEF ServeEffect
  <2> QED
    BY <1>8, <1>10, <2>7
<1>15. CASE answer.status # "OK"
  <2>0. TTL \in Nat /\ clock \in Nat /\ req.signedAt \in Nat
    BY <1>3, MockClientAssumption DEF Sent
  <2>1. \/ req.key # registered \/ clock - req.signedAt > TTL
        \/ Replayed(tables, e)
    <3>1. clock - req.signedAt <= TTL \/ clock - req.signedAt > TTL
      BY <2>0
    <3> QED
      BY <1>3, <1>7, <1>15, <3>1, FreshIsVerified, Zenon DEF e
  <2>2. answer # OK("accept")
    BY <1>13, <1>15, Zenon
  <2>3. UNCHANGED <<tables, stored>>
    BY <1>4, <1>15, <2>2
  <2>4. ServeEffect(req, reply)
    BY <1>2, <1>4, <1>9, <1>11, <1>15, <2>1, <2>3, Zenon DEF ServeEffect
  <2> QED
    BY <1>8, <1>10, <2>4
<1> QED
  BY <1>14, <1>15

-----------------------------------------------------------------------------
(* A run hears the answer to its first frame and sends the second, ...     *)
SecondEffect(r, reply) ==
    /\ phase[r] = "allowed" /\ reply.kind = "allowed" /\ reply.run = r
    /\ reply.status = "OK" /\ clock <= expires[r]
    /\ replies' = replies \ {reply}
    /\ heard' = [heard EXCEPT ![r] =
                    Append(heard[r], ResponseFromProto(reply.response).decision)]
    /\ net' = net \cup {[run |-> r, kind |-> "sensitive", sequence |-> base[r] + 1,
                         key |-> key[r], signedAt |-> clock]}
    /\ phase' = [phase EXCEPT ![r] = "sensitive"]
    /\ began[r] < clock
    /\ began' = [began EXCEPT ![r] = clock]
    /\ UNCHANGED <<clock, keyFile, key, base, expires, met, proxy>>

(* ... or hears its last answer, an error or the one to the second frame.  *)
LastEffect(r, reply) ==
    /\ phase[r] = reply.kind /\ reply.run = r
    /\ reply.kind = "allowed" => reply.status # "OK"
    /\ clock <= expires[r]
    /\ replies' = replies \ {reply}
    /\ heard' = [heard EXCEPT ![r] =
                    Append(heard[r], IF reply.status = "OK"
                                     THEN ResponseFromProto(reply.response).decision
                                     ELSE reply.status)]
    /\ \E p \in {"done", "failed"} : phase' = [phase EXCEPT ![r] = p]
    /\ UNCHANGED <<clock, keyFile, key, began, base, expires, met, net, proxy>>

(* The two outcomes of SendSensitive ... *)
LEMMA SendSensitiveHasEffect ==
  ASSUME NEW r \in Runs, SendSensitive(r), replies \subseteq Replies
  PROVE  \E reply \in replies : SecondEffect(r, reply) \/ LastEffect(r, reply)
<1>1. PICK reply \in replies :
        /\ Hear(r, reply)
        /\ \/ /\ reply.status = "OK"
              /\ IngestFrame(r, "sensitive", base[r] + 1)
              /\ Enter(r, "sensitive")
           \/ /\ reply.status # "OK"
              /\ Goto(r, "failed")
              /\ UNCHANGED net
  BY Zenon DEF SendSensitive
<1>2. /\ phase[r] = "allowed"
      /\ UNCHANGED <<clock, keyFile, key, base, expires, met, proxy>>
  BY Zenon DEF SendSensitive
<1>3. CASE reply.status = "OK"
  <2>1. SecondEffect(r, reply)
    BY <1>1, <1>2, <1>3 DEF Hear, IngestFrame, Enter, SecondEffect
  <2> QED
    BY <2>1
<1>4. CASE reply.status # "OK"
  <2>1. LastEffect(r, reply)
    BY <1>1, <1>2, <1>4 DEF Hear, Goto, LastEffect
  <2> QED
    BY <2>1
<1> QED
  BY <1>3, <1>4

(* ... and the one of Finish. *)
LEMMA FinishHasEffect ==
  ASSUME NEW r \in Runs, Finish(r), replies \subseteq Replies
  PROVE  \E reply \in replies : LastEffect(r, reply)
<1>1. PICK reply \in replies :
        /\ Hear(r, reply)
        /\ Goto(r, IF reply.status = "OK" THEN "done" ELSE "failed")
  BY Zenon DEF Finish
<1>2. /\ phase[r] = "sensitive"
      /\ UNCHANGED <<clock, keyFile, key, base, expires, met, net, proxy>>
  BY Zenon DEF Finish
<1>3. LastEffect(r, reply)
  BY <1>1, <1>2 DEF Hear, Goto, LastEffect
<1> QED
  BY <1>3

(* The steps of the system; a served request, and an answer heard, by      *)
(* their effect.                                                           *)
LEMMA Steps ==
  ASSUME TypesOK, NetInv, [Next]_vars
  PROVE  \/ \E r \in Runs :
                \/ Start(r) \/ ReadKey(r) \/ CreateKeyFile(r) \/ WriteKey(r)
                \/ SendAllowed(r) \/ DeadlineExceeded(r) \/ Die(r) \/ Configure(r)
         \/ \E r \in Runs, reply \in replies :
                SecondEffect(r, reply) \/ LastEffect(r, reply)
         \/ \E req \in net, reply \in Replies :
                ServeEffect(req, reply) /\ tables' \in Tables
         \/ Tick
         \/ UNCHANGED vars
<1>1. replies \subseteq Replies
  BY DEF TypesOK, ProxyTypeOK
<1> QED
  BY <1>1, ServeHasEffect, SendSensitiveHasEffect, FinishHasEffect, Zenon
     DEF Next, Step

(* What the invariant needs of the assumptions on the constants. *)
LEMMA Constants ==
  /\ TTL \in Nat /\ Deadline \in Nat \ {0} /\ Deadline <= TTL
  /\ NoKey \notin Runs /\ "absent" \notin Runs /\ "empty" \notin Runs
  BY MockClientAssumption

(* The latest sequence number of the device is a number. *)
LEMMA LatestType ==
  ASSUME tables \in Tables
  PROVE  tables.max[DeviceID] \in Nat
  BY TablesFields, MockClientAssumption

(* Appending to a sequence of one gives a pair. *)
LEMMA AppendToOne ==
  ASSUME NEW a, NEW b
  PROVE  Append(<<a>>, b) = <<a, b>>
<1> DEFINE S == {a, b}
           both == Append(<<a>>, b)
<1>1. <<a>> \in Seq(S) /\ <<a, b>> \in Seq(S)
  OBVIOUS
<1>2. /\ both \in Seq(S) /\ Len(both) = 2 /\ both[1] = a /\ both[2] = b
  BY <1>1
<1> HIDE DEF both
<1>3. both = <<a, b>>
  BY <1>1, <1>2
<1> QED
  BY <1>3 DEF both

(* The decisions that the proxy makes survive the wire. *)
LEMMA DecisionSurvives ==
  \A d \in {"accept", "quarantine"} :
      ResponseFromProto(ResponseToProto([decision |-> d])).decision = d
<1>1. DecisionToProto("accept") = 1 /\ DecisionToProto("quarantine") = 3
  BY DEF DecisionToProto, DecisionAccept, DecisionQuarantine
<1>2. DecisionFromProto(1) = "accept" /\ DecisionFromProto(3) = "quarantine"
  BY DEF DecisionFromProto, DecisionAccept, DecisionDrop, DecisionQuarantine
<1>3. \A d : ResponseFromProto(ResponseToProto([decision |-> d])).decision
                = DecisionFromProto(DecisionToProto(d))
  BY Zenon DEF ResponseFromProto, ResponseToProto
<1> QED
  BY <1>1, <1>2, <1>3

-----------------------------------------------------------------------------
(* Every step preserves every part of the invariant.  The types need       *)
(* KeyInv: a run that sends has a key.                                     *)
LEMMA TypesPreserved ==
  ASSUME MockInv, [Next]_vars
  PROVE  TypesOK'
<1>0. TypesOK /\ KeyInv
  BY DEF MockInv
<1>1. ASSUME NEW r \in Runs, Start(r) PROVE TypesOK'
  BY <1>0, <1>1 DEF Start, Enter, proxy, Live, TypesOK, ClientTypeOK,
     ProxyTypeOK, Phases, Early
<1>2. ASSUME NEW r \in Runs, ReadKey(r) PROVE TypesOK'
  BY <1>0, <1>2 DEF ReadKey, Goto, proxy, TypesOK, ClientTypeOK, ProxyTypeOK,
     Phases, Early
<1>3. ASSUME NEW r \in Runs, CreateKeyFile(r) PROVE TypesOK'
  BY <1>0, <1>3 DEF CreateKeyFile, Goto, proxy, TypesOK, ClientTypeOK,
     ProxyTypeOK, Phases, Early
<1>4. ASSUME NEW r \in Runs, WriteKey(r) PROVE TypesOK'
  BY <1>0, <1>4 DEF WriteKey, Goto, proxy, TypesOK, ClientTypeOK, ProxyTypeOK,
     Phases, Early
<1>5. ASSUME NEW r \in Runs, SendAllowed(r) PROVE TypesOK'
  BY <1>0, Constants, <1>5 DEF SendAllowed, Enter, IngestFrame, SeqBase, proxy,
     TypesOK, ClientTypeOK, ProxyTypeOK, KeyInv, Kinds, Phases, Sent
<1>6. ASSUME NEW r \in Runs, DeadlineExceeded(r) PROVE TypesOK'
  BY <1>0, <1>6 DEF DeadlineExceeded, Goto, proxy, TypesOK, ClientTypeOK,
     ProxyTypeOK, Phases
<1>7. ASSUME NEW r \in Runs, Die(r) PROVE TypesOK'
  BY <1>0, <1>7 DEF Die, Goto, proxy, TypesOK, ClientTypeOK, ProxyTypeOK,
     Phases
<1>8. ASSUME NEW r \in Runs, Configure(r) PROVE TypesOK'
  BY <1>0, <1>8 DEF Configure, client, TypesOK, ClientTypeOK, ProxyTypeOK
<1>9. ASSUME NEW r \in Runs, NEW reply \in replies, SecondEffect(r, reply)
      PROVE  TypesOK'
  BY <1>0, Constants, <1>9 DEF SecondEffect, proxy, TypesOK, ClientTypeOK,
     ProxyTypeOK, KeyInv, Waiting, Kinds, Phases, Early, Sent
<1>10. ASSUME NEW r \in Runs, NEW reply \in replies, LastEffect(r, reply)
       PROVE  TypesOK'
  BY <1>0, <1>10 DEF LastEffect, proxy, TypesOK, ClientTypeOK, ProxyTypeOK,
     Phases
<1>11. ASSUME NEW req \in net, NEW reply \in Replies, ServeEffect(req, reply),
              tables' \in Tables
       PROVE  TypesOK'
  BY <1>0, <1>11 DEF ServeEffect, client, TypesOK, ClientTypeOK, ProxyTypeOK,
     Sent
<1>12. CASE Tick
  BY <1>0, <1>12 DEF Tick, client, proxy, TypesOK, ClientTypeOK, ProxyTypeOK
<1>13. CASE UNCHANGED vars
  BY <1>0, <1>13 DEF vars, client, proxy, TypesOK, ClientTypeOK, ProxyTypeOK
<1> QED
  BY Steps, <1>1, <1>2, <1>3, <1>4, <1>5, <1>6, <1>7, <1>8, <1>9, <1>10, <1>11,
     <1>12, <1>13 DEF MockInv, WireInv

(* A run that starts while others are there meets all of them. *)
LEMMA AlonePreserved ==
  ASSUME MockInv, [Next]_vars
  PROVE  AloneInv'
<1>0. TypesOK /\ AloneInv
  BY DEF MockInv
<1>1. ASSUME NEW r \in Runs, Start(r) PROVE AloneInv'
  BY <1>1 DEF Start, Enter, AloneInv, Live
<1>2. ASSUME NEW r \in Runs, ReadKey(r) PROVE AloneInv'
  BY <1>0, <1>2 DEF ReadKey, Goto, TypesOK, ClientTypeOK, AloneInv, Live
<1>3. ASSUME NEW r \in Runs, CreateKeyFile(r) PROVE AloneInv'
  BY <1>0, <1>3 DEF CreateKeyFile, Goto, AloneInv, Live
<1>4. ASSUME NEW r \in Runs, WriteKey(r) PROVE AloneInv'
  BY <1>0, <1>4 DEF WriteKey, Goto, AloneInv, Live
<1>5. ASSUME NEW r \in Runs, SendAllowed(r) PROVE AloneInv'
  BY <1>0, <1>5 DEF SendAllowed, Enter, AloneInv, Live
<1>6. ASSUME NEW r \in Runs, DeadlineExceeded(r) PROVE AloneInv'
  BY <1>0, <1>6 DEF DeadlineExceeded, Goto, AloneInv, Live
<1>7. ASSUME NEW r \in Runs, Die(r) PROVE AloneInv'
  BY <1>0, <1>7 DEF Die, Goto, AloneInv, Live
<1>8. ASSUME NEW r \in Runs, Configure(r) PROVE AloneInv'
  BY <1>0, <1>8 DEF Configure, client, AloneInv, Live
<1>9. ASSUME NEW r \in Runs, NEW reply \in replies, SecondEffect(r, reply)
      PROVE  AloneInv'
  BY <1>0, <1>9 DEF SecondEffect, AloneInv, Live
<1>10. ASSUME NEW r \in Runs, NEW reply \in replies, LastEffect(r, reply)
       PROVE  AloneInv'
  BY <1>0, <1>10 DEF LastEffect, AloneInv, Live
<1>11. ASSUME NEW req \in net, NEW reply \in Replies, ServeEffect(req, reply),
              tables' \in Tables
       PROVE  AloneInv'
  BY <1>0, <1>11 DEF ServeEffect, client, AloneInv, Live
<1>12. CASE Tick
  BY <1>0, <1>12 DEF Tick, client, AloneInv, Live
<1>13. CASE UNCHANGED vars
  BY <1>0, <1>13 DEF vars, client, AloneInv, Live
<1> QED
  BY Steps, <1>1, <1>2, <1>3, <1>4, <1>5, <1>6, <1>7, <1>8, <1>9, <1>10, <1>11,
     <1>12, <1>13 DEF MockInv, WireInv

(* A run generates a key only if it found no file; a run alone that has    *)
(* its key has left the file behind.                                       *)
LEMMA KeyPreserved ==
  ASSUME MockInv, [Next]_vars
  PROVE  KeyInv'
<1>0. TypesOK /\ AloneInv /\ KeyInv
  BY DEF MockInv
<1>1. ASSUME NEW r \in Runs, Start(r) PROVE KeyInv'
  BY <1>0, <1>1 DEF Start, Enter, KeyInv, Early, Kinds
<1>2. ASSUME NEW r \in Runs, ReadKey(r) PROVE KeyInv'
  BY <1>0, Constants, <1>2 DEF ReadKey, Goto, TypesOK, ClientTypeOK, AloneInv,
     KeyInv, Live, Early, Kinds
<1>3. ASSUME NEW r \in Runs, CreateKeyFile(r) PROVE KeyInv'
  BY <1>0, <1>3 DEF CreateKeyFile, Goto, KeyInv, Early, Kinds
<1>4. ASSUME NEW r \in Runs, WriteKey(r) PROVE KeyInv'
  BY <1>0, <1>4 DEF WriteKey, Goto, TypesOK, ClientTypeOK, AloneInv, KeyInv,
     Live
<1>5. ASSUME NEW r \in Runs, SendAllowed(r) PROVE KeyInv'
  BY <1>0, <1>5 DEF SendAllowed, Enter, KeyInv, Early
<1>6. ASSUME NEW r \in Runs, DeadlineExceeded(r) PROVE KeyInv'
  BY <1>0, <1>6 DEF DeadlineExceeded, Goto, Waiting, KeyInv, Early
<1>7. ASSUME NEW r \in Runs, Die(r) PROVE KeyInv'
  BY <1>0, <1>7 DEF Die, Goto, KeyInv, Early, Kinds
<1>8. ASSUME NEW r \in Runs, Configure(r) PROVE KeyInv'
  BY <1>0, <1>8 DEF Configure, client, KeyInv
<1>9. ASSUME NEW r \in Runs, NEW reply \in replies, SecondEffect(r, reply)
      PROVE  KeyInv'
  BY <1>0, <1>9 DEF SecondEffect, KeyInv, Early, Kinds
<1>10. ASSUME NEW r \in Runs, NEW reply \in replies, LastEffect(r, reply)
       PROVE  KeyInv'
  BY <1>0, <1>10 DEF LastEffect, KeyInv, Early, Kinds
<1>11. ASSUME NEW req \in net, NEW reply \in Replies, ServeEffect(req, reply),
              tables' \in Tables
       PROVE  KeyInv'
  BY <1>0, <1>11 DEF ServeEffect, client, KeyInv
<1>12. CASE Tick
  BY <1>0, <1>12 DEF Tick, client, KeyInv
<1>13. CASE UNCHANGED vars
  BY <1>0, <1>13 DEF vars, client, KeyInv
<1> QED
  BY Steps, <1>1, <1>2, <1>3, <1>4, <1>5, <1>6, <1>7, <1>8, <1>9, <1>10, <1>11,
     <1>12, <1>13 DEF MockInv, WireInv

(* A call begins after its run has taken its base, and the clock only rises. *)
LEMMA TimePreserved ==
  ASSUME MockInv, [Next]_vars
  PROVE  TimeInv'
<1>0. TypesOK /\ TimeInv
  BY DEF MockInv
<1>1. ASSUME NEW r \in Runs, Start(r) PROVE TimeInv'
  BY <1>0, <1>1 DEF Start, Enter, TypesOK, ClientTypeOK, TimeInv, Waiting,
     Kinds
<1>2. ASSUME NEW r \in Runs, ReadKey(r) PROVE TimeInv'
  BY <1>0, <1>2 DEF ReadKey, Goto, TypesOK, ClientTypeOK, TimeInv, Waiting,
     Kinds
<1>3. ASSUME NEW r \in Runs, CreateKeyFile(r) PROVE TimeInv'
  BY <1>0, <1>3 DEF CreateKeyFile, Goto, TimeInv, Waiting, Kinds
<1>4. ASSUME NEW r \in Runs, WriteKey(r) PROVE TimeInv'
  BY <1>0, <1>4 DEF WriteKey, Goto, TimeInv, Waiting, Kinds
<1>5. ASSUME NEW r \in Runs, SendAllowed(r) PROVE TimeInv'
  BY <1>0, <1>5 DEF SendAllowed, Enter, SeqBase, TypesOK, ClientTypeOK,
     TimeInv, Waiting
<1>6. ASSUME NEW r \in Runs, DeadlineExceeded(r) PROVE TimeInv'
  BY <1>0, <1>6 DEF DeadlineExceeded, Goto, TimeInv, Waiting
<1>7. ASSUME NEW r \in Runs, Die(r) PROVE TimeInv'
  BY <1>0, <1>7 DEF Die, Goto, TimeInv, Waiting, Kinds
<1>8. ASSUME NEW r \in Runs, Configure(r) PROVE TimeInv'
  BY <1>0, <1>8 DEF Configure, client, TimeInv, Waiting
<1>9. ASSUME NEW r \in Runs, NEW reply \in replies, SecondEffect(r, reply)
      PROVE  TimeInv'
  BY <1>0, <1>9 DEF SecondEffect, TypesOK, ClientTypeOK, TimeInv, Waiting,
     Kinds
<1>10. ASSUME NEW r \in Runs, NEW reply \in replies, LastEffect(r, reply)
       PROVE  TimeInv'
  BY <1>0, <1>10 DEF LastEffect, TimeInv, Waiting, Kinds
<1>11. ASSUME NEW req \in net, NEW reply \in Replies, ServeEffect(req, reply),
              tables' \in Tables
       PROVE  TimeInv'
  BY <1>0, <1>11 DEF ServeEffect, client, TimeInv, Waiting
<1>12. CASE Tick
  BY <1>0, <1>12 DEF Tick, client, TypesOK, ClientTypeOK, TimeInv, Waiting
<1>13. CASE UNCHANGED vars
  BY <1>0, <1>13 DEF vars, client, TimeInv, Waiting
<1> QED
  BY Steps, <1>1, <1>2, <1>3, <1>4, <1>5, <1>6, <1>7, <1>8, <1>9, <1>10, <1>11,
     <1>12, <1>13 DEF MockInv, WireInv

(* A request is new when it is sent: the run has not been past its first   *)
(* call before, and the second call waits for the answer to the first.     *)
LEMMA NetPreserved ==
  ASSUME MockInv, [Next]_vars
  PROVE  NetInv'
<1>0. TypesOK /\ KeyInv /\ TimeInv /\ NetInv /\ ServedInv
  BY DEF MockInv, WireInv
<1>1. ASSUME NEW r \in Runs, Start(r) PROVE NetInv'
  BY <1>0, <1>1 DEF Start, Enter, proxy, NetInv, Late, Seen, Early
<1>2. ASSUME NEW r \in Runs, ReadKey(r) PROVE NetInv'
  BY <1>0, <1>2 DEF ReadKey, Goto, proxy, TypesOK, ClientTypeOK, ProxyTypeOK,
     NetInv, Late, Seen, Early, Sent
<1>3. ASSUME NEW r \in Runs, CreateKeyFile(r) PROVE NetInv'
  BY <1>0, <1>3 DEF CreateKeyFile, Goto, proxy, NetInv, Late, Seen, Early
<1>4. ASSUME NEW r \in Runs, WriteKey(r) PROVE NetInv'
  BY <1>0, <1>4 DEF WriteKey, Goto, proxy, NetInv, Late, Seen, Early
<1>5. ASSUME NEW r \in Runs, SendAllowed(r) PROVE NetInv'
  <2> DEFINE new == [run |-> r, kind |-> "allowed", sequence |-> clock,
                     key |-> key[r], signedAt |-> clock]
  <2>1. /\ phase[r] = "ready" /\ net' = net \cup {new}
        /\ phase' = [phase EXCEPT ![r] = "allowed"]
        /\ base' = [base EXCEPT ![r] = clock]
        /\ UNCHANGED <<clock, key, tables>>
    BY <1>5 DEF SendAllowed, Enter, IngestFrame, SeqBase, proxy
  <2>2. /\ new.run = r /\ new.kind = "allowed" /\ new.key = key[r]
        /\ new.sequence = clock /\ new.signedAt = clock
    OBVIOUS
  <2> HIDE DEF new
  <2>3. \A req \in net : req.run # r
    BY <1>0, <2>1 DEF NetInv, Late, Early
  <2>4. ~Seen(r, "allowed")
    BY <1>0, <2>1 DEF ServedInv, Late, Early, Kinds
  <2>5. clock \in Nat \ {0} /\ phase \in [Runs -> Phases] /\ base \in [Runs -> Nat]
        /\ \A req \in net : req.run \in Runs
    BY <1>0 DEF TypesOK, ClientTypeOK, ProxyTypeOK, Sent
  <2> QED
    BY <1>0, <2>1, <2>2, <2>4, <2>5 DEF NetInv, Late, Early, Seen
<1>6. ASSUME NEW r \in Runs, DeadlineExceeded(r) PROVE NetInv'
  BY <1>0, <1>6 DEF DeadlineExceeded, Goto, proxy, NetInv, Late, Seen, Early
<1>7. ASSUME NEW r \in Runs, Die(r) PROVE NetInv'
  BY <1>0, <1>7 DEF Die, Goto, proxy, NetInv, Late, Seen, Early
<1>8. ASSUME NEW r \in Runs, Configure(r) PROVE NetInv'
  BY <1>0, <1>8 DEF Configure, client, NetInv, Late, Seen
<1>9. ASSUME NEW r \in Runs, NEW reply \in replies, SecondEffect(r, reply)
      PROVE  NetInv'
  <2> DEFINE new == [run |-> r, kind |-> "sensitive", sequence |-> base[r] + 1,
                     key |-> key[r], signedAt |-> clock]
  <2>1. /\ phase[r] = "allowed" /\ net' = net \cup {new}
        /\ phase' = [phase EXCEPT ![r] = "sensitive"] /\ began[r] < clock
        /\ UNCHANGED <<clock, key, base, tables>>
    BY <1>9 DEF SecondEffect, proxy
  <2>2. /\ new.run = r /\ new.kind = "sensitive" /\ new.key = key[r]
        /\ new.sequence = base[r] + 1 /\ new.signedAt = clock
    OBVIOUS
  <2> HIDE DEF new
  <2>3. \A req \in net : req.run # r
    BY <1>0, <1>9 DEF SecondEffect, NetInv, ServedInv, Late, TypesOK,
       ProxyTypeOK, Sent, Kinds
  <2>4. ~Seen(r, "sensitive")
    BY <1>0, <2>1 DEF ServedInv, Late, Kinds
  <2>5. clock \in Nat \ {0} /\ phase \in [Runs -> Phases] /\ base \in [Runs -> Nat]
        /\ \A req \in net : req.run \in Runs
    BY <1>0 DEF TypesOK, ClientTypeOK, ProxyTypeOK, Sent
  <2>6. base[r] \in 1 .. began[r] /\ began[r] \in Nat
    BY <1>0, <2>1 DEF TimeInv, Waiting, Kinds, TypesOK, ClientTypeOK
  <2> QED
    BY <1>0, <2>1, <2>2, <2>3, <2>4, <2>5, <2>6 DEF NetInv, Late, Early, Seen
<1>10. ASSUME NEW r \in Runs, NEW reply \in replies, LastEffect(r, reply)
       PROVE  NetInv'
  BY <1>0, <1>10 DEF LastEffect, proxy, TypesOK, ClientTypeOK, ProxyTypeOK,
     NetInv, Late, Seen, Early, Kinds, Sent, Replies
<1>11. ASSUME NEW req \in net, NEW reply \in Replies, ServeEffect(req, reply),
              tables' \in Tables
       PROVE  NetInv'
  BY <1>0, <1>11 DEF ServeEffect, client, NetInv, Late, Seen
<1>12. CASE Tick
  BY <1>0, <1>12 DEF Tick, client, proxy, TypesOK, ClientTypeOK, NetInv, Late,
     Seen
<1>13. CASE UNCHANGED vars
  BY <1>0, <1>13 DEF vars, client, proxy, NetInv, Late, Seen
<1> QED
  BY Steps, <1>1, <1>2, <1>3, <1>4, <1>5, <1>6, <1>7, <1>8, <1>9, <1>10, <1>11,
     <1>12, <1>13 DEF MockInv, WireInv

(* The proxy takes a request off the wire when it answers it, and a run    *)
(* never sends the same frame again.                                       *)
LEMMA ServedPreserved ==
  ASSUME MockInv, [Next]_vars
  PROVE  ServedInv'
<1>0. TypesOK /\ NetInv /\ ServedInv
  BY DEF MockInv, WireInv
<1>1. ASSUME NEW r \in Runs, Start(r) PROVE ServedInv'
  BY <1>0, <1>1 DEF Start, Enter, proxy, ServedInv, Late, Seen, Early
<1>2. ASSUME NEW r \in Runs, ReadKey(r) PROVE ServedInv'
  BY <1>0, <1>2 DEF ReadKey, Goto, proxy, TypesOK, ClientTypeOK, ProxyTypeOK,
     ServedInv, Late, Seen, Early, Replies
<1>3. ASSUME NEW r \in Runs, CreateKeyFile(r) PROVE ServedInv'
  BY <1>0, <1>3 DEF CreateKeyFile, Goto, proxy, ServedInv, Late, Seen, Early
<1>4. ASSUME NEW r \in Runs, WriteKey(r) PROVE ServedInv'
  BY <1>0, <1>4 DEF WriteKey, Goto, proxy, ServedInv, Late, Seen, Early
<1>5. ASSUME NEW r \in Runs, SendAllowed(r) PROVE ServedInv'
  BY <1>0, <1>5 DEF SendAllowed, Enter, IngestFrame, proxy, ServedInv, Late,
     Seen, Early
<1>6. ASSUME NEW r \in Runs, DeadlineExceeded(r) PROVE ServedInv'
  BY <1>0, <1>6 DEF DeadlineExceeded, Goto, proxy, ServedInv, Late, Seen, Early
<1>7. ASSUME NEW r \in Runs, Die(r) PROVE ServedInv'
  BY <1>0, <1>7 DEF Die, Goto, proxy, ServedInv, Late, Seen, Early
<1>8. ASSUME NEW r \in Runs, Configure(r) PROVE ServedInv'
  BY <1>0, <1>8 DEF Configure, client, ServedInv, Late, Seen
<1>9. ASSUME NEW r \in Runs, NEW reply \in replies, SecondEffect(r, reply)
      PROVE  ServedInv'
  BY <1>0, <1>9 DEF SecondEffect, proxy, ServedInv, Late, Seen, Early
<1>10. ASSUME NEW r \in Runs, NEW reply \in replies, LastEffect(r, reply)
       PROVE  ServedInv'
  BY <1>0, <1>10 DEF LastEffect, proxy, TypesOK, ClientTypeOK, ProxyTypeOK,
     ServedInv, Late, Seen, Early, Kinds, Replies
<1>11. ASSUME NEW req \in net, NEW reply \in Replies, ServeEffect(req, reply),
              tables' \in Tables
       PROVE  ServedInv'
  BY <1>0, <1>11 DEF ServeEffect, client, NetInv, ServedInv, Late, Seen
<1>12. CASE Tick
  BY <1>0, <1>12 DEF Tick, client, proxy, ServedInv, Late, Seen
<1>13. CASE UNCHANGED vars
  BY <1>0, <1>13 DEF vars, client, proxy, ServedInv, Late, Seen
<1> QED
  BY Steps, <1>1, <1>2, <1>3, <1>4, <1>5, <1>6, <1>7, <1>8, <1>9, <1>10, <1>11,
     <1>12, <1>13 DEF MockInv, WireInv

(* The second request goes out on an OK to the first, which the proxy      *)
(* gave for a frame it had stored.                                         *)
LEMMA OrderPreserved ==
  ASSUME MockInv, [Next]_vars
  PROVE  OrderInv'
<1>0. TypesOK /\ NetInv /\ ServedInv /\ OrderInv
  BY DEF MockInv, WireInv
<1>1. ASSUME NEW r \in Runs, Start(r) PROVE OrderInv'
  BY <1>0, <1>1 DEF Start, Enter, proxy, OrderInv, Seen
<1>2. ASSUME NEW r \in Runs, ReadKey(r) PROVE OrderInv'
  BY <1>0, <1>2 DEF ReadKey, Goto, proxy, TypesOK, ClientTypeOK, OrderInv, Seen
<1>3. ASSUME NEW r \in Runs, CreateKeyFile(r) PROVE OrderInv'
  BY <1>0, <1>3 DEF CreateKeyFile, Goto, proxy, OrderInv, Seen
<1>4. ASSUME NEW r \in Runs, WriteKey(r) PROVE OrderInv'
  BY <1>0, <1>4 DEF WriteKey, Goto, proxy, OrderInv, Seen
<1>5. ASSUME NEW r \in Runs, SendAllowed(r) PROVE OrderInv'
  BY <1>0, <1>5 DEF SendAllowed, Enter, IngestFrame, proxy, OrderInv, Seen
<1>6. ASSUME NEW r \in Runs, DeadlineExceeded(r) PROVE OrderInv'
  BY <1>0, <1>6 DEF DeadlineExceeded, Goto, proxy, OrderInv, Seen
<1>7. ASSUME NEW r \in Runs, Die(r) PROVE OrderInv'
  BY <1>0, <1>7 DEF Die, Goto, proxy, OrderInv, Seen
<1>8. ASSUME NEW r \in Runs, Configure(r) PROVE OrderInv'
  BY <1>0, <1>8 DEF Configure, client, OrderInv, Seen
<1>9. ASSUME NEW r \in Runs, NEW reply \in replies, SecondEffect(r, reply)
      PROVE  OrderInv'
  <2>1. <<r, "allowed">> \in stored
    BY <1>0, <1>9 DEF SecondEffect, OrderInv
  <2>2. /\ \A req \in net' : req \in net \/ req.run = r
        /\ replies' \subseteq replies /\ UNCHANGED <<tables, stored>>
        /\ \A q \in Runs \ {r} : phase'[q] = phase[q]
    BY <1>9 DEF SecondEffect, proxy
  <2> QED
    BY <1>0, <2>1, <2>2 DEF OrderInv, Seen
<1>10. ASSUME NEW r \in Runs, NEW reply \in replies, LastEffect(r, reply)
       PROVE  OrderInv'
  BY <1>0, <1>10 DEF LastEffect, proxy, OrderInv, Seen
<1>11. ASSUME NEW req \in net, NEW reply \in Replies, ServeEffect(req, reply),
              tables' \in Tables
       PROVE  OrderInv'
  BY <1>0, <1>11 DEF ServeEffect, client, OrderInv, Seen, Verdict
<1>12. CASE Tick
  BY <1>0, <1>12 DEF Tick, client, proxy, OrderInv, Seen
<1>13. CASE UNCHANGED vars
  BY <1>0, <1>13 DEF vars, client, proxy, OrderInv, Seen
<1> QED
  BY Steps, <1>1, <1>2, <1>3, <1>4, <1>5, <1>6, <1>7, <1>8, <1>9, <1>10, <1>11,
     <1>12, <1>13 DEF MockInv, WireInv

(* A run alone takes its base from a clock that has moved on since it      *)
(* began, when every number in use was no later than the clock; what is    *)
(* recorded afterwards is older, or its own and in order.                  *)
LEMMA SequencePreserved ==
  ASSUME MockInv, [Next]_vars
  PROVE  SequenceInv'
<1>0. TypesOK /\ AloneInv /\ KeyInv /\ TimeInv /\ NetInv /\ ServedInv /\ SequenceInv
  BY DEF MockInv, WireInv
<1>1. ASSUME NEW r \in Runs, Start(r) PROVE SequenceInv'
  <2>1. /\ phase[r] = "idle" /\ phase' = [phase EXCEPT ![r] = "load"]
        /\ began' = [began EXCEPT ![r] = clock]
        /\ met' = IF Live = {} THEN met ELSE met \cup Live \cup {r}
        /\ UNCHANGED <<clock, net, tables>>
    BY <1>1 DEF Start, Enter, proxy
  <2>2. Live' = Live \cup {r} /\ r \notin Live
    BY <1>0, <2>1 DEF Live, TypesOK, ClientTypeOK
  <2>3. tables.max[DeviceID] <= clock /\ \A req \in net : req.sequence <= clock
    BY <1>0 DEF SequenceInv, NetInv
  <2>4. began'[r] = clock /\ phase'[r] = "load"
    BY <1>0, <2>1 DEF TypesOK, ClientTypeOK
  <2>5. CASE Live = {}
    BY <2>1, <2>2, <2>3, <2>4 DEF SequenceInv, Waiting, Kinds
  <2>6. CASE Live # {}
    BY <2>1, <2>2, <2>3, <2>6 DEF SequenceInv
  <2> QED
    BY <2>5, <2>6
<1>2. ASSUME NEW r \in Runs, ReadKey(r) PROVE SequenceInv'
  BY <1>0, <1>2 DEF ReadKey, Goto, proxy, TypesOK, ClientTypeOK, SequenceInv,
     Live, Early, Kinds, Waiting
<1>3. ASSUME NEW r \in Runs, CreateKeyFile(r) PROVE SequenceInv'
  BY <1>0, <1>3 DEF CreateKeyFile, Goto, proxy, SequenceInv, Live, Early,
     Kinds, Waiting
<1>4. ASSUME NEW r \in Runs, WriteKey(r) PROVE SequenceInv'
  BY <1>0, <1>4 DEF WriteKey, Goto, proxy, SequenceInv, Live, Early, Kinds,
     Waiting
<1>5. ASSUME NEW r \in Runs, SendAllowed(r) PROVE SequenceInv'
  <2> DEFINE new == [run |-> r, kind |-> "allowed", sequence |-> clock,
                     key |-> key[r], signedAt |-> clock]
  <2>1. /\ phase[r] = "ready" /\ clock > began[r] /\ net' = net \cup {new}
        /\ phase' = [phase EXCEPT ![r] = "allowed"]
        /\ base' = [base EXCEPT ![r] = clock]
        /\ UNCHANGED <<clock, met, tables>>
    BY <1>5 DEF SendAllowed, Enter, IngestFrame, SeqBase, proxy
  <2>2. new.run = r /\ new.sequence = clock
    OBVIOUS
  <2> HIDE DEF new
  <2>3. Live' = Live /\ r \in Live /\ \A q \in Live \ met : q = r
    BY <1>0, <2>1 DEF AloneInv, Live
  <2>4. phase'[r] = "allowed" /\ base'[r] = clock
    BY <1>0, <2>1 DEF TypesOK, ClientTypeOK
  <2>5. \A req \in net : req.run # r
    BY <1>0, <2>1 DEF NetInv, Late, Early
  <2>6. r \notin met => /\ tables.max[DeviceID] <= began[r]
                       /\ \A req \in net : req.sequence <= began[r]
    BY <1>0, <2>1, <2>3 DEF SequenceInv, Early
  <2>7. /\ clock \in Nat /\ began[r] \in Nat /\ tables.max[DeviceID] \in Nat
        /\ \A req \in net : req.sequence \in Nat
    BY <1>0, LatestType DEF TypesOK, ClientTypeOK, ProxyTypeOK, Sent
  <2>8. tables'.max[DeviceID] <= clock'
    BY <1>0, <2>1 DEF SequenceInv
  <2>9. ASSUME r \notin met
        PROVE  /\ \A req \in net' : IF req.run = r
                                    THEN tables.max[DeviceID] < req.sequence
                                    ELSE req.sequence < clock
               /\ tables.max[DeviceID] <= clock + 0
    BY <2>1, <2>2, <2>5, <2>6, <2>7, <2>9
  <2> QED
    BY <2>1, <2>3, <2>4, <2>8, <2>9 DEF SequenceInv, Early
<1>6. ASSUME NEW r \in Runs, DeadlineExceeded(r) PROVE SequenceInv'
  BY <1>0, <1>6 DEF DeadlineExceeded, Goto, proxy, SequenceInv, Live, Waiting
<1>7. ASSUME NEW r \in Runs, Die(r) PROVE SequenceInv'
  BY <1>0, <1>7 DEF Die, Goto, proxy, TypesOK, ClientTypeOK, AloneInv,
     SequenceInv, Live
<1>8. ASSUME NEW r \in Runs, Configure(r) PROVE SequenceInv'
  BY <1>0, <1>8 DEF Configure, client, SequenceInv, Live, Waiting
<1>9. ASSUME NEW r \in Runs, NEW reply \in replies, SecondEffect(r, reply)
      PROVE  SequenceInv'
  <2> DEFINE new == [run |-> r, kind |-> "sensitive", sequence |-> base[r] + 1,
                     key |-> key[r], signedAt |-> clock]
  <2>1. /\ phase[r] = "allowed" /\ net' = net \cup {new}
        /\ phase' = [phase EXCEPT ![r] = "sensitive"]
        /\ UNCHANGED <<clock, base, met, tables>>
    BY <1>9 DEF SecondEffect, proxy
  <2>2. new.run = r /\ new.sequence = base[r] + 1
    OBVIOUS
  <2> HIDE DEF new
  <2>3. Live' = Live /\ r \in Live /\ \A q \in Live \ met : q = r
    BY <1>0, <2>1 DEF AloneInv, Live
  <2>4. phase'[r] = "sensitive"
    BY <1>0, <2>1 DEF TypesOK, ClientTypeOK
  <2>5. \A req \in net : req.run # r
    BY <1>0, <1>9 DEF SecondEffect, NetInv, ServedInv, Late, TypesOK,
       ProxyTypeOK, Sent, Kinds
  <2>6. base[r] \in Nat /\ tables.max[DeviceID] \in Nat
    BY <1>0, LatestType DEF TypesOK, ClientTypeOK, ProxyTypeOK
  <2>7. r \notin met => /\ tables.max[DeviceID] <= base[r]
                       /\ \A req \in net : req.sequence < base[r]
    BY <1>0, <2>1, <2>3, <2>5, <2>6 DEF SequenceInv, Waiting, Kinds
  <2>8. tables'.max[DeviceID] <= clock'
    BY <1>0, <2>1 DEF SequenceInv
  <2>9. ASSUME r \notin met
        PROVE  /\ \A req \in net' : IF req.run = r
                                    THEN tables.max[DeviceID] < req.sequence
                                    ELSE req.sequence < base[r]
               /\ tables.max[DeviceID] <= base[r] + 1
    BY <2>1, <2>2, <2>5, <2>6, <2>7, <2>9
  <2> QED
    BY <2>1, <2>3, <2>4, <2>8, <2>9 DEF SequenceInv, Early
<1>10. ASSUME NEW r \in Runs, NEW reply \in replies, LastEffect(r, reply)
       PROVE  SequenceInv'
  <2>1. /\ phase[r] \in Kinds /\ UNCHANGED <<clock, base, began, met, net, tables>>
        /\ \E p \in {"done", "failed"} : phase' = [phase EXCEPT ![r] = p]
    BY <1>0, <1>10 DEF LastEffect, proxy, TypesOK, ProxyTypeOK, Replies
  <2>2. Live' = Live \ {r}
    BY <1>0, <2>1 DEF Live, TypesOK, ClientTypeOK
  <2>3. \A q \in Live' : phase'[q] = phase[q]
    BY <2>1, <2>2
  <2> QED
    BY <1>0, <2>1, <2>2 DEF SequenceInv, Waiting
<1>11. ASSUME NEW req \in net, NEW reply \in Replies, ServeEffect(req, reply),
              tables' \in Tables
       PROVE  SequenceInv'
  <2>1. /\ net' = net \ {req} /\ UNCHANGED <<clock, phase, began, base, met>>
        /\ tables' = tables \/ tables'.max[DeviceID] = req.sequence
    BY <1>11 DEF ServeEffect, client
  <2>2. Live' = Live
    BY <2>1 DEF Live
  <2>3. CASE tables' = tables
    BY <1>0, <2>1, <2>2, <2>3 DEF SequenceInv, Waiting
  <2>4. CASE tables'.max[DeviceID] = req.sequence
    <3>1. req.sequence <= clock
      BY <1>0 DEF NetInv
    <3>2. ASSUME NEW q \in Live \ met, phase[q] \in Early
          PROVE  /\ req.sequence <= began[q]
                 /\ \A other \in net : other.sequence <= began[q]
      BY <1>0, <3>2 DEF SequenceInv
    <3>3. ASSUME NEW q \in Live \ met, Waiting(q)
          PROVE  /\ \A other \in net \ {req} : IF other.run = q
                                               THEN req.sequence < other.sequence
                                               ELSE other.sequence < base[q]
                 /\ req.sequence
                        <= base[q] + (IF phase[q] = "allowed" THEN 0 ELSE 1)
      <4>1. \A other \in net :
                /\ other.run = q =>
                        other.kind = phase[q] /\ other.sequence >= base[q]
                /\ other.run # q => other.sequence < base[q]
                /\ other.sequence
                        <= base[q] + (IF phase[q] = "allowed" THEN 0 ELSE 1)
        BY <1>0, <3>3 DEF SequenceInv, NetInv, Late, Waiting, Kinds, Live,
           TypesOK, ClientTypeOK, ProxyTypeOK, Sent
      <4>2. \A other \in net \ {req} : other.run = q => req.run # q
        BY <1>0, <4>1 DEF NetInv
      <4>3. base[q] \in Nat /\ \A other \in net : other.sequence \in Nat
        BY <1>0 DEF Live, TypesOK, ClientTypeOK, ProxyTypeOK, Sent
      <4> QED
        BY <4>1, <4>2, <4>3
    <3> QED
      BY <2>1, <2>2, <2>4, <3>1, <3>2, <3>3 DEF SequenceInv, Waiting
  <2> QED
    BY <2>1, <2>3, <2>4
<1>12. CASE Tick
  BY <1>0, LatestType, <1>12 DEF Tick, client, proxy, TypesOK, ClientTypeOK,
     ProxyTypeOK, SequenceInv, Live, Waiting
<1>13. CASE UNCHANGED vars
  BY <1>0, <1>13 DEF vars, client, proxy, SequenceInv, Live, Waiting
<1> QED
  BY Steps, <1>1, <1>2, <1>3, <1>4, <1>5, <1>6, <1>7, <1>8, <1>9, <1>10, <1>11,
     <1>12, <1>13 DEF MockInv, WireInv

(* None of the causes of an error is there for a run alone that uses the   *)
(* registered key: it was signed no earlier than its base, so that within  *)
(* the deadline it is no older than TTL, and its number is above all.      *)
LEMMA AnswerPreserved ==
  ASSUME MockInv, [Next]_vars
  PROVE  AnswerInv'
<1>0. /\ TypesOK /\ KeyInv /\ TimeInv /\ AloneInv /\ NetInv /\ ServedInv
      /\ SequenceInv /\ AnswerInv /\ HeardInv
  BY DEF MockInv, WireInv
<1>1. ASSUME NEW r \in Runs, Start(r) PROVE AnswerInv'
  BY <1>0, <1>1 DEF Start, Enter, proxy, KeyInv, AnswerInv, HeardInv, Early
<1>2. ASSUME NEW r \in Runs, ReadKey(r) PROVE AnswerInv'
  BY <1>0, <1>2 DEF ReadKey, Goto, proxy, TypesOK, ClientTypeOK, ProxyTypeOK,
     ServedInv, AnswerInv, Late, Early, Replies
<1>3. ASSUME NEW r \in Runs, CreateKeyFile(r) PROVE AnswerInv'
  BY <1>0, <1>3 DEF CreateKeyFile, Goto, proxy, KeyInv, AnswerInv, HeardInv
<1>4. ASSUME NEW r \in Runs, WriteKey(r) PROVE AnswerInv'
  BY <1>0, <1>4 DEF WriteKey, Goto, proxy, ServedInv, AnswerInv, Late, Early
<1>5. ASSUME NEW r \in Runs, SendAllowed(r) PROVE AnswerInv'
  BY <1>0, <1>5 DEF SendAllowed, Enter, proxy, ServedInv, AnswerInv, Late,
     Early
<1>6. ASSUME NEW r \in Runs, DeadlineExceeded(r) PROVE AnswerInv'
  BY <1>0, <1>6 DEF DeadlineExceeded, Goto, proxy, TypesOK,
     ProxyTypeOK, AnswerInv, Kinds, Waiting, Replies
<1>7. ASSUME NEW r \in Runs, Die(r) PROVE AnswerInv'
  BY <1>0, <1>7 DEF Die, Goto, proxy, TypesOK, ProxyTypeOK, AnswerInv, Live,
     Kinds, Replies
<1>8. ASSUME NEW r \in Runs, Configure(r) PROVE AnswerInv'
  BY <1>0, <1>8 DEF Configure, AnswerInv, HeardInv
<1>9. ASSUME NEW r \in Runs, NEW reply \in replies, SecondEffect(r, reply)
      PROVE  AnswerInv'
  BY <1>0, <1>9 DEF SecondEffect, proxy, ServedInv, AnswerInv, Late
<1>10. ASSUME NEW r \in Runs, NEW reply \in replies, LastEffect(r, reply)
       PROVE  AnswerInv'
  BY <1>0, <1>10 DEF LastEffect, proxy, TypesOK, ProxyTypeOK, AnswerInv, Kinds,
     Replies
<1>11. ASSUME NEW req \in net, NEW reply \in Replies, ServeEffect(req, reply),
              tables' \in Tables
       PROVE  AnswerInv'
  <2> SUFFICES ASSUME NEW other \in replies', other.run \notin met',
                      key'[other.run] = registered', phase'[other.run] = other.kind,
                      clock' <= expires'[other.run]
               PROVE  other.status = "OK"
    BY DEF AnswerInv
  <2>1. /\ replies' = replies \cup {reply}
        /\ reply.run = req.run /\ reply.kind = req.kind
        /\ UNCHANGED <<clock, phase, key, base, expires, met, registered>>
    BY <1>11 DEF ServeEffect, client
  <2>2. CASE other \in replies
    BY <1>0, <2>1, <2>2 DEF AnswerInv
  <2>3. CASE other = reply /\ reply.status # "OK"
    <3> DEFINE r == req.run
    <3>1. /\ r \in Live \ met /\ Waiting(r)
          /\ key[r] = registered /\ phase[r] = req.kind /\ clock <= expires[r]
      BY <1>0, <2>1, <2>3 DEF TypesOK, ProxyTypeOK, Sent, Live, Waiting, Kinds
    <3>2. /\ req.key = registered /\ req.signedAt >= base[r]
          /\ ~Seen(req.run, req.kind)
      BY <1>0, <3>1 DEF NetInv
    <3>3. tables.max[DeviceID] < req.sequence
      BY <1>0, <3>1 DEF SequenceInv
    <3>4. expires[r] = base[r] + Deadline
      BY <1>0, <3>1 DEF TimeInv, Live
    <3>5. /\ clock \in Nat /\ base[r] \in Nat
          /\ req.signedAt \in Nat /\ req.sequence \in Nat
          /\ tables.max[DeviceID] \in Nat
      BY <1>0, LatestType DEF TypesOK, ClientTypeOK, ProxyTypeOK, Sent
    <3>6. clock - req.signedAt <= TTL
      BY <3>1, <3>2, <3>4, <3>5, Constants
    <3>7. \/ req.key # registered \/ clock - req.signedAt > TTL
          \/ Seen(req.run, req.kind) \/ req.sequence <= tables.max[DeviceID]
      BY <1>11, <2>3 DEF ServeEffect
    <3> QED
      BY <3>2, <3>3, <3>5, <3>6, <3>7, Constants
  <2> QED
    BY <2>1, <2>2, <2>3
<1>12. CASE Tick
  BY <1>0, <1>12 DEF Tick, client, proxy, TypesOK, ClientTypeOK, ProxyTypeOK,
     AnswerInv, Replies
<1>13. CASE UNCHANGED vars
  BY <1>0, <1>13 DEF vars, client, proxy, AnswerInv
<1> QED
  BY Steps, <1>1, <1>2, <1>3, <1>4, <1>5, <1>6, <1>7, <1>8, <1>9, <1>10, <1>11,
     <1>12, <1>13 DEF MockInv, WireInv

(* What a run alone hears is therefore no error, and the decisions come    *)
(* through the wire as the sanitizer made them.                            *)
LEMMA HeardPreserved ==
  ASSUME MockInv, [Next]_vars
  PROVE  HeardInv'
<1>0. TypesOK /\ KeyInv /\ OrderInv /\ AnswerInv /\ HeardInv
  BY DEF MockInv
<1>1. ASSUME NEW r \in Runs, Start(r) PROVE HeardInv'
  BY <1>0, <1>1 DEF Start, Enter, proxy, HeardInv, RunAloneIsServed, Early
<1>2. ASSUME NEW r \in Runs, ReadKey(r) PROVE HeardInv'
  BY <1>0, <1>2 DEF ReadKey, Goto, proxy, TypesOK, ClientTypeOK, HeardInv,
     RunAloneIsServed, Early
<1>3. ASSUME NEW r \in Runs, CreateKeyFile(r) PROVE HeardInv'
  BY <1>0, <1>3 DEF CreateKeyFile, Goto, proxy, HeardInv, RunAloneIsServed,
     Early
<1>4. ASSUME NEW r \in Runs, WriteKey(r) PROVE HeardInv'
  BY <1>0, <1>4 DEF WriteKey, Goto, proxy, HeardInv, RunAloneIsServed, Early
<1>5. ASSUME NEW r \in Runs, SendAllowed(r) PROVE HeardInv'
  BY <1>0, <1>5 DEF SendAllowed, Enter, proxy, AnswerInv, HeardInv,
     RunAloneIsServed, Early, Kinds, Replies
<1>6. ASSUME NEW r \in Runs, DeadlineExceeded(r) PROVE HeardInv'
  BY <1>0, <1>6 DEF DeadlineExceeded, Goto, proxy, HeardInv, RunAloneIsServed,
     Early
<1>7. ASSUME NEW r \in Runs, Die(r) PROVE HeardInv'
  BY <1>0, <1>7 DEF Die, Goto, proxy, HeardInv, RunAloneIsServed, Early
<1>8. ASSUME NEW r \in Runs, Configure(r) PROVE HeardInv'
  BY <1>0, <1>8 DEF Configure, client, HeardInv, RunAloneIsServed
<1>9. ASSUME NEW r \in Runs, NEW reply \in replies, SecondEffect(r, reply)
      PROVE  HeardInv'
  <2>1. phase[r] = "allowed" /\ heard[r] = <<>> /\ registered # NoKey
    BY <1>0, <1>9 DEF SecondEffect, HeardInv
  <2>2. ResponseFromProto(reply.response).decision = "accept"
    BY <1>0, <1>9, DecisionSurvives DEF SecondEffect, OrderInv
  <2>3. /\ heard' = [heard EXCEPT ![r] = <<"accept">>]
        /\ phase' = [phase EXCEPT ![r] = "sensitive"]
        /\ UNCHANGED <<key, met, registered>>
    BY <1>9, <2>1, <2>2 DEF SecondEffect, proxy
  <2>4. DOMAIN heard = Runs /\ phase \in [Runs -> Phases]
    BY <1>0 DEF TypesOK, ClientTypeOK
  <2> QED
    BY <1>0, <2>3, <2>4 DEF HeardInv, RunAloneIsServed, Early
<1>10. ASSUME NEW r \in Runs, NEW reply \in replies, LastEffect(r, reply)
       PROVE  HeardInv'
  <2>1. registered # NoKey /\ phase[r] \in Kinds
    BY <1>0, <1>10 DEF LastEffect, HeardInv, TypesOK, ProxyTypeOK, Replies
  <2>2. /\ \A q \in Runs \ {r} : heard'[q] = heard[q] /\ phase'[q] = phase[q]
        /\ phase'[r] \in {"done", "failed"}
        /\ UNCHANGED <<key, met, registered>>
    BY <1>0, <1>10 DEF LastEffect, proxy, TypesOK, ClientTypeOK
  <2>3. ASSUME r \notin met, key[r] = registered
        PROVE  heard'[r] = <<"accept", "quarantine">>
    <3>1. reply.status = "OK" /\ phase[r] = "sensitive" /\ reply.kind = "sensitive"
      BY <1>0, <1>10, <2>1, <2>3 DEF LastEffect, AnswerInv, Kinds
    <3>2. ResponseFromProto(reply.response).decision = "quarantine"
      BY <1>0, <3>1, DecisionSurvives DEF OrderInv
    <3>3. heard[r] = <<"accept">>
      BY <1>0, <3>1 DEF HeardInv
    <3>4. heard'[r] = Append(heard[r], "quarantine")
      BY <1>0, <1>10, <3>1, <3>2 DEF LastEffect, TypesOK, ClientTypeOK
    <3> QED
      BY <3>3, <3>4, AppendToOne
  <2> QED
    BY <1>0, <2>1, <2>2, <2>3 DEF HeardInv, RunAloneIsServed, Early, Kinds
<1>11. ASSUME NEW req \in net, NEW reply \in Replies, ServeEffect(req, reply),
              tables' \in Tables
       PROVE  HeardInv'
  BY <1>0, <1>11 DEF ServeEffect, client, HeardInv, RunAloneIsServed
<1>12. CASE Tick
  BY <1>0, <1>12 DEF Tick, client, proxy, HeardInv, RunAloneIsServed
<1>13. CASE UNCHANGED vars
  BY <1>0, <1>13 DEF vars, client, proxy, HeardInv, RunAloneIsServed
<1> QED
  BY Steps, <1>1, <1>2, <1>3, <1>4, <1>5, <1>6, <1>7, <1>8, <1>9, <1>10, <1>11,
     <1>12, <1>13 DEF MockInv, WireInv

-----------------------------------------------------------------------------
(* The invariant holds before any run is started. *)
LEMMA InitMockInv ==
  ASSUME Init
  PROVE  MockInv
<1>1. /\ tables \in Tables /\ tables.seen = {} /\ tables.max[DeviceID] = 0
  BY MockClientAssumption DEF Init, EmptyTables, Tables
<1>2. Live = {}
  BY DEF Init, Live
<1>3. TypesOK
  BY <1>1 DEF Init, TypesOK, ClientTypeOK, ProxyTypeOK, Phases, Early
<1>4. AloneInv /\ SequenceInv
  BY <1>1, <1>2 DEF Init, AloneInv, SequenceInv
<1>5. KeyInv /\ TimeInv
  BY DEF Init, KeyInv, TimeInv, Waiting, Kinds
<1>6. WireInv /\ OrderInv /\ AnswerInv
  BY <1>1 DEF Init, WireInv, NetInv, ServedInv, OrderInv, AnswerInv, Seen
<1>7. HeardInv
  BY DEF Init, HeardInv, RunAloneIsServed
<1> QED
  BY <1>3, <1>4, <1>5, <1>6, <1>7 DEF MockInv

(* Every step preserves all of it. *)
LEMMA NextMockInv ==
  ASSUME MockInv, [Next]_vars
  PROVE  MockInv'
  BY TypesPreserved, AlonePreserved, KeyPreserved, TimePreserved, NetPreserved,
     ServedPreserved, OrderPreserved, SequencePreserved, AnswerPreserved,
     HeardPreserved, Zenon DEF MockInv, WireInv

(* The invariant of the mock client and its proxy, in every reachable      *)
(* state: the keys, instants and sequence numbers of the runs, what is on  *)
(* the wire, and what the proxy has recorded and stored, belong together.  *)
THEOREM MockInvariant == Spec => []MockInv
  BY InitMockInv, NextMockInv, PTL DEF Spec

(* However many runs of the mock client there are, wherever they die and   *)
(* whenever their requests arrive, a run that overlaps with no other and   *)
(* signs with the registered key hears accept and then quarantine, or      *)
(* nothing: its sequence numbers from the clock are no replay, and its     *)
(* envelope outlives its deadline.                                         *)
THEOREM RunsAloneAreServed == Spec => []RunAloneIsServed
<1>1. MockInv => RunAloneIsServed
  BY DEF MockInv, HeardInv
<1> QED
  BY <1>1, MockInvariant, PTL

(* loadOrCreateKeypair never replaces the key of a run that was alone      *)
(* while it loaded or created it, however many runs come after it.         *)
THEOREM PrintedKeysAreKept == Spec => []PrintedKeyIsKept
<1>1. MockInv => PrintedKeyIsKept
  BY DEF MockInv, KeyInv, PrintedKeyIsKept
<1> QED
  BY <1>1, MockInvariant, PTL

(* Of every run, also of one that overlaps with others, the proxy records  *)
(* the sensitive frame only after it has stored the allowed one, and       *)
(* stores no sensitive frame.                                              *)
THEOREM SensitiveStaysSecond == Spec => []SensitiveComesSecond
<1>1. MockInv => SensitiveComesSecond
  BY DEF MockInv, OrderInv, SensitiveComesSecond, Seen
<1> QED
  BY <1>1, MockInvariant, PTL

=============================================================================
