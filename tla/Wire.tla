--------------------------------- MODULE Wire ---------------------------------
(***************************************************************************)
(* The conversions between the domain types and the protobuf messages of   *)
(* golem.v1 (server/pkg/signing/proto.go, server/internal/ingest/          *)
(* convert.go, server/pkg/client/client.go).  A message is a record with   *)
(* the fields of telemetry.proto; encoding such a record and decoding it   *)
(* again gives it back.  A response is [decision], a wire response         *)
(* [decision : a number].  Request ID, reason codes and version travel     *)
(* beside the decision and are left out.                                   *)
(***************************************************************************)
EXTENDS Signing

(* The enum Decision of telemetry.proto. *)
DecisionUnspecified == 0
DecisionAccept == 1
DecisionDrop == 2
DecisionQuarantine == 3

(* The zero time has no timestamp on the wire. *)
EnvelopeToProto(e) ==
    [protocol_version |-> e.protocol, device_id |-> e.device,
     trajectory_id |-> e.trajectory, frame_id |-> e.frame,
     sequence |-> e.sequence,
     signed_at |-> IF e.signedAt = ZeroTime THEN NilTime ELSE e.signedAt,
     canonical_payload |-> e.payload, detached_signature |-> e.signature,
     payload_sha256_hex |-> e.hash, signature_alg |-> e.alg,
     public_key_id |-> e.keyID, client_cert_fingerprint_sha256 |-> e.cert]

(* When EnvelopeFromProto returns ErrMalformed. *)
EnvelopeRefused(pb) == pb.signed_at = NilTime

EnvelopeFromProto(pb) ==
    [protocol |-> pb.protocol_version, device |-> pb.device_id,
     trajectory |-> pb.trajectory_id, frame |-> pb.frame_id,
     sequence |-> pb.sequence, signedAt |-> pb.signed_at,
     payload |-> pb.canonical_payload, signature |-> pb.detached_signature,
     hash |-> pb.payload_sha256_hex, alg |-> pb.signature_alg,
     keyID |-> pb.public_key_id, cert |-> pb.client_cert_fingerprint_sha256]

DecisionToProto(d) ==
    CASE d = "accept" -> DecisionAccept
      [] d = "drop" -> DecisionDrop
      [] d = "quarantine" -> DecisionQuarantine
      [] OTHER -> DecisionUnspecified

(* Anything a client does not know becomes the empty decision. *)
DecisionFromProto(n) ==
    CASE n = DecisionAccept -> "accept"
      [] n = DecisionDrop -> "drop"
      [] n = DecisionQuarantine -> "quarantine"
      [] OTHER -> ""

ResponseToProto(response) == [decision |-> DecisionToProto(response.decision)]

ResponseFromProto(pb) == [decision |-> DecisionFromProto(pb.decision)]

=============================================================================
