------------------------------- MODULE Verifier -------------------------------
(***************************************************************************)
(* auth.Verifier.Verify up to the replay guard (server/internal/auth/      *)
(* auth.go:158-226): the checks in the order the code makes them, the      *)
(* first that fails giving the error.  The replay check that follows them  *)
(* changes state and is a step of its own in the modules that use this     *)
(* one.  The code reads the clock once for each of the two bounds on       *)
(* signedAt; whatever the two readings, the outcome is that of all checks  *)
(* at one of them, so one instant is enough.                               *)
(***************************************************************************)
EXTENDS Signing

CONSTANTS
    Registry,          \* device ID |-> [key, keyID, cert]
    PayloadSize,       \* payload |-> its length in bytes
    MaxPayloadBytes,   \* 0: no limit
    TTL,               \* how long after signing an envelope is good
    ClockSkew          \* how far in the future signedAt may be

ASSUME VerifierAssumption ==
    /\ MaxPayloadBytes \in Nat
    /\ TTL \in Nat \ {0}
    /\ ClockSkew \in Nat

KnownDevice(e) == e.device \in DOMAIN Registry

(* The public key ID must agree as soon as either side sets one. *)
KeyIDMismatch(e) == e.keyID # Registry[e.device].keyID

(* Only the fingerprint that the envelope claims is compared. *)
CertMismatchEnvelopeOnly(e, peer) == e.cert \notin {"", peer}

(* bindClientCert: whoever names a certificate gets that very peer. *)
CertMismatch(e, peer) ==
    \E want \in {Registry[e.device].cert, e.cert} \ {""} : want # peer

FuturePayload(e, now) == e.signedAt > now + ClockSkew

ExpiredPayload(e, now) == now - e.signedAt > TTL

(* The n-th check. *)
Check(n, fails, error) == [order |-> n, fails |-> fails, error |-> error]

Checks(e, peer, now) ==
    { Check(1, \E id \in StringIDs : e[id] = "", "ErrMalformed"),
      Check(2, e.alg # SignatureAlgEd25519, "ErrMalformed"),
      Check(3, e.signature.length = 0, "ErrMissingSignature"),
      Check(4, e.signature.length # SignatureSize, "ErrInvalidSignature"),
      Check(5, PayloadSize[e.payload] = 0, "ErrMalformed"),
      Check(6, MaxPayloadBytes > 0 /\ PayloadSize[e.payload] > MaxPayloadBytes,
            "ErrOversizedPayload"),
      Check(7, e.signedAt = ZeroTime, "ErrMalformed"),
      Check(8, FuturePayload(e, now), "ErrFuturePayload"),
      Check(9, ExpiredPayload(e, now), "ErrExpiredPayload"),
      Check(10, e.hash # HashPayload(e.payload), "ErrMalformed"),
      Check(11, ~KnownDevice(e), "ErrUnauthorized"),
      Check(12, KnownDevice(e) /\ KeyIDMismatch(e), "ErrUnauthorized"),
      Check(13, KnownDevice(e) /\ CertMismatch(e, peer), "ErrCertMismatch"),
      Check(14, CanonicalFails(e), "ErrMalformed"),
      Check(15, KnownDevice(e) /\ ~VerifySignature(Registry[e.device].key, e),
            "ErrInvalidSignature") }

(* Verify gets as far as the replay guard ... *)
Verified(e, peer, now) == \A check \in Checks(e, peer, now) : ~check.fails

(* ... or returns the error of the first check that fails. *)
VerifyError(e, peer, now) ==
    LET failing == {check \in Checks(e, peer, now) : check.fails}
    IN  (CHOOSE check \in failing :
            \A other \in failing : check.order <= other.order).error

(* mapAuthError: the gRPC status of an authentication error. *)
MapAuthError(err) ==
    CASE err \in {"ErrMissingSignature", "ErrInvalidSignature",
                  "ErrUnauthorized", "ErrExpiredPayload", "ErrFuturePayload",
                  "ErrCertMismatch"} -> "Unauthenticated"
      [] err = "ErrReplay" -> "AlreadyExists"
      [] err \in {"ErrOversizedPayload", "ErrReplayStateFull"} ->
            "ResourceExhausted"
      [] OTHER -> "InvalidArgument"

=============================================================================
