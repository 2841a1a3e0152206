------------------------------- MODULE Signing -------------------------------
(***************************************************************************)
(* Signed envelopes (server/pkg/signing).  An envelope is a record         *)
(*   [protocol, device, trajectory, frame : strings, "" when empty,        *)
(*    sequence : a uint64,   signedAt : a time or NilTime,                 *)
(*    payload : the payload's bytes, a token,                              *)
(*    hash : a digest, {} when empty,                                      *)
(*    alg, keyID, cert : strings, "" when empty,                           *)
(*    signature : [length, key, over]]                                     *)
(* Cryptography is ideal: the digest of p is {p}, and a signature made     *)
(* with a key over some bytes verifies for that key and those bytes only.  *)
(* The canonical bytes are taken to be injective, as they are for IDs      *)
(* without line breaks.                                                    *)
(***************************************************************************)
EXTENDS Integers

(* pb.SignedAt = nil on the wire; the zero time.Time is instant 0. *)
NilTime == -1
ZeroTime == 0

SignatureAlgEd25519 == "Ed25519"

SignatureSize == 64

(* The string IDs: required, signed, and bound to the payload's frame. *)
StringIDs == {"protocol", "device", "trajectory", "frame"}

HashPayload(payload) == {payload}

NoSignature == [length |-> 0, key |-> "", over |-> <<>>]

(* Every field of the envelope but the signature itself is under the       *)
(* signature, empty ones too.                                              *)
CanonicalBytes(e) == [field \in DOMAIN e \ {"signature"} |-> e[field]]

(* When CanonicalBytes returns an error. *)
CanonicalFails(e) ==
    (\E id \in StringIDs : e[id] = "") \/ e.hash = {} \/ e.alg = ""

(* ed25519.Sign *)
Sign(key, e) ==
    [e EXCEPT !.signature = [length |-> SignatureSize,
                             key    |-> key,
                             over   |-> CanonicalBytes(e)]]

(* SignEnvelope fills in the algorithm and the payload hash, ... *)
Completed(e) ==
    [e EXCEPT !.alg = SignatureAlgEd25519, !.hash = HashPayload(e.payload)]

(* ... then signs.  (It refuses an envelope without its IDs; the clients   *)
(* here call it with all of them.)                                         *)
SignEnvelope(key, e) == Sign(key, Completed(e))

(* ed25519.Verify *)
VerifySignature(key, e) ==
    e.signature.key = key /\ e.signature.over = CanonicalBytes(e)

=============================================================================
