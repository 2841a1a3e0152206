------------------------------- MODULE MCIngest -------------------------------
(***************************************************************************)
(* Model-checking instances of Ingest.  Two devices; one is bound to a     *)
(* client certificate.  The messages are what their clients sign, and      *)
(* copies of those with one field changed.                                 *)
(***************************************************************************)
EXTENDS Ingest, TLC

MCRegistry ==
    "phone"  :> [key |-> "phoneKey", keyID |-> "", cert |-> ""] @@
    "tablet" :> [key |-> "tabletKey", keyID |-> "tk", cert |-> "tabletCert"]

Frame(device, frame, sequence, package, texts) ==
    [protocol |-> "v1", device |-> device, trajectory |-> "walk",
     frame |-> frame, sequence |-> sequence, package |-> package,
     texts |-> texts, screenshot |-> "shot"]

MCDecoded ==
    "p1" :> Frame("phone", "f1", 1, "maps", {"hello", "ssn"}) @@
    "p2" :> Frame("phone", "f2", 2, " maps ", {"name"}) @@
    "p3" :> Frame("", "", 3, "maps", {}) @@
    "p4" :> Frame("phone", "f3", 2, "maps", {"hello"}) @@
    "p5" :> Frame("phone", "f2", 3, "maps", {}) @@
    "bank" :> Frame("phone", "f2", 2, "bank", {}) @@
    "blank" :> Frame("phone", "f3", 2, "", {}) @@
    "odd" :> Frame("phone", "f3", 3, "maps", {"crash"}) @@
    "t1" :> Frame("tablet", "f1", 1, "maps", {"hello"}) @@
    "t3" :> Frame("tablet", "f3", 3, "maps", {}) @@
    "huge" :> Frame("tablet", "f2", 4, "maps", {})

MCPayloadSize ==
    [p \in DOMAIN MCDecoded \cup {"", "junk"} |->
        CASE p = "" -> 0 [] p = "huge" -> 9 [] OTHER -> 4]

MCTrimSpace ==
    [p \in {"maps", " maps ", "bank", ""} |->
        IF p = " maps " THEN "maps" ELSE p]

Draft(device, frame, sequence, signedAt, payload) ==
    [protocol |-> "v1", device |-> device, trajectory |-> "walk",
     frame |-> frame, sequence |-> sequence, signedAt |-> signedAt,
     payload |-> payload, hash |-> {}, alg |-> "",
     keyID |-> IF device = "tablet" THEN "tk" ELSE "",
     cert |-> IF device = "tablet" THEN "tabletCert" ELSE "",
     signature |-> NoSignature]

Phone(frame, sequence, signedAt, payload) ==
    SignEnvelope("phoneKey", Draft("phone", frame, sequence, signedAt, payload))

Tablet(frame, sequence, signedAt, payload) ==
    SignEnvelope("tabletKey",
                 Draft("tablet", frame, sequence, signedAt, payload))

First == Phone("f1", 1, 1, "p1")

(* Frames a device sends: new ones, a frame ID used again with a new       *)
(* sequence, a sequence used again with a new frame ID, and a frame sent   *)
(* under another sequence than its own.                                    *)
GoodEnvelopes ==
    "first"    :> First @@
    "second"   :> Phone("f2", 2, 1, "p2") @@
    "sameID"   :> Phone("f1", 3, 1, "p3") @@
    "sameSeq"  :> Phone("f3", 2, 1, "p4") @@
    "renumbered" :> Phone("f2", 3, 1, "p2") @@
    "tablet"   :> Tablet("f1", 1, 1, "t1")

(* Two frames, for the liveness check. *)
PairEnvelopes ==
    "first"    :> First @@
    "second"   :> Phone("f2", 2, 1, "p2")

(* Frames the sanitizer or the replay guard refuses; "again" tries the     *)
(* frame ID of "bank" once more with other contents.                       *)
RefusedEnvelopes ==
    "first"    :> First @@
    "bank"     :> Phone("f2", 2, 1, "bank") @@
    "again"    :> Phone("f2", 3, 1, "p5") @@
    "blank"    :> Phone("f3", 2, 1, "blank") @@
    "odd"      :> Phone("f3", 3, 1, "odd") @@
    "junk"     :> Phone("f2", 3, 1, "junk") @@
    "unbound"  :> Phone("f2", 3, 1, "p1") @@
    "tooLarge" :> Phone("f2", 4, 1, "p2") @@
    "zero"     :> Phone("f3", 0, 1, "p1")

(* Envelopes the verifier refuses; "raised" and "swapped" are copies of    *)
(* "first" with a signed field changed, "noFrame" was signed without the   *)
(* checks of SignEnvelope.                                                 *)
ForgedEnvelopes ==
    "first"     :> First @@
    "raised"    :> [First EXCEPT !.sequence = 2] @@
    "swapped"   :> [First EXCEPT !.payload = "p4", !.frame = "f3",
                                 !.sequence = 2, !.hash = {"p4"}] @@
    "rehashed"  :> [First EXCEPT !.payload = "p4"] @@
    "noID"      :> [First EXCEPT !.trajectory = ""] @@
    "noFrame"   :> Sign("phoneKey", Completed(Draft("phone", "", 1, 1, "p1"))) @@
    "rsa"       :> [First EXCEPT !.alg = "RSA"] @@
    "unsigned"  :> [First EXCEPT !.signature = NoSignature] @@
    "short"     :> [First EXCEPT !.signature.length = 8] @@
    "empty"     :> Phone("f2", 2, 1, "") @@
    "huge"      :> Tablet("f2", 4, 1, "huge") @@
    "noTime"    :> Phone("f2", 2, NilTime, "p2") @@
    "zeroTime"  :> Phone("f2", 2, ZeroTime, "p2") @@
    "late"      :> Phone("f2", 2, 4, "p2") @@
    "stranger"  :> SignEnvelope("phoneKey", Draft("watch", "f1", 1, 1, "p1")) @@
    "wrongKey"  :> SignEnvelope("phoneKey", Draft("tablet", "f1", 1, 1, "t1")) @@
    "wrongKeyID" :> SignEnvelope("tabletKey",
                        [Draft("tablet", "f1", 1, 1, "t1")
                            EXCEPT !.keyID = ""]) @@
    "wrongPeer" :> SignEnvelope("tabletKey",
                        [Draft("tablet", "f3", 3, 1, "t3")
                            EXCEPT !.cert = ""]) @@
    "tablet"    :> Tablet("f1", 1, 1, "t1")

(* Both: everything that may be refused somewhere on the way. *)
UnwantedEnvelopes == RefusedEnvelopes @@ ForgedEnvelopes

MCPeer ==
    [m \in Messages |->
        CASE m = "wrongPeer" -> "otherCert"
          [] Envelope[m].device = "tablet" -> "tabletCert"
          [] OTHER -> ""]

PairMessages == DOMAIN PairEnvelopes
GoodMessages == DOMAIN GoodEnvelopes
UnwantedMessages == DOMAIN UnwantedEnvelopes

HandlerSymmetry == Permutations(Handlers)

=============================================================================
