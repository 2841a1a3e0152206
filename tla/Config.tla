-------------------------------- MODULE Config --------------------------------
(***************************************************************************)
(* The configuration of the proxy (server/internal/config/config.go) and   *)
(* what is built from it: device registry, package lists, freshness bound, *)
(* message size and TLS policy.  "" is the empty string; sizes and times   *)
(* are scaled down with the width of int64.                                *)
(***************************************************************************)
EXTENDS Integers, Sequences

CONSTANTS
    KeySize,                 \* key text |-> length of its decoding, or Undecodable
    Undecodable,
    PublicKeySize,           \* ed25519.PublicKeySize
    Trimmed,                 \* package name |-> the name without outer blanks
    BuiltinSensitive,        \* defaultSensitivePackages
    DefaultMaxPayloadBytes,
    MinPayloadBytes,         \* 1024
    DefaultTTLSeconds,       \* DefaultSignatureTTL in seconds
    Second,                  \* time.Second in units of time.Duration
    Int64Max                 \* 2^63 - 1

ASSUME ConfigAssumption ==
    /\ DefaultTTLSeconds \in Nat \ {0} /\ Second \in Nat \ {0}
    /\ Int64Max \in Nat /\ DefaultTTLSeconds * Second <= Int64Max
    /\ MinPayloadBytes \in 1 .. DefaultMaxPayloadBytes

(* What a file holds.  storage_fsync may be absent, and mtls.files says    *)
(* that all three file names are set.                                      *)
DeviceConfig ==
    [id : STRING, key : DOMAIN KeySize, keyID : STRING, cert : STRING]

MTLSConfig == [enabled : BOOLEAN, files : BOOLEAN, requireClient : BOOLEAN]

Int64 == -(Int64Max + 1) .. Int64Max

ConfigFiles ==
    [grpcAddr : STRING, httpAddr : STRING, storagePath : STRING,
     replayPath : STRING, rotateMaxBytes : Int64, maxPayloadBytes : Int64,
     ttlSeconds : Int64, fsync : {"nil", "true", "false"},
     allowedPackages : Seq(STRING), sensitivePackages : Seq(STRING),
     devices : Seq(DeviceConfig), mtls : MTLSConfig]

Elements(s) == {s[i] : i \in DOMAIN s}

CertBound(devices) == \E d \in Elements(devices) : d.cert # ""

(* What Validate fills in. *)
Completed(c) ==
    [c EXCEPT
        !.replayPath = IF @ = "" THEN "replay.db" ELSE @,
        !.maxPayloadBytes = IF @ = 0 THEN DefaultMaxPayloadBytes ELSE @,
        !.ttlSeconds = IF @ = 0 THEN DefaultTTLSeconds ELSE @,
        !.mtls.requireClient = @ \/ CertBound(c.devices)]

(* A device whose entry AuthDevices, or NewStaticDeviceRegistry, refuses.  *)
BadDevice(d) == d.id = "" \/ KeySize[d.key] # PublicKeySize

(* A certificate binding is taken without TLS. *)
ValidWithoutMTLSCheck(c) ==
    /\ "" \notin {c.grpcAddr, c.httpAddr, c.storagePath}
    /\ c.rotateMaxBytes >= 0
    /\ c.devices # <<>> /\ c.allowedPackages # <<>>
    /\ c.maxPayloadBytes >= MinPayloadBytes
    /\ c.ttlSeconds >= 1
    /\ c.mtls.enabled => c.mtls.files
    /\ \A d \in Elements(c.devices) : ~BadDevice(d)

(* Any number of seconds is taken. *)
ValidWithoutTTLCheck(c) ==
    /\ "" \notin {c.grpcAddr, c.httpAddr, c.storagePath}
    /\ c.rotateMaxBytes >= 0
    /\ c.devices # <<>> /\ c.allowedPackages # <<>>
    /\ c.maxPayloadBytes >= MinPayloadBytes
    /\ c.mtls.enabled => c.mtls.files
    /\ CertBound(c.devices) => c.mtls.enabled
    /\ \A d \in Elements(c.devices) : ~BadDevice(d)

(* Validate returns nil for the completed configuration c. *)
Valid(c) ==
    /\ "" \notin {c.grpcAddr, c.httpAddr, c.storagePath}
    /\ c.rotateMaxBytes >= 0
    /\ c.devices # <<>> /\ c.allowedPackages # <<>>
    /\ c.maxPayloadBytes >= MinPayloadBytes
    /\ c.ttlSeconds >= 1
    /\ c.mtls.enabled => c.mtls.files
    /\ CertBound(c.devices) => c.mtls.enabled
    /\ \A d \in Elements(c.devices) : ~BadDevice(d)

-----------------------------------------------------------------------------
(* int64 arithmetic wraps around. *)
Wrap(n) == ((n + Int64Max + 1) % (2 * (Int64Max + 1))) - (Int64Max + 1)

(* SignatureTTL of a valid configuration: a product of int64s, ...         *)
SignatureTTL(c) == Wrap(c.ttlSeconds * Second)

(* ... of which the verifier takes what is not positive for the default.   *)
EffectiveTTL(c) ==
    IF SignatureTTL(c) <= 0 THEN DefaultTTLSeconds * Second
    ELSE SignatureTTL(c)

StorageFsyncEnabled(c) == c.fsync # "false"

(* The loop variable's last value is stored for every device. *)
RegistryOfLast(devices) ==
    [id \in {d.id : d \in Elements(devices)} |-> devices[Len(devices)]]

(* NewStaticDeviceRegistry: the last entry of a device counts. *)
NewStaticDeviceRegistry(devices) ==
    [id \in {d.id : d \in Elements(devices)} |->
        devices[CHOOSE i \in DOMAIN devices :
                    /\ devices[i].id = id
                    /\ \A j \in DOMAIN devices : devices[j].id = id => j <= i]]

RequiresClientCert(registry) == \E id \in DOMAIN registry : registry[id].cert # ""

(* NewPipeline: blank names are left out, the built-in list stays. *)
PackageSet(names) == {Trimmed[n] : n \in Elements(names)} \ {""}

NewPipeline(c) ==
    [allowed |-> PackageSet(c.allowedPackages),
     sensitive |-> BuiltinSensitive \cup PackageSet(c.sensitivePackages)]

(* transportCredentials: "none" stands for a server without TLS. *)
ClientAuth(c, registry) ==
    CASE ~c.mtls.enabled -> "none"
      [] c.mtls.enabled /\ (c.mtls.requireClient \/ RequiresClientCert(registry)) ->
            "RequireAndVerifyClientCert"
      [] OTHER -> "VerifyClientCertIfGiven"

=============================================================================
