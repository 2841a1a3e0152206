------------------------------- MODULE Startup -------------------------------
(***************************************************************************)
(* The start of a golem-proxy process: run in server/cmd/golem-proxy/      *)
(* main.go up to the moment its servers run.  Any step may fail; what was  *)
(* opened before is then closed by the deferred calls.                     *)
(***************************************************************************)
EXTENDS Config

CONSTANTS
    Configs,    \* the configurations a file may hold
    NoServer    \* nothing is built or served yet

ASSUME ConfigsAssumption == Configs \subseteq ConfigFiles

VARIABLES
    step,       \* where run is
    config,     \* the configuration: as in the file, then completed
    held,       \* what is open
    deferred,   \* the deferred Close calls
    registry,   \* the device registry
    server      \* what the servers are built from

vars == <<step, config, held, deferred, registry, server>>

Init ==
    /\ step = "load"
    /\ config \in Configs
    /\ held = {}
    /\ deferred = <<>>
    /\ registry = NoServer
    /\ server = NoServer

-----------------------------------------------------------------------------
(* An error return: the deferred calls run, the process exits. *)
Fail ==
    /\ step' = "close"
    /\ UNCHANGED <<config, held, deferred, registry, server>>

(* config.Load: no path, an unreadable or unparsable file, or Validate. *)
Load ==
    /\ step = "load"
    /\ \/ /\ Valid(Completed(config))
          /\ config' = Completed(config)
          /\ step' = "register"
          /\ UNCHANGED <<held, deferred, registry, server>>
       \/ Fail

(* AuthDevices and NewStaticDeviceRegistry.  Their errors have been found  *)
(* by Validate, which calls AuthDevices.                                   *)
Register ==
    /\ step = "register"
    /\ registry' = NewStaticDeviceRegistry(config.devices)
    /\ step' = "openSink"
    /\ UNCHANGED <<config, held, deferred, server>>

Open(resource, next) ==
    /\ held' = held \cup {resource}
    /\ deferred' = Append(deferred, resource)
    /\ step' = next
    /\ UNCHANGED <<config, registry, server>>

(* NewJSONLSinkWithOptions may fail to make the directory. *)
OpenSink ==
    /\ step = "openSink"
    /\ Open("sink", "openGuard") \/ Fail

(* The Close of the guard is not deferred. *)
OpenGuardUndeferred ==
    /\ step = "openGuard"
    /\ held' = held \cup {"guard"}
    /\ step' = "build"
    /\ UNCHANGED <<config, deferred, registry, server>>

(* NewSQLiteReplayGuard closes the database itself when it fails. *)
OpenGuard ==
    /\ step = "openGuard"
    /\ Open("guard", "build") \/ Fail

(* The pipeline, the verifier and the TLS policy; with TLS, loading the    *)
(* certificate or the client CA may fail.                                  *)
Build ==
    /\ step = "build"
    /\ \/ /\ server' = [registry   |-> registry,
                        ttl        |-> EffectiveTTL(config),
                        maxPayload |-> config.maxPayloadBytes,
                        fsync      |-> StorageFsyncEnabled(config),
                        pipeline   |-> NewPipeline(config),
                        clientAuth |-> ClientAuth(config, registry)]
          /\ step' = "serve"
          /\ UNCHANGED <<config, held, deferred, registry>>
       \/ config.mtls.enabled /\ Fail

(* The servers end, in one of the ways Proxy tells, and run returns. *)
Serve == step = "serve" /\ Fail

Close ==
    /\ step = "close" /\ deferred # <<>>
    /\ held' = held \ {deferred[Len(deferred)]}
    /\ deferred' = SubSeq(deferred, 1, Len(deferred) - 1)
    /\ UNCHANGED <<step, config, registry, server>>

Exit ==
    /\ step = "close" /\ deferred = <<>>
    /\ step' = "exit"
    /\ UNCHANGED <<config, held, deferred, registry, server>>

Next ==
    \/ Load
    \/ Register
    \/ OpenSink
    \/ OpenGuard
    \/ Build
    \/ Serve
    \/ Close
    \/ Exit

Spec == Init /\ [][Next]_vars

-----------------------------------------------------------------------------
Serving == step = "serve"

(* Whatever the configuration says, a server for a device that is bound to *)
(* a client certificate asks every client for one - "Config forces         *)
(* mtls.require_client" (docs/SECURITY.md:27; config.go:105-123,           *)
(* main.go:81-91, 161-164) - also when another entry of the same device    *)
(* comes without certificate.                                              *)
CertBoundDevicesNeedCerts ==
    Serving /\ CertBound(config.devices) =>
        server.clientAuth = "RequireAndVerifyClientCert"

(* The freshness check and the size check of the verifier are in force,    *)
(* and neither is laxer than configured, although the product of seconds   *)
(* and time.Second may overflow (config.go:93-104, 153-158, auth.go:176,   *)
(* 185-188).                                                               *)
LimitsInForce ==
    Serving =>
        /\ server.ttl \in 1 .. config.ttlSeconds * Second
        /\ server.maxPayload >= MinPayloadBytes

(* Every configured device is registered, under its own ID, with one of    *)
(* its own entries whole - never the key of one entry and the certificate  *)
(* of another - and with a key of the right size (config.go:130-151,       *)
(* auth.go:54-66).                                                         *)
RegistryIsConfigured ==
    Serving =>
        /\ \A d \in Elements(config.devices) : d.id \in DOMAIN server.registry
        /\ \A id \in DOMAIN server.registry :
            /\ server.registry[id] \in Elements(config.devices)
            /\ server.registry[id].id = id
            /\ KeySize[server.registry[id].key] = PublicKeySize

(* A start that fails half way leaves nothing open, and the guard is       *)
(* closed before the sink (main.go:61, 66 and every error return).         *)
NothingLeftOpen ==
    /\ step = "exit" => held = {}
    /\ "guard" \in held => "sink" \in held

=============================================================================
