---------------------------- MODULE StartupProofs ----------------------------
(***************************************************************************)
(* Proofs about the start of the proxy, for every configuration file, any  *)
(* width of int64 and any key: what is open is what is deferred, so that   *)
(* nothing stays open; and what is served was built from a configuration   *)
(* that Validate has completed and accepted.                               *)
(***************************************************************************)
EXTENDS Startup, TLAPS, SequenceTheorems, WellFoundedInduction

(* What is open is what Close is deferred for, in the order of opening. *)
Opened(s) == deferred = s /\ held = Elements(s)

StackInv ==
    /\ step \in {"load", "register", "openSink", "openGuard", "build", "serve",
                 "close", "exit"}
    /\ step \in {"load", "register", "openSink", "exit"} => Opened(<<>>)
    /\ step = "openGuard" => Opened(<<"sink">>)
    /\ step \in {"build", "serve"} => Opened(<<"sink", "guard">>)
    /\ step = "close" =>
        Opened(<<>>) \/ Opened(<<"sink">>) \/ Opened(<<"sink", "guard">>)

(* The elements of the three stacks there are. *)
LEMMA StackElements ==
  /\ Elements(<<>>) = {}
  /\ Elements(<<"sink">>) = {"sink"}
  /\ Elements(<<"sink", "guard">>) = {"sink", "guard"}
  BY DEF Elements

(* One more and one less. *)
LEMMA StackSteps ==
  /\ Append(<<"sink">>, "guard") = <<"sink", "guard">>
  /\ Len(<<"sink", "guard">>) = 2
  /\ SubSeq(<<"sink", "guard">>, 1, 1) = <<"sink">>
<1> DEFINE one == <<"sink">>  two == <<"sink", "guard">>  S == {"sink", "guard"}
           longer == Append(one, "guard")  shorter == SubSeq(two, 1, 1)
<1>1. /\ one \in Seq(S) /\ Len(one) = 1 /\ one[1] = "sink"
      /\ two \in Seq(S) /\ Len(two) = 2 /\ two[1] = "sink" /\ two[2] = "guard"
  OBVIOUS
<1> HIDE DEF one, two
<1>2. /\ longer \in Seq(S) /\ Len(longer) = 2
      /\ longer[1] = "sink" /\ longer[2] = "guard"
  BY <1>1, AppendProperties
<1>3. shorter \in Seq(S) /\ Len(shorter) = 1 /\ shorter[1] = "sink"
  <2>1. \A i \in 1 .. 1 : two[i] \in S
    BY <1>1
  <2> QED
    BY <1>1, <2>1, SubSeqProperties
<1> HIDE DEF longer, shorter, S
<1>4. longer = two
  <2>1. \A i \in 1 .. 2 : i = 1 \/ i = 2
    OBVIOUS
  <2> QED
    BY <1>1, <1>2, <2>1, SeqEqual
<1>5. shorter = one
  <2>1. \A i \in 1 .. 1 : i = 1
    OBVIOUS
  <2> QED
    BY <1>1, <1>3, <2>1, SeqEqual
<1> QED
  BY <1>1, <1>4, <1>5 DEF longer, shorter, one, two

(* Closing takes what was opened last. *)
LEMMA CloseTop ==
  ASSUME Close, Opened(<<>>) \/ Opened(<<"sink">>) \/ Opened(<<"sink", "guard">>)
  PROVE  Opened(<<>>)' \/ Opened(<<"sink">>)'
<1>1. CASE Opened(<<"sink">>)
  <2>1. deferred' = <<>>
    BY <1>1 DEF Close, Opened
  <2> QED
    BY <1>1, <2>1, StackElements DEF Close, Opened
<1>2. CASE Opened(<<"sink", "guard">>)
  <2>1. deferred' = <<"sink">>
    BY <1>2, StackSteps DEF Close, Opened
  <2> QED
    BY <1>2, <2>1, StackElements DEF Close, Opened
<1>3. ~Opened(<<>>)
  BY DEF Close, Opened
<1> QED
  BY <1>1, <1>2, <1>3

(* StackInv is kept by every step. *)
LEMMA NextStackInv == StackInv /\ [Next]_vars => StackInv'
<1> SUFFICES ASSUME StackInv, [Next]_vars
             PROVE  StackInv'
  OBVIOUS
<1>1. ASSUME Fail, step \in {"load", "openSink", "openGuard", "build", "serve"}
      PROVE  StackInv'
  BY <1>1 DEF Fail, StackInv, Opened
<1>2. CASE Load \/ Register
  BY <1>1, <1>2 DEF Load, Register, StackInv, Opened
<1>3. CASE OpenSink
  <2>1. CASE Open("sink", "openGuard")
    <3>1. Opened(<<"sink">>)'
      BY <1>3, <2>1, StackElements DEF OpenSink, Open, StackInv, Opened
    <3> QED
      BY <2>1, <3>1 DEF Open, StackInv
  <2> QED
    BY <1>1, <1>3, <2>1 DEF OpenSink
<1>4. CASE OpenGuard
  <2>1. CASE Open("guard", "build")
    <3>1. Opened(<<"sink", "guard">>)'
      BY <1>4, <2>1, StackElements, StackSteps DEF OpenGuard, Open, StackInv, Opened
    <3> QED
      BY <2>1, <3>1 DEF Open, StackInv
  <2> QED
    BY <1>1, <1>4, <2>1 DEF OpenGuard
<1>5. CASE Build
  BY <1>1, <1>5 DEF Build, StackInv, Opened
<1>6. CASE Serve
  BY <1>1, <1>6 DEF Serve
<1>7. CASE Close
  BY <1>7, CloseTop DEF StackInv, Close
<1>8. CASE Exit
  BY <1>8, StackElements DEF Exit, StackInv, Opened
<1>9. CASE UNCHANGED vars
  BY <1>9 DEF vars, StackInv, Opened
<1> QED
  BY <1>2, <1>3, <1>4, <1>5, <1>6, <1>7, <1>8, <1>9 DEF Next

(* A start that fails half way leaves nothing open, and the guard is       *)
(* closed before the sink (main.go:61, 66 and every error return).         *)
THEOREM NothingStaysOpen == Spec => []NothingLeftOpen
<1>1. Init => StackInv
  BY StackElements DEF Init, StackInv, Opened
<1>2. StackInv => NothingLeftOpen
  BY StackElements DEF StackInv, Opened, NothingLeftOpen
<1> QED
  BY <1>1, <1>2, NextStackInv, PTL DEF Spec

-----------------------------------------------------------------------------
(* A configuration that Validate has completed and let pass. *)
Accepted(c) ==
    /\ Valid(c)
    /\ c.devices \in Seq(DeviceConfig)
    /\ c.ttlSeconds \in Int
    /\ CertBound(c.devices) => c.mtls.requireClient

Served(c) ==
    [registry   |-> NewStaticDeviceRegistry(c.devices),
     ttl        |-> EffectiveTTL(c),
     maxPayload |-> c.maxPayloadBytes,
     fsync      |-> StorageFsyncEnabled(c),
     pipeline   |-> NewPipeline(c),
     clientAuth |-> ClientAuth(c, NewStaticDeviceRegistry(c.devices))]

BuildInv ==
    /\ step = "load" => config \in Configs
    /\ step \in {"register", "openSink", "openGuard", "build", "serve"} =>
        Accepted(config)
    /\ step \in {"openSink", "openGuard", "build"} =>
        registry = NewStaticDeviceRegistry(config.devices)
    /\ step = "serve" => server = Served(config)

(* What Validate fills in forces the client certificates that it has to. *)
LEMMA CompletedIsAccepted ==
  ASSUME NEW c \in ConfigFiles, Valid(Completed(c))
  PROVE  Accepted(Completed(c))
<1>1. /\ Completed(c).devices = c.devices
      /\ Completed(c).ttlSeconds \in Int
      /\ Completed(c).mtls.requireClient
            = (c.mtls.requireClient \/ CertBound(c.devices))
  BY ConfigAssumption DEF Completed, ConfigFiles, MTLSConfig, Int64
<1>2. c.devices \in Seq(DeviceConfig)
  BY DEF ConfigFiles
<1> QED
  BY <1>1, <1>2 DEF Accepted

(* BuildInv is kept by every step. *)
LEMMA NextBuildInv == BuildInv /\ [Next]_vars => BuildInv'
<1> SUFFICES ASSUME BuildInv, [Next]_vars
             PROVE  BuildInv'
  OBVIOUS
<1>1. ASSUME Fail
      PROVE  BuildInv'
  BY <1>1 DEF Fail, BuildInv
<1>2. CASE Load
  BY <1>1, <1>2, CompletedIsAccepted, ConfigsAssumption DEF Load, BuildInv
<1>0. CASE Register
  BY <1>0 DEF Register, BuildInv
<1>3. CASE OpenSink
  BY <1>1, <1>3 DEF OpenSink, Open, BuildInv
<1>4. CASE OpenGuard
  BY <1>1, <1>4 DEF OpenGuard, Open, BuildInv
<1>5. CASE Build
  BY <1>1, <1>5 DEF Build, BuildInv, Served
<1>6. CASE Serve
  BY <1>1, <1>6 DEF Serve
<1>7. CASE Close
  BY <1>7 DEF Close, BuildInv
<1>8. CASE Exit
  BY <1>8 DEF Exit, BuildInv
<1>9. CASE UNCHANGED vars
  BY <1>9 DEF vars, BuildInv
<1> QED
  BY <1>0, <1>2, <1>3, <1>4, <1>5, <1>6, <1>7, <1>8, <1>9 DEF Next

(* What is served was built from an accepted configuration. *)
LEMMA SpecBuildInv == Spec => []BuildInv
<1>1. Init => BuildInv
  BY DEF Init, BuildInv
<1> QED
  BY <1>1, NextBuildInv, PTL DEF Spec

(* Whatever the configuration says, a server for a device that is bound to *)
(* a client certificate asks every client for one, also when another entry *)
(* of the same device comes without (config.go:105-123, main.go:81-91,     *)
(* 161-164).                                                               *)
THEOREM CertBoundDevicesAreAsked == Spec => []CertBoundDevicesNeedCerts
<1>1. BuildInv => CertBoundDevicesNeedCerts
  <2> SUFFICES ASSUME BuildInv, Serving, CertBound(config.devices)
               PROVE  server.clientAuth = "RequireAndVerifyClientCert"
    BY DEF CertBoundDevicesNeedCerts
  <2>1. config.mtls.enabled /\ config.mtls.requireClient
    BY DEF BuildInv, Serving, Accepted, Valid
  <2>2. server.clientAuth
            = ClientAuth(config, NewStaticDeviceRegistry(config.devices))
    BY DEF BuildInv, Serving, Served
  <2> QED
    BY <2>1, <2>2 DEF ClientAuth
<1> QED
  BY <1>1, SpecBuildInv, PTL

-----------------------------------------------------------------------------
(* What wraps around does not grow, and what fits does not wrap around. *)
LEMMA WrapBounds ==
  ASSUME NEW n \in Nat
  PROVE  /\ Wrap(n) \in Int /\ Wrap(n) <= n
         /\ n <= Int64Max => Wrap(n) = n
<1> DEFINE half == Int64Max + 1
<1>1. half \in Nat \ {0} /\ n + half \in Nat
  BY ConfigAssumption
<1>2. /\ (n + half) % (2 * half) \in Nat
      /\ (n + half) % (2 * half) <= n + half
      /\ n + half < 2 * half => (n + half) % (2 * half) = n + half
  BY <1>1
<1>3. Wrap(n) = ((n + half) % (2 * half)) - half
  BY ConfigAssumption DEF Wrap
<1>4. n <= Int64Max => n + half < 2 * half
  BY ConfigAssumption
<1> HIDE DEF half
<1> QED
  BY <1>1, <1>2, <1>3, <1>4

(* The freshness check and the size check of the verifier are in force,    *)
(* and neither is laxer than configured, although the product of seconds   *)
(* and time.Second may overflow (config.go:93-104, 153-158, auth.go:176,   *)
(* 185-188).                                                               *)
THEOREM LimitsAreInForce == Spec => []LimitsInForce
<1>1. BuildInv => LimitsInForce
  <2> SUFFICES ASSUME BuildInv, Serving
               PROVE  /\ server.ttl \in 1 .. config.ttlSeconds * Second
                      /\ server.maxPayload >= MinPayloadBytes
    BY DEF LimitsInForce
  <2>1. /\ Accepted(config) /\ server.ttl = EffectiveTTL(config)
        /\ server.maxPayload = config.maxPayloadBytes
    BY DEF BuildInv, Serving, Served
  <2>2. config.maxPayloadBytes >= MinPayloadBytes
    BY <2>1 DEF Accepted, Valid
  <2> DEFINE n == config.ttlSeconds * Second  d == DefaultTTLSeconds * Second
  <2>3. config.ttlSeconds \in Nat \ {0} /\ Second \in Nat \ {0}
    <3>1. config.ttlSeconds \in Int /\ config.ttlSeconds >= 1
      BY <2>1 DEF Accepted, Valid
    <3>2. Second \in Nat \ {0}
      BY ConfigAssumption
    <3> QED
      BY <3>1, <3>2
  <2>4. n \in Nat \ {0}
    BY <2>3
  <2>5. d \in Nat \ {0} /\ d <= Int64Max /\ Int64Max \in Nat
    BY ConfigAssumption
  <2>6. EffectiveTTL(config) = IF Wrap(n) <= 0 THEN d ELSE Wrap(n)
    BY DEF EffectiveTTL, SignatureTTL
  <2> HIDE DEF n, d
  <2>7. Wrap(n) \in Int /\ Wrap(n) <= n /\ (n <= Int64Max => Wrap(n) = n)
    BY <2>4, WrapBounds
  <2>8. EffectiveTTL(config) \in 1 .. n
    BY <2>4, <2>5, <2>6, <2>7
  <2> QED
    BY <2>1, <2>2, <2>8 DEF n
<1> QED
  BY <1>1, SpecBuildInv, PTL

-----------------------------------------------------------------------------
(* The entry that counts for a device is one of its own. *)
LEMMA RegistryEntry ==
  ASSUME NEW devices \in Seq(DeviceConfig), NEW k \in DOMAIN devices
  PROVE  /\ NewStaticDeviceRegistry(devices)[devices[k].id] \in Elements(devices)
         /\ NewStaticDeviceRegistry(devices)[devices[k].id].id = devices[k].id
<1> DEFINE id == devices[k].id
           Last(i) == /\ devices[i].id = id
                      /\ \A j \in DOMAIN devices : devices[j].id = id => j <= i
           Distances == {n \in Nat : \E i \in DOMAIN devices :
                            devices[i].id = id /\ n = Len(devices) - i}
<1>1. Len(devices) \in Nat /\ DOMAIN devices = 1 .. Len(devices)
  OBVIOUS
<1>2. Distances \subseteq Nat /\ Len(devices) - k \in Distances
  BY <1>1
<1>3. PICK n \in Distances : \A m \in Distances : <<m, n>> \notin OpToRel(<, Nat)
  BY <1>2, NatLessThanWellFounded, WFMin
<1>4. PICK i \in DOMAIN devices : devices[i].id = id /\ n = Len(devices) - i
  BY <1>3
<1>5. ASSUME NEW j \in DOMAIN devices, devices[j].id = id
      PROVE  j <= i
  <2>1. Len(devices) - j \in Distances /\ Len(devices) - j \in Nat /\ n \in Nat
    BY <1>1, <1>2, <1>5
  <2>2. ~(Len(devices) - j < n)
    BY <1>3, <2>1 DEF OpToRel
  <2> QED
    BY <1>1, <1>4, <2>1, <2>2
<1>6. Last(i)
  BY <1>4, <1>5
<1> DEFINE chosen == CHOOSE x \in DOMAIN devices : Last(x)
<1>7. chosen \in DOMAIN devices /\ Last(chosen)
  BY <1>4, <1>6
<1>8. NewStaticDeviceRegistry(devices)[id] = devices[chosen]
  BY DEF NewStaticDeviceRegistry, Elements
<1> HIDE DEF chosen
<1> QED
  BY <1>7, <1>8 DEF Elements

(* Every configured device is registered, under its own ID, with one of    *)
(* its own entries whole and with a key of the right size                  *)
(* (config.go:130-151, auth.go:54-66).                                     *)
THEOREM RegistryStaysConfigured == Spec => []RegistryIsConfigured
<1>1. BuildInv => RegistryIsConfigured
  <2> SUFFICES ASSUME BuildInv, Serving
               PROVE  /\ \A d \in Elements(config.devices) :
                            d.id \in DOMAIN server.registry
                      /\ \A id \in DOMAIN server.registry :
                            /\ server.registry[id] \in Elements(config.devices)
                            /\ server.registry[id].id = id
                            /\ KeySize[server.registry[id].key] = PublicKeySize
    BY DEF RegistryIsConfigured
  <2>1. /\ config.devices \in Seq(DeviceConfig)
        /\ \A d \in Elements(config.devices) : ~BadDevice(d)
        /\ server.registry = NewStaticDeviceRegistry(config.devices)
    <3>1. Accepted(config) /\ server = Served(config)
      BY DEF BuildInv, Serving
    <3>2. server.registry = NewStaticDeviceRegistry(config.devices)
      BY <3>1 DEF Served
    <3> QED
      BY <3>1, <3>2 DEF Accepted, Valid
  <2>2. DOMAIN server.registry = {d.id : d \in Elements(config.devices)}
    BY <2>1 DEF NewStaticDeviceRegistry
  <2>3. ASSUME NEW id \in DOMAIN server.registry
        PROVE  /\ server.registry[id] \in Elements(config.devices)
               /\ server.registry[id].id = id
    <3>1. PICK k \in DOMAIN config.devices : id = config.devices[k].id
      BY <2>2, <2>3 DEF Elements
    <3> QED
      BY <2>1, <3>1, RegistryEntry
  <2> QED
    BY <2>1, <2>2, <2>3 DEF BadDevice
<1> QED
  BY <1>1, SpecBuildInv, PTL

=============================================================================
