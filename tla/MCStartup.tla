------------------------------ MODULE MCStartup ------------------------------
(***************************************************************************)
(* Model-checking instance of Startup: configurations that differ from a   *)
(* good one in their devices and TLS settings, in their numbers, or in     *)
(* their strings and packages.  int64 has 4 bits, a second 3 ticks: 3 to 5 *)
(* seconds overflow to a negative duration, 6 and 7 to a short one.        *)
(***************************************************************************)
EXTENDS Startup, TLC

MCKeySize ==
    "keyA" :> 32 @@ "keyB" :> 32 @@ "short" :> 31 @@ "junk" :> Undecodable

MCTrimmed == [n \in {"maps", " maps ", "bank", " ", ""} |->
                CASE n = " maps " -> "maps" [] n = " " -> "" [] OTHER -> n]

Device(id, key, cert) == [id |-> id, key |-> key, keyID |-> "", cert |-> cert]

DeviceEntries ==
    {Device("phone", "keyA", ""), Device("phone", "keyB", "cert"),
     Device("tablet", "keyB", ""), Device("tablet", "keyA", "cert"),
     Device("", "keyA", ""), Device("watch", "short", ""),
     Device("watch", "junk", "cert")}

GoodConfig ==
    [grpcAddr |-> ":1", httpAddr |-> ":2", storagePath |-> "frames",
     replayPath |-> "", rotateMaxBytes |-> 0, maxPayloadBytes |-> 0,
     ttlSeconds |-> 0, fsync |-> "nil", allowedPackages |-> <<"maps">>,
     sensitivePackages |-> <<>>,
     devices |-> <<Device("phone", "keyA", "")>>,
     mtls |-> [enabled |-> FALSE, files |-> FALSE, requireClient |-> FALSE]]

DeviceLists == UNION {[1 .. n -> DeviceEntries] : n \in 0 .. 2}

DeviceConfigs ==
    {[GoodConfig EXCEPT !.devices = d, !.mtls = m] :
        d \in DeviceLists,
        m \in [enabled : BOOLEAN, files : BOOLEAN, requireClient : BOOLEAN]}

NumberConfigs ==
    {[GoodConfig EXCEPT !.ttlSeconds = t, !.maxPayloadBytes = p,
                        !.rotateMaxBytes = r] :
        t \in -1 .. 7, p \in {-1, 0, 1, 3}, r \in {-1, 0, 5}}

StringConfigs ==
    {[GoodConfig EXCEPT !.grpcAddr = g, !.httpAddr = h, !.storagePath = s,
                        !.replayPath = r, !.fsync = f, !.allowedPackages = a,
                        !.sensitivePackages = b] :
        g \in {"", ":1"}, h \in {"", ":2"}, s \in {"", "frames"},
        r \in {"", "seen"}, f \in {"nil", "true", "false"},
        a \in {<<>>, <<" ">>, <<" maps ", "bank">>}, b \in {<<>>, <<"bank">>}}

MCConfigs == DeviceConfigs \cup NumberConfigs \cup StringConfigs
=============================================================================
