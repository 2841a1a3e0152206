-------------------------------- MODULE Proxy --------------------------------
(***************************************************************************)
(* The life of a golem-proxy process (run in server/cmd/golem-proxy/       *)
(* main.go) around the ingest path: starting to serve, signals, servers    *)
(* that fail, GracefulStop or Stop, the deferred Close calls of the replay *)
(* guard and the sink, and the exit.  The steps before the servers are     *)
(* started are the subject of Startup.                                     *)
(*                                                                         *)
(* External: grpc-go.  An RPC begins when its client opens a stream; its   *)
(* handler is called when the request message has come, which may be never *)
(* (ServerOptions sets no keepalive and no connection age).  GracefulStop  *)
(* refuses new RPCs and waits for all others, those without a message      *)
(* included, as long as it takes; Stop closes the connections, which ends  *)
(* the RPCs without a message and cancels the contexts of the handlers,    *)
(* for which it does not wait.  An RPC that slips in while either begins   *)
(* is one that came just before.  When Serve returns an error, the         *)
(* connections accepted before live on.                                    *)
(***************************************************************************)
EXTENDS Ingest

ASSUME ProxyAssumption == {"replay", "cancel", "crash"} \subseteq Faults

VARIABLES
    phase,       \* where run is: select, graceful, shutdown, stop,
                 \*   closeSink, exit, or down between two processes
    grpc,        \* the gRPC server: off, serving, draining, drained,
                 \*   stopped; orphan when its accept loop has ended and
                 \*   its connections have not
    streams,     \* handlers-to-be: RPCs whose message has not come yet
    errCh,       \* a server's error waits to be selected
    signalled    \* ctx is done: SIGINT or SIGTERM has come

proxyVars == <<phase, grpc, streams, errCh, signalled>>

allVars == <<vars, proxyVars>>

ProxyInit ==
    /\ Init
    /\ phase = "select"
    /\ grpc = "off"
    /\ streams = {}
    /\ errCh = FALSE
    /\ signalled = FALSE

-----------------------------------------------------------------------------
(* A start that begins with a new replay database. *)
StartAfresh ==
    /\ phase = "down"
    /\ RestartForgetful
    /\ phase' = "select"
    /\ UNCHANGED <<grpc, streams, errCh, signalled>>

(* run up to its select: sink and guard are open, the servers' goroutines  *)
(* are about to run.                                                       *)
Start ==
    /\ phase = "down"
    /\ Restart
    /\ phase' = "select"
    /\ UNCHANGED <<grpc, streams, errCh, signalled>>

(* The gRPC goroutine: Listen, then Serve, which may fail at any time.     *)
ServeGRPC ==
    /\ phase = "select"
    /\ \/ /\ grpc = "off"
          /\ \/ grpc' = "serving" /\ UNCHANGED errCh
             \/ grpc' = "stopped" /\ errCh' = TRUE
       \/ /\ grpc = "serving"
          /\ grpc' = "orphan"
          /\ errCh' = TRUE
    /\ UNCHANGED <<vars, phase, streams, signalled>>

(* The health server's goroutine: ListenAndServe may fail at any time.  It *)
(* serves constant answers and has no other effect.                        *)
ServeHTTP ==
    /\ phase = "select" /\ ~errCh
    /\ errCh' = TRUE
    /\ UNCHANGED <<vars, phase, grpc, streams, signalled>>

(* NotifyContext turns the signals into the end of ctx.  A signal before   *)
(* it or after the deferred stop kills the process: Die.                   *)
Signal ==
    /\ phase = "select" /\ ~signalled
    /\ signalled' = TRUE
    /\ UNCHANGED <<vars, phase, grpc, streams, errCh>>

(* What the select was waiting for is not looked at again. *)
Selected == errCh' = FALSE /\ signalled' = FALSE

(* GracefulStop in a goroutine of its own, so that nobody waits for it. *)
GracefulStopInBackground ==
    /\ phase = "select" /\ signalled
    /\ phase' = "shutdown"
    /\ grpc' = "draining"
    /\ Selected
    /\ UNCHANGED <<vars, streams>>

(* The branch of ctx.Done: GracefulStop begins. *)
GracefulStop ==
    /\ phase = "select" /\ signalled
    /\ phase' = "graceful"
    /\ grpc' = "draining"
    /\ Selected
    /\ UNCHANGED <<vars, streams>>

(* It returns when no RPC is left. *)
Drained ==
    /\ phase = "graceful"
    /\ streams = {}
    /\ \A h \in Handlers : pc[h] = "idle"
    /\ phase' = "shutdown"
    /\ grpc' = "drained"
    /\ UNCHANGED <<vars, streams, errCh, signalled>>

(* The branch of errCh: Stop begins.  (Its early return is for servers     *)
(* that were stopped or closed, which nobody does before the select.)      *)
Stop ==
    /\ phase = "select" /\ errCh
    /\ phase' = "stop"
    /\ grpc' = "stopped"
    /\ Selected
    /\ UNCHANGED <<vars, streams>>

(* The connection of an RPC is closed. *)
StopHandler(h) ==
    /\ phase = "stop"
    /\ \/ Cancel(h) /\ UNCHANGED streams
       \/ h \in streams /\ streams' = streams \ {h} /\ UNCHANGED vars
    /\ UNCHANGED <<phase, grpc, errCh, signalled>>

(* The deferred calls, last one first: the guard, ... - after GracefulStop *)
(* and httpServer.Shutdown, which takes 5 seconds at most, or after Stop,  *)
(* which has closed all connections, and httpServer.Close.                 *)
CloseGuard ==
    /\ \/ phase = "shutdown"
       \/ /\ phase = "stop"
          /\ streams = {}
          /\ \A h \in Handlers : pc[h] # "idle" => cancelled[h]
    /\ phase' = "closeSink"
    /\ UNCHANGED <<vars, grpc, streams, errCh, signalled>>

(* ... then the sink, whose Close waits for its mutex.                     *)
CloseSink ==
    /\ phase = "closeSink" /\ SinkFree
    /\ phase' = "exit"
    /\ UNCHANGED <<vars, grpc, streams, errCh, signalled>>

GuardClosed == phase \in {"closeSink", "exit"}

Down ==
    /\ phase' = "down"
    /\ grpc' = "off"
    /\ streams' = {}
    /\ Selected

(* main returns: the handlers that still run die with the process, what    *)
(* was written stays.                                                      *)
Exit ==
    /\ phase = "exit"
    /\ Crash /\ UNCHANGED journal
    /\ Down

Die == phase # "down" /\ Crash /\ Down

-----------------------------------------------------------------------------
(* A client begins an RPC, while the server accepts new ones, ...          *)
OpenStream(h) ==
    /\ grpc \in {"serving", "orphan"}
    /\ pc[h] = "idle" /\ h \notin streams
    /\ streams' = streams \cup {h}
    /\ UNCHANGED <<vars, phase, grpc, errCh, signalled>>

(* ... and sends its message, on which the handler is called, ...          *)
Accept(h, m) ==
    /\ grpc \in {"serving", "orphan", "draining"}
    /\ h \in streams
    /\ streams' = streams \ {h}
    /\ Receive(h, m)
    /\ UNCHANGED <<phase, grpc, errCh, signalled>>

(* ... or gives up before that, or loses its connection.                   *)
Abandon(h) ==
    /\ h \in streams
    /\ streams' = streams \ {h}
    /\ UNCHANGED <<vars, phase, grpc, errCh, signalled>>

(* The handlers' own steps.  CheckAndRecord of a closed guard fails        *)
(* without a trace; a closed sink opens its file again.                    *)
Handle(h) ==
    /\ UNCHANGED proxyVars
    /\ IF GuardClosed /\ pc[h] = "record"
       THEN RecordFails(h) /\ UNCHANGED tables
       ELSE Step(h)

HandleWrite(h) == UNCHANGED proxyVars /\ Write(h)

(* A client gives up, or time passes. *)
Outside == (Tick \/ \E h \in Handlers : Cancel(h)) /\ UNCHANGED proxyVars

(* The main goroutine. *)
Run ==
    \/ GracefulStop
    \/ Drained
    \/ Stop
    \/ \E h \in Handlers : StopHandler(h)
    \/ CloseGuard
    \/ Exit

ProxyNext ==
    \/ \E h \in Handlers :
        \/ OpenStream(h)
        \/ \E m \in Messages : Accept(h, m)
        \/ Abandon(h)
        \/ Handle(h)
        \/ HandleWrite(h)
    \/ Start
    \/ ServeGRPC
    \/ ServeHTTP
    \/ Signal
    \/ Run
    \/ CloseSink
    \/ Die
    \/ Outside

ProxySpec == ProxyInit /\ [][ProxyNext]_allVars

(* Runnable goroutines run, and the sink's mutex is handed to whoever      *)
(* waits for it, the deferred Close included.  Clients are not fair: a     *)
(* stream may wait for its message for ever.                               *)
ProxyFairness ==
    /\ WF_allVars(Run)
    /\ SF_allVars(CloseSink)
    /\ \A h \in Handlers : WF_allVars(Handle(h)) /\ SF_allVars(HandleWrite(h))

FairProxySpec == ProxySpec /\ ProxyFairness

-----------------------------------------------------------------------------
(* A process that starts, serves, is stopped in one way or the other and   *)
(* is started again does to the stored frames and the replay tables only   *)
(* what the ingest path may do, so all that holds of Ingest holds across   *)
(* its restarts (main.go:53-133).                                          *)
ImplementsIngest == Spec

(* No client that still waits for its answer has the guard and the sink    *)
(* closed under it, or is left without an answer by the exit: after a      *)
(* signal all RPCs have ended by then, and after the failure of a server   *)
(* those that go on are of clients that have been cut off                  *)
(* (main.go:121, 129, the defers at 61 and 66).                            *)
NoLiveRPCWhileClosing ==
    GuardClosed =>
        /\ streams = {}
        /\ \A h \in Handlers :
            pc[h] # "idle" => grpc = "stopped" /\ cancelled[h]

(* A process whose server has failed ends, whatever its clients and its    *)
(* handlers are doing (main.go:125-131).  One that has received a signal   *)
(* ends provided that every open stream gets its message some time, or is  *)
(* closed: GracefulStop has no limit (main.go:121), so that a client that  *)
(* does neither keeps the process alive for ever.  Handlers that have      *)
(* their message, and a Close that waits for the sink's mutex, never do.   *)
ShutdownCompletes ==
    /\ phase = "stop" ~> phase = "down"
    /\ (\A h \in Handlers : []<>(h \notin streams)) =>
           ((signalled \/ errCh) ~> phase = "down")

=============================================================================
