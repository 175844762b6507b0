------------------------------- MODULE Boot --------------------------------
(***************************************************************************)
(* The server command of boot.go: it makes the circuit, starts the health  *)
(* server and RunBuilder (pkg/builder.go) as goroutines, and ends with the *)
(* first of them to fail.  The health server's requests are those of       *)
(* HealthProbe, whose circuit Serve (pkg/sshd/server.go) closes.           *)
(*                                                                         *)
(* The third goroutine, the cleaner, never returns; it is in Cleaner.  The *)
(* container is restarted when the process ends.                           *)
(***************************************************************************)
EXTENDS HealthProbe

VARIABLES
    main,       \* the command: reading its settings, in its select, or over
    ssh,        \* RunBuilder's goroutine: the call it is at
    listener,   \* the socket of the SSH server
    health      \* healthsrv.Start's goroutine

bootVars == <<main, ssh, listener, health>>
serverVars == <<vars, bootVars>>

ServerTypeOK ==
    /\ TypeOK
    /\ main \in {"settings", "select", "fatal"}
    /\ ssh \in {"none", "Configure", "Listen", "Close", "listen", "sshCh"}
    /\ listener \in {"none", "bound", "closed"}
    /\ health \in {"none", "Start", "ListenAndServe", "healthSrvCh"}

BootInit == main = "settings" /\ ssh = "none" /\ listener = "none" /\ health = "none"

ServerInit == Init /\ BootInit

-----------------------------------------------------------------------------
(* The process is gone, and with it the circuit and the requests in flight *)
(* (which are not answered).                                               *)
Exit ==
    /\ main'      = "fatal"
    /\ ssh'       = "none"
    /\ listener'  = "none"
    /\ health'    = "none"
    /\ circuit'   = "open"
    /\ path'      = [q \in Request |-> "/healthz"]
    /\ handler'   = [q \in Request |-> "idle"]
    /\ i'         = [q \in Request |-> 0]
    /\ timeoutCh' = [q \in Request |-> FALSE]
    /\ stopCh'    = [q \in Request |-> FALSE]
    /\ probe'     = [x \in Request \X Check |-> "none"]
    /\ verdict'   = [x \in Request \X Check |-> "none"]

(* The settings, the storage driver and the Kubernetes client are made and *)
(* the goroutines started, or an error ends the command.                   *)
Command ==
    /\ main = "settings"
    /\ \/ /\ main' = "select" /\ ssh' = "Configure" /\ health' = "Start"
          /\ UNCHANGED <<listener, vars>>
       \/ Exit

(* RunBuilder's goroutine returns a status from call "at", or goes on. *)
Returns(at) == ssh = at /\ ssh' = "sshCh"
Continues(at, next) == ssh = at /\ ssh' = next

(* The host keys are read. *)
Configure ==
    /\ Returns("Configure") \/ Continues("Configure", "Listen")
    /\ UNCHANGED <<main, listener, health, vars>>

Listen ==
    /\ \/ Returns("Listen") /\ UNCHANGED listener
       \/ Continues("Listen", "Close") /\ listener' = "bound"
    /\ UNCHANGED <<main, health, vars>>

(* Mutation: the circuit is closed before the address is bound. *)
CloseCircuitFirst ==
    /\ ssh \in {"Listen", "Close"}
    /\ Serve
    /\ UNCHANGED <<main, listener, health, ssh>>

(* serverCircuit.Close, after which listen accepts connections. *)
CloseCircuit ==
    /\ Continues("Close", "listen")
    /\ Serve
    /\ UNCHANGED <<main, listener, health>>

(* Accept fails: the deferred l.Close, and Serve returns. *)
AcceptError ==
    /\ Returns("listen")
    /\ listener' = "closed"
    /\ UNCHANGED <<main, health, vars>>

(* A connection's handleConn panics (SSHSession's AcceptChannel), also     *)
(* after the listener was closed.                                          *)
Panic == ssh \in {"listen", "sshCh"} /\ listener # "none" /\ Exit

(* The controller client is made, then the server listens until it fails. *)
HealthStart ==
    /\ health \in {"Start", "ListenAndServe"}
    /\ \/ health = "Start" /\ health' = "ListenAndServe"
       \/ health' = "healthSrvCh"
    /\ UNCHANGED <<main, ssh, listener, vars>>

(* Mutation: the select waits for the health server alone. *)
SelectHealthOnly ==
    /\ main = "select"
    /\ health = "healthSrvCh"
    /\ Exit

(* The command's select receives, the command returns an error, and        *)
(* log.Fatal ends the process.                                             *)
Select ==
    /\ main = "select"
    /\ ssh = "sshCh" \/ health = "healthSrvCh"
    /\ Exit

(* Kubernetes restarts the container. *)
Restart ==
    /\ main = "fatal"
    /\ main' = "settings"
    /\ UNCHANGED <<ssh, listener, health, vars>>

(* The health server answers requests; one that has begun goes on after    *)
(* the listener failed.                                                    *)
Requests ==
    /\ \E q \in Request :
          \/ health = "ListenAndServe" /\ \E p \in Path : Begin(q, p)
          \/ RequestStep(q)
    /\ UNCHANGED bootVars

ServerNext ==
    \/ Command \/ Configure \/ Listen \/ CloseCircuit \/ AcceptError \/ Panic
    \/ HealthStart \/ Select \/ Restart \/ Requests

(* As for the requests; and main's goroutine runs.  Nothing is assumed of  *)
(* the peers, the network or the container's restart.                      *)
ServerFairness ==
    /\ WF_serverVars(Select)
    /\ \A q \in Request :
          /\ WF_serverVars(HandlerStep(q) /\ UNCHANGED bootVars)
          /\ WF_serverVars(TimeoutFires(q) /\ UNCHANGED bootVars)
          /\ \A k \in Check : WF_serverVars(Stop(q, k) /\ UNCHANGED bootVars)

Server == ServerInit /\ [][ServerNext]_serverVars /\ ServerFairness

-----------------------------------------------------------------------------
(* 200 for /healthz is never written before this very process has bound    *)
(* the SSH address, whatever the order in which the goroutines start       *)
(* (server.go:114-126, circuit_state.go:18-34).                            *)
OKMeansServing ==
    \A q \in Request :
        handler[q] = "OK" /\ path[q] = "/healthz" => listener # "none"

(* No process outlives either of its servers: one that stops ends the      *)
(* process, though /healthz goes on saying 200 until then (boot.go:95-102).*)
StoppedServerEndsProcess ==
    ssh = "sshCh" \/ health = "healthSrvCh" ~> main = "fatal"
=============================================================================
