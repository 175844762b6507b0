---------------------------- MODULE HealthProbe ----------------------------
(***************************************************************************)
(* pkg/healthsrv: the /healthz and /readiness handlers.  A handler starts  *)
(* one goroutine per check and collects their verdicts from unbuffered     *)
(* channels until all have passed, one has failed, or its timeout fires;   *)
(* then it closes stopCh.  circuitState reads the circuit                  *)
(* (pkg/sshd/circuit.go) that Serve closes once it listens.                *)
(*                                                                         *)
(* A Request names a request in flight; the name is free again when the    *)
(* handler and its goroutines are gone.  Boot has the process that takes   *)
(* these steps.                                                            *)
(***************************************************************************)
EXTENDS Naturals, FiniteSets

CONSTANT Request    \* requests in flight

ChecksOf ==
    [p \in {"/healthz", "/readiness"} |->
        IF p = "/healthz" THEN {"circuitState", "listBuckets"}
                          ELSE {"listNamespaces", "controllerState"}]

Path == DOMAIN ChecksOf
Check == UNION {ChecksOf[p] : p \in Path}

VARIABLES
    circuit,    \* the SSH server's circuit
    path,       \* path[q]: what the request is for
    handler,    \* handler[q]: in its select, or the status it wrote
    i,          \* i[q]: the verdicts collected
    timeoutCh,  \* timeoutCh[q]: time.After(waitTimeout) has fired
    stopCh,     \* stopCh[q]: closed
    probe,      \* probe[<<q, k>>]: where check k's goroutine is
    verdict     \* verdict[<<q, k>>]: what the check found

vars == <<circuit, path, handler, i, timeoutCh, stopCh, probe, verdict>>

TypeOK ==
    /\ circuit \in {"open", "closed"}
    /\ path \in [Request -> Path]
    /\ handler \in [Request -> {"idle", "select", "OK", "ServiceUnavailable"}]
    /\ i \in [Request -> 0 .. 2]
    /\ timeoutCh \in [Request -> BOOLEAN]
    /\ stopCh \in [Request -> BOOLEAN]
    /\ probe \in [Request \X Check -> {"none", "probing", "sending"}]
    /\ verdict \in [Request \X Check -> {"none", "ok", "err"}]

Init ==
    /\ circuit   = "open"
    /\ path      = [q \in Request |-> "/healthz"]
    /\ handler   = [q \in Request |-> "idle"]
    /\ i         = [q \in Request |-> 0]
    /\ timeoutCh = [q \in Request |-> FALSE]
    /\ stopCh    = [q \in Request |-> FALSE]
    /\ probe     = [x \in Request \X Check |-> "none"]
    /\ verdict   = [x \in Request \X Check |-> "none"]

-----------------------------------------------------------------------------
(* Serve listens, then closes the circuit; nothing opens it again. *)
Serve ==
    /\ circuit = "open"
    /\ circuit' = "closed"
    /\ UNCHANGED <<path, handler, i, timeoutCh, stopCh, probe, verdict>>

(* A request: new channels, one goroutine per check, the timeout. *)
Begin(q, p) ==
    /\ handler[q] # "select"
    /\ \A k \in Check : probe[<<q, k>>] = "none"
    /\ path'      = [path EXCEPT ![q] = p]
    /\ handler'   = [handler EXCEPT ![q] = "select"]
    /\ i'         = [i EXCEPT ![q] = 0]
    /\ timeoutCh' = [timeoutCh EXCEPT ![q] = FALSE]
    /\ stopCh'    = [stopCh EXCEPT ![q] = FALSE]
    /\ probe'     = [x \in Request \X Check |->
                       IF x[1] = q /\ x[2] \in ChecksOf[p] THEN "probing" ELSE probe[x]]
    /\ verdict'   = [x \in Request \X Check |-> IF x[1] = q THEN "none" ELSE verdict[x]]
    /\ UNCHANGED circuit

(* Check k of request q is made and finds v; its goroutine reaches the     *)
(* select of that verdict.                                                 *)
Probe(q, k, v) ==
    /\ probe[<<q, k>>] = "probing"
    /\ verdict' = [verdict EXCEPT ![<<q, k>>] = v]
    /\ probe' = [probe EXCEPT ![<<q, k>>] = "sending"]
    /\ UNCHANGED <<circuit, path, handler, i, timeoutCh, stopCh>>

circuitState(q) ==
    Probe(q, "circuitState", IF circuit # "closed" THEN "err" ELSE "ok")

(* The store and the API server answer, or fail. *)
listBuckets(q) == \E v \in {"ok", "err"} : Probe(q, "listBuckets", v)

listNamespaces(q) == \E v \in {"ok", "err"} : Probe(q, "listNamespaces", v)

(* The controller's version is no error. *)
CheckAPICompat(err) == IF err = "ErrAPIMismatch" THEN "nil" ELSE err

(* Mutation: the answer itself is sent, not whether it is an error. *)
controllerStateRaw(q) ==
    \E err \in {"nil", "ErrAPIMismatch", "other"} :
        Probe(q, "controllerState", CheckAPICompat(err))

controllerState(q) ==
    \E err \in {"nil", "ErrAPIMismatch", "other"} :
        Probe(q, "controllerState", IF CheckAPICompat(err) # "nil" THEN "err" ELSE "ok")

ProbeStep(q) ==
    circuitState(q) \/ listBuckets(q) \/ listNamespaces(q) \/ controllerState(q)

(* Mutation: the handler returns without closing stopCh. *)
RespondKeepsOpen(q, code) ==
    /\ handler' = [handler EXCEPT ![q] = code]
    /\ UNCHANGED stopCh

(* The handler writes its status and closes stopCh. *)
Respond(q, code) ==
    /\ handler' = [handler EXCEPT ![q] = code]
    /\ stopCh'  = [stopCh EXCEPT ![q] = TRUE]

(* The checks the handler started. *)
numChecks(q) == Cardinality(ChecksOf[path[q]])

(* Mutation: the loop ends one verdict early. *)
LastVerdictEarly(q) == i[q] + 2 >= numChecks(q)

(* This verdict ends "for i := 0; i < numChecks; i++". *)
LastVerdict(q) == i[q] + 1 = numChecks(q)

(* A success is received: the loop goes round, or ends with 200. *)
ReceiveSuccess(q, k) ==
    /\ handler[q] = "select"
    /\ probe[<<q, k>>] = "sending" /\ verdict[<<q, k>>] = "ok"
    /\ probe' = [probe EXCEPT ![<<q, k>>] = "none"]
    /\ i' = [i EXCEPT ![q] = i[q] + 1]
    /\ IF LastVerdict(q) THEN Respond(q, "OK") ELSE UNCHANGED <<handler, stopCh>>
    /\ UNCHANGED <<circuit, path, timeoutCh, verdict>>

(* An error is received: 503. *)
ReceiveError(q, k) ==
    /\ handler[q] = "select"
    /\ probe[<<q, k>>] = "sending" /\ verdict[<<q, k>>] = "err"
    /\ probe' = [probe EXCEPT ![<<q, k>>] = "none"]
    /\ Respond(q, "ServiceUnavailable")
    /\ UNCHANGED <<circuit, path, i, timeoutCh, verdict>>

(* waitTimeout passes. *)
TimeoutFires(q) ==
    /\ handler[q] = "select"
    /\ ~timeoutCh[q]
    /\ timeoutCh' = [timeoutCh EXCEPT ![q] = TRUE]
    /\ UNCHANGED <<circuit, path, handler, i, stopCh, probe, verdict>>

(* Mutation: the select has no case for the timeout. *)
ReceiveTimeoutMissing(q) == FALSE

(* The timeout is received: 503. *)
ReceiveTimeout(q) ==
    /\ handler[q] = "select"
    /\ timeoutCh[q]
    /\ Respond(q, "ServiceUnavailable")
    /\ UNCHANGED <<circuit, path, i, timeoutCh, probe, verdict>>

(* A goroutine finds stopCh closed and drops its verdict. *)
Stop(q, k) ==
    /\ probe[<<q, k>>] = "sending"
    /\ stopCh[q]
    /\ probe' = [probe EXCEPT ![<<q, k>>] = "none"]
    /\ UNCHANGED <<circuit, path, handler, i, timeoutCh, stopCh, verdict>>

HandlerStep(q) ==
    ReceiveTimeout(q) \/ \E k \in Check : ReceiveSuccess(q, k) \/ ReceiveError(q, k)

RequestStep(q) ==
    \/ ProbeStep(q) \/ TimeoutFires(q) \/ HandlerStep(q)
    \/ \E k \in Check : Stop(q, k)

-----------------------------------------------------------------------------
(* 200 is written only when every check of this very request has passed:   *)
(* the loop only counts verdicts, and the count cannot be reached by one   *)
(* check counted twice (healthz_handler.go:32-55,                          *)
(* readiness_handler.go:29-53).                                            *)
OKMeansAllPassed ==
    \A q \in Request :
        handler[q] = "OK" => \A k \in ChecksOf[path[q]] : verdict[<<q, k>>] = "ok"

(* Every request is answered, even if no check ever returns, unless the    *)
(* process ends.                                                           *)
AlwaysAnswered ==
    \A q \in Request : handler[q] = "select" ~> handler[q] # "select"

(* A check that returns, however late, does not leave its goroutine behind *)
(* (buckets_lister.go:24-33 and the like).                                 *)
ProbeNotStranded ==
    \A q \in Request, k \in Check :
        probe[<<q, k>>] = "sending" ~> probe[<<q, k>>] = "none"
=============================================================================
