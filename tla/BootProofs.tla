---------------------------- MODULE BootProofs -----------------------------
(***************************************************************************)
(* The server process and its probes, for any number of requests in        *)
(* flight: what a 200 means.                                               *)
(***************************************************************************)
EXTENDS Boot, FiniteSetTheorems, TLAPS

(* What the proofs need of the types. *)
ProbesTyped ==
    /\ DOMAIN path = Request /\ DOMAIN handler = Request /\ DOMAIN i = Request
    /\ DOMAIN probe = Request \X Check /\ DOMAIN verdict = Request \X Check
    /\ \A q \in Request : path[q] \in Path

(* Check k of request q has passed, and its verdict was received or        *)
(* dropped.                                                                *)
Passed(q, k) == verdict[<<q, k>>] = "ok" /\ probe[<<q, k>>] = "none"

(* A handler in its select has counted no verdict, or one of a check that  *)
(* has passed; only checks of the request's path are at work; and a 200    *)
(* has all checks behind it, whose goroutines are gone.                    *)
CountInv ==
    \A q \in Request :
        /\ handler[q] = "select" =>
              i[q] = 0 \/ (i[q] = 1 /\ \E k \in ChecksOf[path[q]] : Passed(q, k))
        /\ \A k \in Check : probe[<<q, k>>] # "none" => k \in ChecksOf[path[q]]
        /\ handler[q] = "OK" => \A k \in ChecksOf[path[q]] : Passed(q, k)

(* Serve is past its bind when it closes the circuit, and a check that     *)
(* found the circuit closed found it so in this very process.              *)
CircuitInv ==
    /\ ssh \in {"Close", "listen"} => listener # "none"
    /\ circuit = "closed" => listener # "none"
    /\ \A q \in Request : verdict[<<q, "circuitState">>] = "ok" => circuit = "closed"

(* The inductive invariant of the process. *)
BootInv == ProbesTyped /\ CountInv /\ CircuitInv

(* Every path has two checks, and the handlers count to two. *)
LEMMA TwoChecks ==
    ASSUME NEW p \in Path
    PROVE  /\ ChecksOf[p] \subseteq Check
           /\ Cardinality(ChecksOf[p]) = 2
           /\ \A j, k, l \in ChecksOf[p] : j # k => l \in {j, k}
<1>1. \A a, b : a # b => Cardinality({a, b}) = 2
  <2> TAKE a, b
  <2> HAVE a # b
  <2>1. IsFiniteSet({a}) /\ Cardinality({a}) = 1
    BY FS_Singleton
  <2>2. Cardinality({a} \cup {b}) = Cardinality({a}) + 1
    BY <2>1, FS_AddElement
  <2>3. {a} \cup {b} = {a, b}
    OBVIOUS
  <2> QED BY <2>1, <2>2, <2>3
<1>2. \/ ChecksOf[p] = {"circuitState", "listBuckets"}
      \/ ChecksOf[p] = {"listNamespaces", "controllerState"}
  BY DEF Path, ChecksOf
<1>3. ChecksOf[p] \subseteq Check
  BY DEF Check
<1>4. Cardinality(ChecksOf[p]) = 2
  <2>1. Cardinality({"circuitState", "listBuckets"}) = 2
    BY <1>1, "circuitState" # "listBuckets", Zenon
  <2>2. Cardinality({"listNamespaces", "controllerState"}) = 2
    BY <1>1, "listNamespaces" # "controllerState", Zenon
  <2> QED BY <1>2, <2>1, <2>2
<1> QED BY <1>2, <1>3, <1>4

(* The steps of a request keep the types. *)
LEMMA RequestTyped ==
    ASSUME ProbesTyped, NEW q \in Request,
           RequestStep(q) \/ \E p \in Path : Begin(q, p)
    PROVE  ProbesTyped'
<1> USE DEF ProbesTyped
<1>1. ASSUME NEW p \in Path, Begin(q, p) PROVE ProbesTyped'
  BY <1>1 DEF Begin
<1>2. ASSUME NEW k, NEW v, Probe(q, k, v) PROVE ProbesTyped'
  BY <1>2 DEF Probe
<1>3. ASSUME NEW k \in Check, ReceiveSuccess(q, k) PROVE ProbesTyped'
  BY <1>3 DEF ReceiveSuccess, Respond
<1>4. ASSUME NEW k \in Check, ReceiveError(q, k) \/ Stop(q, k) PROVE ProbesTyped'
  BY <1>4 DEF ReceiveError, Respond, Stop
<1>5. CASE TimeoutFires(q) \/ ReceiveTimeout(q)
  BY <1>5 DEF TimeoutFires, ReceiveTimeout, Respond
<1> QED
  BY <1>1, <1>2, <1>3, <1>4, <1>5
     DEF RequestStep, ProbeStep, HandlerStep, circuitState, listBuckets, listNamespaces,
         controllerState

(* The steps of a request preserve CountInv: the second verdict a handler  *)
(* receives is of the other check (healthz_handler.go:32-57).              *)
LEMMA RequestCountInv ==
    ASSUME ProbesTyped, CountInv, NEW q \in Request,
           RequestStep(q) \/ \E p \in Path : Begin(q, p)
    PROVE  CountInv'
<1>1. ASSUME NEW p \in Path, Begin(q, p) PROVE CountInv'
  BY <1>1, TwoChecks DEF Begin, ProbesTyped, CountInv, Passed
<1>2. ASSUME NEW k \in Check, NEW v, Probe(q, k, v) PROVE CountInv'
  <2>1. /\ UNCHANGED <<path, handler, i>>
        /\ probe[<<q, k>>] = "probing" /\ probe'[<<q, k>>] = "sending"
    BY <1>2 DEF Probe, ProbesTyped
  <2>2. \A r \in Request, l \in Check : <<r, l>> # <<q, k>> =>
           probe'[<<r, l>>] = probe[<<r, l>>] /\ verdict'[<<r, l>>] = verdict[<<r, l>>]
    BY <1>2 DEF Probe
  <2>3. \A r \in Request, l \in Check :
           /\ Passed(r, l) => Passed(r, l)'
           /\ probe'[<<r, l>>] # "none" => probe[<<r, l>>] # "none"
    BY <2>1, <2>2, Zenon DEF Passed
  <2> QED BY <2>1, <2>3, TwoChecks, Zenon DEF ProbesTyped, CountInv
<1>3. ASSUME NEW k \in Check, ReceiveSuccess(q, k) PROVE CountInv'
  <2> USE DEF ProbesTyped, CountInv, Passed
  <2>1. k \in ChecksOf[path[q]] /\ ChecksOf[path[q]] \subseteq Check /\ numChecks(q) = 2
    BY <1>3, TwoChecks DEF ReceiveSuccess, numChecks
  <2>2. CASE i[q] = 0
    BY <1>3, <2>1, <2>2, TwoChecks DEF ReceiveSuccess, LastVerdict
  <2>3. CASE i[q] = 1
    <3>1. PICK j \in ChecksOf[path[q]] : Passed(q, j)
      BY <1>3, <2>3 DEF ReceiveSuccess
    <3>2. j # k
      BY <1>3, <3>1, Zenon DEF ReceiveSuccess
    <3>3. \A l \in ChecksOf[path[q]] : l \in {j, k}
      BY <2>1, <3>1, <3>2, TwoChecks
    <3> QED BY <1>3, <2>1, <2>3, <3>1, <3>3, TwoChecks DEF ReceiveSuccess, LastVerdict, Respond
  <2> QED BY <1>3, <2>2, <2>3, Zenon DEF ReceiveSuccess
<1>4. ASSUME NEW k \in Check, ReceiveError(q, k) \/ Stop(q, k) PROVE CountInv'
  <2>1. UNCHANGED <<path, i, verdict>>
    BY <1>4 DEF ReceiveError, Stop
  <2>2. \A r \in Request, l \in Check : probe'[<<r, l>>] \in {probe[<<r, l>>], "none"}
    BY <1>4 DEF ReceiveError, Stop, ProbesTyped
  <2>3. \A r \in Request, l \in Check :
           /\ Passed(r, l) => Passed(r, l)'
           /\ probe'[<<r, l>>] # "none" => probe[<<r, l>>] # "none"
    BY <2>1, <2>2, Zenon DEF Passed
  <2>4. \A r \in Request :
           /\ handler'[r] = "select" => handler[r] = "select"
           /\ handler'[r] = "OK" => handler[r] = "OK"
    BY <1>4 DEF ReceiveError, Respond, Stop, ProbesTyped
  <2>5. \A r \in Request : ChecksOf[path[r]] \subseteq Check
    BY TwoChecks DEF ProbesTyped
  <2> QED BY <2>1, <2>3, <2>4, <2>5, Zenon DEF CountInv
<1>5. CASE TimeoutFires(q) \/ ReceiveTimeout(q)
  BY <1>5 DEF TimeoutFires, ReceiveTimeout, Respond, ProbesTyped, CountInv, Passed
<1>6. {"circuitState", "listBuckets", "listNamespaces", "controllerState"} \subseteq Check
  BY DEF Check, Path, ChecksOf
<1>7. CASE ProbeStep(q)
  BY <1>2, <1>6, <1>7 DEF ProbeStep, circuitState, listBuckets, listNamespaces, controllerState
<1> QED
  BY <1>1, <1>3, <1>4, <1>5, <1>7 DEF RequestStep, HandlerStep

(* The steps of a request preserve CircuitInv: circuitState reads the      *)
(* circuit, and no other check writes its verdict.                         *)
LEMMA RequestCircuitInv ==
    ASSUME ProbesTyped, CircuitInv, NEW q \in Request,
           RequestStep(q) \/ \E p \in Path : Begin(q, p), UNCHANGED bootVars
    PROVE  CircuitInv'
<1> USE DEF ProbesTyped, CircuitInv, bootVars
<1>1. ASSUME NEW p \in Path, Begin(q, p) PROVE CircuitInv'
  BY <1>1 DEF Begin, Check, Path, ChecksOf
<1>2. CASE circuitState(q)
  BY <1>2 DEF circuitState, Probe
<1>3. ASSUME NEW k \in Check, NEW v, k # "circuitState", Probe(q, k, v) PROVE CircuitInv'
  BY <1>3 DEF Probe, Check, Path, ChecksOf
<1>6. CASE listBuckets(q) \/ listNamespaces(q) \/ controllerState(q)
  <2>1. {"listBuckets", "listNamespaces", "controllerState"} \subseteq Check
    BY DEF Check, Path, ChecksOf
  <2> QED BY <1>3, <1>6, <2>1 DEF listBuckets, listNamespaces, controllerState
<1>4. ASSUME NEW k \in Check, ReceiveSuccess(q, k) \/ ReceiveError(q, k) \/ Stop(q, k)
      PROVE  CircuitInv'
  BY <1>4 DEF ReceiveSuccess, ReceiveError, Stop
<1>5. CASE TimeoutFires(q) \/ ReceiveTimeout(q)
  BY <1>5 DEF TimeoutFires, ReceiveTimeout
<1> QED
  BY <1>1, <1>2, <1>4, <1>5, <1>6 DEF RequestStep, ProbeStep, HandlerStep

(* A process that ends leaves an open circuit and no request. *)
LEMMA ExitBootInv ==
    ASSUME Exit
    PROVE  BootInv'
<1>1. "/healthz" \in Path /\ "circuitState" \in Check
  BY DEF Path, Check, ChecksOf
<1>2. ProbesTyped'
  BY <1>1 DEF Exit, ProbesTyped
<1>3. CountInv'
  BY DEF Exit, CountInv
<1>4. CircuitInv'
  BY <1>1 DEF Exit, CircuitInv
<1> QED BY <1>2, <1>3, <1>4 DEF BootInv

(* The start of the process touches no request, and Serve closes the       *)
(* circuit after its bind (server.go:114-126).                             *)
LEMMA StartBootInv ==
    ASSUME BootInv,
           \/ Command \/ Configure \/ Listen \/ CloseCircuit \/ AcceptError \/ HealthStart
           \/ Restart \/ UNCHANGED serverVars
    PROVE  BootInv'
<1>1. CASE Exit
  BY <1>1, ExitBootInv
<1>2. CASE ~Exit
  <2>1. UNCHANGED <<path, handler, i, timeoutCh, stopCh, probe, verdict>>
    BY <1>2 DEF Command, Configure, Listen, CloseCircuit, AcceptError, HealthStart, Restart, Serve,
                serverVars, vars
  <2>2. ProbesTyped' /\ CountInv'
    BY <2>1 DEF BootInv, ProbesTyped, CountInv, Passed
  <2>3. CircuitInv'
    BY <1>2, <2>1 DEF Command, Configure, Listen, CloseCircuit, AcceptError, HealthStart, Restart,
                Serve, Returns, Continues, serverVars, bootVars, vars, BootInv, CircuitInv
  <2> QED BY <2>2, <2>3 DEF BootInv
<1> QED BY <1>1, <1>2

(* BootInv holds in every state of the process. *)
LEMMA BootInvariant == Server => []BootInv
<1>1. ServerInit => BootInv
  <2>1. "/healthz" \in Path /\ "circuitState" \in Check
    BY DEF Path, Check, ChecksOf
  <2> QED BY <2>1 DEF ServerInit, Init, BootInit, BootInv, ProbesTyped, CountInv, CircuitInv
<1>2. BootInv /\ [ServerNext]_serverVars => BootInv'
  <2> SUFFICES ASSUME BootInv, [ServerNext]_serverVars PROVE BootInv'
    OBVIOUS
  <2>1. CASE Panic \/ Select
    BY <2>1, ExitBootInv DEF Panic, Select
  <2>2. CASE Requests
    <3>1. PICK q \in Request : RequestStep(q) \/ \E p \in Path : Begin(q, p)
      BY <2>2 DEF Requests
    <3>2. UNCHANGED bootVars
      BY <2>2 DEF Requests
    <3> QED BY <3>1, <3>2, RequestTyped, RequestCountInv, RequestCircuitInv DEF BootInv
  <2> QED BY <2>1, <2>2, StartBootInv DEF ServerNext
<1> QED BY <1>1, <1>2, PTL DEF Server

(* 200 has every check of its request behind it, for any number of         *)
(* requests in flight (healthz_handler.go:32-57).                          *)
THEOREM OKMeansAllPassedAlways == Server => []OKMeansAllPassed
<1>1. BootInv => OKMeansAllPassed
  BY DEF BootInv, CountInv, Passed, OKMeansAllPassed
<1> QED BY <1>1, BootInvariant, PTL

(* 200 for /healthz is written by a process that has bound the SSH         *)
(* address, for any number of requests in flight (server.go:114-126).      *)
THEOREM OKMeansServingAlways == Server => []OKMeansServing
<1>1. ASSUME BootInv PROVE OKMeansServing
  <2> SUFFICES ASSUME NEW q \in Request, handler[q] = "OK", path[q] = "/healthz"
               PROVE  listener # "none"
    BY DEF OKMeansServing
  <2>1. "circuitState" \in ChecksOf[path[q]]
    BY DEF ChecksOf
  <2>2. verdict[<<q, "circuitState">>] = "ok"
    BY <1>1, <2>1 DEF BootInv, CountInv, Passed
  <2> QED BY <1>1, <2>2 DEF BootInv, CircuitInv
<1> QED BY <1>1, BootInvariant, PTL

(* The types of the requests' variables, two halves of TypeOK. *)
HandlerTypes ==
    /\ path \in [Request -> Path]
    /\ handler \in [Request -> {"idle", "select", "OK", "ServiceUnavailable"}]
    /\ i \in [Request -> 0 .. 2]
    /\ timeoutCh \in [Request -> BOOLEAN] /\ stopCh \in [Request -> BOOLEAN]
CheckTypes ==
    /\ circuit \in {"open", "closed"}
    /\ probe \in [Request \X Check -> {"none", "probing", "sending"}]
    /\ verdict \in [Request \X Check -> {"none", "ok", "err"}]

(* A request's steps keep the first: a handler in its select has counted   *)
(* at most one verdict, so the count stays within the number of checks.    *)
LEMMA RequestHandlerTypes ==
    ASSUME CountInv, HandlerTypes, NEW q \in Request,
           RequestStep(q) \/ \E p \in Path : Begin(q, p)
    PROVE  HandlerTypes'
<1> USE DEF HandlerTypes
<1>1. ASSUME NEW p \in Path, Begin(q, p) PROVE HandlerTypes'
  BY <1>1 DEF Begin
<1>2. ASSUME NEW k, NEW v, Probe(q, k, v) PROVE HandlerTypes'
  BY <1>2 DEF Probe
<1>3. ASSUME NEW k \in Check, ReceiveSuccess(q, k) PROVE HandlerTypes'
  <2>1. i[q] \in {0, 1}
    BY <1>3 DEF ReceiveSuccess, CountInv
  <2>2. i' \in [Request -> 0 .. 2]
    BY <1>3, <2>1 DEF ReceiveSuccess
  <2>3. /\ handler' = handler \/ handler' = [handler EXCEPT ![q] = "OK"]
        /\ stopCh' = stopCh \/ stopCh' = [stopCh EXCEPT ![q] = TRUE]
        /\ UNCHANGED <<path, timeoutCh>>
    BY <1>3 DEF ReceiveSuccess, Respond
  <2> QED BY <2>2, <2>3, Zenon
<1>4. ASSUME NEW k \in Check, ReceiveError(q, k) \/ Stop(q, k) PROVE HandlerTypes'
  BY <1>4, Zenon DEF ReceiveError, Respond, Stop
<1>5. CASE TimeoutFires(q) \/ ReceiveTimeout(q)
  BY <1>5, Zenon DEF TimeoutFires, ReceiveTimeout, Respond
<1> QED
  BY <1>1, <1>2, <1>3, <1>4, <1>5
     DEF RequestStep, ProbeStep, HandlerStep, circuitState, listBuckets, listNamespaces,
         controllerState

(* They keep the second: what a check sends is whether it failed, never    *)
(* the controller's own answer (controller_state.go).                      *)
LEMMA RequestCheckTypes ==
    ASSUME CheckTypes, NEW q \in Request, RequestStep(q) \/ \E p \in Path : Begin(q, p)
    PROVE  CheckTypes'
<1> USE DEF CheckTypes
<1>1. ASSUME NEW p \in Path, Begin(q, p) PROVE CheckTypes'
  BY <1>1 DEF Begin
<1>2. ASSUME NEW k, NEW v \in {"ok", "err"}, Probe(q, k, v) PROVE CheckTypes'
  BY <1>2, Zenon DEF Probe
<1>3. ASSUME NEW k \in Check, ReceiveSuccess(q, k) \/ ReceiveError(q, k) \/ Stop(q, k)
      PROVE  CheckTypes'
  BY <1>3 DEF ReceiveSuccess, ReceiveError, Stop
<1>4. CASE TimeoutFires(q) \/ ReceiveTimeout(q)
  BY <1>4 DEF TimeoutFires, ReceiveTimeout
<1>5. ASSUME ProbeStep(q) PROVE \E k : \E v \in {"ok", "err"} : Probe(q, k, v)
  BY <1>5 DEF ProbeStep, circuitState, listBuckets, listNamespaces, controllerState
<1> QED
  BY <1>1, <1>2, <1>3, <1>4, <1>5, Zenon DEF RequestStep, HandlerStep

(* The types of the process.                                               *)
ProcessTypes ==
    /\ main \in {"settings", "select", "fatal"}
    /\ ssh \in {"none", "Configure", "Listen", "Close", "listen", "sshCh"}
    /\ listener \in {"none", "bound", "closed"}
    /\ health \in {"none", "Start", "ListenAndServe", "healthSrvCh"}

(* A process that ends leaves the types behind it.                         *)
LEMMA ExitTyped ==
    ASSUME Exit
    PROVE  HandlerTypes' /\ CheckTypes' /\ ProcessTypes'
<1>1. "/healthz" \in Path
  BY DEF Path, ChecksOf
<1> QED BY <1>1 DEF Exit, HandlerTypes, CheckTypes, ProcessTypes

(* Type correctness of the process and its requests, through any number of *)
(* restarts (boot.go, healthz_handler.go:32-57).                           *)
THEOREM ServerTypeCorrect == Server => []ServerTypeOK
<1> DEFINE Types == HandlerTypes /\ CheckTypes /\ ProcessTypes
<1>1. ServerInit => Types
  <2>1. "/healthz" \in Path
    BY DEF Path, ChecksOf
  <2> QED BY <2>1 DEF ServerInit, Init, BootInit, HandlerTypes, CheckTypes, ProcessTypes
<1>2. BootInv /\ Types /\ [ServerNext]_serverVars => Types'
  <2> SUFFICES ASSUME BootInv, Types, [ServerNext]_serverVars PROVE Types'
    OBVIOUS
  <2>1. CASE Exit
    BY <2>1, ExitTyped
  <2>2. CASE Requests
    <3>1. PICK q \in Request : RequestStep(q) \/ \E p \in Path : Begin(q, p)
      BY <2>2 DEF Requests
    <3>2. HandlerTypes' /\ CheckTypes'
      BY <3>1, RequestHandlerTypes, RequestCheckTypes DEF BootInv
    <3>3. ProcessTypes'
      BY <2>2 DEF Requests, bootVars, ProcessTypes
    <3> QED BY <3>2, <3>3
  <2>3. CASE /\ ~Exit
             /\ \/ Command \/ Configure \/ Listen \/ CloseCircuit \/ AcceptError \/ HealthStart
                \/ Restart \/ UNCHANGED serverVars
    <3>1. UNCHANGED <<path, handler, i, timeoutCh, stopCh, probe, verdict>>
      BY <2>3 DEF Command, Configure, Listen, CloseCircuit, AcceptError, HealthStart, Restart,
                  Serve, serverVars, vars
    <3>2. circuit' \in {circuit, "closed"}
      BY <2>3 DEF Command, Configure, Listen, CloseCircuit, AcceptError, HealthStart, Restart,
                  Serve, serverVars, vars
    <3>3. ProcessTypes'
      BY <2>3 DEF Command, Configure, Listen, CloseCircuit, AcceptError, HealthStart, Restart,
                  Returns, Continues, serverVars, bootVars, ProcessTypes
    <3> QED BY <3>1, <3>2, <3>3 DEF HandlerTypes, CheckTypes
  <2> QED BY <2>1, <2>2, <2>3 DEF ServerNext, Panic, Select
<1>3. Types => ServerTypeOK
  BY DEF HandlerTypes, CheckTypes, ProcessTypes, TypeOK, ServerTypeOK
<1> QED
  BY <1>1, <1>2, <1>3, BootInvariant, PTL DEF Server
=============================================================================
