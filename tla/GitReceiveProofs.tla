-------------------------- MODULE GitReceiveProofs --------------------------
(***************************************************************************)
(* Git receive under the push lock, for any calls and repositories, with   *)
(* or without timeouts: which directories stay behind, what createRepo may *)
(* take for a repository, that refs move without a build only after a      *)
(* timeout, and type correctness.                                          *)
(***************************************************************************)
EXTENDS GitReceive, TLAPS

(* A step of the SSH handler, the lock, git, its hook's end or the client. *)
Quiet(c) ==
    \/ Answer(c) \/ LockStep(c) \/ GitStep(c) \/ GitDies(c) \/ Build(c)
    \/ ClientSends(c) \/ ClientEOF(c)

(* A step of Receive. *)
Works(c) == WorkerStep(c) \/ CopyFails(c)

(* What the proofs need of the types. *)
ReceiveTyped ==
    /\ DOMAIN stage = Call /\ DOMAIN proc = Call /\ DOMAIN hook = Call /\ DOMAIN moved = Call
    /\ DOMAIN tree = Repo /\ DOMAIN worker = Call /\ DOMAIN repo = Call
    /\ ret \in [Call -> {"ok", "err"}]

(* A quiet step leaves Receive and the directories where they are; a       *)
(* goroutine it ends has fn's result already.                              *)
LEMMA QuietStep ==
    ASSUME NEW c \in Call, Quiet(c)
    PROVE  /\ UNCHANGED <<stage, ret, createLock, tree, leftover, repo>>
           /\ \/ UNCHANGED worker
              \/ worker[c] = "sending" /\ worker' = [worker EXCEPT ![c] = "none"]
<1>1. CASE Answer(c)
  BY <1>1, Zenon DEF Answer, Lock!Answered
<1>2. CASE LockStep(c)
  BY <1>2, Zenon DEF LockStep, recvVars, Lock!TimerFires, Lock!SelectTimer, Lock!SelectFn,
              Lock!CloseDone, Lock!WorkerDropsResult, Lock!Unlock
<1>3. CASE GitStep(c) \/ GitDies(c) \/ Build(c)
  BY <1>3, Zenon DEF GitStep, Received, ReceiveFails, RunHook, UpdateRefs, GitDies, Build, ProcStep,
              lockVars
<1>4. CASE ClientSends(c) \/ ClientEOF(c)
  BY <1>4, Zenon DEF ClientSends, ClientEOF, lockVars
<1> QED
  BY <1>1, <1>2, <1>3, <1>4, Zenon DEF Quiet

(* What a quiet step does to git and its hook: nothing, or a step of git,  *)
(* or its death, or the hook's end.                                        *)
LEMMA QuietProc ==
    ASSUME NEW c \in Call, Quiet(c)
    PROVE  UNCHANGED <<proc, hook, moved>> \/ GitStep(c) \/ GitDies(c) \/ Build(c)
<1>1. CASE Answer(c) \/ LockStep(c)
  BY <1>1, Zenon DEF Answer, LockStep, recvVars, gitVars
<1>2. CASE ClientSends(c) \/ ClientEOF(c)
  BY <1>2, Zenon DEF ClientSends, ClientEOF, gitVars
<1> QED
  BY <1>1, <1>2, Zenon DEF Quiet

(* A step of Receive: which stage it comes from, and what it leaves alone. *)
LEMMA WorkStep ==
    ASSUME NEW c \in Call, Works(c)
    PROVE  /\ worker[c] = "running" /\ stage[c] # "none"
           /\ \E t : stage' = [stage EXCEPT ![c] = t]
           /\ UNCHANGED <<repo, caller, timer, result, channel, status, overran>>
<1> USE DEF At, Bail, Goto, lockVars, chanVars, Leave
<1>1. CASE EnterDenied(c) \/ RemoveRest(c)
  BY <1>1, Zenon DEF EnterDenied, RemoveRest, Lock!FnReturn
<1>2. CASE EnterAllowed(c) \/ Stat(c) \/ Mkdir(c) \/ GitInit(c)
  BY <1>2, Zenon DEF EnterAllowed, Stat, Mkdir, GitInit
<1>3. CASE CreateHook(c) \/ FinishHook(c) \/ Start(c)
  BY <1>3, Zenon DEF CreateHook, FinishHook, Start
<1>4. CASE Copy(c) \/ CopyFails(c) \/ Wait(c) \/ RemoveSome(c)
  BY <1>4, Zenon DEF Copy, CopyFails, Wait, RemoveSome
<1> QED
  BY <1>1, <1>2, <1>3, <1>4, Zenon DEF Works, WorkerStep

(* ... and what it does to the worker, git and its hook. *)
LEMMA WorkProc ==
    ASSUME ReceiveTyped, NEW c \in Call, Works(c)
    PROVE  \/ UNCHANGED <<worker, hook, moved>> /\ (UNCHANGED proc \/ Start(c))
           \/ /\ EnterDenied(c) \/ RemoveRest(c)
              /\ stage'[c] = "none" /\ worker' = [worker EXCEPT ![c] = "sending"]
              /\ proc' = [proc EXCEPT ![c] = "none"] /\ moved' = [moved EXCEPT ![c] = FALSE]
              /\ hook' = [hook EXCEPT ![c] = IF @ = "runs" THEN "runs" ELSE "none"]
<1> USE DEF Bail, Goto, lockVars, gitVars
<1>1. CASE EnterDenied(c) \/ RemoveRest(c)
  BY <1>1 DEF EnterDenied, RemoveRest, Lock!FnReturn, Leave, SetProc, ReceiveTyped
<1>2. CASE EnterAllowed(c) \/ Stat(c) \/ Mkdir(c) \/ GitInit(c)
  BY <1>2, Zenon DEF EnterAllowed, Stat, Mkdir, GitInit
<1>3. CASE CreateHook(c) \/ FinishHook(c) \/ Start(c)
  BY <1>3, Zenon DEF CreateHook, FinishHook, Start
<1>4. CASE Copy(c) \/ CopyFails(c) \/ Wait(c) \/ RemoveSome(c)
  BY <1>4, Zenon DEF Copy, CopyFails, Wait, RemoveSome
<1> QED
  BY <1>1, <1>2, <1>3, <1>4, Zenon DEF Works, WorkerStep

(* Every step is of one of these kinds. *)
LEMMA NextKinds ==
    ASSUME Next
    PROVE  \E c \in Call :
              \/ \E r \in Repo, o \in Operation : Exec(c, r, o)
              \/ Quiet(c) \/ Works(c) \/ HookMkdir(c)
  BY Zenon DEF Next, Quiet, Works

(* Every step of git receive keeps those types. *)
LEMMA StepReceiveTyped == ReceiveTyped /\ [Next]_vars => ReceiveTyped'
<1> SUFFICES ASSUME ReceiveTyped, [Next]_vars PROVE ReceiveTyped'
  OBVIOUS
<1> USE DEF ReceiveTyped
<1>1. ASSUME NEW c \in Call, NEW r, NEW o, Exec(c, r, o) PROVE ReceiveTyped'
  BY <1>1 DEF Exec, Goto, SetProc, Lock!LockAcquired, Lock!LockRefused
<1>2. ASSUME NEW c \in Call, Quiet(c) PROVE ReceiveTyped'
  <2>1. DOMAIN proc' = Call /\ DOMAIN hook' = Call /\ DOMAIN moved' = Call
    BY <1>2, QuietProc DEF GitStep, Received, ReceiveFails, RunHook, UpdateRefs, GitDies, Build,
                           ProcStep, SetProc
  <2> QED BY <1>2, <2>1, QuietStep
<1>3. ASSUME NEW c \in Call, Works(c) PROVE ReceiveTyped'
  <2>1. DOMAIN worker' = Call /\ DOMAIN hook' = Call /\ DOMAIN moved' = Call
    BY <1>3, WorkProc
  <2>2. DOMAIN proc' = Call
    BY <1>3, WorkProc DEF Start, SetProc
  <2>3. DOMAIN tree' = Repo
    BY <1>3, Zenon
       DEF Works, WorkerStep, EnterDenied, EnterAllowed, Stat, Mkdir, GitInit, CreateHook,
           FinishHook, Start, Copy, CopyFails, Wait, RemoveSome, RemoveRest, SetDir
  <2>4. UNCHANGED ret \/ \E e \in {"ok", "err"} : ret' = [ret EXCEPT ![c] = e]
    BY <1>3, Zenon
       DEF Works, WorkerStep, EnterDenied, EnterAllowed, Stat, Mkdir, GitInit, CreateHook,
           FinishHook, Start, Copy, CopyFails, Wait, RemoveSome, RemoveRest, Bail, Leave
  <2> QED BY <1>3, <2>1, <2>2, <2>3, <2>4, WorkStep
<1>4. ASSUME NEW c \in Call, HookMkdir(c) PROVE ReceiveTyped'
  BY <1>4 DEF HookMkdir, SetDir, gitVars, lockVars
<1>5. CASE UNCHANGED vars
  BY <1>5 DEF vars, recvVars, lockVars, gitVars
<1> QED
  BY <1>1, <1>2, <1>3, <1>4, <1>5, NextKinds

(* Every step of git receive is a step of the lock, or leaves it alone. *)
LEMMA ReceiveIsLockStep == ReceiveTyped /\ [Next]_vars => [Lock!Next]_lockVars
<1> SUFFICES ASSUME ReceiveTyped, [Next]_vars PROVE [Lock!Next]_lockVars
  OBVIOUS
<1>1. ASSUME NEW c \in Call, NEW r \in Repo, NEW o, Exec(c, r, o) PROVE Lock!Next
  BY <1>1 DEF Exec, Lock!Next
<1>2. ASSUME NEW c \in Call, Answer(c) PROVE Lock!Next
  BY <1>2 DEF Answer, Lock!Next, Lock!CallerStep
<1>3. ASSUME NEW c \in Call, LockStep(c) PROVE Lock!Next
  BY <1>3 DEF LockStep, Lock!Next, Lock!CallerStep
<1>4. ASSUME NEW c \in Call, EnterDenied(c) PROVE Lock!Next
  BY <1>4 DEF EnterDenied, Lock!Next, Lock!Outcome
<1>5. ASSUME NEW c \in Call, RemoveRest(c) PROVE Lock!Next
  BY <1>5 DEF RemoveRest, Lock!Next, Lock!Outcome, ReceiveTyped
<1>6. ASSUME NEW c \in Call, Quiet(c), ~Answer(c), ~LockStep(c) PROVE UNCHANGED lockVars
  BY <1>6, Zenon DEF Quiet, ClientEOF, ClientSends, GitStep, Received, ReceiveFails, RunHook,
              UpdateRefs, GitDies, Build, ProcStep
<1>7. ASSUME NEW c \in Call, Works(c), ~EnterDenied(c), ~RemoveRest(c)
      PROVE  UNCHANGED lockVars
  BY <1>7, Zenon DEF Works, WorkerStep, EnterAllowed, Stat, Mkdir, GitInit, CreateHook, FinishHook,
              Start, Copy, CopyFails, Wait, RemoveSome, Bail
<1>8. ASSUME NEW c \in Call, HookMkdir(c) PROVE UNCHANGED lockVars
  BY <1>8 DEF HookMkdir
<1>9. CASE UNCHANGED vars
  BY <1>9 DEF vars
<1> QED
  BY <1>1, <1>2, <1>3, <1>4, <1>5, <1>6, <1>7, <1>8, <1>9, NextKinds

-----------------------------------------------------------------------------
(* git is at work. *)
Busy(c) == proc[c] \in {"receiving", "received", "waiting", "update"}

(* Receive runs in the worker goroutine, for a repository; it attends its  *)
(* git process; and only a hook outlives it, with its repository.          *)
StageRuns ==
    \A c \in Call :
        /\ stage[c] # "none" => worker[c] = "running" /\ repo[c] \in Repo
        /\ Busy(c) => stage[c] \in {"copy", "wait"}
        /\ hook[c] = "runs" => /\ stage[c] \in {"none", "copy", "wait", "remove", "removing"}
                               /\ repo[c] \in Repo

(* Between os.MkdirAll and the end of git init, createRepo has the mutex. *)
CreatorHasMutex ==
    \A c \in Call : stage[c] \in {"mkdir", "init"} => createLock = c

(* A directory without a repository is left over, or being made, or at the *)
(* mercy of a call past createRepo.                                        *)
HalfMadeHasOwner ==
    \A r \in Repo \ leftover :
        "root" \in tree[r] =>
            \/ "git" \in tree[r]
            \/ \E d \in Call : repo[d] = r /\ (stage[d] = "init" \/ PastCreateRepo(d))

(* The inductive invariant: what is on the disk has a worker that owns it, *)
(* or is left over.                                                        *)
DirInv ==
    ReceiveTyped /\ StageRuns /\ CreatorHasMutex /\ NoOrphanRepoDir /\ HalfMadeHasOwner

(* A request's first step: the call was free, and enters with nothing.     *)
LEMMA ExecDirInv ==
    ASSUME DirInv, NEW c \in Call, NEW r \in Repo, NEW o \in Operation, Exec(c, r, o)
    PROVE  StageRuns' /\ CreatorHasMutex' /\ NoOrphanRepoDir' /\ HalfMadeHasOwner'
<1> USE DEF DirInv, ReceiveTyped
<1>1. worker[c] = "none" /\ stage[c] = "none"
  BY DEF Exec, Lock!LockAcquired, Lock!LockRefused, Lock!Free, StageRuns
<1>2. /\ UNCHANGED <<createLock, tree, leftover>>
      /\ repo' = [repo EXCEPT ![c] = r]
      /\ proc' = [proc EXCEPT ![c] = "none"] /\ hook' = [hook EXCEPT ![c] = "none"]
      /\ \/ UNCHANGED <<stage, worker>>
         \/ /\ stage' = [stage EXCEPT ![c] = "enter"]
            /\ worker' = [worker EXCEPT ![c] = "running"]
  BY DEF Exec, Goto, SetProc, Lock!LockAcquired, Lock!LockRefused
<1>3. \A d \in Call : d # c => /\ stage'[d] = stage[d] /\ repo'[d] = repo[d]
                              /\ proc'[d] = proc[d] /\ hook'[d] = hook[d]
                              /\ worker'[d] = worker[d]
  BY <1>2
<1>4. /\ repo'[c] = r /\ proc'[c] = "none" /\ hook'[c] = "none"
      /\ stage'[c] = "none" \/ (stage'[c] = "enter" /\ worker'[c] = "running")
  BY <1>1, <1>2
<1>5. StageRuns'
  BY <1>3, <1>4 DEF StageRuns, Busy
<1>6. CreatorHasMutex'
  BY <1>2, <1>3, <1>4 DEF CreatorHasMutex
<1>7. NoOrphanRepoDir' /\ HalfMadeHasOwner'
  BY <1>1, <1>2, <1>3 DEF NoOrphanRepoDir, HalfMadeHasOwner, PastCreateRepo
<1> QED
  BY <1>5, <1>6, <1>7

(* git and its hook move on while Receive attends them. *)
LEMMA QuietStageRuns ==
    ASSUME ReceiveTyped, StageRuns, NEW c \in Call, Quiet(c)
    PROVE  StageRuns'
<1> USE DEF ReceiveTyped
<1>1. \A d \in Call : stage'[d] = stage[d] /\ repo'[d] = repo[d]
  BY QuietStep
<1>2. \A d \in Call : worker[d] = "running" => worker'[d] = "running"
  BY QuietStep
<1>3. ASSUME NEW d \in Call
      PROVE  /\ Busy(d)' => Busy(d)
             /\ hook'[d] = "runs" => hook[d] = "runs" \/ Busy(d)
  <2>1. CASE UNCHANGED <<proc, hook, moved>>
    BY <2>1 DEF Busy
  <2>2. CASE GitStep(c) \/ GitDies(c)
    BY <2>2 DEF GitStep, Received, ReceiveFails, RunHook, UpdateRefs, GitDies, ProcStep, SetProc,
                Busy
  <2>3. CASE Build(c)
    BY <2>3 DEF Build, ProcStep, SetProc, Busy
  <2> QED BY <2>1, <2>2, <2>3, QuietProc
<1> QED
  BY <1>1, <1>2, <1>3, Zenon DEF StageRuns

(* So does the hook's os.MkdirAll: the directory it makes is Receive's to  *)
(* remove, or left over.                                                   *)
LEMMA MkdirDirInv ==
    ASSUME DirInv, NEW c \in Call, HookMkdir(c)
    PROVE  StageRuns' /\ CreatorHasMutex' /\ NoOrphanRepoDir' /\ HalfMadeHasOwner'
<1> USE DEF DirInv, ReceiveTyped
<1>1. UNCHANGED <<stage, createLock, proc, hook, repo, worker>>
  BY DEF HookMkdir, gitVars, lockVars
<1>2. repo[c] \in Repo /\ (stage[c] = "none" \/ PastCreateRepo(c))
  BY DEF HookMkdir, StageRuns, PastCreateRepo
<1>3. /\ \A r \in Repo : r # repo[c] => tree'[r] = tree[r]
      /\ leftover \subseteq leftover'
      /\ stage[c] = "none" => repo[c] \in leftover'
      /\ \A r \in leftover' : r \in leftover \/ r = repo[c]
  BY <1>2 DEF HookMkdir, SetDir
<1>4. StageRuns' /\ CreatorHasMutex'
  BY <1>1 DEF StageRuns, CreatorHasMutex, Busy
<1>5. NoOrphanRepoDir'
  BY <1>1, <1>2, <1>3 DEF NoOrphanRepoDir, PastCreateRepo
<1>6. HalfMadeHasOwner'
  BY <1>1, <1>2, <1>3 DEF HalfMadeHasOwner, PastCreateRepo
<1> QED
  BY <1>4, <1>5, <1>6

(* Receive moves on: it leaves its git process only once that has exited. *)
LEMMA WorkStageRuns ==
    ASSUME ReceiveTyped, StageRuns, NEW c \in Call, Works(c)
    PROVE  StageRuns'
<1> USE DEF ReceiveTyped
<1>1. /\ \A d \in Call : repo'[d] = repo[d]
      /\ \A d \in Call : d # c => stage'[d] = stage[d]
      /\ worker[c] = "running" /\ repo[c] \in Repo
  BY WorkStep DEF StageRuns
<1>2. \A d \in Call : d # c => proc'[d] = proc[d] /\ hook'[d] = hook[d] /\ worker'[d] = worker[d]
  BY WorkProc DEF Start, SetProc, gitVars
<1>3. /\ stage'[c] # "none" => worker'[c] = "running"
      /\ hook'[c] = "runs" => hook[c] = "runs"
  BY <1>1, WorkProc
<1>4. Busy(c)' => stage'[c] \in {"copy", "wait"}
  <2>1. CASE EnterDenied(c) \/ RemoveRest(c)
    BY <2>1 DEF EnterDenied, RemoveRest, Leave, SetProc, Busy
  <2>2. CASE Start(c)
    BY <2>2 DEF Start, Bail, Goto, SetProc, At, StageRuns, Busy
  <2>3. CASE Copy(c) \/ CopyFails(c) \/ Wait(c)
    BY <2>3 DEF Copy, CopyFails, Wait, Bail, Goto, Exited, Busy, gitVars
  <2>4. CASE EnterAllowed(c) \/ Stat(c) \/ Mkdir(c) \/ GitInit(c)
    BY <2>4 DEF EnterAllowed, Stat, Mkdir, GitInit, At, StageRuns, Busy, gitVars
  <2>5. CASE CreateHook(c) \/ FinishHook(c) \/ RemoveSome(c)
    BY <2>5 DEF CreateHook, FinishHook, RemoveSome, At, StageRuns, Busy, gitVars
  <2> QED BY <2>1, <2>2, <2>3, <2>4, <2>5, Zenon DEF Works, WorkerStep
<1>5. hook[c] = "runs" => stage'[c] \in {"none", "copy", "wait", "remove", "removing"}
  <2> USE DEF At, Bail, Goto, StageRuns
  <2>1. CASE EnterDenied(c) \/ RemoveRest(c) \/ RemoveSome(c)
    BY <2>1 DEF EnterDenied, RemoveRest, RemoveSome, Leave
  <2>2. CASE Copy(c) \/ CopyFails(c) \/ Wait(c)
    BY <2>2 DEF Copy, CopyFails, Wait
  <2>3. CASE EnterAllowed(c) \/ Stat(c) \/ Mkdir(c) \/ GitInit(c)
    BY <2>3 DEF EnterAllowed, Stat, Mkdir, GitInit
  <2>4. CASE CreateHook(c) \/ FinishHook(c) \/ Start(c)
    BY <2>4 DEF CreateHook, FinishHook, Start
  <2> QED BY <2>1, <2>2, <2>3, <2>4, Zenon DEF Works, WorkerStep
<1> QED
  BY <1>1, <1>2, <1>3, <1>4, <1>5 DEF StageRuns, Busy

(* Receive changes only its own repository's directory, from a stage that  *)
(* ends in the removal; and creates under the mutex.                       *)
LEMMA WorkDirInv ==
    ASSUME DirInv, NEW c \in Call, Works(c)
    PROVE  CreatorHasMutex' /\ NoOrphanRepoDir' /\ HalfMadeHasOwner'
<1> USE DEF DirInv, ReceiveTyped
<1>1. /\ UNCHANGED repo /\ repo[c] \in Repo /\ stage[c] # "none"
      /\ \A d \in Call : d # c => stage'[d] = stage[d]
  BY WorkStep DEF StageRuns
<1>2. CreatorHasMutex'
  <2> USE DEF CreatorHasMutex, At, Goto, Bail
  <2>1. CASE EnterDenied(c) \/ EnterAllowed(c) \/ RemoveSome(c) \/ RemoveRest(c)
    BY <1>1, <2>1 DEF EnterDenied, EnterAllowed, RemoveSome, RemoveRest, Leave
  <2>2. CASE Stat(c)
    BY <1>1, <2>2, NoCallAssumption DEF Stat, MutexFree
  <2>3. CASE Mkdir(c) \/ GitInit(c)
    BY <1>1, <2>3, NoCallAssumption DEF Mkdir, GitInit, MutexReleased
  <2>4. CASE CreateHook(c) \/ FinishHook(c) \/ Start(c)
    BY <1>1, <2>4 DEF CreateHook, FinishHook, Start
  <2>5. CASE Copy(c) \/ CopyFails(c) \/ Wait(c)
    BY <1>1, <2>5 DEF Copy, CopyFails, Wait
  <2> QED BY <2>1, <2>2, <2>3, <2>4, <2>5, Zenon DEF Works, WorkerStep
<1>3. CASE RemoveRest(c)
  <2>1. /\ \A r \in Repo : r # repo[c] => tree'[r] = tree[r]
        /\ \A r : r # repo[c] => (r \in leftover' <=> r \in leftover)
        /\ tree'[repo[c]] = {} \/ repo[c] \in leftover'
    BY <1>1, <1>3 DEF RemoveRest, SetDir
  <2> QED
    BY <1>1, <1>2, <2>1 DEF NoOrphanRepoDir, HalfMadeHasOwner, PastCreateRepo
<1>4. CASE EnterDenied(c)
  <2>1. UNCHANGED <<tree, leftover>> /\ stage[c] = "enter"
    BY <1>4 DEF EnterDenied, At
  <2> QED
    BY <1>1, <1>2, <2>1 DEF NoOrphanRepoDir, HalfMadeHasOwner, PastCreateRepo
<1>5. CASE EnterAllowed(c)
  <2>1. UNCHANGED <<tree, leftover>> /\ stage[c] = "enter" /\ stage'[c] = "stat"
    BY <1>5 DEF EnterAllowed, At, Goto
  <2> QED
    BY <1>1, <1>2, <2>1 DEF NoOrphanRepoDir, HalfMadeHasOwner, PastCreateRepo
<1>6. CASE Works(c) /\ ~RemoveRest(c) /\ ~EnterDenied(c) /\ ~EnterAllowed(c)
  <2>1. UNCHANGED leftover /\ stage[c] \notin {"none", "enter"} /\ stage'[c] \notin {"none", "enter"}
    <3> USE DEF At, Goto, Bail
    <3>1. CASE Stat(c) \/ Mkdir(c) \/ GitInit(c) \/ CreateHook(c)
      BY <3>1 DEF Stat, Mkdir, GitInit, CreateHook
    <3>2. CASE FinishHook(c) \/ Start(c) \/ Copy(c) \/ CopyFails(c)
      BY <3>2 DEF FinishHook, Start, Copy, CopyFails
    <3>3. CASE Wait(c) \/ RemoveSome(c)
      BY <3>3 DEF Wait, RemoveSome
    <3> QED BY <1>6, <3>1, <3>2, <3>3, Zenon DEF Works, WorkerStep
  <2>2. UNCHANGED tree \/ \E x : tree' = [tree EXCEPT ![repo[c]] = x]
    BY <1>6, Zenon
       DEF Works, WorkerStep, Stat, Mkdir, GitInit, CreateHook, FinishHook, Start, Copy, CopyFails,
           Wait, RemoveSome, SetDir
  <2>3. \A r \in Repo : r # repo[c] => tree'[r] = tree[r]
    BY <2>2
  <2>4. NoOrphanRepoDir'
    BY <1>1, <2>1, <2>3 DEF NoOrphanRepoDir
  <2>5. \/ stage'[c] = "init" \/ PastCreateRepo(c)'
        \/ UNCHANGED tree /\ stage[c] # "init" /\ ~PastCreateRepo(c)
    <3> USE DEF At, Goto, Bail, PastCreateRepo
    <3>1. CASE Stat(c) \/ Mkdir(c) \/ GitInit(c) \/ CreateHook(c)
      BY <3>1 DEF Stat, Mkdir, GitInit, CreateHook
    <3>2. CASE FinishHook(c) \/ Start(c) \/ Copy(c) \/ CopyFails(c)
      BY <3>2 DEF FinishHook, Start, Copy, CopyFails
    <3>3. CASE Wait(c) \/ RemoveSome(c)
      BY <3>3 DEF Wait, RemoveSome
    <3> QED BY <1>6, <3>1, <3>2, <3>3, Zenon DEF Works, WorkerStep
  <2>6. HalfMadeHasOwner'
    <3>1. CASE stage'[c] = "init" \/ PastCreateRepo(c)'
      BY <1>1, <2>1, <2>3, <3>1 DEF HalfMadeHasOwner, PastCreateRepo
    <3>2. CASE UNCHANGED tree /\ stage[c] # "init" /\ ~PastCreateRepo(c)
      BY <1>1, <2>1, <3>2 DEF HalfMadeHasOwner, PastCreateRepo
    <3> QED BY <2>5, <3>1, <3>2
  <2> QED BY <1>2, <2>4, <2>6
<1> QED
  BY <1>3, <1>4, <1>5, <1>6

(* The invariant holds in every reachable state. *)
LEMMA DirInvariant == SafetySpec => []DirInv
<1>1. Init => DirInv
  BY DEF Init, Lock!Init, DirInv, ReceiveTyped, StageRuns, Busy, CreatorHasMutex, NoOrphanRepoDir,
         HalfMadeHasOwner
<1>2. DirInv /\ [Next]_vars => DirInv'
  <2> SUFFICES ASSUME DirInv, [Next]_vars
               PROVE  StageRuns' /\ CreatorHasMutex' /\ NoOrphanRepoDir' /\ HalfMadeHasOwner'
    BY StepReceiveTyped DEF DirInv
  <2>1. CASE UNCHANGED vars
    BY <2>1 DEF vars, recvVars, lockVars, gitVars, DirInv, StageRuns, Busy, CreatorHasMutex,
                NoOrphanRepoDir, HalfMadeHasOwner, PastCreateRepo
  <2>2. ASSUME NEW c \in Call, NEW r \in Repo, NEW o \in Operation, Exec(c, r, o)
        PROVE  StageRuns' /\ CreatorHasMutex' /\ NoOrphanRepoDir' /\ HalfMadeHasOwner'
    BY <2>2, ExecDirInv
  <2>3. ASSUME NEW c \in Call, Quiet(c)
        PROVE  StageRuns' /\ CreatorHasMutex' /\ NoOrphanRepoDir' /\ HalfMadeHasOwner'
    <3>1. StageRuns'
      BY <2>3, QuietStageRuns DEF DirInv
    <3> QED
      BY <2>3, <3>1, QuietStep DEF DirInv, CreatorHasMutex, NoOrphanRepoDir, HalfMadeHasOwner,
                                   PastCreateRepo
  <2>4. ASSUME NEW c \in Call, Works(c)
        PROVE  StageRuns' /\ CreatorHasMutex' /\ NoOrphanRepoDir' /\ HalfMadeHasOwner'
    BY <2>4, WorkStageRuns, WorkDirInv DEF DirInv
  <2>5. ASSUME NEW c \in Call, HookMkdir(c)
        PROVE  StageRuns' /\ CreatorHasMutex' /\ NoOrphanRepoDir' /\ HalfMadeHasOwner'
    BY <2>5, MkdirDirInv
  <2> QED
    BY <2>1, <2>2, <2>3, <2>4, <2>5, NextKinds
<1> QED
  BY <1>1, <1>2, PTL DEF SafetySpec

(* A repository directory exists only while a worker that will remove it   *)
(* is at work, or where a RemoveAll failed or a hook outlived Receive, for *)
(* any calls and repositories, overlapping pushes after a timeout included *)
(* (git.go:58).                                                            *)
THEOREM NoOrphanRepoDirAlways == SafetySpec => []NoOrphanRepoDir
<1>1. DirInv => NoOrphanRepoDir
  BY DEF DirInv
<1> QED
  BY <1>1, DirInvariant, PTL

(* createRepo's mutex hides half-made repositories from every other call,  *)
(* for any calls and repositories (git.go:131-158).                        *)
THEOREM NobodyJoinsHalfMadeRepoEver == SafetySpec => NobodyJoinsHalfMadeRepo
<1> DEFINE MayJoin(c) == \/ "git" \in Dir(c)
                         \/ repo[c] \in leftover
                         \/ \E d \in Call : repo[d] = repo[c] /\ PastCreateRepo(d)
<1>1. ASSUME DirInv, NEW c \in Call, Stat(c), stage'[c] = "hook"
      PROVE  MayJoin(c)
  <2>1. "root" \in Dir(c)
    BY <1>1 DEF Stat, Goto, Bail, DirInv, ReceiveTyped
  <2>2. \A d \in Call : stage[d] # "init"
    BY <1>1, NoCallAssumption DEF Stat, MutexFree, DirInv, CreatorHasMutex
  <2>3. repo[c] \in Repo
    BY <1>1 DEF Stat, At, DirInv, StageRuns
  <2> QED
    BY <1>1, <2>1, <2>2, <2>3 DEF DirInv, HalfMadeHasOwner, Dir
<1>2. ASSUME DirInv, [Next]_vars, NEW c \in Call, stage[c] = "stat", stage'[c] = "hook"
      PROVE  Stat(c)
  <2> USE DEF DirInv, ReceiveTyped
  <2>1. ASSUME NEW d \in Call, NEW r \in Repo, NEW o \in Operation, Exec(d, r, o)
        PROVE  stage'[c] # "hook"
    BY <1>2, <2>1 DEF Exec, Goto
  <2>2. ASSUME NEW d \in Call, Quiet(d) \/ HookMkdir(d)
        PROVE  UNCHANGED stage
    BY <2>2, QuietStep DEF HookMkdir
  <2>3. ASSUME NEW d \in Call, Works(d)
        PROVE  d = c
    BY <1>2, <2>3, WorkStep
  <2>4. Works(c) /\ ~Stat(c) => FALSE
    <3> USE DEF At, Goto, Bail, Leave
    <3>1. CASE EnterDenied(c) \/ EnterAllowed(c) \/ Mkdir(c) \/ GitInit(c)
      BY <1>2, <3>1 DEF EnterDenied, EnterAllowed, Mkdir, GitInit
    <3>2. CASE CreateHook(c) \/ FinishHook(c) \/ Start(c) \/ Copy(c)
      BY <1>2, <3>2 DEF CreateHook, FinishHook, Start, Copy
    <3>3. CASE CopyFails(c) \/ Wait(c) \/ RemoveSome(c) \/ RemoveRest(c)
      BY <1>2, <3>3 DEF CopyFails, Wait, RemoveSome, RemoveRest
    <3> QED BY <3>1, <3>2, <3>3, Zenon DEF Works, WorkerStep
  <2>5. ~UNCHANGED vars
    BY <1>2, Zenon DEF vars, recvVars
  <2> QED
    BY <1>2, <2>1, <2>2, <2>3, <2>4, <2>5, NextKinds
<1>3. DirInv /\ [Next]_vars =>
        [\A c \in Call : stage[c] = "stat" /\ stage'[c] = "hook" => MayJoin(c)]_vars
  BY <1>1, <1>2
<1> QED
  BY <1>3, DirInvariant, PTL DEF SafetySpec, NobodyJoinsHalfMadeRepo

-----------------------------------------------------------------------------
LP == INSTANCE PushLockProofs

(* Every step keeps the lock's own invariant. *)
LEMMA StepReceiveLockInv == ReceiveTyped /\ LP!LockInv /\ [Next]_vars => LP!LockInv'
<1>1. [Lock!Next]_lockVars => [LP!Next]_(LP!lockVars)
  BY DEF lockVars, LP!lockVars, Lock!Next, LP!Next, Lock!LockRefused, LP!LockRefused,
         Lock!LockAcquired, LP!LockAcquired, Lock!Free, LP!Free, Lock!Locked, LP!Locked,
         Lock!FnReturn, LP!FnReturn, Lock!Outcome, LP!Outcome, Lock!TimerFires, LP!TimerFires,
         Lock!WorkerDropsResult, LP!WorkerDropsResult, Lock!CallerStep, LP!CallerStep,
         Lock!SelectTimer, LP!SelectTimer, Lock!SelectFn, LP!SelectFn, Lock!CloseDone,
         LP!CloseDone, Lock!Unlock, LP!Unlock, Lock!Answered, LP!Answered
<1>2. LP!LockInv /\ [LP!Next]_(LP!lockVars) => LP!LockInv'
  BY LP!StepLockInv, ReceiveRepoAssumption
<1> QED
  BY <1>1, <1>2, ReceiveIsLockStep

(* A worker that runs on after its caller gave up is on record. *)
OverranInv ==
    \A c \in Call : worker[c] = "running" /\ result[c] = "timeout" => repo[c] \in overran

(* Where no worker overran, the hook stays as createPreReceiveHook left it *)
(* until Receive itself removes it.                                        *)
HookFile ==
    \A c \in Call : stage[c] \in {"start", "copy", "wait"} /\ repo[c] \notin overran
                    => "hook" \in Dir(c)

(* ... and git moves refs only after that hook's success. *)
MovedInv ==
    \A c \in Call :
        /\ moved[c] => proc[c] = "ok" /\ stage[c] \in {"copy", "wait", "remove", "removing"}
        /\ moved[c] \/ proc[c] = "update" => hook[c] = "built" \/ repo[c] \in overran

(* The inductive invariant of the builds. *)
UnbuiltInv == DirInv /\ LP!LockInv /\ OverranInv /\ HookFile /\ MovedInv

(* Two workers are on one repository only when one of them overran.        *)
LEMMA OneWorker ==
    ASSUME LP!LockInv, OverranInv, NEW c \in Call, NEW d \in Call, c # d,
           worker[c] = "running", worker[d] = "running", repo[c] = repo[d]
    PROVE  repo[c] \in overran
  BY DEF OverranInv, LP!LockInv, LP!AttendedWorker, LP!Abandoned, LP!LockExact, LP!Holding

(* A request's first step starts with no result, git or hook. *)
LEMMA ExecUnbuilt ==
    ASSUME UnbuiltInv, NEW c \in Call, NEW r \in Repo, NEW o \in Operation, Exec(c, r, o)
    PROVE  OverranInv' /\ HookFile' /\ MovedInv'
<1> USE DEF UnbuiltInv, DirInv, ReceiveTyped
<1>1. worker[c] = "none" /\ stage[c] = "none" /\ DOMAIN result = Call
  BY DEF Exec, Lock!LockAcquired, Lock!LockRefused, Lock!Free, StageRuns, LP!LockInv, LP!TypeOK
<1>2. /\ UNCHANGED <<tree, overran>> /\ repo' = [repo EXCEPT ![c] = r]
      /\ proc' = [proc EXCEPT ![c] = "none"] /\ hook' = [hook EXCEPT ![c] = "none"]
      /\ moved' = [moved EXCEPT ![c] = FALSE]
  BY DEF Exec, Goto, SetProc, Lock!LockAcquired, Lock!LockRefused
<1>3. \/ /\ UNCHANGED <<stage, worker>> /\ result' = [result EXCEPT ![c] = "alreadyLocked"]
      \/ /\ stage' = [stage EXCEPT ![c] = "enter"] /\ worker' = [worker EXCEPT ![c] = "running"]
         /\ result' = [result EXCEPT ![c] = "none"]
  BY DEF Exec, Goto, Lock!LockAcquired, Lock!LockRefused
<1>4. OverranInv'
  BY <1>1, <1>2, <1>3 DEF OverranInv
<1>5. HookFile'
  BY <1>1, <1>2, <1>3 DEF HookFile, Dir
<1>6. MovedInv'
  BY <1>1, <1>2, <1>3 DEF MovedInv
<1> QED
  BY <1>4, <1>5, <1>6

(* The record grows with the timer's branch of the select, and only there. *)
LEMMA QuietOverran ==
    ASSUME UnbuiltInv, NEW c \in Call, Quiet(c)
    PROVE  OverranInv' /\ overran \subseteq overran'
<1> USE DEF UnbuiltInv, DirInv, ReceiveTyped
<1>0. DOMAIN result = Call
  BY DEF LP!LockInv, LP!TypeOK
<1>1. CASE UNCHANGED <<result, overran>>
  BY <1>1, QuietStep DEF OverranInv
<1>2. CASE Lock!SelectTimer(c) /\ LockStep(c)
  <2>1. /\ UNCHANGED <<worker, repo>> /\ result' = [result EXCEPT ![c] = "timeout"]
        /\ overran' = IF worker[c] = "running" THEN overran \cup {repo[c]} ELSE overran
    BY <1>2 DEF LockStep, Lock!SelectTimer, Lock!TimerFires, Lock!SelectFn, Lock!CloseDone,
                Lock!WorkerDropsResult, Lock!Unlock, LP!LockInv, LP!TypeOK
  <2> QED
    BY <1>0, <2>1 DEF OverranInv
<1>3. CASE Lock!SelectFn(c) /\ UNCHANGED overran
  BY <1>0, <1>3 DEF Lock!SelectFn, OverranInv
<1>4. \/ UNCHANGED <<result, overran>>
      \/ Lock!SelectTimer(c) /\ LockStep(c)
      \/ Lock!SelectFn(c) /\ UNCHANGED overran
  <2>1. CASE Answer(c)
    BY <2>1, Zenon DEF Answer, Lock!Answered
  <2>2. CASE LockStep(c)
    BY <2>2, Zenon DEF LockStep, Lock!TimerFires, Lock!CloseDone, Lock!WorkerDropsResult,
                       Lock!Unlock
  <2>3. CASE GitStep(c) \/ GitDies(c) \/ Build(c)
    BY <2>3, Zenon DEF GitStep, Received, ReceiveFails, RunHook, UpdateRefs, GitDies, Build,
                       ProcStep, lockVars
  <2>4. CASE ClientSends(c) \/ ClientEOF(c)
    BY <2>4, Zenon DEF ClientSends, ClientEOF, lockVars
  <2> QED
    BY <2>1, <2>2, <2>3, <2>4, Zenon DEF Quiet
<1> QED
  BY <1>1, <1>2, <1>3, <1>4

(* git asks its hook first, and moves refs on its success. *)
LEMMA QuietUnbuilt ==
    ASSUME UnbuiltInv, NEW c \in Call, Quiet(c)
    PROVE  OverranInv' /\ HookFile' /\ MovedInv'
<1> USE DEF UnbuiltInv, DirInv, ReceiveTyped
<1>1. UNCHANGED <<stage, tree, repo>> /\ overran \subseteq overran' /\ OverranInv'
  BY QuietStep, QuietOverran
<1>2. HookFile'
  BY <1>1 DEF HookFile, Dir
<1>3. ASSUME \A d \in Call : d # c => proc'[d] = proc[d] /\ hook'[d] = hook[d] /\ moved'[d] = moved[d],
             moved'[c] => proc'[c] = "ok" /\ stage[c] \in {"copy", "wait", "remove", "removing"},
             moved'[c] \/ proc'[c] = "update" => hook'[c] = "built" \/ repo[c] \in overran
      PROVE  MovedInv'
  BY <1>1, <1>3 DEF MovedInv
<1>4. Busy(c) => stage[c] \in {"copy", "wait"}
  BY DEF StageRuns
<1>5. CASE UNCHANGED <<proc, hook, moved>>
  BY <1>1, <1>2, <1>3, <1>5 DEF MovedInv
<1>6. CASE Received(c) \/ ReceiveFails(c) \/ GitDies(c)
  BY <1>1, <1>2, <1>3, <1>6 DEF Received, ReceiveFails, GitDies, ProcStep, SetProc, MovedInv
<1>7. CASE RunHook(c)
  <2>1. repo[c] \in overran \/ "hook" \in Dir(c)
    BY <1>4, <1>7 DEF RunHook, Busy, HookFile
  <2> QED
    BY <1>1, <1>2, <1>3, <1>7, <2>1 DEF RunHook, ProcStep, SetProc, MovedInv
<1>8. CASE UpdateRefs(c)
  BY <1>1, <1>2, <1>3, <1>4, <1>8 DEF UpdateRefs, ProcStep, SetProc, MovedInv, Busy
<1>9. CASE Build(c)
  BY <1>1, <1>2, <1>3, <1>9 DEF Build, ProcStep, SetProc, MovedInv
<1> QED
  BY <1>1, <1>2, <1>5, <1>6, <1>7, <1>8, <1>9, QuietProc DEF GitStep

(* Receive installs the hook before it starts git, and removes it after.   *)
LEMMA WorkUnbuilt ==
    ASSUME UnbuiltInv, NEW c \in Call, Works(c)
    PROVE  OverranInv' /\ HookFile' /\ MovedInv'
<1> USE DEF UnbuiltInv, DirInv, ReceiveTyped
<1>1. /\ worker[c] = "running" /\ repo[c] \in Repo
      /\ UNCHANGED <<repo, result, overran>>
      /\ \A d \in Call : d # c => stage'[d] = stage[d]
  BY WorkStep DEF StageRuns
<1>2. OverranInv'
  BY <1>1, WorkProc DEF OverranInv
<1>3. UNCHANGED tree \/ \E x : tree' = [tree EXCEPT ![repo[c]] = x]
  BY Zenon
     DEF Works, WorkerStep, EnterDenied, EnterAllowed, Stat, Mkdir, GitInit, CreateHook, FinishHook,
         Start, Copy, CopyFails, Wait, RemoveSome, RemoveRest, SetDir
<1>4. ASSUME NEW d \in Call, d # c, stage[d] # "none", repo[d] \notin overran
      PROVE  tree'[repo[d]] = tree[repo[d]]
  <2>1. worker[d] = "running" /\ repo[d] \in Repo
    BY <1>4 DEF StageRuns
  <2>2. repo[d] # repo[c]
    BY <1>1, <1>4, <2>1, OneWorker
  <2> QED
    BY <1>3, <2>1, <2>2
<1>5. stage'[c] \in {"start", "copy", "wait"} =>
         "hook" \in tree'[repo[c]] \/ (UNCHANGED tree /\ stage[c] \in {"start", "copy", "wait"})
  <2> USE <1>1 DEF At, Goto, Bail, Leave
  <2>1. CASE EnterDenied(c) \/ EnterAllowed(c) \/ Stat(c) \/ Mkdir(c)
    BY <2>1 DEF EnterDenied, EnterAllowed, Stat, Mkdir
  <2>2. CASE GitInit(c) \/ CreateHook(c) \/ FinishHook(c)
    BY <2>2 DEF GitInit, CreateHook, FinishHook, SetDir
  <2>3. CASE Start(c) \/ Copy(c) \/ CopyFails(c) \/ Wait(c)
    BY <2>3 DEF Start, Copy, CopyFails, Wait
  <2>4. CASE RemoveSome(c) \/ RemoveRest(c)
    BY <2>4 DEF RemoveSome, RemoveRest
  <2> QED BY <2>1, <2>2, <2>3, <2>4, Zenon DEF Works, WorkerStep
<1>6. HookFile'
  BY <1>1, <1>4, <1>5 DEF HookFile, Dir
<1>7. MovedInv'
  <2>1. CASE EnterDenied(c) \/ RemoveRest(c)
    <3>1. /\ moved' = [moved EXCEPT ![c] = FALSE] /\ proc' = [proc EXCEPT ![c] = "none"]
          /\ \A d \in Call : d # c => hook'[d] = hook[d]
      BY <2>1 DEF EnterDenied, RemoveRest, Leave, SetProc
    <3> QED
      BY <1>1, <3>1 DEF MovedInv
  <2>2. CASE Start(c)
    <3>1. /\ stage[c] = "start" /\ UNCHANGED <<hook, moved>>
          /\ UNCHANGED proc \/ proc' = [proc EXCEPT ![c] = "receiving"]
      BY <2>2 DEF Start, At, SetProc, Bail
    <3> QED
      BY <1>1, <3>1 DEF MovedInv
  <2>3. CASE ~EnterDenied(c) /\ ~RemoveRest(c) /\ ~Start(c)
    <3>1. UNCHANGED <<proc, hook, moved>>
      BY <2>3, WorkProc
    <3>2. stage[c] \in {"copy", "wait", "remove", "removing"}
             => stage'[c] \in {"copy", "wait", "remove", "removing"}
      BY <2>3, Zenon
         DEF Works, WorkerStep, EnterAllowed, Stat, Mkdir, GitInit, CreateHook, FinishHook, Copy,
             CopyFails, Wait, RemoveSome, At, Goto, Bail
    <3> QED
      BY <1>1, <3>1, <3>2 DEF MovedInv
  <2> QED BY <2>1, <2>2, <2>3
<1> QED
  BY <1>2, <1>6, <1>7

(* The invariant holds in every reachable state. *)
LEMMA UnbuiltInvariant == SafetySpec => []UnbuiltInv
<1>1. Init => LP!LockInv /\ OverranInv /\ HookFile /\ MovedInv
  <2>1. Init => LP!Init
    BY DEF Init, Lock!Init, LP!Init
  <2>2. LP!Init => LP!LockInv
    BY LP!InitLockInv, ReceiveRepoAssumption
  <2> QED
    BY <2>1, <2>2 DEF Init, Lock!Init, OverranInv, HookFile, MovedInv
<1>2. UnbuiltInv /\ [Next]_vars => LP!LockInv' /\ OverranInv' /\ HookFile' /\ MovedInv'
  <2> SUFFICES ASSUME UnbuiltInv, [Next]_vars
               PROVE  LP!LockInv' /\ OverranInv' /\ HookFile' /\ MovedInv'
    OBVIOUS
  <2>0. LP!LockInv'
    BY StepReceiveLockInv DEF UnbuiltInv, DirInv
  <2>1. CASE UNCHANGED vars
    BY <2>0, <2>1 DEF vars, recvVars, lockVars, gitVars, UnbuiltInv, OverranInv, HookFile, MovedInv,
                      Dir
  <2>2. ASSUME NEW c \in Call, NEW r \in Repo, NEW o \in Operation, Exec(c, r, o)
        PROVE  OverranInv' /\ HookFile' /\ MovedInv'
    BY <2>2, ExecUnbuilt
  <2>3. ASSUME NEW c \in Call, Quiet(c)
        PROVE  OverranInv' /\ HookFile' /\ MovedInv'
    BY <2>3, QuietUnbuilt
  <2>4. ASSUME NEW c \in Call, Works(c)
        PROVE  OverranInv' /\ HookFile' /\ MovedInv'
    BY <2>4, WorkUnbuilt
  <2>5. ASSUME NEW c \in Call, HookMkdir(c)
        PROVE  OverranInv' /\ HookFile' /\ MovedInv'
    <3>1. /\ UNCHANGED <<stage, proc, hook, moved, overran, worker, result, repo>>
          /\ tree' = [tree EXCEPT ![repo[c]] = Dir(c) \cup {"root"}]
          /\ repo[c] \in Repo /\ DOMAIN tree = Repo
      BY <2>5 DEF HookMkdir, SetDir, gitVars, lockVars, UnbuiltInv, DirInv, ReceiveTyped, StageRuns
    <3>2. \A r \in Repo : tree[r] \subseteq tree'[r]
      BY <3>1 DEF Dir
    <3>3. HookFile'
      BY <3>1, <3>2 DEF HookFile, Dir, UnbuiltInv, DirInv, StageRuns
    <3> QED
      BY <3>1, <3>3 DEF UnbuiltInv, OverranInv, MovedInv
  <2> QED
    BY <2>0, <2>1, <2>2, <2>3, <2>4, <2>5, NextKinds
<1> QED
  BY <1>1, <1>2, DirInvariant, PTL DEF SafetySpec, UnbuiltInv

(* Refs move without a successful build only on a repository where the     *)
(* lock once gave up on a running worker, for any calls and repositories,  *)
(* whatever fails or dies and whatever was left behind (git.go:60-72).     *)
THEOREM UnbuiltOnlyAfterTimeoutAlways == SafetySpec => []UnbuiltOnlyAfterTimeout
<1>1. UnbuiltInv => UnbuiltOnlyAfterTimeout
  BY DEF UnbuiltInv, MovedInv, UnbuiltOnlyAfterTimeout
<1> QED
  BY <1>1, UnbuiltInvariant, PTL

-----------------------------------------------------------------------------
Stages == {"none", "enter", "stat", "mkdir", "init", "hook", "chmod",
           "start", "copy", "wait", "remove", "removing"}
Procs == {"none", "receiving", "received", "waiting", "update", "ok", "fail"}
Hooks == {"none", "runs", "built", "failed"}

(* The types of what git receive adds to the lock. *)
ReceiveTypes ==
    /\ op \in [Call -> Operation \cup {"none"}]
    /\ stage \in [Call -> Stages]
    /\ createLock \in Call \cup {NoCall}
    /\ tree \in [Repo -> SUBSET Part]
    /\ proc \in [Call -> Procs]
    /\ hook \in [Call -> Hooks]
    /\ moved \in [Call -> BOOLEAN]
    /\ channel \in [Call -> {"closed", "open", "eof"}]
    /\ sent \in [Call -> BOOLEAN]
    /\ status \in [Call -> {"none", "0", "1"}]
    /\ leftover \subseteq Repo /\ overran \subseteq Repo

(* The steps of Receive keep them. *)
LEMMA WorkTypes ==
    ASSUME DirInv, ReceiveTypes, NEW c \in Call, Works(c)
    PROVE  ReceiveTypes'
<1>0. repo[c] \in Repo /\ UNCHANGED <<channel, status, overran>>
  BY WorkStep DEF DirInv, StageRuns
<1>1. /\ UNCHANGED op \/ op' = [op EXCEPT ![c] = "none"]
      /\ UNCHANGED sent \/ sent' = [sent EXCEPT ![c] = FALSE]
      /\ UNCHANGED moved \/ moved' = [moved EXCEPT ![c] = FALSE]
      /\ UNCHANGED hook \/ hook' = [hook EXCEPT ![c] = IF @ = "runs" THEN "runs" ELSE "none"]
      /\ \/ UNCHANGED proc
         \/ proc' = [proc EXCEPT ![c] = "receiving"] \/ proc' = [proc EXCEPT ![c] = "none"]
  BY Zenon
     DEF Works, WorkerStep, EnterDenied, EnterAllowed, Stat, Mkdir, GitInit, CreateHook, FinishHook,
         Start, Copy, CopyFails, Wait, RemoveSome, RemoveRest, Leave, SetProc, gitVars, chanVars
<1>2. \E t \in Stages : stage' = [stage EXCEPT ![c] = t]
  <2> USE DEF Goto, Bail, Stages
  <2>1. CASE EnterDenied(c) \/ EnterAllowed(c) \/ Stat(c) \/ Mkdir(c)
    BY <2>1 DEF EnterDenied, EnterAllowed, Stat, Mkdir, Leave
  <2>2. CASE GitInit(c) \/ CreateHook(c) \/ FinishHook(c) \/ Start(c)
    BY <2>2 DEF GitInit, CreateHook, FinishHook, Start
  <2>3. CASE Copy(c) \/ CopyFails(c) \/ Wait(c) \/ RemoveSome(c) \/ RemoveRest(c)
    BY <2>3 DEF Copy, CopyFails, Wait, RemoveSome, RemoveRest, Leave
  <2> QED
    BY <2>1, <2>2, <2>3, Zenon DEF Works, WorkerStep
<1>3. createLock' \in {createLock, c, NoCall}
  BY Zenon
     DEF Works, WorkerStep, EnterDenied, EnterAllowed, Stat, Mkdir, GitInit, CreateHook, FinishHook,
         Start, Copy, CopyFails, Wait, RemoveSome, RemoveRest, MutexReleased, Leave
<1>4. tree' = tree \/ \E d : d \subseteq Part /\ tree' = [tree EXCEPT ![repo[c]] = d]
  <2>1. Dir(c) \subseteq Part
    BY <1>0 DEF ReceiveTypes, Dir
  <2>2. {"root"} \subseteq Part /\ {"git", "hooks"} \subseteq Part /\ {"hook"} \subseteq Part
    BY DEF Part
  <2> USE <2>1, <2>2 DEF SetDir
  <2>3. CASE Mkdir(c) \/ GitInit(c)
    BY <2>3 DEF Mkdir, GitInit
  <2>4. CASE CreateHook(c) \/ FinishHook(c)
    BY <2>4 DEF CreateHook, FinishHook
  <2>5. CASE RemoveSome(c) \/ RemoveRest(c)
    BY <2>5 DEF RemoveSome, RemoveRest
  <2>6. CASE \/ EnterDenied(c) \/ EnterAllowed(c) \/ Stat(c) \/ Start(c) \/ Copy(c)
             \/ CopyFails(c) \/ Wait(c)
    BY <2>6, Zenon DEF EnterDenied, EnterAllowed, Stat, Start, Copy, CopyFails, Wait
  <2> QED
    BY <2>3, <2>4, <2>5, <2>6, Zenon DEF Works, WorkerStep
<1>5. leftover' \in {leftover, leftover \cup {repo[c]}, leftover \ {repo[c]}}
  BY Zenon
     DEF Works, WorkerStep, EnterDenied, EnterAllowed, Stat, Mkdir, GitInit, CreateHook, FinishHook,
         Start, Copy, CopyFails, Wait, RemoveSome, RemoveRest
<1>6. stage' \in [Call -> Stages]
  BY <1>2 DEF ReceiveTypes
<1>7. tree' \in [Repo -> SUBSET Part]
  BY <1>4 DEF ReceiveTypes
<1>8. proc' \in [Call -> Procs] /\ hook' \in [Call -> Hooks]
  BY <1>1 DEF ReceiveTypes, Procs, Hooks
<1>9. op' \in [Call -> Operation \cup {"none"}] /\ createLock' \in Call \cup {NoCall}
  BY <1>1, <1>3 DEF ReceiveTypes
<1>10. moved' \in [Call -> BOOLEAN] /\ sent' \in [Call -> BOOLEAN] /\ leftover' \subseteq Repo
  BY <1>0, <1>1, <1>5 DEF ReceiveTypes
<1> QED
  BY <1>0, <1>6, <1>7, <1>8, <1>9, <1>10, Zenon DEF ReceiveTypes

(* So do all the others. *)
LEMMA OtherTypes ==
    ASSUME DirInv, LP!LockInv, ReceiveTypes, NEW c \in Call,
           \/ \E r \in Repo, o \in Operation : Exec(c, r, o)
           \/ Quiet(c) \/ HookMkdir(c)
    PROVE  ReceiveTypes'
<1>1. ASSUME NEW r \in Repo, NEW o \in Operation, Exec(c, r, o) PROVE ReceiveTypes'
  <2>1. "enter" \in Stages /\ "none" \in Procs /\ "none" \in Hooks
    BY DEF Stages, Procs, Hooks
  <2>2. UNCHANGED <<createLock, tree, leftover, overran>> /\ stage' \in [Call -> Stages]
    BY <1>1, <2>1 DEF Exec, Goto, ReceiveTypes
  <2>3. op' \in [Call -> Operation \cup {"none"}] /\ proc' \in [Call -> Procs]
    BY <1>1, <2>1 DEF Exec, SetProc, ReceiveTypes
  <2>4. /\ hook' \in [Call -> Hooks] /\ moved' \in [Call -> BOOLEAN] /\ sent' \in [Call -> BOOLEAN]
        /\ channel' \in [Call -> {"closed", "open", "eof"}]
        /\ status' \in [Call -> {"none", "0", "1"}]
    BY <1>1, <2>1 DEF Exec, ReceiveTypes
  <2> QED BY <2>2, <2>3, <2>4 DEF ReceiveTypes
<1>2. CASE Answer(c)
  BY <1>2 DEF Answer, ExitStatus, ReceiveTypes, gitVars
<1>3. CASE LockStep(c)
  <2>1. UNCHANGED recvVars
    BY <1>3 DEF LockStep
  <2>2. overran' \in {overran, overran \cup {repo[c]}}
    BY <1>3 DEF LockStep
  <2>3. Lock!SelectTimer(c) => repo[c] \in Repo
    BY DEF Lock!SelectTimer, LP!LockInv, LP!HolderHasRepo, LP!Holding
  <2>4. overran' \subseteq Repo
    BY <1>3, <2>2, <2>3 DEF LockStep, ReceiveTypes
  <2> QED
    BY <2>1, <2>4 DEF recvVars, gitVars, chanVars, ReceiveTypes
<1>4. CASE ClientEOF(c) \/ ClientSends(c)
  BY <1>4 DEF ClientEOF, ClientSends, ReceiveTypes, gitVars
<1>5. CASE GitStep(c) \/ GitDies(c) \/ Build(c)
  <2>1. UNCHANGED <<op, stage, createLock, tree, channel, sent, status, leftover, overran>>
    BY <1>5, Zenon DEF GitStep, Received, ReceiveFails, RunHook, GitDies, Build, UpdateRefs, ProcStep,
                chanVars
  <2>2. \E p \in Procs : proc' = [proc EXCEPT ![c] = p]
    <3>1. proc[c] \in Procs
      BY DEF ReceiveTypes
    <3>2. CASE GitStep(c) \/ GitDies(c)
      BY <3>2, Zenon DEF GitStep, Received, ReceiveFails, RunHook, GitDies, UpdateRefs, ProcStep,
                         SetProc, Procs
    <3>3. CASE Build(c)
      BY <3>1, <3>3 DEF Build, ProcStep, SetProc, Procs
    <3> QED BY <1>5, <3>2, <3>3
  <2>3. /\ UNCHANGED hook \/ \E x \in Hooks : hook' = [hook EXCEPT ![c] = x]
        /\ UNCHANGED moved \/ moved' = [moved EXCEPT ![c] = TRUE]
    BY <1>5, Zenon DEF GitStep, Received, ReceiveFails, RunHook, GitDies, Build, UpdateRefs, Hooks
  <2>4. proc' \in [Call -> Procs]
    BY <2>2 DEF ReceiveTypes
  <2>5. hook' \in [Call -> Hooks] /\ moved' \in [Call -> BOOLEAN]
    BY <2>3 DEF ReceiveTypes
  <2> QED BY <2>1, <2>4, <2>5 DEF ReceiveTypes
<1>6. CASE HookMkdir(c)
  <2>1. /\ UNCHANGED <<op, stage, createLock, gitVars, chanVars, overran>>
        /\ tree' = [tree EXCEPT ![repo[c]] = Dir(c) \cup {"root"}]
        /\ leftover' \in {leftover, leftover \cup {repo[c]}}
    BY <1>6 DEF HookMkdir, SetDir
  <2>2. repo[c] \in Repo
    BY <1>6 DEF HookMkdir, DirInv, StageRuns
  <2>3. Dir(c) \cup {"root"} \subseteq Part
    BY <2>2 DEF Dir, ReceiveTypes, Part
  <2> QED
    BY <2>1, <2>2, <2>3 DEF gitVars, chanVars, ReceiveTypes
<1> QED
  BY <1>1, <1>2, <1>3, <1>4, <1>5, <1>6, Zenon DEF Quiet

(* Type correctness of git receive under the lock, timeouts included: the  *)
(* directories hold only parts of repositories (git.go, lock.go).          *)
THEOREM ReceiveTypeCorrect == SafetySpec => []TypeOK
<1>1. Init => ReceiveTypes
  BY DEF Init, ReceiveTypes, Stages, Procs, Hooks
<1>2. UnbuiltInv /\ ReceiveTypes /\ [Next]_vars => ReceiveTypes'
  <2>1. ASSUME UnbuiltInv, ReceiveTypes, UNCHANGED vars PROVE ReceiveTypes'
    BY <2>1 DEF vars, recvVars, gitVars, chanVars, ReceiveTypes
  <2>2. ASSUME UnbuiltInv, ReceiveTypes, Next PROVE ReceiveTypes'
    BY <2>2, NextKinds, WorkTypes, OtherTypes, Zenon DEF UnbuiltInv
  <2> QED BY <2>1, <2>2
<1>3. UnbuiltInv /\ ReceiveTypes => TypeOK
  <2>1. LP!TypeOK => Lock!TypeOK
    BY DEF LP!TypeOK, Lock!TypeOK, LP!Outcome, Lock!Outcome
  <2> QED
    BY <2>1 DEF UnbuiltInv, DirInv, LP!LockInv, ReceiveTyped, ReceiveTypes, Stages, Procs, Hooks,
                TypeOK
<1> QED
  BY <1>1, <1>2, <1>3, UnbuiltInvariant, PTL DEF SafetySpec
=============================================================================
