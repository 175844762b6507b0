----------------------------- MODULE PushProofs -----------------------------
(***************************************************************************)
(* The composition of the lock and the hooks, for any number of pushes,    *)
(* commits and refs: until a push outlives its call, or its git, beside    *)
(* another, no release mixes two commits.  The lock's part of the argument *)
(* is PushLockProofs, the hook's BuildHookProofs.                          *)
(***************************************************************************)
EXTENDS Push, BuildHookProofs

LP == INSTANCE PushLockProofs WITH Call <- Hook, Repo <- {App}, NoRepo <- NoApp

(* Every step of a push is a step of the lock, or leaves it alone.         *)
LEMMA PushIsLockStep == [PushNext]_pushVars => [Lock!Next]_lockVars
<1> SUFFICES ASSUME [PushNext]_pushVars PROVE [Lock!Next]_lockVars
  OBVIOUS
<1>1. ASSUME NEW h \in Hook, Exec(h) PROVE Lock!Next
  BY <1>1 DEF Exec, Lock!Next
<1>2. ASSUME NEW h \in Hook, Denied(h) \/ GitLost(h) PROVE Lock!Next
  BY <1>2 DEF Denied, GitLost, Lock!Next, Lock!Outcome
<1>3. ASSUME NEW h \in Hook, Receives(h) \/ Hooks(h) PROVE Lock!Next \/ UNCHANGED lockVars
  BY <1>3 DEF Receives, Hooks, Lock!Next
<1>4. ASSUME NEW h \in Hook, Pods(h) PROVE UNCHANGED lockVars
  BY <1>4 DEF Pods
<1>5. ASSUME NEW h \in Hook, Locks(h) PROVE Lock!Next
  BY <1>5 DEF Locks, Lock!Next
<1>6. CASE PushDone \/ UNCHANGED pushVars
  BY <1>6 DEF PushDone, pushVars
<1> QED
  BY <1>1, <1>2, <1>3, <1>4, <1>5, <1>6 DEF PushNext

(* The lock of Push and the lock the proofs of PushLock are about are one. *)
LEMMA SameLock == Lock!Next <=> LP!Next
  BY DEF Lock!Next, Lock!CallerStep, Lock!LockRefused, Lock!LockAcquired, Lock!FnReturn,
         Lock!TimerFires, Lock!WorkerDropsResult, Lock!SelectTimer, Lock!SelectFn,
         Lock!CloseDone, Lock!Unlock, Lock!Answered, Lock!Free, Lock!Locked,
         Lock!Outcome, LP!Next, LP!CallerStep, LP!LockRefused, LP!LockAcquired,
         LP!FnReturn, LP!TimerFires, LP!WorkerDropsResult, LP!SelectTimer, LP!SelectFn,
         LP!CloseDone, LP!Unlock, LP!Answered, LP!Free, LP!Locked, LP!Outcome

(* So the lock's inductive invariant holds of a push.                      *)
LEMMA LockInvStep == LP!LockInv /\ [PushNext]_pushVars => LP!LockInv'
<1>1. [PushNext]_pushVars => [LP!Next]_LP!lockVars
  BY PushIsLockStep, SameLock DEF lockVars, LP!lockVars
<1>2. LP!LockInv /\ [LP!Next]_LP!lockVars => LP!LockInv'
  BY LP!StepLockInv, AppAssumption
<1> QED BY <1>1, <1>2

(* And every step of a push is a step of the hooks, or leaves them alone.  *)
LEMMA PushIsHookStep == [PushNext]_pushVars => [Next]_vars
  BY DEF PushNext, Exec, Denied, Receives, Hooks, GitLost, Pods, Locks, PushDone, pushVars, Next

(* Where lock and hook meet: a push at work whose git lives has its        *)
(* worker, for the repository; and a caller in its select has no result.   *)
MeetInv ==
    \A h \in Hook :
        /\ Active(h) /\ ~died[h] => worker[h] = "running"
        /\ worker[h] = "running" => repo[h] = App
        /\ caller[h] = "select" => result[h] = "none"

(* The hook's last step is the one after its exit. *)
LEMMA ExitIsLast ==
    ASSUME Typed, NEW h \in Hook, HookStep(h) \/ LogBreaks(h) \/ HookKilled(h), At(h, "exit")
    PROVE  step'[h] = "done" /\ died' = died
<1>1. RemoveRepo(h)
  BY Zenon
     DEF At, HookStep, LogBreaks, HookKilled, Runs, Connect, ReadLine, NewSha, MkdirTemp,
         GetAppConfig, Try, Archive, Untar, ReadTgz, PutContent, CreateJob, WaitForPod, ListPods,
         FollowLog, WaitForPodEnd, CheckStatus, ReadFiles, Publish, Unwind
<1> QED BY <1>1 DEF RemoveRepo, Leave, Typed

(* Lock and unlock, timer and channels change no repository's worker but   *)
(* the free call's, and no result of a caller in its select.               *)
LEMMA LocksMeet ==
    ASSUME LP!LockInv, Typed, MeetInv, NEW h \in Hook, Exec(h) \/ Locks(h)
    PROVE  MeetInv'
<1> USE DEF LP!LockInv, LP!TypeOK, Typed, MeetInv, Active
<1>1. CASE Exec(h)
  <2>1. step' = step /\ died' = died /\ step[h] = "new"
    BY <1>1 DEF Exec, At, vars
  <2>2. CASE Lock!LockAcquired(h, App)
    BY <2>1, <2>2 DEF Lock!LockAcquired
  <2>3. CASE Lock!LockRefused(h, App)
    BY <2>1, <2>3 DEF Lock!LockRefused, Lock!Free
  <2> QED BY <1>1, <2>2, <2>3 DEF Exec
<1>2. CASE Locks(h)
  <2>1. step' = step /\ died' = died /\ repo' = repo
    BY <1>2 DEF Locks, vars, Lock!TimerFires, Lock!WorkerDropsResult, Lock!CallerStep,
                Lock!SelectTimer, Lock!SelectFn, Lock!CloseDone, Lock!Unlock, Lock!Answered
  <2>2. \A g \in Hook : worker'[g] = "running" <=> worker[g] = "running"
    BY <1>2 DEF Locks, Lock!TimerFires, Lock!WorkerDropsResult, Lock!CallerStep,
                Lock!SelectTimer, Lock!SelectFn, Lock!CloseDone, Lock!Unlock, Lock!Answered
  <2>3. \A g \in Hook : caller'[g] = "select" => caller[g] = "select" /\ result'[g] = result[g]
    BY <1>2 DEF Locks, Lock!TimerFires, Lock!WorkerDropsResult, Lock!CallerStep,
                Lock!SelectTimer, Lock!SelectFn, Lock!CloseDone, Lock!Unlock, Lock!Answered
  <2> QED BY <2>1, <2>2, <2>3
<1> QED BY <1>1, <1>2

(* Every step of a push preserves MeetInv: the worker returns with its     *)
(* git, which ends with its hook unless it dies (server.go:299-318).       *)
LEMMA StepMeetInv == LP!LockInv /\ HookInv /\ MeetInv /\ [PushNext]_pushVars => MeetInv'
<1> SUFFICES ASSUME LP!LockInv, HookInv, MeetInv, [PushNext]_pushVars PROVE MeetInv'
  OBVIOUS
<1>0. Typed /\ died \in [Hook -> BOOLEAN] /\ \A g \in Hook : died[g] => died'[g]
  BY PushIsHookStep, DiedKinds, Zenon DEF HookInv, HookTypes
<1>1. ASSUME NEW h \in Hook, Exec(h) \/ Locks(h) PROVE MeetInv'
  BY <1>0, <1>1, LocksMeet
<1>2. ASSUME NEW h \in Hook, NEW e \in Lock!Outcome, Lock!FnReturn(h, e),
             step'[h] \in {"new", "done"} \/ died'[h],
             \A g \in Hook : g # h => step'[g] = step[g]
      PROVE  MeetInv'
  BY <1>0, <1>2 DEF LP!LockInv, LP!TypeOK, MeetInv, Active, Lock!FnReturn
<1>3. ASSUME NEW h \in Hook, UNCHANGED lockVars, worker[h] = "running" \/ died[h],
             \A g \in Hook : g # h => step'[g] = step[g]
      PROVE  MeetInv'
  BY <1>0, <1>3, Zenon DEF MeetInv, Active, lockVars
<1>4. ASSUME NEW h \in Hook, Denied(h) PROVE MeetInv'
  BY <1>2, <1>4 DEF Denied, At, vars, Lock!Outcome
<1>5. ASSUME NEW h \in Hook, GitLost(h) PROVE MeetInv'
  <2>1. step' = step /\ died'[h]
    BY <1>0, <1>5 DEF GitLost, GitDies
  <2> QED BY <1>2, <1>5, <2>1 DEF GitLost, Lock!Outcome
<1>6. ASSUME NEW h \in Hook, Receives(h) PROVE MeetInv'
  <2>1. CASE worker[h] = "running" /\ (Receive(h) \/ Start(h)) /\ UNCHANGED lockVars
    <3>1. \A g \in Hook : g # h => step'[g] = step[g]
      BY <1>0, <2>1 DEF Typed, Receive, Start, Goto
    <3> QED BY <1>3, <2>1, <3>1
  <2>2. CASE ReceiveEnds(h) /\ \E e \in Lock!Outcome : Lock!FnReturn(h, e)
    <3>1. step'[h] = "done" /\ \A g \in Hook : g # h => step'[g] = step[g]
      BY <1>0, <2>2 DEF Typed, ReceiveEnds, Leave
    <3> QED BY <1>2, <2>2, <3>1
  <2> QED BY <1>6, <2>1, <2>2 DEF Receives
<1>7. ASSUME NEW h \in Hook, Hooks(h) PROVE MeetInv'
  <2>1. Moves(h)
    BY <1>0, <1>7, HookMoves DEF Hooks, PushStep
  <2>2. CASE At(h, "exit") /\ ~died[h]
    <3>1. step'[h] = "done"
      BY <1>0, <1>7, <2>2, ExitIsLast DEF Hooks
    <3> QED BY <1>2, <1>7, <2>1, <2>2, <3>1 DEF Hooks, Moves
  <2>3. CASE ~(At(h, "exit") /\ ~died[h])
    BY <1>3, <1>7, <2>1, <2>3 DEF Hooks, Moves, MeetInv
  <2> QED BY <2>2, <2>3
<1>8. ASSUME NEW h \in Hook, Pods(h) PROVE MeetInv'
  <2>1. UNCHANGED <<step, died, lockVars>>
    BY <1>8, Zenon DEF Pods, PodStep, PodRuns, PodSucceeds, PodFails, PodDeleted, CacheSync,
                       hookVars
  <2> QED BY <2>1 DEF MeetInv, Active, lockVars
<1>9. CASE PushDone \/ UNCHANGED pushVars
  BY <1>9 DEF PushDone, pushVars, vars, lockVars, MeetInv, Active
<1> QED
  BY <1>1, <1>4, <1>5, <1>6, <1>7, <1>8, <1>9 DEF PushNext

(* A push that has set out does not set out again. *)
LEMMA BegunStays ==
    ASSUME Typed, [Next]_vars, NEW g \in Hook, step[g] # "new"
    PROVE  step'[g] # "new"
<1>1. ASSUME NEW h \in Hook, PushStep(h) PROVE step'[g] # "new"
  BY <1>1, HookMoves DEF Moves
<1>2. ASSUME NEW h \in Hook, Receive(h) PROVE step'[g] # "new"
  BY <1>2 DEF Receive, At, Goto, Typed
<1>3. ASSUME NEW h \in Hook, PodStep(h) \/ PodDeleted(h) \/ CacheSync(h)
      PROVE  step'[g] # "new"
  BY <1>3, Zenon DEF PodStep, PodRuns, PodSucceeds, PodFails, PodDeleted, CacheSync, hookVars
<1>4. CASE AllDone \/ UNCHANGED vars
  BY <1>4 DEF AllDone, vars
<1> QED BY <1>1, <1>2, <1>3, <1>4, Zenon DEF Next, PushStep

(* wrapInLock's answer to a push that has set out is its last: a timeout   *)
(* stays one.                                                              *)
LEMMA TimeoutStays ==
    ASSUME LP!LockInv, MeetInv, [PushNext]_pushVars, NEW g \in Hook,
           step[g] # "new", Lock!Abandoned(g)
    PROVE  Lock!Abandoned(g)'
<1> USE DEF LP!LockInv, LP!TypeOK, MeetInv, Lock!Abandoned
<1>1. ASSUME NEW h \in Hook, Exec(h) PROVE Lock!Abandoned(g)'
  BY <1>1 DEF Exec, At, Lock!LockAcquired, Lock!LockRefused
<1>2. ASSUME NEW h \in Hook, Denied(h) \/ GitLost(h) PROVE Lock!Abandoned(g)'
  BY <1>2 DEF Denied, GitLost, Lock!FnReturn
<1>3. ASSUME NEW h \in Hook, Receives(h) \/ Hooks(h) \/ Pods(h) PROVE Lock!Abandoned(g)'
  BY <1>3, Zenon DEF Receives, Hooks, Pods, lockVars, Lock!FnReturn
<1>4. ASSUME NEW h \in Hook, Locks(h) PROVE Lock!Abandoned(g)'
  BY <1>4 DEF Locks, Lock!TimerFires, Lock!WorkerDropsResult, Lock!CallerStep,
              Lock!SelectTimer, Lock!SelectFn, Lock!CloseDone, Lock!Unlock, Lock!Answered
<1>5. CASE PushDone \/ UNCHANGED pushVars
  BY <1>5 DEF PushDone, pushVars, lockVars
<1> QED
  BY <1>1, <1>2, <1>3, <1>4, <1>5 DEF PushNext

(* Pushes that overlapped stay pushes that overlapped. *)
LEMMA OverlappedStays ==
    ASSUME LP!LockInv, HookInv, MeetInv, [PushNext]_pushVars, Overlapped
    PROVE  Overlapped'
<1>1. PICK g \in Hook, h \in Hook : g # h /\ Overran(h) /\ step[g] # "new"
  BY DEF Overlapped
<1>2. [Next]_vars /\ Typed
  BY PushIsHookStep DEF HookInv
<1>3. step'[g] # "new" /\ step'[h] # "new"
  BY <1>1, <1>2, BegunStays DEF Overran
<1>4. died[h] => died'[h]
  BY <1>2, DiedKinds DEF HookInv, HookTypes
<1>5. Overran(h)'
  BY <1>1, <1>3, <1>4, TimeoutStays DEF Overran
<1> QED BY <1>1, <1>3, <1>5 DEF Overlapped

(* Of two pushes at work, one has lost its git, or both have a running     *)
(* worker on one repository; by the lock's invariant the caller of one     *)
(* then gave up on it.                                                     *)
LEMMA ActiveAlone ==
    ASSUME LP!LockInv, MeetInv, ~Overlapped
    PROVE  AloneInDir
<1> SUFFICES ASSUME NEW g \in Hook, NEW h \in Hook, g # h, Active(g), Active(h)
             PROVE  Overlapped
  BY DEF AloneInDir
<1>1. Overran(g) \/ Overran(h)
  BY DEF LP!LockInv, LP!AttendedWorker, LP!LockExact, LP!Holding, LP!Abandoned, MeetInv,
         Active, Overran, Lock!Abandoned
<1> QED BY <1>1 DEF Overlapped, Active

(* The inductive invariant of a push.                                      *)
PushInv ==
    /\ LP!LockInv /\ HookInv /\ MeetInv
    /\ AllClean \/ Overlapped

(* Every step of a push preserves PushInv: until two pushes have           *)
(* overlapped, one at work is alone, and by StepAllClean all stay clean.   *)
LEMMA StepPushInv == PushInv /\ [PushNext]_pushVars => PushInv'
<1> SUFFICES ASSUME PushInv, [PushNext]_pushVars PROVE PushInv'
  OBVIOUS
<1>1. LP!LockInv' /\ HookInv' /\ MeetInv'
  BY LockInvStep, PushIsHookStep, StepHookInv, StepMeetInv DEF PushInv
<1>2. CASE Overlapped
  BY <1>1, <1>2, OverlappedStays DEF PushInv
<1>3. CASE ~Overlapped
  <2>1. AloneInDir
    BY <1>3, ActiveAlone DEF PushInv
  <2>2. AllClean'
    BY <1>3, <2>1, PushIsHookStep, StepAllClean DEF PushInv
  <2> QED BY <1>1, <2>2 DEF PushInv
<1> QED BY <1>2, <1>3

(* It holds at the start.                                                  *)
LEMMA PushInitInv == PushInit => PushInv
<1>1. Lock!Init => LP!Init
  BY DEF Lock!Init, LP!Init
<1>2. LP!Init => LP!LockInv
  BY LP!InitLockInv, AppAssumption
<1>3. PushInit => HookInv
  BY HookInit DEF PushInit
<1>4. PushInit => MeetInv /\ AllClean
  BY DEF PushInit, Init, Lock!Init, MeetInv, AllClean, Clean, Building, JobMade,
         ReleaseMatchesCommit, Active
<1> QED BY <1>1, <1>2, <1>3, <1>4 DEF PushInit, PushInv

(* Until a push outlives its call, or its git, beside another, every       *)
(* release is made of one commit: for any pushes, commits and refs, and    *)
(* whichever of the Receives fail before their hook (lock.go:39-47,        *)
(* git.go:55-61, 97-103, build.go:105-135, 306-318).                       *)
THEOREM MixedOnlyAfterOverrunAlways == PushSpec => []MixedOnlyAfterOverrun
<1>1. PushInv => MixedOnlyAfterOverrun
  BY DEF PushInv, AllClean, MixedOnlyAfterOverrun
<1> QED
  BY <1>1, PushInitInv, StepPushInv, PTL DEF PushSpec
=============================================================================
