--------------------------- MODULE PushLockProofs ---------------------------
(***************************************************************************)
(* Safety of the push lock for every set of calls and of repositories:     *)
(* types, exactness of the map, overlap only after a timeout, and that     *)
(* PushLock implements the abstract RepoMutex (without its fairness).      *)
(***************************************************************************)
EXTENDS PushLock, TLAPS

(* A worker nobody gave up on still has its caller in the select.          *)
AttendedWorker ==
    \A c \in Call :
        worker[c] # "none" /\ ~Abandoned(c) => caller[c] = "select"

(* A call that holds a lock holds it for a repository. *)
HolderHasRepo == \A c \in Call : Holding(c) => repo[c] \in Repo

(* The inductive invariant. *)
LockInv == TypeOK /\ HolderHasRepo /\ LockExact /\ AttendedWorker

(* Every initial state satisfies the inductive invariant. *)
LEMMA InitLockInv == Init => LockInv
  BY DEF Init, LockInv, TypeOK, HolderHasRepo, LockExact, AttendedWorker,
         Holding, Abandoned, Outcome

(* Every step of the lock keeps every variable in its type. *)
LEMMA StepTypeOK == TypeOK /\ [Next]_lockVars => TypeOK'
<1> SUFFICES ASSUME TypeOK, [Next]_lockVars PROVE TypeOK'
  OBVIOUS
<1> USE DEF TypeOK, Outcome
<1>1. ASSUME NEW c \in Call, NEW r \in Repo, LockRefused(c, r) PROVE TypeOK'
  BY <1>1 DEF LockRefused
<1>2. ASSUME NEW c \in Call, NEW r \in Repo, LockAcquired(c, r) PROVE TypeOK'
  BY <1>2 DEF LockAcquired
<1>3. ASSUME NEW c \in Call, NEW e \in Outcome, FnReturn(c, e) PROVE TypeOK'
  BY <1>3 DEF FnReturn
<1>4. ASSUME NEW c \in Call, TimerFires(c) PROVE TypeOK'
  BY <1>4 DEF TimerFires
<1>5. ASSUME NEW c \in Call, WorkerDropsResult(c) PROVE TypeOK'
  BY <1>5 DEF WorkerDropsResult
<1>6. ASSUME NEW c \in Call, SelectTimer(c) PROVE TypeOK'
  BY <1>6 DEF SelectTimer
<1>7. ASSUME NEW c \in Call, SelectFn(c), fnErr[c] # "none" PROVE TypeOK'
  BY <1>7 DEF SelectFn
<1>8. ASSUME NEW c \in Call, SelectFn(c), fnErr[c] = "none" PROVE TypeOK'
  BY <1>8 DEF SelectFn
<1>9. ASSUME NEW c \in Call, CloseDone(c) PROVE TypeOK'
  BY <1>9 DEF CloseDone
<1>10. ASSUME NEW c \in Call, Unlock(c) PROVE TypeOK'
  BY <1>10 DEF Unlock
<1>11. ASSUME NEW c \in Call, Answered(c) PROVE TypeOK'
  BY <1>11 DEF Answered
<1>12. CASE UNCHANGED lockVars
  BY <1>12 DEF lockVars
<1> QED
  BY <1>1, <1>2, <1>3, <1>4, <1>5, <1>6, <1>7, <1>8, <1>9, <1>10, <1>11, <1>12
     DEF Next, CallerStep

(* Every step of the lock preserves the inductive invariant.  Only Lock    *)
(* and Unlock change who holds what; the other steps move a goroutine.     *)
LEMMA StepLockInv == LockInv /\ [Next]_lockVars => LockInv'
<1> SUFFICES ASSUME LockInv, [Next]_lockVars PROVE LockInv'
  OBVIOUS
<1>0. TypeOK'
  BY StepTypeOK DEF LockInv
<1> USE <1>0 DEF LockInv
<1>1. ASSUME NEW c \in Call, NEW r \in Repo, LockRefused(c, r) PROVE LockInv'
  <2>1. \A d \in Call : Holding(d)' <=> Holding(d)
    BY <1>1 DEF LockRefused, Free, Holding, TypeOK
  <2>2. \A d \in Call : Holding(d) => repo'[d] = repo[d]
    BY <1>1 DEF LockRefused, Free, Holding, TypeOK
  <2>3. HolderHasRepo' /\ LockExact'
    BY <1>1, <2>1, <2>2 DEF LockRefused, HolderHasRepo, LockExact
  <2>4. AttendedWorker'
    BY <1>1 DEF LockRefused, Free, AttendedWorker, Abandoned, TypeOK
  <2> QED BY <2>3, <2>4
<1>2. ASSUME NEW c \in Call, NEW r \in Repo, LockAcquired(c, r) PROVE LockInv'
  <2>1. Holding(c)' /\ ~Holding(c) /\ repo'[c] = r
    BY <1>2 DEF LockAcquired, Free, Holding, TypeOK
  <2>2. \A d \in Call \ {c} : (Holding(d)' <=> Holding(d)) /\ repo'[d] = repo[d]
    BY <1>2 DEF LockAcquired, Holding, TypeOK
  <2>3. \A d \in Call : Holding(d) => repo[d] # r
    BY <1>2 DEF LockAcquired, Locked, LockExact, HolderHasRepo
  <2>4. HolderHasRepo'
    BY <2>1, <2>2 DEF HolderHasRepo
  <2>5. LockExact'
    <3>1. \A q \in Repo : q \in dataMap' <=> \E d \in Call : Holding(d)' /\ repo'[d] = q
      BY <1>2, <2>1, <2>2 DEF LockAcquired, LockExact
    <3>2. \A d, e \in Call : Holding(d)' /\ Holding(e)' /\ repo'[d] = repo'[e] => d = e
      BY <2>1, <2>2, <2>3 DEF LockExact
    <3> QED BY <3>1, <3>2 DEF LockExact
  <2>6. AttendedWorker'
    BY <1>2 DEF LockAcquired, AttendedWorker, Abandoned, TypeOK
  <2> QED BY <2>4, <2>5, <2>6
<1>3. ASSUME NEW c \in Call, Unlock(c) PROVE LockInv'
  <2>1. ~Holding(c)' /\ Holding(c) /\ repo' = repo /\ dataMap' = dataMap \ {repo[c]}
    BY <1>3 DEF Unlock, Holding, TypeOK
  <2>2. \A d \in Call \ {c} : Holding(d)' <=> Holding(d)
    BY <1>3 DEF Unlock, Holding, TypeOK
  <2>3. HolderHasRepo'
    BY <2>1, <2>2 DEF HolderHasRepo
  <2>4. LockExact'
    <3>1. \A q \in Repo : q \in dataMap' <=> \E d \in Call : Holding(d)' /\ repo'[d] = q
      BY <2>1, <2>2 DEF LockExact
    <3>2. \A d, e \in Call : Holding(d)' /\ Holding(e)' /\ repo'[d] = repo'[e] => d = e
      BY <2>1, <2>2 DEF LockExact
    <3> QED BY <3>1, <3>2 DEF LockExact
  <2>5. AttendedWorker'
    BY <1>3 DEF Unlock, AttendedWorker, Abandoned, TypeOK
  <2> QED BY <2>3, <2>4, <2>5
<1>4. ASSUME NEW c \in Call,
             \/ \E e \in Outcome : FnReturn(c, e)
             \/ TimerFires(c) \/ WorkerDropsResult(c)
             \/ SelectTimer(c) \/ SelectFn(c) \/ CloseDone(c) \/ Answered(c)
      PROVE  LockInv'
  <2>1. dataMap' = dataMap /\ repo' = repo
    BY <1>4 DEF FnReturn, TimerFires, WorkerDropsResult, SelectTimer, SelectFn,
                CloseDone, Answered
  <2>2. \A d \in Call : Holding(d)' <=> Holding(d)
    BY <1>4 DEF FnReturn, TimerFires, WorkerDropsResult, SelectTimer, SelectFn,
                CloseDone, Answered, Holding, TypeOK
  <2>3. HolderHasRepo' /\ LockExact'
    BY <2>1, <2>2 DEF HolderHasRepo, LockExact
  <2>4. AttendedWorker'
    BY <1>4 DEF FnReturn, TimerFires, WorkerDropsResult, SelectTimer, SelectFn,
                CloseDone, Answered, AttendedWorker, Abandoned, TypeOK
  <2> QED BY <2>3, <2>4
<1>5. CASE UNCHANGED lockVars
  BY <1>5 DEF lockVars, TypeOK, HolderHasRepo, LockExact, AttendedWorker,
              Holding, Abandoned
<1> QED
  BY <1>1, <1>2, <1>3, <1>4, <1>5 DEF Next, CallerStep

(* The inductive invariant holds in every reachable state of the lock. *)
THEOREM LockInvariant == Spec => []LockInv
  BY InitLockInv, StepLockInv, PTL DEF Spec

(* Every variable of the lock keeps its type. *)
THEOREM TypeCorrect == Spec => []TypeOK
<1>1. LockInv => TypeOK
  BY DEF LockInv
<1> QED BY <1>1, LockInvariant, PTL

(* Lock and Unlock (lock.go:65-94), as wrapInLock uses them, leave in the  *)
(* map exactly the repositories some call is between Lock and Unlock for.  *)
THEOREM LockIsExact == Spec => []LockExact
<1>1. LockInv => LockExact
  BY DEF LockInv
<1> QED BY <1>1, LockInvariant, PTL

(* Two git operations on one repository run at the same time only when the *)
(* caller of one of them has taken the timer's branch (lock.go:40-46).     *)
THEOREM OverlapNeedsTimeout == Spec => []OverlapOnlyAfterTimeout
<1>1. LockInv => OverlapOnlyAfterTimeout
  BY DEF LockInv, OverlapOnlyAfterTimeout, AttendedWorker, LockExact, Holding
<1> QED BY <1>1, LockInvariant, PTL

-----------------------------------------------------------------------------
(* A step that leaves every holder and its repository as they were is a    *)
(* stuttering step of the abstract mutex.                                  *)
LEMMA SameHoldersSameHeld ==
    ASSUME \A d \in Call : Holding(d)' <=> Holding(d),
           \A d \in Call : Holding(d) => repo'[d] = repo[d]
    PROVE  heldNow' = heldNow
  BY DEF heldNow

(* A successful Lock is the abstract Acquire. *)
LEMMA LockIsAcquire ==
    ASSUME LockInv, NEW c \in Call, NEW r \in Repo, LockAcquired(c, r)
    PROVE  Mutex!Acquire(c, r)
<1>1. Holding(c)' /\ ~Holding(c) /\ repo'[c] = r
  BY DEF LockInv, LockAcquired, Free, Holding, TypeOK
<1>2. \A d \in Call \ {c} : (Holding(d)' <=> Holding(d)) /\ repo'[d] = repo[d]
  BY DEF LockInv, LockAcquired, Holding, TypeOK
<1>3. \A d \in Call : <<d, r>> \notin heldNow
  BY DEF LockInv, LockAcquired, Locked, LockExact, heldNow
<1>4. \A q \in Repo : <<c, q>> \notin heldNow
  BY <1>1 DEF heldNow
<1>5. heldNow' = heldNow \cup {<<c, r>>}
  BY <1>1, <1>2 DEF heldNow
<1> QED BY <1>3, <1>4, <1>5 DEF Mutex!Acquire

(* The deferred Unlock is the abstract Release. *)
LEMMA UnlockIsRelease ==
    ASSUME LockInv, NEW c \in Call, Unlock(c)
    PROVE  repo[c] \in Repo /\ Mutex!Release(c, repo[c])
<1>1. ~Holding(c)' /\ Holding(c) /\ repo' = repo
  BY DEF LockInv, Unlock, Holding, TypeOK
<1>2. \A d \in Call \ {c} : Holding(d)' <=> Holding(d)
  BY DEF LockInv, Unlock, Holding, TypeOK
<1>3. repo[c] \in Repo
  BY <1>1 DEF LockInv, HolderHasRepo
<1>4. <<c, repo[c]>> \in heldNow
  BY <1>1 DEF heldNow
<1>5. heldNow' = heldNow \ {<<c, repo[c]>>}
  BY <1>1, <1>2 DEF heldNow
<1> QED BY <1>3, <1>4, <1>5 DEF Mutex!Release

(* Every step of the lock is a step, or a stuttering step, of the mutex. *)
LEMMA StepImplementsMutex ==
    LockInv /\ [Next]_lockVars => [Mutex!Next]_heldNow
<1> SUFFICES ASSUME LockInv, [Next]_lockVars PROVE [Mutex!Next]_heldNow
  OBVIOUS
<1>1. ASSUME NEW c \in Call, NEW r \in Repo, LockAcquired(c, r)
      PROVE  Mutex!Next
  BY <1>1, LockIsAcquire DEF Mutex!Next
<1>2. ASSUME NEW c \in Call, Unlock(c) PROVE Mutex!Next
  BY <1>2, UnlockIsRelease DEF Mutex!Next
<1>3. ASSUME NEW c \in Call,
             \/ \E r \in Repo : LockRefused(c, r)
             \/ \E e \in Outcome : FnReturn(c, e)
             \/ TimerFires(c) \/ WorkerDropsResult(c)
             \/ SelectTimer(c) \/ SelectFn(c) \/ CloseDone(c) \/ Answered(c)
      PROVE  heldNow' = heldNow
  <2>1. \A d \in Call : Holding(d)' <=> Holding(d)
    BY <1>3 DEF LockInv, TypeOK, LockRefused, Free, FnReturn, TimerFires,
                WorkerDropsResult, SelectTimer, SelectFn, CloseDone, Answered, Holding
  <2>2. \A d \in Call : Holding(d) => repo'[d] = repo[d]
    BY <1>3 DEF LockInv, TypeOK, LockRefused, Free, FnReturn, TimerFires,
                WorkerDropsResult, SelectTimer, SelectFn, CloseDone, Answered, Holding
  <2> QED BY <2>1, <2>2, SameHoldersSameHeld
<1>4. CASE UNCHANGED lockVars
  BY <1>4 DEF lockVars, heldNow, Holding
<1> QED
  BY <1>1, <1>2, <1>3, <1>4 DEF Next, CallerStep

(* The lock implements the abstract mutex: at most one call per repository *)
(* between Lock and Unlock, and only that call ends it.                    *)
THEOREM LockImplementsMutex == Spec => Mutex!Spec
<1>1. Init => Mutex!Init
  BY DEF Init, Mutex!Init, heldNow, Holding
<1> QED
  BY <1>1, StepImplementsMutex, LockInvariant, PTL DEF Spec, Mutex!Spec
=============================================================================
