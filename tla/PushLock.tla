------------------------------ MODULE PushLock ------------------------------
(***************************************************************************)
(* pkg/sshd/lock.go: the in-memory repository lock and wrapInLock, which   *)
(* runs one git operation under it.  Two goroutines serve a call: the      *)
(* caller (the SSH handler, in wrapInLock's select) and the worker (the    *)
(* goroutine that runs fn).  They meet on the unbuffered channel fnCh; the *)
(* caller abandons the worker when its timer fires.                        *)
(*                                                                         *)
(* A Call names an invocation in flight.  Its name is free again once both *)
(* goroutines are gone, so behaviours are unbounded sequences of calls.    *)
(***************************************************************************)
CONSTANTS Call,      \* invocations of wrapInLock in flight
          Repo,      \* repository names
          NoRepo     \* "no repository yet"

ASSUME NoRepoAssumption == NoRepo \notin Repo

VARIABLES
    dataMap,   \* inMemoryRepoLock.dataMap: its keys (every value is true)
    repo,      \* repo[c]: the repository name call c was given
    caller,    \* caller[c]: where wrapInLock is
    timer,     \* timer[c]: time.NewTimer(lck.Timeout())
    worker,    \* worker[c]: where the goroutine that runs fn is
    doneCh,    \* doneCh[c]: TRUE once the channel is closed
    fnErr,     \* fnErr[c]: what fn returned
    result     \* result[c]: what wrapInLock returns

lockVars == <<dataMap, repo, caller, timer, worker, doneCh, fnErr, result>>

Outcome == {"ok", "err"}

TypeOK ==
    /\ dataMap \subseteq Repo
    /\ repo   \in [Call -> Repo \cup {NoRepo}]
    /\ caller \in [Call -> {"idle", "select", "closeDone", "unlock", "returned"}]
    /\ timer  \in [Call -> {"off", "armed", "fired"}]
    /\ worker \in [Call -> {"none", "running", "sending"}]
    /\ doneCh \in [Call -> BOOLEAN]
    /\ fnErr  \in [Call -> Outcome \cup {"none"}]
    /\ result \in [Call -> Outcome \cup {"none", "timeout", "alreadyLocked"}]

Init ==
    /\ dataMap = {}
    /\ repo   = [c \in Call |-> NoRepo]
    /\ caller = [c \in Call |-> "idle"]
    /\ timer  = [c \in Call |-> "off"]
    /\ worker = [c \in Call |-> "none"]
    /\ doneCh = [c \in Call |-> FALSE]
    /\ fnErr  = [c \in Call |-> "none"]
    /\ result = [c \in Call |-> "none"]

(* Both goroutines of an earlier use of the name c are gone. *)
Free(c) == caller[c] = "idle" /\ worker[c] = "none"

(* c is between its Lock and its Unlock. *)
Holding(c) == caller[c] \in {"select", "closeDone", "unlock"}

(* The caller gave up on c's worker: the timer's branch of the select. *)
Abandoned(c) == result[c] = "timeout"

-----------------------------------------------------------------------------
(* Mutation: Lock forgets to look whether the name is in the map. *)
LockedIgnored(r) == FALSE

(* Lock's "_, exists := rl.dataMap[repoName]". *)
Locked(r) == r \in dataMap

(* Lock fails, and wrapInLock returns errAlreadyLocked at once. *)
LockRefused(c, r) ==
    /\ Free(c)
    /\ Locked(r)
    /\ repo'   = [repo EXCEPT ![c] = r]
    /\ result' = [result EXCEPT ![c] = "alreadyLocked"]
    /\ caller' = [caller EXCEPT ![c] = "returned"]
    /\ UNCHANGED <<dataMap, timer, worker, doneCh, fnErr>>

(* Mutation: the entry is made for the name of the request before. *)
LockAcquiredStaleName(c, r) ==
    /\ Free(c)
    /\ ~Locked(r)
    /\ dataMap' = dataMap \cup {repo[c]}
    /\ repo'   = [repo EXCEPT ![c] = r]
    /\ worker' = [worker EXCEPT ![c] = "running"]
    /\ caller' = [caller EXCEPT ![c] = "select"]
    /\ UNCHANGED <<timer, doneCh, fnErr, result>>

(* Lock succeeds; the timer, the channels and the worker are created. *)
LockAcquired(c, r) ==
    /\ Free(c)
    /\ ~Locked(r)
    /\ dataMap' = dataMap \cup {r}
    /\ repo'   = [repo EXCEPT ![c] = r]
    /\ timer'  = [timer EXCEPT ![c] = "armed"]
    /\ doneCh' = [doneCh EXCEPT ![c] = FALSE]
    /\ fnErr'  = [fnErr EXCEPT ![c] = "none"]
    /\ result' = [result EXCEPT ![c] = "none"]
    /\ worker' = [worker EXCEPT ![c] = "running"]
    /\ caller' = [caller EXCEPT ![c] = "select"]

(* fn returns e; the worker reaches its select. *)
FnReturn(c, e) ==
    /\ worker[c] = "running"
    /\ fnErr'  = [fnErr EXCEPT ![c] = e]
    /\ worker' = [worker EXCEPT ![c] = "sending"]
    /\ UNCHANGED <<dataMap, repo, caller, timer, doneCh, result>>

(* The Go runtime fires the timer. *)
TimerFires(c) ==
    /\ timer[c] = "armed"
    /\ timer' = [timer EXCEPT ![c] = "fired"]
    /\ UNCHANGED <<dataMap, repo, caller, worker, doneCh, fnErr, result>>

(* case <-timer.C: the deferred close(doneCh) is registered last and so    *)
(* runs before the deferred Unlock.                                        *)
SelectTimer(c) ==
    /\ caller[c] = "select"
    /\ timer[c] = "fired"
    /\ result' = [result EXCEPT ![c] = "timeout"]
    /\ caller' = [caller EXCEPT ![c] = "closeDone"]
    /\ UNCHANGED <<dataMap, repo, timer, worker, doneCh, fnErr>>

(* case err := <-fnCh: the rendezvous ends the worker. *)
SelectFn(c) ==
    /\ caller[c] = "select"
    /\ worker[c] = "sending"
    /\ result' = [result EXCEPT ![c] = fnErr[c]]
    /\ worker' = [worker EXCEPT ![c] = "none"]
    /\ caller' = [caller EXCEPT ![c] = "unlock"]
    /\ UNCHANGED <<dataMap, repo, timer, doneCh, fnErr>>

(* Mutation: the timer's branch returns without closing doneCh. *)
CloseDoneForgotten(c) ==
    /\ caller[c] = "closeDone"
    /\ caller' = [caller EXCEPT ![c] = "unlock"]
    /\ UNCHANGED <<dataMap, repo, timer, worker, doneCh, fnErr, result>>

(* Mutation: the timer's branch also unlocks by hand, as well as deferred. *)
CloseDoneAndUnlock(c) ==
    /\ caller[c] = "closeDone"
    /\ doneCh'  = [doneCh EXCEPT ![c] = TRUE]
    /\ dataMap' = dataMap \ {repo[c]}
    /\ caller'  = [caller EXCEPT ![c] = "unlock"]
    /\ UNCHANGED <<repo, timer, worker, fnErr, result>>

(* The deferred close(doneCh). *)
CloseDone(c) ==
    /\ caller[c] = "closeDone"
    /\ doneCh' = [doneCh EXCEPT ![c] = TRUE]
    /\ caller' = [caller EXCEPT ![c] = "unlock"]
    /\ UNCHANGED <<dataMap, repo, timer, worker, fnErr, result>>

(* case <-doneCh: the abandoned worker drops fn's result and ends. *)
WorkerDropsResult(c) ==
    /\ worker[c] = "sending"
    /\ doneCh[c]
    /\ worker' = [worker EXCEPT ![c] = "none"]
    /\ UNCHANGED <<dataMap, repo, caller, timer, doneCh, fnErr, result>>

(* Mutation: Unlock returns before the delete. *)
UnlockKeepsEntry(c) ==
    /\ caller[c] = "unlock"
    /\ timer'  = [timer EXCEPT ![c] = "off"]
    /\ caller' = [caller EXCEPT ![c] = "returned"]
    /\ UNCHANGED <<dataMap, repo, worker, doneCh, fnErr, result>>

(* The deferred Unlock (its "not found" error is dropped), then the        *)
(* deferred timer.Stop; wrapInLock returns.                                *)
Unlock(c) ==
    /\ caller[c] = "unlock"
    /\ dataMap' = dataMap \ {repo[c]}
    /\ timer'   = [timer EXCEPT ![c] = "off"]
    /\ caller'  = [caller EXCEPT ![c] = "returned"]
    /\ UNCHANGED <<repo, worker, doneCh, fnErr, result>>

(* answer takes wrapInLock's result and is done with the request. *)
Answered(c) ==
    /\ caller[c] = "returned"
    /\ caller' = [caller EXCEPT ![c] = "idle"]
    /\ UNCHANGED <<dataMap, repo, timer, worker, doneCh, fnErr, result>>

-----------------------------------------------------------------------------
(* The steps the Go scheduler runs by itself once they are enabled. *)
CallerStep(c) ==
    SelectTimer(c) \/ SelectFn(c) \/ CloseDone(c) \/ Unlock(c) \/ Answered(c)

Next ==
    \E c \in Call :
        \/ \E r \in Repo : LockRefused(c, r) \/ LockAcquired(c, r)
        \/ \E e \in Outcome : FnReturn(c, e)
        \/ TimerFires(c)
        \/ WorkerDropsResult(c)
        \/ CallerStep(c)

(* Runnable goroutines run and armed timers fire.  Nothing is assumed of   *)
(* fn: a git operation may take for ever.                                  *)
Fairness ==
    \A c \in Call :
        /\ WF_lockVars(CallerStep(c))
        /\ WF_lockVars(TimerFires(c))
        /\ WF_lockVars(WorkerDropsResult(c))

Spec == Init /\ [][Next]_lockVars /\ Fairness

-----------------------------------------------------------------------------
(* The map has an entry for a repository exactly while one call is between *)
(* its Lock and its Unlock for it: no entry is leaked by the timer's       *)
(* branch, none is deleted by a call that does not own it, and Unlock's    *)
(* "not found" error (lock.go:86), which wrapInLock drops, never happens.  *)
LockExact ==
    /\ \A r \in Repo : r \in dataMap <=> \E c \in Call : Holding(c) /\ repo[c] = r
    /\ \A c, d \in Call :
          Holding(c) /\ Holding(d) /\ repo[c] = repo[d] => c = d

(* Two git operations run on one repository at the same time only when the *)
(* caller of one of them gave up on it: without a timeout the lock really  *)
(* serialises them (lock.go:12-13).                                        *)
OverlapOnlyAfterTimeout ==
    \A c, d \in Call :
        /\ c # d
        /\ worker[c] = "running" /\ worker[d] = "running"
        /\ repo[c] = repo[d]
        => Abandoned(c) \/ Abandoned(d)

(* lock.go:12-13, read without that exception: the lock is there "to avoid *)
(* simultaneous git operations" on a repository.                           *)
NoSimultaneousGitOps ==
    \A c, d \in Call :
        worker[c] = "running" /\ worker[d] = "running" /\ repo[c] = repo[d]
        => c = d

(* However long fn takes, wrapInLock gives the repository back.            *)
LockReleased ==
    \A r \in Repo : r \in dataMap ~> r \notin dataMap

(* The goroutine that runs fn never blocks for ever on its two channels,   *)
(* whichever way the caller left its select (lock.go:34-37).               *)
WorkerNotStranded ==
    \A c \in Call : worker[c] = "sending" ~> worker[c] = "none"

(* The locks held, as the abstract mutex sees them. *)
heldNow == {<<c, repo[c]>> : c \in {d \in Call : Holding(d)}}

Mutex == INSTANCE RepoMutex WITH held <- heldNow

(* wrapInLock over inMemoryRepoLock implements the repository mutex,       *)
(* including that a held lock is given back.                               *)
ImplementsRepoMutex == Mutex!FairSpec
=============================================================================
