-------------------------------- MODULE Push --------------------------------
(***************************************************************************)
(* A push from end to end: wrapInLock (PushLock) runs Receive in a worker, *)
(* and Receive runs git, whose pre-receive hook is BuildHook.  The lock    *)
(* and the hooks meet in one directory: what the hooks do in it is safe    *)
(* as long as the lock keeps them apart, and the lock gives up on a worker *)
(* whose time is over without stopping it.                                 *)
(*                                                                         *)
(* A call runs one Receive; a call that was refused or denied is made      *)
(* again.                                                                  *)
(***************************************************************************)
EXTENDS BuildHook

CONSTANTS App,      \* the repository of the application
          NoApp     \* no repository

ASSUME AppAssumption == App # NoApp

VARIABLES dataMap, repo, caller, timer, worker, doneCh, fnErr, result

lockVars == <<dataMap, repo, caller, timer, worker, doneCh, fnErr, result>>
pushVars == <<vars, lockVars>>

Lock == INSTANCE PushLock WITH Call <- Hook, Repo <- {App}, NoRepo <- NoApp

PushInit == Init /\ Lock!Init

-----------------------------------------------------------------------------
(* answer calls wrapInLock. *)
Exec(h) ==
    /\ At(h, "new")
    /\ Lock!LockAcquired(h, App) \/ Lock!LockRefused(h, App)
    /\ UNCHANGED vars

(* In the worker, runReceive denies the user the application ... *)
Denied(h) ==
    /\ At(h, "new")
    /\ Lock!FnReturn(h, "err")
    /\ UNCHANGED vars

(* ... or Receive runs, to git's hook or to an end without one. *)
Receives(h) ==
    \/ /\ worker[h] = "running"
       /\ Receive(h) \/ Start(h)
       /\ UNCHANGED lockVars
    \/ /\ ReceiveEnds(h)
       /\ \E e \in Lock!Outcome : Lock!FnReturn(h, e)

(* The hook's steps; the last, with Receive's deferred RemoveAll, is the   *)
(* worker's return.                                                        *)
Hooks(h) ==
    /\ HookStep(h) \/ LogBreaks(h) \/ HookKilled(h)
    /\ IF At(h, "exit") /\ ~died[h]
       THEN \E e \in Lock!Outcome : Lock!FnReturn(h, e)
       ELSE UNCHANGED lockVars

(* The worker returns before the hook of a git that died. *)
GitLost(h) == GitDies(h) /\ Lock!FnReturn(h, "err")

Pods(h) ==
    /\ PodStep(h) \/ PodDeleted(h) \/ CacheSync(h)
    /\ UNCHANGED lockVars

(* The timer, wrapInLock's select and its deferred calls, and the worker's *)
(* end.                                                                    *)
Locks(h) ==
    /\ \/ Lock!TimerFires(h) \/ Lock!WorkerDropsResult(h) \/ Lock!CallerStep(h)
    /\ UNCHANGED vars

PushDone ==
    /\ \A h \in Hook : step[h] = "done" /\ Lock!Free(h)
    /\ UNCHANGED pushVars

PushNext ==
    \/ \E h \in Hook :
          \/ Exec(h) \/ Denied(h) \/ Receives(h) \/ Hooks(h) \/ GitLost(h)
          \/ Pods(h) \/ Locks(h)
    \/ PushDone

PushSpec == PushInit /\ [][PushNext]_pushVars

-----------------------------------------------------------------------------
(* wrapInLock gave up on h, or its hook went on after its git. *)
Overran(h) == step[h] # "new" /\ (Lock!Abandoned(h) \/ died[h])

(* ... and it was not the only push. *)
Overlapped == \E g, h \in Hook : g # h /\ Overran(h) /\ step[g] # "new"

(* Releases that mix two commits, or miss their Procfile, come from a push *)
(* that overran: until there is one beside another, every release is made  *)
(* of one commit, though the pushes share the archive, and remove the      *)
(* directory they share however they end (lock.go:39-47, git.go:58,        *)
(* build.go:105-135, 306-318).                                             *)
MixedOnlyAfterOverrun == ReleaseMatchesCommit \/ Overlapped
=============================================================================
