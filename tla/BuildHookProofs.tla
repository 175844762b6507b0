-------------------------- MODULE BuildHookProofs --------------------------
(***************************************************************************)
(* The build hook for every set of hooks, of commits and every number of   *)
(* lines.  However many hooks overlap in the directory: its types, no      *)
(* release of a failed container, and an accepted push is a released one.  *)
(* While they do not overlap: a release is made of one commit.             *)
(***************************************************************************)
EXTENDS BuildHook, TLAPS

(* The steps in which build works on the line Run read last; those with an *)
(* archive of its commit, and those with a job; and all steps.             *)
Current == {"sha", "mktemp", "config", "archive", "untar", "readTgz", "upload", "createJob",
            "waitPod", "listPods", "logs", "waitEnd", "status", "files", "publish"}
Building == {"untar", "readTgz", "upload", "createJob", "waitPod", "listPods", "logs",
             "waitEnd", "status", "files", "publish"}
JobMade == {"waitPod", "listPods", "logs", "waitEnd", "status", "files", "publish"}
Steps == Current \cup {"new", "receive", "connect", "read", "unwind", "exit", "done"}

(* A call of build that succeeded: git archive is passed with a commit,    *)
(* the exit codes with good ones, and a job is not forgotten.              *)
Advances(h) ==
    \E t \in Current :
        /\ step' = [step EXCEPT ![h] = t] /\ ret' = ret
        /\ t \in Building => step[h] \in Building \/ rev[h] \in Sha
        /\ step[h] \in JobMade => t \in JobMade
        /\ t \in {"files", "publish"} =>
              step[h] = "files" \/ codes[h] \notin {"none", "nonzero", "unterminated"}

(* A call that ends build with an error, and the one that makes the job.   *)
Fails(h) ==
    \E e \in {"err", "panic"} :
        step' = [step EXCEPT ![h] = "unwind"] /\ ret' = [ret EXCEPT ![h] = e]
JobBegins(h) ==
    /\ step[h] = "createJob" /\ step' = [step EXCEPT ![h] = "waitPod"]
    /\ pod' = [pod EXCEPT ![h] = "Pending"] /\ codes' = [codes EXCEPT ![h] = "none"]

(* A step within build.                                                    *)
Works(h) ==
    /\ step[h] \in Current
    /\ Advances(h) \/ Fails(h)
    /\ UNCHANGED <<pod, codes>> \/ JobBegins(h)
    /\ UNCHANGED <<input, pos, rev, releases>>

(* A step within build that reads or writes none of its files.             *)
Quiet(h) ==
    /\ \/ \E t \in Current \ Building : step' = [step EXCEPT ![h] = t]
       \/ step[h] \in JobMade /\ \E t \in JobMade \ {"publish"} : step' = [step EXCEPT ![h] = t]
       \/ Fails(h)
    /\ UNCHANGED <<rev, died, tmpDir, data, procfile, tgz, stored, pod, codes, image, cache,
                   releases>>

(* A pod runs, once, or is over; exit codes come with the end.             *)
PodMoves(h) ==
    /\ pod[h] # "none"
    /\ \E p \in {"Running", "Succeeded", "Failed", "deleted"} :
          /\ pod' = [pod EXCEPT ![h] = p]
          /\ p = "Running" => pod[h] = "Pending" /\ codes' = codes
    /\ \/ codes' = codes
       \/ pod[h] \in {"Pending", "Running"} /\ \E x \in Codes : codes' = [codes EXCEPT ![h] = x]

(* What pods and informers do, and git's death, leaves the hooks where     *)
(* they are.                                                               *)
Rests ==
    /\ UNCHANGED <<input, pos, rev, step, ret, releases>>
    /\ UNCHANGED <<pod, codes>> \/ \E h \in Hook : PodMoves(h)

(* The end of a push, with or without its hook.                            *)
Leaves(h) ==
    /\ step[h] \in {"receive", "exit"}
    /\ Leave(h)
    /\ UNCHANGED <<died, stored, releases>>

(* A hook's step, seen from Run's loop over the lines (run.go:34-50) and   *)
(* from build's files: within build, or one of those that begin and end a  *)
(* line and the hook.                                                      *)
LEMMA HookKinds ==
    ASSUME NEW h \in Hook, HookStep(h) \/ LogBreaks(h)
    PROVE  \/ /\ Works(h)
              /\ \/ Quiet(h) \/ MkdirTemp(h) \/ Archive(h) \/ Untar(h) \/ ReadTgz(h)
                 \/ PutContent(h) \/ CreateJob(h) \/ ReadFiles(h)
           \/ Connect(h) \/ ReadLine(h) \/ Publish(h) \/ Unwind(h) \/ RemoveRepo(h)
<1> USE DEF At, Goto, Return, jobVars, Works, Advances, Fails, JobBegins, Quiet, Current,
            Building, JobMade
<1>1. NewSha(h) => Works(h) /\ Quiet(h)
  BY DEF NewSha
<1>2. MkdirTemp(h) => Works(h)
  BY DEF MkdirTemp
<1>3. GetAppConfig(h) => Works(h) /\ Quiet(h)
  BY DEF GetAppConfig, Try
<1>4. Archive(h) => Works(h)
  BY DEF Archive, Archivable, Archived
<1>5. Untar(h) => Works(h)
  BY DEF Untar
<1>6. ReadTgz(h) => Works(h)
  BY DEF ReadTgz
<1>7. PutContent(h) => Works(h)
  BY DEF PutContent
<1>8. CreateJob(h) => Works(h)
  BY DEF CreateJob, buildJob
<1>9. WaitForPod(h) => Works(h) /\ Quiet(h)
  BY DEF WaitForPod
<1>10. ListPods(h) => Works(h) /\ Quiet(h)
  BY DEF ListPods
<1>11. FollowLog(h) => Works(h) /\ Quiet(h)
  BY DEF FollowLog
<1>12. LogBreaks(h) => Works(h) /\ Quiet(h)
  BY DEF LogBreaks
<1>13. WaitForPodEnd(h) => Works(h) /\ Quiet(h)
  BY DEF WaitForPodEnd
<1>14. CheckStatus(h) => Works(h) /\ Quiet(h)
  BY DEF CheckStatus, ExitCodeBad
<1>15. ReadFiles(h) => Works(h)
  BY DEF ReadFiles, getProcfile
<1> HIDE DEF Works, Quiet
<1> QED
  BY <1>1, <1>2, <1>3, <1>4, <1>5, <1>6, <1>7, <1>8, <1>9, <1>10, <1>11, <1>12, <1>13, <1>14,
     <1>15, Zenon DEF HookStep

(* Pods and informers rest the hooks.                                      *)
LEMMA PodKinds ==
    ASSUME NEW h \in Hook, PodStep(h) \/ PodDeleted(h) \/ CacheSync(h)
    PROVE  Rests
<1> USE DEF hookVars, Rests, PodMoves, Codes
<1>1. CASE PodRuns(h)
  BY <1>1, Zenon DEF PodRuns
<1>2. CASE PodSucceeds(h)
  BY <1>2, Zenon DEF PodSucceeds
<1>3. CASE PodFails(h)
  BY <1>3, Zenon DEF PodFails
<1>4. CASE PodDeleted(h) \/ CacheSync(h)
  BY <1>4 DEF PodDeleted, CacheSync
<1> QED BY <1>1, <1>2, <1>3, <1>4 DEF PodStep

(* Next, seen that way.                                                    *)
LEMMA StepKinds ==
    ASSUME [Next]_vars
    PROVE  \/ Rests
           \/ \E h \in Hook : \/ Works(h) \/ Receive(h) \/ Start(h) \/ Connect(h) \/ ReadLine(h)
                              \/ Publish(h) \/ Unwind(h) \/ HookKilled(h) \/ Leaves(h)
<1>1. CASE AllDone \/ UNCHANGED vars
  BY <1>1 DEF AllDone, vars, Rests
<1>2. ASSUME NEW h \in Hook, RemoveRepo(h) \/ ReceiveEnds(h) PROVE Leaves(h)
  BY <1>2, Zenon DEF RemoveRepo, ReceiveEnds, At, Leaves
<1>3. CASE \E h \in Hook : HookStep(h) \/ LogBreaks(h)
  BY <1>2, <1>3, HookKinds, Zenon
<1>4. CASE \E h \in Hook : PodStep(h) \/ PodDeleted(h) \/ CacheSync(h)
  BY <1>4, PodKinds, Zenon
<1>5. CASE \E h \in Hook : GitDies(h)
  BY <1>5 DEF GitDies, jobVars, Rests
<1> QED BY <1>1, <1>2, <1>3, <1>4, <1>5, Zenon DEF Next

(* Who has died stays so.                                                  *)
LEMMA DiedKinds ==
    ASSUME [Next]_vars
    PROVE  UNCHANGED died \/ \E h \in Hook : died' = [died EXCEPT ![h] = TRUE]
<1>1. CASE AllDone \/ UNCHANGED vars
  BY <1>1 DEF AllDone, vars
<1>2. ASSUME NEW h \in Hook, HookStep(h) \/ LogBreaks(h) PROVE UNCHANGED died
  BY <1>2, Zenon
     DEF HookStep, Connect, ReadLine, NewSha, MkdirTemp, GetAppConfig, Try, Archive, Untar, ReadTgz,
         PutContent, CreateJob, WaitForPod, ListPods, FollowLog, LogBreaks, WaitForPodEnd,
         CheckStatus, ReadFiles, Publish, Unwind, RemoveRepo
<1>3. ASSUME NEW h \in Hook, PodStep(h) \/ PodDeleted(h) \/ CacheSync(h) PROVE UNCHANGED died
  BY <1>3, Zenon DEF PodStep, PodRuns, PodSucceeds, PodFails, PodDeleted, CacheSync, hookVars
<1>4. ASSUME NEW h \in Hook, Receive(h) \/ Start(h) \/ ReceiveEnds(h) \/ HookKilled(h)
      PROVE  UNCHANGED died
  BY <1>4, Zenon DEF Receive, Start, ReceiveEnds, HookKilled
<1> QED BY <1>1, <1>2, <1>3, <1>4, Zenon DEF Next, GitDies

(* What the proofs need of the types: functions of the hooks, and the      *)
(* input.                                                                  *)
Typed ==
    /\ input \in [Hook -> Seq(Line)] /\ pos \in [Hook -> Nat]
    /\ DOMAIN rev = Hook /\ DOMAIN step = Hook /\ DOMAIN ret = Hook
    /\ DOMAIN pod = Hook /\ codes \in [Hook -> Codes]

(* Every step keeps the types (BuildHook's Next: the hook, its pod and the *)
(* informer).                                                              *)
LEMMA StepTyped == Typed /\ [Next]_vars => Typed'
<1> SUFFICES ASSUME Typed, [Next]_vars PROVE Typed'
  OBVIOUS
<1> USE DEF Typed
<1>1. CASE Rests
  <2>1. DOMAIN pod' = Hook
    BY <1>1 DEF Rests, PodMoves
  <2>2. codes' = codes \/ \E h \in Hook : \E x \in Codes : codes' = [codes EXCEPT ![h] = x]
    BY <1>1, Zenon DEF Rests, PodMoves
  <2>3. codes' \in [Hook -> Codes]
    BY <2>2, Zenon
  <2> QED BY <1>1, <2>1, <2>3 DEF Rests
<1>2. ASSUME NEW h \in Hook, Works(h) PROVE Typed'
  <2>1. /\ DOMAIN step' = Hook /\ DOMAIN ret' = Hook /\ DOMAIN pod' = Hook
        /\ input' = input /\ pos' = pos /\ rev' = rev
    BY <1>2 DEF Works, Advances, Fails, JobBegins
  <2>2. codes' \in [Hook -> Codes]
    BY <1>2, Zenon DEF Works, JobBegins, Codes
  <2> QED BY <2>1, <2>2
<1>3. ASSUME NEW h \in Hook, Receive(h) \/ Start(h) \/ Connect(h) \/ HookKilled(h)
      PROVE  Typed'
  <2>1. /\ UNCHANGED <<pos, rev, pod, codes>>
        /\ DOMAIN step' = Hook /\ DOMAIN ret' = Hook
    BY <1>3 DEF Receive, Start, Connect, HookKilled, Goto, Exit, jobVars
  <2>2. input' \in [Hook -> Seq(Line)]
    <3>1. CASE Start(h)
      BY <3>1 DEF Start
    <3>2. CASE UNCHANGED input
      BY <3>2
    <3> QED BY <1>3, <3>1, <3>2, Zenon DEF Receive, Connect, HookKilled
  <2> QED BY <2>1, <2>2
<1>4. ASSUME NEW h \in Hook, ReadLine(h) PROVE Typed'
  <2>1. UNCHANGED <<input, pod, codes>> /\ pos' \in [Hook -> Nat]
    BY <1>4 DEF ReadLine, jobVars
  <2>2. DOMAIN rev' = Hook /\ DOMAIN step' = Hook /\ DOMAIN ret' = Hook
    BY <1>4 DEF ReadLine, Goto, Exit
  <2> QED BY <2>1, <2>2
<1>5. ASSUME NEW h \in Hook, Publish(h) PROVE Typed'
  BY <1>5 DEF Publish, At, Return, jobVars
<1>6. ASSUME NEW h \in Hook, Unwind(h) PROVE Typed'
  BY <1>6 DEF Unwind, At, NextStep, jobVars
<1>7. ASSUME NEW h \in Hook, Leaves(h) PROVE Typed'
  <2>1. /\ pos' = [pos EXCEPT ![h] = 0] /\ input' = [input EXCEPT ![h] = <<>>]
        /\ codes' = [codes EXCEPT ![h] = "none"]
    BY <1>7 DEF Leaves, Leave
  <2>2. DOMAIN rev' = Hook /\ DOMAIN step' = Hook /\ DOMAIN ret' = Hook /\ DOMAIN pod' = Hook
    BY <1>7 DEF Leaves, Leave
  <2>3. input' \in [Hook -> Seq(Line)]
    BY <2>1
  <2>4. pos' \in [Hook -> Nat]
    BY <2>1
  <2>5. codes' \in [Hook -> Codes]
    BY <2>1 DEF Codes
  <2> QED BY <2>2, <2>3, <2>4, <2>5
<1> QED
  BY <1>1, <1>2, <1>3, <1>4, <1>5, <1>6, <1>7, StepKinds, Zenon

(* Exit codes are known only of a pod that is over, and a hook past        *)
(* CheckStatus found good ones, which nothing changes any more.            *)
PodInv ==
    \A h \in Hook :
        /\ pod[h] \in {"none", "Pending", "Running"} => codes[h] = "none"
        /\ step[h] \in {"files", "publish"} => codes[h] \in {"zero", "missing"}

(* Every step preserves PodInv: only CheckStatus enters the steps that     *)
(* need good codes, and only a pod that runs gets codes.                   *)
LEMMA StepPodInv == Typed /\ PodInv /\ [Next]_vars => PodInv'
<1> SUFFICES ASSUME Typed, PodInv, [Next]_vars PROVE PodInv'
  OBVIOUS
<1> USE DEF Typed, PodInv, Codes
<1>1. CASE Rests
  BY <1>1, Zenon DEF Rests, PodMoves
<1>2. ASSUME NEW h \in Hook, Works(h) PROVE PodInv'
  BY <1>2 DEF Works, Advances, Fails, JobBegins, Current
<1>3. ASSUME NEW h \in Hook, Receive(h) \/ Start(h) \/ Connect(h) \/ HookKilled(h)
      PROVE  PodInv'
  BY <1>3 DEF Receive, Start, Connect, HookKilled, Runs, At, Goto, Exit, jobVars
<1>4. ASSUME NEW h \in Hook, ReadLine(h) PROVE PodInv'
  BY <1>4 DEF ReadLine, At, Goto, Exit, jobVars
<1>5. ASSUME NEW h \in Hook, Publish(h) PROVE PodInv'
  BY <1>5 DEF Publish, At, Return, jobVars
<1>6. ASSUME NEW h \in Hook, Unwind(h) PROVE PodInv'
  BY <1>6 DEF Unwind, At, NextStep, jobVars
<1>7. ASSUME NEW h \in Hook, Leaves(h) PROVE PodInv'
  BY <1>7 DEF Leaves, Leave
<1> QED
  BY <1>1, <1>2, <1>3, <1>4, <1>5, <1>6, <1>7, StepKinds, Zenon

(* A hook past git archive builds a commit.  A pod that is not over is     *)
(* that of the build its hook is in, or was in when it failed: no hook     *)
(* reads the next line while its pod still has to fetch the archive.       *)
RevInv ==
    \A h \in Hook :
        /\ step[h] \in Building => rev[h] \in Sha
        /\ pod[h] \in {"Pending", "Running"} =>
              /\ rev[h] \in Sha
              /\ \/ step[h] \in JobMade
                 \/ step[h] \in {"unwind", "exit"} /\ ret[h] # "ok"

(* Every step preserves RevInv: an error ends the hook, and Publish is     *)
(* reached past the pod's exit codes (run.go:34-50, build.go:225-247).     *)
LEMMA StepRevInv == Typed /\ PodInv /\ RevInv /\ [Next]_vars => RevInv'
<1> SUFFICES ASSUME Typed, PodInv, RevInv, [Next]_vars PROVE RevInv'
  OBVIOUS
<1> USE DEF Typed, PodInv, RevInv, Building, JobMade
<1>1. CASE Rests
  BY <1>1 DEF Rests, PodMoves
<1>2. ASSUME NEW h \in Hook, Works(h) PROVE RevInv'
  BY <1>2 DEF Works, Advances, Fails, JobBegins, Current
<1>3. ASSUME NEW h \in Hook, Receive(h) \/ Start(h) \/ Connect(h) \/ HookKilled(h)
      PROVE  RevInv'
  BY <1>3 DEF Receive, Start, Connect, HookKilled, Runs, At, Goto, Exit, jobVars
<1>4. ASSUME NEW h \in Hook, ReadLine(h) PROVE RevInv'
  BY <1>4 DEF ReadLine, At, Goto, Exit, jobVars
<1>5. ASSUME NEW h \in Hook, Publish(h) PROVE RevInv'
  BY <1>5, Zenon DEF Publish, At, Return, jobVars
<1>6. ASSUME NEW h \in Hook, Unwind(h) PROVE RevInv'
  BY <1>6 DEF Unwind, At, NextStep, jobVars
<1>7. ASSUME NEW h \in Hook, Leaves(h) PROVE RevInv'
  BY <1>7 DEF Leaves, Leave
<1> QED
  BY <1>1, <1>2, <1>3, <1>4, <1>5, <1>6, <1>7, StepKinds, Zenon

(* The release of line n of hook h was made.                               *)
Released(h, n) == \E x \in releases : x.hook = h /\ x.sha = input[h][n]

(* The line read last was built: Run is about to read on, or to return     *)
(* nil.                                                                    *)
Succeeded(h) == step[h] = "read" \/ (step[h] \in {"unwind", "exit"} /\ ret[h] = "ok")

(* The inductive invariant behind AcceptedMeansReleased: rev is the line   *)
(* read last, and every line before it, or with it once it succeeded, is   *)
(* released.                                                               *)
Accepts(h) ==
    /\ step[h] \in {"new", "receive"} => input[h] = <<>>
    /\ step[h] = "connect" => pos[h] = 0
    /\ pos[h] <= Len(input[h])
    /\ step[h] \in Current => pos[h] >= 1 /\ rev[h] = input[h][pos[h]]
    /\ step[h] = "exit" /\ ret[h] = "ok" => pos[h] = Len(input[h])
    /\ \A n \in 1 .. pos[h] : n < pos[h] \/ Succeeded(h) => Released(h, n)

AcceptInv == \A h \in Hook : Accepts(h)

(* A hook's step leaves the lines of the others as they are.               *)
LEMMA OthersAccept ==
    ASSUME AcceptInv, NEW h \in Hook, releases \subseteq releases', Accepts(h)',
           \A g \in Hook : g # h => /\ input'[g] = input[g] /\ pos'[g] = pos[g]
                                   /\ rev'[g] = rev[g] /\ step'[g] = step[g] /\ ret'[g] = ret[g]
    PROVE  AcceptInv'
<1> SUFFICES ASSUME NEW g \in Hook, g # h PROVE Accepts(g)'
  BY DEF AcceptInv
<1>1. Accepts(g)
  BY DEF AcceptInv
<1>2. Succeeded(g)' <=> Succeeded(g)
  BY DEF Succeeded
<1>3. \A n : Released(g, n) => Released(g, n)'
  BY DEF Released
<1> QED BY <1>1, <1>2, <1>3 DEF Accepts

(* Every step preserves AcceptInv; by StepKinds, the ones within build do  *)
(* so for one reason.                                                      *)
LEMMA StepAcceptInv == Typed /\ AcceptInv /\ [Next]_vars => AcceptInv'
<1> SUFFICES ASSUME Typed, AcceptInv, [Next]_vars PROVE AcceptInv'
  OBVIOUS
<1>0. Typed'
  BY StepTyped
<1>1. CASE Rests
  BY <1>1 DEF Rests, AcceptInv, Accepts, Succeeded, Released
<1>2. ASSUME NEW h \in Hook, Works(h) PROVE AcceptInv'
  <2>1. \A g \in Hook : g # h => step'[g] = step[g] /\ ret'[g] = ret[g]
    BY <1>2 DEF Works, Advances, Fails, Typed
  <2>2. step'[h] \in Current \/ (step'[h] = "unwind" /\ ret'[h] # "ok")
    BY <1>2 DEF Works, Advances, Fails, Typed
  <2>3. ~Succeeded(h)' /\ step'[h] \notin {"new", "receive", "connect", "exit"}
    BY <2>2 DEF Succeeded, Current
  <2>4. \A n : Released(h, n) => Released(h, n)'
    BY <1>2 DEF Works, Released
  <2>5. step[h] \in Current /\ UNCHANGED <<input, pos, rev, releases>>
    BY <1>2 DEF Works
  <2>6. Accepts(h)'
    BY <2>2, <2>3, <2>4, <2>5 DEF AcceptInv, Accepts
  <2> QED
    BY <2>1, <2>5, <2>6, OthersAccept
<1>3. ASSUME NEW h \in Hook, Receive(h) PROVE AcceptInv'
  <2>1. /\ step[h] = "new" /\ step' = [step EXCEPT ![h] = "receive"]
        /\ UNCHANGED <<input, pos, rev, ret, releases>>
    BY <1>3 DEF Receive, At, Goto
  <2>2. Accepts(h)'
    BY <1>0, <2>1 DEF AcceptInv, Accepts, Typed, Current, Released, Succeeded
  <2> QED BY <2>1, <2>2, OthersAccept DEF Typed
<1>4. ASSUME NEW h \in Hook, Start(h) PROVE AcceptInv'
  <2>1. /\ step[h] = "receive" /\ step' = [step EXCEPT ![h] = "connect"]
        /\ UNCHANGED <<pos, rev, ret, releases>>
        /\ \A g \in Hook : g # h => input'[g] = input[g]
    BY <1>4 DEF Start, At, Goto, Typed
  <2>2. pos[h] = 0
    BY <2>1 DEF AcceptInv, Accepts, Typed
  <2>3. Accepts(h)'
    BY <1>0, <2>1, <2>2 DEF Accepts, Typed, Current
  <2> QED BY <2>1, <2>3, OthersAccept DEF Typed
<1>5. ASSUME NEW h \in Hook, Connect(h) \/ HookKilled(h) PROVE AcceptInv'
  <2>1. /\ UNCHANGED <<input, pos, rev, releases>>
        /\ \A g \in Hook : g # h => step'[g] = step[g] /\ ret'[g] = ret[g]
        /\ \/ step[h] = "connect" /\ step'[h] = "read" /\ ret'[h] = ret[h]
           \/ step'[h] = "exit" /\ ret'[h] = "err"
    BY <1>5 DEF Connect, HookKilled, At, Goto, Exit, Typed
  <2>2. \A n : Released(h, n) => Released(h, n)'
    BY <2>1 DEF Released
  <2>3. Accepts(h)'
    <3>1. CASE step[h] = "connect" /\ step'[h] = "read"
      BY <2>1, <3>1 DEF AcceptInv, Accepts, Typed, Current
    <3>2. CASE step'[h] = "exit" /\ ret'[h] = "err"
      <4>1. ~Succeeded(h)'
        BY <3>2 DEF Succeeded
      <4> QED BY <2>1, <2>2, <3>2, <4>1 DEF AcceptInv, Accepts, Current
    <3> QED BY <2>1, <3>1, <3>2
  <2> QED BY <2>1, <2>3, OthersAccept
<1>6. ASSUME NEW h \in Hook, ReadLine(h) PROVE AcceptInv'
  <2>1. /\ step[h] = "read" /\ UNCHANGED <<input, releases>>
        /\ \A g \in Hook : g # h => /\ pos'[g] = pos[g] /\ rev'[g] = rev[g]
                                    /\ step'[g] = step[g] /\ ret'[g] = ret[g]
    BY <1>6 DEF ReadLine, At, Goto, Exit, Typed
  <2>2. \/ pos[h] = Len(input[h]) /\ step'[h] = "exit" /\ pos'[h] = pos[h]
        \/ /\ pos[h] < Len(input[h]) /\ pos'[h] = pos[h] + 1 /\ rev'[h] = input[h][pos[h] + 1]
           /\ step'[h] = "sha" \/ (step'[h] = "exit" /\ ret'[h] = "err")
    BY <1>6 DEF ReadLine, At, Goto, Exit, Typed
  <2>3. \A n \in 1 .. pos[h] : Released(h, n)'
    BY <2>1 DEF AcceptInv, Accepts, Succeeded, Released
  <2>4. pos[h] \in Nat /\ Len(input[h]) \in Nat
    BY DEF Typed
  <2>5. CASE pos[h] = Len(input[h]) /\ step'[h] = "exit" /\ pos'[h] = pos[h]
    <3>1. Accepts(h)'
      BY <2>1, <2>3, <2>4, <2>5 DEF Accepts, Current
    <3> QED BY <2>1, <3>1, OthersAccept
  <2>6. CASE /\ pos[h] < Len(input[h]) /\ pos'[h] = pos[h] + 1 /\ rev'[h] = input[h][pos[h] + 1]
             /\ step'[h] = "sha" \/ (step'[h] = "exit" /\ ret'[h] = "err")
    <3>1. ~Succeeded(h)'
      BY <2>6 DEF Succeeded
    <3>2. \A n \in 1 .. pos'[h] : n < pos'[h] => n \in 1 .. pos[h]
      BY <2>4, <2>6
    <3>3. Accepts(h)'
      BY <2>1, <2>3, <2>4, <2>6, <3>1, <3>2 DEF Accepts, Current
    <3> QED BY <2>1, <3>3, OthersAccept
  <2> QED BY <2>2, <2>5, <2>6
<1>7. ASSUME NEW h \in Hook, Publish(h) PROVE AcceptInv'
  <2>1. /\ step[h] = "publish" /\ step'[h] = "unwind" /\ UNCHANGED <<input, pos, rev>>
        /\ \A g \in Hook : g # h => step'[g] = step[g] /\ ret'[g] = ret[g]
    BY <1>7 DEF Publish, At, Return, Typed
  <2>2. releases \subseteq releases'
    BY <1>7 DEF Publish
  <2>3. ret'[h] = "ok" => Released(h, pos[h])'
    <3>1. ret'[h] = "ok" => releases' = releases \cup {TheRelease(h)}
      BY <1>7 DEF Publish, Return, Typed
    <3>2. rev[h] = input[h][pos[h]]
      BY <2>1 DEF AcceptInv, Accepts, Current
    <3>3. TheRelease(h).hook = h /\ TheRelease(h).sha = rev[h]
      BY DEF TheRelease
    <3> QED BY <2>1, <3>1, <3>2, <3>3 DEF Released
  <2>4. \A n : Released(h, n) => Released(h, n)'
    BY <2>1, <2>2 DEF Released
  <2>5. Succeeded(h)' => ret'[h] = "ok"
    BY <2>1 DEF Succeeded
  <2>6. Accepts(h)'
    BY <2>1, <2>3, <2>4, <2>5 DEF AcceptInv, Accepts, Current, Typed
  <2> QED
    BY <2>1, <2>2, <2>6, OthersAccept
<1>8. ASSUME NEW h \in Hook, Unwind(h) PROVE AcceptInv'
  <2>1. /\ step[h] = "unwind" /\ UNCHANGED <<input, pos, rev, ret, releases>>
        /\ step'[h] = IF ret[h] = "ok" THEN "read" ELSE "exit"
        /\ \A g \in Hook : g # h => step'[g] = step[g]
    BY <1>8 DEF Unwind, NextStep, At, Typed
  <2>2. Accepts(h)'
    BY <2>1 DEF AcceptInv, Accepts, Current, Succeeded, Released
  <2> QED
    BY <2>1, <2>2, OthersAccept
<1>9. ASSUME NEW h \in Hook, Leaves(h) PROVE AcceptInv'
  <2>1. /\ step'[h] = "done" /\ pos'[h] = 0 /\ input'[h] = <<>> /\ UNCHANGED releases
        /\ \A g \in Hook : g # h => /\ input'[g] = input[g] /\ pos'[g] = pos[g] /\ rev'[g] = rev[g]
                                    /\ step'[g] = step[g] /\ ret'[g] = ret[g]
    BY <1>9 DEF Leaves, Leave, Typed
  <2>2. Accepts(h)'
    BY <2>1 DEF Accepts, Current
  <2> QED BY <2>1, <2>2, OthersAccept
<1> QED
  BY <1>1, <1>2, <1>3, <1>4, <1>5, <1>6, <1>7, <1>8, <1>9, StepKinds, Zenon

(* A release is made at the step "publish", where PodInv has good codes.   *)
LEMMA StepNoFailedRelease ==
    Typed /\ PodInv /\ NoReleaseOfFailedContainer /\ [Next]_vars => NoReleaseOfFailedContainer'
<1> SUFFICES ASSUME Typed, PodInv, NoReleaseOfFailedContainer, [Next]_vars
             PROVE  NoReleaseOfFailedContainer'
  OBVIOUS
<1>1. ASSUME NEW h \in Hook, Publish(h) PROVE NoReleaseOfFailedContainer'
  <2>1. releases' \subseteq releases \cup {TheRelease(h)}
    BY <1>1 DEF Publish
  <2>2. TheRelease(h).codes = codes[h] /\ codes[h] \in {"zero", "missing"}
    BY <1>1 DEF Publish, At, TheRelease, PodInv
  <2> QED BY <2>1, <2>2 DEF NoReleaseOfFailedContainer
<1>2. CASE releases' = releases
  BY <1>2 DEF NoReleaseOfFailedContainer
<1> QED
  BY <1>1, <1>2, StepKinds DEF Rests, Works, Receive, Start, Connect, ReadLine, Unwind, HookKilled,
                              Leaves

(* No release is published for a pod with a container that failed or had   *)
(* not ended, for any hooks, commits and lines (build.go:242-247).         *)
THEOREM NoFailedReleaseAlways == SafetySpec => []NoReleaseOfFailedContainer
<1>1. Init => Typed /\ PodInv /\ NoReleaseOfFailedContainer
  BY DEF Init, Typed, PodInv, NoReleaseOfFailedContainer, Codes
<1> QED
  BY <1>1, StepTyped, StepPodInv, StepNoFailedRelease, PTL DEF SafetySpec

(* A hook exits with 0 only when each of its lines was released, for any   *)
(* hooks, commits and lines (run.go:34-50).                                *)
THEOREM AcceptedMeansReleasedAlways == SafetySpec => []AcceptedMeansReleased
<1>1. Init => Typed /\ AcceptInv
  BY DEF Init, Typed, AcceptInv, Accepts, Succeeded, Codes, Current
<1>2. Typed /\ AcceptInv => AcceptedMeansReleased
  BY DEF Typed, AcceptInv, Accepts, AcceptedMeansReleased, Succeeded, Released
<1> QED
  BY <1>1, <1>2, StepTyped, StepAcceptInv, PTL DEF SafetySpec

(* Every step keeps the types of the hook's variables, ... *)
HookTypes ==
    /\ \A h \in Hook : Len(input[h]) <= MaxLines
    /\ rev \in [Hook -> Line \cup {"none"}]
    /\ step \in [Hook -> Steps] /\ ret \in [Hook -> {"ok", "err", "panic"}]
    /\ died \in [Hook -> BOOLEAN]

LEMMA StepHookTypes == Typed /\ AcceptInv /\ HookTypes /\ [Next]_vars => HookTypes'
<1> SUFFICES ASSUME Typed, AcceptInv, HookTypes, [Next]_vars,
                    died' \in [Hook -> BOOLEAN]
             PROVE  HookTypes'
  BY DiedKinds, Zenon DEF HookTypes
<1>0. /\ Current \subseteq Steps
      /\ {"new", "receive", "connect", "read", "unwind", "exit", "done"} \subseteq Steps
      /\ "sha" \in Steps
  BY Zenon DEF Steps, Current
<1>1. CASE Rests
  BY <1>1 DEF Rests, HookTypes
<1>2. ASSUME NEW h \in Hook, Works(h) PROVE HookTypes'
  <2>1. UNCHANGED <<input, pos, rev>>
    BY <1>2 DEF Works
  <2>2. CASE Advances(h)
    BY <1>0, <2>1, <2>2 DEF Advances, HookTypes
  <2>3. CASE Fails(h)
    BY <1>0, <2>1, <2>3 DEF Fails, HookTypes
  <2> QED BY <1>2, <2>2, <2>3 DEF Works
<1>3. ASSUME NEW h \in Hook, Start(h) PROVE HookTypes'
  <2>0. PICK n \in 1 .. MaxLines : \E ls \in [1 .. n -> Line] :
            input' = [input EXCEPT ![h] = ls]
    BY <1>3, Zenon DEF Start
  <2>1. PICK ls \in [1 .. n -> Line] : input' = [input EXCEPT ![h] = ls]
    BY <2>0, Zenon
  <2>2. Len(ls) = n /\ n <= MaxLines
    BY HookAssumption
  <2>3. \A g \in Hook : Len(input'[g]) <= MaxLines
    BY <2>1, <2>2 DEF Typed, HookTypes
  <2>4. rev' = rev /\ ret' = ret /\ step' \in [Hook -> Steps]
    BY <1>0, <1>3 DEF Start, Goto, HookTypes
  <2> QED BY <2>3, <2>4 DEF HookTypes
<1>4. ASSUME NEW h \in Hook, ReadLine(h) PROVE HookTypes'
  <2>1. \E x \in Steps : step' = [step EXCEPT ![h] = x]
    BY <1>0, <1>4 DEF ReadLine, Goto, Exit
  <2>2. ret' = ret \/ \E e \in {"ok", "err", "panic"} : ret' = [ret EXCEPT ![h] = e]
    BY <1>4 DEF ReadLine, Goto, Exit
  <2>3. input' = input /\ step' \in [Hook -> Steps]
    BY <1>4, <2>1 DEF ReadLine, HookTypes
  <2>4. ret' \in [Hook -> {"ok", "err", "panic"}]
    BY <2>2 DEF HookTypes
  <2>5. CASE rev' = rev
    BY <2>3, <2>4, <2>5 DEF HookTypes
  <2>6. CASE pos[h] < Len(input[h]) /\ rev' = [rev EXCEPT ![h] = input[h][pos[h] + 1]]
    <3>1. input[h] \in Seq(Line) /\ pos[h] + 1 \in 1 .. Len(input[h])
      BY <2>6 DEF Typed
    <3>2. input[h][pos[h] + 1] \in Line
      BY <3>1
    <3>3. rev' \in [Hook -> Line \cup {"none"}]
      BY <2>6, <3>2 DEF HookTypes
    <3> QED BY <2>3, <2>4, <3>3 DEF HookTypes
  <2> QED BY <1>4, <2>5, <2>6 DEF ReadLine
<1>5. ASSUME NEW h \in Hook, Publish(h) PROVE HookTypes'
  <2>1. UNCHANGED <<input, rev>> /\ step' = [step EXCEPT ![h] = "unwind"]
    BY <1>5 DEF Publish, Return
  <2>2. \E e \in {"ok", "err", "panic"} : ret' = [ret EXCEPT ![h] = e]
    BY <1>5 DEF Publish, Return
  <2>3. step' \in [Hook -> Steps]
    BY <1>0, <2>1 DEF HookTypes
  <2>4. ret' \in [Hook -> {"ok", "err", "panic"}]
    BY <2>2 DEF HookTypes
  <2> QED BY <2>1, <2>3, <2>4 DEF HookTypes
<1>6. ASSUME NEW h \in Hook, Unwind(h) PROVE HookTypes'
  BY <1>0, <1>6 DEF Unwind, NextStep, HookTypes
<1>7. ASSUME NEW h \in Hook, Receive(h) \/ Connect(h) \/ HookKilled(h) PROVE HookTypes'
  <2>1. UNCHANGED <<input, rev>> /\ \E x \in Steps : step' = [step EXCEPT ![h] = x]
    BY <1>0, <1>7 DEF Receive, Connect, HookKilled, Goto, Exit
  <2>2. ret' = ret \/ ret' = [ret EXCEPT ![h] = "err"]
    BY <1>7 DEF Receive, Connect, HookKilled, Goto, Exit
  <2>3. step' \in [Hook -> Steps] /\ ret' \in [Hook -> {"ok", "err", "panic"}]
    BY <2>1, <2>2 DEF HookTypes
  <2> QED BY <2>1, <2>3 DEF HookTypes
<1>8. ASSUME NEW h \in Hook, Leaves(h) PROVE HookTypes'
  <2>1. /\ input' = [input EXCEPT ![h] = <<>>] /\ rev' = [rev EXCEPT ![h] = "none"]
        /\ step' = [step EXCEPT ![h] = "done"] /\ ret' = [ret EXCEPT ![h] = "ok"]
    BY <1>8 DEF Leaves, Leave
  <2>2. \A g \in Hook : Len(input'[g]) <= MaxLines
    BY <2>1, HookAssumption DEF Typed, HookTypes
  <2>3. /\ step' \in [Hook -> Steps] /\ ret' \in [Hook -> {"ok", "err", "panic"}]
        /\ rev' \in [Hook -> Line \cup {"none"}]
    BY <1>0, <2>1 DEF HookTypes
  <2> QED BY <2>2, <2>3 DEF HookTypes
<1> QED
  BY <1>1, <1>2, <1>3, <1>4, <1>5, <1>6, <1>7, <1>8, StepKinds, Zenon

(* ... and of what the build reads and writes. *)
BuildTypes ==
    /\ tmpDir \in [Hook -> Commit \cup {"empty"}] /\ data \in [Hook -> Content]
    /\ procfile \in [Hook -> Commit] /\ tgz \in Content \cup {"gone"}
    /\ stored \in [Sha -> Content]
    /\ pod \in [Hook -> Phase \cup {"deleted"}] /\ cache \in [Hook -> Phase]
    /\ image \in [Hook -> Content]
    /\ releases \subseteq Release

LEMMA StepBuildTypes == Typed /\ RevInv /\ BuildTypes /\ [Next]_vars => BuildTypes'
<1> SUFFICES ASSUME Typed, RevInv, BuildTypes, [Next]_vars PROVE BuildTypes'
  OBVIOUS
<1>0. /\ Sha \subseteq Commit /\ "none" \in Commit
      /\ Commit \subseteq Content /\ "broken" \in Content /\ Phase \subseteq Phase \cup {"deleted"}
      /\ {"none", "Pending", "Running", "Succeeded", "Failed"} \subseteq Phase
  BY DEF Commit, Content, Phase
<1>1. ASSUME NEW h \in Hook, MkdirTemp(h) PROVE BuildTypes'
  <2>1. tmpDir' = tmpDir \/ \E x \in Commit \cup {"empty"} : tmpDir' = [tmpDir EXCEPT ![h] = x]
    BY <1>0, <1>1 DEF MkdirTemp
  <2>2. tmpDir' \in [Hook -> Commit \cup {"empty"}]
    BY <2>1 DEF BuildTypes
  <2>3. UNCHANGED <<data, procfile, tgz, stored, pod, codes, image, cache, releases>>
    BY <1>1 DEF MkdirTemp, jobVars
  <2> QED BY <2>2, <2>3 DEF BuildTypes
<1>2. ASSUME NEW h \in Hook, Untar(h) PROVE BuildTypes'
  <2>1. tmpDir' = tmpDir \/ \E x \in Commit \cup {"empty"} : tmpDir' = [tmpDir EXCEPT ![h] = x]
    BY <1>0, <1>2 DEF Untar
  <2>2. tmpDir' \in [Hook -> Commit \cup {"empty"}]
    BY <2>1 DEF BuildTypes
  <2>3. UNCHANGED <<data, procfile, tgz, stored, pod, codes, image, cache, releases>>
    BY <1>2 DEF Untar, jobVars
  <2> QED BY <2>2, <2>3 DEF BuildTypes
<1>3. ASSUME NEW h \in Hook, ReadTgz(h) PROVE BuildTypes'
  <2>1. data' = data \/ \E x \in Content : data' = [data EXCEPT ![h] = x]
    BY <1>0, <1>3 DEF ReadTgz
  <2>2. data' \in [Hook -> Content]
    BY <2>1 DEF BuildTypes
  <2>3. UNCHANGED <<tmpDir, procfile, tgz, stored, pod, codes, image, cache, releases>>
    BY <1>3 DEF ReadTgz, jobVars
  <2> QED BY <2>2, <2>3 DEF BuildTypes
<1>4. ASSUME NEW h \in Hook, PutContent(h) PROVE BuildTypes'
  <2>1. stored' = stored \/ \E x \in Content : stored' = [stored EXCEPT ![rev[h]] = x]
    BY <1>0, <1>4 DEF BuildTypes, PutContent
  <2>2. stored' \in [Sha -> Content]
    BY <2>1 DEF BuildTypes
  <2>3. UNCHANGED <<tmpDir, data, procfile, tgz, pod, codes, image, cache, releases>>
    BY <1>4 DEF PutContent, jobVars
  <2> QED BY <2>2, <2>3 DEF BuildTypes
<1>5. ASSUME NEW h \in Hook, ReadFiles(h) PROVE BuildTypes'
  <2>1. procfile' = procfile \/ \E x \in Commit : procfile' = [procfile EXCEPT ![h] = x]
    BY <1>0, <1>5 DEF BuildTypes, ReadFiles, getProcfile
  <2>2. procfile' \in [Hook -> Commit]
    BY <2>1 DEF BuildTypes
  <2>3. UNCHANGED <<tmpDir, data, tgz, stored, pod, codes, image, cache, releases>>
    BY <1>5 DEF ReadFiles, jobVars
  <2> QED BY <2>2, <2>3 DEF BuildTypes
<1>6. ASSUME NEW h \in Hook, Unwind(h) PROVE BuildTypes'
  <2>1. tmpDir' = tmpDir \/ \E x \in Commit \cup {"empty"} : tmpDir' = [tmpDir EXCEPT ![h] = x]
    BY <1>0, <1>6 DEF Unwind
  <2>2. tmpDir' \in [Hook -> Commit \cup {"empty"}]
    BY <2>1 DEF BuildTypes
  <2>3. UNCHANGED <<data, procfile, tgz, stored, pod, codes, image, cache, releases>>
    BY <1>6 DEF Unwind, jobVars
  <2> QED BY <2>2, <2>3 DEF BuildTypes
<1>7. ASSUME NEW h \in Hook, CreateJob(h) PROVE BuildTypes'
  <2>1. UNCHANGED <<tmpDir, data, procfile, tgz, stored, releases>>
    BY <1>7 DEF CreateJob
  <2>2. CASE UNCHANGED jobVars
    BY <2>1, <2>2 DEF BuildTypes, jobVars
  <2>3. CASE buildJob(h)
    <3>1. pod' \in [Hook -> Phase \cup {"deleted"}]
      BY <1>0, <2>3 DEF buildJob, BuildTypes
    <3>2. image' \in [Hook -> Content]
      BY <1>0, <2>3 DEF buildJob, BuildTypes
    <3>3. cache' \in [Hook -> Phase]
      BY <1>0, <2>3 DEF buildJob, BuildTypes
    <3> QED BY <2>1, <3>1, <3>2, <3>3 DEF BuildTypes
  <2> QED BY <1>7, <2>2, <2>3 DEF CreateJob
<1>20. RemoveAll => /\ tmpDir' \in [Hook -> Commit \cup {"empty"}]
                    /\ tgz' \in Content \cup {"gone"}
  <2>1. RemoveAll => tmpDir' \in [Hook -> Commit \cup {"empty"}]
    BY <1>0 DEF RemoveAll, BuildTypes
  <2>2. RemoveAll => tgz' \in Content \cup {"gone"}
    BY <1>0 DEF RemoveAll, BuildTypes
  <2> QED BY <2>1, <2>2
<1>10. ASSUME NEW h \in Hook, RemoveRepo(h) \/ ReceiveEnds(h) PROVE BuildTypes'
  <2>1. /\ tmpDir' \in [Hook -> Commit \cup {"empty"}] /\ tgz' \in Content \cup {"gone"}
        /\ Leave(h) /\ UNCHANGED <<stored, releases>>
    BY <1>10, <1>20 DEF RemoveRepo, ReceiveEnds, BuildTypes
  <2>2. data' \in [Hook -> Content] /\ procfile' \in [Hook -> Commit]
    BY <1>0, <2>1 DEF Leave, BuildTypes
  <2>3. pod' \in [Hook -> Phase \cup {"deleted"}] /\ cache' \in [Hook -> Phase]
    BY <1>0, <2>1 DEF Leave, BuildTypes
  <2>4. image' \in [Hook -> Content]
    BY <1>0, <2>1 DEF Leave, BuildTypes
  <2> QED BY <2>1, <2>2, <2>3, <2>4 DEF BuildTypes
<1>11. ASSUME NEW h \in Hook, GitDies(h) PROVE BuildTypes'
  BY <1>11, <1>20 DEF GitDies, jobVars, BuildTypes
<1> USE <1>0 DEF BuildTypes, At, jobVars, hookVars
<1>8. ASSUME NEW h \in Hook, Archive(h) PROVE BuildTypes'
  BY <1>8 DEF Archive, Archivable, Archived
<1>9. ASSUME NEW h \in Hook, Publish(h) PROVE BuildTypes'
  BY <1>9 DEF Publish, TheRelease, Release, Typed, RevInv, Building
<1>12. ASSUME NEW h \in Hook, Receive(h) \/ Start(h) \/ Connect(h) \/ ReadLine(h) \/ HookKilled(h)
       PROVE  BuildTypes'
  BY <1>12 DEF Receive, Start, Connect, ReadLine, HookKilled
<1>13. ASSUME NEW h \in Hook, Quiet(h) PROVE BuildTypes'
  BY <1>13 DEF Quiet
<1>14. ASSUME NEW h \in Hook, PodRuns(h) PROVE BuildTypes'
  BY <1>14 DEF PodRuns, RevInv
<1>15. ASSUME NEW h \in Hook, PodSucceeds(h) PROVE BuildTypes'
  BY <1>15 DEF PodSucceeds
<1>16. ASSUME NEW h \in Hook, PodFails(h) PROVE BuildTypes'
  BY <1>16 DEF PodFails
<1>17. ASSUME NEW h \in Hook, PodDeleted(h) PROVE BuildTypes'
  BY <1>17 DEF PodDeleted
<1>18. ASSUME NEW h \in Hook, CacheSync(h) PROVE BuildTypes'
  BY <1>18 DEF CacheSync
<1>19. CASE AllDone \/ UNCHANGED vars
  BY <1>19 DEF AllDone, vars
<1> QED
  BY <1>1, <1>2, <1>3, <1>4, <1>5, <1>6, <1>7, <1>8, <1>9,
     <1>10, <1>11, <1>12, <1>13, <1>14, <1>15, <1>16, <1>17, <1>18, <1>19,
     HookKinds, Zenon DEF Next, PodStep

(* The inductive invariant of the hooks.                                   *)
HookInv == Typed /\ PodInv /\ RevInv /\ AcceptInv /\ HookTypes /\ BuildTypes

(* It holds at the start, and every step preserves it.                     *)
LEMMA HookInit == Init => HookInv
  BY HookAssumption
     DEF Init, HookInv, Typed, PodInv, AcceptInv, Accepts, Succeeded, RevInv, HookTypes,
         BuildTypes, Steps, Current, Building, JobMade, Commit, Content, Phase, Codes, Line

LEMMA StepHookInv == HookInv /\ [Next]_vars => HookInv'
  BY StepTyped, StepPodInv, StepRevInv, StepAcceptInv, StepHookTypes, StepBuildTypes, Zenon
     DEF HookInv

(* It has the types in it.                                                 *)
LEMMA HookTyped == HookInv => TypeOK
  BY SMTT(20) DEF HookInv, Typed, AcceptInv, Accepts, HookTypes, BuildTypes, Steps, Current, TypeOK

(* Type correctness: a release is of a commit, a pod's image one of the    *)
(* store's, and no hook reads past its input (build.go, run.go:34-50).     *)
THEOREM HookTypeCorrect == SafetySpec => []TypeOK
  BY HookInit, StepHookInv, HookTyped, PTL DEF SafetySpec

(* The push has set out: from Receive's first step, before there is a      *)
(* hook, to the end of the hook or of Receive, whichever is later.         *)
Active(h) == step[h] \notin {"new", "done"}

(* A step of the push h. *)
PushStep(h) ==
    \/ Start(h) \/ ReceiveEnds(h) \/ HookStep(h) \/ LogBreaks(h) \/ HookKilled(h)
    \/ GitDies(h)

(* How a step of the push h changes where the pushes are.                  *)
Moves(h) ==
    /\ Active(h)
    /\ step'[h] # "new"
    /\ \A g \in Hook : g # h => step'[g] = step[g]

(* Every step of an active push moves that push only.                      *)
LEMMA HookMoves ==
    ASSUME Typed, NEW h \in Hook, PushStep(h)
    PROVE  Moves(h)
<1> USE DEF Typed, Moves, Active
<1>1. CASE Works(h)
  BY <1>1 DEF Works, Advances, Fails, Current
<1>2. CASE Connect(h) \/ ReadLine(h) \/ Start(h) \/ HookKilled(h)
  BY <1>2 DEF Connect, ReadLine, Start, HookKilled, Runs, At, Goto, Exit
<1>3. CASE Publish(h) \/ Unwind(h)
  BY <1>3 DEF Publish, Unwind, NextStep, At, Goto, Return
<1>4. CASE RemoveRepo(h) \/ ReceiveEnds(h)
  BY <1>4 DEF RemoveRepo, ReceiveEnds, Leave, At
<1>5. CASE GitDies(h)
  BY <1>5 DEF GitDies, Runs
<1> QED BY <1>1, <1>2, <1>3, <1>4, <1>5, HookKinds, Zenon DEF PushStep

(* The commit a hook builds is the one in its archive, its temporary       *)
(* directory, its memory, the store, the image and the Procfile, each from *)
(* the step on at which the hook has written or read it.  When its git     *)
(* died the archive and the directory may be gone instead.                 *)
Clean(h) ==
    /\ step[h] \in Building => rev[h] \in Sha
    /\ step[h] \in {"untar", "readTgz"} =>
          tgz = rev[h] \/ (died[h] /\ tgz \in {"gone", "none"})
    /\ step[h] \in Building \ {"untar"} =>
          tmpDir[h] = rev[h] \/ (died[h] /\ tmpDir[h] = "none")
    /\ step[h] = "upload" => data[h] = rev[h]
    /\ step[h] \in JobMade \cup {"createJob"} => stored[rev[h]] = rev[h]
    /\ step[h] \in JobMade /\ (pod[h] = "Running" \/ codes[h] = "zero") => image[h] = rev[h]
    /\ step[h] = "publish" => procfile[h] = rev[h] \/ (died[h] /\ procfile[h] = "none")

(* A hook that has no archive of its line yet, or is through with the      *)
(* line, has nothing to keep clean.                                        *)
LEMMA IdleIsClean ==
    ASSUME NEW h \in Hook, step'[h] \notin Building
    PROVE  Clean(h)'
BY Zenon DEF Clean, Building, JobMade

(* A push's own steps keep it clean (build.go:105-135, 250-264).           *)
LEMMA HookStepClean ==
    ASSUME HookInv, NEW h \in Hook, PushStep(h), Clean(h)
    PROVE  Clean(h)'
<1>0. /\ Typed /\ DOMAIN tmpDir = Hook /\ DOMAIN data = Hook /\ DOMAIN procfile = Hook
      /\ DOMAIN image = Hook /\ DOMAIN stored = Sha /\ DOMAIN died = Hook
  BY DEF HookInv, BuildTypes, HookTypes
<1>1. CASE \/ Start(h) \/ ReceiveEnds(h) \/ HookKilled(h) \/ Connect(h) \/ MkdirTemp(h)
           \/ ReadLine(h) \/ Publish(h) \/ Unwind(h) \/ RemoveRepo(h)
  <2>1. CASE Start(h) \/ ReceiveEnds(h) \/ HookKilled(h) \/ Connect(h) \/ RemoveRepo(h)
    <3>1. \E t \in {"connect", "read", "exit", "done"} : step' = [step EXCEPT ![h] = t]
      BY <2>1, Zenon
         DEF Start, ReceiveEnds, HookKilled, Connect, RemoveRepo, Leave, Goto, Exit
    <3>2. step'[h] \notin Building
      BY <1>0, <3>1 DEF Typed, Building
    <3> QED BY <3>2, IdleIsClean, Zenon
  <2>2. CASE MkdirTemp(h) \/ ReadLine(h) \/ Publish(h) \/ Unwind(h)
    <3>1. step'[h] \notin Building
      BY <1>0, <2>2 DEF MkdirTemp, ReadLine, Publish, Unwind, NextStep, Goto, Return, Exit,
                        Typed, Building
    <3> QED BY <3>1, IdleIsClean, Zenon
  <2> QED BY <1>1, <2>1, <2>2
<1> USE HookAssumption, <1>0
    DEF Typed, Clean, Building, JobMade, BadLine, At, Goto, Return, jobVars
<1>2. CASE Quiet(h)
  BY <1>2, Zenon DEF Quiet, Fails, Current
<1>3. CASE Archive(h)
  BY <1>3 DEF Archive, Archivable, Archived
<1>4. CASE Untar(h)
  BY <1>4 DEF Untar
<1>5. CASE ReadTgz(h)
  BY <1>5 DEF ReadTgz
<1>6. CASE PutContent(h)
  BY <1>6 DEF PutContent
<1>7. CASE CreateJob(h)
  BY <1>7 DEF CreateJob, buildJob
<1>8. CASE ReadFiles(h)
  BY <1>8 DEF ReadFiles, getProcfile
<1>9. CASE GitDies(h)
  <2>1. /\ died'[h] /\ UNCHANGED <<rev, step, data, procfile, stored, pod, codes, image>>
        /\ tgz' = tgz \/ tgz' \in {"gone", "none"}
        /\ tmpDir'[h] = tmpDir[h] \/ tmpDir'[h] = "none"
    BY <1>9 DEF GitDies, RemoveAll
  <2> QED BY <2>1
<1> QED
  BY <1>1, <1>2, <1>3, <1>4, <1>5, <1>6, <1>7, <1>8, <1>9, HookKinds, Zenon DEF PushStep

(* Pods and informers keep every hook clean: a pod builds what the store   *)
(* holds for its hook's commit.                                            *)
LEMMA PodStepClean ==
    ASSUME HookInv, NEW h \in Hook, PodStep(h) \/ PodDeleted(h) \/ CacheSync(h),
           NEW g \in Hook, Clean(g)
    PROVE  Clean(g)'
<1>0. DOMAIN image = Hook /\ DOMAIN pod = Hook /\ DOMAIN codes = Hook
  BY DEF HookInv, BuildTypes, Typed
<1>1. UNCHANGED <<rev, step, died, tmpDir, data, procfile, tgz, stored>>
  BY Zenon DEF PodStep, PodRuns, PodSucceeds, PodFails, PodDeleted, CacheSync, hookVars
<1> DEFINE Made == pod[g] = "Running" \/ codes[g] = "zero"
<1>2. Made' => (Made /\ image'[g] = image[g]) \/ image'[g] = stored[rev[g]]
  <2>1. CASE PodRuns(h)
    BY <1>0, <2>1 DEF PodRuns
  <2>2. CASE PodSucceeds(h)
    BY <1>0, <2>2 DEF PodSucceeds
  <2>3. CASE PodFails(h)
    BY <1>0, <2>3 DEF PodFails
  <2>4. CASE PodDeleted(h) \/ CacheSync(h)
    BY <1>0, <2>4 DEF PodDeleted, CacheSync
  <2> QED BY <2>1, <2>2, <2>3, <2>4, Zenon DEF PodStep
<1>3. step[g] \in JobMade /\ Made' => image'[g] = rev[g]
  BY <1>2 DEF Clean
<1> QED BY <1>1, <1>3, Zenon DEF Clean

(* All hooks are clean, and so are the releases.                           *)
AllClean == (\A h \in Hook : Clean(h)) /\ ReleaseMatchesCommit

(* No two pushes are at work in the repository's directory: neither their  *)
(* hooks nor the Receives around them, which also remove it.               *)
AloneInDir == \A g, h \in Hook : Active(g) /\ Active(h) => g = h

(* Releases of one commit stay so, whatever git does next. *)
LEMMA MatchStays ==
    ASSUME HookInv, [Next]_vars, ReleaseMatchesCommit, releases' = releases
    PROVE  ReleaseMatchesCommit'
<1>1. \A x \in releases : x.hook \in Hook
  BY DEF HookInv, BuildTypes, Release
<1>2. \A g \in Hook : died[g] => died'[g]
  BY DiedKinds DEF HookInv, HookTypes
<1> QED BY <1>1, <1>2 DEF ReleaseMatchesCommit

(* An active push that is alone disturbs no other: not by writing the      *)
(* archive, nor by removing the directory. *)
LEMMA StepAllClean ==
    ASSUME HookInv, AllClean, AloneInDir, [Next]_vars
    PROVE  AllClean'
<1>1. ASSUME NEW h \in Hook, PushStep(h) PROVE AllClean'
  <2>1. Moves(h) /\ Clean(h)'
    BY <1>1, HookMoves, HookStepClean DEF AllClean, HookInv
  <2>2. ASSUME NEW g \in Hook, g # h PROVE Clean(g)'
    <3>1. ~Active(g)
      BY <2>1, <2>2 DEF Moves, AloneInDir
    <3>2. step'[g] \in {"new", "done"}
      BY <2>1, <2>2, <3>1 DEF Moves, Active
    <3> QED BY <3>2 DEF Clean, Building, JobMade
  <2>3. CASE Publish(h)
    <3>1. releases' \subseteq releases \cup {TheRelease(h)} /\ died' = died
      BY <2>3 DEF Publish
    <3>2. /\ \/ TheRelease(h).procfile = TheRelease(h).sha
             \/ died[TheRelease(h).hook] /\ TheRelease(h).procfile = "none"
          /\ TheRelease(h).codes = "zero" => TheRelease(h).image = TheRelease(h).sha
      BY <2>3, Zenon DEF Publish, At, TheRelease, AllClean, Clean, JobMade
    <3>3. ReleaseMatchesCommit'
      BY <3>1, <3>2 DEF AllClean, ReleaseMatchesCommit
    <3> QED BY <2>1, <2>2, <3>3 DEF AllClean
  <2>4. CASE releases' = releases
    BY <2>1, <2>2, <2>4, MatchStays DEF AllClean
  <2>5. Publish(h) \/ releases' = releases
    BY <1>1, HookKinds, Zenon
       DEF PushStep, Works, Start, ReceiveEnds, Connect, ReadLine, Unwind, RemoveRepo,
           HookKilled, GitDies
  <2> QED BY <2>3, <2>4, <2>5
<1>2. ASSUME NEW h \in Hook, PodStep(h) \/ PodDeleted(h) \/ CacheSync(h) PROVE AllClean'
  <2>1. releases' = releases
    BY <1>2, PodKinds DEF Rests
  <2> QED
    BY <1>2, <2>1, PodStepClean, MatchStays DEF AllClean
<1>3. ASSUME NEW h \in Hook, Receive(h) PROVE AllClean'
  <2>1. releases' = releases
    BY <1>3 DEF Receive
  <2>2. \A g \in Hook : Clean(g)'
    <3>1. step'[h] \notin Building
      BY <1>3 DEF Receive, At, Goto, HookInv, Typed, Building
    <3>2. ASSUME NEW g \in Hook, g # h PROVE Clean(g)'
      <4>1. /\ UNCHANGED <<rev, died, tmpDir, data, procfile, stored, pod, codes, image>>
            /\ step'[g] = step[g] /\ Clean(g)
            /\ tgz' = tgz \/ (tgz = "gone" /\ tgz' = "none")
        BY <1>3, <3>2 DEF Receive, At, Goto, HookInv, Typed, jobVars, AllClean
      <4>2. step[g] \in {"untar", "readTgz"} /\ tgz = rev[g] => tgz # "gone"
        BY <4>1, HookAssumption DEF Clean, Building
      <4> QED BY <4>1, <4>2, Zenon DEF Clean
    <3> QED BY <3>1, <3>2, IdleIsClean, Zenon
  <2> QED BY <2>1, <2>2, MatchStays DEF AllClean
<1>4. CASE UNCHANGED vars
  BY <1>4 DEF vars, AllClean, ReleaseMatchesCommit, Clean
<1> QED
  BY <1>1, <1>2, <1>3, <1>4 DEF Next, AllDone, PushStep

(* Pushes that follow one another in the directory, with any number of     *)
(* lines each, publish releases of one commit each, however the pods, the  *)
(* informers and the log behave, and however a Receive or its git ends     *)
(* (git.go:55-61, build.go:105-135, 250-264).                              *)
THEOREM SerialReleasesMatch == SafetySpec /\ []AloneInDir => []ReleaseMatchesCommit
<1>1. Init => HookInv /\ AllClean
  BY HookInit DEF Init, AllClean, Clean, Building, JobMade, ReleaseMatchesCommit
<1>2. HookInv /\ AllClean /\ AloneInDir /\ [Next]_vars => HookInv' /\ AllClean'
  BY StepHookInv, StepAllClean
<1>3. AllClean => ReleaseMatchesCommit
  BY DEF AllClean
<1> QED
  BY <1>1, <1>2, <1>3, PTL DEF SafetySpec

(* In particular one push alone does, for any commits and lines. *)
THEOREM OneHookReleasesMatch ==
    ASSUME \A g, h \in Hook : g = h
    PROVE  SafetySpec => []ReleaseMatchesCommit
<1>1. AloneInDir
  BY DEF AloneInDir
<1> QED
  BY <1>1, SerialReleasesMatch, PTL
=============================================================================
