----------------------------- MODULE BuildHook -----------------------------
(***************************************************************************)
(* pkg/gitreceive: the pre-receive hook "boot git-receive".  It reads the  *)
(* ref updates of a push and for each one archives the commit, stores the  *)
(* archive, has a Kubernetes job build the image, follows the job's pod    *)
(* through an informer's cache and its log, and publishes a release.       *)
(*                                                                         *)
(* Hooks of one application share the repository's directory, and in it    *)
(* the archive <app>.tar.gz; the Receive around each hook (git.go) makes   *)
(* that directory and removes it.  Beside them move the pods, the          *)
(* informers' caches (which lag behind) and the time limits of the waits.  *)
(***************************************************************************)
EXTENDS Naturals, Sequences

CONSTANTS Hook,         \* git-receive processes of one application
          Sha,          \* the commits pushed
          MaxLines      \* the most ref updates in one push

(* Lines that are no commit to build: not three fields; not 40 hex digits; *)
(* and the zero id of a deleted ref, which passes for a commit id.         *)
BadLine == {"malformed", "notSha", "zero"}

ASSUME HookAssumption ==
    /\ Sha \cap (BadLine \cup {"none", "gone", "broken", "empty"}) = {}
    /\ MaxLines \in Nat \ {0}

VARIABLES
    input,    \* input[h]: the lines of standard input
    pos,      \* pos[h]: how many of them were read
    rev,      \* rev[h]: newRev, the argument of build
    step,     \* step[h]: where the hook, and Receive around it, is
    died,     \* died[h]: git, and then Receive, ended before the hook
    ret,      \* ret[h]: what build returns once its deferred calls ran
    tmpDir,   \* tmpDir[h]: the commit unpacked in build's temporary
              \* directory; "empty" before that, "none" without it
    data,     \* data[h]: the archive read into memory
    procfile, \* procfile[h]: the commit whose Procfile was read
    tgz,      \* what <app>.tar.gz holds, "gone" without a repository
    stored,   \* stored[s]: the commit the object of key s holds
    pod,      \* pod[h]: phase of the job's pod
    codes,    \* codes[h]: what its container statuses say
    image,    \* image[h]: the commit the pod builds
    cache,    \* cache[h]: the phase the informer last saw
    releases  \* the releases the controller made

vars == <<input, pos, rev, step, died, ret, tmpDir, data, procfile, tgz, stored, pod,
          codes, image, cache, releases>>
jobVars == <<pod, codes, image, cache>>

Line == Sha \cup BadLine
Phase == {"none", "Pending", "Running", "Succeeded", "Failed"}
Codes == {"none", "zero", "nonzero", "unterminated", "missing"}
Commit == Sha \cup {"none"}
Content == Commit \cup {"broken"}    \* of an archive: "broken" is cut short
Release == [hook : Hook, sha : Sha, image : Content, procfile : Commit, codes : Codes]

TypeOK ==
    /\ input \in [Hook -> Seq(Line)] /\ \A h \in Hook : Len(input[h]) <= MaxLines
    /\ pos \in [Hook -> Nat] /\ \A h \in Hook : pos[h] <= Len(input[h])
    /\ rev \in [Hook -> Line \cup {"none"}]
    /\ step \in [Hook -> {"new", "receive", "connect", "read", "sha", "mktemp", "config",
                          "archive", "untar", "readTgz", "upload", "createJob", "waitPod",
                          "listPods", "logs", "waitEnd", "status", "files", "publish",
                          "unwind", "exit", "done"}]
    /\ died \in [Hook -> BOOLEAN]
    /\ ret \in [Hook -> {"ok", "err", "panic"}]
    /\ tmpDir \in [Hook -> Commit \cup {"empty"}] /\ data \in [Hook -> Content]
    /\ procfile \in [Hook -> Commit] /\ tgz \in Content \cup {"gone"}
    /\ stored \in [Sha -> Content]
    /\ pod \in [Hook -> Phase \cup {"deleted"}] /\ cache \in [Hook -> Phase]
    /\ codes \in [Hook -> Codes] /\ image \in [Hook -> Content]
    /\ releases \subseteq Release

Init ==
    /\ input = [h \in Hook |-> <<>>] /\ pos = [h \in Hook |-> 0]
    /\ rev = [h \in Hook |-> "none"]
    /\ step = [h \in Hook |-> "new"] /\ died = [h \in Hook |-> FALSE]
    /\ ret = [h \in Hook |-> "ok"]
    /\ tmpDir = [h \in Hook |-> "none"] /\ data = [h \in Hook |-> "none"]
    /\ procfile = [h \in Hook |-> "none"] /\ tgz = "gone"
    /\ stored = [s \in Sha |-> "none"]
    /\ pod = [h \in Hook |-> "none"] /\ codes = [h \in Hook |-> "none"]
    /\ image = [h \in Hook |-> "none"] /\ cache = [h \in Hook |-> "none"]
    /\ releases = {}

(* The informer runs, until the deferred close(stopCh). *)
Watching(h) == step[h] \in {"waitPod", "listPods", "logs", "waitEnd", "status", "files",
                            "publish"}

-----------------------------------------------------------------------------
(* The hook moves from step s to step t; it leaves build with e. *)
At(h, s) == step[h] = s
Goto(h, t) == step' = [step EXCEPT ![h] = t] /\ UNCHANGED ret
Return(h, e) ==
    /\ step' = [step EXCEPT ![h] = "unwind"]
    /\ ret' = [ret EXCEPT ![h] = e]

(* The process ends with e. *)
Exit(h, e) ==
    /\ step' = [step EXCEPT ![h] = "exit"]
    /\ ret' = [ret EXCEPT ![h] = e]

(* A call with no effect the model keeps: on to t, or out with its error. *)
Try(h, s, t) ==
    /\ At(h, s)
    /\ Goto(h, t) \/ Return(h, "err")
    /\ UNCHANGED <<input, pos, rev, died, tmpDir, data, procfile, tgz, stored, jobVars, releases>>

(* Receive's deferred os.RemoveAll takes the directory away, whoever works *)
(* in it, or a part of it: its error is dropped.                           *)
RemoveAll ==
    /\ tgz' \in {tgz, "gone"} \/ (tgz # "gone" /\ tgz' = "none")
    /\ \E kept \in SUBSET Hook :
          tmpDir' = [g \in Hook |-> IF g \in kept THEN tmpDir[g] ELSE "none"]

(* The push is over: its processes are gone with all they knew, and nobody *)
(* looks at its job any more.                                              *)
Leave(h) ==
    /\ step' = [step EXCEPT ![h] = "done"] /\ ret' = [ret EXCEPT ![h] = "ok"]
    /\ input' = [input EXCEPT ![h] = <<>>] /\ pos' = [pos EXCEPT ![h] = 0]
    /\ rev' = [rev EXCEPT ![h] = "none"] /\ data' = [data EXCEPT ![h] = "none"]
    /\ procfile' = [procfile EXCEPT ![h] = "none"]
    /\ pod' = [pod EXCEPT ![h] = "none"] /\ codes' = [codes EXCEPT ![h] = "none"]
    /\ image' = [image EXCEPT ![h] = "none"] /\ cache' = [cache EXCEPT ![h] = "none"]

(* Receive sets out: it makes a repository unless there is something in    *)
(* its place, a repository or not.                                         *)
Receive(h) ==
    /\ At(h, "new")
    /\ tgz' = tgz \/ (tgz = "gone" /\ tgz' = "none")
    /\ Goto(h, "receive")
    /\ UNCHANGED <<input, pos, rev, died, tmpDir, data, procfile, stored, jobVars, releases>>

(* git starts the hook of a push of up to MaxLines refs. *)
Start(h) ==
    /\ At(h, "receive")
    /\ tgz # "gone"
    /\ \E n \in 1 .. MaxLines : \E ls \in [1 .. n -> Line] : input' = [input EXCEPT ![h] = ls]
    /\ Goto(h, "connect")
    /\ UNCHANGED <<pos, rev, died, tmpDir, data, procfile, tgz, stored, jobVars, releases>>

(* Receive ends without it: it failed on the way, or there were no refs. *)
ReceiveEnds(h) ==
    /\ At(h, "receive")
    /\ RemoveAll
    /\ Leave(h)
    /\ UNCHANGED <<died, stored, releases>>

(* The hook's configuration, storage driver and Kubernetes client. *)
Connect(h) ==
    /\ At(h, "connect")
    /\ Goto(h, "read") \/ Exit(h, "err")
    /\ UNCHANGED <<input, pos, rev, died, tmpDir, data, procfile, tgz, stored, jobVars, releases>>

(* Run's loop: the next line, or the end of the input.  The prefix test    *)
(* passes: git runs a pre-receive hook for git-receive-pack only.          *)
ReadLine(h) ==
    /\ At(h, "read")
    /\ \/ /\ pos[h] = Len(input[h])
          /\ Exit(h, "ok") \/ Exit(h, "err")
          /\ UNCHANGED <<pos, rev>>
       \/ /\ pos[h] < Len(input[h])
          /\ pos' = [pos EXCEPT ![h] = pos[h] + 1]
          /\ rev' = [rev EXCEPT ![h] = input[h][pos[h] + 1]]
          /\ IF rev'[h] = "malformed" THEN Exit(h, "err") ELSE Goto(h, "sha")
    /\ UNCHANGED <<input, died, tmpDir, data, procfile, tgz, stored, jobVars, releases>>

(* git.NewSha.  Commits stand for their Short() ids, which name them       *)
(* further on: two with the same first eight digits are one here.          *)
NewSha(h) ==
    /\ At(h, "sha")
    /\ IF rev[h] = "notSha" THEN Return(h, "err") ELSE Goto(h, "mktemp")
    /\ UNCHANGED <<input, pos, rev, died, tmpDir, data, procfile, tgz, stored, jobVars, releases>>

(* The build directory, made again if need be, and in it the temporary     *)
(* directory.                                                              *)
MkdirTemp(h) ==
    /\ At(h, "mktemp")
    /\ \/ Goto(h, "config") /\ tmpDir' = [tmpDir EXCEPT ![h] = "empty"]
       \/ Return(h, "err") /\ UNCHANGED tmpDir
    /\ UNCHANGED <<input, pos, rev, died, data, procfile, tgz, stored, jobVars, releases>>

(* controller.New and GetAppConfig. *)
GetAppConfig(h) == Try(h, "config", "archive")

(* Mutation: the exit code of git archive is not looked at. *)
ArchivableAnything(h) == tgz # "gone"

(* git archive finds the repository, and the commit in it. *)
Archivable(h) == tgz # "gone" /\ rev[h] \in Sha

(* Mutation: an archive that is there is kept. *)
ArchivedOnce(h) == IF tgz = "none" THEN rev[h] ELSE tgz

(* The commit --output=<app>.tar.gz then holds. *)
Archived(h) == rev[h]

(* git archive writes <app>.tar.gz; it fails for what is no commit, and    *)
(* then the file may be there in part.                                     *)
Archive(h) ==
    /\ At(h, "archive")
    /\ \/ Archivable(h) /\ tgz' = Archived(h) /\ Goto(h, "untar")
       \/ Return(h, "err") /\ (UNCHANGED tgz \/ (tgz # "gone" /\ tgz' = "broken"))
    /\ UNCHANGED <<input, pos, rev, died, tmpDir, data, procfile, stored, jobVars, releases>>

(* tar -xzf <app>.tar.gz into the temporary directory; getStack. *)
Untar(h) ==
    /\ At(h, "untar")
    /\ \/ /\ tgz \in Sha /\ tmpDir[h] = "empty"
          /\ Goto(h, "readTgz") /\ tmpDir' = [tmpDir EXCEPT ![h] = tgz]
       \/ Return(h, "err") /\ UNCHANGED tmpDir
    /\ UNCHANGED <<input, pos, rev, died, data, procfile, tgz, stored, jobVars, releases>>

(* os.ReadFile of <app>.tar.gz. *)
ReadTgz(h) ==
    /\ At(h, "readTgz")
    /\ \/ tgz \in Sha \cup {"broken"} /\ Goto(h, "upload") /\ data' = [data EXCEPT ![h] = tgz]
       \/ Return(h, "err") /\ UNCHANGED data
    /\ UNCHANGED <<input, pos, rev, died, tmpDir, procfile, tgz, stored, jobVars, releases>>

(* PutContent under the commit's key. *)
PutContent(h) ==
    /\ At(h, "upload")
    /\ \/ Goto(h, "createJob") /\ stored' = [stored EXCEPT ![rev[h]] = data[h]]
       \/ Return(h, "err") /\ UNCHANGED stored
    /\ UNCHANGED <<input, pos, rev, died, tmpDir, data, procfile, tgz, jobVars, releases>>

(* The job has a name of its own, no retries (BackoffLimit 0) and no       *)
(* restarts: one pod, which the new informer has not seen.                 *)
buildJob(h) ==
    /\ pod'   = [pod EXCEPT ![h] = "Pending"]
    /\ codes' = [codes EXCEPT ![h] = "none"]
    /\ image' = [image EXCEPT ![h] = "none"]
    /\ cache' = [cache EXCEPT ![h] = "none"]

(* Node selector, pull policy, environment and job; then the informer. *)
CreateJob(h) ==
    /\ At(h, "createJob")
    /\ \/ Goto(h, "waitPod") /\ buildJob(h)
       \/ Return(h, "err") /\ UNCHANGED jobVars
    /\ UNCHANGED <<input, pos, rev, died, tmpDir, data, procfile, tgz, stored, releases>>

(* Mutation: the polls go on without a limit. *)
NoTimeLimit(h) == FALSE

(* PollUntilContextTimeout's limit can pass at any moment of the wait. *)
TimeLimit(h) == TRUE

(* One poll of the cache that ends the wait for the pod's start, or the    *)
(* wait's time limit.                                                      *)
WaitForPod(h) ==
    /\ At(h, "waitPod")
    /\ \/ cache[h] \in {"Running", "Succeeded"} /\ Goto(h, "listPods")
       \/ cache[h] = "Failed" /\ Return(h, "err")
       \/ TimeLimit(h) /\ Return(h, "err")
    /\ UNCHANGED <<input, pos, rev, died, tmpDir, data, procfile, tgz, stored, jobVars, releases>>

(* The pods of the job are listed; podList.Items[0] panics when none is    *)
(* left.                                                                   *)
ListPods(h) ==
    /\ At(h, "listPods")
    /\ \/ pod[h] # "deleted" /\ Goto(h, "logs")
       \/ pod[h] = "deleted" /\ Return(h, "panic")
       \/ Return(h, "err")
    /\ UNCHANGED <<input, pos, rev, died, tmpDir, data, procfile, tgz, stored, jobVars, releases>>

PodEnded(h) == pod[h] \in {"Succeeded", "Failed", "deleted"}

(* The log is followed to its end, which is the end of the container.      *)
FollowLog(h) ==
    /\ At(h, "logs")
    /\ PodEnded(h)
    /\ Goto(h, "waitEnd") \/ Return(h, "err")
    /\ UNCHANGED <<input, pos, rev, died, tmpDir, data, procfile, tgz, stored, jobVars, releases>>

(* The log stream breaks while the container runs: cleanly, or not. *)
LogBreaks(h) ==
    /\ At(h, "logs")
    /\ ~PodEnded(h)
    /\ Goto(h, "waitEnd") \/ Return(h, "err")
    /\ UNCHANGED <<input, pos, rev, died, tmpDir, data, procfile, tgz, stored, jobVars, releases>>

(* One poll that ends the wait for the pod's end, or its time limit. *)
WaitForPodEnd(h) ==
    /\ At(h, "waitEnd")
    /\ \/ cache[h] \in {"Succeeded", "Failed"} /\ Goto(h, "status")
       \/ TimeLimit(h) /\ Return(h, "err")
    /\ UNCHANGED <<input, pos, rev, died, tmpDir, data, procfile, tgz, stored, jobVars, releases>>

(* Mutation: a container that did not end with 0 stops nothing. *)
ExitCodeIgnored(h) == FALSE

(* "state.ExitCode != 0" of some container. *)
ExitCodeBad(h) == codes[h] = "nonzero"

(* The pod is fetched and its exit codes read; Terminated is nil for a     *)
(* container that has not ended, and no statuses are no error.             *)
CheckStatus(h) ==
    /\ At(h, "status")
    /\ \/ pod[h] # "deleted" /\ ExitCodeBad(h) /\ Return(h, "err")
       \/ pod[h] # "deleted" /\ codes[h] \in {"none", "unterminated"} /\ Return(h, "panic")
       \/ /\ pod[h] # "deleted"
          /\ ~ExitCodeBad(h) /\ codes[h] \notin {"none", "unterminated"}
          /\ Goto(h, "files")
       \/ Return(h, "err")
    /\ UNCHANGED <<input, pos, rev, died, tmpDir, data, procfile, tgz, stored, jobVars, releases>>

(* getProcfile and getDockerfile: a file that is not there, with its       *)
(* directory or not, is no error.                                          *)
getProcfile(h) == IF tmpDir[h] \in Sha THEN tmpDir[h] ELSE "none"

(* Procfile, Dockerfile and .drycc are read from the temporary directory.  *)
ReadFiles(h) ==
    /\ At(h, "files")
    /\ \/ Goto(h, "publish") /\ procfile' = [procfile EXCEPT ![h] = getProcfile(h)]
       \/ Return(h, "err") /\ UNCHANGED procfile
    /\ UNCHANGED <<input, pos, rev, died, tmpDir, data, tgz, stored, jobVars, releases>>

TheRelease(h) ==
    [hook |-> h, sha |-> rev[h], image |-> image[h], procfile |-> procfile[h],
     codes |-> codes[h]]

(* hooks.CreateBuild: the release is made and reported, or not made, or    *)
(* made while its report is lost.                                          *)
Publish(h) ==
    /\ At(h, "publish")
    /\ \/ Return(h, "ok") /\ releases' = releases \cup {TheRelease(h)}
       \/ Return(h, "err") /\ UNCHANGED releases
       \/ Return(h, "err") /\ releases' = releases \cup {TheRelease(h)}
    /\ UNCHANGED <<input, pos, rev, died, tmpDir, data, procfile, tgz, stored, jobVars>>

(* Mutation: the hook goes on to the next line after an error. *)
NextStepAlways(h) == "read"

(* After build: Run's next line, or out with the error. *)
NextStep(h) == IF ret[h] = "ok" THEN "read" ELSE "exit"

(* build's deferred calls, run on return and on panic; a temporary         *)
(* directory that cannot be removed is only logged.                        *)
Unwind(h) ==
    /\ At(h, "unwind")
    /\ tmpDir' = [tmpDir EXCEPT ![h] = "none"] \/ UNCHANGED tmpDir
    /\ step' = [step EXCEPT ![h] = NextStep(h)]
    /\ UNCHANGED <<input, pos, rev, died, ret, data, procfile, tgz, stored, jobVars, releases>>

(* git receive-pack ends with its hook, and Receive removes the directory, *)
(* unless the two had ended before.                                        *)
RemoveRepo(h) ==
    /\ At(h, "exit")
    /\ IF died[h] THEN UNCHANGED <<tgz, tmpDir>> ELSE RemoveAll
    /\ Leave(h)
    /\ UNCHANGED <<died, stored, releases>>

HookStep(h) ==
    \/ Connect(h) \/ ReadLine(h) \/ NewSha(h) \/ MkdirTemp(h) \/ GetAppConfig(h)
    \/ Archive(h) \/ Untar(h) \/ ReadTgz(h) \/ PutContent(h) \/ CreateJob(h) \/ WaitForPod(h)
    \/ ListPods(h) \/ FollowLog(h) \/ WaitForPodEnd(h) \/ CheckStatus(h)
    \/ ReadFiles(h) \/ Publish(h) \/ Unwind(h) \/ RemoveRepo(h)

(* The hook's process lives. *)
Runs(h) == step[h] \notin {"new", "receive", "exit", "done"}

(* The hook is killed: no deferred call runs. *)
HookKilled(h) ==
    /\ Runs(h)
    /\ Exit(h, "err")
    /\ UNCHANGED <<input, pos, rev, died, tmpDir, data, procfile, tgz, stored, jobVars, releases>>

(* git dies under its hook: Receive removes the directory and returns,     *)
(* while the hook goes on.                                                 *)
GitDies(h) ==
    /\ Runs(h) /\ ~died[h]
    /\ died' = [died EXCEPT ![h] = TRUE]
    /\ RemoveAll
    /\ UNCHANGED <<input, pos, rev, step, ret, data, procfile, stored, jobVars, releases>>

-----------------------------------------------------------------------------
(* The pod's life.  It fetches the stored archive when it runs. *)
hookVars == <<input, pos, rev, step, died, ret, tmpDir, data, procfile, tgz, stored, releases>>

PodRuns(h) ==
    /\ pod[h] = "Pending"
    /\ pod' = [pod EXCEPT ![h] = "Running"]
    /\ image' = [image EXCEPT ![h] = stored[rev[h]]]
    /\ UNCHANGED <<codes, cache, hookVars>>

PodSucceeds(h) ==
    /\ pod[h] = "Running"
    /\ pod' = [pod EXCEPT ![h] = "Succeeded"]
    /\ codes' = [codes EXCEPT ![h] = "zero"]
    /\ UNCHANGED <<image, cache, hookVars>>

(* The container fails, or its node is lost, or the pod is evicted and has *)
(* no container statuses.                                                  *)
PodFails(h) ==
    /\ pod[h] \in {"Pending", "Running"}
    /\ pod' = [pod EXCEPT ![h] = "Failed"]
    /\ \E x \in {"nonzero", "unterminated", "missing"} :
          codes' = [codes EXCEPT ![h] = x]
    /\ UNCHANGED <<image, cache, hookVars>>

(* The job's time to live passes, or somebody deletes it. *)
PodDeleted(h) ==
    /\ pod[h] \notin {"none", "deleted"}
    /\ pod' = [pod EXCEPT ![h] = "deleted"]
    /\ UNCHANGED <<codes, image, cache, hookVars>>

(* The informer catches up, skipping what came in between. *)
CacheSync(h) ==
    /\ Watching(h)
    /\ cache' = [cache EXCEPT ![h] = IF pod[h] = "deleted" THEN "none" ELSE pod[h]]
    /\ UNCHANGED <<pod, codes, image, hookVars>>

PodStep(h) == PodRuns(h) \/ PodSucceeds(h) \/ PodFails(h)

AllDone == (\A h \in Hook : step[h] = "done") /\ UNCHANGED vars

Next ==
    \/ \E h \in Hook :
          \/ Receive(h) \/ Start(h) \/ ReceiveEnds(h)
          \/ HookStep(h) \/ LogBreaks(h) \/ HookKilled(h) \/ GitDies(h)
          \/ PodStep(h) \/ PodDeleted(h) \/ CacheSync(h)
    \/ AllDone

SafetySpec == Init /\ [][Next]_vars

(* The process runs and its waits time out. *)
HookFairness == \A h \in Hook : WF_vars(HookStep(h))

(* A pod that has begun ends. *)
PodFairness == \A h \in Hook : WF_vars(PodStep(h))

Spec == SafetySpec /\ HookFairness /\ PodFairness
HookSpec == SafetySpec /\ HookFairness

-----------------------------------------------------------------------------
(* No release is published for a pod with a container that failed or had   *)
(* not ended (build.go:242-247), however the informer's cache lagged and   *)
(* whether the log broke off or not.  A pod without statuses gets through. *)
NoReleaseOfFailedContainer == \A x \in releases : x.codes \in {"zero", "missing"}

(* A release is made of one commit: its image was built from the commit it *)
(* is named after, and its Procfile read from it (build.go:105-135,        *)
(* 250-264), across the archive, the temporary directory and the storage.  *)
(* Two things are let through: a pod that failed without a status, and a   *)
(* hook whose git died, which may find its temporary directory removed and *)
(* then releases without a Procfile.                                       *)
ReleaseMatchesCommit ==
    \A x \in releases :
        /\ x.procfile = x.sha \/ (died[x.hook] /\ x.procfile = "none")
        /\ x.codes = "zero" => x.image = x.sha

(* The refs a hook is past, and all of them when it exits with 0, were     *)
(* released: an error on any line ends the hook with it (run.go:34-50).    *)
AcceptedMeansReleased ==
    \A h \in Hook : \A n \in 1 .. Len(input[h]) :
        n < pos[h] \/ (step[h] = "exit" /\ ret[h] = "ok") =>
            \E x \in releases : x.hook = h /\ x.sha = input[h][n]

(* The hook ends.  Under Spec it does because its pod does; config.go:51   *)
(* promises it of any pod, "the maximum time to wait for the end of the    *)
(* execution of a Pod", which is the same formula under HookSpec.          *)
HookEnds == \A h \in Hook : step[h] = "connect" ~> step[h] = "exit"
=============================================================================
