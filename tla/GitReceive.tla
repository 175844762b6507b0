----------------------------- MODULE GitReceive -----------------------------
(***************************************************************************)
(* pkg/git/git.go under the push lock, and the part of pkg/sshd/server.go  *)
(* that runs it: answer's git branch, runReceive, Receive, createRepo and  *)
(* createPreReceiveHook.  Per call five actors interleave: the SSH handler *)
(* and the worker of PushLock, the git process the worker starts, the      *)
(* pre-receive hook git starts, and the client at the other end of the     *)
(* channel.  A hook may outlive its git, and then Receive.                 *)
(*                                                                         *)
(* A repository's directory is the set of its parts that exist: its root,  *)
(* what "git init" makes ("git", with the "hooks" directory), and a        *)
(* complete, executable pre-receive "hook".                                *)
(***************************************************************************)
CONSTANTS Call, Repo, NoRepo,
          Request,       \* the <<call, repository, operation>> clients ask for
          NoCall,        \* createLock is free
          MayTimeout     \* an operation can outlast the lock's timeout

ASSUME NoCallAssumption == NoCall \notin Call
ASSUME ReceiveRepoAssumption == NoRepo \notin Repo
ASSUME MayTimeoutAssumption == MayTimeout \in BOOLEAN

VARIABLES dataMap, repo, caller, timer, worker, doneCh, fnErr, result,  \* PushLock
    op,          \* op[c]: the command of the exec request
    stage,       \* stage[c]: where the worker is inside fn
    ret,         \* ret[c]: what Receive returns once its deferred call ran
    createLock,  \* the package-wide mutex: the call that holds it
    tree,        \* tree[r]: the parts of r's directory that exist
    proc,        \* proc[c]: the git-shell child
    hook,        \* hook[c]: its pre-receive hook, "boot git-receive"
    moved,       \* moved[c]: git moved the refs, and told the client
    channel,     \* channel[c]: the SSH channel, as the worker reads it
    sent,        \* sent[c]: the client has sent all that git will read
    status,      \* status[c]: the exit-status the client was sent
    leftover,    \* history: directories a failed RemoveAll, or a hook that
                 \* outlived Receive, left behind
    overran      \* history: repositories with a worker the lock gave up on

lockVars == <<dataMap, repo, caller, timer, worker, doneCh, fnErr, result>>
gitVars == <<proc, hook, moved>>
chanVars == <<channel, sent, status>>
recvVars == <<op, stage, ret, createLock, tree, gitVars, chanVars, leftover>>
vars == <<lockVars, recvVars, overran>>

Lock == INSTANCE PushLock

Operation == {"git-receive-pack", "git-upload-pack"}
Part == {"root", "git", "hooks", "hook"}

TypeOK ==
    /\ Lock!TypeOK
    /\ op \in [Call -> Operation \cup {"none"}]
    /\ stage \in [Call -> {"none", "enter", "stat", "mkdir", "init", "hook", "chmod",
                           "start", "copy", "wait", "remove", "removing"}]
    /\ ret \in [Call -> {"ok", "err"}]
    /\ createLock \in Call \cup {NoCall}
    /\ tree \in [Repo -> SUBSET Part]
    /\ proc \in [Call -> {"none", "receiving", "received", "waiting", "update", "ok", "fail"}]
    /\ hook \in [Call -> {"none", "runs", "built", "failed"}]
    /\ moved \in [Call -> BOOLEAN]
    /\ channel \in [Call -> {"closed", "open", "eof"}]
    /\ sent \in [Call -> BOOLEAN]
    /\ status \in [Call -> {"none", "0", "1"}]
    /\ leftover \subseteq Repo /\ overran \subseteq Repo

Init ==
    /\ Lock!Init
    /\ op         = [c \in Call |-> "none"]
    /\ stage      = [c \in Call |-> "none"]
    /\ ret        = [c \in Call |-> "ok"]
    /\ createLock = NoCall
    /\ tree       = [r \in Repo |-> {}]
    /\ proc       = [c \in Call |-> "none"]
    /\ hook       = [c \in Call |-> "none"]
    /\ moved      = [c \in Call |-> FALSE]
    /\ channel    = [c \in Call |-> "closed"]
    /\ sent       = [c \in Call |-> FALSE]
    /\ status     = [c \in Call |-> "none"]
    /\ leftover   = {}
    /\ overran    = {}

Dir(c) == tree[repo[c]]

(* The worker moves from stage s to stage t. *)
At(c, s) == worker[c] = "running" /\ stage[c] = s
Goto(c, t) == stage' = [stage EXCEPT ![c] = t]
SetDir(c, d) == tree' = [tree EXCEPT ![repo[c]] = d]
SetProc(c, p) == proc' = [proc EXCEPT ![c] = p]

-----------------------------------------------------------------------------
(* answer: an exec request with a git command reaches wrapInLock.  The     *)
(* name of a call whose hook still runs is not used again.                 *)
Exec(c, r, o) ==
    /\ hook[c] # "runs"
    /\ op'      = [op EXCEPT ![c] = o]
    /\ channel' = [channel EXCEPT ![c] = "open"]
    /\ sent'    = [sent EXCEPT ![c] = FALSE]
    /\ status'  = [status EXCEPT ![c] = "none"]
    /\ hook'    = [hook EXCEPT ![c] = "none"]
    /\ moved'   = [moved EXCEPT ![c] = FALSE]
    /\ SetProc(c, "none")
    /\ ret'     = [ret EXCEPT ![c] = "ok"]
    /\ UNCHANGED <<createLock, tree, leftover, overran>>
    /\ \/ Lock!LockAcquired(c, r) /\ Goto(c, "enter")
       \/ Lock!LockRefused(c, r) /\ UNCHANGED stage

(* Mutation: the error itself is sent where its exit status belongs. *)
RawExitStatus(c) == result[c]

(* The exit status answer makes of wrapInLock's error. *)
ExitStatus(c) == IF result[c] = "ok" THEN "0" ELSE "1"

(* answer after wrapInLock: the exit status, and the channel is closed. *)
Answer(c) ==
    /\ Lock!Answered(c)
    /\ status'  = [status EXCEPT ![c] = ExitStatus(c)]
    /\ channel' = [channel EXCEPT ![c] = "closed"]
    /\ UNCHANGED <<op, stage, ret, createLock, tree, gitVars, sent, leftover, overran>>

-----------------------------------------------------------------------------
(* fn returns, and its locals are gone with it: the operation, Receive's   *)
(* result and its child process.  A hook that still runs goes on.          *)
Leave(c) ==
    /\ Goto(c, "none")
    /\ op'    = [op EXCEPT ![c] = "none"]
    /\ ret'   = [ret EXCEPT ![c] = "ok"]
    /\ SetProc(c, "none")
    /\ hook'  = [hook EXCEPT ![c] = IF @ = "runs" THEN "runs" ELSE "none"]
    /\ moved' = [moved EXCEPT ![c] = FALSE]
    /\ sent'  = [sent EXCEPT ![c] = FALSE]
    /\ UNCHANGED <<createLock, channel, status, overran>>

(* runReceive: the application is, or is not, among the user's. *)
EnterDenied(c) ==
    /\ At(c, "enter")
    /\ Leave(c)
    /\ Lock!FnReturn(c, "err")
    /\ UNCHANGED <<tree, leftover>>

EnterAllowed(c) ==
    /\ At(c, "enter")
    /\ Goto(c, "stat")
    /\ UNCHANGED <<op, ret, createLock, tree, gitVars, chanVars, leftover, overran>>
    /\ UNCHANGED lockVars

(* Mutation: an error of Receive returns past the removal. *)
BailWithoutRemoval(c) ==
    /\ Goto(c, "none")
    /\ Lock!FnReturn(c, "err")
    /\ UNCHANGED ret

(* Receive returns an error: the deferred RemoveAll runs next. *)
Bail(c) ==
    /\ Goto(c, "remove")
    /\ ret' = [ret EXCEPT ![c] = "err"]
    /\ UNCHANGED lockVars

(* Mutation: createRepo is entered without the mutex. *)
MutexFreeIgnored == TRUE

MutexFree == createLock = NoCall

(* Mutation: createRepo's error returns keep the mutex. *)
MutexKept == UNCHANGED createLock

(* The deferred createLock.Unlock. *)
MutexReleased == createLock' = NoCall

(* createRepo, to its os.Stat: it leaves at once when the directory        *)
(* exists, or Stat fails; otherwise it keeps the mutex.                    *)
Stat(c) ==
    /\ At(c, "stat")
    /\ MutexFree
    /\ \/ /\ "root" \in Dir(c)
          /\ Goto(c, "hook")
          /\ UNCHANGED <<createLock, ret>> /\ UNCHANGED lockVars
       \/ /\ "root" \notin Dir(c)
          /\ Goto(c, "mkdir")
          /\ createLock' = c
          /\ UNCHANGED ret /\ UNCHANGED lockVars
       \/ Bail(c) /\ UNCHANGED createLock
    /\ UNCHANGED <<op, tree, gitVars, chanVars, leftover, overran>>

(* os.MkdirAll. *)
Mkdir(c) ==
    /\ At(c, "mkdir")
    /\ \/ /\ SetDir(c, Dir(c) \cup {"root"})
          /\ Goto(c, "init")
          /\ UNCHANGED <<createLock, ret>> /\ UNCHANGED lockVars
       \/ Bail(c) /\ MutexReleased /\ UNCHANGED tree
    /\ UNCHANGED <<op, gitVars, chanVars, leftover, overran>>

(* git init --bare, in the directory; createRepo gives the mutex back. *)
GitInit(c) ==
    /\ At(c, "init")
    /\ \/ /\ "root" \in Dir(c)
          /\ SetDir(c, Dir(c) \cup {"git", "hooks"})
          /\ Goto(c, "hook")
          /\ UNCHANGED ret /\ UNCHANGED lockVars
       \/ Bail(c) /\ UNCHANGED tree
    /\ MutexReleased
    /\ UNCHANGED <<op, gitVars, chanVars, leftover, overran>>

(* createPreReceiveHook: os.Create truncates a hook that is there. *)
CreateHook(c) ==
    /\ At(c, "hook")
    /\ \/ /\ "hooks" \in Dir(c)
          /\ SetDir(c, Dir(c) \ {"hook"})
          /\ Goto(c, "chmod")
          /\ UNCHANGED ret /\ UNCHANGED lockVars
       \/ Bail(c) /\ UNCHANGED tree
    /\ UNCHANGED <<op, createLock, gitVars, chanVars, leftover, overran>>

(* Mutation: the file is written and not made executable. *)
FinishHookNoChmod(c) ==
    /\ At(c, "chmod")
    /\ \/ Goto(c, "start") /\ UNCHANGED ret /\ UNCHANGED lockVars
       \/ Bail(c)
    /\ UNCHANGED <<op, createLock, tree, gitVars, chanVars, leftover, overran>>

(* The template is written and the file made executable. *)
FinishHook(c) ==
    /\ At(c, "chmod")
    /\ \/ /\ "hooks" \in Dir(c)
          /\ SetDir(c, Dir(c) \cup {"hook"})
          /\ Goto(c, "start")
          /\ UNCHANGED ret /\ UNCHANGED lockVars
       \/ Bail(c) /\ UNCHANGED tree
    /\ UNCHANGED <<op, createLock, gitVars, chanVars, leftover, overran>>

(* StdinPipe and Start of git-shell. *)
Start(c) ==
    /\ At(c, "start")
    /\ \/ /\ SetProc(c, "receiving")
          /\ Goto(c, "copy")
          /\ UNCHANGED ret /\ UNCHANGED lockVars
       \/ Bail(c) /\ UNCHANGED proc
    /\ UNCHANGED <<op, createLock, tree, hook, moved, chanVars, leftover, overran>>

Exited(c) == proc[c] \in {"ok", "fail"}

(* io.Copy(inpipe, channel) ends at the client's EOF.  The pipe is not     *)
(* closed here: git does not see that EOF.                                 *)
Copy(c) ==
    /\ At(c, "copy")
    /\ channel[c] # "open"
    /\ Goto(c, "wait")
    /\ UNCHANGED <<op, ret, createLock, tree, gitVars, chanVars, leftover, overran>>
    /\ UNCHANGED lockVars

(* ... or fails, when git is gone and the client sends more. *)
CopyFails(c) ==
    /\ At(c, "copy")
    /\ channel[c] = "open" /\ ~sent[c] /\ Exited(c)
    /\ Bail(c)
    /\ UNCHANGED <<op, createLock, tree, gitVars, chanVars, leftover, overran>>

(* cmd.Wait, then the look at what git wrote to stderr. *)
Wait(c) ==
    /\ At(c, "wait")
    /\ Exited(c)
    /\ \/ /\ proc[c] = "ok"
          /\ Goto(c, "remove")
          /\ UNCHANGED ret /\ UNCHANGED lockVars
       \/ Bail(c)
    /\ UNCHANGED <<op, createLock, tree, gitVars, chanVars, leftover, overran>>

(* The deferred os.RemoveAll goes through the directory in no fixed order. *)
RemoveSome(c) ==
    /\ At(c, "remove")
    /\ \E gone \in {{}, {"git"}, {"hooks", "hook"}} : SetDir(c, Dir(c) \ gone)
    /\ Goto(c, "removing")
    /\ UNCHANGED <<op, ret, createLock, gitVars, chanVars, leftover, overran>>
    /\ UNCHANGED lockVars

(* ... to the end, or to an error, which the defer drops; Receive returns. *)
RemoveRest(c) ==
    /\ At(c, "removing")
    /\ \/ SetDir(c, {}) /\ leftover' = leftover \ {repo[c]}
       \/ /\ "root" \in Dir(c)
          /\ SetDir(c, {"root"}) \/ UNCHANGED tree
          /\ leftover' = leftover \cup {repo[c]}
    /\ Lock!FnReturn(c, ret[c])
    /\ Leave(c)

WorkerStep(c) ==
    \/ EnterDenied(c) \/ EnterAllowed(c)
    \/ Stat(c) \/ Mkdir(c) \/ GitInit(c) \/ CreateHook(c) \/ FinishHook(c)
    \/ Start(c) \/ Copy(c) \/ Wait(c) \/ RemoveSome(c) \/ RemoveRest(c)

-----------------------------------------------------------------------------
(* The git process moves on to q. *)
ProcStep(c, q) ==
    /\ SetProc(c, q)
    /\ UNCHANGED <<op, stage, ret, createLock, tree, chanVars, leftover, overran>>
    /\ UNCHANGED lockVars

(* The client's request, or its commands and their pack, arrived whole.    *)
(* git-upload-pack is done, and so is git-receive-pack without commands;   *)
(* with some it goes on to its pre-receive hook.                           *)
Received(c) ==
    /\ proc[c] = "receiving"
    /\ sent[c] /\ "git" \in Dir(c)
    /\ ProcStep(c, "ok") \/ (op[c] = "git-receive-pack" /\ ProcStep(c, "received"))
    /\ UNCHANGED <<hook, moved>>

(* git gives up: a bad pack, or no repository where it was.  It waits for  *)
(* ever for the rest from a client that left in the middle.                *)
ReceiveFails(c) ==
    /\ proc[c] = "receiving"
    /\ channel[c] = "open" \/ sent[c] \/ "git" \notin Dir(c)
    /\ ProcStep(c, "fail")
    /\ UNCHANGED <<hook, moved>>

(* git runs the pre-receive hook.  It goes on without one that is not      *)
(* there or not executable; one that is being written cannot be run, and   *)
(* the push is declined.                                                   *)
RunHook(c) ==
    /\ proc[c] = "received"
    /\ \/ /\ "hook" \in Dir(c)
          /\ ProcStep(c, "waiting")
          /\ hook' = [hook EXCEPT ![c] = "runs"]
       \/ /\ "hook" \notin Dir(c)
          /\ ProcStep(c, "update") \/ ProcStep(c, "ok")
          /\ UNCHANGED hook
    /\ UNCHANGED moved

(* git moves the refs the client pushed, or reports that it did not. *)
UpdateRefs(c) ==
    /\ proc[c] = "update"
    /\ ProcStep(c, "ok")
    /\ \/ "git" \in Dir(c) /\ moved' = [moved EXCEPT ![c] = TRUE]
       \/ UNCHANGED moved
    /\ UNCHANGED hook

GitStep(c) == Received(c) \/ ReceiveFails(c) \/ RunHook(c) \/ UpdateRefs(c)

(* git is killed, by the broken pipe of a client that left or otherwise;   *)
(* its hook goes on.                                                       *)
GitDies(c) ==
    /\ proc[c] \in {"receiving", "received", "waiting", "update"}
    /\ ProcStep(c, "fail")
    /\ UNCHANGED <<hook, moved>>

(* The hook's os.MkdirAll(buildDir) makes a directory that was removed     *)
(* under it again, without a repository in it.                             *)
HookMkdir(c) ==
    /\ hook[c] = "runs"
    /\ "root" \notin Dir(c)
    /\ SetDir(c, Dir(c) \cup {"root"})
    /\ leftover' = IF stage[c] = "none" THEN leftover \cup {repo[c]} ELSE leftover
    /\ UNCHANGED <<op, stage, ret, createLock, gitVars, chanVars, overran>>
    /\ UNCHANGED lockVars

(* "boot git-receive" ends.  git takes its exit code for the verdict on    *)
(* the push; a declined push is reported to the client, and git itself     *)
(* ends well.                                                              *)
Build(c) ==
    /\ hook[c] = "runs"
    /\ \E b \in {"built", "failed"} :
          /\ hook' = [hook EXCEPT ![c] = b]
          /\ ProcStep(c, IF proc[c] # "waiting" THEN proc[c]
                         ELSE IF b = "built" THEN "update" ELSE "ok")
    /\ UNCHANGED moved

(* The client, which git speaks to first, sends the last of what git will  *)
(* read ...                                                                *)
ClientSends(c) ==
    /\ channel[c] = "open" /\ proc[c] = "receiving" /\ ~sent[c]
    /\ sent' = [sent EXCEPT ![c] = TRUE]
    /\ UNCHANGED <<op, stage, ret, createLock, tree, gitVars, channel, status, leftover, overran>>
    /\ UNCHANGED lockVars

(* ... and ends its side of the channel, after that or in the middle. *)
ClientEOF(c) ==
    /\ channel[c] = "open"
    /\ channel' = [channel EXCEPT ![c] = "eof"]
    /\ UNCHANGED <<op, stage, ret, createLock, tree, gitVars, sent, status, leftover, overran>>
    /\ UNCHANGED lockVars

(* The lock's own steps. *)
LockStep(c) ==
    /\ \/ /\ \/ MayTimeout /\ Lock!TimerFires(c)
             \/ Lock!SelectFn(c) \/ Lock!CloseDone(c)
             \/ Lock!WorkerDropsResult(c) \/ Lock!Unlock(c)
          /\ UNCHANGED overran
       \/ /\ Lock!SelectTimer(c)
          /\ overran' = IF worker[c] = "running" THEN overran \cup {repo[c]} ELSE overran
    /\ UNCHANGED recvVars

Next ==
    \E c \in Call :
        \/ \E r \in Repo, o \in Operation : <<c, r, o>> \in Request /\ Exec(c, r, o)
        \/ Answer(c) \/ LockStep(c) \/ WorkerStep(c)
        \/ GitStep(c) \/ GitDies(c) \/ HookMkdir(c) \/ Build(c)
        \/ ClientSends(c) \/ ClientEOF(c) \/ CopyFails(c)

SafetySpec == Init /\ [][Next]_vars

(* Goroutines, git and its hook run.  The global mutex is fair in Go,      *)
(* hence SF on the worker's wait for it.  Nothing is asked of the client.  *)
Fairness ==
    \A c \in Call :
        /\ WF_vars(Answer(c)) /\ WF_vars(LockStep(c))
        /\ WF_vars(WorkerStep(c)) /\ SF_vars(Stat(c))
        /\ WF_vars(GitStep(c)) /\ WF_vars(Build(c))

Spec == SafetySpec /\ Fairness

-----------------------------------------------------------------------------
(* Refs move without a successful build only on a repository where the     *)
(* lock once gave up on a running worker: until then, whatever fails or    *)
(* dies, and whatever an earlier push left behind, the hook git looks for  *)
(* is complete and executable (git.go:60-72, 163-182).                     *)
UnbuiltOnlyAfterTimeout ==
    \A c \in Call : moved[c] => hook[c] = "built" \/ repo[c] \in overran

(* A repository directory exists only while a worker that will remove it   *)
(* is at work, timeouts and overlapping pushes included, or where RemoveAll *)
(* failed, or a hook outlived Receive (git.go:58, build.go:80).            *)
NoOrphanRepoDir ==
    \A r \in Repo \ leftover :
        tree[r] # {} =>
            \E c \in Call : repo[c] = r /\ stage[c] \notin {"none", "enter"}

(* The worker is past createRepo: its hook, or its removal, may be at work *)
(* on the directory.                                                       *)
PastCreateRepo(c) ==
    stage[c] \in {"hook", "chmod", "start", "copy", "wait", "remove", "removing"}

(* createRepo takes a directory for an existing repository only when it is *)
(* one, or is left over, or another call past createRepo is at work on it: *)
(* the mutex hides what a createRepo has made so far, between os.MkdirAll  *)
(* and the end of git init (git.go:131-158).                               *)
NobodyJoinsHalfMadeRepo ==
    [][\A c \in Call :
          stage[c] = "stat" /\ stage'[c] = "hook" =>
              \/ "git" \in Dir(c)
              \/ repo[c] \in leftover
              \/ \E d \in Call : repo[d] = repo[c] /\ PastCreateRepo(d)]_vars

(* createRepo's (false, nil) "indicat[es] whether a project was created    *)
(* (true) or already existed (false)" (git.go:128-129): where it finds a   *)
(* directory, a repository exists.                                         *)
FoundMeansRepository ==
    [][\A c \in Call :
          stage[c] = "stat" /\ stage'[c] = "hook" => "git" \in Dir(c)]_vars

(* Receive waits for its client: to send the rest of what git reads, or to *)
(* end its side of the channel.                                            *)
WaitsForClient(c) ==
    \/ proc[c] = "receiving" /\ ~sent[c]
    \/ stage[c] = "copy" /\ channel[c] = "open"

(* When no operation outlasts the lock, a call is answered, whether git    *)
(* and its hook succeed, fail or die, unless it waits for its own client   *)
(* for ever; once it has stopped waiting for the client it does not begin  *)
(* again.  So nobody waits for ever on the mutex, the processes or the     *)
(* channels (git.go:131, 102-112).                                         *)
PushAnswered ==
    \A c \in Call : []<>(caller[c] = "idle" \/ WaitsForClient(c))
=============================================================================
