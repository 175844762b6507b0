# TLA+ model of the Drycc builder

The builder is the part of Drycc Workflow that takes `git push`: an SSH server
receives the pack, a pre-receive hook has a Kubernetes job build an image, and
the controller is asked for a release. This directory models it in TLA+,
model-checks small instances with TLC, and proves the safety properties
with TLAPS for every number of calls, repositories, channels, pushes, commits,
settings, requests and names.

## The system and its parts

| part | state | operations | meets |
|---|---|---|---|
| push lock, `pkg/sshd/lock.go` | map of locked names; per call a timer, two channels, two goroutines | `Lock`, `Unlock`, `wrapInLock` | every git command |
| git receive, `pkg/git/git.go`, `answer` and `runReceive` of `pkg/sshd/server.go` | repository directory, global `createLock`, git process, SSH channel | create the repository and its hook, run git, remove the directory | lock, client, cleaner, hook |
| build hook, `pkg/gitreceive` | `<app>.tar.gz`, temporary directory, stored archive, job, informer cache, release | `Run`, `build`, the two pod waits | other hooks of the application, pod, store, controller |
| cleaner, `pkg/cleaner` | namespace list, directories, stored archives | `Run`, `deleteFromStorage` | pushes, controller, API server |
| health server, `pkg/healthsrv` | per request a count, a timeout, `stopCh`, one goroutine per check | `/healthz`, `/readiness` | circuit, store, API server, controller |
| circuit, `pkg/sshd/circuit.go` | one word | `Close`, `State` (`Open` has no caller) | `Serve`, health server |
| SSH sessions, rest of `pkg/sshd/server.go` | connections, channels, what each client was sent | `listen`, `handleConn`, `answer`, `AuthKey`, `Ping` | lock, worker, controller |
| process, `boot.go`, `pkg/builder.go` | three goroutines, three channels | start, select, exit | all of the above |
| settings of a build: `Config`, `getStack`, `imagebuilder.go`, `k8s_util.go`, `sys`' environment | none kept | durations, stack, selector, policy, image name, job environment, ticker | build hook |
| `WaitForObject`, `CreateImageRepo`, `createAppEnvConfigSecret` | none | | no caller |

What is hard here: the lock's timeout, which lets the next push in while the
abandoned one still works in the same directory; one directory that pushes and
the cleaner make, fill and remove without a common lock; a pod followed through
a cache that lags; a chain of a dozen calls each of which can fail and must undo
the ones before; goroutines that offer a result nobody may want any more; an
SSH channel that the handler and an abandoned worker both write to.

## Modules

| module | models |
|---|---|
| `RepoMutex` | what the lock promises: per repository one holder, who gives it back |
| `PushLock` | `lock.go`, statement by statement where another goroutine can see it |
| `GitReceive` | git receive on top of an `INSTANCE` of `PushLock`, with the git process, its hook and the client |
| `BuildHook` | the pre-receive hook, the `Receive` around it, the job's pod, the informer |
| `Push` | `PushLock` and `BuildHook` composed: pushes to one application, end to end |
| `BuildPlan` | what one build makes of its settings, up to the job and its ticker |
| `SSHSession` | connections, channels and requests over an `INSTANCE` of `PushLock` |
| `Cleaner` | the cleaner beside controller and pushes |
| `HealthProbe` | both probe handlers, their checks, the circuit |
| `Boot` | the server command over `HealthProbe`: start, `Serve`, failures, exit, restart |
| `PushLockProofs`, `GitReceiveProofs`, `SSHSessionProofs`, `BuildHookProofs`, `BuildPlanProofs`, `PushProofs`, `BootProofs`, `CleanerProofs` | TLAPS proofs |
| `MC*` | instances for TLC |

**PushLock.** `dataMap` is the set of keys of the Go map (its values are always
`true`). `caller[c]` is where `wrapInLock` is: in its select, before the deferred
`close(doneCh)`, before the deferred `Unlock`, returned. `worker[c]` is the
goroutine that runs `fn`. The send on the unbuffered `fnCh` is the rendezvous
`SelectFn`. A name in `Call` is used again once both goroutines of its earlier
use are gone, so behaviours are unbounded. Each method under `rl.mutex` is one
step.

**GitReceive.** A directory is the set of its parts that exist: root, what
`git init` makes, the `hooks` directory, a hook git can run. `createRepo`,
`createPreReceiveHook`, `Start`, `io.Copy`, `Wait` and the deferred `RemoveAll`
(two steps, since others see the directory half removed) are the stages of the
worker. Every failing call is a disjunct of its stage and goes to the removal,
which may itself fail, its error being dropped; `leftover` remembers that. The
hook is a process of its own. It goes on when git dies, even after `Receive` has
returned, and its `MkdirAll` (`HookMkdir`) makes a directory again that was
removed under it. git itself is external: `git-upload-pack`, and
`git-receive-pack` without commands, end when they have read their input; with
commands `git-receive-pack` needs the repository to go on, runs the hook if there
is one it can run, and moves the refs if the hook said 0. It exits with 0 also
when the hook declined the push, which the client reads in git's report: the exit
status of the SSH command says nothing about the build, and no property claims it
does; `moved` is what the client is told. `errbuff` is whatever git wrote to
stderr, so `Wait` may fail after a good exit. The client sends the rest of what
git reads (`ClientSends`) and half-closes the channel after that or in the middle
(`ClientEOF`). `MayTimeout` switches lock timeouts on. `io.Copy` is taken to fail
only when git is gone: the SSH library reports a lost connection as the end of
the channel. A window adjustment that fails on the last read of a lost connection
would end `Receive` while git goes on; it is not modelled.

**BuildHook.** One action per call of `build` that can fail or that others see.
The file `<app>.tar.gz` is shared by the hooks of an application. Archives,
images and Procfiles are represented by the commit they came from. Bad lines are
the ones the code treats differently: not three fields, no commit id, and the
zero id of a deleted ref, which passes `NewSha` and fails in `git archive`.
Commits stand for their short ids, the first eight digits, which name images and
archives. A failed `git archive` may leave a file that is cut short (`broken`),
which cannot be unpacked but can be read. Pods are external: pending, running,
ended or deleted at any moment; one pod per job, because the job has no retries. `CacheSync` copies the pod's phase into the
cache whenever it likes, so phases are skipped. The time limits of the two waits
can pass at any moment. `CreateBuild` may make the release and lose the answer.
`Receive`, `Start`, `ReceiveEnds` and `RemoveRepo` are the `Receive` around the
hook, reduced to what it does to the directory: it makes it or finds it, and its
deferred `RemoveAll` takes it away, or a part of it, however it ends, with or
without a hook. `GitDies` is the same removal under a hook that goes on,
`HookKilled` the end of a hook without its deferred calls. Pushes are not
serialised here; `Push` does that. What the job consists of is in `BuildPlan`.

**Push.** A call of `wrapInLock` runs one `Receive` in its worker: `Exec` is the
call, `Denied` the user without the application, `Receives` the way to the hook or
to an end without one; the hook's last step, or the death of its git, is the
worker's return, and the lock's own steps run beside it. The timer may fire
while the push is anywhere, before its hook too, and the next call then gets the
lock.

**BuildPlan.** The state of one `build`, from `CheckDurations` over `getStack`,
the node selector, the pull policy and the environment of the image builder to
the job and `progress`, whose ticker panics on an interval that is not positive;
`Duration` is the product with `time.Millisecond`, which wraps around.
Strings that are only passed on are empty or not; names of stacks, files and
variables stand for themselves. The order of the job's environment is kept, as
the last entry of a name is the one the container gets.

**SSHSession.** `chan[x]` is where `handleConn` or `answer` is with a channel,
`fn[x]` where the worker is in `runReceive`'s function, and `wire[x]` what the
client was sent since the last request: replies, output, exit status, close.
`env` and other requests go round the loop; `ping`, unknown commands, a git
command without a repository and a bad name are answered at once; the others go
through the lock, whose worker sends its reply on the channel `answer` also
writes to, perhaps after `answer` has closed it. An error of a channel's `Accept`
panics and ends the process (a `Reject` is followed by an `Accept` of the same
channel, which fails). Writing to a lost connection sends nothing. Requests are
taken to want a reply, as those of git clients do: for one that does not, the
library sends none, and the client sees the same answer without it.

**Cleaner.** Names are a set with a lower-casing function; applications are the
names equal to their lower case, as namespaces are. Between any two calls of
`Run` the controller may create or delete an application and a push may begin,
make the directory again, upload or end, with its removal failing or not.
`ListObjects` may fail for any name; the code's `PathRegexp` refuses some for
certain, which is a case of it. The order of `appsToDelete` is arbitrary, and duplicates in it are
merged (removing twice is removing once).

**HealthProbe.** `probe` and `verdict` are the check's goroutine and what it
found; a check may never return. The two handlers have the same loop and differ
in their checks. The module is run as part of `Boot`.

**Boot.** `main` is the command (reading settings, in its select, over), `ssh`
and `health` are the two goroutines it waits for, `listener` is the socket of the
SSH server. Each start-up call may fail; `Accept` may fail later, and so may the
health server; `Panic` is `SSHSession`'s. `Exit` forgets everything the process
held, and the container is restarted. The cleaner's goroutine never returns.

## Runs

Passing runs:

| run | shows | distinct states |
|---|---|---|
| `lock` | entries of the map and owners match exactly; overlap only after a timeout; the lock is given back, workers end, `RepoMutex` is implemented | 6,137 |
| `receive_overlap` | with timeouts: a directory has a remover or was left over by a failed removal or a hook that outlived `Receive`; refs move without a build only after a timeout; nobody joins a repository in the making | 1,245,763 |
| `receive_serial` | without timeouts every call is answered or waits for its own client | 200,688 |
| `build` | no release of a failed container, every release made of one commit, refs a hook is past are released; if pods end, the hook ends | 462,107 |
| `push` | lock and hooks together: no release mixes two commits until a push that overran is there beside another | 758,067 |
| `settings` | the polls' intervals, the choice of the stack, whose value of a variable the container gets, one registry in the image's name and in the environment, and which settings panic | 181,272 |
| `session` | each client sees one of the answers its command and the lock's verdict allow, whoever writes first; the channel of a git command is closed | 394,376 |
| `cleaner` | an application that exists since the listing loses nothing; directories of applications that stay deleted go away | 65,152 |
| `server` | a 200 has all checks of its request behind it and, for `/healthz`, a bound SSH address in this process; every request is answered; no goroutine with a verdict stays; a server that stops ends the process | 1,588 |

Runs in which TLC finds a counterexample to a sentence of the sources:

| run | sentence | what happens |
|---|---|---|
| `lock_overlap` | `lock.go:12-13` | after the timeout two git operations run on one repository |
| `receive_found` | `git.go:128-129` | a directory that a failed removal left is taken for an existing repository |
| `build_forever` | `config.go:51-52` | a pod that never ends keeps the hook in the log stream |

What the passing properties except, and why:

* `UnbuiltOnlyAfterTimeout` excepts repositories where the lock has given up on a
  running worker: a push that overlaps an abandoned one can find its hook
  truncated or removed, and git goes on without one.
* `NoOrphanRepoDir` and `NobodyJoinsHalfMadeRepo` except directories left over by
  a failed `RemoveAll` or by a hook that outlived `Receive`. That `createRepo` takes
  such a directory for a repository is what `receive_found` shows.
* `MixedOnlyAfterOverrun` ends where a push that the lock gave up on, or whose git
  died, is there beside another. After that a release can mix commits, the
  archive having one name per application, or lack its Procfile, the directory
  being removed.
* `ReleaseMatchesCommit` excepts the Procfile of a hook whose git died: the
  directory is removed under it, and a missing file is no error.
* `PushAnswered` is checked without timeouts and excepts a call that waits for its
  client: for the rest of what git reads, or, in `io.Copy`, for the end of the
  channel. git's standard input is not closed after `io.Copy`, so with a client
  that left in the middle git, and `Wait` with it, wait for ever. The lock's
  timeout, not in this run, lets the next push in. For the same reason
  `CHECK_DEADLOCK FALSE` stands in the receive runs: a small instance can run
  out of names. `ExecEndsClosed` needs no such exception, as the timer is in its
  run.
* `ClientSeesOneAnswer` lists the answers as the code gives them. After a timeout
  the worker's reply may come after the exit status or not at all. A git command
  without a repository is refused and then sent the exit status 0, `break`
  leaving the inner switch only. A refused push gets no reply to its request.
* The comment at `server.go:211-214` says that the channel is left open on
  failure; the deferred `Close` closes it on every path, and so does the model.
* `OKMeansServing` says that the address was bound, not that it still is: after
  `Accept` failed, `/healthz` says 200 until the process ends, which
  `StoppedServerEndsProcess` says it does.
* `SparesSettledApps` is about applications that exist since the listing. One
  created later can lose its directory under its first push.
* `DeadDirsGoAway` is about names applications can have. `getDiff` returns
  lower-cased names, so a directory with a capital is never removed. Archives
  have no such property: the cleaner goes by directories, a push removes its own
  when it ends, and no line promises that archives go.
* `NoReleaseOfFailedContainer` and `ReleaseMatchesCommit` except a failed pod
  without container statuses, which `build` releases.

### Bounds

* Lock: two calls, the abandoned and the next one, and two repositories; the
  proofs remove the bound for the safety properties.
* Receive: two calls; one repository when they overlap, two when the global
  mutex is the only thing they share. Proved without the bound, liveness excepted.
* Build: one push of at most `MaxLines` = 3 refs over two commits, so that a
  commit can follow itself, another one or a bad line. Pushes that do not
  overlap share nothing but the stored archives, whose keys are their commits,
  and what a failed removal left; `SerialReleasesMatch` proves as much for any
  number of pushes and lines.
* Push: two pushes of one ref each over two commits. Hooks and commits are
  interchangeable (symmetry, sound as only invariants are checked). The
  constraint `NoneOverlapped` stops at states in which a push has overrun beside
  another; that is permanent, and `MixedOnlyAfterOverrun` is true from there on.
* Settings: the families of `MCInputs` vary the settings of one part of a build
  at a time, in all combinations around their limits, the parts reading
  different settings. `time.Duration` is scaled down to TLC's integers, 2^29 for
  2^63 and 1,000 units to the millisecond; the intervals are those around 0 and
  around the first and the second wrap. Proved for all settings and any width.
* Session: one connection with two channels on one repository. Connections meet
  in the lock alone, where two channels of one connection meet as well. The
  safety properties are proved for any number of both.
* Cleaner: two applications and one name in another case; one commit.
* Server: one request, used again and again. Requests share the circuit alone;
  the proofs hold for any number.

`receive_overlap` uses symmetry of its two calls, which its invariants and its
action property do not tell apart. No other run does, most of them checking
liveness.

### Fairness

* `PushLock`: runnable goroutines run and timers fire. Nothing of `fn`.
* `GitReceive` (`receive_serial`): goroutines and processes run, the hook ends, and
  the global mutex does not starve a waiter (Go's mutex hands over to a waiter
  after 1 ms), hence strong fairness of `Stat`. Nothing of the client, and no
  process has to die.
* `SSHSession`: `answer` and the goroutines of the lock run and timers fire.
  Nothing of git, the clients or the network.
* `Cleaner`: the loop runs and no call fails for ever (strong fairness of the
  successful listing and removal). Nothing of the controller or the pushes.
* `Boot`: the handlers, the checks' goroutines with a verdict and the command's
  select run, and the timeout fires. Nothing of the checks, the peers or the
  restart.
* `BuildHook`: the hook runs and its waits time out; `Spec` adds that pods end,
  `HookSpec` does not.

## Proofs

Each theorem holds for every value of the constants that meets the assumption
named with it; `PROJECT.json` names the property it is about, which a run checks
on a small instance.

**`PushLockProofs`** (`NoRepo` is no repository): `TypeCorrect`, `LockIsExact`,
`OverlapNeedsTimeout`, and `LockImplementsMutex`, the safety half of
`ImplementsRepoMutex`. The inductive invariant is `LockInv`. `LockExact` alone is
not inductive for the overlap: one has to know that a worker whose caller has not
given up on it still has a caller that holds the lock (`AttendedWorker`), and
that a holder has a repository (`HolderHasRepo`). With these, two running workers
on one repository of which neither is abandoned would be two holders of one
entry, which `LockExact` excludes. For the refinement every action is shown to
leave `heldNow` alone (`SameHoldersSameHeld`), except `LockAcquired`, which is
`Acquire`, and `Unlock`, which is `Release`.

**`GitReceiveProofs`** (`NoCall` is no call, `NoRepo` no repository), timeouts, dying
processes and failing removals included: `NoOrphanRepoDirAlways`,
`NobodyJoinsHalfMadeRepoEver`, `UnbuiltOnlyAfterTimeoutAlways` and
`ReceiveTypeCorrect`. The invariant `DirInv` gives what is on the disk an owner: a
stage of `Receive` has a running worker and a repository, and only a hook
outlives it (`StageRuns`), so a call cannot be given another repository under its
worker or its hook; whoever is between `MkdirAll` and the end of `git init` has
the mutex (`CreatorHasMutex`); and a directory without a repository is left over,
being made, or at the mercy of a call past `createRepo` (`HalfMadeHasOwner`). At
`Stat` the mutex is free, so nobody is making one. `UnbuiltInv` adds the lock's
`LockInv`, by which a repository has one worker unless one overran (`OneWorker`):
nobody else then touches the hook between its `Chmod` and git's run of it
(`HookFile`), and refs move only after that hook's success (`MovedInv`). That git
receive takes no step the lock could not take is the lemma `ReceiveIsLockStep`,
which carries `LockInv` over; so do `SessionIsLockStep` and `PushIsLockStep` below.

**`SSHSessionProofs`** (no assumption): `SessionTypeCorrect` and
`ClientAlwaysSeesOneAnswer`. What a client was sent is no
function of how far `answer` is: the worker replies as well, even after the timer
has made `answer` go on, and a lost connection cuts the answer anywhere.
`SessionInv` therefore says per channel what each goroutine may still do
(`AnswerInv`, `WorkerInv`: a worker without a caller was left by the timer's
branch), what can have been sent at all for the request and its outcome
(`BegunInv`), and what exactly was sent while the connection is there
(`SoFarInv`), where the place of the worker's `success` among the timeout's
messages is the one thing left open.

**`BuildHookProofs`**, for any number of hooks, overlapping or not, unless stated
otherwise. The proofs do not go through two dozen actions per conjunct: `HookKinds`,
`PodKinds` and `StepKinds` first show that each step of a hook goes on within
`build`, fails, or is one of the few that begin and end a line, the hook and
`Receive`, and
that each step of a pod makes it run, once, or ends it.
* `NoFailedReleaseAlways` needs that exit codes exist only of a pod that is over,
  so nothing changes them once `CheckStatus` has seen them (`PodInv`).
* `AcceptedMeansReleasedAlways` needs that the line at work is the one read last
  and all before it are released (`AcceptInv`).
* `HookTypeCorrect` (`HookAssumption`: a bad line is no commit, `MaxLines` is
  positive) needs that a hook past `git archive` builds a commit, as does a pod
  that is not over (`RevInv`): `ReadLine` takes lines that are none.
* `SerialReleasesMatch` (`HookAssumption`): as long as no two pushes are at work at
  once (`AloneInDir`, which counts a push from the first step of its `Receive`,
  since a `Receive` that fails before its hook removes the directory too), a
  release is of one commit. `Clean` says which files hold the commit of a hook at
  which of its steps; a hook keeps its own files clean and, alone, has them
  changed by nobody else (`AllClean`). `OneHookReleasesMatch` is the case of one
  push, where nothing else is asked.

**`PushProofs`** (`HookAssumption`, and `NoApp` is not the repository):
`MixedOnlyAfterOverrunAlways`. `PushIsLockStep` and `PushIsHookStep` carry `LockInv`
and `HookInv` over to the composition. `PushInv` joins them with the meeting of
lock and hook (`MeetInv`: a push at work whose git lives has its worker) and
`AllClean` until a push has overrun and another has set out: of two pushes at
work, one has lost its git, or both have a running worker on one repository, and
then the lock gave up on one of them (`ActiveAlone`). `OverlappedStays` is the
other half.

**`BuildPlanProofs`** (`StringAssumption`: the strings the builder itself uses are
strings; `InputsAssumption`: the settings are what json, `envconfig` and the
environment can hold), for lists of stacks and of values of any length and for all
durations of any width (`DurationAssumption`: its limit and the millisecond are
positive): `StackAlwaysOfBestRank`, `BuilderValuesAlwaysWin`,
`ImageAlwaysInItsRegistry`, `TicksAlwaysFit`, `PanicsAlwaysOnlyFor`,
`PlanTypeCorrect`. `PlanInv` says what `build` has at which stage and from what it
was computed: the stack is the one `Chosen` from the list (`StackTaken`), the
builder's variables and the image's name are those of one environment (`EnvMade`),
and the job's environment is put together from these. The rest are lemmas about
the operators: what `getStack`'s three loops return is the first of the best rank
(`ChosenIsFirst`, `ChosenHasBestRank`), a map's range loop reaches every key
(`KeysListAll`), and of a list in parts the last part that has a name gives its
value (`LaterPartWins`).

**`BootProofs`** (no assumption): `OKMeansAllPassedAlways`,
`OKMeansServingAlways`, `ServerTypeCorrect`. `CountInv` says that a handler that
has counted one verdict has counted that of one passed check, whose goroutine is
gone, so the second verdict is of the other check; that there is no third, which
the type of the count asks, follows from it too. `CircuitInv` says that `Serve` is
past its bind when it closes the circuit, and that a check that found the circuit
closed did so in this very process.

**`CleanerProofs`**: `SparesSettledAppsAlways` (no assumption) and
`CleanerTypeCorrect` (`LowerAssumption`: the lower case of a name is a name an
application can have). `SparedInv` says that applications older than the listing
are on it, that nothing `getDiff` returned is (`DiffAvoidsNamespaces`), and that
the objects about to be deleted belong to the entry at work.

Every invariant and action property that a passing run checks has a theorem; for
`ReleaseMatchesCommit` it is the one for pushes that do not overlap, with
`MixedOnlyAfterOverrunAlways` saying when they do. Only model-checked are the
liveness properties (`LockReleased`, `WorkerNotStranded`, `PushAnswered`,
`ExecEndsClosed`, `HookEnds`, `DeadDirsGoAway`, `AlwaysAnswered`,
`ProbeNotStranded`, `StoppedServerEndsProcess`) and the fairness of
`Mutex!FairSpec` in `ImplementsRepoMutex`: fairness and `ENABLED` are out of the
prover's reach, as are induction over data and `RECURSIVE` operators, which no
module here uses.

## Not modelled

`PROJECT.json` lists every part. `WaitForObject`, `CreateImageRepo`,
`createAppEnvConfigSecret` and `Circuit.Open` have no caller in the program. The
mock receive type, the fake file system and the other doubles exist for tests.
The fingerprint of a key, `SSH_CONNECTION` and the user's name are input to
`SSHSession`, which does not look at them. The informer's label selector is
abstracted, job names being unique. The remaining Kubernetes and `sys` wrappers
hold no state. How long the cleaner sleeps after an error is not modelled, time
not passing in `Cleaner`. `GitReceive` leaves the build's outcome open, and `Push`
keeps of the repository's directory only whether it is there, the archive and the
temporary directories, so the two are not composed into one module: what they
share is the lock, which both contain; nor is `Cleaner` composed with
`GitReceive`, whose pushes it represents by their effect on the directory.
