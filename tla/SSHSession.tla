----------------------------- MODULE SSHSession -----------------------------
(***************************************************************************)
(* pkg/sshd/server.go: listen, handleConn and answer, over the push lock.  *)
(* One goroutine accepts connections, one per connection accepts channels, *)
(* one per channel answers requests; an exec of a git command runs in the  *)
(* lock's worker, which shares the channel with answer.  A panic in any of *)
(* them ends the process.  What git does is left open here (GitReceive has *)
(* it), and the end of listen is in Boot.                                  *)
(*                                                                         *)
(* wire[x] is what the client of channel x was sent since answer read the  *)
(* last request: the reply ("success", "failure"), output ("pong", "ERR",  *)
(* "stderr"), the exit status ("0", "1") and the "close".  A reply is      *)
(* handed to the SSH library for every request; the library sends none to  *)
(* a client that did not ask for one, whose requests then show the same    *)
(* without it.                                                             *)
(***************************************************************************)
EXTENDS Naturals, Sequences

CONSTANTS Conn, NoConn,      \* connections; the owner of no channel
          Channel,           \* channels in use, the calls of the lock
          Repo, NoRepo

ASSUME NoConnAssumption == NoConn \notin Conn

VARIABLES dataMap, repo, caller, timer, worker, doneCh, fnErr, result,  \* PushLock
    process,   \* the server process
    conn,      \* conn[c]: where handleConn is; "lost" when the peer is gone
    owner,     \* owner[x]: the connection of channel x
    chan,      \* chan[x]: where handleConn or answer is with it
    exec,      \* exec[x]: the command of its exec request
    fn,        \* fn[x]: where the worker is in runReceive's function
    wire       \* wire[x]: what was sent on it since the last request

lockVars == <<dataMap, repo, caller, timer, worker, doneCh, fnErr, result>>
sshVars == <<process, conn, owner, chan, exec, fn, wire>>
vars == <<dataMap, repo, caller, timer, worker, doneCh, fnErr, result,
          process, conn, owner, chan, exec, fn, wire>>

Lock == INSTANCE PushLock WITH Call <- Channel

Command == {"ping", "git", "oneWord", "badName", "unknown"}
Message == {"success", "failure", "pong", "ERR", "stderr", "0", "1", "close"}

TypeOK ==
    /\ Lock!TypeOK
    /\ process \in {"up", "down"}
    /\ conn \in [Conn -> {"none", "handshake", "serving", "lost"}]
    /\ owner \in [Channel -> Conn \cup {NoConn}]
    /\ chan \in [Channel -> {"none", "session", "other", "open", "exec", "closing"}]
    /\ exec \in [Channel -> Command \cup {"none"}]
    /\ fn \in [Channel -> {"none", "reply", "receive"}]
    /\ wire \in [Channel -> Seq(Message)]

Init ==
    /\ Lock!Init
    /\ process = "up"
    /\ conn  = [c \in Conn |-> "none"]
    /\ owner = [x \in Channel |-> NoConn]
    /\ chan  = [x \in Channel |-> "none"]
    /\ exec  = [x \in Channel |-> "none"]
    /\ fn    = [x \in Channel |-> "none"]
    /\ wire  = [x \in Channel |-> <<>>]

Lost(x) == conn[owner[x]] = "lost"
Goto(x, s) == chan' = [chan EXCEPT ![x] = s]

(* What is written to a lost connection is not sent. *)
Sent(x, msgs) == IF Lost(x) THEN <<>> ELSE msgs
Send(x, msgs) == wire' = [wire EXCEPT ![x] = @ \o Sent(x, msgs)]

-----------------------------------------------------------------------------
(* listen and handleConn. *)
Accept(c) ==
    /\ conn[c] = "none"
    /\ conn' = [conn EXCEPT ![c] = "handshake"]
    /\ UNCHANGED <<process, owner, chan, exec, fn, wire, lockVars>>

(* AuthKey, by the error of its questions to the controller: one about the *)
(* API's version is none.                                                  *)
AuthKey(err) == err \in {"nil", "ErrAPIMismatch"}

(* NewServerConn; its failure closes the connection. *)
Handshake(c) ==
    /\ conn[c] = "handshake"
    /\ \E err \in {"nil", "ErrAPIMismatch", "other"} :
          conn' = [conn EXCEPT ![c] = IF AuthKey(err) THEN "serving" ELSE "none"]
    /\ UNCHANGED <<process, owner, chan, exec, fn, wire, lockVars>>

(* The client opens a channel of a type. *)
OpenChannel(c, x, type) ==
    /\ conn[c] = "serving"
    /\ chan[x] = "none" /\ Lock!Free(x)
    /\ owner' = [owner EXCEPT ![x] = c]
    /\ Goto(x, type)
    /\ exec' = [exec EXCEPT ![x] = "none"]
    /\ wire' = [wire EXCEPT ![x] = <<>>]
    /\ UNCHANGED <<process, conn, fn, lockVars>>

(* Accept fails on a channel that was just rejected, and may fail when the *)
(* connection is gone.                                                     *)
AcceptErrs(x) == chan[x] = "other" \/ Lost(x)

(* handleConn's loop: Reject of what is no session, then Accept, whose     *)
(* error panics.                                                           *)
AcceptChannel(x) ==
    /\ chan[x] \in {"session", "other"}
    /\ \/ chan[x] = "session" /\ Goto(x, "open") /\ UNCHANGED process
       \/ AcceptErrs(x) /\ process' = "down" /\ UNCHANGED chan
    /\ UNCHANGED <<conn, owner, exec, fn, wire, lockVars>>

(* The peer is gone. *)
Disconnect(c) ==
    /\ conn[c] = "serving"
    /\ conn' = [conn EXCEPT ![c] = "lost"]
    /\ UNCHANGED <<process, owner, chan, exec, fn, wire, lockVars>>

(* chans is closed and drained: conn.Close.  (The name is free again when  *)
(* its channels are.)                                                      *)
HandleConnEnds(c) ==
    /\ conn[c] = "lost"
    /\ \A x \in Channel : owner[x] = c => chan[x] = "none" /\ Lock!Free(x)
    /\ conn' = [conn EXCEPT ![c] = "none"]
    /\ owner' = [x \in Channel |-> IF owner[x] = c THEN NoConn ELSE owner[x]]
    /\ UNCHANGED <<process, chan, exec, fn, wire, lockVars>>

-----------------------------------------------------------------------------
(* answer reads a request of channel x; the ones that arrived before the   *)
(* connection was lost are read after it.                                  *)
Reads(x) == chan[x] = "open"

(* "env" is granted and another type refused; both go round the loop. *)
NoExec(x) ==
    /\ Reads(x)
    /\ \E reply \in {"success", "failure"} :
          wire' = [wire EXCEPT ![x] = Sent(x, <<reply>>)]
    /\ UNCHANGED <<process, conn, owner, chan, exec, fn, lockVars>>

(* An exec that answer deals with by itself sends msgs and returns. *)
ExecAtOnce(x, cmd, msgs) ==
    /\ Reads(x)
    /\ exec' = [exec EXCEPT ![x] = cmd]
    /\ wire' = [wire EXCEPT ![x] = Sent(x, msgs \o <<"close">>)]
    /\ Goto(x, "none")
    /\ UNCHANGED <<process, conn, owner, fn, lockVars>>

Ping(x) == ExecAtOnce(x, "ping", <<"pong", "0", "success">>)
Unknown(x) == ExecAtOnce(x, "unknown", <<"failure">>)

(* A git command without a repository: "break" leaves the inner switch,    *)
(* and the exit status after it is sent.                                   *)
OneWord(x) == ExecAtOnce(x, "oneWord", <<"failure", "0">>)

(* cleanRepoName's error. *)
BadName(x) == ExecAtOnce(x, "badName", <<"stderr">>)

(* A git command reaches wrapInLock. *)
ExecGit(x, r) ==
    /\ Reads(x)
    /\ exec' = [exec EXCEPT ![x] = "git"]
    /\ Goto(x, "exec")
    /\ \/ Lock!LockAcquired(x, r) /\ fn' = [fn EXCEPT ![x] = "reply"]
       \/ Lock!LockRefused(x, r) /\ UNCHANGED fn
    /\ wire' = [wire EXCEPT ![x] = <<>>]
    /\ UNCHANGED <<process, conn, owner>>

(* The requests end without an exec: the client closes the channel, or the *)
(* connection is gone.                                                     *)
RequestsEnd(x) ==
    /\ chan[x] = "open"
    /\ Send(x, <<"close">>)
    /\ Goto(x, "none")
    /\ UNCHANGED <<process, conn, owner, exec, fn, lockVars>>

(* Mutation: the error itself is sent where its exit status belongs. *)
RawVerdict(x) == <<result[x]>>

(* What answer sends for wrapInLock's result. *)
Verdict(x) ==
    IF result[x] = "alreadyLocked" THEN <<"ERR", "1">>
    ELSE IF result[x] = "ok" THEN <<"0">> ELSE <<"1">>

(* answer after wrapInLock; then its deferred Close. *)
Answer(x) ==
    /\ chan[x] = "exec"
    /\ Lock!Answered(x)
    /\ Send(x, Verdict(x))
    /\ Goto(x, "closing")
    /\ UNCHANGED <<process, conn, owner, exec, fn>>

Close(x) ==
    /\ chan[x] = "closing"
    /\ Send(x, <<"close">>)
    /\ Goto(x, "none")
    /\ UNCHANGED <<process, conn, owner, exec, fn, lockVars>>

AnswerStep(x) == Answer(x) \/ Close(x)

-----------------------------------------------------------------------------
(* Mutation: an abandoned worker's reply is sent on a closed channel. *)
ReplyableAlways(x) == TRUE

(* Nothing is sent on a channel after its close. *)
Replyable(x) == chan[x] # "none"

(* runReceive's function in the worker: req.Reply(true), then the look at  *)
(* the user's applications and Receive, which may not return.              *)
Reply(x) ==
    /\ worker[x] = "running" /\ fn[x] = "reply"
    /\ IF Replyable(x) THEN Send(x, <<"success">>) ELSE UNCHANGED wire
    /\ fn' = [fn EXCEPT ![x] = "receive"]
    /\ UNCHANGED <<process, conn, owner, chan, exec, lockVars>>

Receive(x, e) ==
    /\ fn[x] = "receive"
    /\ Lock!FnReturn(x, e)
    /\ fn' = [fn EXCEPT ![x] = "none"]
    /\ UNCHANGED <<process, conn, owner, chan, exec, wire>>

(* Mutation: wrapInLock has no timer. *)
LockStepNoTimer(x) ==
    /\ \/ Lock!SelectFn(x) \/ Lock!WorkerDropsResult(x) \/ Lock!Unlock(x)
    /\ UNCHANGED sshVars

LockStep(x) ==
    /\ \/ Lock!TimerFires(x) \/ Lock!SelectTimer(x) \/ Lock!SelectFn(x)
       \/ Lock!CloseDone(x) \/ Lock!WorkerDropsResult(x) \/ Lock!Unlock(x)
    /\ UNCHANGED sshVars

-----------------------------------------------------------------------------
ConnStep ==
    \E c \in Conn :
          \/ Accept(c) \/ Handshake(c) \/ Disconnect(c) \/ HandleConnEnds(c)
          \/ \E x \in Channel, type \in {"session", "other"} : OpenChannel(c, x, type)

ChannelStep(x) ==
    \/ AcceptChannel(x) \/ NoExec(x) \/ RequestsEnd(x)
    \/ Ping(x) \/ Unknown(x) \/ OneWord(x) \/ BadName(x)
    \/ \E r \in Repo : ExecGit(x, r)
    \/ AnswerStep(x) \/ Reply(x) \/ LockStep(x)
    \/ \E e \in {"ok", "err"} : Receive(x, e)

(* The next process begins in Init: the lock and the sessions are in       *)
(* memory, and nothing of them is left.                                    *)
Ended == process = "down" /\ UNCHANGED vars

Next ==
    \/ process = "up" /\ (ConnStep \/ \E x \in Channel : ChannelStep(x))
    \/ Ended

SafetySpec == Init /\ [][Next]_vars

(* Goroutines run and timers fire; nothing is assumed of git, of clients   *)
(* or of the network.                                                      *)
Fairness ==
    \A x \in Channel :
        /\ WF_vars(process = "up" /\ AnswerStep(x))
        /\ WF_vars(process = "up" /\ LockStep(x))

Spec == SafetySpec /\ Fairness

-----------------------------------------------------------------------------
(* The whole answers a client may see, by its last request and, for git,   *)
(* by the result of wrapInLock so far.                                     *)
GitShapes(x) ==
    CASE result[x] = "none" -> {<<"success">>}
      [] result[x] = "ok"   -> {<<"success", "0", "close">>}
      [] result[x] = "err"  -> {<<"success", "1", "close">>}
      [] result[x] = "alreadyLocked" -> {<<"ERR", "1", "close">>}
      [] result[x] = "timeout" ->
            {<<"success", "1", "close">>, <<"1", "success", "close">>, <<"1", "close">>}

Shapes(x) ==
    CASE exec[x] = "none"    -> {<<"success", "close">>, <<"failure", "close">>, <<"close">>}
      [] exec[x] = "ping"    -> {<<"pong", "0", "success", "close">>}
      [] exec[x] = "unknown" -> {<<"failure", "close">>}
      [] exec[x] = "oneWord" -> {<<"failure", "0", "close">>}
      [] exec[x] = "badName" -> {<<"stderr", "close">>}
      [] exec[x] = "git"     -> GitShapes(x)

(* What a client sees is the beginning of one of the answers its command   *)
(* and the lock's verdict allow: answer and the worker write to one        *)
(* channel, but no reply is sent twice, none after the close, and 0 for a  *)
(* push only when git returned without error (server.go:217-319).          *)
ClientSeesOneAnswer ==
    \A x \in Channel :
        \E s \in Shapes(x) : \E n \in 0 .. Len(s) : wire[x] = SubSeq(s, 1, n)

(* However long git takes, a git command's channel is closed, unless the   *)
(* process ends first (server.go:218).                                     *)
ExecEndsClosed ==
    \A x \in Channel :
        chan[x] = "exec" ~> chan[x] = "none" \/ process = "down"
=============================================================================
