-------------------------- MODULE SSHSessionProofs --------------------------
(***************************************************************************)
(* Safety of the SSH sessions for any number of connections, channels and  *)
(* repositories: types, that the sessions use the lock as PushLock has it, *)
(* and what a client sees on a channel that answer and a worker share.     *)
(***************************************************************************)
EXTENDS SSHSession, SequenceTheorems, TLAPS

(* Where answer is decides where wrapInLock is, and the other way round.   *)
AnswerInv(x) ==
    /\ chan[x] # "none" => owner[x] \in Conn
    /\ chan[x] \in {"session", "other", "open"} => Lock!Free(x) /\ exec[x] = "none"
    /\ chan[x] = "exec" <=> caller[x] # "idle"
    /\ chan[x] \in {"exec", "closing"} => exec[x] = "git"
    /\ chan[x] = "closing" => result[x] # "none"

(* A worker is between LockAcquired and its rendezvous or its dropped      *)
(* result; the caller it has left, if it has, took the timer's branch.     *)
WorkerInv(x) ==
    /\ worker[x] = "running" <=> fn[x] # "none"
    /\ worker[x] # "none" => exec[x] = "git" /\ result[x] \in {"none", "timeout"}
    /\ worker[x] # "none" /\ result[x] = "none" => caller[x] = "select"
    /\ caller[x] = "select" => result[x] = "none"
    /\ caller[x] \in {"closeDone", "unlock", "returned"} => result[x] # "none"
    /\ worker[x] = "sending" => fnErr[x] \in {"ok", "err"}

(* What may have been sent before the connection was lost, or all of it.   *)
BegunInv(x) ==
    /\ exec[x] = "none" => wire[x] \in {<<>>, <<"success">>, <<"failure">>, <<"close">>,
                                        <<"success", "close">>, <<"failure", "close">>}
    /\ exec[x] = "ping" => wire[x] \in {<<>>, <<"pong", "0", "success", "close">>}
    /\ exec[x] = "unknown" => wire[x] \in {<<>>, <<"failure", "close">>}
    /\ exec[x] = "oneWord" => wire[x] \in {<<>>, <<"failure", "0", "close">>}
    /\ exec[x] = "badName" => wire[x] \in {<<>>, <<"stderr", "close">>}
    /\ exec[x] = "git" =>
          /\ result[x] = "none" => wire[x] \in {<<>>, <<"success">>}
          /\ result[x] = "ok" =>
                wire[x] \in {<<>>, <<"success">>, <<"success", "0">>, <<"success", "0", "close">>}
          /\ result[x] = "err" =>
                wire[x] \in {<<>>, <<"success">>, <<"success", "1">>, <<"success", "1", "close">>}
          /\ result[x] = "alreadyLocked" =>
                wire[x] \in {<<>>, <<"ERR", "1">>, <<"ERR", "1", "close">>}
          /\ result[x] = "timeout" =>
                wire[x] \in {<<>>, <<"success">>, <<"success", "1">>, <<"success", "1", "close">>,
                             <<"1">>, <<"1", "success">>, <<"1", "success", "close">>,
                             <<"1", "close">>}

(* What was sent, exactly, on a channel that is open and whose connection  *)
(* is there: it depends on how far answer and the worker are.              *)
SoFarInv(x) ==
    chan[x] # "none" /\ ~Lost(x) =>
        /\ chan[x] \in {"session", "other"} => wire[x] = <<>>
        /\ chan[x] = "open" => wire[x] \in {<<>>, <<"success">>, <<"failure">>}
        /\ chan[x] = "exec" =>
              wire[x] = IF fn[x] = "reply" \/ result[x] = "alreadyLocked" THEN <<>> ELSE <<"success">>
        /\ chan[x] = "closing" =>
              /\ result[x] = "ok"  => wire[x] = <<"success", "0">>
              /\ result[x] = "err" => wire[x] = <<"success", "1">>
              /\ result[x] = "alreadyLocked" => wire[x] = <<"ERR", "1">>
              /\ result[x] = "timeout" =>
                    IF fn[x] = "reply" THEN wire[x] = <<"1">>
                    ELSE wire[x] \in {<<"success", "1">>, <<"1", "success">>}

(* The inductive invariant, one channel at a time. *)
ChannelInv(x) == AnswerInv(x) /\ WorkerInv(x) /\ BegunInv(x) /\ SoFarInv(x)
SessionInv == TypeOK /\ \A x \in Channel : ChannelInv(x)

-----------------------------------------------------------------------------
(* Sequences of a few messages: how they are put together, and how they    *)
(* begin.                                                                  *)

(* One message and one are two. *)
LEMMA OneAndOne == ASSUME NEW a \in Message, NEW b \in Message PROVE <<a>> \o <<b>> = <<a, b>>
<1> DEFINE s == <<a>> \o <<b>>  t == <<a, b>>
<1>1. <<a>> \in Seq(Message) /\ <<b>> \in Seq(Message) /\ t \in Seq(Message)
  OBVIOUS
<1>2. s \in Seq(Message) /\ Len(s) = Len(t) /\ \A i \in 1 .. Len(s) : s[i] = t[i]
  BY <1>1
<1> QED
  BY <1>1, <1>2, SeqEqual, Zenon

(* Two messages and one are three. *)
LEMMA TwoAndOne ==
    ASSUME NEW a \in Message, NEW b \in Message, NEW c \in Message
    PROVE  <<a, b>> \o <<c>> = <<a, b, c>>
<1> DEFINE s == <<a, b>> \o <<c>>  t == <<a, b, c>>
<1>1. <<a, b>> \in Seq(Message) /\ <<c>> \in Seq(Message) /\ t \in Seq(Message)
  OBVIOUS
<1>2. s \in Seq(Message) /\ Len(s) = Len(t) /\ \A i \in 1 .. Len(s) : s[i] = t[i]
  BY <1>1
<1> QED
  BY <1>1, <1>2, SeqEqual, Zenon

(* Three messages and one are four. *)
LEMMA ThreeAndOne ==
    ASSUME NEW a \in Message, NEW b \in Message, NEW c \in Message, NEW d \in Message
    PROVE  <<a, b, c>> \o <<d>> = <<a, b, c, d>>
<1> DEFINE s == <<a, b, c>> \o <<d>>  t == <<a, b, c, d>>
<1>1. <<a, b, c>> \in Seq(Message) /\ <<d>> \in Seq(Message) /\ t \in Seq(Message)
  OBVIOUS
<1>2. s \in Seq(Message) /\ Len(s) = Len(t) /\ \A i \in 1 .. Len(s) : s[i] = t[i]
  BY <1>1
<1> QED
  BY <1>1, <1>2, SeqEqual, Zenon

(* The first of two messages. *)
LEMMA FirstOfTwo ==
    ASSUME NEW a \in Message, NEW b \in Message PROVE SubSeq(<<a, b>>, 1, 1) = <<a>>
<1> DEFINE s == SubSeq(<<a, b>>, 1, 1)  t == <<a>>
<1>1. s \in Seq(Message) /\ t \in Seq(Message) /\ Len(s) = Len(t) /\ \A i \in 1 .. Len(s) : s[i] = t[i]
  OBVIOUS
<1> QED
  BY <1>1, SeqEqual, Zenon

(* The first of three messages, and the first two. *)
LEMMA FirstOfThree ==
    ASSUME NEW a \in Message, NEW b \in Message, NEW c \in Message
    PROVE  SubSeq(<<a, b, c>>, 1, 1) = <<a>> /\ SubSeq(<<a, b, c>>, 1, 2) = <<a, b>>
<1> DEFINE r == <<a, b, c>>
<1>1. SubSeq(r, 1, 1) = <<a>>
  <2> DEFINE s == SubSeq(r, 1, 1)  t == <<a>>
  <2>1. s \in Seq(Message) /\ t \in Seq(Message) /\ Len(s) = Len(t) /\ \A i \in 1 .. Len(s) : s[i] = t[i]
    OBVIOUS
  <2> QED
    BY <2>1, SeqEqual, Zenon
<1>2. SubSeq(r, 1, 2) = <<a, b>>
  <2> DEFINE s == SubSeq(r, 1, 2)  t == <<a, b>>
  <2>1. s \in Seq(Message) /\ t \in Seq(Message) /\ Len(s) = Len(t) /\ \A i \in 1 .. Len(s) : s[i] = t[i]
    OBVIOUS
  <2> QED
    BY <2>1, SeqEqual, Zenon
<1> QED
  BY <1>1, <1>2

-----------------------------------------------------------------------------
(* The sessions use the lock only through its operations. *)
LEMMA SessionIsLockStep == [Next]_vars => [Lock!Next]_lockVars
<1> SUFFICES ASSUME [Next]_vars PROVE [Lock!Next]_lockVars
  OBVIOUS
<1>1. CASE UNCHANGED vars
  BY <1>1 DEF vars, lockVars
<1>2. CASE ConnStep
  BY <1>2 DEF ConnStep, Accept, Handshake, Disconnect, HandleConnEnds, OpenChannel
<1>3. ASSUME NEW x \in Channel, ChannelStep(x) PROVE [Lock!Next]_lockVars
  <2>1. CASE AcceptChannel(x) \/ NoExec(x) \/ RequestsEnd(x) \/ Close(x) \/ Reply(x)
    BY <2>1 DEF AcceptChannel, NoExec, RequestsEnd, Close, Reply
  <2>2. CASE Ping(x) \/ Unknown(x) \/ OneWord(x) \/ BadName(x)
    BY <2>2 DEF Ping, Unknown, OneWord, BadName, ExecAtOnce
  <2>3. ASSUME NEW r \in Repo, ExecGit(x, r) PROVE Lock!Next
    BY <2>3 DEF ExecGit, Lock!Next
  <2>4. CASE Answer(x)
    BY <2>4 DEF Answer, Lock!Next, Lock!CallerStep
  <2>5. ASSUME NEW e \in {"ok", "err"}, Receive(x, e) PROVE Lock!Next
    BY <2>5 DEF Receive, Lock!Next, Lock!Outcome
  <2>6. CASE LockStep(x)
    BY <2>6 DEF LockStep, Lock!Next, Lock!CallerStep
  <2> QED
    BY <1>3, <2>1, <2>2, <2>3, <2>4, <2>5, <2>6 DEF ChannelStep, AnswerStep
<1> QED
  BY <1>1, <1>2, <1>3 DEF Next, Ended

(* Every step of the lock keeps its variables in their types. *)
LEMMA StepLockTypeOK == Lock!TypeOK /\ [Lock!Next]_lockVars => Lock!TypeOK'
<1> SUFFICES ASSUME Lock!TypeOK, [Lock!Next]_lockVars PROVE Lock!TypeOK'
  OBVIOUS
<1> USE DEF Lock!TypeOK, Lock!Outcome
<1>0. ASSUME NEW x \in Channel, NEW r \in Repo, Lock!LockRefused(x, r) PROVE Lock!TypeOK'
  BY <1>0 DEF Lock!LockRefused
<1>1. ASSUME NEW x \in Channel, NEW r \in Repo, Lock!LockAcquired(x, r) PROVE Lock!TypeOK'
  BY <1>1 DEF Lock!LockAcquired
<1>2. ASSUME NEW x \in Channel, NEW e \in {"ok", "err"}, Lock!FnReturn(x, e) PROVE Lock!TypeOK'
  BY <1>2 DEF Lock!FnReturn
<1>3. ASSUME NEW x \in Channel,
             Lock!TimerFires(x) \/ Lock!WorkerDropsResult(x) \/ Lock!SelectTimer(x)
      PROVE  Lock!TypeOK'
  BY <1>3 DEF Lock!TimerFires, Lock!WorkerDropsResult, Lock!SelectTimer
<1>4. ASSUME NEW x \in Channel, Lock!SelectFn(x) PROVE Lock!TypeOK'
  BY <1>4 DEF Lock!SelectFn
<1>5. ASSUME NEW x \in Channel, Lock!CloseDone(x) \/ Lock!Unlock(x) \/ Lock!Answered(x)
      PROVE  Lock!TypeOK'
  BY <1>5 DEF Lock!CloseDone, Lock!Unlock, Lock!Answered
<1>6. CASE UNCHANGED lockVars
  BY <1>6 DEF lockVars
<1> QED
  BY <1>0, <1>1, <1>2, <1>3, <1>4, <1>5, <1>6 DEF Lock!Next, Lock!CallerStep, Lock!Outcome

-----------------------------------------------------------------------------
(* What is sent is made of messages. *)
LEMMA SentTyped ==
    ASSUME TypeOK, NEW x \in Channel, NEW msgs \in Seq(Message)
    PROVE  Sent(x, msgs) \in Seq(Message) /\ wire[x] \o Sent(x, msgs) \in Seq(Message)
<1>1. Sent(x, msgs) \in Seq(Message)
  BY DEF Sent
<1>2. wire[x] \in Seq(Message)
  BY DEF TypeOK
<1> QED
  BY <1>1, <1>2, ConcatProperties

(* Every step keeps every variable in its type. *)
LEMMA StepSessionTypeOK == TypeOK /\ [Next]_vars => TypeOK'
<1> SUFFICES ASSUME TypeOK, [Next]_vars PROVE TypeOK'
  OBVIOUS
<1>0. Lock!TypeOK'
  BY SessionIsLockStep, StepLockTypeOK DEF TypeOK
<1> DEFINE ProcessTyped ==
      /\ process \in {"up", "down"}
      /\ conn \in [Conn -> {"none", "handshake", "serving", "lost"}]
      /\ owner \in [Channel -> Conn \cup {NoConn}]
<1> DEFINE ChannelTyped ==
      /\ chan \in [Channel -> {"none", "session", "other", "open", "exec", "closing"}]
      /\ exec \in [Channel -> Command \cup {"none"}]
      /\ fn \in [Channel -> {"none", "reply", "receive"}]
<1> DEFINE WireTyped == wire \in [Channel -> Seq(Message)]
<1> SUFFICES ProcessTyped' /\ ChannelTyped' /\ WireTyped'
  BY <1>0 DEF TypeOK
<1>a. ProcessTyped /\ ChannelTyped /\ WireTyped
  BY DEF TypeOK
<1>b. ASSUME NEW x \in Channel, NEW m \in Seq(Message),
             \/ wire' = [wire EXCEPT ![x] = m]
             \/ wire' = [wire EXCEPT ![x] = Sent(x, m)]
             \/ Send(x, m)
      PROVE  WireTyped'
  <2>1. Sent(x, m) \in Seq(Message) /\ wire[x] \o Sent(x, m) \in Seq(Message)
    BY SentTyped
  <2>2. \E v \in Seq(Message) : wire' = [wire EXCEPT ![x] = v]
    BY <1>b, <2>1, Zenon DEF Send
  <2> QED
    BY <1>a, <2>2
<1>c. /\ <<>> \in Seq(Message) /\ <<"success">> \in Seq(Message) /\ <<"failure">> \in Seq(Message)
      /\ <<"close">> \in Seq(Message) /\ <<"0">> \in Seq(Message) /\ <<"1">> \in Seq(Message)
      /\ <<"ERR", "1">> \in Seq(Message) /\ <<"stderr">> \in Seq(Message)
      /\ <<"pong", "0", "success">> \in Seq(Message) /\ <<"failure", "0">> \in Seq(Message)
  BY DEF Message
<1>1. CASE UNCHANGED vars
  BY <1>a, <1>1 DEF vars
<1>2. CASE ConnStep
  <2>1. ASSUME NEW c \in Conn, Accept(c) \/ Handshake(c) \/ Disconnect(c) \/ HandleConnEnds(c)
        PROVE  ProcessTyped' /\ ChannelTyped' /\ WireTyped'
    BY <1>a, <2>1, Zenon DEF Accept, Handshake, Disconnect, HandleConnEnds
  <2>2. ASSUME NEW c \in Conn, NEW x \in Channel, NEW type \in {"session", "other"},
               OpenChannel(c, x, type)
        PROVE  ProcessTyped' /\ ChannelTyped' /\ WireTyped'
    <3>1. WireTyped'
      BY <1>b, <1>c, <2>2, Zenon DEF OpenChannel
    <3>2. ProcessTyped' /\ ChannelTyped'
      BY <1>a, <2>2 DEF OpenChannel, Goto
    <3> QED
      BY <3>1, <3>2
  <2> QED
    BY <1>2, <2>1, <2>2 DEF ConnStep
<1>3. ASSUME NEW x \in Channel, ChannelStep(x) PROVE ProcessTyped' /\ ChannelTyped' /\ WireTyped'
  <2>1. WireTyped'
    <3>1. CASE AcceptChannel(x) \/ (\E e \in {"ok", "err"} : Receive(x, e)) \/ LockStep(x)
      BY <1>a, <3>1 DEF AcceptChannel, Receive, LockStep, sshVars
    <3>2. CASE NoExec(x)
      BY <1>b, <1>c, <3>2, Zenon DEF NoExec
    <3>3. CASE RequestsEnd(x) \/ Close(x)
      BY <1>b, <1>c, <3>3, Zenon DEF RequestsEnd, Close
    <3>4. ASSUME NEW cmd, NEW m \in Seq(Message), ExecAtOnce(x, cmd, m) PROVE WireTyped'
      <4>1. m \o <<"close">> \in Seq(Message)
        BY <1>c, ConcatProperties
      <4> QED
        BY <1>b, <3>4, <4>1, Zenon DEF ExecAtOnce
    <3>5. CASE Ping(x) \/ Unknown(x) \/ OneWord(x) \/ BadName(x)
      BY <1>c, <3>4, <3>5, Zenon DEF Ping, Unknown, OneWord, BadName
    <3>6. ASSUME NEW r \in Repo, ExecGit(x, r) PROVE WireTyped'
      BY <1>b, <1>c, <3>6, Zenon DEF ExecGit
    <3>7. CASE Answer(x)
      <4>1. Verdict(x) \in Seq(Message)
        BY <1>c DEF Verdict
      <4> QED
        BY <1>b, <3>7, <4>1 DEF Answer
    <3>8. CASE Reply(x)
      BY <1>a, <1>b, <1>c, <3>8, Zenon DEF Reply
    <3> QED
      BY <1>3, <3>1, <3>2, <3>3, <3>5, <3>6, <3>7, <3>8 DEF ChannelStep, AnswerStep
  <2>2. ProcessTyped' /\ ChannelTyped'
    <3> HIDE DEF WireTyped
    <3> USE <1>a DEF Goto
    <3>1. CASE AcceptChannel(x) \/ NoExec(x) \/ RequestsEnd(x) \/ Close(x)
      BY <3>1 DEF AcceptChannel, NoExec, RequestsEnd, Close
    <3>2. ASSUME NEW cmd \in Command, NEW m, ExecAtOnce(x, cmd, m)
          PROVE  ProcessTyped' /\ ChannelTyped'
      BY <3>2 DEF ExecAtOnce
    <3>3. CASE Ping(x) \/ Unknown(x) \/ OneWord(x) \/ BadName(x)
      <4>1. {"ping", "unknown", "oneWord", "badName"} \subseteq Command
        BY DEF Command
      <4> QED
        BY <3>2, <3>3, <4>1, Zenon DEF Ping, Unknown, OneWord, BadName
    <3>4. ASSUME NEW r \in Repo, ExecGit(x, r) PROVE ProcessTyped' /\ ChannelTyped'
      BY <3>4 DEF ExecGit, Command
    <3>5. CASE Answer(x)
      BY <3>5 DEF Answer
    <3>6. CASE Reply(x)
      BY <3>6 DEF Reply
    <3>7. ASSUME NEW e \in {"ok", "err"}, Receive(x, e) PROVE ProcessTyped' /\ ChannelTyped'
      BY <3>7 DEF Receive
    <3>8. CASE LockStep(x)
      BY <3>8 DEF LockStep, sshVars
    <3> QED
      BY <1>3, <3>1, <3>3, <3>4, <3>5, <3>6, <3>7, <3>8 DEF ChannelStep, AnswerStep
  <2> QED
    BY <2>1, <2>2
<1> QED
  BY <1>1, <1>2, <1>3 DEF Next, Ended

(* Every variable of the SSH sessions keeps its type. *)
THEOREM SessionTypeCorrect == SafetySpec => []TypeOK
<1>1. Init => TypeOK
  BY DEF Init, TypeOK, Lock!Init, Lock!TypeOK, Lock!Outcome, Message
<1> QED
  BY <1>1, StepSessionTypeOK, PTL DEF SafetySpec

-----------------------------------------------------------------------------
(* The step leaves channel y, its lock call and its connection as they     *)
(* are, except that the connection may be lost.                            *)
Untouched(y) ==
    /\ chan'[y] = chan[y] /\ exec'[y] = exec[y] /\ fn'[y] = fn[y] /\ wire'[y] = wire[y]
    /\ caller'[y] = caller[y] /\ worker'[y] = worker[y]
    /\ result'[y] = result[y] /\ fnErr'[y] = fnErr[y]
    /\ chan[y] # "none" => owner'[y] = owner[y] /\ (Lost(y) => Lost(y)')

(* A step that leaves the command, the result and the wire of y alone. *)
LEMMA SameBegun ==
    ASSUME NEW y \in Channel, BegunInv(y),
           exec'[y] = exec[y], result'[y] = result[y], wire'[y] = wire[y]
    PROVE  BegunInv(y)'
  BY Zenon DEF BegunInv

(* The invariant of an untouched channel is kept. *)
LEMMA UntouchedKeepsInv ==
    ASSUME NEW y \in Channel, ChannelInv(y), Untouched(y) PROVE ChannelInv(y)'
<1>1. AnswerInv(y)'
  BY DEF ChannelInv, AnswerInv, Untouched, Lock!Free
<1>2. WorkerInv(y)'
  BY Zenon DEF ChannelInv, WorkerInv, Untouched
<1>3. BegunInv(y)'
  BY SameBegun DEF ChannelInv, Untouched
<1>4. SoFarInv(y)'
  BY Zenon DEF ChannelInv, SoFarInv, Untouched
<1> QED
  BY <1>1, <1>2, <1>3, <1>4 DEF ChannelInv

(* The domains of the variables that a step of a channel changes. *)
LEMMA Domains ==
    ASSUME TypeOK
    PROVE  /\ DOMAIN chan = Channel /\ DOMAIN exec = Channel /\ DOMAIN fn = Channel
           /\ DOMAIN wire = Channel /\ DOMAIN owner = Channel /\ DOMAIN conn = Conn
           /\ DOMAIN caller = Channel /\ DOMAIN worker = Channel
           /\ DOMAIN result = Channel /\ DOMAIN fnErr = Channel
  BY DEF TypeOK, Lock!TypeOK

(* What happens to connections leaves the channels they have alone. *)
LEMMA ConnectionsKeepInv ==
    ASSUME SessionInv, NEW c \in Conn,
           Accept(c) \/ Handshake(c) \/ Disconnect(c) \/ HandleConnEnds(c),
           NEW y \in Channel
    PROVE  ChannelInv(y)'
<1>1. UNCHANGED <<chan, exec, fn, wire, caller, worker, result, fnErr>>
  BY DEF Accept, Handshake, Disconnect, HandleConnEnds, lockVars
<1>2. chan[y] # "none" => owner[y] \in Conn
  BY DEF SessionInv, ChannelInv, AnswerInv
<1>3. DOMAIN owner = Channel /\ DOMAIN conn = Conn
  BY Domains DEF SessionInv
<1>4. chan[y] # "none" => owner'[y] = owner[y]
  BY <1>3 DEF Accept, Handshake, Disconnect, HandleConnEnds
<1>5. chan[y] # "none" /\ Lost(y) => Lost(y)'
  BY <1>2, <1>3, <1>4 DEF Accept, Handshake, Disconnect, HandleConnEnds, Lost
<1> QED
  BY <1>1, <1>4, <1>5, UntouchedKeepsInv DEF Untouched, SessionInv

(* A step of channel x touches no other channel. *)
LEMMA OtherChannelsUntouched ==
    ASSUME TypeOK, NEW x \in Channel, ChannelStep(x), NEW y \in Channel, y # x
    PROVE  Untouched(y)
<1> USE DEF Goto, Send, lockVars
<1>1. UNCHANGED <<conn, owner>> => (Lost(y) => Lost(y)')
  BY DEF Lost
<1>2. CASE AcceptChannel(x) \/ NoExec(x) \/ RequestsEnd(x) \/ Close(x) \/ Reply(x)
  BY <1>1, <1>2, Domains, Zenon DEF AcceptChannel, NoExec, RequestsEnd, Close, Reply, Untouched
<1>3. CASE Ping(x) \/ Unknown(x) \/ OneWord(x) \/ BadName(x)
  BY <1>1, <1>3, Domains, Zenon DEF Ping, Unknown, OneWord, BadName, ExecAtOnce, Untouched
<1>4. ASSUME NEW r \in Repo, ExecGit(x, r) PROVE Untouched(y)
  BY <1>1, <1>4, Domains, Zenon DEF ExecGit, Lock!LockAcquired, Lock!LockRefused, Untouched
<1>5. CASE Answer(x)
  BY <1>1, <1>5, Domains, Zenon DEF Answer, Lock!Answered, Untouched
<1>6. ASSUME NEW e \in {"ok", "err"}, Receive(x, e) PROVE Untouched(y)
  BY <1>1, <1>6, Domains, Zenon DEF Receive, Lock!FnReturn, Untouched
<1>7. CASE LockStep(x)
  BY <1>1, <1>7, Domains, Zenon
     DEF LockStep, sshVars, Lock!TimerFires, Lock!SelectTimer, Lock!SelectFn, Lock!CloseDone,
         Lock!WorkerDropsResult, Lock!Unlock, Untouched
<1> QED
  BY <1>2, <1>3, <1>4, <1>5, <1>6, <1>7, Zenon DEF ChannelStep, AnswerStep

-----------------------------------------------------------------------------
(* What is sent goes to the end of the wire, or nowhere. *)
LEMMA SendEffect ==
    ASSUME TypeOK, NEW x \in Channel, NEW m \in Seq(Message), Send(x, m)
    PROVE  wire'[x] = IF Lost(x) THEN wire[x] ELSE wire[x] \o m
<1>1. wire[x] \in Seq(Message) /\ DOMAIN wire = Channel
  BY DEF TypeOK
<1>2. wire'[x] = wire[x] \o Sent(x, m)
  BY <1>1, Zenon DEF Send
<1>3. wire[x] \o <<>> = wire[x]
  BY <1>1, ConcatEmptySeq, Zenon
<1> QED
  BY <1>2, <1>3, Zenon DEF Sent

(* The sequences that answer and the worker put together. *)
LEMMA Joined ==
    /\ <<>> \o <<"close">> = <<"close">> /\ <<>> \o <<"success">> = <<"success">>
    /\ <<>> \o <<"1">> = <<"1">> /\ <<>> \o <<"ERR", "1">> = <<"ERR", "1">>
    /\ <<"success">> \o <<"close">> = <<"success", "close">>
    /\ <<"failure">> \o <<"close">> = <<"failure", "close">>
    /\ <<"stderr">> \o <<"close">> = <<"stderr", "close">>
    /\ <<"1">> \o <<"close">> = <<"1", "close">> /\ <<"1">> \o <<"success">> = <<"1", "success">>
    /\ <<"success">> \o <<"0">> = <<"success", "0">> /\ <<"success">> \o <<"1">> = <<"success", "1">>
    /\ <<"success", "0">> \o <<"close">> = <<"success", "0", "close">>
    /\ <<"success", "1">> \o <<"close">> = <<"success", "1", "close">>
    /\ <<"1", "success">> \o <<"close">> = <<"1", "success", "close">>
    /\ <<"ERR", "1">> \o <<"close">> = <<"ERR", "1", "close">>
    /\ <<"failure", "0">> \o <<"close">> = <<"failure", "0", "close">>
    /\ <<"pong", "0", "success">> \o <<"close">> = <<"pong", "0", "success", "close">>
<1>1. /\ "close" \in Message /\ "success" \in Message /\ "failure" \in Message
      /\ "stderr" \in Message /\ "0" \in Message /\ "1" \in Message /\ "ERR" \in Message
      /\ "pong" \in Message
  BY DEF Message
<1>2. /\ <<"close">> \in Seq(Message) /\ <<"success">> \in Seq(Message)
      /\ <<"1">> \in Seq(Message) /\ <<"ERR", "1">> \in Seq(Message)
  BY <1>1
<1>3. /\ <<>> \o <<"close">> = <<"close">> /\ <<>> \o <<"success">> = <<"success">>
      /\ <<>> \o <<"1">> = <<"1">> /\ <<>> \o <<"ERR", "1">> = <<"ERR", "1">>
  BY <1>2, ConcatEmptySeq, Zenon
<1>4. /\ <<"success">> \o <<"close">> = <<"success", "close">>
      /\ <<"failure">> \o <<"close">> = <<"failure", "close">>
      /\ <<"stderr">> \o <<"close">> = <<"stderr", "close">>
      /\ <<"1">> \o <<"close">> = <<"1", "close">> /\ <<"1">> \o <<"success">> = <<"1", "success">>
      /\ <<"success">> \o <<"0">> = <<"success", "0">> /\ <<"success">> \o <<"1">> = <<"success", "1">>
  BY <1>1, OneAndOne, Zenon
<1>5. /\ <<"success", "0">> \o <<"close">> = <<"success", "0", "close">>
      /\ <<"success", "1">> \o <<"close">> = <<"success", "1", "close">>
      /\ <<"1", "success">> \o <<"close">> = <<"1", "success", "close">>
      /\ <<"ERR", "1">> \o <<"close">> = <<"ERR", "1", "close">>
      /\ <<"failure", "0">> \o <<"close">> = <<"failure", "0", "close">>
  BY <1>1, TwoAndOne, Zenon
<1>6. <<"pong", "0", "success">> \o <<"close">> = <<"pong", "0", "success", "close">>
  BY <1>1, ThreeAndOne
<1> QED
  BY <1>3, <1>4, <1>5, <1>6, Zenon

-----------------------------------------------------------------------------
(* A new channel has nothing on its wire, and its name no worker. *)
LEMMA OpenKeepsInv ==
    ASSUME SessionInv, NEW c \in Conn, NEW x \in Channel, NEW type \in {"session", "other"},
           OpenChannel(c, x, type), NEW y \in Channel
    PROVE  ChannelInv(y)'
<1>0. TypeOK /\ ChannelInv(x) /\ ChannelInv(y)
  BY Zenon DEF SessionInv
<1>1. CASE y # x
  <2>1. chan[y] # "none" => owner[y] \in Conn
    BY <1>0, Zenon DEF ChannelInv, AnswerInv
  <2>2. Untouched(y)
    BY <1>0, <1>1, <2>1, Domains, Zenon DEF OpenChannel, Untouched, Goto, lockVars, Lost
  <2> QED
    BY <1>0, <2>2, UntouchedKeepsInv, Zenon
<1>2. CASE y = x
  <2>1. /\ chan'[x] = type /\ exec'[x] = "none" /\ wire'[x] = <<>> /\ owner'[x] = c
        /\ fn'[x] = fn[x] /\ Lock!Free(x)
        /\ caller'[x] = caller[x] /\ worker'[x] = worker[x]
    BY <1>0, Domains, Zenon DEF OpenChannel, Goto, lockVars
  <2>2. AnswerInv(x)'
    BY <2>1, Zenon DEF AnswerInv, Lock!Free
  <2>3. WorkerInv(x)'
    BY <1>0, <2>1, Zenon DEF WorkerInv, ChannelInv, Lock!Free
  <2>4. BegunInv(x)' /\ SoFarInv(x)'
    BY <2>1, Zenon DEF BegunInv, SoFarInv
  <2> QED
    BY <1>2, <2>2, <2>3, <2>4, Zenon DEF ChannelInv
<1> QED
  BY <1>1, <1>2, Zenon

(* Accept of a channel. *)
LEMMA AcceptKeepsInv ==
    ASSUME SessionInv, NEW x \in Channel, AcceptChannel(x)
    PROVE  ChannelInv(x)'
<1>0. TypeOK /\ AnswerInv(x) /\ WorkerInv(x) /\ BegunInv(x) /\ SoFarInv(x)
  BY Zenon DEF SessionInv, ChannelInv
<1>1. /\ owner'[x] = owner[x] /\ (Lost(x)' <=> Lost(x))
      /\ exec'[x] = exec[x] /\ fn'[x] = fn[x] /\ wire'[x] = wire[x]
      /\ caller'[x] = caller[x] /\ worker'[x] = worker[x]
      /\ result'[x] = result[x] /\ fnErr'[x] = fnErr[x]
  BY Zenon DEF AcceptChannel, lockVars, Lost
<1>2. CASE UNCHANGED chan
  BY <1>0, <1>1, <1>2, UntouchedKeepsInv, Zenon DEF Untouched, ChannelInv
<1>3. CASE chan[x] = "session" /\ chan'[x] = "open"
  <2>1. AnswerInv(x)' /\ WorkerInv(x)'
    BY <1>0, <1>1, <1>3, Zenon DEF AnswerInv, WorkerInv, Lock!Free
  <2>2. BegunInv(x)'
    BY <1>0, <1>1, SameBegun, Zenon
  <2>3. SoFarInv(x)'
    BY <1>0, <1>1, <1>3, Zenon DEF SoFarInv
  <2> QED
    BY <2>1, <2>2, <2>3, Zenon DEF ChannelInv
<1> QED
  BY <1>0, <1>2, <1>3, Domains, Zenon DEF AcceptChannel, Goto

(* Requests that are no exec, and the end of the requests. *)
LEMMA NoExecKeepsInv ==
    ASSUME SessionInv, NEW x \in Channel, NoExec(x) \/ RequestsEnd(x)
    PROVE  ChannelInv(x)'
<1>0. TypeOK /\ AnswerInv(x) /\ WorkerInv(x) /\ BegunInv(x) /\ SoFarInv(x)
  BY Zenon DEF SessionInv, ChannelInv
<1>1. /\ owner'[x] = owner[x] /\ (Lost(x)' <=> Lost(x))
      /\ exec'[x] = exec[x] /\ fn'[x] = fn[x] /\ caller'[x] = caller[x]
      /\ worker'[x] = worker[x] /\ result'[x] = result[x]
      /\ fnErr'[x] = fnErr[x]
      /\ chan[x] = "open"
  BY Zenon DEF NoExec, RequestsEnd, lockVars, Reads, Lost
<1>2. Lock!Free(x) /\ exec[x] = "none"
  BY <1>0, <1>1, Zenon DEF AnswerInv
<1>3. CASE NoExec(x)
  <2>1. chan'[x] = chan[x] /\ wire'[x] \in {<<>>, <<"success">>, <<"failure">>}
    BY <1>0, <1>3, Domains, Zenon DEF NoExec, Sent
  <2>2. AnswerInv(x)' /\ WorkerInv(x)'
    BY <1>0, <1>1, <2>1, Zenon DEF AnswerInv, WorkerInv, Lock!Free
  <2>3. BegunInv(x)'
    BY <1>1, <1>2, <2>1, Zenon DEF BegunInv
  <2>4. SoFarInv(x)'
    BY <1>1, <2>1, Zenon DEF SoFarInv
  <2> QED
    BY <2>2, <2>3, <2>4, Zenon DEF ChannelInv
<1>4. CASE RequestsEnd(x)
  <2>1. chan'[x] = "none"
    BY <1>0, <1>4, Domains, Zenon DEF RequestsEnd, Goto
  <2>2. wire'[x] = IF Lost(x) THEN wire[x] ELSE wire[x] \o <<"close">>
    <3>1. <<"close">> \in Seq(Message)
      BY DEF Message
    <3> QED
      BY <1>0, <1>4, <3>1, SendEffect, Zenon DEF RequestsEnd
  <2>3. wire'[x] \in {<<>>, <<"success">>, <<"failure">>, <<"close">>,
                      <<"success", "close">>, <<"failure", "close">>}
    <3>1. CASE Lost(x)
      BY <1>0, <1>2, <2>2, <3>1, Zenon DEF BegunInv
    <3>2. CASE ~Lost(x)
      <4>1. wire[x] \in {<<>>, <<"success">>, <<"failure">>}
        BY <1>0, <1>1, <3>2, Zenon DEF SoFarInv
      <4>2. wire'[x] = wire[x] \o <<"close">>
        BY <2>2, <3>2, Zenon
      <4> QED
        BY <4>1, <4>2, Joined, Zenon
    <3> QED
      BY <3>1, <3>2, Zenon
  <2>4. AnswerInv(x)' /\ WorkerInv(x)'
    BY <1>0, <1>1, <2>1, Zenon DEF AnswerInv, WorkerInv, Lock!Free
  <2>5. BegunInv(x)'
    BY <1>1, <1>2, <2>3, Zenon DEF BegunInv
  <2>6. SoFarInv(x)'
    BY <2>1, Zenon DEF SoFarInv
  <2> QED
    BY <2>4, <2>5, <2>6, Zenon DEF ChannelInv
<1> QED
  BY <1>3, <1>4, Zenon

(* The commands that answer deals with by itself. *)
LEMMA AtOnceKeepsInv ==
    ASSUME SessionInv, NEW x \in Channel, Ping(x) \/ Unknown(x) \/ OneWord(x) \/ BadName(x)
    PROVE  ChannelInv(x)'
<1>0. TypeOK /\ AnswerInv(x) /\ WorkerInv(x) /\ BegunInv(x) /\ SoFarInv(x)
  BY Zenon DEF SessionInv, ChannelInv
<1>1. /\ fn'[x] = fn[x] /\ caller'[x] = caller[x] /\ worker'[x] = worker[x]
      /\ result'[x] = result[x] /\ fnErr'[x] = fnErr[x]
      /\ chan[x] = "open" /\ chan'[x] = "none"
  BY <1>0, Domains, Zenon DEF Ping, Unknown, OneWord, BadName, ExecAtOnce, Reads, Goto, lockVars
<1>2. Lock!Free(x)
  BY <1>0, <1>1, Zenon DEF AnswerInv
<1>3. AnswerInv(x)' /\ WorkerInv(x)' /\ SoFarInv(x)'
  BY <1>0, <1>1, <1>2, Zenon DEF AnswerInv, WorkerInv, SoFarInv, Lock!Free
<1>4. ASSUME NEW cmd, NEW m, ExecAtOnce(x, cmd, m)
      PROVE  exec'[x] = cmd /\ wire'[x] \in {<<>>, m \o <<"close">>}
  BY <1>0, <1>4, Domains, Zenon DEF ExecAtOnce, Sent
<1>5. CASE Ping(x)
  <2>1. exec'[x] = "ping" /\ wire'[x] \in {<<>>, <<"pong", "0", "success", "close">>}
    BY <1>4, <1>5, Joined, Zenon DEF Ping
  <2> QED
    BY <1>3, <2>1, Zenon DEF ChannelInv, BegunInv
<1>6. CASE Unknown(x)
  <2>1. exec'[x] = "unknown" /\ wire'[x] \in {<<>>, <<"failure", "close">>}
    BY <1>4, <1>6, Joined, Zenon DEF Unknown
  <2> QED
    BY <1>3, <2>1, Zenon DEF ChannelInv, BegunInv
<1>7. CASE OneWord(x)
  <2>1. exec'[x] = "oneWord" /\ wire'[x] \in {<<>>, <<"failure", "0", "close">>}
    BY <1>4, <1>7, Joined, Zenon DEF OneWord
  <2> QED
    BY <1>3, <2>1, Zenon DEF ChannelInv, BegunInv
<1>8. CASE BadName(x)
  <2>1. exec'[x] = "badName" /\ wire'[x] \in {<<>>, <<"stderr", "close">>}
    BY <1>4, <1>8, Joined, Zenon DEF BadName
  <2> QED
    BY <1>3, <2>1, Zenon DEF ChannelInv, BegunInv
<1> QED
  BY <1>5, <1>6, <1>7, <1>8, Zenon

(* A git command starts with an empty wire, whether Lock succeeds or not. *)
LEMMA ExecGitKeepsInv ==
    ASSUME SessionInv, NEW x \in Channel, NEW r \in Repo, ExecGit(x, r)
    PROVE  ChannelInv(x)'
<1>0. TypeOK /\ AnswerInv(x) /\ WorkerInv(x) /\ BegunInv(x) /\ SoFarInv(x)
  BY Zenon DEF SessionInv, ChannelInv
<1>1. /\ chan'[x] = "exec" /\ exec'[x] = "git" /\ wire'[x] = <<>> /\ owner'[x] = owner[x]
      /\ chan[x] = "open"
  BY <1>0, Domains, Zenon DEF ExecGit, Goto, Reads
<1>2. owner[x] \in Conn /\ Lock!Free(x) /\ fn[x] = "none"
  BY <1>0, <1>1, Zenon DEF AnswerInv, WorkerInv, Lock!Free
<1>3. BegunInv(x)'
  BY <1>1, Zenon DEF BegunInv
<1>4. CASE Lock!LockAcquired(x, r) /\ fn' = [fn EXCEPT ![x] = "reply"]
  <2>1. /\ fn'[x] = "reply" /\ result'[x] = "none" /\ worker'[x] = "running"
        /\ caller'[x] = "select"
    BY <1>0, <1>4, Domains, Zenon DEF Lock!LockAcquired
  <2> QED
    BY <1>1, <1>2, <1>3, <2>1, Zenon DEF ChannelInv, AnswerInv, WorkerInv, SoFarInv
<1>5. CASE Lock!LockRefused(x, r) /\ UNCHANGED fn
  <2>1. /\ fn'[x] = fn[x] /\ result'[x] = "alreadyLocked" /\ worker'[x] = worker[x]
        /\ caller'[x] = "returned"
    BY <1>0, <1>5, Domains, Zenon DEF Lock!LockRefused
  <2> QED
    BY <1>1, <1>2, <1>3, <2>1, Zenon DEF ChannelInv, AnswerInv, WorkerInv, SoFarInv, Lock!Free
<1> QED
  BY <1>4, <1>5, Zenon DEF ExecGit

(* answer sends the exit status of wrapInLock's result. *)
LEMMA AnswerKeepsInv ==
    ASSUME SessionInv, NEW x \in Channel, Answer(x)
    PROVE  ChannelInv(x)'
<1>0. TypeOK /\ AnswerInv(x) /\ WorkerInv(x) /\ BegunInv(x) /\ SoFarInv(x)
  BY Zenon DEF SessionInv, ChannelInv
<1>1. /\ chan[x] = "exec" /\ chan'[x] = "closing" /\ caller[x] = "returned" /\ caller'[x] = "idle"
      /\ owner'[x] = owner[x] /\ (Lost(x)' <=> Lost(x))
      /\ exec'[x] = exec[x] /\ fn'[x] = fn[x] /\ worker'[x] = worker[x]
      /\ result'[x] = result[x] /\ fnErr'[x] = fnErr[x]
  BY <1>0, Domains, Zenon DEF Answer, Goto, Lock!Answered, Lost
<1>2. exec[x] = "git" /\ owner[x] \in Conn /\ result[x] \in {"ok", "err", "timeout", "alreadyLocked"}
      /\ (result[x] \in {"ok", "err", "alreadyLocked"} => worker[x] = "none" /\ fn[x] = "none")
  BY <1>0, <1>1, Zenon DEF AnswerInv, WorkerInv, TypeOK, Lock!TypeOK, Lock!Outcome
<1>3. AnswerInv(x)' /\ WorkerInv(x)'
  BY <1>0, <1>1, <1>2, Zenon DEF AnswerInv, WorkerInv
<1>4. wire'[x] = IF Lost(x) THEN wire[x] ELSE wire[x] \o Verdict(x)
  <2>1. <<"ERR", "1">> \in Seq(Message) /\ <<"0">> \in Seq(Message) /\ <<"1">> \in Seq(Message)
    BY DEF Message
  <2>2. Verdict(x) \in Seq(Message)
    BY <2>1, Zenon DEF Verdict
  <2> QED
    BY <1>0, <2>2, SendEffect, Zenon DEF Answer
<1>6. CASE Lost(x)
  <2>1. BegunInv(x)'
    BY <1>0, <1>1, <1>4, <1>6, SameBegun, Zenon
  <2> QED
    BY <1>1, <1>3, <1>6, <2>1, Zenon DEF ChannelInv, SoFarInv
<1>7. CASE ~Lost(x)
  <2>1. wire[x] = IF fn[x] = "reply" \/ result[x] = "alreadyLocked" THEN <<>> ELSE <<"success">>
    BY <1>0, <1>1, <1>7, Zenon DEF SoFarInv
  <2>2. wire'[x] = wire[x] \o Verdict(x)
    BY <1>4, <1>7, Zenon
  <2>3. result[x] = "ok" => wire'[x] = <<"success", "0">>
    BY <1>2, <2>1, <2>2, Joined, Zenon DEF Verdict
  <2>4. result[x] = "err" => wire'[x] = <<"success", "1">>
    BY <1>2, <2>1, <2>2, Joined, Zenon DEF Verdict
  <2>5. result[x] = "alreadyLocked" => wire'[x] = <<"ERR", "1">>
    BY <2>1, <2>2, Joined, Zenon DEF Verdict
  <2>6. result[x] = "timeout" => IF fn[x] = "reply" THEN wire'[x] = <<"1">>
                                 ELSE wire'[x] = <<"success", "1">>
    BY <2>1, <2>2, Joined, Zenon DEF Verdict
  <2>7. SoFarInv(x)'
    BY <1>1, <2>3, <2>4, <2>5, <2>6, Zenon DEF SoFarInv
  <2>8. BegunInv(x)'
    BY <1>1, <1>2, <2>3, <2>4, <2>5, <2>6, Zenon DEF BegunInv
  <2> QED
    BY <1>3, <2>7, <2>8, Zenon DEF ChannelInv
<1> QED
  BY <1>6, <1>7, Zenon

(* The deferred Close is the last thing sent. *)
LEMMA CloseKeepsInv ==
    ASSUME SessionInv, NEW x \in Channel, Close(x)
    PROVE  ChannelInv(x)'
<1>0. TypeOK /\ AnswerInv(x) /\ WorkerInv(x) /\ BegunInv(x) /\ SoFarInv(x)
  BY Zenon DEF SessionInv, ChannelInv
<1>1. /\ chan[x] = "closing" /\ chan'[x] = "none"
      /\ exec'[x] = exec[x] /\ fn'[x] = fn[x] /\ caller'[x] = caller[x]
      /\ worker'[x] = worker[x] /\ result'[x] = result[x]
      /\ fnErr'[x] = fnErr[x]
  BY <1>0, Domains, Zenon DEF Close, Goto, lockVars
<1>2. exec[x] = "git" /\ result[x] \in {"ok", "err", "timeout", "alreadyLocked"}
  BY <1>0, <1>1, Zenon DEF AnswerInv, TypeOK, Lock!TypeOK, Lock!Outcome
<1>3. AnswerInv(x)' /\ WorkerInv(x)' /\ SoFarInv(x)'
  BY <1>0, <1>1, Zenon DEF AnswerInv, WorkerInv, SoFarInv
<1>4. wire'[x] = IF Lost(x) THEN wire[x] ELSE wire[x] \o <<"close">>
  <2>1. <<"close">> \in Seq(Message)
    BY DEF Message
  <2> QED
    BY <1>0, <2>1, SendEffect, Zenon DEF Close
<1>5. CASE Lost(x)
  BY <1>0, <1>1, <1>3, <1>4, <1>5, SameBegun, Zenon DEF ChannelInv
<1>6. CASE ~Lost(x)
  <2>1. /\ result[x] = "ok"  => wire[x] = <<"success", "0">>
        /\ result[x] = "err" => wire[x] = <<"success", "1">>
        /\ result[x] = "alreadyLocked" => wire[x] = <<"ERR", "1">>
        /\ result[x] = "timeout" => wire[x] \in {<<"1">>, <<"success", "1">>, <<"1", "success">>}
    BY <1>0, <1>1, <1>6, Zenon DEF SoFarInv
  <2>2. wire'[x] = wire[x] \o <<"close">>
    BY <1>4, <1>6, Zenon
  <2>3. /\ result[x] = "ok"  => wire'[x] = <<"success", "0", "close">>
        /\ result[x] = "err" => wire'[x] = <<"success", "1", "close">>
        /\ result[x] = "alreadyLocked" => wire'[x] = <<"ERR", "1", "close">>
    BY <2>1, <2>2, Joined, Zenon
  <2>4. result[x] = "timeout" => wire'[x] \in {<<"1", "close">>, <<"success", "1", "close">>,
                                               <<"1", "success", "close">>}
    BY <2>1, <2>2, Joined, Zenon
  <2>5. BegunInv(x)'
    BY <1>1, <1>2, <2>3, <2>4, Zenon DEF BegunInv
  <2> QED
    BY <1>3, <2>5, Zenon DEF ChannelInv
<1> QED
  BY <1>5, <1>6, Zenon

(* The worker's req.Reply: before or, when answer gave up on it, after the *)
(* exit status; nothing once the channel is closed.                        *)
LEMMA ReplyKeepsInv ==
    ASSUME SessionInv, NEW x \in Channel, Reply(x)
    PROVE  ChannelInv(x)'
<1>0. TypeOK /\ AnswerInv(x) /\ WorkerInv(x) /\ BegunInv(x) /\ SoFarInv(x)
  BY Zenon DEF SessionInv, ChannelInv
<1>1. /\ worker[x] = "running" /\ fn[x] = "reply" /\ fn'[x] = "receive"
      /\ owner'[x] = owner[x] /\ (Lost(x)' <=> Lost(x))
      /\ chan'[x] = chan[x] /\ exec'[x] = exec[x] /\ caller'[x] = caller[x]
      /\ worker'[x] = worker[x] /\ result'[x] = result[x]
      /\ fnErr'[x] = fnErr[x]
  BY <1>0, Domains, Zenon DEF Reply, lockVars, Lost
<1>2. /\ exec[x] = "git" /\ result[x] \in {"none", "timeout"}
      /\ chan[x] \in {"none", "exec", "closing"} /\ (chan[x] = "closing" => result[x] = "timeout")
  BY <1>0, <1>1, Zenon DEF AnswerInv, WorkerInv, TypeOK, Lock!Free
<1>3. AnswerInv(x)' /\ WorkerInv(x)'
  BY <1>0, <1>1, Zenon DEF AnswerInv, WorkerInv, Lock!Free
<1>5. CASE chan[x] = "none" \/ Lost(x)
  <2>1. wire'[x] = wire[x]
    <3>1. <<"success">> \in Seq(Message)
      BY DEF Message
    <3>2. Send(x, <<"success">>) \/ UNCHANGED wire
      BY Zenon DEF Reply
    <3>3. chan[x] = "none" => UNCHANGED wire
      BY Zenon DEF Reply, Replyable
    <3> QED
      BY <1>0, <1>5, <3>1, <3>2, <3>3, SendEffect, Zenon
  <2>2. BegunInv(x)'
    BY <1>0, <1>1, <2>1, SameBegun, Zenon
  <2> QED
    BY <1>1, <1>3, <1>5, <2>2, Zenon DEF ChannelInv, SoFarInv
<1>6. CASE chan[x] # "none" /\ ~Lost(x)
  <2>1. wire'[x] = wire[x] \o <<"success">>
    <3>1. <<"success">> \in Seq(Message)
      BY DEF Message
    <3>2. Send(x, <<"success">>)
      BY <1>6, Zenon DEF Reply, Replyable
    <3> QED
      BY <1>0, <1>6, <3>1, <3>2, SendEffect, Zenon
  <2>2. CASE chan[x] = "exec"
    <3>1. wire[x] = <<>>
      BY <1>0, <1>1, <1>6, <2>2, Zenon DEF SoFarInv
    <3>2. wire'[x] = <<"success">>
      BY <2>1, <3>1, Joined, Zenon
    <3>3. SoFarInv(x)'
      BY <1>1, <1>2, <2>2, <3>2, Zenon DEF SoFarInv
    <3>4. BegunInv(x)'
      BY <1>1, <1>2, <3>2, Zenon DEF BegunInv
    <3> QED
      BY <1>3, <3>3, <3>4, Zenon DEF ChannelInv
  <2>3. CASE chan[x] = "closing"
    <3>1. wire[x] = <<"1">>
      BY <1>0, <1>1, <1>2, <1>6, <2>3, Zenon DEF SoFarInv
    <3>2. wire'[x] = <<"1", "success">>
      BY <2>1, <3>1, Joined, Zenon
    <3>3. SoFarInv(x)'
      BY <1>1, <1>2, <2>3, <3>2, Zenon DEF SoFarInv
    <3>4. BegunInv(x)'
      BY <1>1, <1>2, <2>3, <3>2, Zenon DEF BegunInv
    <3> QED
      BY <1>3, <3>3, <3>4, Zenon DEF ChannelInv
  <2> QED
    BY <1>2, <1>6, <2>2, <2>3, Zenon
<1> QED
  BY <1>5, <1>6, Zenon

(* Receive returns to the worker, which sends nothing to the client. *)
LEMMA ReceiveKeepsInv ==
    ASSUME SessionInv, NEW x \in Channel, NEW e \in {"ok", "err"}, Receive(x, e)
    PROVE  ChannelInv(x)'
<1>0. TypeOK /\ AnswerInv(x) /\ WorkerInv(x) /\ BegunInv(x) /\ SoFarInv(x)
  BY Zenon DEF SessionInv, ChannelInv
<1>1. /\ fn[x] = "receive" /\ fn'[x] = "none" /\ worker[x] = "running" /\ worker'[x] = "sending"
      /\ fnErr'[x] = e
      /\ owner'[x] = owner[x] /\ (Lost(x)' <=> Lost(x))
      /\ chan'[x] = chan[x] /\ exec'[x] = exec[x] /\ wire'[x] = wire[x]
      /\ caller'[x] = caller[x] /\ result'[x] = result[x]
  BY <1>0, Domains, Zenon DEF Receive, Lock!FnReturn, Lost
<1>2. AnswerInv(x)' /\ WorkerInv(x)'
  BY <1>0, <1>1, Zenon DEF AnswerInv, WorkerInv, Lock!Free
<1>3. BegunInv(x)'
  BY <1>0, <1>1, SameBegun, Zenon
<1>4. SoFarInv(x)'
  BY <1>0, <1>1, Zenon DEF SoFarInv
<1> QED
  BY <1>2, <1>3, <1>4, Zenon DEF ChannelInv

(* The steps of the lock send nothing; its result decides what may follow. *)
LEMMA LockKeepsInv ==
    ASSUME SessionInv, NEW x \in Channel, LockStep(x)
    PROVE  ChannelInv(x)'
<1>0. TypeOK /\ AnswerInv(x) /\ WorkerInv(x) /\ BegunInv(x) /\ SoFarInv(x)
  BY Zenon DEF SessionInv, ChannelInv
<1>1. /\ owner'[x] = owner[x] /\ (Lost(x)' <=> Lost(x))
      /\ chan'[x] = chan[x] /\ exec'[x] = exec[x] /\ fn'[x] = fn[x]
      /\ wire'[x] = wire[x]
  BY Zenon DEF LockStep, sshVars, Lost
<1>2. CASE Lock!TimerFires(x)
  <2>1. Untouched(x)
    BY <1>1, <1>2, Zenon DEF Lock!TimerFires, Untouched
  <2> QED
    BY <1>0, <2>1, UntouchedKeepsInv, Zenon DEF ChannelInv
<1>3. CASE Lock!SelectTimer(x)
  <2>1. /\ caller[x] = "select" /\ caller'[x] = "closeDone" /\ result'[x] = "timeout"
        /\ worker'[x] = worker[x] /\ fnErr'[x] = fnErr[x]
    BY <1>0, <1>3, Domains, Zenon DEF Lock!SelectTimer
  <2>2. result[x] = "none" /\ chan[x] = "exec" /\ exec[x] = "git"
    BY <1>0, <2>1, Zenon DEF AnswerInv, WorkerInv
  <2>3. AnswerInv(x)' /\ WorkerInv(x)'
    BY <1>0, <1>1, <2>1, <2>2, Zenon DEF AnswerInv, WorkerInv
  <2>4. BegunInv(x)'
    BY <1>0, <1>1, <2>1, <2>2, Zenon DEF BegunInv
  <2>5. SoFarInv(x)'
    BY <1>0, <1>1, <2>1, <2>2, Zenon DEF SoFarInv
  <2> QED
    BY <2>3, <2>4, <2>5, Zenon DEF ChannelInv
<1>4. CASE Lock!SelectFn(x)
  <2>1. /\ caller[x] = "select" /\ caller'[x] = "unlock" /\ result'[x] = fnErr[x]
        /\ worker[x] = "sending" /\ worker'[x] = "none" /\ fnErr'[x] = fnErr[x]
    BY <1>0, <1>4, Domains, Zenon DEF Lock!SelectFn
  <2>2. /\ result[x] = "none" /\ chan[x] = "exec" /\ exec[x] = "git"
        /\ fn[x] = "none" /\ fnErr[x] \in {"ok", "err"}
    BY <1>0, <2>1, Zenon DEF AnswerInv, WorkerInv
  <2>3. AnswerInv(x)' /\ WorkerInv(x)'
    BY <1>0, <1>1, <2>1, <2>2, Zenon DEF AnswerInv, WorkerInv
  <2>4. BegunInv(x)'
    BY <1>0, <1>1, <2>1, <2>2, Zenon DEF BegunInv
  <2>5. SoFarInv(x)'
    BY <1>0, <1>1, <2>1, <2>2, Zenon DEF SoFarInv
  <2> QED
    BY <2>3, <2>4, <2>5, Zenon DEF ChannelInv
<1>5. CASE Lock!CloseDone(x) \/ Lock!Unlock(x) \/ Lock!WorkerDropsResult(x)
  <2>1. /\ result'[x] = result[x] /\ fnErr'[x] = fnErr[x]
        /\ \/ /\ caller[x] \in {"closeDone", "unlock"} /\ caller'[x] \in {"unlock", "returned"}
              /\ worker'[x] = worker[x]
           \/ worker[x] = "sending" /\ worker'[x] = "none" /\ caller'[x] = caller[x]
    BY <1>0, <1>5, Domains, Zenon DEF Lock!CloseDone, Lock!Unlock, Lock!WorkerDropsResult
  <2>2. AnswerInv(x)' /\ WorkerInv(x)'
    BY <1>0, <1>1, <2>1, Zenon DEF AnswerInv, WorkerInv, Lock!Free
  <2>3. BegunInv(x)'
    BY <1>0, <1>1, <2>1, SameBegun, Zenon
  <2>4. SoFarInv(x)'
    BY <1>0, <1>1, <2>1, Zenon DEF SoFarInv
  <2> QED
    BY <2>2, <2>3, <2>4, Zenon DEF ChannelInv
<1> QED
  BY <1>2, <1>3, <1>4, <1>5, Zenon DEF LockStep

(* The inductive invariant is kept by every step. *)
LEMMA StepSessionInv == SessionInv /\ [Next]_vars => SessionInv'
<1> SUFFICES ASSUME SessionInv, [Next]_vars PROVE SessionInv'
  OBVIOUS
<1>0. TypeOK'
  BY StepSessionTypeOK, Zenon DEF SessionInv
<1> SUFFICES ASSUME NEW y \in Channel PROVE ChannelInv(y)'
  BY <1>0, Zenon DEF SessionInv
<1>1. CASE UNCHANGED vars
  <2>1. Untouched(y)
    BY <1>1, Zenon DEF vars, Untouched, Lost
  <2> QED
    BY <2>1, UntouchedKeepsInv, Zenon DEF SessionInv
<1>2. CASE ConnStep
  BY <1>2, ConnectionsKeepInv, OpenKeepsInv, Zenon DEF ConnStep
<1>3. ASSUME NEW x \in Channel, ChannelStep(x) PROVE ChannelInv(y)'
  <2>1. CASE y # x
    BY <1>3, <2>1, OtherChannelsUntouched, UntouchedKeepsInv, Zenon DEF SessionInv
  <2>2. ChannelInv(x)'
    BY <1>3, AcceptKeepsInv, NoExecKeepsInv, AtOnceKeepsInv, ExecGitKeepsInv, AnswerKeepsInv,
       CloseKeepsInv, ReplyKeepsInv, ReceiveKeepsInv, LockKeepsInv, Zenon
       DEF ChannelStep, AnswerStep
  <2> QED
    BY <2>1, <2>2, Zenon
<1> QED
  BY <1>1, <1>2, <1>3, Zenon DEF Next, Ended

-----------------------------------------------------------------------------
(* w is the beginning of s. *)
Begins(w, s) == \E n \in 0 .. Len(s) : w = SubSeq(s, 1, n)

(* Nothing, and the whole of it, begin a sequence. *)
LEMMA NothingAndAllBegin ==
    ASSUME NEW s \in Seq(Message) PROVE Begins(<<>>, s) /\ Begins(s, s)
<1>1. Len(s) \in Nat /\ SubSeq(s, 1, 0) = <<>>
  BY SubSeqEmpty
<1>2. SubSeq(s, 1, Len(s)) = s
  BY SubSeqFull
<1>3. 0 \in 0 .. Len(s) /\ Len(s) \in 0 .. Len(s)
  BY <1>1
<1> QED
  BY <1>1, <1>2, <1>3, Zenon DEF Begins

(* The first messages of two or three begin them. *)
LEMMA SomeBegins ==
    ASSUME NEW a \in Message, NEW b \in Message, NEW c \in Message
    PROVE  Begins(<<a>>, <<a, b>>) /\ Begins(<<a>>, <<a, b, c>>) /\ Begins(<<a, b>>, <<a, b, c>>)
<1>1. 1 \in 0 .. Len(<<a, b>>) /\ 1 \in 0 .. Len(<<a, b, c>>) /\ 2 \in 0 .. Len(<<a, b, c>>)
  OBVIOUS
<1> QED
  BY <1>1, FirstOfTwo, FirstOfThree, Zenon DEF Begins

(* The invariant gives what the client sees. *)
LEMMA InvGivesAnswer == SessionInv => ClientSeesOneAnswer
<1> SUFFICES ASSUME SessionInv, NEW x \in Channel
             PROVE  \E s \in Shapes(x) : Begins(wire[x], s)
  BY Zenon DEF ClientSeesOneAnswer, Begins
<1>0. BegunInv(x) /\ exec[x] \in Command \cup {"none"}
      /\ result[x] \in {"none", "ok", "err", "timeout", "alreadyLocked"}
  BY DEF SessionInv, ChannelInv, TypeOK, Lock!TypeOK, Lock!Outcome
<1>1. Message = {"success", "failure", "pong", "ERR", "stderr", "0", "1", "close"}
  BY DEF Message
<1>2. /\ <<"success">> \in Seq(Message) /\ <<"close">> \in Seq(Message)
      /\ <<"success", "close">> \in Seq(Message) /\ <<"failure", "close">> \in Seq(Message)
      /\ <<"stderr", "close">> \in Seq(Message) /\ <<"failure", "0", "close">> \in Seq(Message)
      /\ <<"pong", "0", "success", "close">> \in Seq(Message)
      /\ <<"success", "0", "close">> \in Seq(Message) /\ <<"success", "1", "close">> \in Seq(Message)
      /\ <<"ERR", "1", "close">> \in Seq(Message) /\ <<"1", "success", "close">> \in Seq(Message)
      /\ <<"1", "close">> \in Seq(Message)
  BY <1>1
<1>3. /\ "success" \in Message /\ "failure" \in Message /\ "ERR" \in Message
      /\ "0" \in Message /\ "1" \in Message /\ "close" \in Message
  BY <1>1
<1>4. CASE exec[x] = "none"
  <2>1. Shapes(x) = {<<"success", "close">>, <<"failure", "close">>, <<"close">>}
    BY <1>4 DEF Shapes
  <2>2. wire[x] \in {<<>>, <<"success">>, <<"failure">>, <<"close">>,
                     <<"success", "close">>, <<"failure", "close">>}
    BY <1>0, <1>4, Zenon DEF BegunInv
  <2>3. Begins(<<"success">>, <<"success", "close">>) /\ Begins(<<"failure">>, <<"failure", "close">>)
    BY <1>3, SomeBegins, Zenon
  <2> QED
    BY <1>2, <2>1, <2>2, <2>3, NothingAndAllBegin, Zenon
<1>5. CASE exec[x] = "ping"
  <2>1. Shapes(x) = {<<"pong", "0", "success", "close">>}
    BY <1>5 DEF Shapes
  <2>2. wire[x] \in {<<>>, <<"pong", "0", "success", "close">>}
    BY <1>0, <1>5, Zenon DEF BegunInv
  <2> QED
    BY <1>2, <2>1, <2>2, NothingAndAllBegin, Zenon
<1>6. CASE exec[x] = "unknown"
  <2>1. Shapes(x) = {<<"failure", "close">>}
    BY <1>6 DEF Shapes
  <2>2. wire[x] \in {<<>>, <<"failure", "close">>}
    BY <1>0, <1>6, Zenon DEF BegunInv
  <2> QED
    BY <1>2, <2>1, <2>2, NothingAndAllBegin, Zenon
<1>7. CASE exec[x] = "oneWord"
  <2>1. Shapes(x) = {<<"failure", "0", "close">>}
    BY <1>7 DEF Shapes
  <2>2. wire[x] \in {<<>>, <<"failure", "0", "close">>}
    BY <1>0, <1>7, Zenon DEF BegunInv
  <2> QED
    BY <1>2, <2>1, <2>2, NothingAndAllBegin, Zenon
<1>8. CASE exec[x] = "badName"
  <2>1. Shapes(x) = {<<"stderr", "close">>}
    BY <1>8 DEF Shapes
  <2>2. wire[x] \in {<<>>, <<"stderr", "close">>}
    BY <1>0, <1>8, Zenon DEF BegunInv
  <2> QED
    BY <1>2, <2>1, <2>2, NothingAndAllBegin, Zenon
<1>9. CASE exec[x] = "git"
  <2>0. Shapes(x) = GitShapes(x)
    BY <1>9 DEF Shapes
  <2>1. CASE result[x] = "none"
    <3>1. Shapes(x) = {<<"success">>}
      BY <2>0, <2>1 DEF GitShapes
    <3> QED
      BY <1>0, <1>2, <1>9, <2>1, <3>1, NothingAndAllBegin, Zenon DEF BegunInv
  <2>2. CASE result[x] = "ok"
    <3>1. Shapes(x) = {<<"success", "0", "close">>}
      BY <2>0, <2>2 DEF GitShapes
    <3>2. wire[x] \in {<<>>, <<"success">>, <<"success", "0">>, <<"success", "0", "close">>}
      BY <1>0, <1>9, <2>2, Zenon DEF BegunInv
    <3>3. Begins(<<"success">>, <<"success", "0", "close">>)
          /\ Begins(<<"success", "0">>, <<"success", "0", "close">>)
      BY <1>3, SomeBegins, Zenon
    <3> QED
      BY <1>2, <3>1, <3>2, <3>3, NothingAndAllBegin, Zenon
  <2>3. CASE result[x] = "err"
    <3>1. Shapes(x) = {<<"success", "1", "close">>}
      BY <2>0, <2>3 DEF GitShapes
    <3>2. wire[x] \in {<<>>, <<"success">>, <<"success", "1">>, <<"success", "1", "close">>}
      BY <1>0, <1>9, <2>3, Zenon DEF BegunInv
    <3>3. Begins(<<"success">>, <<"success", "1", "close">>)
          /\ Begins(<<"success", "1">>, <<"success", "1", "close">>)
      BY <1>3, SomeBegins, Zenon
    <3> QED
      BY <1>2, <3>1, <3>2, <3>3, NothingAndAllBegin, Zenon
  <2>4. CASE result[x] = "alreadyLocked"
    <3>1. Shapes(x) = {<<"ERR", "1", "close">>}
      BY <2>0, <2>4 DEF GitShapes
    <3>2. wire[x] \in {<<>>, <<"ERR", "1">>, <<"ERR", "1", "close">>}
      BY <1>0, <1>9, <2>4, Zenon DEF BegunInv
    <3>3. Begins(<<"ERR", "1">>, <<"ERR", "1", "close">>)
      BY <1>3, SomeBegins, Zenon
    <3> QED
      BY <1>2, <3>1, <3>2, <3>3, NothingAndAllBegin, Zenon
  <2>5. CASE result[x] = "timeout"
    <3>1. Shapes(x) = {<<"success", "1", "close">>, <<"1", "success", "close">>, <<"1", "close">>}
      BY <2>0, <2>5 DEF GitShapes
    <3>2. wire[x] \in {<<>>, <<"success">>, <<"success", "1">>, <<"success", "1", "close">>, <<"1">>,
                       <<"1", "success">>, <<"1", "success", "close">>, <<"1", "close">>}
      BY <1>0, <1>9, <2>5, Zenon DEF BegunInv
    <3>3. /\ Begins(<<"success">>, <<"success", "1", "close">>)
          /\ Begins(<<"success", "1">>, <<"success", "1", "close">>)
          /\ Begins(<<"1">>, <<"1", "close">>)
          /\ Begins(<<"1", "success">>, <<"1", "success", "close">>)
      BY <1>3, SomeBegins, Zenon
    <3> QED
      BY <1>2, <3>1, <3>2, <3>3, NothingAndAllBegin, Zenon
  <2> QED
    BY <1>0, <2>1, <2>2, <2>3, <2>4, <2>5
<1> QED
  BY <1>0, <1>4, <1>5, <1>6, <1>7, <1>8, <1>9 DEF Command

(* However the steps of answer, of the worker and of the peer interleave,  *)
(* on any number of channels: a client sees the beginning of one answer,   *)
(* with no reply sent twice or after the close, and 0 for a push only when *)
(* git returned without error (server.go:217-319).                         *)
THEOREM ClientAlwaysSeesOneAnswer == SafetySpec => []ClientSeesOneAnswer
<1>1. Init => SessionInv
  <2>1. Init => TypeOK
    BY DEF Init, TypeOK, Lock!Init, Lock!TypeOK, Lock!Outcome, Message
  <2>2. Init => \A x \in Channel : ChannelInv(x)
    BY DEF Init, Lock!Init, ChannelInv, AnswerInv, WorkerInv, BegunInv, SoFarInv
  <2> QED
    BY <2>1, <2>2 DEF SessionInv
<1> QED
  BY <1>1, StepSessionInv, InvGivesAnswer, PTL DEF SafetySpec
=============================================================================
