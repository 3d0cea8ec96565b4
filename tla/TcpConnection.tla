--------------------------- MODULE TcpConnection ----------------------------
(***************************************************************************)
(* One TcpConnection (net/TcpConnection.cpp) in its io loop: established   *)
(* by a functor, driven by the events of its channel, written to and shut  *)
(* down by user code in the loop's thread and by other threads, destroyed  *)
(* by a functor that the TcpServer queues.                                 *)
(*                                                                         *)
(* The loop's functors are the FIFO of TaskQueue, which EventLoop is shown *)
(* to implement.  All of the object but _state belongs to the loop thread, *)
(* so a handler is one action up to the point where it calls user code.    *)
(* _state is shared: in send() and shutdown() every access to it and the   *)
(* queueing of the functor are steps of their own, and so are the test and *)
(* the assignment in connectDestroyed().                                   *)
(*                                                                         *)
(* Assumed of the users: a thread keeps its TcpConnectionPtr until what it *)
(* queued has run (send() and shutdown() bind a raw `this').  Assumed of   *)
(* the process: SIGPIPE is ignored, so a write to a dead socket is EPIPE.  *)
(***************************************************************************)
EXTENDS EpollPoller, Sequences, FiniteSets, Functions

CONSTANTS LoopThread,     \* the thread of the io loop
          Threads,        \* the other threads
          Senders,        \* the threads that call send()
          Closers,        \* the threads that call shutdown()
          Messages,       \* each is sent at most once
          MessageLen,     \* the bytes of a message
          SendBuffer,     \* the room of the socket's send buffer, in bytes
          HighWaterMark,  \* _highWaterMark
          MaxInput        \* a bound: the bytes the peer sends

AllThreads == Threads \cup {LoopThread}

ASSUME ThreadsAssumption ==
    LoopThread \notin Threads /\ Senders \subseteq AllThreads
                              /\ Closers \subseteq AllThreads
ASSUME SizeAssumption ==
    /\ MessageLen \in Nat \ {0} /\ SendBuffer \in Nat \ {0}
    /\ HighWaterMark \in Nat \ {0} /\ MaxInput \in Nat

VARIABLES state,     \* _state
          channel,   \* _channel and what the poller knows of it
          out,       \* _outputBuffer, byte by byte: the message it is from
          tasks,     \* the functors queued in the loop, oldest first
          pc,        \* what the loop thread is doing, see below
          revents,   \* what is left of the events the last poll reported
          call,      \* [Threads -> where a thread is in send() or shutdown()]
          server,    \* the TcpServer "holds" the connection in its map, has
                     \* "erased" it, or was destroyed ("dead")
          closing,   \* closeCallback calls the TcpServer has yet to act on
          destroyed, \* connectDestroyed() has run
          peer,      \* "open", "fin" (it shut down its side) or "rst"
          soError,   \* the socket holds an error nobody has fetched yet
          inbox,     \* bytes that have arrived and have not been read
          input,     \* bytes the peer may still send
          room,      \* free bytes of the socket's send buffer
          finSent,   \* shutdownWrite() was called
          wire,      \* history: the bytes written to the socket, in order
          accepted,  \* history: the bytes sendInLoop took on, in order
          sent,      \* history: [AllThreads -> the messages it sent]
          promised,  \* history: the messages a thread sent before its shutdown()
          overtaken, \* history: those still queued when the write side was
                     \* closed by handleWrite or by shutdown() in the loop
          brokenWrite, \* history: a write after finSent, see NoWriteAfterFin
          ups, downs \* history: how often connectionCallback said UP and DOWN

loopVars == <<channel, out, pc, revents>>
serverVars == <<server, closing, destroyed>>
kernelVars == <<peer, soError, inbox, input, room>>
history == <<wire, accepted, sent, promised, overtaken, brokenWrite, ups, downs>>
vars == <<state, loopVars, tasks, call, serverVars, kernelVars, finSent, history>>

(* pc is "idle" in the loop's own code, "destroying" between the test and  *)
(* the assignment of connectDestroyed(), "user" in a callback.             *)
InUser(th) == IF th = LoopThread THEN pc = "user" ELSE call[th] = <<"idle">>

Bytes(m) == [i \in 1 .. MessageLen |-> m]
Least(a, b) == IF a <= b THEN a ELSE b
Taken(tuple) == tasks # <<>> /\ pc = "idle" /\ revents = {} /\ Head(tasks) = tuple

Init ==
    /\ state = "kConnecting"
    /\ channel = NewChannel
    /\ out = <<>> /\ tasks = <<<<"establish">>>>
    /\ pc = "idle" /\ revents = {}
    /\ call = [th \in Threads |-> <<"idle">>]
    /\ server = "holds" /\ closing = 0 /\ destroyed = FALSE
    /\ peer = "open" /\ soError = FALSE
    /\ inbox = 0 /\ input = MaxInput /\ room = SendBuffer
    /\ finSent = FALSE
    /\ wire = <<>> /\ accepted = <<>> /\ sent = [th \in AllThreads |-> {}]
    /\ promised = {} /\ overtaken = {} /\ brokenWrite = FALSE
    /\ ups = 0 /\ downs = 0

-----------------------------------------------------------------------------
(* sendInLoop(m).  `queue' are the functors without the one being run. *)

(* With nothing waiting the message goes to the socket, as far as there is *)
(* room; a dead socket fails the write and the message is forgotten.  What *)
(* was not written joins the output buffer and the channel asks to write.  *)
DirectAlways == TRUE   \* fault: whatever waits in the output buffer

Direct == ~isWriting(channel) /\ out = <<>>
Broken == finSent \/ peer = "rst"

sendInLoop(m, queue) ==
    LET n == IF Direct /\ ~Broken THEN Least(room, MessageLen) ELSE 0
        rest == SubSeq(Bytes(m), n + 1, MessageLen)
        GiveUp == state = "kDisconnected"
        Error  == Direct /\ Broken
    IN
    \/ /\ GiveUp
       /\ tasks' = queue
       /\ UNCHANGED <<channel, out, room, soError, wire, accepted>>
    \/ /\ ~GiveUp /\ Error
       /\ tasks' = queue
       /\ soError' = FALSE
       /\ UNCHANGED <<channel, out, room, wire, accepted>>
    \/ /\ ~GiveUp /\ ~Error
       /\ room' = room - n
       /\ wire' = wire \o SubSeq(Bytes(m), 1, n)
       /\ accepted' = accepted \o Bytes(m)
       /\ out' = out \o rest
       /\ channel' = IF rest # <<>> /\ ~isWriting(channel)
                     THEN enableWriting(channel) ELSE channel
       /\ tasks' = CASE rest = <<>> -> Append(queue, <<"callback">>)
                     [] rest # <<>> /\ Len(out) < HighWaterMark
                                    /\ Len(out') >= HighWaterMark ->
                          Append(queue, <<"callback">>)
                     [] OTHER -> queue
       /\ UNCHANGED soError

(* Fault: the output buffer may still hold something. *)
shutdownInLoopAtOnce == finSent' = TRUE

shutdownInLoop == finSent' = (finSent \/ ~isWriting(channel))

(* The sends of other threads that have not run yet when the write side is *)
(* closed: their messages meet a closed socket and are lost.               *)
Waiting == {m \in Messages : <<"send", m>> \in Range(tasks)}
Overtake == overtaken' = IF finSent' /\ ~finSent THEN Waiting ELSE overtaken

-----------------------------------------------------------------------------
(* send() and shutdown() called by user code in the loop's thread. *)

MaySendAlways == TRUE   \* fault: the state is not tested

MaySend == state = "kConnected"

LoopSend(m) ==
    /\ LoopThread \in Senders /\ InUser(LoopThread)
    /\ MaySend
    /\ \A th \in AllThreads : m \notin sent[th]
    /\ \A th \in Threads : call[th] # <<"send", m>>
    /\ sent' = [sent EXCEPT ![LoopThread] = @ \cup {m}]
    /\ sendInLoop(m, tasks)
    /\ brokenWrite' = (brokenWrite \/ (finSent /\ state # "kDisconnected"))
    /\ UNCHANGED <<state, pc, revents, call, serverVars, peer, inbox, input,
                   finSent, promised, overtaken, ups, downs>>

LoopShutdown ==
    /\ LoopThread \in Closers /\ InUser(LoopThread)
    /\ state = "kConnected"
    /\ state' = "kDisconnecting"
    /\ shutdownInLoop /\ Overtake
    /\ promised' = promised \cup sent[LoopThread]
    /\ UNCHANGED <<loopVars, tasks, call, serverVars, kernelVars, wire, accepted,
                   sent, brokenWrite, ups, downs>>

UserReturns ==
    /\ pc = "user"
    /\ pc' = "idle"
    /\ UNCHANGED <<state, channel, out, revents, tasks, call, serverVars,
                   kernelVars, finSent, history>>

-----------------------------------------------------------------------------
(* send() and shutdown() called by another thread, step by step. *)

threadRest == <<loopVars, serverVars, kernelVars, finSent, wire, accepted,
                overtaken, brokenWrite, ups, downs>>

SendTest(th, m) ==
    /\ th \in Senders \ {LoopThread} /\ InUser(th)
    /\ \A u \in AllThreads : m \notin sent[u]
    /\ \A u \in Threads : call[u] # <<"send", m>>
    /\ MaySend
    /\ call' = [call EXCEPT ![th] = <<"send", m>>]
    /\ UNCHANGED <<state, tasks, sent, promised, threadRest>>

SendQueue(th, m) ==
    /\ call[th] = <<"send", m>>
    /\ tasks' = Append(tasks, <<"send", m>>)
    /\ sent' = [sent EXCEPT ![th] = @ \cup {m}]
    /\ call' = [call EXCEPT ![th] = <<"idle">>]
    /\ UNCHANGED <<state, promised, threadRest>>

ShutdownTest(th) ==
    /\ th \in Closers \ {LoopThread} /\ InUser(th)
    /\ state = "kConnected"
    /\ promised' = promised \cup sent[th]
    /\ call' = [call EXCEPT ![th] = <<"set">>]
    /\ UNCHANGED <<state, tasks, sent, threadRest>>

ShutdownSet(th) ==
    /\ call[th] = <<"set">>
    /\ state' = "kDisconnecting"
    /\ call' = [call EXCEPT ![th] = <<"queue">>]
    /\ UNCHANGED <<tasks, sent, promised, threadRest>>

ShutdownQueue(th) ==
    /\ call[th] = <<"queue">>
    /\ tasks' = Append(tasks, <<"shutdown", th>>)
    /\ call' = [call EXCEPT ![th] = <<"idle">>]
    /\ UNCHANGED <<state, sent, promised, threadRest>>

-----------------------------------------------------------------------------
(* The functors. *)

RunSend(m) ==
    /\ Taken(<<"send", m>>)
    /\ sendInLoop(m, Tail(tasks))
    /\ UNCHANGED <<state, pc, revents, call, serverVars, peer, inbox, input,
                   finSent, sent, promised, overtaken, brokenWrite, ups, downs>>

RunShutdown(th) ==
    /\ Taken(<<"shutdown", th>>)
    /\ tasks' = Tail(tasks)
    /\ shutdownInLoop
    /\ UNCHANGED <<state, loopVars, call, serverVars, kernelVars, history>>

(* writeCompleteCallback or highWaterMarkCallback: user code. *)
RunCallback ==
    /\ Taken(<<"callback">>)
    /\ tasks' = Tail(tasks)
    /\ pc' = "user"
    /\ UNCHANGED <<state, channel, out, revents, call, serverVars, kernelVars,
                   finSent, history>>

connectEstablished ==
    /\ Taken(<<"establish">>)
    /\ tasks' = Tail(tasks)
    /\ state' = "kConnected"
    /\ channel' = enableReading(channel)
    /\ ups' = ups + 1
    /\ pc' = "user"
    /\ UNCHANGED <<out, revents, call, serverVars, kernelVars, finSent, wire,
                   accepted, sent, promised, overtaken, brokenWrite, downs>>

(* Fault: DOWN is reported whatever the state is. *)
connectDestroyedAlwaysDown ==
    /\ Taken(<<"destroy">>)
    /\ tasks' = Tail(tasks)
    /\ pc' = "destroying"
    /\ UNCHANGED <<state, channel, out, revents, call, serverVars, kernelVars,
                   finSent, history>>

connectDestroyed ==
    /\ Taken(<<"destroy">>)
    /\ tasks' = Tail(tasks)
    /\ IF state = "kConnected"
       THEN pc' = "destroying" /\ UNCHANGED <<channel, destroyed>>
       ELSE channel' = removeChannel(channel) /\ destroyed' = TRUE
            /\ UNCHANGED pc
    /\ UNCHANGED <<state, out, revents, call, server, closing, kernelVars, finSent, history>>

connectDestroyedDown ==
    /\ pc = "destroying"
    /\ pc' = "idle"
    /\ state' = "kDisconnected"
    /\ channel' = removeChannel(disableAll(channel))
    /\ downs' = downs + 1
    /\ destroyed' = TRUE
    /\ UNCHANGED <<out, tasks, revents, call, server, closing, kernelVars, finSent, wire,
                   accepted, sent, promised, overtaken, brokenWrite, ups>>

-----------------------------------------------------------------------------
(* Channel::handleEvent: close, error, read, write, in this order. *)

(* What the socket would report; epoll adds HUP and ERR to what was asked. *)
ReadyEvents ==
    {e \in {"IN"} : Reading \in channel.events /\ (inbox > 0 \/ peer # "open")}
    \cup {e \in {"OUT"} : isWriting(channel) /\ (room > 0 \/ Broken)}
    \cup {e \in {"HUP"} : peer = "rst" \/ (peer = "fin" /\ finSent)}
    \cup {e \in {"ERR"} : soError}

Poll ==
    /\ pc = "idle" /\ revents = {}
    /\ channel.registered /\ ReadyEvents # {}
    /\ revents' = ReadyEvents
    /\ UNCHANGED <<state, channel, out, pc, tasks, call, serverVars, kernelVars,
                   finSent, history>>

(* The peer's end of the stream.  closeCallback is a call into the server, *)
(* which acts on it in its own loop; if the server was destroyed the call  *)
(* is undefined, and taken to do nothing.                                  *)
handleCloseUntold ==   \* fault: closeCallback is not called
    /\ state' = "kDisconnected"
    /\ channel' = disableAll(channel)
    /\ downs' = downs + 1
    /\ UNCHANGED closing

handleClose ==
    /\ state' = "kDisconnected"
    /\ channel' = disableAll(channel)
    /\ downs' = downs + 1
    /\ closing' = IF server = "dead" THEN closing ELSE closing + 1

HangUp ==
    /\ pc = "idle" /\ "HUP" \in revents
    /\ revents' = revents \ {"HUP"}
    /\ IF "IN" \notin revents
       THEN handleClose
       ELSE UNCHANGED <<state, channel, downs, closing>>
    /\ UNCHANGED <<out, tasks, pc, call, server, destroyed, kernelVars, finSent, wire, accepted,
                   sent, promised, overtaken, brokenWrite, ups>>

(* handleError fetches the socket's error, which clears it. *)
handleError ==
    /\ pc = "idle" /\ "HUP" \notin revents /\ "ERR" \in revents
    /\ revents' = revents \ {"ERR"}
    /\ soError' = FALSE
    /\ UNCHANGED <<state, channel, out, tasks, pc, call, serverVars, peer, inbox,
                   input, room, finSent, history>>

handleRead ==
    /\ pc = "idle" /\ revents \cap {"HUP", "ERR"} = {} /\ "IN" \in revents
    /\ revents' = revents \ {"IN"}
    /\ \/ /\ inbox > 0                  \* n > 0: messageCallback
          /\ inbox' = 0
          /\ pc' = "user"
          /\ UNCHANGED <<state, channel, downs, closing, soError>>
       \/ /\ inbox = 0 /\ soError       \* n < 0: handleError
          /\ soError' = FALSE
          /\ UNCHANGED <<state, channel, downs, closing, inbox, pc>>
       \/ /\ inbox = 0 /\ ~soError      \* n = 0
          /\ handleClose
          /\ UNCHANGED <<soError, inbox, pc>>
    /\ UNCHANGED <<out, tasks, call, server, destroyed, peer, input, room, finSent, wire,
                   accepted, sent, promised, overtaken, brokenWrite, ups>>

(* After the last byte the channel stops asking to write, the user is told *)
(* and a shutdown that had to wait is done; before it nothing changes.     *)
(* Faults: the shutdown is forgotten; the channel stops asking before the  *)
(* buffer is empty.                                                        *)
AllWrittenForgetsShutdown ==
    /\ channel' = disableWriting(channel)
    /\ tasks' = Append(tasks, <<"callback">>)
    /\ UNCHANGED finSent

AllWritten ==
    /\ channel' = disableWriting(channel)
    /\ tasks' = Append(tasks, <<"callback">>)
    /\ finSent' = (finSent \/ state = "kDisconnecting")

PartWrittenStopsAsking ==
    channel' = disableWriting(channel) /\ UNCHANGED <<tasks, finSent>>

PartWritten == UNCHANGED <<channel, tasks, finSent>>

handleWrite ==
    /\ pc = "idle" /\ revents = {"OUT"}
    /\ revents' = {}
    /\ IF isWriting(channel) /\ ~Broken /\ room > 0 /\ out # <<>>
       THEN LET n == Least(room, Len(out)) IN
            /\ room' = room - n
            /\ wire' = wire \o SubSeq(out, 1, n)
            /\ out' = SubSeq(out, n + 1, Len(out))
            /\ IF out' = <<>> THEN AllWritten ELSE PartWritten
            /\ UNCHANGED soError
       ELSE /\ soError' = (soError /\ ~(isWriting(channel) /\ Broken))
            /\ UNCHANGED <<channel, out, tasks, room, wire, finSent>>
    /\ Overtake
    /\ brokenWrite' = (brokenWrite \/ (isWriting(channel) /\ finSent /\ downs = 0))
    /\ UNCHANGED <<state, pc, call, serverVars, peer, inbox, input, accepted,
                   sent, promised, ups, downs>>

-----------------------------------------------------------------------------
(* The TcpServer: it reacts to closeCallback (removeConnectionInLoop), or  *)
(* it is destroyed while it holds the connection; both queue a functor     *)
(* that runs connectDestroyed.  What it has not acted on by then it never  *)
(* does: its loop, which would run that on a dead server, has ended.       *)
ServerRemoves ==
    /\ server # "dead" /\ closing > 0
    /\ server' = "erased" /\ closing' = closing - 1
    /\ tasks' = Append(tasks, <<"destroy">>)
    /\ UNCHANGED <<state, loopVars, call, destroyed, kernelVars, finSent, history>>

ServerDies ==
    /\ server = "holds"
    /\ server' = "dead"
    /\ tasks' = Append(tasks, <<"destroy">>)
    /\ UNCHANGED <<state, loopVars, call, closing, destroyed, kernelVars, finSent, history>>

(* The peer and the network. *)
envRest == <<state, loopVars, tasks, call, serverVars, finSent, history>>

PeerSends ==
    /\ peer = "open" /\ input > 0
    /\ inbox' = inbox + 1 /\ input' = input - 1
    /\ UNCHANGED <<envRest, peer, soError, room>>

PeerReads ==
    /\ peer # "rst" /\ room < SendBuffer
    /\ room' = SendBuffer
    /\ UNCHANGED <<envRest, peer, soError, inbox, input>>

PeerShutsDown ==
    /\ peer = "open" /\ peer' = "fin"
    /\ UNCHANGED <<envRest, soError, inbox, input, room>>

PeerResets ==
    /\ peer # "rst" /\ peer' = "rst" /\ soError' = TRUE
    /\ UNCHANGED <<envRest, inbox, input, room>>

-----------------------------------------------------------------------------
UserStep ==
    \/ (\E m \in Messages : LoopSend(m)) \/ LoopShutdown \/ UserReturns
    \/ \E th \in Threads :
         \/ \E m \in Messages : SendTest(th, m) \/ SendQueue(th, m)
         \/ ShutdownTest(th) \/ ShutdownSet(th) \/ ShutdownQueue(th)

Functor ==
    \/ (\E m \in Messages : RunSend(m))
    \/ (\E th \in AllThreads : RunShutdown(th))
    \/ RunCallback \/ connectEstablished
    \/ connectDestroyed \/ connectDestroyedDown

HandleEvent == HangUp \/ handleError \/ handleRead \/ handleWrite

Environment ==
    \/ ServerRemoves \/ ServerDies
    \/ PeerSends \/ PeerReads \/ PeerShutsDown \/ PeerResets

Next == UserStep \/ Functor \/ Poll \/ HandleEvent \/ Environment

Spec == Init /\ [][Next]_vars

(* The loop thread goes on: it runs what is queued, polls what is ready    *)
(* (each strongly fair: a loop alternates between the two, as EventLoop    *)
(* does), and callbacks return.  Threads finish the calls they began, the  *)
(* server acts on closeCallback.  Of the peer only that it keeps reading.  *)
Fairness ==
    /\ SF_vars(Functor) /\ SF_vars(Poll)
    /\ WF_vars(HandleEvent) /\ WF_vars(UserReturns)
    /\ \A th \in Threads :
         /\ WF_vars(ShutdownSet(th)) /\ WF_vars(ShutdownQueue(th))
         /\ WF_vars(\E m \in Messages : SendQueue(th, m))
    /\ WF_vars(ServerRemoves) /\ WF_vars(PeerReads)

FairSpec == Spec /\ Fairness

-----------------------------------------------------------------------------
States == {"kConnecting", "kConnected", "kDisconnecting", "kDisconnected"}
Tasks == [1 .. 1 -> {"establish", "callback", "destroy"}]
         \cup ({"send"} \X Messages) \cup ({"shutdown"} \X AllThreads)

TypeOK ==
    /\ state \in States /\ channel \in Channels
    /\ out \in Seq(Messages) /\ tasks \in Seq(Tasks)
    /\ pc \in {"idle", "user", "destroying"}
    /\ revents \subseteq {"IN", "OUT", "HUP", "ERR"}
    /\ call \in [Threads -> {<<"idle">>, <<"set">>, <<"queue">>}
                             \cup ({"send"} \X Messages)]
    /\ server \in {"holds", "erased", "dead"}
    /\ closing \in Nat /\ destroyed \in BOOLEAN
    /\ peer \in {"open", "fin", "rst"} /\ soError \in BOOLEAN
    /\ inbox \in Nat /\ input \in Nat /\ inbox + input <= MaxInput
    /\ room \in 0 .. SendBuffer /\ finSent \in BOOLEAN
    /\ wire \in Seq(Messages) /\ accepted \in Seq(Messages)
    /\ sent \in [AllThreads -> SUBSET Messages]
    /\ promised \subseteq Messages /\ overtaken \subseteq Messages
    /\ brokenWrite \in BOOLEAN
    /\ ups \in 0 .. 1 /\ downs \in Nat

(* The peer receives what sendInLoop took on, in that order: nothing is    *)
(* reordered, doubled or skipped between the direct writes and the output  *)
(* buffer, however the socket cuts the writes.                             *)
StreamIntact == accepted = wire \o out

(* A graceful shutdown.  When the write side is closed, every message that *)
(* a thread had sent before its own shutdown() is on the wire in full,     *)
(* unless the connection broke or was closed: nothing is left in the       *)
(* output buffer, and a queued shutdown waits for its turn behind all of   *)
(* these sends.  There is one way to lose them: handleWrite and a          *)
(* shutdown() in the loop close the write side at once, ahead of the sends *)
(* that other threads have queued.  Only what waits there then may be      *)
(* lost, and nothing that the loop thread sent.                            *)
Written(m) == Cardinality({i \in DOMAIN wire : wire[i] = m}) = MessageLen
NothingLeftBehind ==
    /\ finSent => \A m \in promised :
                     Written(m) \/ m \in overtaken \/ peer = "rst" \/ downs > 0
    /\ overtaken \cap sent[LoopThread] = {}

(* The poller's books agree with the kernel: no epoll_ctl ever fails.      *)
PollerConsistent == Consistent(channel)

(* Down is down: after the DOWN callback nothing is registered with the    *)
(* poller any more, so that no handler of the connection runs again; the   *)
(* callback itself comes once, after UP.                                   *)
DownForGood ==
    /\ ups <= 1 /\ downs <= ups
    /\ downs = 1 => state = "kDisconnected" /\ ~channel.registered
    /\ destroyed => ~channel.registered /\ ~channel.mapped

(* After the write side was shut down neither user code in the loop nor    *)
(* handleWrite writes to the socket.  (A send that another thread queued   *)
(* may: shutdown() in the loop overtakes it; and so may a connection that  *)
(* is down, see SilentWhenDown.)                                           *)
NoWriteAfterFin == ~brokenWrite

(* A connection that was reported DOWN writes nothing any more.            *)
SilentWhenDown == [][downs > 0 => wire' = wire]_vars

(* Every message taken on reaches the socket, or the connection ends.      *)
OutputDrains ==
    (out # <<>>) ~> (out = <<>> \/ state = "kDisconnected" \/ destroyed)

(* shutdown() closes the write side in the end, or the connection ends.    *)
ShutdownHappens ==
    (state = "kDisconnecting") ~> (finSent \/ state = "kDisconnected" \/ destroyed)

(* When the peer goes, the user is told and the connection is destroyed.   *)
PeerGone ==
    (peer # "open" /\ ups = 1) ~> (destroyed /\ (downs = 1 \/ server = "dead"))
=============================================================================
