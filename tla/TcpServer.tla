----------------------------- MODULE TcpServer ------------------------------
(***************************************************************************)
(* A TcpServer (net/TcpServer.cpp) with its Acceptor in the main loop and  *)
(* an EventLoopThreadPool of io loops, each in an EventLoopThread.  The    *)
(* connections live in the io loops (in the main loop if there is none),   *)
(* the map _connections in the main loop, and functors go back and forth.  *)
(*                                                                         *)
(* The owner is the main thread: it makes the server, starts it, runs the  *)
(* main loop, and destroys the server after that loop has returned, as     *)
(* every program in the repository does.  It is                            *)
(*   new       the server was not started                                  *)
(*   starting  in EventLoopThreadPool::start                               *)
(*   running   in the main loop                                            *)
(*   dying     in ~TcpServer, in its loop over the map                     *)
(*   joining   in ~TcpServer, in the EventLoopThreads' destructors         *)
(*   dead      the server is destroyed                                     *)
(*                                                                         *)
(* An io loop is a round of EventLoop: check (of _quit), events, functors. *)
(* Before, its thread is none, init (_loop is not set yet) or ready (it is *)
(* set, loop() was not entered); at the end it is done.                    *)
(*                                                                         *)
(* A connection is what TcpConnection shows of it: its state, whether its  *)
(* channel is in the poller's map, whether it was reported UP and DOWN.    *)
(***************************************************************************)
EXTENDS Naturals, Sequences, FiniteSets, Functions

CONSTANTS Conns,        \* the connections, by their names
          MaxThreads    \* a bound: the largest _numThreads

ASSUME MaxThreadsAssumption == MaxThreads \in Nat

Main == 0               \* the main loop; the io loops are 1 .. numThreads
Loops == 0 .. MaxThreads

VARIABLES owner,
          numThreads,   \* EventLoopThreadPool::_numThreads
          started,      \* how many io loops are in _loops
          next,         \* _next, the loop that gets the next connection
          ending,       \* how many EventLoopThreads ~TcpServer has got to
          thread,       \* [Loops -> where the thread of an io loop is]
          quit,         \* [Loops -> EventLoop::_quit]
          tasks,        \* [Loops -> _pendingFunctors]
          batch,        \* [Loops -> the functors doPendingFunctors has taken]
          connections,  \* _connections
          loopOf,       \* [Conns -> TcpConnection::_loop]
          state,        \* [Conns -> TcpConnection::_state]
          mapped,       \* [Conns -> the channel is in its poller's map]
          ups, downs,   \* [Conns -> how often it was reported UP and DOWN]
          gone,         \* the connections whose peer has closed
          lostQuit      \* history: loop() overwrote a _quit

poolVars == <<numThreads, started, next, ending>>
threadVars == <<thread, quit, lostQuit>>
connVars == <<state, mapped, ups, downs>>
vars == <<owner, poolVars, threadVars, tasks, batch, connections, loopOf,
          connVars, gone>>

IoLoops == 1 .. numThreads
Waiting == "none"       \* the state of a name no connection has yet

Init ==
    /\ owner = "new"
    /\ numThreads \in 0 .. MaxThreads /\ started = 0 /\ next = 0 /\ ending = 0
    /\ thread = [l \in Loops |-> "none"] /\ quit = [l \in Loops |-> FALSE]
    /\ tasks = [l \in Loops |-> <<>>] /\ batch = [l \in Loops |-> <<>>]
    /\ connections = {} /\ loopOf = [c \in Conns |-> Main]
    /\ state = [c \in Conns |-> Waiting] /\ mapped = [c \in Conns |-> FALSE]
    /\ ups = [c \in Conns |-> 0] /\ downs = [c \in Conns |-> 0]
    /\ gone = {} /\ lostQuit = FALSE

queueInLoop(l, task) == tasks' = [tasks EXCEPT ![l] = Append(@, task)]

-----------------------------------------------------------------------------
(* The functors and what they do to a connection. *)

connectEstablished(c) ==
    /\ state' = [state EXCEPT ![c] = "kConnected"]
    /\ mapped' = [mapped EXCEPT ![c] = TRUE]
    /\ ups' = [ups EXCEPT ![c] = @ + 1]
    /\ UNCHANGED downs

(* Fault: DOWN is reported in any state. *)
connectDestroyedAlwaysDown(c) ==
    /\ state' = [state EXCEPT ![c] = "kDisconnected"]
    /\ downs' = [downs EXCEPT ![c] = @ + 1]
    /\ mapped' = [mapped EXCEPT ![c] = FALSE]
    /\ UNCHANGED ups

connectDestroyed(c) ==
    /\ IF state[c] = "kConnected"
       THEN /\ state' = [state EXCEPT ![c] = "kDisconnected"]
            /\ downs' = [downs EXCEPT ![c] = @ + 1]
       ELSE UNCHANGED <<state, downs>>
    /\ mapped' = [mapped EXCEPT ![c] = FALSE]
    /\ UNCHANGED ups

(* Fault: the map forgets the connection and its loop is not told. *)
removeConnectionInLoopOnly(c, loops) ==
    /\ connections' = connections \ {c}
    /\ tasks' = loops

(* `loops' are the functors of all loops without the one being run. *)
removeConnectionInLoop(c, loops) ==
    /\ connections' = connections \ {c}
    /\ tasks' = [loops EXCEPT ![loopOf[c]] = Append(@, <<"destroy", c>>)]

(* The channel stays in the poller's map with no event.  closeCallback is  *)
(* TcpServer::removeConnection.                                            *)
handleClose(c) ==
    /\ state' = [state EXCEPT ![c] = "kDisconnected"]
    /\ downs' = [downs EXCEPT ![c] = @ + 1]
    /\ IF loopOf[c] = Main THEN removeConnectionInLoop(c, tasks)
       ELSE queueInLoop(Main, <<"remove", c>>) /\ UNCHANGED connections
    /\ UNCHANGED <<mapped, ups>>

CanClose(c) == c \in gone /\ mapped[c] /\ state[c] = "kConnected"

-----------------------------------------------------------------------------
(* The owner. *)

(* TcpServer::start, the first time it is called: the threads are started  *)
(* one by one, then the acceptor listens.                                  *)
Start ==
    /\ owner = "new"
    /\ owner' = IF numThreads = 0 THEN "running" ELSE "starting"
    /\ UNCHANGED <<poolVars, threadVars, tasks, batch, connections, loopOf,
                   connVars, gone>>

(* EventLoopThread::startLoop: start the thread, wait until it sets _loop. *)
startThread(l) ==
    /\ owner = "starting" /\ l = started + 1 /\ thread[l] = "none"
    /\ thread' = [thread EXCEPT ![l] = "init"]
    /\ UNCHANGED <<owner, poolVars, quit, lostQuit, tasks, batch, connections,
                   loopOf, connVars, gone>>

loopSet(l) ==
    /\ owner = "starting" /\ l = started + 1 /\ thread[l] \notin {"none", "init"}
    /\ started' = l
    /\ owner' = IF l = numThreads THEN "running" ELSE "starting"
    /\ UNCHANGED <<numThreads, next, ending, threadVars, tasks, batch,
                   connections, loopOf, connVars, gone>>

(* The loop, and what _next is after that. *)
getNextLoop ==
    IF started = 0 THEN <<Main, next>>
    ELSE <<next + 1, IF next + 1 >= started THEN 0 ELSE next + 1>>

newConnection(c) ==
    /\ next' = getNextLoop[2]
    /\ loopOf' = [loopOf EXCEPT ![c] = getNextLoop[1]]
    /\ connections' = connections \cup {c}
    /\ IF loopOf'[c] = Main
       THEN connectEstablished(c) /\ UNCHANGED tasks
       ELSE /\ state' = [state EXCEPT ![c] = "kConnecting"]
            /\ queueInLoop(loopOf'[c], <<"establish", c>>)
            /\ UNCHANGED <<mapped, ups, downs>>

(* Acceptor::handleRead, when a connection was made to the server; the     *)
(* acceptor has listened since start() was done.                           *)
handleRead(c) ==
    /\ owner = "running" /\ state[c] = Waiting
    /\ newConnection(c)
    /\ UNCHANGED <<owner, numThreads, started, ending, threadVars, batch, gone>>

(* A round of the main loop, in so far as it is about the server. *)
MainFunctor ==
    /\ owner = "running" /\ tasks[Main] # <<>>
    /\ LET kind == Head(tasks[Main])[1]
           c    == Head(tasks[Main])[2]
           rest == [tasks EXCEPT ![Main] = Tail(@)]
       IN \/ /\ kind = "remove"
             /\ removeConnectionInLoop(c, rest)
             /\ UNCHANGED connVars
          \/ /\ kind = "destroy"
             /\ connectDestroyed(c)
             /\ tasks' = rest /\ UNCHANGED connections
    /\ UNCHANGED <<owner, poolVars, threadVars, batch, loopOf, gone>>

MainClose(c) ==
    /\ owner = "running" /\ loopOf[c] = Main /\ CanClose(c)
    /\ handleClose(c)
    /\ UNCHANGED <<owner, poolVars, threadVars, batch, loopOf, gone>>

(* The main loop returns, and the owner destroys the server. *)
Die ==
    /\ owner \in {"new", "running"}
    /\ owner' = "dying"
    /\ UNCHANGED <<poolVars, threadVars, tasks, batch, connections, loopOf,
                   connVars, gone>>

(* ~TcpServer: every connection in the map is destroyed in its loop.       *)
DestroyConnection(c) ==
    /\ owner = "dying" /\ c \in connections
    /\ connections' = connections \ {c}
    /\ IF loopOf[c] = Main THEN connectDestroyed(c) /\ UNCHANGED tasks
       ELSE queueInLoop(loopOf[c], <<"destroy", c>>) /\ UNCHANGED connVars
    /\ UNCHANGED <<owner, poolVars, threadVars, batch, loopOf, gone>>

(* Then its members: each thread's loop is told to quit, and the thread    *)
(* joined, one after the other.                                            *)
JoinThreads ==
    /\ owner = "dying" /\ connections = {}
    /\ owner' = "joining"
    /\ UNCHANGED <<poolVars, threadVars, tasks, batch, connections, loopOf,
                   connVars, gone>>

AllJoined == \A l \in 1 .. ending : thread[l] = "done"

QuitThreadNot ==   \* fault: joined without quit()
    /\ owner = "joining" /\ AllJoined /\ ending < started
    /\ ending' = ending + 1
    /\ UNCHANGED <<owner, numThreads, started, next, threadVars, tasks, batch,
                   connections, loopOf, connVars, gone>>

QuitThread ==
    /\ owner = "joining" /\ AllJoined /\ ending < started
    /\ ending' = ending + 1
    /\ quit' = [quit EXCEPT ![ending'] = TRUE]
    /\ UNCHANGED <<owner, numThreads, started, next, thread, lostQuit, tasks,
                   batch, connections, loopOf, connVars, gone>>

Dead ==
    /\ owner = "joining" /\ AllJoined /\ ending = started
    /\ owner' = "dead"
    /\ UNCHANGED <<poolVars, threadVars, tasks, batch, connections, loopOf,
                   connVars, gone>>

-----------------------------------------------------------------------------
(* The io threads. *)

Goto(l, from, to) == thread[l] = from /\ thread' = [thread EXCEPT ![l] = to]

setLoop(l) ==
    /\ Goto(l, "init", "ready")
    /\ UNCHANGED <<owner, poolVars, quit, lostQuit, tasks, batch, connections,
                   loopOf, connVars, gone>>

(* loop() begins by lowering _quit, whoever raised it. *)
EnterLoop(l) ==
    /\ Goto(l, "ready", "check")
    /\ quit' = [quit EXCEPT ![l] = FALSE]
    /\ lostQuit' = (lostQuit \/ quit[l])
    /\ UNCHANGED <<owner, poolVars, tasks, batch, connections, loopOf, connVars, gone>>

CheckQuit(l) ==
    /\ Goto(l, "check", IF quit[l] THEN "done" ELSE "events")
    /\ UNCHANGED <<owner, poolVars, quit, lostQuit, tasks, batch, connections,
                   loopOf, connVars, gone>>

IoClose(l, c) ==
    /\ thread[l] = "events" /\ loopOf[c] = l /\ CanClose(c)
    /\ handleClose(c)
    /\ UNCHANGED <<owner, poolVars, threadVars, batch, loopOf, gone>>

SwapFunctors(l) ==
    /\ Goto(l, "events", "functors")
    /\ batch' = [batch EXCEPT ![l] = tasks[l]]
    /\ tasks' = [tasks EXCEPT ![l] = <<>>]
    /\ UNCHANGED <<owner, poolVars, quit, lostQuit, connections, loopOf, connVars, gone>>

RunFunctor(l) ==
    /\ thread[l] = "functors" /\ batch[l] # <<>>
    /\ LET kind == Head(batch[l])[1]
           c    == Head(batch[l])[2]
       IN \/ kind = "establish" /\ connectEstablished(c)
          \/ kind = "destroy" /\ connectDestroyed(c)
    /\ batch' = [batch EXCEPT ![l] = Tail(@)]
    /\ UNCHANGED <<owner, poolVars, threadVars, tasks, connections, loopOf, gone>>

EndFunctors(l) ==
    /\ batch[l] = <<>> /\ Goto(l, "functors", "check")
    /\ UNCHANGED <<owner, poolVars, quit, lostQuit, tasks, batch, connections,
                   loopOf, connVars, gone>>

PeerCloses(c) ==
    /\ state[c] # Waiting /\ c \notin gone
    /\ gone' = gone \cup {c}
    /\ UNCHANGED <<owner, poolVars, threadVars, tasks, batch, connections,
                   loopOf, connVars>>

-----------------------------------------------------------------------------
IoStep(l) ==
    setLoop(l) \/ EnterLoop(l) \/ CheckQuit(l) \/ SwapFunctors(l)
    \/ RunFunctor(l) \/ EndFunctors(l)

OwnerStep ==
    \/ \E l \in IoLoops : startThread(l) \/ loopSet(l)
    \/ \E c \in Conns : DestroyConnection(c)
    \/ JoinThreads \/ QuitThread \/ Dead

Next ==
    \/ Start \/ Die \/ OwnerStep \/ MainFunctor
    \/ \E c \in Conns : handleRead(c) \/ MainClose(c) \/ PeerCloses(c)
    \/ \E l \in IoLoops : IoStep(l) \/ \E c \in Conns : IoClose(l, c)

Spec == Init /\ [][Next]_vars

(* The threads go on; a loop handles the events of its channels and its    *)
(* functors, neither starving the other (EventLoop).                       *)
Fairness ==
    /\ WF_vars(OwnerStep) /\ WF_vars(MainFunctor)
    /\ \A l \in 1 .. MaxThreads : WF_vars(IoStep(l))
    /\ \A c \in Conns :
         WF_vars(MainClose(c)) /\ SF_vars(\E l \in IoLoops : IoClose(l, c))

FairSpec == Spec /\ Fairness

-----------------------------------------------------------------------------
Functors == {"establish", "remove", "destroy"} \X Conns

(* Types; a connection is reported UP once, then DOWN at most once.        *)
TypeOK ==
    /\ owner \in {"new", "starting", "running", "dying", "joining", "dead"}
    /\ numThreads \in 0 .. MaxThreads /\ started \in 0 .. numThreads
    /\ next \in 0 .. MaxThreads /\ (next = 0 \/ next < started) /\ ending \in 0 .. started
    /\ thread \in [Loops -> {"none", "init", "ready", "check", "events", "functors", "done"}]
    /\ quit \in [Loops -> BOOLEAN] /\ lostQuit \in BOOLEAN
    /\ tasks \in [Loops -> Seq(Functors)] /\ batch \in [Loops -> Seq(Functors)]
    /\ connections \subseteq Conns /\ gone \subseteq Conns
    /\ loopOf \in [Conns -> Loops] /\ mapped \in [Conns -> BOOLEAN]
    /\ state \in [Conns -> {Waiting, "kConnecting", "kConnected", "kDisconnected"}]
    /\ ups \in [Conns -> 0 .. 1] /\ downs \in [Conns -> 0 .. 1]
    /\ \A c \in Conns : downs[c] <= ups[c]

(* What keeps a TcpConnection alive: the map, or a functor bound to its    *)
(* shared_ptr, in whichever loop.                                          *)
Held(c) ==
    \/ c \in connections
    \/ \E l \in Loops : \E f \in Range(tasks[l]) \cup Range(batch[l]) : f[2] = c

(* No poller of a running loop is left with the channel of a connection    *)
(* that has been freed: a connection is held, by the map or on its way     *)
(* through two loops, until connectDestroyed has removed its channel.      *)
ChannelsAlive ==
    \A c \in Conns : (mapped[c] /\ thread[loopOf[c]] # "done") => Held(c)

(* When a peer closes, the connection goes: it is reported DOWN, leaves    *)
(* the map and its loop's poller, unless the server is destroyed.          *)
PeerCloseCleansUp ==
    \A c \in Conns :
        (c \in gone) ~> \/ downs[c] = 1 /\ c \notin connections /\ ~mapped[c]
                        \/ owner \notin {"starting", "running"}

(* The destructor returns: no io thread keeps it waiting.  The one         *)
(* exception is a quit() that comes before its loop has entered loop().    *)
DestructorReturns == (owner = "dying") ~> (owner = "dead" \/ lostQuit)
=============================================================================
