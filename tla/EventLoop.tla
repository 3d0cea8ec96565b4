----------------------------- MODULE EventLoop ------------------------------
(***************************************************************************)
(* One EventLoop (src/src/net/EventLoop.cpp): the thread that runs loop(), *)
(* and any number of other threads that call queueInLoop(), runInLoop()    *)
(* and quit() on it.  The loop thread polls, runs the handlers of the      *)
(* active channels, then runs the functors that were queued.               *)
(*                                                                         *)
(* The loop thread's control state pc is                                   *)
(*   new        constructed, loop() not called yet                         *)
(*   check      about to evaluate while (!_quit)                           *)
(*   poll       inside epoll_wait                                          *)
(*   events     between the handlers of the active channels                *)
(*   handler    inside the callback of a user's channel                    *)
(*   functors   in doPendingFunctors, between two functors                 *)
(*   functor    inside a functor                                           *)
(*   stopped    loop() has returned                                        *)
(*                                                                         *)
(* The mutex protects _pendingFunctors only, for one vector operation at a *)
(* time, so each critical section is part of one action.  The counter of   *)
(* the eventfd is only ever compared with 0: it is kept as a Boolean.      *)
(***************************************************************************)
EXTENDS Naturals, Sequences, FiniteSets, Functions

CONSTANTS LoopThread,     \* the thread the loop was constructed in
          Threads,        \* the other threads that call into the loop
          Tasks,          \* the functors; one that has run may be queued anew
          NoTask,         \* no functor is being executed
          Channels,       \* the fds users registered: sockets, the timerfd
          WakeupChannel,  \* the channel of _wakeupFd
          InitEventListSize  \* EpollPoller::kInitEventListSize, 16 in the code

ASSUME NoTaskAssumption == NoTask \notin Tasks
ASSUME LoopThreadAssumption == LoopThread \notin Threads
ASSUME WakeupChannelAssumption == WakeupChannel \notin Channels
ASSUME EventListAssumption == InitEventListSize \in Nat \ {0}

VARIABLES pc,        \* where the loop thread is
          quit,      \* _quit
          calling,   \* _callingPendingFunctors
          wakeupFd,  \* the counter of _wakeupFd is not 0
          ready,     \* the user channels with something to read
          active,    \* _activeChannels still to be handled in this round
          evSize,    \* _events.size(), the most events one poll returns
          pending,   \* _pendingFunctors
          functors,  \* the local vector of doPendingFunctors, what is left
          current,   \* the functor being executed, or NoTask
          waking,    \* the threads between two steps of queueInLoop or quit:
                     \* they still have to write to _wakeupFd
          early      \* history: functors the loop thread itself queued while
                     \* it was not inside loop()

vars == <<pc, quit, calling, wakeupFd, ready, active, evSize,
          pending, functors, current, waking, early>>
pollVars == <<ready, active, evSize>>
taskVars == <<pending, functors, current, early>>

AllThreads == Threads \cup {LoopThread}
Queued == Range(functors) \cup Range(pending)

(* User code runs in the loop thread before and after loop(), in the       *)
(* handlers of channels and in functors.                                   *)
UserCode == {"new", "handler", "functor", "stopped"}

isInLoopThread(th) == th = LoopThread

(* A thread calls into the loop when it is not in the middle of a call.    *)
MayCall(th) == th \notin waking /\ (isInLoopThread(th) => pc \in UserCode)

Init ==
    /\ pc = "new"
    /\ quit = FALSE /\ calling = FALSE /\ wakeupFd = FALSE
    /\ ready = {} /\ active = {} /\ evSize = InitEventListSize
    /\ pending = <<>> /\ functors = <<>> /\ current = NoTask
    /\ waking = {} /\ early = {}

-----------------------------------------------------------------------------
(* Calls into the loop, from any thread. *)

(* Faults that a change of this code could introduce: each is a mutated    *)
(* form of the operator that follows, used only to show that a property   *)
(* notices it.  Here a call from a functor writes nothing to the eventfd.  *)
MustWakeNoCallingTest(th) == ~isInLoopThread(th)

MustWake(th) == ~isInLoopThread(th) \/ calling

(* runInLoop() in another thread is queueInLoop(); in the loop thread it   *)
(* runs the functor inside the caller's code and queues nothing.           *)
QueueInLoop(th, t) ==
    /\ MayCall(th)
    /\ t \notin Queued
    /\ pending' = Append(pending, t)
    /\ waking' = IF MustWake(th) THEN waking \cup {th} ELSE waking
    /\ early' = IF isInLoopThread(th) /\ pc \in {"new", "stopped"}
                THEN early \cup {t} ELSE early
    /\ UNCHANGED <<pc, quit, calling, wakeupFd, pollVars, functors, current>>

Quit(th) ==
    /\ MayCall(th)
    /\ quit' = TRUE
    /\ waking' = IF isInLoopThread(th) THEN waking \cup {th} ELSE waking
    /\ UNCHANGED <<pc, calling, wakeupFd, pollVars, taskVars>>

Wakeup(th) ==
    /\ th \in waking
    /\ wakeupFd' = TRUE
    /\ waking' = waking \ {th}
    /\ UNCHANGED <<pc, quit, calling, pollVars, taskVars>>

-----------------------------------------------------------------------------
(* The loop thread. *)

Goto(from, to) == pc = from /\ pc' = to

StartLoop ==
    /\ pc \in {"new", "stopped"} /\ LoopThread \notin waking
    /\ pc' = "check"
    /\ quit' = FALSE
    /\ UNCHANGED <<calling, wakeupFd, pollVars, taskVars, waking>>

CheckQuit ==
    /\ Goto("check", IF quit THEN "stopped" ELSE "poll")
    /\ UNCHANGED <<quit, calling, wakeupFd, pollVars, taskVars, waking>>

ReadyChannels == ready \cup (IF wakeupFd THEN {WakeupChannel} ELSE {})

(* Fault: the array of events keeps its size. *)
PollEventsFixedArray ==
    /\ Goto("poll", "events")
    /\ \E chans \in SUBSET ReadyChannels :
         /\ Cardinality(chans) = evSize
         /\ active' = chans
    /\ UNCHANGED <<quit, calling, wakeupFd, ready, evSize, taskVars, waking>>

(* epoll_wait reports at most evSize of the ready channels; a full array   *)
(* is doubled for the next poll.                                           *)
PollEvents ==
    /\ Goto("poll", "events")
    /\ ReadyChannels # {}
    /\ \E chans \in SUBSET ReadyChannels :
         /\ chans # {}
         /\ \/ chans = ReadyChannels /\ Cardinality(chans) <= evSize
            \/ Cardinality(chans) = evSize
         /\ active' = chans
         /\ evSize' = IF Cardinality(chans) = evSize THEN 2 * evSize ELSE evSize
    /\ UNCHANGED <<quit, calling, wakeupFd, ready, taskVars, waking>>

(* Nothing is ready and epoll_wait returns after kPollTimeMs, or fails     *)
(* with EINTR: the round goes on with no active channel.                   *)
PollTimeout ==
    /\ Goto("poll", "events")
    /\ ReadyChannels = {}
    /\ active' = {}
    /\ UNCHANGED <<quit, calling, wakeupFd, ready, evSize, taskVars, waking>>

(* EventLoop::handleRead, the read callback of the wakeup channel. *)
HandleRead ==
    /\ pc = "events" /\ WakeupChannel \in active
    /\ active' = active \ {WakeupChannel}
    /\ wakeupFd' = FALSE
    /\ UNCHANGED <<pc, quit, calling, ready, evSize, taskVars, waking>>

(* Another channel's handler; it consumes what was ready. *)
BeginHandler(c) ==
    /\ Goto("events", "handler")
    /\ c \in active \ {WakeupChannel}
    /\ active' = active \ {c}
    /\ ready' = ready \ {c}
    /\ UNCHANGED <<quit, calling, wakeupFd, evSize, taskVars, waking>>

EndHandler ==
    /\ Goto("handler", "events") /\ LoopThread \notin waking
    /\ UNCHANGED <<quit, calling, wakeupFd, pollVars, taskVars, waking>>

(* doPendingFunctors: raise the flag and swap the vectors under the mutex, *)
(* call what was swapped out, lower the flag.                              *)
SwapFunctors ==
    /\ Goto("events", "functors")
    /\ active = {}
    /\ calling' = TRUE
    /\ functors' = pending
    /\ pending' = <<>>
    /\ early' = early \ Range(pending)
    /\ UNCHANGED <<quit, wakeupFd, pollVars, current, waking>>

(* Fault: the functors are taken from the wrong end. *)
BeginFunctorLast ==
    /\ Goto("functors", "functor")
    /\ functors # <<>>
    /\ current' = functors[Len(functors)]
    /\ functors' = SubSeq(functors, 1, Len(functors) - 1)
    /\ UNCHANGED <<quit, calling, wakeupFd, pollVars, pending, waking, early>>

BeginFunctor ==
    /\ Goto("functors", "functor")
    /\ functors # <<>>
    /\ current' = Head(functors)
    /\ functors' = Tail(functors)
    /\ UNCHANGED <<quit, calling, wakeupFd, pollVars, pending, waking, early>>

(* Fault: the last functor of a batch is dropped.                     *)
EndFunctorDropLast ==
    /\ Goto("functor", "functors") /\ LoopThread \notin waking
    /\ current' = NoTask
    /\ functors' = IF Len(functors) = 1 THEN <<>> ELSE functors
    /\ UNCHANGED <<quit, calling, wakeupFd, pollVars, pending, waking, early>>

EndFunctor ==
    /\ Goto("functor", "functors") /\ LoopThread \notin waking
    /\ current' = NoTask
    /\ UNCHANGED <<quit, calling, wakeupFd, pollVars, pending, functors,
                   waking, early>>

(* Faults: the flag stays up; the next poll starts without a look at _quit *)
(* when functors were queued meanwhile; a round repeats doPendingFunctors. *)
EndFunctorsFlagUp ==
    /\ Goto("functors", "check")
    /\ functors = <<>>
    /\ UNCHANGED <<quit, calling, wakeupFd, pollVars, taskVars, waking>>

EndFunctorsNoQuitTest ==
    /\ Goto("functors", IF pending = <<>> THEN "check" ELSE "poll")
    /\ functors = <<>>
    /\ calling' = FALSE
    /\ UNCHANGED <<quit, wakeupFd, pollVars, taskVars, waking>>

EndFunctors ==
    /\ Goto("functors", "check")
    /\ functors = <<>>
    /\ calling' = FALSE
    /\ UNCHANGED <<quit, wakeupFd, pollVars, taskVars, waking>>

-----------------------------------------------------------------------------
(* The environment: data arrives on a user's channel. *)
Arrive(c) ==
    /\ c \notin ready
    /\ ready' = ready \cup {c}
    /\ UNCHANGED <<pc, quit, calling, wakeupFd, active, evSize, taskVars, waking>>

Calls ==
    \E th \in AllThreads : Quit(th) \/ Wakeup(th) \/ \E t \in Tasks : QueueInLoop(th, t)

(* What the loop thread does on its own, the expiry of a poll apart. *)
LoopStep ==
    \/ CheckQuit \/ PollEvents \/ HandleRead
    \/ (\E c \in Channels : BeginHandler(c)) \/ EndHandler
    \/ SwapFunctors \/ BeginFunctor \/ EndFunctor \/ EndFunctors

Next == Calls \/ StartLoop \/ LoopStep \/ PollTimeout \/ \E c \in Channels : Arrive(c)

Spec == Init /\ [][Next]_vars

(* The loop thread keeps running, and a thread that has queued a functor   *)
(* goes on to write to the eventfd.  The owner of a new loop calls loop()  *)
(* (EventLoopThread::threadFunc does so unconditionally) and a handler or  *)
(* a functor returns, after any finite number of calls into the loop: each *)
(* call disables the return until it is over, hence strong fairness.  No   *)
(* poll is assumed to time out.                                            *)
Fairness ==
    /\ SF_vars(pc = "new" /\ StartLoop)
    /\ SF_vars(EndHandler \/ EndFunctor)
    /\ WF_vars(LoopStep)
    /\ \A th \in AllThreads : WF_vars(Wakeup(th))

FairSpec == Spec /\ Fairness

-----------------------------------------------------------------------------
(* Types; the flag _callingPendingFunctors is up exactly while functors    *)
(* are executed (it decides whether queueInLoop wakes its own thread).     *)
TypeOK ==
    /\ pc \in UserCode \cup {"check", "poll", "events", "functors"}
    /\ quit \in BOOLEAN /\ calling \in BOOLEAN /\ wakeupFd \in BOOLEAN
    /\ calling <=> pc \in {"functors", "functor"}
    /\ ready \subseteq Channels
    /\ active \subseteq Channels \cup {WakeupChannel}
    /\ evSize \in Nat \ {0}
    /\ pending \in Seq(Tasks) /\ functors \in Seq(Tasks)
    /\ current \in Tasks \cup {NoTask}
    /\ current # NoTask <=> pc = "functor"
    /\ waking \subseteq AllThreads
    /\ early \subseteq Tasks

(* No lost wakeup: while the loop thread sits in epoll_wait with a functor *)
(* waiting in _pendingFunctors, the eventfd is readable or the thread that *)
(* queued a functor is about to write to it, so the poll will return.  The *)
(* functors the loop thread queued outside loop() are the one exception:   *)
(* queueInLoop writes nothing for them.                                    *)
Woken == wakeupFd \/ waking # {}
NoLostWakeup ==
    (pc = "poll" /\ Range(pending) \ early # {}) => Woken

(* The same wherever the loop thread is, the handling of events excepted:  *)
(* there HandleRead may have emptied the eventfd already, and the swap     *)
(* that follows takes every functor.  Between two batches nothing is left  *)
(* of the last one.  These two parts and TypeOK are inductive.             *)
PendingWoken ==
    pc \notin {"events", "handler"} => (Range(pending) \subseteq early \/ Woken)
BatchDone == pc \notin {"functors", "functor"} => functors = <<>>

(* A queued functor is executed (or loop() has returned), without relying  *)
(* on the 10-second timeout of a poll.  Where a poll with nothing to       *)
(* report does return in the end, so are those queued before loop().       *)
PollsTimeOut == WF_vars(PollTimeout)
FunctorRuns ==
    \A t \in Tasks :
        /\ (t \in Queued \ early) ~> (current = t \/ pc = "stopped")
        /\ PollsTimeOut => ((t \in Queued) ~> (current = t \/ pc = "stopped"))

(* quit() ends the loop once it is inside loop(): no interleaving with a   *)
(* poll, a handler or a functor makes the request disappear.  The call of  *)
(* another thread does not wake the loop: it takes a poll that times out.  *)
QuitStops == PollsTimeOut =>
    (quit /\ pc \notin {"new", "stopped"}) ~> pc = "stopped"

(* Functors that queue further functors never starve the channels: data    *)
(* that is ready is handled, however many channels are ready at once.      *)
ChannelHandled ==
    \A c \in Channels : (c \in ready) ~> (c \notin ready \/ pc = "stopped")

(* Two buffers and a swap are one FIFO queue. *)
Executor == INSTANCE TaskQueue WITH queue <- functors \o pending
ExecutorSpec == Executor!Spec
=============================================================================
