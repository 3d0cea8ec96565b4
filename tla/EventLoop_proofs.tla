-------------------------- MODULE EventLoop_proofs --------------------------
(***************************************************************************)
(* Proofs about EventLoop for any number of threads, functors and          *)
(* channels: the types, that no wakeup is lost, and that the two functor   *)
(* vectors implement the FIFO executor of TaskQueue.                       *)
(***************************************************************************)
EXTENDS EventLoop, TLAPS

-----------------------------------------------------------------------------
(* Facts about the sequences of functors. *)

(* What _pendingFunctors.emplace_back adds to the functors that wait. *)
LEMMA RangeAppend ==
    ASSUME NEW S, NEW s \in Seq(S), NEW t \in S
    PROVE  Range(Append(s, t)) = Range(s) \cup {t}
<1>1. Range(Append(s, t)) \subseteq Range(s) \cup {t}
  BY DEF Range
<1>2. Range(s) \subseteq Range(Append(s, t))
  BY DEF Range
<1>3. t \in Range(Append(s, t))
  <2>1. Len(s) + 1 \in DOMAIN Append(s, t) /\ Append(s, t)[Len(s) + 1] = t
    OBVIOUS
  <2> QED BY <2>1 DEF Range
<1> QED BY <1>1, <1>2, <1>3

(* The empty vector holds no functor. *)
LEMMA RangeEmpty == Range(<<>>) = {}
BY DEF Range

(* The functors of the batch and those that were queued since. *)
LEMMA RangeConcat ==
    ASSUME NEW S, NEW r \in Seq(S), NEW s \in Seq(S)
    PROVE  Range(r \o s) = Range(r) \cup Range(s)
<1>1. Range(r \o s) \subseteq Range(r) \cup Range(s)
  <2> SUFFICES ASSUME NEW i \in DOMAIN (r \o s)
               PROVE  (r \o s)[i] \in Range(r) \cup Range(s)
    BY DEF Range
  <2>1. CASE i \in 1 .. Len(r)
    BY <2>1 DEF Range
  <2>2. CASE i \in Len(r) + 1 .. Len(r) + Len(s)
    <3>1. i - Len(r) \in DOMAIN s /\ (r \o s)[i] = s[i - Len(r)]
      BY <2>2
    <3> QED BY <3>1 DEF Range
  <2> QED BY <2>1, <2>2
<1>2. Range(r) \subseteq Range(r \o s)
  <2> SUFFICES ASSUME NEW i \in DOMAIN r PROVE r[i] \in Range(r \o s)
    BY DEF Range
  <2>1. i \in DOMAIN (r \o s) /\ (r \o s)[i] = r[i]
    OBVIOUS
  <2> QED BY <2>1 DEF Range
<1>3. Range(s) \subseteq Range(r \o s)
  <2> SUFFICES ASSUME NEW i \in DOMAIN s PROVE s[i] \in Range(r \o s)
    BY DEF Range
  <2>1. Len(r) + i \in DOMAIN (r \o s) /\ (r \o s)[Len(r) + i] = s[i]
    OBVIOUS
  <2> QED BY <2>1 DEF Range
<1> QED BY <1>1, <1>2, <1>3

-----------------------------------------------------------------------------
(* The initial state and each step keep the types. *)
LEMMA InitTypeOK == Init => TypeOK
<1> SUFFICES ASSUME Init PROVE TypeOK
  OBVIOUS
<1>1. evSize \in Nat \ {0}
  BY EventListAssumption DEF Init
<1>2. pending \in Seq(Tasks) /\ functors \in Seq(Tasks)
  BY DEF Init
<1>3. current = NoTask /\ pc = "new" /\ calling = FALSE
  BY DEF Init
<1>4. calling <=> pc \in {"functors", "functor"}
  BY <1>3
<1> QED BY <1>1, <1>2, <1>3, <1>4 DEF Init, TypeOK, UserCode

LEMMA NextTypeOK == TypeOK /\ [Next]_vars => TypeOK'
<1> SUFFICES ASSUME TypeOK, [Next]_vars PROVE TypeOK'
  OBVIOUS
<1> USE NoTaskAssumption, EventListAssumption
    DEF TypeOK, UserCode, AllThreads, pollVars, taskVars, Goto
<1>1. ASSUME NEW th \in AllThreads, NEW t \in Tasks, QueueInLoop(th, t)
      PROVE  TypeOK'
  BY <1>1 DEF QueueInLoop, MustWake, isInLoopThread
<1>2. ASSUME NEW th \in AllThreads, Quit(th) PROVE TypeOK'
  BY <1>2 DEF Quit, isInLoopThread
<1>3. ASSUME NEW th \in AllThreads, Wakeup(th) PROVE TypeOK'
  BY <1>3 DEF Wakeup
<1>4. CASE StartLoop
  BY <1>4 DEF StartLoop
<1>5. CASE CheckQuit
  BY <1>5 DEF CheckQuit
<1>6. CASE PollEvents
  <2>1. active' \subseteq Channels \cup {WakeupChannel}
    BY <1>6 DEF PollEvents, ReadyChannels
  <2>2. evSize' \in Nat \ {0}
    BY <1>6 DEF PollEvents
  <2> QED BY <1>6, <2>1, <2>2 DEF PollEvents
<1>7. CASE HandleRead
  BY <1>7 DEF HandleRead
<1>8. ASSUME NEW c \in Channels, BeginHandler(c) PROVE TypeOK'
  BY <1>8 DEF BeginHandler
<1>9. CASE EndHandler
  BY <1>9 DEF EndHandler
<1>10. CASE SwapFunctors
  BY <1>10 DEF SwapFunctors
<1>11. CASE BeginFunctor
  <2>1. Head(functors) \in Tasks /\ Tail(functors) \in Seq(Tasks)
    BY <1>11 DEF BeginFunctor
  <2> QED BY <1>11, <2>1 DEF BeginFunctor
<1>12. CASE EndFunctor
  BY <1>12 DEF EndFunctor
<1>13. CASE EndFunctors
  BY <1>13 DEF EndFunctors
<1>14. CASE PollTimeout
  BY <1>14 DEF PollTimeout
<1>15. ASSUME NEW c \in Channels, Arrive(c) PROVE TypeOK'
  BY <1>15 DEF Arrive
<1>16. CASE UNCHANGED vars
  BY <1>16 DEF vars
<1> QED
  BY <1>1, <1>2, <1>3, <1>4, <1>5, <1>6, <1>7, <1>8, <1>9, <1>10, <1>11,
     <1>12, <1>13, <1>14, <1>15, <1>16 DEF Next, Calls, LoopStep

(* Type correctness, and with it that _callingPendingFunctors is up        *)
(* exactly while functors are executed: whatever the callers and the       *)
(* functors do, queueInLoop's test of the flag sees the right value.       *)
THEOREM TypeCorrect == Spec => []TypeOK
BY InitTypeOK, NextTypeOK, PTL DEF Spec

-----------------------------------------------------------------------------
(* The strengthening of NoLostWakeup that every step keeps. *)
IInv == TypeOK /\ PendingWoken /\ BatchDone

LEMMA InitIInv == Init => IInv
<1>1. Init => PendingWoken /\ BatchDone
  BY RangeEmpty DEF Init, PendingWoken, BatchDone
<1> QED BY <1>1, InitTypeOK DEF IInv

(* A waiting functor keeps its wakeup: the steps that take one away are    *)
(* Wakeup, which puts the eventfd's in its place, HandleRead, after which  *)
(* the round swaps, and SwapFunctors, which leaves no functor waiting.     *)
LEMMA NextPendingWoken == IInv /\ [Next]_vars => PendingWoken'
<1> SUFFICES ASSUME IInv, [Next]_vars PROVE PendingWoken'
  OBVIOUS
<1> USE DEF IInv, PendingWoken, Woken, pollVars, taskVars, Goto
<1>1. ASSUME NEW th \in AllThreads, NEW t \in Tasks, QueueInLoop(th, t)
      PROVE  PendingWoken'
  <2>1. Range(pending') = Range(pending) \cup {t}
    BY <1>1, RangeAppend DEF QueueInLoop, MustWake, TypeOK
  <2>2. CASE th \in waking'
    BY <2>2
  <2>3. CASE th \notin waking'
    <3>1. isInLoopThread(th) /\ ~calling /\ waking' = waking
      BY <1>1, <2>3 DEF QueueInLoop, MustWake
    <3>2. pc \in {"new", "handler", "stopped"}
      BY <1>1, <3>1 DEF QueueInLoop, MustWake, MayCall, UserCode, TypeOK
    <3>3. pc = "handler" \/ early' = early \cup {t}
      BY <1>1, <3>1, <3>2 DEF QueueInLoop, MustWake
    <3> QED BY <1>1, <2>1, <3>1, <3>3 DEF QueueInLoop, MustWake
  <2> QED BY <2>2, <2>3
<1>2. ASSUME NEW th \in AllThreads, Quit(th) PROVE PendingWoken'
  BY <1>2 DEF Quit
<1>3. ASSUME NEW th \in AllThreads, Wakeup(th) PROVE PendingWoken'
  BY <1>3 DEF Wakeup
<1>4. CASE StartLoop
  BY <1>4 DEF StartLoop
<1>5. CASE CheckQuit
  BY <1>5 DEF CheckQuit
<1>6. CASE PollEvents \/ PollTimeout \/ HandleRead \/ EndHandler
  BY <1>6 DEF PollEvents, PollTimeout, HandleRead, EndHandler
<1>7. ASSUME NEW c \in Channels, BeginHandler(c) PROVE PendingWoken'
  BY <1>7 DEF BeginHandler
<1>8. CASE SwapFunctors
  BY <1>8, RangeEmpty DEF SwapFunctors
<1>9. CASE BeginFunctor \/ EndFunctor \/ EndFunctors
  BY <1>9 DEF BeginFunctor, EndFunctor, EndFunctors
<1>10. ASSUME NEW c \in Channels, Arrive(c) PROVE PendingWoken'
  BY <1>10 DEF Arrive
<1>11. CASE UNCHANGED vars
  BY <1>11 DEF vars
<1> QED
  BY <1>1, <1>2, <1>3, <1>4, <1>5, <1>6, <1>7, <1>8, <1>9, <1>10, <1>11
     DEF Next, Calls, LoopStep

(* Only doPendingFunctors fills its local vector, and it leaves when the   *)
(* vector is exhausted.                                                    *)
LEMMA NextBatchDone == IInv /\ [Next]_vars => BatchDone'
<1> SUFFICES ASSUME IInv, [Next]_vars PROVE BatchDone'
  OBVIOUS
<1> USE DEF IInv, BatchDone, pollVars, taskVars, Goto
<1>1. CASE Calls
  BY <1>1 DEF Calls, QueueInLoop, MustWake, Quit, Wakeup
<1>2. CASE StartLoop \/ PollTimeout \/ \E c \in Channels : Arrive(c)
  BY <1>2 DEF StartLoop, PollTimeout, Arrive
<1>3. CASE LoopStep
  BY <1>3 DEF LoopStep, CheckQuit, PollEvents, HandleRead, BeginHandler,
     EndHandler, SwapFunctors, BeginFunctor, EndFunctor, EndFunctors
<1>4. CASE UNCHANGED vars
  BY <1>4 DEF vars
<1> QED BY <1>1, <1>2, <1>3, <1>4 DEF Next

LEMMA NextIInv == IInv /\ [Next]_vars => IInv'
BY NextTypeOK, NextPendingWoken, NextBatchDone DEF IInv

THEOREM Inductive == Spec => []IInv
BY InitIInv, NextIInv, PTL DEF Spec

(* No lost wakeup, for any number of callers: whenever the loop thread     *)
(* sits in epoll_wait and a functor waits, the poll is going to return.    *)
THEOREM WakeupNotLost == Spec => []NoLostWakeup
<1>1. IInv => NoLostWakeup
  BY DEF IInv, PendingWoken, NoLostWakeup
<1> QED BY <1>1, Inductive, PTL

-----------------------------------------------------------------------------
(* Each step of the loop and of its callers is a step of the FIFO executor *)
(* or leaves the executor's state alone.                                   *)
LEMMA StepRefines ==
    IInv /\ IInv' /\ [Next]_vars => [Executor!Next]_(Executor!vars)
<1> SUFFICES ASSUME IInv, IInv', [Next]_vars
             PROVE  [Executor!Next]_(Executor!vars)
  OBVIOUS
<1> DEFINE queue == functors \o pending
<1>0. functors \in Seq(Tasks) /\ pending \in Seq(Tasks)
  BY DEF IInv, TypeOK
<1> USE DEF pollVars, taskVars, Goto, Executor!Next, Executor!vars
<1>1. ASSUME NEW th \in AllThreads, NEW t \in Tasks, QueueInLoop(th, t)
      PROVE  Executor!Submit(t)
  <2>1. t \notin Range(queue)
    BY <1>0, <1>1, RangeConcat DEF QueueInLoop, MustWake, Queued
  <2>2. functors' \o pending' = Append(queue, t)
    BY <1>0, <1>1 DEF QueueInLoop, MustWake
  <2> QED
    BY <1>1, <2>1, <2>2 DEF QueueInLoop, MustWake, Executor!Submit, Executor!Range, Range
<1>2. CASE SwapFunctors
  <2>1. functors = <<>>
    BY <1>2 DEF SwapFunctors, IInv, BatchDone
  <2>2. functors' \o pending' = queue
    BY <1>0, <1>2, <2>1 DEF SwapFunctors
  <2> QED BY <1>2, <2>2 DEF SwapFunctors
<1>3. CASE BeginFunctor
  <2>1. current = NoTask
    BY <1>3 DEF BeginFunctor, IInv, TypeOK
  <2>2. functors # <<>> /\ functors' = Tail(functors) /\ pending' = pending
        /\ current' = Head(functors)
    BY <1>3 DEF BeginFunctor
  <2>3. queue # <<>> /\ Head(queue) = Head(functors)
    BY <1>0, <2>2
  <2>4. Tail(queue) = Tail(functors) \o pending
    BY <1>0, <2>2
  <2> QED BY <2>1, <2>2, <2>3, <2>4 DEF Executor!Begin
<1>4. CASE EndFunctor
  BY <1>4 DEF EndFunctor, IInv, TypeOK, Executor!End
<1>5. CASE StartLoop \/ PollTimeout \/ \E c \in Channels : Arrive(c)
  BY <1>5 DEF StartLoop, PollTimeout, Arrive
<1>6. ASSUME NEW th \in AllThreads, Quit(th) \/ Wakeup(th)
      PROVE  UNCHANGED Executor!vars
  BY <1>6 DEF Quit, Wakeup
<1>7. CASE CheckQuit \/ PollEvents \/ HandleRead \/ EndHandler \/ EndFunctors
  BY <1>7 DEF CheckQuit, PollEvents, HandleRead, EndHandler, EndFunctors
<1>8. ASSUME NEW c \in Channels, BeginHandler(c)
      PROVE  UNCHANGED Executor!vars
  BY <1>8 DEF BeginHandler
<1>9. CASE UNCHANGED vars
  BY <1>9 DEF vars
<1> QED
  BY <1>1, <1>2, <1>3, <1>4, <1>5, <1>6, <1>7, <1>8, <1>9
     DEF Next, Calls, LoopStep

(* The loop implements the FIFO executor: functors from all threads run    *)
(* one at a time, each exactly once, in the order they were queued.        *)
THEOREM Refinement == Spec => ExecutorSpec
<1>1. Init => Executor!Init
  BY DEF Init, Executor!Init
<1> QED BY <1>1, StepRefines, Inductive, PTL DEF Spec, ExecutorSpec, Executor!Spec
=============================================================================
