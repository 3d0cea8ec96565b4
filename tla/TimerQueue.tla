----------------------------- MODULE TimerQueue -----------------------------
(***************************************************************************)
(* The TimerQueue of an EventLoop (timer/TimerQueue.cpp): timers ordered   *)
(* by their expiration and one timerfd armed for the first of them.        *)
(*                                                                         *)
(* Times are kept relative to the present: left[t] is how long a timer     *)
(* still has, alarm how long the timerfd has, and a tick of the clock      *)
(* brings all of them closer.  A tick is 100 microseconds, the shortest    *)
(* time resetTimerfd arms the timerfd for.  The two clocks of the code,    *)
(* the timerfd's monotonic one and the system clock of Timestamp::now(),   *)
(* advance together: nobody sets the system clock.                         *)
(*                                                                         *)
(* The loop thread (EventLoop) polls, runs the handlers of the channels    *)
(* that are ready, then functors.  For the timer queue it is               *)
(*   idle      in any other part of a round                                *)
(*   active    in the handlers, the timerfd's still to come                *)
(*   running   in handleRead, between two callbacks                        *)
(*   callback  in the callback of a timer                                  *)
(***************************************************************************)
EXTENDS Integers, Sequences, Functions, FiniteSetsExt

CONSTANTS Timers,      \* the Timer objects; a deleted one may be made anew
          Delays,      \* how far from now users set a timer; may be past
          Intervals,   \* the intervals of repeating timers
          NoTimer,
          MaxLate      \* a bound: the loop is at most so late for a timer

Off == -1              \* the timerfd is not armed
OneShot == 0           \* the interval of a timer that does not repeat
MinDelay == 1          \* 100 microseconds

ASSUME DelaysAssumption == Delays \subseteq Int
ASSUME IntervalsAssumption == Intervals \subseteq Nat \ {0}
ASSUME NoTimerAssumption == NoTimer \notin Timers
ASSUME MaxLateAssumption == MaxLate \in Nat \ {0}

VARIABLES left,      \* [Timers -> Timer::_expiration, from now]
          interval,  \* [Timers -> Timer::_interval]
          timers,    \* _timers
          queue,     \* the addTimerInLoop functors of the loop
          alarm,     \* what the timerfd has left: at 0 it is readable
          pc,
          batch,     \* the expired timers handleRead still has to run
          done,      \* those it has run
          age,       \* how long ago handleRead took `now'
          current    \* the timer whose callback runs

vars == <<left, interval, timers, queue, alarm, pc, batch, done, age, current>>
handlerVars == <<pc, batch, done, age, current>>

Alive == timers \cup Range(queue) \cup batch \cup done \cup ({current} \ {NoTimer})

Init ==
    /\ left = [t \in Timers |-> 0] /\ interval = [t \in Timers |-> OneShot]
    /\ timers = {} /\ queue = <<>> /\ alarm = Off
    /\ pc = "idle" /\ batch = {} /\ done = {} /\ age = 0 /\ current = NoTimer

First(set) == Min({left[t] : t \in set})

(* resetTimerfd, for an expiration this far from now. *)
Arm(delay) == IF delay < MinDelay THEN MinDelay ELSE delay

-----------------------------------------------------------------------------
(* addTimer, by runAt, runAfter or runEvery. *)

create(t, delay, every) ==
    /\ t \notin Alive
    /\ left' = [left EXCEPT ![t] = delay]
    /\ interval' = [interval EXCEPT ![t] = every]

(* Fault: the timerfd is left alone once it is armed. *)
EarliestIfAlone(delay) == timers = {}

(* What insert() returns for a timer with this expiration. *)
EarliestChanged(delay) == timers = {} \/ delay < First(timers)

addTimerInLoop(t, delay) ==
    /\ timers' = timers \cup {t}
    /\ alarm' = IF EarliestChanged(delay) THEN Arm(delay) ELSE alarm

(* In another thread, a functor is queued.  In the loop's thread it is run *)
(* at once; that may be in the callback of a timer.                        *)
AddFromThread(t, delay, every) ==
    /\ create(t, delay, every)
    /\ queue' = Append(queue, t)
    /\ UNCHANGED <<timers, alarm, handlerVars>>

AddFromLoop(t, delay, every) ==
    /\ pc # "running"
    /\ create(t, delay, every)
    /\ addTimerInLoop(t, delay)
    /\ UNCHANGED <<queue, handlerVars>>

RunFunctor ==
    /\ pc = "idle" /\ queue # <<>>
    /\ addTimerInLoop(Head(queue), left[Head(queue)])
    /\ queue' = Tail(queue)
    /\ UNCHANGED <<left, interval, handlerVars>>

-----------------------------------------------------------------------------
(* The timerfd is readable: its handler comes in this round, after those   *)
(* of other channels.                                                      *)
Poll ==
    /\ pc = "idle" /\ alarm = 0
    /\ pc' = "active"
    /\ UNCHANGED <<left, interval, timers, queue, alarm, batch, done, age, current>>

(* getExpired *)
Expired == {t \in timers : left[t] <= 0}

ErasedNone(set) == timers   \* fault: getExpired copies and does not erase

Erased(set) == timers \ set

(* handleRead: the read fails, and only that, if another handler of this   *)
(* round has set the timerfd anew.                                         *)
handleRead ==
    /\ pc = "active"
    /\ pc' = "running"
    /\ alarm' = IF alarm = 0 THEN Off ELSE alarm
    /\ batch' = Expired /\ timers' = Erased(Expired)
    /\ age' = 0
    /\ UNCHANGED <<left, interval, queue, done, current>>

RunTimer(t) ==
    /\ pc = "running" /\ t \in batch /\ left[t] = First(batch)
    /\ pc' = "callback" /\ current' = t
    /\ batch' = batch \ {t}
    /\ UNCHANGED <<left, interval, timers, queue, alarm, done, age>>

CallbackReturns ==
    /\ pc = "callback"
    /\ pc' = "running" /\ current' = NoTimer
    /\ done' = done \cup {current}
    /\ UNCHANGED <<left, interval, timers, queue, alarm, batch, age>>

Repeaters == {t \in done : interval[t] # OneShot}

(* Fault: the timerfd is set only if the handler's timers are all one-shot *)
(* ones.                                                                   *)
RearmedUnlessRepeating ==
    IF done # {} /\ Repeaters = {} /\ timers' # {}
    THEN Arm(Min({left'[t] : t \in timers'})) ELSE alarm

(* Each timer that was run is followed by a resetTimerfd, the last of them *)
(* for the first of all timers.                                            *)
Rearmed ==
    IF done # {} /\ timers' # {} THEN Arm(Min({left'[t] : t \in timers'})) ELSE alarm

(* Timer::restart, for a timer that repeats.                               *)
restart(t) == interval[t] - age

(* reset: timers that repeat start over from the `now' of handleRead, the  *)
(* others are deleted.                                                     *)
reset ==
    /\ pc = "running" /\ batch = {}
    /\ pc' = "idle"
    /\ left' = [t \in Timers |-> IF t \in Repeaters THEN restart(t)
                                 ELSE IF t \in done THEN 0 ELSE left[t]]
    /\ timers' = timers \cup Repeaters
    /\ alarm' = Rearmed
    /\ interval' = [t \in Timers |-> IF t \in done \ Repeaters THEN OneShot ELSE interval[t]]
    /\ done' = {} /\ age' = 0
    /\ UNCHANGED <<queue, batch, current>>

-----------------------------------------------------------------------------
(* The clocks.  The loop does what it has to do before a timer is too late *)
(* (MaxLate); a timerfd that is armed and all there is takes its time.     *)
LoopInTime ==
    \/ \A t \in Alive : left[t] > -MaxLate
    \/ pc = "idle" /\ queue = <<>> /\ alarm > 0

Tick ==
    /\ LoopInTime
    /\ left' = [t \in Timers |-> IF t \in Alive THEN left[t] - 1 ELSE left[t]]
    /\ alarm' = IF alarm > 0 THEN alarm - 1 ELSE alarm
    /\ age' = IF pc \in {"running", "callback"} THEN age + 1 ELSE age
    /\ UNCHANGED <<interval, timers, queue, pc, batch, done, current>>

LoopStep ==
    \/ RunFunctor \/ handleRead \/ (\E t \in Timers : RunTimer(t))
    \/ CallbackReturns \/ reset

AddTimer ==
    \E t \in Timers, delay \in Delays, every \in Intervals \cup {OneShot} :
        AddFromThread(t, delay, every) \/ AddFromLoop(t, delay, every)

Next == AddTimer \/ Poll \/ LoopStep \/ Tick

Spec == Init /\ [][Next]_vars

(* Time passes, and the loop runs its functors and polls (EventLoop shows  *)
(* that neither starves the other), and callbacks return.                  *)
Fairness == WF_vars(Tick) /\ SF_vars(RunFunctor) /\ SF_vars(Poll) /\ WF_vars(LoopStep)

FairSpec == Spec /\ Fairness

-----------------------------------------------------------------------------
(* A Timer is owned by one of its places at a time, until it is deleted.   *)
TypeOK ==
    /\ left \in [Timers -> Int] /\ interval \in [Timers -> Nat]
    /\ timers \subseteq Timers /\ queue \in Seq(Timers)
    /\ alarm \in Nat \cup {Off}
    /\ pc \in {"idle", "active", "running", "callback"}
    /\ batch \subseteq Timers /\ done \subseteq Timers /\ age \in Nat
    /\ current \in Timers \cup {NoTimer} /\ (current = NoTimer <=> pc # "callback")
    /\ timers \cap (batch \cup done \cup {current}) = {} /\ batch \cap done = {}
    /\ Range(queue) \cap (timers \cup batch \cup done \cup {current}) = {}

(* Outside its handler the timerfd is armed whenever there is a timer, and *)
(* for no later than the first one expires (or the shortest delay).        *)
Armed ==
    (pc \in {"idle", "active"} /\ timers # {}) =>
        alarm # Off /\ alarm <= Arm(First(timers))

(* A timer that was set is run, and one that repeats is run again.         *)
TimerRuns == \A t \in Timers : (t \in timers \cup Range(queue)) ~> (current = t)
=============================================================================
