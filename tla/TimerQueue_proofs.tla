-------------------------- MODULE TimerQueue_proofs --------------------------
(***************************************************************************)
(* For any timers, delays and intervals, past and future, and however late *)
(* the loop is: the timerfd is armed for the first timer, no later and not *)
(* before it is due.                                                       *)
(***************************************************************************)
EXTENDS TimerQueue, FiniteSetTheorems, SequenceTheorems, TLAPS

(* Of finitely many timers one is the first to expire. *)
LEMMA FirstIs ==
    ASSUME NEW f \in [Timers -> Int], NEW S \in SUBSET Timers, IsFiniteSet(S), S # {}
    PROVE  /\ \E t \in S : Min({f[u] : u \in S}) = f[t]
           /\ \A t \in S : Min({f[u] : u \in S}) <= f[t]
<1> DEFINE HasFirst(T) == \E t \in T : \A u \in T : f[t] <= f[u]
           Bad == {T \in FiniteSubsetsOf(S) : T # {} /\ ~HasFirst(T)}
           R == StrictSubsetOrdering(S)
<1>1. IsWellFoundedOn(R, FiniteSubsetsOf(S))
  BY FS_StrictSubsetOrderingWellFounded
<1>2. Bad = {}
  <2>1. SUFFICES ASSUME Bad # {} PROVE FALSE
    OBVIOUS
  <2>2. Bad \subseteq FiniteSubsetsOf(S)
    OBVIOUS
  <2>3. PICK T \in Bad : \A U \in Bad : ~(<<U, T>> \in R)
    <3> HIDE DEF Bad, R
    <3> QED BY <1>1, <2>1, <2>2, WFMin
  <2>4. T \in SUBSET S /\ IsFiniteSet(T) /\ T # {} /\ ~HasFirst(T)
    BY DEF FiniteSubsetsOf
  <2>5. PICK x \in T : TRUE
    BY <2>4
  <2>6. T \ {x} \in FiniteSubsetsOf(S) /\ <<T \ {x}, T>> \in R
    <3>1. IsFiniteSet(T \ {x})
      BY <2>4, FS_RemoveElement
    <3> QED BY <2>4, <2>5, <3>1 DEF FiniteSubsetsOf, StrictSubsetOrdering
  <2>7. T \ {x} \notin Bad
    BY <2>3, <2>6
  <2>8. T \ {x} = {} \/ HasFirst(T \ {x})
    BY <2>6, <2>7
  <2>9. \A t \in T : f[t] \in Int
    BY <2>4
  <2>10. CASE T \ {x} = {}
    BY <2>4, <2>5, <2>9, <2>10
  <2>11. CASE HasFirst(T \ {x})
    <3>1. PICK t \in T \ {x} : \A u \in T \ {x} : f[t] <= f[u]
      BY <2>11
    <3>2. CASE f[t] <= f[x]
      BY <2>4, <3>1, <3>2
    <3>3. CASE ~(f[t] <= f[x])
      BY <2>4, <2>5, <2>9, <3>1, <3>3
    <3> QED BY <3>2, <3>3
  <2> QED BY <2>8, <2>10, <2>11
<1>3. S \in FiniteSubsetsOf(S)
  BY DEF FiniteSubsetsOf
<1>4. PICK t \in S : \A u \in S : f[t] <= f[u]
  BY <1>2, <1>3
<1>5. f[t] \in {f[u] : u \in S} /\ \A y \in {f[u] : u \in S} : f[t] <= y
  BY <1>4
<1>6. /\ Min({f[u] : u \in S}) \in {f[u] : u \in S}
      /\ \A y \in {f[u] : u \in S} : Min({f[u] : u \in S}) <= y
  BY <1>5 DEF Min
<1> QED BY <1>6

-----------------------------------------------------------------------------
(* A Timer waits in one functor at most; the one that runs is no more in   *)
(* the batch, and not yet done.                                            *)
QueuedOnce == \A i, j \in 1 .. Len(queue) : queue[i] = queue[j] => i = j
RunOnce == current \notin batch \cup done

(* Outside the handler nothing of its work is left over. *)
NothingHeld == pc \in {"idle", "active"} => batch = {} /\ done = {}

(* No reset() is due that would set the timerfd anew. *)
Settled == pc \in {"idle", "active"} \/ (pc = "running" /\ batch = {} /\ done = {})

(* When that is so the timerfd is set for the first timer: not late, but   *)
(* not early either.  Were it early, handleRead would find nothing to run, *)
(* and reset() would leave the timerfd off.                                *)
SetFor(alm, set, f) ==
    set # {} => /\ alm # Off
                /\ alm <= Arm(Min({f[t] : t \in set}))
                /\ Min({f[t] : t \in set}) <= alm
WellArmed == Settled => SetFor(alarm, timers, left)

Finite == IsFiniteSet(timers) /\ IsFiniteSet(batch) /\ IsFiniteSet(done)

IInv == TypeOK /\ QueuedOnce /\ RunOnce /\ NothingHeld /\ Finite /\ WellArmed

LEMMA Initially == Init => IInv
<1> SUFFICES ASSUME Init PROVE IInv
  OBVIOUS
<1>1. TypeOK /\ QueuedOnce /\ RunOnce /\ NothingHeld
  BY NoTimerAssumption DEF Init, TypeOK, QueuedOnce, RunOnce, NothingHeld, OneShot, Off, Range
<1>2. Finite
  BY FS_EmptySet DEF Init, Finite
<1> QED BY <1>1, <1>2 DEF Init, IInv, WellArmed, SetFor

(* Setting the timerfd for the first of some timers. *)
LEMMA ArmedForFirst ==
    ASSUME NEW f \in [Timers -> Int], NEW S \in SUBSET Timers, IsFiniteSet(S), S # {},
           NEW alm, alm = Arm(Min({f[t] : t \in S}))
    PROVE  alm \in Nat /\ SetFor(alm, S, f)
<1>1. Min({f[t] : t \in S}) \in Int
  BY FirstIs
<1> QED BY <1>1 DEF SetFor, Arm, MinDelay, Off

(* insert() and resetTimerfd: a new timer leaves the timerfd right, be it  *)
(* the first or not.                                                       *)
LEMMA InsertKeeps ==
    ASSUME NEW f \in [Timers -> Int], NEW S \in SUBSET Timers, IsFiniteSet(S),
           NEW t \in Timers, NEW alm \in Nat \cup {Off}, NEW new,
           SetFor(alm, S, f),
           new = IF S = {} \/ f[t] < Min({f[u] : u \in S}) THEN Arm(f[t]) ELSE alm
    PROVE  SetFor(new, S \cup {t}, f)
<1> DEFINE T == S \cup {t}
           m == Min({f[u] : u \in S})
           n == Min({f[u] : u \in T})
<1>1. f[t] \in Int
  OBVIOUS
<1>2. IsFiniteSet(T) /\ T \in SUBSET Timers /\ T # {}
  BY FS_AddElement
<1>3. (\E u \in T : n = f[u]) /\ \A u \in T : n <= f[u]
  BY <1>2, FirstIs
<1>4. S # {} => (\E u \in S : m = f[u]) /\ \A u \in S : m <= f[u]
  BY FirstIs
<1>5. n \in Int /\ (S # {} => m \in Int) /\ \A u \in T : f[u] \in Int
  BY <1>2, <1>3, <1>4
<1> HIDE DEF m, n
<1>6. CASE S = {}
  <2>1. n = f[t]
    BY <1>3, <1>6
  <2> QED BY <1>1, <1>6, <2>1 DEF SetFor, Arm, MinDelay, Off, n
<1>7. CASE S # {} /\ f[t] < m
  <2>1. n = f[t]
    BY <1>3, <1>4, <1>5, <1>7
  <2> QED BY <1>1, <1>7, <2>1 DEF SetFor, Arm, MinDelay, Off, n, m
<1>8. CASE S # {} /\ ~(f[t] < m)
  <2>1. n = m
    <3>1. \A u \in T : m <= f[u]
      BY <1>4, <1>5, <1>8
    <3>2. n <= m
      BY <1>3, <1>4, <1>8
    <3>3. m <= n
      BY <1>3, <3>1
    <3> QED BY <1>5, <1>8, <3>2, <3>3
  <2>2. new = alm
    BY <1>8 DEF m
  <2> QED BY <1>8, <2>1, <2>2 DEF SetFor, n, m
<1> QED BY <1>6, <1>7, <1>8

-----------------------------------------------------------------------------
(* addTimer *)

(* A timer in none of its places is in none of the sets. *)
LEMMA NotAlive ==
    ASSUME TypeOK, NEW t \in Timers, t \notin Alive
    PROVE  t \notin timers \cup batch \cup done \cup {current} \cup Range(queue)
BY NoTimerAssumption DEF TypeOK, Alive

LEMMA RangeOf ==
    ASSUME NEW q \in Seq(Timers)
    PROVE  Range(q) = {q[i] : i \in 1 .. Len(q)}
BY LenProperties DEF Range

LEMMA CreateKeeps ==
    ASSUME IInv, NEW t \in Timers, NEW delay \in Delays, NEW every \in Intervals \cup {OneShot},
           create(t, delay, every)
    PROVE  /\ left' \in [Timers -> Int] /\ interval' \in [Timers -> Nat] /\ left'[t] = delay
           /\ \A S \in SUBSET Timers : t \notin S => {left'[u] : u \in S} = {left[u] : u \in S}
<1>1. delay \in Int /\ every \in Nat
  BY DelaysAssumption, IntervalsAssumption DEF OneShot
<1> QED BY <1>1 DEF IInv, TypeOK, create

LEMMA AddFromThreadKeeps ==
    ASSUME IInv, NEW t \in Timers, NEW delay \in Delays, NEW every \in Intervals \cup {OneShot},
           AddFromThread(t, delay, every)
    PROVE  IInv'
<1> USE DEF AddFromThread
<1>1. create(t, delay, every) /\ queue' = Append(queue, t)
      /\ UNCHANGED <<timers, alarm, pc, batch, done, age, current>>
  BY DEF handlerVars
<1>2. /\ left' \in [Timers -> Int] /\ interval' \in [Timers -> Nat]
      /\ \A S \in SUBSET Timers : t \notin S => {left'[u] : u \in S} = {left[u] : u \in S}
  BY <1>1, CreateKeeps
<1>3. t \notin timers \cup batch \cup done \cup {current} \cup Range(queue)
  BY <1>1, NotAlive DEF create, IInv
<1>4. queue \in Seq(Timers)
  BY DEF IInv, TypeOK
<1>5. /\ queue' \in Seq(Timers) /\ Len(queue') = Len(queue) + 1 /\ Len(queue) \in Nat
      /\ \A i \in 1 .. Len(queue) : queue'[i] = queue[i] /\ queue[i] \in Timers
      /\ queue'[Len(queue) + 1] = t
  BY <1>1, <1>4
<1>6. Range(queue') = Range(queue) \cup {t} /\ Range(queue) = {queue[i] : i \in 1 .. Len(queue)}
  <2>1. Range(queue') = {queue'[i] : i \in 1 .. Len(queue) + 1}
    BY <1>5, RangeOf
  <2>2. Range(queue) = {queue[i] : i \in 1 .. Len(queue)}
    BY <1>4, RangeOf
  <2>3. 1 .. Len(queue) + 1 = 1 .. Len(queue) \cup {Len(queue) + 1}
    BY <1>5
  <2>4. {queue'[i] : i \in 1 .. Len(queue)} = {queue[i] : i \in 1 .. Len(queue)}
    BY <1>5
  <2> QED BY <1>5, <2>1, <2>2, <2>3, <2>4
<1>7. TypeOK'
  <2>1. Range(queue') \cap (timers \cup batch \cup done \cup {current}) = {}
    BY <1>3, <1>6 DEF IInv, TypeOK
  <2> QED BY <1>1, <1>2, <1>5, <2>1 DEF IInv, TypeOK
<1>8. QueuedOnce'
  <2>1. \A i \in 1 .. Len(queue) : queue[i] # t
    BY <1>3, <1>6
  <2> QED BY <1>5, <2>1 DEF IInv, QueuedOnce
<1>9. WellArmed'
  <2>1. {left'[u] : u \in timers} = {left[u] : u \in timers}
    BY <1>2, <1>3 DEF IInv, TypeOK
  <2> QED BY <1>1, <2>1 DEF IInv, WellArmed, SetFor, Settled
<1>10. RunOnce' /\ NothingHeld' /\ Finite'
  BY <1>1 DEF IInv, RunOnce, NothingHeld, Finite
<1> QED BY <1>7, <1>8, <1>9, <1>10 DEF IInv

(* What addTimerInLoop leaves of the invariant, be the timer new or queued. *)
LEMMA AddTimerInLoopKeeps ==
    ASSUME IInv, NEW t \in Timers, NEW f \in [Timers -> Int],
           {f[u] : u \in timers} = {left[u] : u \in timers},
           addTimerInLoop(t, f[t])
    PROVE  /\ timers' = timers \cup {t} /\ IsFiniteSet(timers') /\ timers' \subseteq Timers
           /\ alarm' \in Nat \cup {Off}
           /\ Settled => SetFor(alarm', timers', f)
<1>1. /\ timers' = timers \cup {t}
      /\ alarm' = IF EarliestChanged(f[t]) THEN Arm(f[t]) ELSE alarm
  BY DEF addTimerInLoop
<1>2. IsFiniteSet(timers') /\ timers' \subseteq Timers
  BY <1>1, FS_AddElement DEF IInv, Finite, TypeOK
<1>3. f[t] \in Int /\ alarm \in Nat \cup {Off}
  BY DEF IInv, TypeOK
<1>4. alarm' \in Nat \cup {Off}
  BY <1>1, <1>3 DEF Arm, MinDelay
<1>5. ASSUME Settled PROVE SetFor(alarm', timers', f)
  <2>1. SetFor(alarm, timers, f)
    BY <1>5 DEF IInv, WellArmed, SetFor
  <2>2. alarm' = IF timers = {} \/ f[t] < Min({f[u] : u \in timers}) THEN Arm(f[t]) ELSE alarm
    BY <1>1 DEF EarliestChanged, First
  <2>3. SetFor(alarm', timers \cup {t}, f)
    BY <1>3, <2>1, <2>2, InsertKeeps DEF IInv, TypeOK, Finite
  <2> QED BY <1>1, <2>3
<1> QED BY <1>1, <1>2, <1>4, <1>5

LEMMA AddFromLoopKeeps ==
    ASSUME IInv, NEW t \in Timers, NEW delay \in Delays, NEW every \in Intervals \cup {OneShot},
           AddFromLoop(t, delay, every)
    PROVE  IInv'
<1>1. /\ create(t, delay, every) /\ addTimerInLoop(t, delay)
      /\ UNCHANGED <<queue, pc, batch, done, age, current>>
  BY DEF AddFromLoop, handlerVars
<1>2. /\ left' \in [Timers -> Int] /\ interval' \in [Timers -> Nat] /\ left'[t] = delay
      /\ \A S \in SUBSET Timers : t \notin S => {left'[u] : u \in S} = {left[u] : u \in S}
  BY <1>1, CreateKeeps
<1>3. t \notin timers \cup batch \cup done \cup {current} \cup Range(queue)
  BY <1>1, NotAlive DEF create, IInv
<1>4. {left'[u] : u \in timers} = {left[u] : u \in timers}
  BY <1>2, <1>3 DEF IInv, TypeOK
<1>5. /\ timers' = timers \cup {t} /\ IsFiniteSet(timers') /\ timers' \subseteq Timers
      /\ alarm' \in Nat \cup {Off} /\ (Settled => SetFor(alarm', timers', left'))
  BY <1>1, <1>2, <1>4, AddTimerInLoopKeeps
<1>6. TypeOK'
  BY <1>1, <1>2, <1>3, <1>5 DEF IInv, TypeOK
<1>7. QueuedOnce' /\ RunOnce' /\ NothingHeld' /\ Finite' /\ WellArmed'
  BY <1>1, <1>5 DEF IInv, QueuedOnce, RunOnce, NothingHeld, Finite, WellArmed, Settled
<1> QED BY <1>6, <1>7 DEF IInv

LEMMA RunFunctorKeeps == IInv /\ RunFunctor => IInv'
<1> SUFFICES ASSUME IInv, RunFunctor PROVE IInv'
  OBVIOUS
<1> DEFINE t == Head(queue)
<1>1. /\ pc = "idle" /\ queue # <<>> /\ queue \in Seq(Timers)
      /\ addTimerInLoop(t, left[t]) /\ queue' = Tail(queue)
      /\ UNCHANGED <<left, interval, pc, batch, done, age, current>>
  BY DEF RunFunctor, handlerVars, IInv, TypeOK
<1>2. /\ t \in Timers /\ t = queue[1] /\ Len(queue) \in Nat \ {0}
      /\ queue' \in Seq(Timers) /\ Len(queue') = Len(queue) - 1
      /\ \A i \in 1 .. Len(queue') : queue'[i] = queue[i + 1]
  BY <1>1, HeadTailProperties, EmptySeq
<1>3. Range(queue) = {queue[i] : i \in 1 .. Len(queue)}
      /\ Range(queue') = {queue'[i] : i \in 1 .. Len(queue')}
  BY <1>1, <1>2, RangeOf
<1>4. t \in Range(queue) /\ Range(queue') \subseteq Range(queue) \ {t}
  BY <1>2, <1>3 DEF IInv, QueuedOnce
<1>5. /\ timers' = timers \cup {t} /\ IsFiniteSet(timers') /\ timers' \subseteq Timers
      /\ alarm' \in Nat \cup {Off} /\ (Settled => SetFor(alarm', timers', left))
  <2>1. left \in [Timers -> Int]
    BY DEF IInv, TypeOK
  <2> HIDE DEF t
  <2> QED BY <1>1, <1>2, <2>1, AddTimerInLoopKeeps
<1>6. TypeOK'
  BY <1>1, <1>2, <1>4, <1>5 DEF IInv, TypeOK
<1>7. QueuedOnce'
  BY <1>2 DEF IInv, QueuedOnce
<1>8. RunOnce' /\ NothingHeld' /\ Finite' /\ WellArmed'
  BY <1>1, <1>5 DEF IInv, RunOnce, NothingHeld, Finite, WellArmed, Settled
<1> QED BY <1>6, <1>7, <1>8 DEF IInv

-----------------------------------------------------------------------------
(* handleRead, the callbacks and reset *)

(* A timerfd that has gone off finds an expired timer, if there is any.    *)
LEMMA SomeoneIsDue ==
    ASSUME IInv, pc = "active", alarm = 0, timers # {}
    PROVE  Expired # {}
<1>1. left \in [Timers -> Int] /\ timers \in SUBSET Timers /\ IsFiniteSet(timers)
  BY DEF IInv, TypeOK, Finite
<1>2. PICK t \in timers : Min({left[u] : u \in timers}) = left[t]
  BY <1>1, FirstIs
<1>3. Min({left[u] : u \in timers}) <= 0
  BY DEF IInv, WellArmed, Settled, SetFor
<1> QED BY <1>2, <1>3 DEF Expired

LEMMA HandleReadKeeps == IInv /\ handleRead => IInv'
<1> SUFFICES ASSUME IInv, handleRead PROVE IInv'
  OBVIOUS
<1>1. /\ pc = "active" /\ pc' = "running"
      /\ alarm' = IF alarm = 0 THEN Off ELSE alarm
      /\ batch' = Expired /\ timers' = timers \ Expired /\ age' = 0
      /\ UNCHANGED <<left, interval, queue, done, current>>
  BY DEF handleRead, Erased
<1>2. Expired \subseteq timers
  BY DEF Expired
<1>3. batch = {} /\ done = {}
  BY <1>1 DEF IInv, NothingHeld
<1>4. TypeOK'
  BY <1>1, <1>2, <1>3 DEF IInv, TypeOK
<1>5. Finite'
  <2>1. IsFiniteSet(batch')
    BY <1>1, <1>2, FS_Subset DEF IInv, Finite
  <2>2. IsFiniteSet(timers')
    BY <1>1, FS_Subset DEF IInv, Finite
  <2> QED BY <1>1, <2>1, <2>2 DEF IInv, Finite
<1>6. WellArmed'
  <2>1. CASE Expired = {}
    <3>1. timers # {} => alarm # 0
      BY <1>1, <2>1, SomeoneIsDue
    <3> QED BY <1>1, <2>1, <3>1 DEF IInv, WellArmed, SetFor, Settled
  <2>2. CASE Expired # {}
    BY <1>1, <2>2 DEF WellArmed, Settled
  <2> QED BY <2>1, <2>2
<1>7. QueuedOnce' /\ RunOnce' /\ NothingHeld'
  BY <1>1, <1>2 DEF IInv, QueuedOnce, RunOnce, NothingHeld, TypeOK
<1> QED BY <1>4, <1>5, <1>6, <1>7 DEF IInv

LEMMA CallbackKeeps ==
    ASSUME IInv, (\E t \in Timers : RunTimer(t)) \/ CallbackReturns
    PROVE  IInv'
<1>1. ASSUME NEW t \in Timers, RunTimer(t) PROVE IInv'
  <2>1. /\ pc = "running" /\ t \in batch /\ pc' = "callback" /\ current' = t
        /\ batch' = batch \ {t}
        /\ UNCHANGED <<left, interval, timers, queue, alarm, done, age>>
    BY <1>1 DEF RunTimer
  <2>2. TypeOK'
    BY <2>1, NoTimerAssumption DEF IInv, TypeOK
  <2>3. Finite'
    BY <2>1, FS_RemoveElement DEF IInv, Finite
  <2>4. QueuedOnce' /\ RunOnce' /\ NothingHeld' /\ WellArmed'
    BY <2>1 DEF IInv, TypeOK, QueuedOnce, RunOnce, NothingHeld, WellArmed, Settled
  <2> QED BY <2>2, <2>3, <2>4 DEF IInv
<1>2. CASE CallbackReturns
  <2>1. /\ pc = "callback" /\ pc' = "running" /\ current' = NoTimer
        /\ done' = done \cup {current}
        /\ UNCHANGED <<left, interval, timers, queue, alarm, batch, age>>
    BY <1>2 DEF CallbackReturns
  <2>2. current \in Timers
    BY <2>1 DEF IInv, TypeOK
  <2>3. Range(queue) \subseteq Timers
    BY RangeOf, ElementOfSeq DEF IInv, TypeOK
  <2>4. TypeOK'
    BY <2>1, <2>2, <2>3, NoTimerAssumption DEF IInv, TypeOK, RunOnce
  <2>5. RunOnce'
    BY <2>1, <2>2, NoTimerAssumption DEF IInv, TypeOK, RunOnce
  <2>6. Finite'
    BY <2>1, FS_AddElement DEF IInv, Finite
  <2>7. QueuedOnce' /\ NothingHeld' /\ WellArmed'
    BY <2>1 DEF IInv, QueuedOnce, NothingHeld, WellArmed, Settled
  <2> QED BY <2>4, <2>5, <2>6, <2>7 DEF IInv
<1> QED BY <1>1, <1>2

(* Timer::restart and the timers that are done: what becomes of the others. *)
LEMMA ResetKeeps == IInv /\ reset => IInv'
<1> SUFFICES ASSUME IInv, reset PROVE IInv'
  OBVIOUS
<1>1. /\ pc = "running" /\ batch = {} /\ pc' = "idle"
      /\ left' = [t \in Timers |-> IF t \in Repeaters THEN restart(t)
                                   ELSE IF t \in done THEN 0 ELSE left[t]]
      /\ timers' = timers \cup Repeaters /\ alarm' = Rearmed
      /\ interval' = [t \in Timers |-> IF t \in done \ Repeaters THEN OneShot ELSE interval[t]]
      /\ done' = {} /\ age' = 0
      /\ UNCHANGED <<queue, batch, current>>
  BY DEF reset
<1>2. Repeaters \subseteq done
  BY DEF Repeaters
<1>3. left' \in [Timers -> Int] /\ interval' \in [Timers -> Nat]
  BY <1>1 DEF IInv, TypeOK, restart, OneShot
<1>4. timers' \subseteq Timers /\ IsFiniteSet(timers')
  <2>1. IsFiniteSet(Repeaters)
    BY <1>2, FS_Subset DEF IInv, Finite
  <2>2. IsFiniteSet(timers') 
    BY <1>1, <2>1, FS_Union DEF IInv, Finite
  <2> QED BY <1>1, <1>2, <2>2 DEF IInv, TypeOK
<1>5. alarm' \in Nat \cup {Off} /\ SetFor(alarm', timers', left')
  <2>1. CASE done # {} /\ timers' # {}
    <3>1. alarm' = Arm(Min({left'[t] : t \in timers'}))
      BY <1>1, <2>1 DEF Rearmed
    <3> QED BY <1>3, <1>4, <2>1, <3>1, ArmedForFirst
  <2>2. CASE timers' = {}
    BY <1>1, <2>2 DEF Rearmed, SetFor, IInv, TypeOK
  <2>3. CASE done = {}
    <3>1. Repeaters = {} /\ timers' = timers /\ alarm' = alarm
      BY <1>1, <1>2, <2>3 DEF Rearmed
    <3>2. \A t \in timers : left'[t] = left[t]
      BY <1>1, <2>3, <3>1 DEF IInv, TypeOK
    <3>3. {left'[t] : t \in timers} = {left[t] : t \in timers}
      BY <3>2
    <3> QED BY <1>1, <2>3, <3>1, <3>3 DEF IInv, WellArmed, Settled, SetFor, TypeOK
  <2> QED BY <2>1, <2>2, <2>3
<1>6. TypeOK'
  <2>1. current = NoTimer /\ timers' \subseteq timers \cup done
    BY <1>1, <1>2 DEF IInv, TypeOK
  <2>2. /\ timers' \cap (batch \cup {current}) = {}
        /\ Range(queue) \cap (timers' \cup batch \cup {current}) = {}
    BY <1>1, <1>4, <2>1, NoTimerAssumption DEF IInv, TypeOK
  <2> QED BY <1>1, <1>3, <1>4, <1>5, <2>1, <2>2 DEF IInv, TypeOK
<1>7. Finite'
  BY <1>1, <1>4, FS_EmptySet DEF IInv, Finite
<1>8. QueuedOnce' /\ RunOnce' /\ NothingHeld' /\ WellArmed'
  BY <1>1, <1>5 DEF IInv, QueuedOnce, RunOnce, NothingHeld, WellArmed
<1> QED BY <1>6, <1>7, <1>8 DEF IInv

-----------------------------------------------------------------------------
(* A tick brings the timers and the timerfd closer by the same. *)
LEMMA TickKeeps == IInv /\ Tick => IInv'
<1> SUFFICES ASSUME IInv, Tick PROVE IInv'
  OBVIOUS
<1> DEFINE m == Min({left[t] : t \in timers})
           n == Min({left'[t] : t \in timers})
<1>1. /\ left' = [t \in Timers |-> IF t \in Alive THEN left[t] - 1 ELSE left[t]]
      /\ alarm' = IF alarm > 0 THEN alarm - 1 ELSE alarm
      /\ age' = IF pc \in {"running", "callback"} THEN age + 1 ELSE age
      /\ UNCHANGED <<interval, timers, queue, pc, batch, done, current>>
  BY DEF Tick
<1>2. left \in [Timers -> Int] /\ left' \in [Timers -> Int]
      /\ timers \in SUBSET Timers /\ IsFiniteSet(timers) /\ alarm \in Nat \cup {Off}
  BY <1>1 DEF IInv, TypeOK, Finite
<1>3. alarm' \in Nat \cup {Off} /\ age' \in Nat
  BY <1>1, <1>2 DEF IInv, TypeOK, Off
<1>4. TypeOK'
  BY <1>1, <1>2, <1>3 DEF IInv, TypeOK
<1>5. \A t \in timers : left'[t] = left[t] - 1
  BY <1>1, <1>2 DEF Alive
<1>6. ASSUME timers # {} PROVE m \in Int /\ n = m - 1
  <2>1. (\E t \in timers : m = left[t]) /\ \A t \in timers : m <= left[t]
    BY <1>2, <1>6, FirstIs
  <2>2. (\E t \in timers : n = left'[t]) /\ \A t \in timers : n <= left'[t]
    BY <1>2, <1>6, FirstIs
  <2>3. \A t \in timers : left[t] \in Int
    BY <1>2
  <2> HIDE DEF m, n
  <2> QED BY <1>5, <2>1, <2>2, <2>3
<1>7. WellArmed'
  <2>1. SUFFICES ASSUME Settled, timers # {} PROVE SetFor(alarm', timers, left')
    BY <1>1 DEF WellArmed, Settled, SetFor
  <2>2. m \in Int /\ n = m - 1
    BY <1>6, <2>1
  <2>3. alarm # Off /\ alarm <= Arm(m) /\ m <= alarm
    BY <2>1 DEF IInv, WellArmed, SetFor
  <2> HIDE DEF m, n
  <2>4. alarm' # Off /\ alarm' <= Arm(n) /\ n <= alarm'
    BY <1>1, <1>2, <2>2, <2>3 DEF Arm, MinDelay, Off
  <2> QED BY <2>4 DEF SetFor, n
<1>8. QueuedOnce' /\ RunOnce' /\ NothingHeld' /\ Finite'
  BY <1>1 DEF IInv, QueuedOnce, RunOnce, NothingHeld, Finite
<1> QED BY <1>4, <1>7, <1>8 DEF IInv

LEMMA PollKeeps == IInv /\ (Poll \/ UNCHANGED vars) => IInv'
<1>1. ASSUME IInv, Poll PROVE IInv'
  BY <1>1 DEF IInv, Poll, TypeOK, QueuedOnce, RunOnce, NothingHeld, Finite, WellArmed, Settled,
     SetFor
<1>2. ASSUME IInv, UNCHANGED vars PROVE IInv'
  BY <1>2 DEF IInv, vars, TypeOK, QueuedOnce, RunOnce, NothingHeld, Finite, WellArmed, Settled,
     SetFor
<1> QED BY <1>1, <1>2

LEMMA StepKeeps == IInv /\ [Next]_vars => IInv'
<1> SUFFICES ASSUME IInv, [Next]_vars PROVE IInv'
  OBVIOUS
<1>1. CASE AddTimer
  BY <1>1, AddFromThreadKeeps, AddFromLoopKeeps DEF AddTimer
<1>2. CASE LoopStep
  BY <1>2, RunFunctorKeeps, HandleReadKeeps, CallbackKeeps, ResetKeeps DEF LoopStep
<1>3. CASE Tick
  BY <1>3, TickKeeps
<1>4. CASE Poll \/ UNCHANGED vars
  BY <1>4, PollKeeps
<1> QED BY <1>1, <1>2, <1>3, <1>4 DEF Next

-----------------------------------------------------------------------------
(* The inductive invariant: the timerfd is set for the first timer         *)
(* whenever no reset() is to come.                                         *)
THEOREM Inductive == Spec => []IInv
BY Initially, StepKeeps, PTL DEF Spec

(* The types; a Timer is in one of its places at a time.                   *)
THEOREM TypeCorrect == Spec => []TypeOK
<1>1. IInv => TypeOK
  BY DEF IInv
<1> QED BY <1>1, Inductive, PTL

(* Outside handleRead the timerfd is armed whenever there is a timer, and  *)
(* for no later than the first one expires.                                *)
THEOREM TimerfdIsArmed == Spec => []Armed
<1>1. IInv => Armed
  BY DEF IInv, WellArmed, Settled, SetFor, Armed, First
<1> QED BY <1>1, Inductive, PTL

(* The timerfd does not go off in vain: if there are timers, handleRead    *)
(* finds one that is due, so that reset() sets the timerfd again.          *)
NotInVain == (pc = "active" /\ alarm = 0 /\ timers # {}) => Expired # {}

THEOREM GoesOffForATimer == Spec => []NotInVain
<1>1. IInv => NotInVain
  BY SomeoneIsDue DEF NotInVain
<1> QED BY <1>1, Inductive, PTL
=============================================================================
