-------------------------- MODULE ThreadPool_proofs --------------------------
(***************************************************************************)
(* For any number of workers and any set of tasks: tasks are taken once    *)
(* and in order, and no task waits for a worker that sleeps.               *)
(***************************************************************************)
EXTENDS ThreadPool, FiniteSetTheorems, SequenceTheorems, TLAPS

(* A worker that start() has not come to has no thread, and start() is not *)
(* over before every worker has one.                                       *)
NotStarted ==
    /\ \A w \in Workers : w > started => worker[w] = "none"
    /\ owner = "start" => started < NumThreads
    /\ owner = "new" => started = 0

IInv == TypeOK /\ NotStarted /\ TakenInOrder /\ NoIdleSleeper

-----------------------------------------------------------------------------
(* Sets of workers are finite and counted. *)
LEMMA Counted ==
    ASSUME NEW S \in SUBSET Workers, NEW T \in SUBSET Workers
    PROVE  /\ Cardinality(S) \in Nat
           /\ S \subseteq T => Cardinality(S) <= Cardinality(T)
           /\ \A w \in S : Cardinality(S \ {w}) = Cardinality(S) - 1
           /\ \A w \in Workers \ S : Cardinality(S \cup {w}) = Cardinality(S) + 1
<1>1. IsFiniteSet(Workers)
  BY NumThreadsAssumption, FS_Interval DEF Workers
<1>2. IsFiniteSet(S) /\ IsFiniteSet(T)
  BY <1>1, FS_Subset
<1>3. Cardinality(S) \in Nat
  BY <1>2, FS_CardinalityType
<1>4. S \subseteq T => Cardinality(S) <= Cardinality(T)
  BY <1>2, FS_Subset
<1>5. \A w \in S : Cardinality(S \ {w}) = Cardinality(S) - 1
  BY <1>2, FS_RemoveElement
<1>6. \A w \in Workers \ S : Cardinality(S \cup {w}) = Cardinality(S) + 1
  BY <1>2, FS_AddElement
<1> QED BY <1>3, <1>4, <1>5, <1>6

(* A step that gives no new sleeper, no new task, and takes no worker from *)
(* the lock.                                                               *)
LEMMA NobodyLeavesLock ==
    ASSUME TypeOK, NoIdleSleeper, queue' = queue,
           At("wait")' \subseteq At("wait"), At("lock") \subseteq At("lock")'
    PROVE  NoIdleSleeper'
<1>1. At("lock") \in SUBSET Workers /\ At("lock")' \in SUBSET Workers
  BY DEF At, Workers
<1>2. Cardinality(At("lock")) <= Cardinality(At("lock")')
  BY <1>1, Counted
<1>3. Cardinality(At("lock")) \in Nat /\ Cardinality(At("lock")') \in Nat
  BY <1>1, Counted
<1>4. Len(queue) \in Nat
  BY DEF TypeOK
<1> QED BY <1>2, <1>3, <1>4 DEF NoIdleSleeper

(* A step that moves one worker from somewhere else than the lock to       *)
(* somewhere else than wait, like most of them.                            *)
LEMMA OneMoves ==
    ASSUME TypeOK, NoIdleSleeper, queue' = queue, NEW w \in Workers, NEW place,
           Move(w, place), place # "wait", worker[w] # "lock"
    PROVE  NoIdleSleeper'
<1>1. At("wait")' \subseteq At("wait") /\ At("lock") \subseteq At("lock")'
  BY DEF At, Move, TypeOK
<1> QED BY <1>1, NobodyLeavesLock

LEMMA EverybodyWakes ==
    ASSUME TypeOK, notify_all
    PROVE  /\ worker' \in [Workers -> {"none", "init", "check", "lock", "wait", "task", "done"}]
           /\ At("wait")' = {}
           /\ \A w \in Workers : worker[w] = "none" => worker'[w] = "none"
BY DEF TypeOK, notify_all, At

LEMMA Initially == Init => IInv
<1> SUFFICES ASSUME Init PROVE IInv
  OBVIOUS
<1>1. TypeOK /\ NotStarted
  <2>1. started \in 0 .. NumThreads
    BY NumThreadsAssumption DEF Init
  <2>2. queue \in Seq(Tasks) /\ added \in Seq(Tasks) /\ taken \in Seq(Tasks)
    BY DEF Init
  <2>3. worker \in [Workers -> {"none", "init", "check", "lock", "wait", "task", "done"}]
    BY DEF Init
  <2> QED BY <2>1, <2>2, <2>3 DEF Init, TypeOK, NotStarted
<1>2. TakenInOrder
  BY DEF Init, TakenInOrder
<1>3. NoIdleSleeper
  <2>1. At("wait") = {}
    BY DEF Init, At
  <2> QED BY <2>1 DEF NoIdleSleeper
<1> QED BY <1>1, <1>2, <1>3 DEF IInv

-----------------------------------------------------------------------------
LEMMA StartKeeps == IInv /\ Start => IInv'
<1> SUFFICES ASSUME IInv, Start PROVE IInv'
  OBVIOUS
<1>1. TypeOK'
  BY DEF IInv, Start, TypeOK
<1>6. NotStarted'
  <2>1. worker' = worker /\ started' = 0
    BY DEF IInv, Start, NotStarted
  <2>2. owner' = "start" => 0 < NumThreads
    BY NumThreadsAssumption DEF Start
  <2>3. owner' # "new"
    BY DEF Start
  <2>4. started = 0
    BY DEF IInv, Start, NotStarted
  <2> QED BY <2>1, <2>2, <2>3, <2>4 DEF IInv, NotStarted
<1>2. TakenInOrder'
  BY DEF IInv, Start, TakenInOrder
<1>3. NoIdleSleeper'
  BY DEF IInv, Start, NoIdleSleeper, At
<1> QED BY <1>1, <1>2, <1>3, <1>6 DEF IInv

LEMMA StartWorkerKeeps == IInv /\ StartWorker => IInv'
<1> SUFFICES ASSUME IInv, StartWorker PROVE IInv'
  OBVIOUS
<1> DEFINE w == started + 1
<1>1. /\ w \in Workers /\ worker[w] = "none" /\ Move(w, "init")
      /\ started' = w /\ queue' = queue
  BY NumThreadsAssumption DEF IInv, StartWorker, TypeOK, NotStarted, Workers
<1>2. TypeOK'
  BY <1>1, NumThreadsAssumption DEF IInv, StartWorker, TypeOK, Move, Workers
<1>3. NotStarted'
  <2>1. \A v \in Workers : v > w => worker'[v] = "none"
    BY <1>1 DEF IInv, TypeOK, NotStarted, Move, Workers
  <2>2. owner' = "start" => w < NumThreads
    BY <1>1, NumThreadsAssumption DEF IInv, StartWorker, TypeOK, Workers
  <2> QED BY <1>1, <2>1, <2>2 DEF NotStarted, StartWorker
<1>4. TakenInOrder'
  BY DEF IInv, StartWorker, TakenInOrder
<1>5. NoIdleSleeper'
  BY <1>1, OneMoves DEF IInv
<1> QED BY <1>2, <1>3, <1>4, <1>5 DEF IInv

LEMMA StopKeeps == IInv /\ (Stop \/ Destructor) => IInv'
<1> SUFFICES ASSUME IInv, Stop \/ Destructor PROVE IInv'
  OBVIOUS
<1>1. notify_all /\ TypeOK
  BY DEF IInv, Stop, Destructor
<1>2. TypeOK'
  BY <1>1, EverybodyWakes DEF Stop, Destructor, TypeOK
<1>3. NotStarted'
  BY <1>1, EverybodyWakes DEF IInv, Stop, Destructor, NotStarted
<1>4. TakenInOrder'
  BY DEF IInv, Stop, Destructor, TakenInOrder
<1>5. NoIdleSleeper'
  BY <1>1, EverybodyWakes DEF NoIdleSleeper
<1> QED BY <1>2, <1>3, <1>4, <1>5 DEF IInv

(* The task that is added wakes a sleeper, if there is one.                *)
LEMMA AddTaskKeeps == ASSUME IInv, NEW task \in Tasks, addTask(task) PROVE IInv'
<1>1. TypeOK'
  <2>1. queue' \in Seq(Tasks) /\ added' \in Seq(Tasks)
    BY DEF IInv, TypeOK, addTask
  <2>2. worker' \in [Workers -> {"none", "init", "check", "lock", "wait", "task", "done"}]
    BY DEF IInv, TypeOK, addTask, notify_one, Move, At
  <2> QED BY <2>1, <2>2 DEF IInv, TypeOK, addTask
<1>2. NotStarted'
  BY DEF IInv, TypeOK, NotStarted, addTask, notify_one, Move, At
<1>3. TakenInOrder'
  <2>1. queue \in Seq(Tasks) /\ taken \in Seq(Tasks) /\ added = taken \o queue
    BY DEF IInv, TypeOK, TakenInOrder
  <2>2. Append(taken \o queue, task) = taken \o Append(queue, task)
    <3>1. taken \o queue \in Seq(Tasks) /\ <<task>> \in Seq(Tasks)
      BY <2>1, ConcatProperties
    <3>2. (taken \o queue) \o <<task>> = taken \o (queue \o <<task>>)
      BY <2>1, <3>1, ConcatAssociative
    <3> QED BY <2>1, <3>1, <3>2, AppendIsConcat
  <2> QED BY <2>1, <2>2 DEF TakenInOrder, addTask
<1>4. NoIdleSleeper'
  <2>1. Len(queue') = Len(queue) + 1 /\ Len(queue) \in Nat
    BY DEF IInv, TypeOK, addTask
  <2>2. CASE At("wait") = {}
    <3>1. At("wait")' = {}
      BY <2>2 DEF addTask, notify_one, At
    <3> QED BY <3>1 DEF NoIdleSleeper
  <2>3. CASE At("wait") # {}
    <3>1. PICK w \in At("wait") : Move(w, "lock")
      BY <2>3 DEF addTask, notify_one
    <3>2. /\ w \in Workers \ At("lock") /\ At("lock")' = At("lock") \cup {w}
          /\ At("lock") \in SUBSET Workers
      BY <3>1 DEF IInv, TypeOK, At, Move
    <3>3. Cardinality(At("lock")') = Cardinality(At("lock")) + 1
      BY <3>2, Counted
    <3>4. Cardinality(At("lock")) \in Nat
      BY <3>2, Counted
    <3>5. Len(queue) <= Cardinality(At("lock"))
      BY <2>3 DEF IInv, NoIdleSleeper
    <3> QED BY <2>1, <3>3, <3>4, <3>5 DEF NoIdleSleeper
  <2> QED BY <2>2, <2>3
<1> QED BY <1>1, <1>2, <1>3, <1>4 DEF IInv

(* The worker that leaves the lock leaves with a task.                     *)
LEMMA TakeKeeps == ASSUME IInv, NEW w \in Workers, Take(w) PROVE IInv'
<1>1. /\ queue # <<>> /\ queue \in Seq(Tasks) /\ taken \in Seq(Tasks)
      /\ Head(queue) \in Tasks /\ Tail(queue) \in Seq(Tasks)
      /\ Len(Tail(queue)) = Len(queue) - 1 /\ Len(queue) \in Nat
  BY HeadTailProperties DEF IInv, TypeOK, Take
<1>2. TypeOK'
  BY <1>1 DEF IInv, TypeOK, Take, Move
<1>3. NotStarted'
  BY DEF IInv, TypeOK, NotStarted, Take, Move
<1>4. TakenInOrder'
  <2>1. queue = <<Head(queue)>> \o Tail(queue)
    BY <1>1
  <2>2. Append(taken, Head(queue)) \o Tail(queue) = taken \o queue
    BY <1>1
  <2> QED BY <2>2 DEF IInv, TakenInOrder, Take
<1>5. NoIdleSleeper'
  <2>1. /\ At("wait")' = At("wait") /\ At("lock")' = At("lock") \ {w}
        /\ w \in At("lock") /\ At("lock") \in SUBSET Workers
    BY DEF IInv, TypeOK, Take, Move, At
  <2>2. Cardinality(At("lock")') = Cardinality(At("lock")) - 1
    BY <2>1, Counted
  <2>3. Cardinality(At("lock")) \in Nat
    BY <2>1, Counted
  <2>4. queue' = Tail(queue)
    BY DEF Take
  <2> QED BY <1>1, <2>1, <2>2, <2>3, <2>4 DEF IInv, NoIdleSleeper
<1> QED BY <1>2, <1>3, <1>4, <1>5 DEF IInv

(* Nobody goes to sleep, or goes, while there are tasks.                   *)
LEMMA SleepKeeps == ASSUME IInv, NEW w \in Workers, Sleep(w) \/ Leave(w) PROVE IInv'
<1>1. TypeOK' /\ NotStarted'
  BY DEF IInv, TypeOK, NotStarted, Sleep, Leave, Move
<1>2. TakenInOrder'
  BY DEF IInv, TakenInOrder, Sleep, Leave
<1>3. NoIdleSleeper'
  <2>1. Len(queue') = 0
    BY DEF Sleep, Leave
  <2>2. At("lock")' \in SUBSET Workers
    BY DEF At, Workers
  <2>3. Cardinality(At("lock")') \in Nat
    BY <2>2, Counted
  <2> QED BY <2>1, <2>3 DEF NoIdleSleeper
<1> QED BY <1>1, <1>2, <1>3 DEF IInv

LEMMA OtherStepKeeps ==
    ASSUME IInv, NEW w \in Workers,
           CallInit(w) \/ CheckStop(w) \/ Finish(w) \/ SpuriousWakeup(w)
    PROVE  IInv'
<1>1. TypeOK'
  BY DEF IInv, TypeOK, CallInit, CheckStop, Finish, SpuriousWakeup, Move
<1>6. NotStarted'
  BY DEF IInv, TypeOK, NotStarted, CallInit, CheckStop, Finish, SpuriousWakeup, Move
<1>2. TakenInOrder'
  BY DEF IInv, TakenInOrder, CallInit, CheckStop, Finish, SpuriousWakeup
<1>3. PICK place : Move(w, place) /\ place # "wait"
  BY DEF CallInit, CheckStop, Finish, SpuriousWakeup
<1>4. worker[w] # "lock" /\ queue' = queue
  BY DEF CallInit, CheckStop, Finish, SpuriousWakeup
<1>5. NoIdleSleeper'
  BY <1>3, <1>4, OneMoves DEF IInv
<1> QED BY <1>1, <1>2, <1>5, <1>6 DEF IInv

LEMMA UnmovedKeeps == IInv /\ (Joined \/ UNCHANGED vars) => IInv'
BY DEF IInv, TypeOK, NotStarted, TakenInOrder, NoIdleSleeper, At, Joined, vars

(* IInv is an inductive invariant.                                         *)
THEOREM Inductive == Spec => []IInv
<1>1. IInv /\ [Next]_vars => IInv'
  <2> SUFFICES ASSUME IInv, [Next]_vars PROVE IInv'
    OBVIOUS
  <2>1. CASE Start
    BY <2>1, StartKeeps
  <2>2. CASE StartWorker
    BY <2>2, StartWorkerKeeps
  <2>3. CASE Stop \/ Destructor
    BY <2>3, StopKeeps
  <2>4. CASE Joined \/ UNCHANGED vars
    BY <2>4, UnmovedKeeps
  <2>5. CASE \E task \in Tasks : addTask(task)
    BY <2>5, AddTaskKeeps
  <2>6. ASSUME NEW w \in Workers, WorkerStep(w) \/ SpuriousWakeup(w) PROVE IInv'
    BY <2>6, TakeKeeps, SleepKeeps, OtherStepKeeps DEF WorkerStep
  <2> QED BY <2>1, <2>2, <2>3, <2>4, <2>5, <2>6 DEF Next
<1> QED BY Initially, <1>1, PTL DEF Spec

(* The types, for any number of workers and any tasks.                     *)
THEOREM TypeCorrect == Spec => []TypeOK
<1>1. IInv => TypeOK
  BY DEF IInv
<1> QED BY Inductive, <1>1, PTL

(* Each task is taken once, in the order in which the tasks were added.    *)
THEOREM OnceInOrder == Spec => []TakenInOrder
<1>1. IInv => TakenInOrder
  BY DEF IInv
<1> QED BY Inductive, <1>1, PTL

(* No task waits for a worker that sleeps: addTask's notify_one suffices.  *)
THEOREM NotifyOneSuffices == Spec => []NoIdleSleeper
<1>1. IInv => NoIdleSleeper
  BY DEF IInv
<1> QED BY Inductive, <1>1, PTL
=============================================================================
