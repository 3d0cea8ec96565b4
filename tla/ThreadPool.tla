----------------------------- MODULE ThreadPool -----------------------------
(***************************************************************************)
(* The ThreadPool (base/ThreadPool.cpp): clients add tasks, workers take   *)
(* them from a queue under a mutex and a condition variable, stop() and    *)
(* the destructor end the workers.  What a thread does while it holds the  *)
(* mutex is one action; the test of _stop at the head of a worker's loop   *)
(* is made without the mutex and is an action of its own.  A worker is     *)
(*   none     its thread was not started yet                               *)
(*   init     in _threadInitCallback                                       *)
(*   check    about to evaluate while (!_stop)                             *)
(*   lock     about to lock the mutex and evaluate the predicate           *)
(*   wait     asleep in _condition.wait, which released the mutex          *)
(*   task     running a task                                               *)
(*   done     returned from run()                                          *)
(***************************************************************************)
EXTENDS Naturals, Sequences, FiniteSets, Functions

CONSTANTS NumThreads,    \* _numThreads: the workers are 1 .. NumThreads
          Tasks          \* each is added at most once

ASSUME NumThreadsAssumption == NumThreads \in Nat

VARIABLES queue,     \* _queue
          stop,      \* _stop
          worker,    \* [Workers -> where it is]
          owner,     \* "new", in the loop of "start", "started", in the
                     \* destructor ("joining"), or "destroyed"
          started,   \* how many workers start() has started
          added,     \* history: the tasks added, in the mutex's order
          taken      \* history: the tasks taken, in the mutex's order

vars == <<queue, stop, worker, owner, started, added, taken>>

Workers == 1 .. NumThreads
At(place) == {w \in Workers : worker[w] = place}
Move(w, place) == worker' = [worker EXCEPT ![w] = place]

Init ==
    /\ queue = <<>> /\ stop = FALSE
    /\ worker = [w \in Workers |-> "none"]
    /\ owner = "new" /\ started = 0
    /\ added = <<>> /\ taken = <<>>

(* The condition variable: a woken worker locks and looks again. *)
notify_one ==
    IF At("wait") = {} THEN UNCHANGED worker
    ELSE \E w \in At("wait") : Move(w, "lock")
notify_all ==
    worker' = [w \in Workers |-> IF worker[w] = "wait" THEN "lock" ELSE worker[w]]

-----------------------------------------------------------------------------
(* The owner and the clients. *)

(* start() creates and starts the threads one after the other.  It calls   *)
(* _threadInitCallback itself before each, and run() calls it again in the *)
(* thread: user code, which changes nothing of the pool.                   *)
Start ==
    /\ owner = "new"
    /\ owner' = IF NumThreads = 0 THEN "started" ELSE "start"
    /\ stop' = FALSE
    /\ UNCHANGED <<queue, worker, started, added, taken>>

StartWorker ==
    /\ owner = "start"
    /\ started' = started + 1
    /\ Move(started', "init")
    /\ owner' = IF started' = NumThreads THEN "started" ELSE "start"
    /\ UNCHANGED <<queue, stop, added, taken>>

Stop ==
    /\ owner \in {"new", "start", "started"}
    /\ stop' = TRUE
    /\ notify_all
    /\ UNCHANGED <<queue, owner, started, added, taken>>

(* Fault: the destructor joins without notice. *)
DestructorNoNotify ==
    /\ owner = "started"
    /\ owner' = "joining"
    /\ stop' = TRUE
    /\ UNCHANGED <<queue, worker, started, added, taken>>

(* The destructor: stop(), then join every thread. *)
Destructor ==
    /\ owner = "started"
    /\ owner' = "joining"
    /\ stop' = TRUE
    /\ notify_all
    /\ UNCHANGED <<queue, started, added, taken>>

Joined ==
    /\ owner = "joining" /\ At("done") = Workers
    /\ owner' = "destroyed"
    /\ UNCHANGED <<queue, stop, worker, started, added, taken>>

(* Fault: the notification is for a queue that was empty only. *)
addTaskNotifyFirst(task) ==
    /\ owner # "destroyed"
    /\ task \notin Range(added)
    /\ queue' = Append(queue, task)
    /\ added' = Append(added, task)
    /\ IF queue = <<>> THEN notify_one ELSE UNCHANGED worker
    /\ UNCHANGED <<stop, owner, started, taken>>

(* Fault: no notification at all. *)
addTaskSilently(task) ==
    /\ owner # "destroyed"
    /\ task \notin Range(added)
    /\ queue' = Append(queue, task)
    /\ added' = Append(added, task)
    /\ UNCHANGED <<stop, worker, owner, started, taken>>

addTask(task) ==
    /\ owner # "destroyed"
    /\ task \notin Range(added)
    /\ queue' = Append(queue, task)
    /\ added' = Append(added, task)
    /\ notify_one
    /\ UNCHANGED <<stop, owner, started, taken>>

-----------------------------------------------------------------------------
(* The workers: run(). *)

CallInit(w) ==
    /\ worker[w] = "init"
    /\ Move(w, "check")
    /\ UNCHANGED <<queue, stop, owner, started, added, taken>>

CheckStop(w) ==
    /\ worker[w] = "check"
    /\ Move(w, IF stop THEN "done" ELSE "lock")
    /\ UNCHANGED <<queue, stop, owner, started, added, taken>>

(* The mutex is held from the predicate to the pop. *)
Sleep(w) ==
    /\ worker[w] = "lock" /\ ~stop /\ queue = <<>>
    /\ Move(w, "wait")
    /\ UNCHANGED <<queue, stop, owner, started, added, taken>>

Leave(w) ==
    /\ worker[w] = "lock" /\ stop /\ queue = <<>>
    /\ Move(w, "done")
    /\ UNCHANGED <<queue, stop, owner, started, added, taken>>

Take(w) ==
    /\ worker[w] = "lock" /\ queue # <<>>
    /\ taken' = Append(taken, Head(queue))
    /\ queue' = Tail(queue)
    /\ Move(w, "task")
    /\ UNCHANGED <<stop, owner, started, added>>

Finish(w) ==
    /\ worker[w] = "task"
    /\ Move(w, "check")
    /\ UNCHANGED <<queue, stop, owner, started, added, taken>>

SpuriousWakeup(w) ==
    /\ worker[w] = "wait"
    /\ Move(w, "lock")
    /\ UNCHANGED <<queue, stop, owner, started, added, taken>>

WorkerStep(w) ==
    CallInit(w) \/ CheckStop(w) \/ Sleep(w) \/ Leave(w) \/ Take(w) \/ Finish(w)

Next ==
    \/ Start \/ StartWorker \/ Stop \/ Destructor \/ Joined
    \/ \E task \in Tasks : addTask(task)
    \/ \E w \in Workers : WorkerStep(w) \/ SpuriousWakeup(w)

Spec == Init /\ [][Next]_vars

(* Threads make progress and tasks return; nobody has to call anything and *)
(* no wakeup is spurious.                                                  *)
Fairness ==
    /\ WF_vars(StartWorker) /\ WF_vars(Joined)
    /\ \A w \in Workers : WF_vars(WorkerStep(w))

FairSpec == Spec /\ Fairness

-----------------------------------------------------------------------------
TypeOK ==
    /\ queue \in Seq(Tasks) /\ stop \in BOOLEAN
    /\ worker \in [Workers -> {"none", "init", "check", "lock", "wait", "task", "done"}]
    /\ owner \in {"new", "start", "started", "joining", "destroyed"}
    /\ started \in 0 .. NumThreads
    /\ added \in Seq(Tasks) /\ taken \in Seq(Tasks)

(* Each task is taken once, in the order in which the tasks were added.    *)
TakenInOrder == added = taken \o queue

(* No task waits for a worker that sleeps: while some worker is asleep,    *)
(* every task in the queue has an awake worker about to look for it, so    *)
(* that a long task never holds up another one that a sleeper could run.   *)
NoIdleSleeper == At("wait") # {} => Len(queue) <= Cardinality(At("lock"))

(* A task is taken, unless the pool is stopped or has not been started.    *)
TaskTaken ==
    \A task \in Tasks :
        (task \in Range(added) /\ owner = "started") ~> (task \in Range(taken) \/ stop)

(* The destructor returns.                                                 *)
DestructorReturns == (owner = "joining") ~> (owner = "destroyed")
=============================================================================
