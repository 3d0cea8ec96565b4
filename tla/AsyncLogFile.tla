---------------------------- MODULE AsyncLogFile ----------------------------
(***************************************************************************)
(* The asynchronous log file (log/AsyncLogFile.cpp): threads append lines  *)
(* to a buffer under the mutex, the logging thread takes the full buffers  *)
(* and writes them, and stop() flushes and joins that thread.  Buffers go  *)
(* round: two spares wait in the thread, one in the log, and a written     *)
(* buffer becomes a spare again.                                           *)
(*                                                                         *)
(* append(), flush() and the swap hold the mutex throughout: one action    *)
(* each.  wait_for() releases it: there the thread may be notified, time   *)
(* out or wake up for no reason, and continues alike.  Rolling to another  *)
(* file moves no line: "file" stands for all the log files one after the   *)
(* other.  The thread's control state pc is                                *)
(*   new       start() was not called                                      *)
(*   check     about to evaluate while (_running)                          *)
(*   lock      about to lock the mutex and look at _buffers                *)
(*   wait      in wait_for                                                 *)
(*   write     writing buffersToWrite                                      *)
(*   recycle   the buffers are written, spares are to be replaced          *)
(*   done      threadFunc has returned                                     *)
(***************************************************************************)
EXTENDS Naturals, Sequences, SequencesExt

CONSTANTS Lines,      \* the log lines; each is appended at most once
          Capacity,   \* lines that fit in a buffer
          Null        \* an empty BufferPtr

ASSUME CapacityAssumption == Capacity \in Nat \ {0}

(* A Buffer is the sequence of its lines. *)
Buffers == UNION {[1 .. n -> Lines] : n \in 0 .. Capacity}
ASSUME NullAssumption == Null \notin Buffers

VARIABLES current,   \* _currentBuffer
          next,      \* _nextBuffer
          buffers,   \* _buffers
          spare1,    \* newBuffer1, local to threadFunc
          spare2,    \* newBuffer2
          toWrite,   \* buffersToWrite
          written,   \* how many of them have been written
          file,      \* what the log files hold
          pc,        \* where the logging thread is
          notified,  \* _cond was notified while the thread waited
          running,   \* _running
          stopper,   \* where the owner is in stop()
          appended,  \* history: the lines appended, in the mutex's order
          before     \* history: the lines appended before stop() was called

vars == <<current, next, buffers, spare1, spare2, toWrite, written, file,
          pc, notified, running, stopper, appended, before>>
threadVars == <<spare1, spare2, toWrite, written, file, pc>>
stopVars == <<running, stopper, before>>

Init ==
    /\ current = <<>> /\ next = <<>> /\ buffers = <<>>
    /\ spare1 = <<>> /\ spare2 = <<>> /\ toWrite = <<>> /\ written = 0
    /\ file = <<>>
    /\ pc = "new" /\ notified = FALSE
    /\ running = FALSE /\ stopper = "new"
    /\ appended = <<>> /\ before = <<>>

notify_one == notified' = (notified \/ pc = "wait")

-----------------------------------------------------------------------------
(* append(): a line that does not fit goes to the spare buffer, or to a    *)
(* fresh one, and the thread is told about the full buffer.                *)
append(line) ==
    /\ line \notin Range(appended)
    /\ appended' = Append(appended, line)
    /\ IF Len(current) < Capacity
       THEN /\ current' = Append(current, line)
            /\ UNCHANGED <<next, buffers, notified>>
       ELSE /\ buffers' = Append(buffers, current)
            /\ current' = IF next # Null THEN Append(next, line) ELSE <<line>>
            /\ next' = Null
            /\ notify_one
    /\ UNCHANGED <<threadVars, stopVars>>

(* Fault: the thread is not told. *)
flushBuffersSilently ==
    IF current # <<>>
    THEN /\ buffers' = Append(buffers, current)
         /\ current' = <<>>
         /\ UNCHANGED notified
    ELSE UNCHANGED <<buffers, current, notified>>

flushBuffers ==
    IF current # <<>>
    THEN /\ buffers' = Append(buffers, current)
         /\ current' = <<>>
         /\ notify_one
    ELSE UNCHANGED <<buffers, current, notified>>

flush ==
    /\ flushBuffers
    /\ UNCHANGED <<next, threadVars, stopVars, appended>>

start ==
    /\ stopper = "new"
    /\ stopper' = "started"
    /\ running' = TRUE
    /\ pc' = "check"
    /\ UNCHANGED <<current, next, buffers, spare1, spare2, toWrite, written,
                   file, notified, appended, before>>

(* stop(), by the owner or the destructor: lower the flag, flush, join. *)
stop ==
    /\ stopper = "started"
    /\ stopper' = "flush"
    /\ running' = FALSE
    /\ before' = appended
    /\ UNCHANGED <<current, next, buffers, threadVars, notified, appended>>

stopFlush ==
    /\ stopper = "flush"
    /\ stopper' = "join"
    /\ flushBuffers
    /\ UNCHANGED <<next, threadVars, running, appended, before>>

stopJoin ==
    /\ stopper = "join" /\ pc = "done"
    /\ stopper' = "stopped"
    /\ UNCHANGED <<current, next, buffers, threadVars, notified, running,
                   appended, before>>

-----------------------------------------------------------------------------
(* The logging thread. *)

CheckRunning ==
    /\ pc = "check"
    /\ pc' = IF running THEN "lock" ELSE "done"
    /\ UNCHANGED <<current, next, buffers, spare1, spare2, toWrite, written,
                   file, notified, stopVars, appended>>

FullFilled ==   \* fault: an empty current buffer is not pushed
    IF current # <<>> THEN Append(buffers, current) ELSE buffers

Full == Append(buffers, current)

(* Under the mutex: the current buffer, full or not, joins the others, all *)
(* are taken out, and the spares replace what is missing.                  *)
Swap ==
    /\ toWrite' = Full
    /\ buffers' = <<>>
    /\ current' = spare1 /\ spare1' = Null
    /\ IF next = Null
       THEN next' = spare2 /\ spare2' = Null
       ELSE UNCHANGED <<next, spare2>>
    /\ written' = 0
    /\ pc' = "write"
    /\ UNCHANGED <<file, stopVars, appended>>

LockAndSwap ==
    /\ pc = "lock" /\ buffers # <<>>
    /\ Swap
    /\ UNCHANGED notified

LockAndWait ==
    /\ pc = "lock" /\ buffers = <<>>
    /\ pc' = "wait" /\ notified' = FALSE
    /\ UNCHANGED <<current, next, buffers, spare1, spare2, toWrite, written,
                   file, stopVars, appended>>

Notified == pc = "wait" /\ notified /\ Swap /\ notified' = FALSE

TimedOutNever == FALSE   \* fault: wait() instead of wait_for()

(* After _flushInterval seconds, or a spurious wakeup. *)
TimedOut == pc = "wait" /\ ~notified /\ Swap /\ UNCHANGED notified

MoreButLast == written + 1 < Len(toWrite)   \* fault: the last is left out

More == written < Len(toWrite)

WriteBuffers ==
    /\ pc = "write"
    /\ IF More
       THEN /\ file' = file \o toWrite[written + 1]
            /\ written' = written + 1
            /\ UNCHANGED pc
       ELSE pc' = "recycle" /\ UNCHANGED <<file, written>>
    /\ UNCHANGED <<current, next, buffers, spare1, spare2, toWrite, notified,
                   stopVars, appended>>

(* Fault: a buffer goes round with what it holds. *)
resetNothing(buffer) == buffer

reset(buffer) == <<>>

(* At most two of the written buffers are kept: back() replaces a missing  *)
(* first spare, and what is back() then a missing second one.              *)
Kept == SubSeq(toWrite, 1, IF Len(toWrite) > 2 THEN 2 ELSE Len(toWrite))
Missing == (IF spare1 = Null THEN 1 ELSE 0) + (IF spare2 = Null THEN 1 ELSE 0)

Recycle ==
    /\ pc = "recycle"
    /\ spare1' = IF spare1 = Null THEN reset(Kept[Len(Kept)]) ELSE spare1
    /\ spare2' = IF spare2 = Null THEN reset(Kept[Len(Kept) + 1 - Missing]) ELSE spare2
    /\ toWrite' = <<>> /\ written' = 0
    /\ pc' = "check"
    /\ UNCHANGED <<current, next, buffers, file, notified, stopVars, appended>>

-----------------------------------------------------------------------------
ThreadStep ==
    \/ CheckRunning \/ LockAndSwap \/ LockAndWait \/ Notified \/ WriteBuffers \/ Recycle

Next ==
    \/ (\E line \in Lines : append(line)) \/ flush
    \/ start \/ stop \/ stopFlush \/ stopJoin
    \/ ThreadStep \/ TimedOut

Spec == Init /\ [][Next]_vars

(* The thread goes on, a wait ends after the flush interval at the latest, *)
(* and stop(), once called, takes its steps.                               *)
Fairness ==
    /\ WF_vars(ThreadStep) /\ WF_vars(TimedOut)
    /\ WF_vars(stopFlush) /\ WF_vars(stopJoin)

FairSpec == Spec /\ Fairness

-----------------------------------------------------------------------------
(* No BufferPtr is dereferenced while it is empty: the current buffer is   *)
(* always there, and so are both spares where the swap takes them.  Spares *)
(* are empty buffers, whichever written buffer they were.                  *)
TypeOK ==
    /\ current \in Buffers /\ next \in {<<>>, Null}
    /\ buffers \in Seq(Buffers) /\ toWrite \in Seq(Buffers)
    /\ spare1 \in {<<>>, Null} /\ spare2 \in {<<>>, Null}
    /\ pc \notin {"write", "recycle"} => Null \notin {spare1, spare2}
    /\ written \in 0 .. Len(toWrite)
    /\ file \in Seq(Lines) /\ appended \in Seq(Lines) /\ before \in Seq(Lines)
    /\ pc \in {"new", "check", "lock", "wait", "write", "recycle", "done"}
    /\ notified \in BOOLEAN /\ running \in BOOLEAN
    /\ stopper \in {"new", "started", "flush", "join", "stopped"}

(* buffersToWrite.back() is never called on an empty vector: there are as  *)
(* many written buffers as spares to replace.  A second spare was taken    *)
(* only if append() had used up _nextBuffer, and then it pushed a buffer.  *)
RecycleSafe == pc = "recycle" => Missing <= Len(Kept)

(* Every line appended is in exactly one place, in the order of append():  *)
(* in the file, then in the buffers being written, then in those waiting,  *)
(* then in the current one.                                                *)
Unwritten == SubSeq(toWrite, written + 1, Len(toWrite)) \o buffers
InOrder == appended = file \o FlattenSeq(Unwritten) \o current

(* The thread does not sit out the flush interval over a full buffer.      *)
NoLostNotify == (pc = "wait" /\ buffers # <<>>) => notified

(* A line reaches the file while the log runs.                             *)
LineWritten ==
    \A line \in Lines :
        (running /\ line \in Range(appended)) ~> (line \in Range(file) \/ ~running)

(* stop() returns: the thread leaves whatever it was doing.                *)
StopReturns == (stopper = "flush") ~> (stopper = "stopped")

(* stop() "flushes the log": the lines appended before it was called are   *)
(* in the file when it returns.                                            *)
FlushedAtStop == stopper = "stopped" => Range(before) \subseteq Range(file)
=============================================================================
