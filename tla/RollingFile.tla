---------------------------- MODULE RollingFile ----------------------------
(***************************************************************************)
(* The files behind an AsyncLogFile: what its write() and rollFile()       *)
(* (log/AsyncLogFile.cpp) make of the buffers that threadFunc hands them,  *)
(* one after the other.  AsyncLogFile shows these files as one, "file".    *)
(*                                                                         *)
(* Times are Timestamps, in microseconds; the system clock may be set, so  *)
(* each write reads what it likes, but not backwards within one write.  A  *)
(* file is named for the second at which it was opened, in local time, and *)
(* opened for appending: two rolls in a second give one file.  An open()   *)
(* may fail, and then the stream drops what is written until the next      *)
(* roll.  A buffer has size 1, or 0: threadFunc also writes empty ones.    *)
(***************************************************************************)
EXTENDS Integers, Sequences, FiniteSets

CONSTANTS localtime(_),
          rollSize, flushInterval, checkEveryN,   \* of the constructor
          kMicroSecondsPerSecond, kSecondsPerRoll,
          FirstCounts,   \* what the memory of _count may hold at first
          MaxTime,       \* a bound on the clock
          MaxWrites      \* a bound on the calls of write()

ASSUME ParametersAssumption ==
    /\ rollSize \in Nat /\ flushInterval \in Nat /\ checkEveryN \in Nat \ {0}
    /\ kMicroSecondsPerSecond \in Nat \ {0} /\ kSecondsPerRoll \in Nat \ {0}
    /\ FirstCounts \subseteq Int /\ MaxTime \in Nat /\ MaxWrites \in Nat

(* As long as the clocks are not put back for winter.                      *)
ASSUME LocaltimeAssumption ==
    \A s, t \in 0 .. MaxTime :
        localtime(s) \in Nat /\ (s <= t => localtime(s) <= localtime(t))

Times == 1 .. MaxTime

VARIABLES count,          \* _count
          startOfPeriod,  \* _startOfPeriod, in seconds
          lastRoll, lastFlush,
          opened,         \* the name of the file that is open, or NoFile
          since,          \* the size it was given since it was opened
          log,            \* for each buffer that is not empty, the file that has it
          writes,
          first,          \* history: what _count was at first
          overdue         \* history: the writes since a roll or flush is due

rollVars == <<count, startOfPeriod, lastRoll, lastFlush, opened, since, log,
          writes, first, overdue>>

NoFile == -1

seconds(t) == t \div kMicroSecondsPerSecond
PeriodOf(t) == (seconds(t) \div kSecondsPerRoll) * kSecondsPerRoll
addTime(t, s) == t + s * kMicroSecondsPerSecond
getLogFileName(t) == localtime(seconds(t))

SizeOf(name) == Cardinality({i \in DOMAIN log : log[i] = name})

RollDue(t) == PeriodOf(t) # startOfPeriod
FlushDue(t) == t > addTime(lastFlush, flushInterval)

-----------------------------------------------------------------------------
MayRollAlways(now) == TRUE   \* fault: back to an older file
MayRoll(now) == now > lastRoll

rollFileOnly(now) ==   \* fault: the time of the last flush is left
    IF MayRoll(now)
    THEN /\ lastRoll' = now /\ startOfPeriod' = PeriodOf(now)
         /\ opened' \in {getLogFileName(now), NoFile}
         /\ UNCHANGED lastFlush
    ELSE UNCHANGED <<lastRoll, lastFlush, startOfPeriod, opened>>

(* rollFile(): unless the clock says it is earlier than at the last roll,  *)
(* close the file and open the one of this second.                         *)
rollFile(now) ==
    IF MayRoll(now)
    THEN /\ lastRoll' = now /\ lastFlush' = now
         /\ startOfPeriod' = PeriodOf(now)
         /\ opened' \in {getLogFileName(now), NoFile}
    ELSE UNCHANGED <<lastRoll, lastFlush, startOfPeriod, opened>>

(* The constructor: _lastRoll is a Timestamp of 0, so the first roll takes *)
(* place.                                                                  *)
RollInit ==
    \E now \in Times :
        /\ lastRoll = now /\ lastFlush = now /\ startOfPeriod = PeriodOf(now)
        /\ opened \in {getLogFileName(now), NoFile}
        /\ since = 0
        /\ first \in FirstCounts /\ count = first
        /\ log = <<>> /\ writes = 0 /\ overdue = 0

(* _file.tellp() after the write.  On a stream opened for appending it may *)
(* count from the open() until the stream first writes to the descriptor,  *)
(* and from the start of the file afterwards; after a failed open() it is  *)
(* -1.                                                                     *)
tellp(len) == IF opened = NoFile THEN {-1} ELSE {since + len, SizeOf(opened) + len}

CountedLate == count + 1 > checkEveryN    \* fault: one write too late
Counted == count + 1 >= checkEveryN

(* What happens when the file is not full: every checkEveryN writes, see   *)
(* whether a new period has begun, or else whether to flush.               *)
checkTime(now, later) ==
    IF ~Counted
    THEN /\ count' = count + 1
         /\ UNCHANGED <<startOfPeriod, lastRoll, lastFlush, opened>>
    ELSE /\ count' = 0
         /\ IF RollDue(now) THEN rollFile(later)
            ELSE /\ lastFlush' = IF FlushDue(now) THEN now ELSE lastFlush
                 /\ UNCHANGED <<startOfPeriod, lastRoll, opened>>

StillDue(t) == PeriodOf(t) > startOfPeriod \/ FlushDue(t)

write(len, now, later) ==
    /\ writes < MaxWrites /\ writes' = writes + 1
    /\ log' = IF opened = NoFile \/ len = 0 THEN log ELSE Append(log, opened)
    /\ \E size \in tellp(len) :
           IF size >= rollSize THEN rollFile(later) /\ UNCHANGED count
                               ELSE checkTime(now, later)
    /\ since' = IF lastRoll' = lastRoll THEN since + len ELSE 0
    /\ overdue' = IF StillDue(now)' THEN overdue + 1 ELSE 0
    /\ UNCHANGED first

RollNext ==
    \E len \in 0 .. 1, now \in Times : \E later \in now .. MaxTime : write(len, now, later)

RollSpec == RollInit /\ [][RollNext]_rollVars

-----------------------------------------------------------------------------
(* The period is the one of the last roll, a file that is open is named    *)
(* for it, and the last flush was no earlier.                              *)
RollTypeOK ==
    /\ count \in Int /\ first \in FirstCounts /\ since \in Nat
    /\ lastRoll \in Times /\ lastFlush \in Times /\ lastRoll <= lastFlush
    /\ startOfPeriod = PeriodOf(lastRoll)
    /\ opened \in {getLogFileName(lastRoll), NoFile}
    /\ log \in Seq(Nat) /\ writes \in 0 .. MaxWrites /\ overdue \in Nat

(* Who reads the files in the order of their names reads the buffers in    *)
(* the order in which they were written, however the clock was set.        *)
NamesInOrder ==
    \A j \in DOMAIN log : \A i \in 1 .. j : log[i] <= log[j]

(* A roll for a new period and a flush after flushInterval come at the     *)
(* latest checkEveryN writes after they are due, however the files were    *)
(* rolled for their size meanwhile; the very first may come later, if      *)
(* _count, which the constructor leaves as it finds it, was negative.      *)
ChecksCome ==
    overdue < checkEveryN + (IF first < 0 THEN -first ELSE 0)
=============================================================================
