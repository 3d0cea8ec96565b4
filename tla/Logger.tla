------------------------------- MODULE Logger -------------------------------
(***************************************************************************)
(* A Logger (log/Logger.hpp) with a LogConsole and a LogFile               *)
(* (log/LogStream.cpp) as its streams, used by several threads.            *)
(*                                                                         *)
(* log() takes no lock.  Insertion into std::cout is atomic; a LogFile is  *)
(* a FixedBuffer that nothing protects: a thread that enters its append()  *)
(* or flush() while another is inside is a data race, the behaviour is     *)
(* undefined, and the model stops there (raced).  Every line has a number  *)
(* and a length; its bytes are told apart.                                 *)
(***************************************************************************)
EXTENDS FixedBuffer, SequencesExt

CONSTANTS Threads,
          Level,      \* Logger::_level
          Levels,     \* the levels threads log at, of TRACE = 0 .. FATAL = 5
          Streams,    \* Logger::_streams
          MaxLines,   \* a bound on the calls of log()
          MaxFlushes  \* a bound on the calls of LogFile::flush by its users

ASSUME LevelAssumption == Level \in 0 .. 5 /\ Levels \subseteq 0 .. 5
ASSUME BoundsAssumption == MaxLines \in Nat /\ MaxFlushes \in Nat

(* The constructor is given each stream once.                              *)
ASSUME StreamsAssumption ==
    /\ Streams \in Seq({"console", "file"})
    /\ \A i, j \in DOMAIN Streams : Streams[i] = Streams[j] => i = j

LogBytes == (1 .. MaxLines) \X (1 .. SIZE - 1)
ASSUME BytesAssumption == Bytes = LogBytes

(* A line that fits in a buffer, and the thread that logs it.              *)
LogLines == [id : 1 .. MaxLines, len : 1 .. SIZE - 1, level : Levels, by : Threads]
bytesOf(line) == [k \in 1 .. line.len |-> <<line.id, k>>]

VARIABLES buffer,   \* LogStreamBase::_buffer of the LogFile
          file,     \* what its flushes wrote, one element for each
          console,  \* the lines inserted into std::cout
          at,       \* for each thread, the stream it is at in log_(), or 0
          message,  \* and the line it is about to append
          inside,   \* the thread inside LogFile::append
          raced,    \* two have been there at once
          closed,   \* ~LogFile has run
          flushes,
          asked,    \* history: the lines log() was called with
          filed     \* history: the lines appended to the LogFile

vars == <<buffer, file, console, at, message, inside, raced, closed, flushes,
          asked, filed>>
fileVars == <<buffer, file, filed>>

NoLine == [id |-> 0]
Defined == ~raced /\ ~closed

Init ==
    /\ buffer \in NewFixed /\ file = <<>> /\ filed = <<>>
    /\ console = <<>>
    /\ at = [t \in Threads |-> 0] /\ message = [t \in Threads |-> NoLine]
    /\ inside = {} /\ raced = FALSE /\ closed = FALSE /\ flushes = 0
    /\ asked = <<>>

-----------------------------------------------------------------------------
shouldLog(level) == level >= Level

(* log_(): make the message, unless its level is too low.                  *)
log(t, level, len) ==
    LET line == [id |-> Len(asked) + 1, len |-> len, level |-> level, by |-> t] IN
    /\ Defined /\ at[t] = 0 /\ Len(asked) < MaxLines
    /\ asked' = Append(asked, line)
    /\ IF shouldLog(level)
       THEN /\ message' = [message EXCEPT ![t] = line]
            /\ at' = [at EXCEPT ![t] = IF Streams = <<>> THEN 0 ELSE 1]
       ELSE UNCHANGED <<message, at>>
    /\ UNCHANGED <<fileVars, console, inside, raced, closed, flushes>>

(* for (auto &stream : _streams)                                           *)
nextStream(t) ==
    at' = [at EXCEPT ![t] = IF @ = Len(Streams) THEN 0 ELSE @ + 1]

AtStream(t, stream) == Defined /\ at[t] # 0 /\ Streams[at[t]] = stream

(* LogConsole::append.                                                     *)
appendConsole(t) ==
    /\ AtStream(t, "console")
    /\ console' = Append(console, message[t])
    /\ nextStream(t)
    /\ UNCHANGED <<fileVars, message, inside, raced, closed, flushes, asked>>

(* LogFile::flush: the buffer as a C string, then reset.                   *)
flushed(b) == cString(b)

(* LogFile::append, which is FixedBuffer::append with flush() as the full  *)
(* callback.                                                               *)
enterAppend(t) ==
    /\ AtStream(t, "file") /\ t \notin inside
    /\ inside' = inside \cup {t}
    /\ raced' = (inside # {})
    /\ UNCHANGED <<fileVars, console, at, message, closed, flushes, asked>>

fileFull(b, buf) == isFullFor(b, Len(buf))

append(t) ==
    LET buf == bytesOf(message[t]) IN
    /\ AtStream(t, "file") /\ t \in inside
    /\ inside' = inside \ {t}
    /\ IF fileFull(buffer, buf)
       THEN /\ file' = Append(file, flushed(buffer))
            /\ buffer' = put(reset(buffer), buf)
       ELSE /\ buffer' = put(buffer, buf)
            /\ UNCHANGED file
    /\ filed' = Append(filed, message[t])
    /\ nextStream(t)
    /\ UNCHANGED <<console, message, raced, closed, flushes, asked>>

flushFile ==
    /\ file' = Append(file, flushed(buffer))
    /\ buffer' = reset(buffer)
    /\ UNCHANGED <<filed, console, at, message, asked>>

(* A user of the LogFile calls flush().                                    *)
flush ==
    /\ Defined /\ flushes < MaxFlushes
    /\ flushes' = flushes + 1
    /\ IF inside = {}
       THEN flushFile /\ UNCHANGED raced
       ELSE raced' = TRUE /\ UNCHANGED <<fileVars, console, at, message, asked>>
    /\ UNCHANGED <<inside, closed>>

(* ~LogFile, once no logger has it any more.                               *)
Destroy ==
    /\ Defined /\ \A t \in Threads : at[t] = 0
    /\ closed' = TRUE
    /\ flushFile
    /\ UNCHANGED <<inside, raced, flushes>>

(* trace(), debug(), info(), warn(), error() and fatal().                  *)
logAt(t) == \E level \in Levels, len \in 1 .. SIZE - 1 : log(t, level, len)

Next ==
    \/ \E t \in Threads : logAt(t) \/ appendConsole(t) \/ enterAppend(t) \/ append(t)
    \/ flush \/ Destroy

Spec == Init /\ [][Next]_vars

-----------------------------------------------------------------------------
(* Lines shorter than the buffer never leave it: the cursor stays inside   *)
(* the array, on a '\0' as long as something was appended after the last   *)
(* reset, with no other before it.                                         *)
TypeOK ==
    /\ buffer \in Fixed /\ (buffer.cur > 0 => Terminated(buffer))
    /\ file \in Seq(Seq(Cells)) /\ console \in Seq(LogLines)
    /\ asked \in Seq(LogLines) /\ filed \in Seq(LogLines)
    /\ at \in [Threads -> 0 .. Len(Streams)]
    /\ message \in [Threads -> LogLines \cup {NoLine}]
    /\ inside \subseteq Threads /\ raced \in BOOLEAN /\ closed \in BOOLEAN
    /\ flushes \in 0 .. MaxFlushes

(* The lines of a thread that are severe enough come to each stream, once  *)
(* and in the thread's order, and are all there when its log() returns.    *)
Shown(stream) == IF stream = "console" THEN console ELSE filed
LinesOf(t) == {line \in LogLines : line.by = t}
Severe == {line \in LogLines : line.level >= Level}
Those(lines, S) ==
    FlattenSeq([i \in DOMAIN lines |-> IF lines[i] \in S THEN <<lines[i]>> ELSE <<>>])
EveryStream ==
    \A t \in Threads, stream \in ToSet(Streams) :
        LET due == Those(asked, LinesOf(t) \cap Severe)
            has == Those(Shown(stream), LinesOf(t))
        IN  IF at[t] = 0 THEN has = due ELSE has \in {due, Front(due)}

(* flush() writes whatever C string it finds, so a second flush writes the *)
(* lines of the first again, and one before any line writes what memory    *)
(* held.  That is all that goes wrong: without the repetitions the file    *)
(* and then the buffer hold each line that had to come to it once,         *)
(* complete and in order, whatever older and longer text is in the array.  *)
IsFresh(i) ==
    /\ \A k \in DOMAIN file[i] : file[i][k] # Junk
    /\ i > 1 => file[i] # file[i - 1]
Fresh == FlattenSeq([i \in DOMAIN file |-> IF IsFresh(i) THEN file[i] ELSE <<>>])
Contents == FlattenSeq([i \in DOMAIN filed |-> bytesOf(filed[i])])
FileIsLines ==
    /\ EveryStream
    /\ Fresh \o toStringView(buffer) = Contents
=============================================================================
