# TinyNetworkLibrary, verified

TLA+ models, TLC runs and TLAPS proofs for the network library under `src/src`
(the copy of its headers under `src/include/tiny_network` is the same text).
All paths below are relative to `src/src`.

## The system

A reactor library: one `EventLoop` per thread, callbacks on file descriptors, a
TCP server and an HTTP server on top, timers, a thread pool and an asynchronous
log.

| Component | State | Operations | Talks to |
|---|---|---|---|
| `EventLoop` (net/EventLoop) | `_quit`, `_callingPendingFunctors`, `_wakeupFd`, `_activeChannels`, `_pendingFunctors` (mutex) | `loop`, `quit`, `runInLoop`, `queueInLoop`, `wakeup`, `handleRead`, `doPendingFunctors` | its poller, its timer queue, every thread that queues a functor |
| `Channel`, `EpollPoller` (net/Channel, net/poller) | `_events`, `_revents`, `_index`, `_tie`; `_channels`, `_events` array, the kernel's epoll set | `enable*`/`disable*`, `updateChannel`, `removeChannel`, `poll`, `handleEvent` | owner's callbacks |
| `TcpConnection` (net/TcpConnection) | `_state` (atomic), `_inputBuffer`, `_outputBuffer`, its channel and socket | `send`, `shutdown`, `connectEstablished`, `connectDestroyed`, `handleRead/Write/Close/Error` | functors in its io loop, the server's close callback, user callbacks |
| `TcpServer`, `Acceptor` | `_connections`, `_nextConnId`, `_started` | `start`, `newConnection`, `removeConnection(InLoop)`, destructor, `Acceptor::listen/handleRead` | main loop and io loops, by functors |
| `EventLoopThread`, `EventLoopThreadPool` | `_loop` (mutex, condition), `_threads`, `_loops`, `_next` | `startLoop`, `threadFunc`, destructor; `start`, `getNextLoop` | the loops' threads |
| `TimerQueue`, `Timer` (timer/) | `_timers`, the timerfd, each timer's `_expiration` | `addTimer`, `addTimerInLoop`, `handleRead`, `getExpired`, `reset`, `insert` | functors and a channel of its loop |
| `Buffer` (net/Buffer) | `_buffer`, `_readerIndex`, `_writerIndex` | `append`, `retrieve*`, `makeSpace`, `readFd`, `writeFd`, `findCRLF` | connections, HTTP |
| `HttpServer`, `HttpContext`, `HttpRequest`, `HttpResponse` (http/) | the parse state, the request | `onMessage`, `parseRequest`, `onRequest`, `appendToBuffer` | the connection's input buffer, `send`, `shutdown` |
| `AsyncLogFile` (log/AsyncLogFile) | `_currentBuffer`, `_nextBuffer`, `_buffers`, `_running`, the thread's spares; `_count`, `_startOfPeriod`, `_lastRoll`, `_lastFlush`, `_file` | `append`, `flush`, `start`, `stop`, `threadFunc`, `write`, `rollFile` | logging threads, the system clock |
| `Logger`, `LogStream`, `LogFile`, `LogConsole`, `FixedBuffer` (log/) | the level and the streams; the array and the cursor of a stream's buffer | `log` and a call for each level, `append`, `flush`, the destructor | the threads that log; standard output, a file |
| `ThreadPool`, `Thread` (base/) | `_queue`, `_stop` (mutex, condition), `_threads` | `start`, `stop`, `addTask`, `run`, destructor | its workers |
| `Socket`, `InetAddress`, `Timestamp`, `CurrentThread`, `Singleton` | values and descriptors | system calls, formatting | |

What is hard to get right here:

* *Interleavings.* Any thread may queue functors and quit a loop, send on a
  connection and shut it down, log a line, add a task, while the threads that own
  the data run.  The library's answer is to move the work into the owner's loop;
  what stays shared is `_pendingFunctors`, the eventfd, `_quit` and `_state`.
* *Order.* Functors must run in order and once, bytes leave in the order they
  were sent, a shutdown comes after the sends before it, log lines keep their
  order through four buffers.
* *Partial results.* The socket takes part of a message, epoll reports part of
  the ready channels, the parser sees part of a request.
* *Life times.* A connection is closed by its peer, by a reset, by the user or by
  the server's destructor, while functors that mention it are queued in two
  loops.
* *Liveness.* A wakeup or notification must not be lost, the destructors that
  join threads must return, busy functors must not starve the channels.

`PROJECT.json` lists each hazard at its line with the properties that cover it.

## Modules

| Module | Models | State | Actions |
|---|---|---|---|
| `TaskQueue` | what an executor promises: tasks of many threads run once each, in the order queued, in the loop thread | two sequences | `Submit`, `Begin`, `End` |
| `EventLoop` | `net/EventLoop.cpp`, the poll of `EpollPoller.cpp` | the two functor vectors, the eventfd's counter, the flags, the ready and the active channels, where each thread is | one per access to shared state: the test of `queueInLoop`, the write of `wakeup`, the swap, ... |
| `EventLoop_proofs` | theorems about `EventLoop` | | |
| `EpollPoller` | `updateChannel`, `removeChannel`, `update` and the `enable`/`disable` calls of a channel | operators on a channel record: interest, index, what the kernel has | |
| `TcpConnection` | `net/TcpConnection.cpp`, `Channel::handleEvent` | `_state`, the output buffer, the socket's send buffer, the stream, functors | `send` and `shutdown` in the loop and in other threads, their halves, the handlers, the server's calls, the peer |
| `TcpConnection_proofs` | theorems about `TcpConnection` and `EpollPoller` | | |
| `MCTcpConnection` | its symmetry for TLC | | |
| `TcpServer` | `TcpServer`, `Acceptor`, `EventLoopThread`, `EventLoopThreadPool` | the map, `_next`, each loop's functors, where each connection and each thread is | `start`, `Acceptor::handleRead` with `newConnection`, the three functors, the destructor, the round of a loop |
| `TcpServer_proofs` | theorems about `TcpServer` | | |
| `Buffer` | `net/Buffer` | operators on a record of a vector and two indices: `append`, `retrieve`, `makeSpace`, `readFd` | |
| `HttpRequest` | `HttpRequest`, and `processRequestLine` of `HttpContext` | operators on a record (method, version, path, query, headers) and on the tokens of a line | |
| `HttpServer` | one connection of `http/HttpServer.cpp` with `HttpContext` and `HttpResponse` | what is on the wire, the input buffer, the parser's state, the request, the answers sent | `ClientSends`, `OnMessage` with any piece of the stream, one action per kind of line, `OnRequest`, `PeerCloses` |
| `HttpServer_proofs` | theorems about `Buffer`, and about `HttpServer` over it | | |
| `MCHttpServer` | the requests clients send, for TLC | | |
| `TimerQueue` | `timer/` | times from now, `_timers`, the timerfd, the handler's batch | `addTimer` from any thread, `handleRead` split at the callbacks, `reset`, the clock |
| `TimerQueue_proofs` | theorems about `TimerQueue` | | |
| `AsyncLogFile` | `log/AsyncLogFile.cpp` | the five places a buffer can be in, the file | `append`, `flush`, `start`, `stop`, the thread's steps |
| `AsyncLogFile_proofs` | theorems about `AsyncLogFile` and `RollingFile` | | |
| `RollingFile` | `write`, `rollFile` and `getLogFileName` of `log/AsyncLogFile.cpp`: the files behind it | `_count`, the three times, the file that is open, for each buffer written the file that has it | `write`, with a clock that reads what it likes and an `open` that may fail |
| `MCRollingFile` | the local time and the first `_count`s, for TLC | | |
| `FixedBuffer` | `log/FixedBuffer.hpp` | operators on a record of an array and a cursor: `put`, `isFullFor`, `reset`, the array as a C string | |
| `Logger` | `log/Logger.hpp` over a `LogConsole` and a `LogFile` (`log/LogStream.cpp`) | the buffer, what the flushes wrote, where each thread is among the streams | `log`, the streams' `append`, `flush`, the destructor |
| `Logger_proofs` | theorems about `FixedBuffer`, and about `Logger` over it | | |
| `MCLogger` | the streams of `example/example_logger.cpp`, for TLC | | |
| `ThreadPool` | `base/ThreadPool.cpp` | queue, flag, where each worker is | `start`, `stop`, destructor, `addTask`, the worker's steps |
| `ThreadPool_proofs` | theorems about `ThreadPool` | | |

`EventLoop` is the ground the others stand on: it shows that functors run in
order, once, and that neither functors nor channels starve.  `TcpConnection`,
`TcpServer` and `TimerQueue` take that as given: in them a loop is a queue of
functors (`TaskQueue`) and the readiness of their own channels.  `TcpConnection`
uses `EpollPoller` for its channel, and `TcpServer` uses of a connection what
`TcpConnection` shows of it: state, registration, UP and DOWN.  `HttpServer` is one
connection seen from above: it is built on `Buffer`, takes `send` and `shutdown` as
`TcpConnection` shows them, and knows nothing of loops, since all of it runs in the
connection's; what it understands of a line is `HttpRequest`.  `TcpConnection` in turn takes its two buffers for the FIFOs of bytes
that `HttpServer_proofs` shows them to be.  `AsyncLogFile` hands its buffers to one
"file", in order; `RollingFile` shows that the files that stand for it, read in the
order of their names, hold them in that order.  `Logger` is built on `FixedBuffer`.

What is one action: whatever a thread does without touching state that another
thread reads or writes, or under one mutex.  A read of such state and the write
that depends on it are two actions (`SendTest` and `SendQueue`, `ShutdownTest` and
`ShutdownSet`; the two halves of `queueInLoop`).  User callbacks return at a step
of their own, so that what they may call (send, shutdown, queue, quit, add a
timer) can come in between.

## Runs

| Run | Question | Bounds |
|---|---|---|
| `EventLoop` | no lost wakeup; the loop implements `TaskQueue`; functors run, channels are handled, `quit` ends the loop | 2 foreign threads, 3 functors, 1 channel beside the eventfd, polls that return 1 event at first |
| `TcpConnection_closers` | the stream, what is written before the FIN and what may be lost, epoll registration, with `shutdown` from every thread | 2 foreign threads, SendBuffer 1, one input |
| `TcpConnection_live` | output drains, the shutdown happens, a lost peer is noticed | the loop and 1 foreign thread, SendBuffer 1; a peer that reads, shuts down its side, resets; a server that dies |
| `TcpConnection_resurrected` | counterexample, below | |
| `TcpServer` | channels do not outlive connections, closes are cleaned up across loops, the destructor returns | 2 connections, 0 to 2 io loops |
| `HttpServer` | the buffer is a FIFO within bounds; requests are understood as they were meant; answers in order, once, for whole requests, none after one that closes; whole requests in a piece are all answered | 2 requests of 7 kinds (methods, versions, query, headers, body), every cut of the stream, a buffer of 1 + 2 cells, 20 bytes of extrabuf |
| `TimerQueue` | the timerfd is armed, each timer runs, repeating ones again and again | 3 timers, delays 0 and 2, interval 2, loop up to 2 ticks late |
| `AsyncLogFile` | no line lost, doubled or out of order; no null buffer; `stop` returns | 4 lines, 1 line a buffer |
| `AsyncLogFile_stop` | counterexample, below | |
| `RollingFile` | files in the order of their names hold the buffers in the order written; rolls and flushes are not overdue | 6 writes, times to 12 with 2 to a second and 2 seconds to a period, a file of 3 buffers, a check every 2 writes, `_count` negative, 0 or positive at first |
| `Logger` | the cursor stays in the array; streams get each thread's lines once, in order; the file has each line, whole | 2 threads, 3 lines of 1 to 3 bytes at 2 levels, a buffer of 4, 2 flushes |
| `ThreadPool` | no task waits for a sleeper; a task is taken; the destructor returns | 3 workers, 3 tasks |

Why the bounds are enough.  Two foreign threads race with each other and with the
loop; a third does nothing to the shared state that two cannot.  Three functors
give a batch, the functors queued behind it, and one queued by a functor.  A poll
that reports one of two ready descriptors (the eventfd and the channel) shows starvation
if there is any.  A send buffer
of 1 makes every message of two pieces a partial write.  A buffer of one log line
makes each append after the first one push a buffer, and four lines go past both
spares.  A buffer of two cells and an `extrabuf` of 20 make each request either fill
the vector, move, grow it, or overflow into `extrabuf`, and the second request comes
through a buffer that has been moved and grown before; a piece may end between any
two tokens, between CR and LF too.  A `FixedBuffer` of 4 is filled exactly, to one
short of it and overfilled by lines of 1 to 3 bytes, with an older, longer text left
in it.  Six writes are two rounds of `_count` and more than one roll for size, for
period, and within one second.
Two loops are the fewest for which `_next` wraps; a close crosses three
queues whatever their number.  Every action and every disjunct of the next-state
relations is taken in some run, and for each property a fault put into the model
(the operators marked "fault" in the modules) makes TLC report it.

Counterexamples:

* `TcpConnection_resurrected`: `shutdown()` of another thread tests `_state` and
  writes it in two steps.  If `handleClose` comes between them, `kDisconnected`
  becomes `kDisconnecting`, and a send queued before passes the test of
  `sendInLoop` (net/TcpConnection.cpp:108) and writes to a connection that has
  been reported DOWN.
* `AsyncLogFile_stop`: the log thread leaves on `while (_running)` without
  looking at `_buffers` (log/AsyncLogFile.cpp:124).  If it has yet to come to
  this test when `stop()` has flushed, what was flushed is never written.

Found while modelling and not made a run of their own:

* A graceful shutdown can lose messages.  The output buffer holds something; a
  thread calls `send()`, which queues a functor, and then `shutdown()`, which sets
  `kDisconnecting` at once (net/TcpConnection.cpp:164).  Before the functor runs,
  `handleWrite` writes the last of the buffer and closes the write side (:236-238);
  the functor's write is then EPIPE.  A `shutdown()` in the loop does the same to sends
  of other threads (:166).  No comment, document or test says that the
  message must arrive, so there is nothing for a run to refute.  Instead
  `NothingLeftBehind` keeps the messages that wait at that moment in the history
  `overtaken` and says that these are all that is lost: everything else that a thread
  had sent before its own `shutdown()` is written, whoever else shuts down, and what
  the loop thread sent always is.  Without the disjunct `m \in overtaken` TLC reports
  either of the two losses at once.

* The init callback of a `ThreadPool` runs twice for each thread, once in the caller
  of `start()` (base/ThreadPool.cpp:48) and once in the thread (:122).
* `LogFile::flush` writes old lines again when nothing was appended since the last
  one (log/LogStream.cpp:78), as `~LogFile` makes it do; `_count` of `AsyncLogFile` is
  never initialised (log/AsyncLogFile.cpp:191).  `FileIsLines` and `ChecksCome` say how
  much harm these two can do.

## Fairness

* `EventLoop`: the loop thread goes on (`WF` of its steps); a thread that has
  queued a functor goes on to `wakeup`.  Nobody has to queue or quit.  The poll's
  time-out is *not* assumed to come, except where `FunctorRuns` and `QuitStops`
  name it (`PollsTimeOut`): the code does depend on it there.
* `TcpConnection`: the loop polls and handles what is reported, functors run, and
  a functor that was half queued is queued.  Of the peer it is assumed only that it
  goes on reading (`WF` of `PeerReads`) until it resets the connection; it need not
  send, and the user need not call anything.
* `TcpServer`: threads go on, functors run; a channel that is ready again and
  again is handled (`SF`), which is what `ChannelHandled` of `EventLoop` shows.
* `TimerQueue`: time passes, the loop reaches its functors and its poll.
* `AsyncLogFile`: the thread goes on and a wait ends when the flush interval is
  over; `stop`, once called, takes its steps.
* `ThreadPool`: threads go on, tasks return; no spurious wakeup is assumed.

## Proofs

`EventLoop_proofs` proves for any sets of threads, functors and channels:

* `TypeCorrect`, `Spec => []TypeOK`, directly by the steps.
* `Inductive`, the invariant that carries the rest.  `NoLostWakeup` speaks of the
  loop while it polls; it is not inductive, because a functor may be queued while
  the loop is anywhere in its round and the decision not to write to the eventfd
  was taken then.  `PendingWoken` says for every place of the loop thread why the
  functors waiting in `_pendingFunctors` will be seen: the eventfd's counter is up,
  or a thread that has queued is about to raise it, or the loop will still pass
  the swap of this round.  `BatchDone` says that the batch is finished whenever the
  loop is outside `doPendingFunctors`, so that a swap loses nothing.
* `WakeupNotLost`, `Spec => []NoLostWakeup`, from `Inductive`.
* `Refinement`, `Spec => ExecutorSpec`: `Init` maps to `TaskQueue`'s initial state and
  each step to `Submit`, `Begin`, `End` or a stutter, with the batch and then the
  pending functors as the queue.

`TcpConnection_proofs` proves for any threads, any messages and any sizes, whoever sends
and whoever shuts down: `TypeCorrect`, `StreamIsIntact`, `PollerIsConsistent` and
`SilentAfterFin`.  The four lean on each other through `Inductive`.  `Fresh` says that
nothing but functors is there before `connectEstablished`, so the channel is registered
once; `Quiet` says that no part of a shutdown is under way while `_state` still allows a
send, which keeps the loop silent after the FIN; `Asks` says that
the channel asks for EPOLLOUT exactly while the output buffer holds something and the
connection is neither down nor finished, which is why `handleWrite` never finds an empty
buffer and `shutdownInLoop` sends a FIN only behind the last byte.  The poller's part
is one lemma for each operation of `EpollPoller`.

Two more theorems have the hypothesis that only the loop thread calls `shutdown()`
(`Closers \subseteq {LoopThread}`): `DownIsForGood` and `DownIsSilent`.  Then `_state` is
written by the loop alone and says what was done: `Ended`, `Live` and `Gone` tie it to
the registration of the channel and to the callbacks told.  Without the hypothesis
`kDisconnected` can be overwritten: that is the counterexample `TcpConnection_resurrected`,
which refutes the very property `DownIsSilent` proves.

`GracefulShutdown` stands at the end of that module.  `NothingLeftBehind` speaks of the moment the
FIN has gone out; what makes it true is kept long before.  A message is `promised` when
its thread's `shutdown()` has passed the test of `_state`; then no shutdown is queued yet
(`Quiet`), so every shutdown that is queued later stands behind the promised messages that
wait (`QueueInv`), and when one runs none of them waits any more.  `handleWrite` and
`shutdown()` in the loop do not take this turn: what waits when they close the write side is
`overtaken` (`Closes` has the two cases).  The rest is a count (`BytesInv`: of a
message that waits no byte was taken on, of one that was run before the FIN all were).
`SentOnce` says that no two sends are of one message, and with it that an overtaken message
is never one of the loop thread.

`HttpServer_proofs` begins with what a `Buffer` promises, for any content, any size of the
vector and of `extrabuf`, and any place of the indices: `NewBufferEmpty`,
`RoomIsMade` (`ensureWritableBytes` makes the room and loses nothing),
`AppendAppends`, `ReadFdAppends` and `RetrieveRemoves`.  Each says that the indices
stay in bounds (`WellFormed`) and what becomes of `Readable`.  The lemmas
`FilledAppends`, `GrownKeeps` and `MovedKeeps` carry them: two sequences are equal if
they have one length and agree at each index, and the index arithmetic of each
copy is a step of its own.

Then come `TypeCorrect` and `StreamIsKept`, for any number of
requests, any cut of the stream and any sizes of the buffer.  The two need each
other (`IInv`): a retrieve is in bounds because the line was found in what can be
read, and what is unread is a sequence of bytes because it is what can be read.  They
use the theorems about `Buffer` and no definition of a buffer operation.

`EachAnsweredInOrder`, `IsUnderstood` and `EachBeforeTheNext` follow from `HInv`, which
says where in the stream the parser stands.  The stream is what is unread and what is
still on the wire: the texts of the requests sent, one after the other, and `Laid` gives
the place `B[n]` where request `n` begins (at or before the head once it was taken out).
`Where` says that `h` requests were taken out, and that the head stands at the beginning of
the next, at the body of the last (the code never takes a body out), or, when a piece
ended within a request and `onMessage` made a new context, at a later line of the next one
(`Lost`); the lines that follow are then parsed as request lines, and none begins with a known
method (`NoMethodNoRequest`), so they end in a 400.  `LinesAre` gives the place
of each line of a request and `LineFound` says that `findCRLF` finds the end of just that
line; from it `Parsed` follows the request from line to line as the context fills it.
`Answered` ties the answers to `h` while the connection is up, and `Whole` says what a
client that sends one whole request at a time can rely on.

`TcpServer_proofs` proves for any connections and any number of io loops: `TypeCorrect` (in
it, that UP and DOWN come at most once each, in this order), `ChannelsStayAlive`,
`FunctorsInTheirLoops` and `FreedIsUntouched`.  A functor of a connection is in the batch
that runs or behind it in `_pendingFunctors`, so each loop has one queue
(`queues`); the swap of `doPendingFunctors` leaves it as it is.  `Establishing`,
`Removing` and `Destroying` say for each functor in which queue it may wait, once, with
the connection in which state, and behind what: a connection taken from the map before it was
established has its `connectDestroyed` behind its `connectEstablished`.  `Alive` says what
holds a connection until it is destroyed: the map, or a functor that leads there.  From
these it follows that nobody runs a functor in a foreign loop, and that what nobody holds
is left alone by every later step.

`TimerQueue_proofs` proves `TypeCorrect`, `TimerfdIsArmed` and `GoesOffForATimer` for any
timers, delays and intervals, and however late the loop is.  `Armed` says that the timerfd
is not late; that alone is not inductive.  Were it early, `handleRead` would find no timer due,
`reset` would have none to set the timerfd for, and it would stay off with timers waiting.  So
`WellArmed` says both, wherever no `reset` is to come, and `GoesOffForATimer` is the half
that `Armed` leaves out.  `FirstIs` gives a finite set of timers its minimum.

`ThreadPool_proofs` proves `TypeCorrect`, `OnceInOrder` and `NotifyOneSuffices` for any
number of workers and any tasks.  `NoIdleSleeper` compares the length of the queue
with the number of workers about to look into it; it is kept because `addTask` adds
one to both when there is a sleeper, a worker that leaves the lock takes a task along,
and a worker goes to sleep only when the queue is empty.  It needs `NotStarted`: `start()`
comes to a worker that has no thread yet, so it takes nobody from the lock.

`AsyncLogFile_proofs` proves `TypeCorrect`, `NeverBackOfEmpty`, `NotifyNotLost` and
`LinesInOrder` for any lines and any capacity.  `RecycleSafe` speaks of the end of the thread's round; what it
rests on is decided at other places.  `NextPushed` says that `_nextBuffer` is gone only
if `append` has pushed a buffer since the last swap, so a swap that takes the second
spare takes two buffers, and `SparesTaken` carries that to `recycle`, whatever `append`
does in between.  `InOrder` compares the lines with the concatenation of the buffers in the
order of the places they are in.  It needs `AllWritten` (buffers are recycled only when all
of them were written), and `FlattenSeq` of buffers with one more at the end or one less
at the front; `FlattenSeq` is a recursive function, and the lemmas `Sums` to
`FlattenFirst` unfold it at the least length at which it would fail.

Of `RollingFile` the same module proves `RollTypeCorrect`, `FilesInOrder` and `ChecksInTime`
for any sizes, intervals, clock and first value of `_count`.  `FilesInOrder` rests on `NoneLater`: no
file was named for a later second than the last roll, which the test in `rollFile`
keeps whatever the clock does, together with local time never going back
(`LocaltimeAssumption`).  `ChecksInTime` rests on `Counting`, which ties `_count` to the
number of writes since a check became due.

`Logger_proofs` proves `TypeCorrect` and `LinesInFile` for any threads, levels and streams and
any size of the buffer.  `FileIsLines` says two things.  That each stream has the lines of
each thread follows from `Owing`: a thread that stands at the stream number `p` owes its line to
this one and to those behind it, and to no other, so a step along the loop of `log` pays one
debt.  That the file has each line whole needs to know what the next flush will write.  It writes
the array up to the first NUL (`CStringIs`), which is what was appended since the last reset if
there was any (`PutIs`: `append` puts the NUL behind the line, over whatever older and
longer text is there).  If not, the cursor is at 0, and then `Repeats` says that the flush
writes again what the last one wrote, or, before any line, nothing or junk.  `Differs` is the
converse: once something was appended the array begins otherwise than what the last flush
wrote, because a line comes only once (`Unfiled`) and the array begins with the first byte of a line
that was filed (`Begins`); so `Fresh` drops no text that is new.  `Fresh`, `Contents` and `Those` are
each a `FlattenSeq` of one piece for each element, and `FreshAppend`, `ContentsAppend` and
`ThoseAppend` say what one more element adds.

The only assumptions are those named in the modules (the thread of a loop is none of the
threads that call into it; the length of a message, the send buffer and the high-water
mark are positive; the sizes of a buffer and of the pool are natural numbers; a buffer's
bytes are those of the requests; no word of a request has a space or a CR in it, no path
a question mark, and a query begins with one; a log buffer holds a line and is not the
empty pointer; a log's streams are given once each; the bounds on lines, flushes, writes
and times are natural numbers; local time is not put back; delays are integers,
intervals are positive, the absent timer is none of the timers). The proofs take the
actions one at a time, or by groups that change the same variables.

Model-checked only: liveness, because TLAPS does not prove what depends on fairness here.
Every invariant of the passing runs is a theorem.

## Not modelled

* Of HTTP: header fields other than `Connection`, the status and text of an answer.  A
  text is a sequence of tokens, cut where the parser looks for something.  Clients send
  well-formed lines, with methods and versions the server does not know among them; the
  parser does meet other ill-formed lines, because it begins anew with each piece.
* Local time that is put back: file names then go back by an hour, and the files no
  longer read in order.
* Log lines as long as a buffer: `FixedBuffer::append` copies them past its end.  No
  caller in the repository has one.
* What follows a data race: a `LogFile` has no mutex, so `Logger` stops where two threads
  are inside one.
* The text of a log line; `Socket`, `InetAddress`, `Singleton`, `CurrentThread`: formatting, values
  and system calls.  Of `Timestamp`, `now`, `seconds` and `addTime` are in `RollingFile`.
* Errors the code answers with `abort` or a fatal log; the end of memory or
  descriptors.
* Raw pointers to objects that the caller has destroyed (`PROJECT.json` names the
  two places).

## Plan

Done: the core (`EventLoop`, its abstract specification and proofs), the components
that interact through it, and the logs.  Left:

1. `quit` of an `EventLoopThread` before its loop has begun (net/EventLoop.cpp:63
   sets `_quit` back), which `TcpServer` excepts by name (`lostQuit`).
2. A system clock that is set back under `TimerQueue`.
