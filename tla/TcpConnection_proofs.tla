------------------------ MODULE TcpConnection_proofs -------------------------
(***************************************************************************)
(* For any threads, messages and sizes: the stream is intact, no epoll_ctl *)
(* fails and the loop writes nothing of its own after the FIN, whoever     *)
(* calls shutdown(); and down is down, when only the loop calls it.        *)
(*                                                                         *)
(* The second half is about a graceful shutdown: it leaves nothing behind. *)
(***************************************************************************)
EXTENDS TcpConnection, SequenceTheorems, FiniteSetTheorems, FunctionTheorems, TLAPS

-----------------------------------------------------------------------------
(* The poller: from a channel its books are right about, each operation    *)
(* leaves them right, and the channel registered or not.                   *)
LEMMA UpdateChannel ==
    ASSUME NEW ch \in Channels, Consistent(ch)
    PROVE  /\ updateChannel(ch) \in Channels /\ Consistent(updateChannel(ch))
           /\ updateChannel(ch).events = ch.events
           /\ updateChannel(ch).registered <=> (ch.events # {} \/ ch.index # "kAdded")
BY DEF Channels, Consistent, updateChannel, update, Indexes

LEMMA RemoveChannel ==
    ASSUME NEW ch \in Channels, Consistent(ch)
    PROVE  /\ removeChannel(ch) \in Channels /\ Consistent(removeChannel(ch))
           /\ removeChannel(ch).events = ch.events
           /\ ~removeChannel(ch).registered /\ ~removeChannel(ch).mapped
BY DEF Channels, Consistent, removeChannel, update, Indexes

LEMMA Ask ==
    ASSUME NEW ch \in Channels, Consistent(ch), NEW E \in SUBSET {Reading, Writing}
    PROVE  /\ updateChannel([ch EXCEPT !.events = E]) \in Channels
           /\ Consistent(updateChannel([ch EXCEPT !.events = E]))
           /\ updateChannel([ch EXCEPT !.events = E]).events = E
           /\ updateChannel([ch EXCEPT !.events = E]).registered
                <=> (E # {} \/ ~ch.registered)
<1> DEFINE c == [ch EXCEPT !.events = E]
<1>1. c \in Channels /\ Consistent(c) /\ c.events = E /\ c.index = ch.index
  BY DEF Channels, Consistent
<1>2. ch.registered <=> ch.index = "kAdded"
  BY DEF Consistent
<1> HIDE DEF c
<1>3. /\ updateChannel(c) \in Channels /\ Consistent(updateChannel(c))
      /\ updateChannel(c).events = c.events
      /\ updateChannel(c).registered <=> (c.events # {} \/ c.index # "kAdded")
  BY <1>1, UpdateChannel
<1> QED BY <1>1, <1>2, <1>3 DEF c

LEMMA FreshChannel == NewChannel \in Channels /\ Consistent(NewChannel)
                      /\ NewChannel.events = {} /\ ~NewChannel.registered
BY DEF NewChannel, Channels, Consistent, Indexes

LEMMA EnableReading ==
    ASSUME NEW ch \in Channels, Consistent(ch)
    PROVE  /\ enableReading(ch) \in Channels /\ Consistent(enableReading(ch))
           /\ enableReading(ch).events = ch.events \cup {Reading}
           /\ enableReading(ch).registered
<1> DEFINE E == ch.events \cup {Reading}
<1>1. E \in SUBSET {Reading, Writing} /\ E # {}
  BY DEF Channels
<1>2. enableReading(ch) = updateChannel([ch EXCEPT !.events = E])
  BY DEF enableReading, Channels
<1> HIDE DEF E
<1>3. /\ updateChannel([ch EXCEPT !.events = E]) \in Channels
      /\ Consistent(updateChannel([ch EXCEPT !.events = E]))
      /\ updateChannel([ch EXCEPT !.events = E]).events = E
      /\ updateChannel([ch EXCEPT !.events = E]).registered
           <=> (E # {} \/ ~ch.registered)
  BY <1>1, Ask
<1> QED BY <1>1, <1>2, <1>3 DEF E

LEMMA EnableWriting ==
    ASSUME NEW ch \in Channels, Consistent(ch)
    PROVE  /\ enableWriting(ch) \in Channels /\ Consistent(enableWriting(ch))
           /\ enableWriting(ch).events = ch.events \cup {Writing}
           /\ enableWriting(ch).registered
<1> DEFINE E == ch.events \cup {Writing}
<1>1. E \in SUBSET {Reading, Writing} /\ E # {}
  BY DEF Channels
<1>2. enableWriting(ch) = updateChannel([ch EXCEPT !.events = E])
  BY DEF enableWriting, Channels
<1> HIDE DEF E
<1>3. /\ updateChannel([ch EXCEPT !.events = E]) \in Channels
      /\ Consistent(updateChannel([ch EXCEPT !.events = E]))
      /\ updateChannel([ch EXCEPT !.events = E]).events = E
      /\ updateChannel([ch EXCEPT !.events = E]).registered
           <=> (E # {} \/ ~ch.registered)
  BY <1>1, Ask
<1> QED BY <1>1, <1>2, <1>3 DEF E

LEMMA DisableWriting ==
    ASSUME NEW ch \in Channels, Consistent(ch)
    PROVE  /\ disableWriting(ch) \in Channels /\ Consistent(disableWriting(ch))
           /\ disableWriting(ch).events = ch.events \ {Writing}
           /\ Reading \in ch.events => disableWriting(ch).registered
<1> DEFINE E == ch.events \ {Writing}
<1>1. E \in SUBSET {Reading, Writing}
  BY DEF Channels
<1>2. disableWriting(ch) = updateChannel([ch EXCEPT !.events = E])
  BY DEF disableWriting, Channels
<1>3. Reading \in ch.events => E # {}
  BY DEF Reading, Writing
<1> HIDE DEF E
<1>4. /\ updateChannel([ch EXCEPT !.events = E]) \in Channels
      /\ Consistent(updateChannel([ch EXCEPT !.events = E]))
      /\ updateChannel([ch EXCEPT !.events = E]).events = E
      /\ updateChannel([ch EXCEPT !.events = E]).registered
           <=> (E # {} \/ ~ch.registered)
  BY <1>1, Ask
<1> QED BY <1>1, <1>2, <1>3, <1>4 DEF E

LEMMA DisableAll ==
    ASSUME NEW ch \in Channels, Consistent(ch)
    PROVE  /\ disableAll(ch) \in Channels /\ Consistent(disableAll(ch))
           /\ disableAll(ch).events = {}
           /\ ch.registered => ~disableAll(ch).registered
BY Ask DEF disableAll

-----------------------------------------------------------------------------
(* A sequence is what was cut off its front and what remains. *)
LEMMA CutInTwo ==
    ASSUME NEW S, NEW s \in Seq(S), NEW n \in 0 .. Len(s)
    PROVE  /\ SubSeq(s, 1, n) \in Seq(S) /\ SubSeq(s, n + 1, Len(s)) \in Seq(S)
           /\ SubSeq(s, 1, n) \o SubSeq(s, n + 1, Len(s)) = s
<1>1. Len(s) \in Nat /\ \A i \in 1 .. Len(s) : s[i] \in S
  BY LenProperties, ElementOfSeq
<1>2. SubSeq(s, 1, n) \in Seq(S)
  <2>1. \A i \in 1 .. n : s[i] \in S
    BY <1>1
  <2> QED BY <1>1, <2>1, SubSeqProperties
<1>3. SubSeq(s, n + 1, Len(s)) \in Seq(S)
  <2>1. \A i \in n + 1 .. Len(s) : s[i] \in S
    BY <1>1
  <2> QED BY <1>1, <2>1, SubSeqProperties
<1>4. SubSeq(s, 1, n) \o SubSeq(s, n + 1, Len(s)) = SubSeq(s, 1, Len(s))
  <2>1. 1 \in 1 .. Len(s) + 1 /\ n \in 1 - 1 .. Len(s) /\ Len(s) \in n .. Len(s)
    BY <1>1
  <2> QED BY <2>1, ConcatAdjacentSubSeq
<1> QED BY <1>2, <1>3, <1>4, SubSeqFull

-----------------------------------------------------------------------------
(* The functors by kind. *)
NoEstablish(q) == \A i \in 1 .. Len(q) : q[i] # <<"establish">>
NoShutdown(q) == \A i \in 1 .. Len(q) : q[i] \notin {"shutdown"} \X AllThreads

(* What holds until connectEstablished has run, which it does once. *)
Fresh ==
    /\ ups = 0 =>
         /\ tasks # <<>> /\ Head(tasks) = <<"establish">> /\ NoEstablish(Tail(tasks))
         /\ state = "kConnecting" /\ channel = NewChannel
         /\ pc = "idle" /\ revents = {} /\ ~destroyed
         /\ \A th \in Threads : call[th] = <<"idle">>
    /\ ups = 1 => state # "kConnecting" /\ NoEstablish(tasks)

(* Nothing of a shutdown() is under way while the state still allows send. *)
Quiet ==
    state \in {"kConnecting", "kConnected"} =>
      /\ ~finSent /\ NoShutdown(tasks)
      /\ \A th \in Threads : call[th] # <<"queue">>

(* The channel asks to write while bytes wait, and not after the FIN. *)
Asks ==
    downs = 0 => /\ isWriting(channel) <=> out # <<>>
                 /\ finSent => ~isWriting(channel)

IInv == /\ TypeOK /\ Fresh /\ Quiet /\ Asks
        /\ StreamIntact /\ PollerConsistent /\ NoWriteAfterFin

LEMMA Kinds ==
    /\ \A kind \in {"establish", "callback", "destroy"} :
         <<kind>> \in Tasks /\ <<kind>> \notin {"shutdown"} \X AllThreads
    /\ \A m \in Messages : <<"send", m>> \in Tasks /\ <<"send", m>> # <<"establish">>
                           /\ <<"send", m>> \notin {"shutdown"} \X AllThreads
    /\ \A th \in AllThreads : <<"shutdown", th>> \in Tasks
                              /\ <<"shutdown", th>> # <<"establish">>
    /\ <<"callback">> # <<"establish">> /\ <<"destroy">> # <<"establish">>
<1>1. ASSUME NEW kind \in {"establish", "callback", "destroy"}
      PROVE  <<kind>> \in Tasks /\ <<kind>> \notin {"shutdown"} \X AllThreads
  BY DEF Tasks
<1>2. ASSUME NEW m \in Messages
      PROVE  <<"send", m>> \in Tasks /\ <<"send", m>> # <<"establish">>
             /\ <<"send", m>> \notin {"shutdown"} \X AllThreads
  BY DEF Tasks
<1>3. ASSUME NEW th \in AllThreads
      PROVE  <<"shutdown", th>> \in Tasks /\ <<"shutdown", th>> # <<"establish">>
  BY DEF Tasks
<1>4. <<"callback">> # <<"establish">> /\ <<"destroy">> # <<"establish">>
  OBVIOUS
<1> QED BY <1>1, <1>2, <1>3, <1>4

LEMMA Queued ==
    ASSUME NEW q \in Seq(Tasks), NEW t \in Tasks, t # <<"establish">>
    PROVE  /\ Append(q, t) \in Seq(Tasks)
           /\ NoEstablish(q) => NoEstablish(Append(q, t))
           /\ t \notin {"shutdown"} \X AllThreads /\ NoShutdown(q)
                => NoShutdown(Append(q, t))
           /\ q # <<>> => /\ Append(q, t) # <<>> /\ Head(Append(q, t)) = Head(q)
                          /\ Tail(Append(q, t)) = Append(Tail(q), t)
<1>1. /\ Append(q, t) \in Seq(Tasks) /\ Append(q, t) # <<>>
      /\ Len(Append(q, t)) = Len(q) + 1
      /\ \A i \in 1 .. Len(q) : Append(q, t)[i] = q[i]
      /\ Append(q, t)[Len(q) + 1] = t
  BY AppendProperties
<1>2. Len(q) \in Nat
  OBVIOUS
<1>3. \A i \in 1 .. Len(q) + 1 : i \in 1 .. Len(q) \/ i = Len(q) + 1
  BY <1>2
<1>4. NoEstablish(q) => NoEstablish(Append(q, t))
  BY <1>1, <1>3 DEF NoEstablish
<1>5. t \notin {"shutdown"} \X AllThreads /\ NoShutdown(q) => NoShutdown(Append(q, t))
  BY <1>1, <1>3 DEF NoShutdown
<1>6. q # <<>> => Head(Append(q, t)) = Head(q) /\ Tail(Append(q, t)) = Append(Tail(q), t)
  BY HeadTailAppend
<1> QED BY <1>1, <1>4, <1>5, <1>6

LEMMA Dequeued ==
    ASSUME NEW q \in Seq(Tasks), q # <<>>
    PROVE  /\ Head(q) \in Tasks /\ Tail(q) \in Seq(Tasks)
           /\ NoEstablish(q) => NoEstablish(Tail(q)) /\ Head(q) # <<"establish">>
           /\ NoShutdown(q) => NoShutdown(Tail(q)) /\ Head(q) \notin {"shutdown"} \X AllThreads
<1>1. /\ Head(q) \in Tasks /\ Tail(q) \in Seq(Tasks) /\ Len(Tail(q)) = Len(q) - 1
      /\ \A i \in 1 .. Len(Tail(q)) : Tail(q)[i] = q[i + 1]
  BY HeadTailProperties
<1>2. Len(q) \in Nat \ {0} /\ Head(q) = q[1]
  BY EmptySeq
<1>3. 1 \in 1 .. Len(q) /\ \A i \in 1 .. Len(q) - 1 : i + 1 \in 1 .. Len(q)
  BY <1>2
<1>4. NoEstablish(q) => NoEstablish(Tail(q)) /\ Head(q) # <<"establish">>
  BY <1>1, <1>2, <1>3 DEF NoEstablish
<1>5. NoShutdown(q) => NoShutdown(Tail(q)) /\ Head(q) \notin {"shutdown"} \X AllThreads
  BY <1>1, <1>2, <1>3 DEF NoShutdown
<1> QED BY <1>1, <1>4, <1>5

(* A functor runs after connectEstablished, unless it is that one. *)
LEMMA FunctorRuns ==
    ASSUME TypeOK, Fresh, NEW t, Taken(t), t # <<"establish">>
    PROVE  /\ ups = 1 /\ t \in Tasks /\ Tail(tasks) \in Seq(Tasks)
           /\ NoEstablish(Tail(tasks))
           /\ NoShutdown(tasks) => NoShutdown(Tail(tasks)) /\ t \notin {"shutdown"} \X AllThreads
<1>1. tasks \in Seq(Tasks) /\ tasks # <<>> /\ Head(tasks) = t
  BY DEF Taken, TypeOK
<1>2. ups = 1 /\ NoEstablish(tasks)
  <2>1. ups # 0
    BY <1>1 DEF Fresh
  <2>2. ups \in 0 .. 1
    BY DEF TypeOK
  <2> QED BY <2>1, <2>2 DEF Fresh
<1> QED BY <1>1, <1>2, Dequeued

-----------------------------------------------------------------------------
(* sendInLoop. *)
LEMMA MessageBytes ==
    ASSUME NEW m \in Messages
    PROVE  Bytes(m) \in Seq(Messages) /\ Len(Bytes(m)) = MessageLen
BY SizeAssumption DEF Bytes

(* What sendInLoop leaves behind, given the queue without the functor it ran in. *)
LEMMA SendInLoop ==
    ASSUME TypeOK, Asks, StreamIntact, PollerConsistent,
           NEW m \in Messages, NEW queue \in Seq(Tasks), sendInLoop(m, queue)
    PROVE  /\ channel' \in Channels /\ PollerConsistent'
           /\ out' \in Seq(Messages) /\ wire' \in Seq(Messages) /\ accepted' \in Seq(Messages)
           /\ room' \in 0 .. SendBuffer /\ soError' \in BOOLEAN
           /\ tasks' \in {queue, Append(queue, <<"callback">>)}
           /\ StreamIntact'
           /\ finSent' = finSent /\ downs' = downs => Asks'
           /\ downs = 0 /\ (isWriting(channel) \/ finSent) => channel' = channel
           /\ channel' # channel => channel' = enableWriting(channel) /\ state # "kDisconnected"
<1> DEFINE n == IF Direct /\ ~Broken THEN Least(room, MessageLen) ELSE 0
           rest == SubSeq(Bytes(m), n + 1, MessageLen)
           GiveUp == state = "kDisconnected"
           Error == Direct /\ Broken
           front == SubSeq(Bytes(m), 1, n)
<1>1. CASE /\ GiveUp \/ Error
           /\ tasks' = queue /\ soError' \in BOOLEAN
           /\ UNCHANGED <<channel, out, room, wire, accepted>>
  <2>1. StreamIntact' /\ PollerConsistent' /\ (finSent' = finSent /\ downs' = downs => Asks')
    BY <1>1 DEF StreamIntact, PollerConsistent, Asks
  <2>2. /\ channel' \in Channels /\ room' \in 0 .. SendBuffer
        /\ out' \in Seq(Messages) /\ wire' \in Seq(Messages) /\ accepted' \in Seq(Messages)
    BY <1>1 DEF TypeOK
  <2>3. /\ downs = 0 /\ (isWriting(channel) \/ finSent) => channel' = channel
        /\ channel' # channel => channel' = enableWriting(channel) /\ state # "kDisconnected"
    BY <1>1
  <2>4. tasks' \in {queue, Append(queue, <<"callback">>)} /\ soError' \in BOOLEAN
    BY <1>1
  <2> QED BY <2>1, <2>2, <2>3, <2>4
<1>2. ASSUME ~GiveUp, ~Error,
             room' = room - n, wire' = wire \o front, accepted' = accepted \o Bytes(m),
             out' = out \o rest,
             channel' = IF rest # <<>> /\ ~isWriting(channel)
                        THEN enableWriting(channel) ELSE channel,
             tasks' \in {queue, Append(queue, <<"callback">>)},
             soError' = soError
      PROVE  /\ channel' \in Channels /\ PollerConsistent'
             /\ out' \in Seq(Messages) /\ wire' \in Seq(Messages) /\ accepted' \in Seq(Messages)
             /\ room' \in 0 .. SendBuffer /\ soError' \in BOOLEAN
             /\ tasks' \in {queue, Append(queue, <<"callback">>)}
             /\ StreamIntact'
             /\ finSent' = finSent /\ downs' = downs => Asks'
             /\ downs = 0 /\ (isWriting(channel) \/ finSent) => channel' = channel
             /\ channel' # channel => channel' = enableWriting(channel) /\ state # "kDisconnected"
  <2>1. n \in 0 .. MessageLen /\ room - n \in 0 .. SendBuffer
    BY SizeAssumption DEF TypeOK, Least
  <2>2. Bytes(m) \in Seq(Messages) /\ Len(Bytes(m)) = MessageLen
    BY MessageBytes
  <2>3. n # 0 => out = <<>>
    BY DEF Direct
  <2>4. n = 0 => front = <<>> /\ rest = Bytes(m)
    <3>1. SubSeq(Bytes(m), 1, 0) = <<>>
      BY SubSeqEmpty
    <3>2. SubSeq(Bytes(m), 1, MessageLen) = Bytes(m)
      BY <2>2, SubSeqFull
    <3> QED BY <3>1, <3>2
  <2> HIDE DEF n
  <2>5. front \in Seq(Messages) /\ rest \in Seq(Messages) /\ front \o rest = Bytes(m)
    BY <2>1, <2>2, CutInTwo
  <2> HIDE DEF front, rest
  <2>6. out \in Seq(Messages) /\ wire \in Seq(Messages) /\ accepted \in Seq(Messages)
    BY DEF TypeOK
  <2>7. out' \in Seq(Messages) /\ wire' \in Seq(Messages) /\ accepted' \in Seq(Messages)
    BY <1>2, <2>2, <2>5, <2>6, ConcatProperties
  <2>8. StreamIntact'
    <3>1. CASE out = <<>>
      <4>1. accepted = wire /\ out' = rest
        BY <1>2, <2>5, <2>6, <3>1, ConcatEmptySeq DEF StreamIntact
      <4>2. accepted' = wire \o (front \o rest)
        BY <1>2, <2>5, <4>1
      <4>3. wire \in Seq(Messages) /\ front \in Seq(Messages) /\ rest \in Seq(Messages)
        BY <2>5, <2>6
      <4>4. (wire \o front) \o rest = wire \o (front \o rest)
        BY <4>3, ConcatAssociative
      <4> QED BY <1>2, <4>1, <4>2, <4>4 DEF StreamIntact
    <3>2. CASE out # <<>>
      <4>1. n = 0
        BY <2>3, <3>2 DEF n
      <4>2. front = <<>> /\ rest = Bytes(m)
        BY <2>4, <4>1
      <4>3. wire' = wire
        BY <1>2, <2>6, <4>2, ConcatEmptySeq
      <4>4. accepted' = (wire \o out) \o Bytes(m) /\ out' = out \o Bytes(m)
        BY <1>2, <4>2 DEF StreamIntact
      <4>5. wire \in Seq(Messages) /\ out \in Seq(Messages) /\ Bytes(m) \in Seq(Messages)
        BY <2>2, <2>6
      <4>6. (wire \o out) \o Bytes(m) = wire \o (out \o Bytes(m))
        BY <4>5, ConcatAssociative
      <4> QED BY <4>3, <4>4, <4>6 DEF StreamIntact
    <3> QED BY <3>1, <3>2
  <2>9. /\ channel \in Channels /\ Consistent(channel)
        /\ enableWriting(channel) \in Channels /\ Consistent(enableWriting(channel))
        /\ isWriting(enableWriting(channel))
    BY EnableWriting DEF TypeOK, PollerConsistent, isWriting
  <2>10. channel' \in Channels /\ PollerConsistent'
    BY <1>2, <2>9 DEF PollerConsistent
  <2>11. downs = 0 /\ finSent => ~isWriting(channel) /\ out = <<>>
    BY DEF Asks
  <2>12. downs = 0 => ~finSent
    BY <1>2, <2>11 DEF Direct, Broken
  <2>13. ASSUME finSent' = finSent, downs' = downs, downs = 0
         PROVE  (isWriting(channel') <=> out' # <<>>) /\ ~finSent'
    <3>1. out' # <<>> <=> out # <<>> \/ rest # <<>>
      BY <1>2, <2>5, <2>6, ConcatEqualIffEmpty
    <3>2. isWriting(channel) <=> out # <<>>
      BY <2>13 DEF Asks
    <3> QED BY <1>2, <2>9, <2>12, <2>13, <3>1, <3>2
  <2>14. finSent' = finSent /\ downs' = downs => Asks'
    BY <2>13 DEF Asks
  <2>15. downs = 0 /\ (isWriting(channel) \/ finSent) => channel' = channel
    BY <1>2, <2>12
  <2> QED BY <1>2, <2>1, <2>7, <2>8, <2>10, <2>14, <2>15 DEF TypeOK
<1>3. CASE ~GiveUp /\ ~Error
  BY <1>2, <1>3 DEF sendInLoop
<1>4. CASE GiveUp \/ Error
  BY <1>1, <1>4 DEF sendInLoop, TypeOK
<1> QED BY <1>3, <1>4

-----------------------------------------------------------------------------
LEMMA Initially == Init => IInv
<1> SUFFICES ASSUME Init PROVE IInv
  OBVIOUS
<1>1. /\ NewChannel \in Channels /\ Consistent(NewChannel) /\ ~isWriting(NewChannel)
  BY FreshChannel DEF isWriting
<1>2. tasks = <<<<"establish">>>> /\ tasks \in Seq(Tasks)
  BY Kinds DEF Init
<1>3. Head(tasks) = <<"establish">> /\ NoEstablish(Tail(tasks)) /\ tasks # <<>>
  BY <1>2 DEF NoEstablish
<1>4. NoShutdown(tasks)
  BY <1>2, Kinds DEF NoShutdown
<1>5. TypeOK
  <2>1. /\ call \in [Threads -> {<<"idle">>, <<"set">>, <<"queue">>}
                                  \cup ({"send"} \X Messages)]
        /\ sent \in [AllThreads -> SUBSET Messages]
    BY DEF Init
  <2>2. /\ out \in Seq(Messages) /\ wire \in Seq(Messages) /\ accepted \in Seq(Messages)
    BY DEF Init
  <2>3. /\ inbox \in Nat /\ input \in Nat /\ inbox + input <= MaxInput
        /\ room \in 0 .. SendBuffer
    BY SizeAssumption DEF Init
  <2>4. /\ state \in States /\ channel \in Channels
        /\ pc \in {"idle", "user", "destroying"}
        /\ revents \subseteq {"IN", "OUT", "HUP", "ERR"}
    BY <1>1 DEF Init, States
  <2>5. /\ server \in {"holds", "erased", "dead"}
        /\ closing \in Nat /\ destroyed \in BOOLEAN
        /\ peer \in {"open", "fin", "rst"} /\ soError \in BOOLEAN
        /\ finSent \in BOOLEAN
    BY DEF Init
  <2>6. promised \subseteq Messages /\ overtaken \subseteq Messages /\ brokenWrite \in BOOLEAN
    BY DEF Init
  <2>7. ups \in 0 .. 1 /\ downs \in Nat
    BY DEF Init
  <2> QED BY <1>2, <2>1, <2>2, <2>3, <2>4, <2>5, <2>6, <2>7 DEF TypeOK
<1>6. Fresh
  BY <1>3 DEF Init, Fresh
<1>7. Quiet
  BY <1>4 DEF Init, Quiet
<1>8. Asks /\ PollerConsistent /\ NoWriteAfterFin
  BY <1>1 DEF Init, Asks, PollerConsistent, NoWriteAfterFin
<1>9. StreamIntact
  BY DEF Init, StreamIntact
<1> QED BY <1>5, <1>6, <1>7, <1>8, <1>9 DEF IInv

-----------------------------------------------------------------------------
(* The peer and the server. *)
LEMMA PeerKeeps ==
    IInv /\ (PeerSends \/ PeerReads \/ PeerShutsDown \/ PeerResets) => IInv'
<1> SUFFICES ASSUME IInv, PeerSends \/ PeerReads \/ PeerShutsDown \/ PeerResets PROVE IInv'
  OBVIOUS
<1>1. UNCHANGED envRest
  BY DEF PeerSends, PeerReads, PeerShutsDown, PeerResets, envRest
<1>2. /\ peer' \in {"open", "fin", "rst"} /\ soError' \in BOOLEAN
      /\ inbox' \in Nat /\ input' \in Nat /\ inbox' + input' <= MaxInput
      /\ room' \in 0 .. SendBuffer
  <2>1. /\ peer \in {"open", "fin", "rst"} /\ soError \in BOOLEAN
        /\ inbox \in Nat /\ input \in Nat /\ inbox + input <= MaxInput
        /\ room \in 0 .. SendBuffer
    BY DEF IInv, TypeOK
  <2>2. CASE PeerSends
    BY <2>1, <2>2, SizeAssumption DEF PeerSends
  <2>3. CASE PeerReads
    BY <2>1, <2>3, SizeAssumption DEF PeerReads
  <2>4. CASE PeerShutsDown
    BY <2>1, <2>4 DEF PeerShutsDown
  <2>5. CASE PeerResets
    BY <2>1, <2>5 DEF PeerResets
  <2> QED BY <2>2, <2>3, <2>4, <2>5
<1>3. TypeOK'
  BY <1>1, <1>2 DEF IInv, TypeOK, envRest, loopVars, serverVars, history
<1>4. Fresh' /\ Quiet' /\ Asks'
  BY <1>1 DEF IInv, Fresh, Quiet, Asks, envRest, loopVars, serverVars, history
<1>5. StreamIntact' /\ PollerConsistent' /\ NoWriteAfterFin'
  BY <1>1 DEF IInv, StreamIntact, PollerConsistent, NoWriteAfterFin, envRest, loopVars,
              serverVars, history
<1> QED BY <1>3, <1>4, <1>5 DEF IInv

(* A functor that is queued and nothing of a shutdown. *)
LEMMA AppendKeeps ==
    ASSUME IInv, NEW t \in Tasks, t # <<"establish">>,
           t \notin {"shutdown"} \X AllThreads,
           tasks' = Append(tasks, t)
    PROVE  /\ tasks' \in Seq(Tasks)
           /\ NoEstablish(tasks) => NoEstablish(tasks')
           /\ NoShutdown(tasks) => NoShutdown(tasks')
           /\ tasks # <<>> /\ Head(tasks) = <<"establish">> /\ NoEstablish(Tail(tasks)) =>
                tasks' # <<>> /\ Head(tasks') = <<"establish">> /\ NoEstablish(Tail(tasks'))
<1>1. tasks \in Seq(Tasks)
  BY DEF IInv, TypeOK
<1>2. tasks # <<>> => /\ tasks' # <<>> /\ Head(tasks') = Head(tasks)
                      /\ Tail(tasks') = Append(Tail(tasks), t) /\ Tail(tasks) \in Seq(Tasks)
  BY <1>1, Queued, Dequeued
<1>3. tasks # <<>> /\ NoEstablish(Tail(tasks)) => NoEstablish(Tail(tasks'))
  BY <1>2, Queued
<1>4. /\ tasks' \in Seq(Tasks)
      /\ NoEstablish(tasks) => NoEstablish(tasks')
      /\ NoShutdown(tasks) => NoShutdown(tasks')
  BY <1>1, Queued
<1> QED BY <1>2, <1>3, <1>4

LEMMA ServerKeeps == IInv /\ (ServerRemoves \/ ServerDies) => IInv'
<1> SUFFICES ASSUME IInv, ServerRemoves \/ ServerDies PROVE IInv'
  OBVIOUS
<1>1. /\ tasks' = Append(tasks, <<"destroy">>)
      /\ UNCHANGED <<state, loopVars, call, destroyed, kernelVars, finSent, history>>
  BY DEF ServerRemoves, ServerDies
<1>2. <<"destroy">> \in Tasks /\ <<"destroy">> # <<"establish">>
      /\ <<"destroy">> \notin {"shutdown"} \X AllThreads
  BY Kinds
<1>3. /\ tasks' \in Seq(Tasks)
      /\ NoEstablish(tasks) => NoEstablish(tasks')
      /\ NoShutdown(tasks) => NoShutdown(tasks')
      /\ tasks # <<>> /\ Head(tasks) = <<"establish">> /\ NoEstablish(Tail(tasks)) =>
           tasks' # <<>> /\ Head(tasks') = <<"establish">> /\ NoEstablish(Tail(tasks'))
  BY <1>1, <1>2, AppendKeeps
<1>4. server' \in {"holds", "erased", "dead"} /\ closing' \in Nat
  BY DEF IInv, TypeOK, ServerRemoves, ServerDies
<1>5. TypeOK'
  BY <1>1, <1>3, <1>4 DEF IInv, TypeOK, loopVars, kernelVars, history
<1>6. Fresh'
  BY <1>1, <1>3 DEF IInv, Fresh, loopVars, history
<1>7. Quiet' /\ Asks'
  BY <1>1, <1>3 DEF IInv, Quiet, Asks, loopVars, history
<1>8. StreamIntact' /\ PollerConsistent' /\ NoWriteAfterFin'
  BY <1>1 DEF IInv, StreamIntact, PollerConsistent, NoWriteAfterFin, loopVars, history
<1> QED BY <1>5, <1>6, <1>7, <1>8 DEF IInv

-----------------------------------------------------------------------------
(* The other threads, in send() and shutdown(). *)
LEMMA SendTestKeeps ==
    ASSUME IInv, NEW th \in Threads, NEW m \in Messages, SendTest(th, m)
    PROVE  IInv'
<1>1. /\ state = "kConnected" /\ call' = [call EXCEPT ![th] = <<"send", m>>]
      /\ UNCHANGED <<state, tasks, sent, promised, threadRest>>
  BY DEF SendTest, MaySend
<1>2. ups = 1
  BY <1>1 DEF IInv, Fresh, TypeOK
<1>3. TypeOK'
  BY <1>1 DEF IInv, TypeOK, threadRest, loopVars, serverVars, kernelVars
<1>4. Fresh'
  BY <1>1, <1>2 DEF IInv, Fresh, threadRest, loopVars, serverVars
<1>5. \A u \in Threads : call'[u] = <<"queue">> => call[u] = <<"queue">>
  BY <1>1 DEF IInv, TypeOK
<1>6. Quiet' /\ Asks'
  BY <1>1, <1>5 DEF IInv, Quiet, Asks, threadRest, loopVars
<1>7. StreamIntact' /\ PollerConsistent' /\ NoWriteAfterFin'
  BY <1>1 DEF IInv, StreamIntact, PollerConsistent, NoWriteAfterFin, threadRest, loopVars
<1> QED BY <1>3, <1>4, <1>6, <1>7 DEF IInv

LEMMA SendQueueKeeps ==
    ASSUME IInv, NEW th \in Threads, NEW m \in Messages, SendQueue(th, m)
    PROVE  IInv'
<1>1. /\ call[th] = <<"send", m>>
      /\ tasks' = Append(tasks, <<"send", m>>)
      /\ sent' = [sent EXCEPT ![th] = @ \cup {m}]
      /\ call' = [call EXCEPT ![th] = <<"idle">>]
      /\ UNCHANGED <<state, promised, threadRest>>
  BY DEF SendQueue
<1>2. ups = 1
  BY <1>1 DEF IInv, Fresh, TypeOK
<1>3. <<"send", m>> \in Tasks /\ <<"send", m>> # <<"establish">>
      /\ <<"send", m>> \notin {"shutdown"} \X AllThreads
  BY Kinds
<1>4. /\ tasks' \in Seq(Tasks)
      /\ NoEstablish(tasks) => NoEstablish(tasks')
      /\ NoShutdown(tasks) => NoShutdown(tasks')
  BY <1>1, <1>3, AppendKeeps
<1>5. sent' \in [AllThreads -> SUBSET Messages]
  BY <1>1 DEF IInv, TypeOK, AllThreads
<1>6. TypeOK'
  BY <1>1, <1>4, <1>5 DEF IInv, TypeOK, threadRest, loopVars, serverVars, kernelVars
<1>7. Fresh'
  BY <1>1, <1>2, <1>4 DEF IInv, Fresh, threadRest, loopVars, serverVars
<1>8. \A u \in Threads : call'[u] = <<"queue">> => call[u] = <<"queue">>
  BY <1>1 DEF IInv, TypeOK
<1>9. Quiet' /\ Asks'
  BY <1>1, <1>4, <1>8 DEF IInv, Quiet, Asks, threadRest, loopVars
<1>10. StreamIntact' /\ PollerConsistent' /\ NoWriteAfterFin'
  BY <1>1 DEF IInv, StreamIntact, PollerConsistent, NoWriteAfterFin, threadRest, loopVars
<1> QED BY <1>6, <1>7, <1>9, <1>10 DEF IInv

LEMMA ShutdownTestKeeps ==
    ASSUME IInv, NEW th \in Threads, ShutdownTest(th)
    PROVE  IInv'
<1>1. /\ state = "kConnected" /\ call' = [call EXCEPT ![th] = <<"set">>]
      /\ promised' = promised \cup sent[th]
      /\ UNCHANGED <<state, tasks, sent, threadRest>>
  BY DEF ShutdownTest
<1>2. ups = 1
  BY <1>1 DEF IInv, Fresh, TypeOK
<1>3. TypeOK'
  <2>1. promised' \subseteq Messages
    BY <1>1 DEF IInv, TypeOK, AllThreads
  <2> QED BY <1>1, <2>1 DEF IInv, TypeOK, threadRest, loopVars, serverVars, kernelVars
<1>4. Fresh'
  BY <1>1, <1>2 DEF IInv, Fresh, threadRest, loopVars, serverVars
<1>5. \A u \in Threads : call'[u] = <<"queue">> => call[u] = <<"queue">>
  BY <1>1 DEF IInv, TypeOK
<1>6. Quiet' /\ Asks'
  BY <1>1, <1>5 DEF IInv, Quiet, Asks, threadRest, loopVars
<1>7. StreamIntact' /\ PollerConsistent' /\ NoWriteAfterFin'
  BY <1>1 DEF IInv, StreamIntact, PollerConsistent, NoWriteAfterFin, threadRest, loopVars
<1> QED BY <1>3, <1>4, <1>6, <1>7 DEF IInv

LEMMA ShutdownSetKeeps ==
    ASSUME IInv, NEW th \in Threads, ShutdownSet(th)
    PROVE  IInv'
<1>1. /\ call[th] = <<"set">> /\ state' = "kDisconnecting"
      /\ call' = [call EXCEPT ![th] = <<"queue">>]
      /\ UNCHANGED <<tasks, sent, promised, threadRest>>
  BY DEF ShutdownSet
<1>2. ups = 1
  BY <1>1 DEF IInv, Fresh, TypeOK
<1>3. TypeOK'
  BY <1>1 DEF IInv, TypeOK, States, threadRest, loopVars, serverVars, kernelVars
<1>4. Fresh'
  BY <1>1, <1>2 DEF IInv, Fresh, threadRest, loopVars, serverVars
<1>5. Quiet' /\ Asks'
  BY <1>1 DEF IInv, Quiet, Asks, threadRest, loopVars
<1>6. StreamIntact' /\ PollerConsistent' /\ NoWriteAfterFin'
  BY <1>1 DEF IInv, StreamIntact, PollerConsistent, NoWriteAfterFin, threadRest, loopVars
<1> QED BY <1>3, <1>4, <1>5, <1>6 DEF IInv

LEMMA ShutdownQueueKeeps ==
    ASSUME IInv, NEW th \in Threads, ShutdownQueue(th)
    PROVE  IInv'
<1>1. /\ call[th] = <<"queue">> /\ tasks' = Append(tasks, <<"shutdown", th>>)
      /\ call' = [call EXCEPT ![th] = <<"idle">>]
      /\ UNCHANGED <<state, sent, promised, threadRest>>
  BY DEF ShutdownQueue
<1>2. ups = 1 /\ state \notin {"kConnecting", "kConnected"}
  BY <1>1 DEF IInv, Fresh, TypeOK, Quiet
<1>3. <<"shutdown", th>> \in Tasks /\ <<"shutdown", th>> # <<"establish">>
  BY Kinds DEF AllThreads
<1>4. tasks' \in Seq(Tasks) /\ (NoEstablish(tasks) => NoEstablish(tasks'))
  BY <1>1, <1>3, Queued DEF IInv, TypeOK
<1>5. TypeOK'
  BY <1>1, <1>4 DEF IInv, TypeOK, threadRest, loopVars, serverVars, kernelVars
<1>6. Fresh'
  BY <1>1, <1>2, <1>4 DEF IInv, Fresh, threadRest, loopVars, serverVars
<1>7. Quiet' /\ Asks'
  BY <1>1, <1>2 DEF IInv, Quiet, Asks, threadRest, loopVars
<1>8. StreamIntact' /\ PollerConsistent' /\ NoWriteAfterFin'
  BY <1>1 DEF IInv, StreamIntact, PollerConsistent, NoWriteAfterFin, threadRest, loopVars
<1> QED BY <1>5, <1>6, <1>7, <1>8 DEF IInv

-----------------------------------------------------------------------------
(* User code in the loop, and the functors. *)

(* sendInLoop keeps the invariant, for a queue with no connectEstablished. *)
LEMMA SendInLoopKeeps ==
    ASSUME IInv, ups = 1,
           NEW m \in Messages, NEW queue \in Seq(Tasks), sendInLoop(m, queue),
           NoEstablish(queue), NoShutdown(tasks) => NoShutdown(queue),
           UNCHANGED <<state, pc, revents, call, serverVars, peer, inbox, input,
                       finSent, promised, overtaken, ups, downs>>,
           sent' \in [AllThreads -> SUBSET Messages],
           brokenWrite' = FALSE
    PROVE  IInv'
<1>1. TypeOK /\ Asks /\ StreamIntact /\ PollerConsistent
  BY DEF IInv
<1>2. /\ channel' \in Channels /\ PollerConsistent'
      /\ out' \in Seq(Messages) /\ wire' \in Seq(Messages) /\ accepted' \in Seq(Messages)
      /\ room' \in 0 .. SendBuffer /\ soError' \in BOOLEAN
      /\ tasks' \in {queue, Append(queue, <<"callback">>)}
      /\ StreamIntact'
      /\ finSent' = finSent /\ downs' = downs => Asks'
  BY <1>1, SendInLoop
<1>3. <<"callback">> \in Tasks /\ <<"callback">> # <<"establish">>
      /\ <<"callback">> \notin {"shutdown"} \X AllThreads
  BY Kinds
<1>4. /\ tasks' \in Seq(Tasks) /\ NoEstablish(tasks')
      /\ NoShutdown(tasks) => NoShutdown(tasks')
  BY <1>2, <1>3, Queued
<1>5. TypeOK'
  BY <1>1, <1>2, <1>4 DEF TypeOK, serverVars
<1>6. Fresh'
  BY <1>4 DEF IInv, Fresh
<1>7. Quiet'
  BY <1>4 DEF IInv, Quiet
<1> QED BY <1>2, <1>5, <1>6, <1>7 DEF IInv, NoWriteAfterFin

LEMMA LoopSendKeeps ==
    ASSUME IInv, NEW m \in Messages, LoopSend(m)
    PROVE  IInv'
<1>1. /\ pc = "user" /\ state = "kConnected" /\ sendInLoop(m, tasks)
      /\ sent' = [sent EXCEPT ![LoopThread] = @ \cup {m}]
      /\ brokenWrite' = (brokenWrite \/ (finSent /\ state # "kDisconnected"))
      /\ UNCHANGED <<state, pc, revents, call, serverVars, peer, inbox, input,
                     finSent, promised, overtaken, ups, downs>>
  BY DEF LoopSend, InUser, MaySend
<1>2. ups = 1 /\ tasks \in Seq(Tasks)
  BY <1>1 DEF IInv, Fresh, TypeOK
<1>3. NoEstablish(tasks)
  BY <1>2 DEF IInv, Fresh
<1>4. brokenWrite' = FALSE
  <2>1. ~finSent /\ ~brokenWrite
    BY <1>1 DEF IInv, Quiet, NoWriteAfterFin
  <2> QED BY <1>1, <2>1
<1>5. sent' \in [AllThreads -> SUBSET Messages]
  BY <1>1 DEF IInv, TypeOK
<1> QED BY <1>1, <1>2, <1>3, <1>4, <1>5, SendInLoopKeeps

LEMMA RunSendKeeps ==
    ASSUME IInv, NEW m \in Messages, RunSend(m)
    PROVE  IInv'
<1>1. /\ Taken(<<"send", m>>) /\ sendInLoop(m, Tail(tasks))
      /\ UNCHANGED <<state, pc, revents, call, serverVars, peer, inbox, input,
                     finSent, sent, promised, overtaken, brokenWrite, ups, downs>>
  BY DEF RunSend
<1>2. TypeOK /\ Fresh /\ <<"send", m>> # <<"establish">>
  BY Kinds DEF IInv
<1>3. /\ ups = 1 /\ Tail(tasks) \in Seq(Tasks) /\ NoEstablish(Tail(tasks))
      /\ NoShutdown(tasks) => NoShutdown(Tail(tasks))
  BY <1>1, <1>2, FunctorRuns
<1>4. brokenWrite' = FALSE /\ sent' \in [AllThreads -> SUBSET Messages]
  BY <1>1, <1>2 DEF IInv, NoWriteAfterFin, TypeOK
<1> QED BY <1>1, <1>3, <1>4, SendInLoopKeeps

LEMMA LoopShutdownKeeps == IInv /\ LoopShutdown => IInv'
<1> SUFFICES ASSUME IInv, LoopShutdown PROVE IInv'
  OBVIOUS
<1>1. /\ pc = "user" /\ state' = "kDisconnecting"
      /\ finSent' = (finSent \/ ~isWriting(channel))
      /\ promised' = promised \cup sent[LoopThread] /\ Overtake
      /\ UNCHANGED <<loopVars, tasks, call, serverVars, kernelVars, wire, accepted,
                     sent, brokenWrite, ups, downs>>
  BY DEF LoopShutdown, InUser, shutdownInLoop
<1>2. ups = 1
  BY <1>1 DEF IInv, Fresh, TypeOK
<1>3. /\ finSent' \in BOOLEAN /\ state' \in States
      /\ promised' \subseteq Messages /\ overtaken' \subseteq Messages
  BY <1>1 DEF IInv, TypeOK, AllThreads, States, Overtake, Waiting
<1>4. TypeOK'
  BY <1>1, <1>3 DEF IInv, TypeOK, loopVars, serverVars, kernelVars
<1>5. Fresh'
  BY <1>1, <1>2 DEF IInv, Fresh, loopVars
<1>6. Quiet' /\ Asks'
  BY <1>1 DEF IInv, Quiet, Asks, loopVars
<1>7. StreamIntact' /\ PollerConsistent' /\ NoWriteAfterFin'
  BY <1>1 DEF IInv, StreamIntact, PollerConsistent, NoWriteAfterFin, loopVars
<1> QED BY <1>4, <1>5, <1>6, <1>7 DEF IInv

LEMMA RunShutdownKeeps ==
    ASSUME IInv, NEW th \in AllThreads, RunShutdown(th)
    PROVE  IInv'
<1>1. /\ Taken(<<"shutdown", th>>) /\ tasks' = Tail(tasks)
      /\ finSent' = (finSent \/ ~isWriting(channel))
      /\ UNCHANGED <<state, loopVars, call, serverVars, kernelVars, history>>
  BY DEF RunShutdown, shutdownInLoop
<1>2. TypeOK /\ Fresh /\ <<"shutdown", th>> # <<"establish">>
  BY Kinds DEF IInv
<1>3. /\ ups = 1 /\ tasks' \in Seq(Tasks) /\ NoEstablish(tasks') /\ ~NoShutdown(tasks)
  BY <1>1, <1>2, FunctorRuns
<1>4. finSent' \in BOOLEAN
  BY <1>1, <1>2 DEF TypeOK
<1>5. TypeOK'
  BY <1>1, <1>2, <1>3, <1>4 DEF TypeOK, loopVars, serverVars, kernelVars, history
<1>6. Fresh'
  BY <1>1, <1>2, <1>3 DEF Fresh, loopVars, history
<1>7. Quiet' /\ Asks'
  BY <1>1, <1>3 DEF IInv, Quiet, Asks, loopVars, history
<1>8. StreamIntact' /\ PollerConsistent' /\ NoWriteAfterFin'
  BY <1>1 DEF IInv, StreamIntact, PollerConsistent, NoWriteAfterFin, loopVars, history
<1> QED BY <1>5, <1>6, <1>7, <1>8 DEF IInv

LEMMA UserReturnsKeeps == IInv /\ UserReturns => IInv'
<1> SUFFICES ASSUME IInv, UserReturns PROVE IInv'
  OBVIOUS
<1>1. /\ pc' = "idle"
      /\ UNCHANGED <<state, channel, out, revents, tasks, call, serverVars,
                     kernelVars, finSent, history>>
  BY DEF UserReturns
<1>2. TypeOK'
  BY <1>1 DEF IInv, TypeOK, serverVars, kernelVars, history
<1>3. Fresh' /\ Quiet' /\ Asks'
  BY <1>1 DEF IInv, Fresh, Quiet, Asks, serverVars, history
<1>4. StreamIntact' /\ PollerConsistent' /\ NoWriteAfterFin'
  BY <1>1 DEF IInv, StreamIntact, PollerConsistent, NoWriteAfterFin, history
<1> QED BY <1>2, <1>3, <1>4 DEF IInv

LEMMA RunCallbackKeeps == IInv /\ RunCallback => IInv'
<1> SUFFICES ASSUME IInv, RunCallback PROVE IInv'
  OBVIOUS
<1>1. /\ Taken(<<"callback">>) /\ tasks' = Tail(tasks) /\ pc' = "user"
      /\ UNCHANGED <<state, channel, out, revents, call, serverVars, kernelVars,
                     finSent, history>>
  BY DEF RunCallback
<1>2. TypeOK /\ Fresh /\ <<"callback">> # <<"establish">>
  BY Kinds DEF IInv
<1>3. /\ ups = 1 /\ tasks' \in Seq(Tasks) /\ NoEstablish(tasks')
      /\ NoShutdown(tasks) => NoShutdown(tasks')
  BY <1>1, <1>2, FunctorRuns
<1>4. TypeOK'
  BY <1>1, <1>2, <1>3 DEF TypeOK, serverVars, kernelVars, history
<1>5. Fresh'
  BY <1>1, <1>2, <1>3 DEF Fresh, history
<1>6. Quiet' /\ Asks'
  BY <1>1, <1>3 DEF IInv, Quiet, Asks, history
<1>7. StreamIntact' /\ PollerConsistent' /\ NoWriteAfterFin'
  BY <1>1 DEF IInv, StreamIntact, PollerConsistent, NoWriteAfterFin, history
<1> QED BY <1>4, <1>5, <1>6, <1>7 DEF IInv

LEMMA connectEstablishedKeeps == IInv /\ connectEstablished => IInv'
<1> SUFFICES ASSUME IInv, connectEstablished PROVE IInv'
  OBVIOUS
<1>1. /\ Taken(<<"establish">>) /\ tasks' = Tail(tasks)
      /\ state' = "kConnected" /\ channel' = enableReading(channel)
      /\ ups' = ups + 1 /\ pc' = "user"
      /\ UNCHANGED <<out, revents, call, serverVars, kernelVars, finSent, wire,
                     accepted, sent, promised, overtaken, brokenWrite, downs>>
  BY DEF connectEstablished
<1>2. tasks \in Seq(Tasks) /\ tasks # <<>> /\ Head(tasks) = <<"establish">>
  BY <1>1 DEF Taken, IInv, TypeOK
<1>3. ups = 0
  <2>1. ~NoEstablish(tasks)
    BY <1>2, Dequeued
  <2> QED BY <2>1 DEF IInv, Fresh, TypeOK
<1>4. /\ state = "kConnecting" /\ NoEstablish(Tail(tasks))
      /\ \A th \in Threads : call[th] = <<"idle">>
  BY <1>3 DEF IInv, Fresh
<1>5. tasks' \in Seq(Tasks) /\ (NoShutdown(tasks) => NoShutdown(tasks'))
  BY <1>1, <1>2, Dequeued
<1>6. /\ channel' \in Channels /\ PollerConsistent'
      /\ isWriting(channel') <=> isWriting(channel)
  BY <1>1, EnableReading DEF IInv, TypeOK, PollerConsistent, isWriting, Reading, Writing
<1>7. TypeOK'
  BY <1>1, <1>3, <1>5, <1>6 DEF IInv, TypeOK, States, serverVars, kernelVars
<1>8. Fresh'
  BY <1>1, <1>3, <1>4 DEF Fresh
<1>9. Quiet'
  BY <1>1, <1>4, <1>5 DEF IInv, Quiet
<1>10. Asks' /\ StreamIntact' /\ NoWriteAfterFin'
  BY <1>1, <1>6 DEF IInv, Asks, StreamIntact, NoWriteAfterFin
<1> QED BY <1>6, <1>7, <1>8, <1>9, <1>10 DEF IInv

LEMMA connectDestroyedKeeps == IInv /\ connectDestroyed => IInv'
<1> SUFFICES ASSUME IInv, connectDestroyed PROVE IInv'
  OBVIOUS
<1>1. /\ Taken(<<"destroy">>) /\ tasks' = Tail(tasks)
      /\ \/ pc' = "destroying" /\ UNCHANGED <<channel, destroyed>>
         \/ channel' = removeChannel(channel) /\ destroyed' = TRUE /\ UNCHANGED pc
      /\ UNCHANGED <<state, out, revents, call, server, closing, kernelVars, finSent, history>>
  BY DEF connectDestroyed
<1>2. TypeOK /\ Fresh /\ <<"destroy">> # <<"establish">>
  BY Kinds DEF IInv
<1>3. /\ ups = 1 /\ tasks' \in Seq(Tasks) /\ NoEstablish(tasks')
      /\ NoShutdown(tasks) => NoShutdown(tasks')
  BY <1>1, <1>2, FunctorRuns
<1>4. /\ channel' \in Channels /\ PollerConsistent'
      /\ isWriting(channel') <=> isWriting(channel)
  BY <1>1, RemoveChannel DEF IInv, TypeOK, PollerConsistent, isWriting
<1>5. pc' \in {"idle", "user", "destroying"} /\ destroyed' \in BOOLEAN
  BY <1>1, <1>2 DEF TypeOK
<1>6. TypeOK'
  BY <1>1, <1>2, <1>3, <1>4, <1>5 DEF TypeOK, kernelVars, history
<1>7. Fresh'
  BY <1>1, <1>2, <1>3 DEF Fresh, history
<1>8. Quiet' /\ Asks' /\ StreamIntact' /\ NoWriteAfterFin'
  BY <1>1, <1>3, <1>4 DEF IInv, Quiet, Asks, StreamIntact, NoWriteAfterFin, history
<1> QED BY <1>4, <1>6, <1>7, <1>8 DEF IInv

LEMMA connectDestroyedDownKeeps == IInv /\ connectDestroyedDown => IInv'
<1> SUFFICES ASSUME IInv, connectDestroyedDown PROVE IInv'
  OBVIOUS
<1>1. /\ pc = "destroying" /\ pc' = "idle" /\ state' = "kDisconnected"
      /\ channel' = removeChannel(disableAll(channel))
      /\ downs' = downs + 1 /\ destroyed' = TRUE
      /\ UNCHANGED <<out, tasks, revents, call, server, closing, kernelVars, finSent, wire,
                     accepted, sent, promised, overtaken, brokenWrite, ups>>
  BY DEF connectDestroyedDown
<1>2. ups = 1
  BY <1>1 DEF IInv, Fresh, TypeOK
<1>3. channel' \in Channels /\ PollerConsistent'
  BY <1>1, DisableAll, RemoveChannel DEF IInv, TypeOK, PollerConsistent
<1>4. TypeOK'
  BY <1>1, <1>3 DEF IInv, TypeOK, States, kernelVars
<1>5. Fresh'
  BY <1>1, <1>2 DEF IInv, Fresh
<1>6. Quiet' /\ StreamIntact' /\ NoWriteAfterFin'
  BY <1>1 DEF IInv, Quiet, StreamIntact, NoWriteAfterFin
<1>7. Asks'
  BY <1>1 DEF IInv, TypeOK, Asks
<1> QED BY <1>3, <1>4, <1>5, <1>6, <1>7 DEF IInv

-----------------------------------------------------------------------------
(* The events. *)
LEMMA PollKeeps == IInv /\ Poll => IInv'
<1> SUFFICES ASSUME IInv, Poll PROVE IInv'
  OBVIOUS
<1>1. /\ channel.registered /\ revents' = ReadyEvents
      /\ UNCHANGED <<state, channel, out, pc, tasks, call, serverVars, kernelVars,
                     finSent, history>>
  BY DEF Poll
<1>2. ups = 1
  BY <1>1, FreshChannel DEF IInv, Fresh, TypeOK
<1>3. revents' \subseteq {"IN", "OUT", "HUP", "ERR"}
  BY <1>1 DEF ReadyEvents
<1>4. TypeOK'
  BY <1>1, <1>3 DEF IInv, TypeOK, serverVars, kernelVars, history
<1>5. Fresh' /\ Quiet' /\ Asks'
  BY <1>1, <1>2 DEF IInv, Fresh, Quiet, Asks, history
<1>6. StreamIntact' /\ PollerConsistent' /\ NoWriteAfterFin'
  BY <1>1 DEF IInv, StreamIntact, PollerConsistent, NoWriteAfterFin, history
<1> QED BY <1>4, <1>5, <1>6 DEF IInv

(* A handler that leaves the sequences alone and closes, or does not. *)
LEMMA MayCloseKeeps ==
    ASSUME IInv, revents # {},
           handleClose \/ UNCHANGED <<state, channel, downs, closing>>,
           revents' \subseteq revents, pc' \in {"idle", "user"}, soError' \in BOOLEAN,
           inbox' \in Nat, inbox' <= inbox,
           UNCHANGED <<out, tasks, call, server, destroyed, peer, input, room, finSent,
                       wire, accepted, sent, promised, overtaken, brokenWrite, ups>>
    PROVE  IInv'
<1>1. ups = 1 /\ downs \in Nat /\ closing \in Nat
  <2>1. ups # 0
    BY DEF IInv, Fresh
  <2>2. ups \in 0 .. 1 /\ downs \in Nat /\ closing \in Nat
    BY DEF IInv, TypeOK
  <2> QED BY <2>1, <2>2
<1>2. revents' \subseteq {"IN", "OUT", "HUP", "ERR"}
  BY DEF IInv, TypeOK
<1>3. inbox' + input' <= MaxInput
  <2>1. inbox \in Nat /\ input \in Nat /\ inbox + input <= MaxInput
    BY DEF IInv, TypeOK
  <2>2. inbox' \in Nat /\ inbox' <= inbox /\ input' = input /\ MaxInput \in Nat
    BY SizeAssumption
  <2>3. \A a, b, c, d \in Nat : a + b <= d /\ c <= a => c + b <= d
    OBVIOUS
  <2> QED BY <2>1, <2>2, <2>3
<1>4. CASE handleClose
  <2>1. state' = "kDisconnected" /\ channel' = disableAll(channel)
        /\ downs' = downs + 1 /\ closing' \in Nat
    BY <1>1, <1>4 DEF handleClose
  <2>2. channel' \in Channels /\ PollerConsistent'
    BY <2>1, DisableAll DEF IInv, TypeOK, PollerConsistent
  <2>3. TypeOK'
    BY <1>1, <1>2, <1>3, <2>1, <2>2 DEF IInv, TypeOK, States
  <2>4. Fresh'
    BY <1>1, <2>1 DEF IInv, Fresh
  <2>5. Quiet' /\ StreamIntact' /\ NoWriteAfterFin'
    BY <2>1 DEF Quiet, StreamIntact, NoWriteAfterFin, IInv
  <2>6. Asks'
    BY <1>1, <2>1 DEF Asks
  <2> QED BY <2>2, <2>3, <2>4, <2>5, <2>6 DEF IInv
<1>5. CASE UNCHANGED <<state, channel, downs, closing>>
  <2>1. TypeOK'
    BY <1>5, <1>2, <1>3 DEF IInv, TypeOK
  <2>2. Fresh' /\ Quiet' /\ Asks'
    BY <1>1, <1>5 DEF IInv, Fresh, Quiet, Asks
  <2>3. StreamIntact' /\ PollerConsistent' /\ NoWriteAfterFin'
    BY <1>5 DEF IInv, StreamIntact, PollerConsistent, NoWriteAfterFin
  <2> QED BY <2>1, <2>2, <2>3 DEF IInv
<1> QED BY <1>4, <1>5

LEMMA HangUpKeeps == IInv /\ HangUp => IInv'
<1> SUFFICES ASSUME IInv, HangUp PROVE IInv'
  OBVIOUS
<1>1. /\ revents # {} /\ revents' \subseteq revents /\ pc' \in {"idle", "user"}
      /\ handleClose \/ UNCHANGED <<state, channel, downs, closing>>
      /\ UNCHANGED <<out, tasks, call, server, destroyed, peer, input, inbox, soError, room,
                     finSent, wire, accepted, sent, promised, overtaken, brokenWrite, ups>>
  BY DEF HangUp, kernelVars
<1>2. inbox' \in Nat /\ inbox' <= inbox /\ soError' \in BOOLEAN
  BY <1>1 DEF IInv, TypeOK
<1> QED BY <1>1, <1>2, MayCloseKeeps

LEMMA handleErrorKeeps == IInv /\ handleError => IInv'
<1> SUFFICES ASSUME IInv, handleError PROVE IInv'
  OBVIOUS
<1>1. /\ revents # {} /\ revents' \subseteq revents /\ pc' \in {"idle", "user"}
      /\ soError' = FALSE
      /\ UNCHANGED <<state, channel, downs, closing>>
      /\ UNCHANGED <<out, tasks, call, server, destroyed, peer, input, inbox, room,
                     finSent, wire, accepted, sent, promised, overtaken, brokenWrite, ups>>
  BY DEF handleError, serverVars, history
<1>2. inbox' \in Nat /\ inbox' <= inbox
  BY <1>1 DEF IInv, TypeOK
<1> QED BY <1>1, <1>2, MayCloseKeeps

LEMMA handleReadKeeps == IInv /\ handleRead => IInv'
<1> SUFFICES ASSUME IInv, handleRead PROVE IInv'
  OBVIOUS
<1>1. inbox \in Nat /\ soError \in BOOLEAN
  BY DEF IInv, TypeOK
<1>2. /\ revents # {} /\ revents' \subseteq revents
      /\ UNCHANGED <<out, tasks, call, server, destroyed, peer, input, room, finSent, wire,
                     accepted, sent, promised, overtaken, brokenWrite, ups>>
  BY DEF handleRead
<1>3. pc' \in {"idle", "user"} /\ inbox' \in {0, inbox} /\ soError' \in {FALSE, soError}
  BY DEF handleRead
<1>5. inbox' \in Nat /\ inbox' <= inbox
  BY <1>1, <1>3
<1>6. soError' \in BOOLEAN
  BY <1>1, <1>3
<1>4. handleClose \/ UNCHANGED <<state, channel, downs, closing>>
  BY DEF handleRead
<1> QED BY <1>2, <1>3, <1>4, <1>5, <1>6, MayCloseKeeps

LEMMA handleWriteKeeps == IInv /\ handleWrite => IInv'
<1> SUFFICES ASSUME IInv, handleWrite PROVE IInv'
  OBVIOUS
<1> DEFINE n == Least(room, Len(out))
           front == SubSeq(out, 1, n)
           rest == SubSeq(out, n + 1, Len(out))
<1>1. /\ revents = {"OUT"} /\ revents' = {}
      /\ UNCHANGED <<state, pc, call, serverVars, peer, inbox, input, accepted,
                     sent, promised, ups, downs>>
  BY DEF handleWrite
<1>2. ups = 1 /\ TypeOK /\ NoEstablish(tasks)
  BY <1>1 DEF IInv, Fresh, TypeOK
<1>3. NoWriteAfterFin'
  <2>1. brokenWrite' = (brokenWrite \/ (isWriting(channel) /\ finSent /\ downs = 0))
    BY DEF handleWrite
  <2>2. ~brokenWrite /\ (downs = 0 /\ finSent => ~isWriting(channel))
    BY DEF IInv, NoWriteAfterFin, Asks
  <2> QED BY <2>1, <2>2 DEF NoWriteAfterFin
<1>4. overtaken' \subseteq Messages
  BY <1>2 DEF handleWrite, Overtake, Waiting, TypeOK
<1>5. CASE isWriting(channel) /\ ~Broken /\ room > 0 /\ out # <<>>
  <2>1. /\ room' = room - n /\ wire' = wire \o front /\ out' = rest
        /\ IF out' = <<>> THEN AllWritten ELSE PartWritten
        /\ UNCHANGED soError
    BY <1>5 DEF handleWrite
  <2>2. /\ out \in Seq(Messages) /\ wire \in Seq(Messages) /\ Len(out) \in Nat
        /\ n \in 0 .. Len(out) /\ room - n \in 0 .. SendBuffer
    BY <1>2, SizeAssumption DEF TypeOK, Least
  <2> HIDE DEF n
  <2>3. front \in Seq(Messages) /\ rest \in Seq(Messages) /\ front \o rest = out
    BY <2>2, CutInTwo
  <2> HIDE DEF front, rest
  <2>4. StreamIntact'
    <3>1. wire \in Seq(Messages) /\ front \in Seq(Messages) /\ rest \in Seq(Messages)
      BY <2>2, <2>3
    <3>2. (wire \o front) \o rest = wire \o (front \o rest)
      BY <3>1, ConcatAssociative
    <3> QED BY <1>1, <2>1, <2>3, <3>2 DEF IInv, StreamIntact
  <2>5. wire' \in Seq(Messages) /\ out' \in Seq(Messages)
    BY <2>1, <2>2, <2>3, ConcatProperties
  <2>6. <<"callback">> \in Tasks /\ <<"callback">> # <<"establish">>
        /\ <<"callback">> \notin {"shutdown"} \X AllThreads
    BY Kinds
  <2>7. tasks \in Seq(Tasks)
    BY <1>2 DEF TypeOK
  <2>8. /\ tasks' \in Seq(Tasks) /\ NoEstablish(tasks')
        /\ NoShutdown(tasks) => NoShutdown(tasks')
    BY <1>2, <2>1, <2>6, <2>7, Queued DEF AllWritten, PartWritten
  <2>9. /\ channel \in Channels /\ Consistent(channel)
        /\ disableWriting(channel) \in Channels /\ Consistent(disableWriting(channel))
        /\ ~isWriting(disableWriting(channel))
    BY DisableWriting DEF IInv, TypeOK, PollerConsistent, isWriting
  <2>10. channel' \in Channels /\ PollerConsistent'
    BY <2>1, <2>9 DEF PollerConsistent, AllWritten, PartWritten
  <2>11. /\ finSent' \in BOOLEAN
         /\ state \in {"kConnecting", "kConnected"} => finSent' = finSent
    BY <1>2, <2>1 DEF AllWritten, PartWritten, TypeOK
  <2>12. brokenWrite' \in BOOLEAN /\ revents' \subseteq {"IN", "OUT", "HUP", "ERR"}
    BY <1>1, <1>3 DEF NoWriteAfterFin, handleWrite
  <2>13. TypeOK'
    BY <1>1, <1>2, <1>4, <2>1, <2>2, <2>5, <2>8, <2>10, <2>11, <2>12 DEF TypeOK, serverVars
  <2>14. Fresh'
    BY <1>1, <1>2, <2>8 DEF IInv, Fresh
  <2>15. Quiet'
    BY <1>1, <2>8, <2>11 DEF IInv, Quiet
  <2>16. Asks'
    <3>1. CASE out' = <<>>
      BY <2>1, <2>9, <3>1 DEF AllWritten, Asks
    <3>2. CASE out' # <<>>
      BY <1>5, <2>1, <3>2 DEF PartWritten, Asks, Broken
    <3> QED BY <3>1, <3>2
  <2> QED BY <1>3, <2>4, <2>10, <2>13, <2>14, <2>15, <2>16 DEF IInv
<1>6. CASE ~(isWriting(channel) /\ ~Broken /\ room > 0 /\ out # <<>>)
  <2>1. /\ soError' = (soError /\ ~(isWriting(channel) /\ Broken))
        /\ UNCHANGED <<channel, out, tasks, room, wire, finSent>>
    BY <1>6 DEF handleWrite
  <2>2. soError' \in BOOLEAN /\ brokenWrite' \in BOOLEAN
        /\ revents' \subseteq {"IN", "OUT", "HUP", "ERR"}
    BY <1>1, <2>1, <1>3 DEF handleWrite
  <2>3. TypeOK'
    BY <1>1, <1>2, <1>4, <2>1, <2>2 DEF TypeOK, serverVars
  <2>4. Fresh' /\ Quiet' /\ Asks'
    BY <1>1, <1>2, <2>1 DEF IInv, Fresh, Quiet, Asks
  <2>5. StreamIntact' /\ PollerConsistent'
    BY <1>1, <2>1 DEF IInv, StreamIntact, PollerConsistent
  <2> QED BY <1>3, <2>3, <2>4, <2>5 DEF IInv
<1> QED BY <1>5, <1>6

LEMMA StutterKeeps == IInv /\ UNCHANGED vars => IInv'
<1> SUFFICES ASSUME IInv, UNCHANGED vars PROVE IInv'
  OBVIOUS
<1>1. TypeOK'
  BY DEF IInv, TypeOK, vars, loopVars, serverVars, kernelVars, history
<1>2. Fresh' /\ Quiet' /\ Asks'
  BY DEF IInv, Fresh, Quiet, Asks, vars, loopVars, serverVars, history
<1>3. StreamIntact' /\ PollerConsistent' /\ NoWriteAfterFin'
  BY DEF IInv, StreamIntact, PollerConsistent, NoWriteAfterFin, vars, loopVars, history
<1> QED BY <1>1, <1>2, <1>3 DEF IInv

LEMMA StepKeeps == IInv /\ [Next]_vars => IInv'
<1> SUFFICES ASSUME IInv, [Next]_vars PROVE IInv'
  OBVIOUS
<1>1. CASE UserStep
  BY <1>1, LoopSendKeeps, LoopShutdownKeeps, UserReturnsKeeps, SendTestKeeps,
     SendQueueKeeps, ShutdownTestKeeps, ShutdownSetKeeps, ShutdownQueueKeeps DEF UserStep
<1>2. CASE Functor
  BY <1>2, RunSendKeeps, RunShutdownKeeps, RunCallbackKeeps, connectEstablishedKeeps,
     connectDestroyedKeeps, connectDestroyedDownKeeps DEF Functor
<1>3. CASE Poll \/ HandleEvent
  BY <1>3, PollKeeps, HangUpKeeps, handleErrorKeeps, handleReadKeeps, handleWriteKeeps
     DEF HandleEvent
<1>4. CASE Environment
  BY <1>4, PeerKeeps, ServerKeeps DEF Environment
<1>5. CASE UNCHANGED vars
  BY <1>5, StutterKeeps
<1> QED BY <1>1, <1>2, <1>3, <1>4, <1>5 DEF Next

(* The inductive invariant, whoever sends and whoever shuts down.          *)
THEOREM Inductive == Spec => []IInv
BY Initially, StepKeeps, PTL DEF Spec

(* The types; in particular connectionCallback says UP at most once.       *)
THEOREM TypeCorrect == Spec => []TypeOK
<1>1. IInv => TypeOK
  BY DEF IInv
<1> QED BY <1>1, Inductive, PTL

(* What sendInLoop took on is what was written and what still waits in the *)
(* output buffer, in that order, however the socket cuts the writes.       *)
THEOREM StreamIsIntact == Spec => []StreamIntact
<1>1. IInv => StreamIntact
  BY DEF IInv
<1> QED BY <1>1, Inductive, PTL

(* No epoll_ctl fails and the poller's books agree with the kernel, also   *)
(* when shutdown() in other threads overwrites _state.                     *)
THEOREM PollerIsConsistent == Spec => []PollerConsistent
<1>1. IInv => PollerConsistent
  BY DEF IInv
<1> QED BY <1>1, Inductive, PTL

(* The loop thread writes nothing of its own after the FIN: send() in the  *)
(* loop tests _state, and handleWrite finds nothing left to write.         *)
THEOREM SilentAfterFin == Spec => []NoWriteAfterFin
<1>1. IInv => NoWriteAfterFin
  BY DEF IInv
<1> QED BY <1>1, Inductive, PTL

-----------------------------------------------------------------------------
(* When only the loop shuts down, _state is the loop's own, and says what  *)
(* has become of the connection.                                           *)
LoopCloses == \A th \in Threads : call[th] \notin {<<"set">>, <<"queue">>}

(* DOWN was reported exactly when the state says so. *)
Ended ==
    /\ downs <= ups
    /\ downs > 0 <=> state = "kDisconnected"
    /\ downs > 0 => /\ channel.events = {} /\ ~channel.registered
                    /\ revents \cap {"IN", "HUP"} = {}

(* Before that the channel reads, and a shutdown that waits has something  *)
(* to wait for.                                                            *)
Live ==
    /\ ups = 1 /\ downs = 0 => Reading \in channel.events
                               /\ (~destroyed => channel.registered)
    /\ state = "kDisconnecting" => isWriting(channel) \/ finSent
    /\ pc = "destroying" => revents = {} /\ state = "kConnected"

Gone ==
    destroyed => /\ revents = {} /\ state \in {"kDisconnecting", "kDisconnected"}
                 /\ ~channel.registered /\ ~channel.mapped

DInv == LoopCloses /\ Ended /\ Live /\ Gone

LEMMA DownInitially == Init => DInv
BY FreshChannel DEF Init, DInv, LoopCloses, Ended, Live, Gone

(* A step that leaves the channel and the state alone. *)
LEMMA ElsewhereKeeps ==
    ASSUME IInv, DInv, LoopCloses',
           UNCHANGED <<state, channel, destroyed, ups, downs>>,
           finSent => finSent', revents' \subseteq revents,
           pc' = pc \/ pc' # "destroying"
    PROVE  DInv'
<1>1. Ended'
  BY DEF DInv, Ended
<1>2. Live'
  BY DEF DInv, Live
<1>3. Gone'
  BY DEF DInv, Gone
<1> QED BY <1>1, <1>2, <1>3 DEF DInv

LEMMA SendInLoopKeepsDown ==
    ASSUME IInv, DInv, NEW m \in Messages, NEW queue \in Seq(Tasks), sendInLoop(m, queue),
           UNCHANGED <<state, pc, revents, call, destroyed, finSent, ups, downs>>
    PROVE  DInv'
<1>1. LoopCloses'
  BY DEF DInv, LoopCloses
<1>2. TypeOK /\ Asks /\ StreamIntact /\ PollerConsistent
  BY DEF IInv
<1>3. /\ downs = 0 /\ (isWriting(channel) \/ finSent) => channel' = channel
      /\ channel' # channel => channel' = enableWriting(channel) /\ state # "kDisconnected"
  BY <1>2, SendInLoop
<1>4. CASE channel' = channel
  BY <1>1, <1>4, ElsewhereKeeps
<1>5. CASE channel' # channel
  <2>1. /\ channel'.events = channel.events \cup {Writing} /\ channel'.registered
        /\ state # "kDisconnected"
    BY <1>2, <1>3, <1>5, EnableWriting DEF TypeOK, PollerConsistent
  <2>2. downs = 0
    <3>1. downs \in Nat
      BY <1>2 DEF TypeOK
    <3> QED BY <2>1, <3>1 DEF DInv, Ended
  <2>3. state # "kDisconnecting"
    BY <1>3, <1>5, <2>2 DEF DInv, Live
  <2>4. ~destroyed
    BY <2>1, <2>3 DEF DInv, Gone
  <2>5. Ended'
    BY <2>2 DEF DInv, Ended
  <2>6. Live'
    BY <2>1, <2>3 DEF DInv, Live
  <2>7. Gone'
    BY <2>4 DEF Gone
  <2> QED BY <1>1, <2>5, <2>6, <2>7 DEF DInv
<1> QED BY <1>4, <1>5

LEMMA UserStepKeepsDown ==
    ASSUME Closers \subseteq {LoopThread}, IInv, DInv, UserStep
    PROVE  DInv'
<1>1. ASSUME NEW m \in Messages, LoopSend(m) PROVE DInv'
  <2>1. /\ sendInLoop(m, tasks) /\ tasks \in Seq(Tasks)
        /\ UNCHANGED <<state, pc, revents, call, destroyed, finSent, ups, downs>>
    BY <1>1 DEF LoopSend, serverVars, IInv, TypeOK
  <2> QED BY <2>1, SendInLoopKeepsDown
<1>2. ASSUME LoopShutdown PROVE DInv'
  <2>1. /\ pc = "user" /\ state = "kConnected" /\ state' = "kDisconnecting"
        /\ finSent' = (finSent \/ ~isWriting(channel))
        /\ UNCHANGED <<loopVars, call, destroyed, ups, downs>>
    BY <1>2 DEF LoopShutdown, InUser, shutdownInLoop, serverVars
  <2>2. downs \in Nat
    BY DEF IInv, TypeOK
  <2>3. LoopCloses'
    BY <2>1 DEF DInv, LoopCloses
  <2>4. Ended'
    BY <2>1, <2>2 DEF DInv, Ended, loopVars
  <2>5. Live'
    BY <2>1 DEF DInv, Live, loopVars
  <2>6. Gone'
    BY <2>1 DEF DInv, Gone, loopVars
  <2> QED BY <2>3, <2>4, <2>5, <2>6 DEF DInv
<1>3. ASSUME UserReturns PROVE DInv'
  <2>1. /\ UNCHANGED <<state, channel, destroyed, ups, downs, call, finSent, revents>>
        /\ pc' # "destroying"
    BY <1>3 DEF UserReturns, serverVars, history
  <2>2. LoopCloses'
    BY <2>1 DEF DInv, LoopCloses
  <2> QED BY <2>1, <2>2, ElsewhereKeeps
<1>4. ASSUME NEW th \in Threads, NEW m \in Messages, SendTest(th, m) \/ SendQueue(th, m)
      PROVE  DInv'
  <2>1. /\ UNCHANGED <<state, channel, destroyed, ups, downs, finSent, revents, pc>>
        /\ \/ call' = [call EXCEPT ![th] = <<"send", m>>]
           \/ call' = [call EXCEPT ![th] = <<"idle">>]
    BY <1>4 DEF SendTest, SendQueue, threadRest, loopVars, serverVars
  <2>2. \A u \in Threads : call'[u] \in {call[u], <<"send", m>>, <<"idle">>}
    BY <2>1 DEF IInv, TypeOK
  <2>3. /\ <<"send", m>> \notin {<<"set">>, <<"queue">>}
        /\ <<"idle">> \notin {<<"set">>, <<"queue">>}
    OBVIOUS
  <2>4. LoopCloses'
    BY <2>2, <2>3 DEF DInv, LoopCloses
  <2> QED BY <2>1, <2>4, ElsewhereKeeps
<1>5. ASSUME NEW th \in Threads, ShutdownTest(th) \/ ShutdownSet(th) \/ ShutdownQueue(th)
      PROVE  FALSE
  BY <1>5 DEF ShutdownTest, ShutdownSet, ShutdownQueue, DInv, LoopCloses
<1> QED BY <1>1, <1>2, <1>3, <1>4, <1>5 DEF UserStep

LEMMA FunctorKeepsDown ==
    ASSUME IInv, DInv, Functor
    PROVE  DInv'
<1>1. downs \in Nat /\ ups \in 0 .. 1 /\ state \in States
  BY DEF IInv, TypeOK
<1>2. channel \in Channels /\ Consistent(channel)
  BY DEF IInv, TypeOK, PollerConsistent
<1>3. call' = call => LoopCloses'
  BY DEF DInv, LoopCloses
<1>4. ASSUME NEW m \in Messages, RunSend(m) PROVE DInv'
  <2>1. /\ sendInLoop(m, Tail(tasks))
        /\ UNCHANGED <<state, pc, revents, call, destroyed, finSent, ups, downs>>
    BY <1>4 DEF RunSend, serverVars
  <2>2. tasks # <<>> /\ tasks \in Seq(Tasks)
    BY <1>4 DEF RunSend, Taken, IInv, TypeOK
  <2>3. Tail(tasks) \in Seq(Tasks)
    BY <2>2, Dequeued
  <2> QED BY <2>1, <2>3, SendInLoopKeepsDown
<1>5. ASSUME NEW th \in AllThreads, RunShutdown(th) PROVE DInv'
  <2>1. /\ UNCHANGED <<state, channel, destroyed, ups, downs, call, revents, pc>>
        /\ finSent => finSent'
    BY <1>5 DEF RunShutdown, shutdownInLoop, loopVars, serverVars, history
  <2> QED BY <1>3, <2>1, ElsewhereKeeps
<1>6. ASSUME RunCallback PROVE DInv'
  <2>1. /\ UNCHANGED <<state, channel, destroyed, ups, downs, call, finSent, revents>>
        /\ pc' # "destroying"
    BY <1>6 DEF RunCallback, serverVars, history
  <2> QED BY <1>3, <2>1, ElsewhereKeeps
<1>7. ASSUME connectEstablished PROVE DInv'
  <2>1. /\ tasks # <<>> /\ Head(tasks) = <<"establish">>
        /\ state' = "kConnected" /\ channel' = enableReading(channel)
        /\ ups' = ups + 1 /\ pc' = "user" /\ revents = {}
        /\ UNCHANGED <<revents, call, destroyed, finSent, downs>>
    BY <1>7 DEF connectEstablished, Taken, serverVars
  <2>2. ups = 0 /\ downs = 0 /\ ~destroyed
    <3>1. ~NoEstablish(tasks)
      BY <2>1, Dequeued DEF IInv, TypeOK
    <3>2. ups = 0
      BY <1>1, <3>1 DEF IInv, Fresh
    <3> QED BY <1>1, <3>2 DEF IInv, Fresh, DInv, Ended
  <2>3. /\ channel'.events = channel.events \cup {Reading} /\ channel'.registered
    BY <1>2, <2>1, EnableReading
  <2>4. Ended'
    BY <2>1, <2>2 DEF Ended
  <2>5. Live'
    BY <2>1, <2>3 DEF Live
  <2>6. Gone'
    BY <2>1, <2>2 DEF Gone
  <2> QED BY <1>3, <2>1, <2>4, <2>5, <2>6 DEF DInv
<1>8. ASSUME connectDestroyed PROVE DInv'
  <2>1. /\ Taken(<<"destroy">>) /\ revents = {} /\ pc = "idle"
        /\ UNCHANGED <<state, revents, call, finSent, ups, downs>>
    BY <1>8 DEF connectDestroyed, Taken, history
  <2>2. CASE state = "kConnected"
    <3>1. UNCHANGED <<channel, destroyed>>
      BY <1>8, <2>2 DEF connectDestroyed
    <3>2. Ended' /\ Live' /\ Gone'
      BY <2>1, <2>2, <3>1 DEF DInv, Ended, Live, Gone
    <3> QED BY <1>3, <2>1, <3>2 DEF DInv
  <2>3. CASE state # "kConnected"
    <3>1. channel' = removeChannel(channel) /\ destroyed' = TRUE /\ pc' = pc
      BY <1>8, <2>3 DEF connectDestroyed
    <3>2. /\ channel'.events = channel.events
          /\ ~channel'.registered /\ ~channel'.mapped
      BY <1>2, <3>1, RemoveChannel
    <3>3. state \in {"kDisconnecting", "kDisconnected"}
      <4>1. TypeOK /\ Fresh /\ <<"destroy">> # <<"establish">>
        BY Kinds DEF IInv
      <4>2. ups = 1
        BY <2>1, <4>1, FunctorRuns
      <4> QED BY <1>1, <2>3, <4>2 DEF IInv, Fresh, States
    <3>4. Ended'
      BY <2>1, <3>2 DEF DInv, Ended
    <3>5. Live'
      BY <2>1, <3>1, <3>2 DEF DInv, Live, isWriting
    <3>6. Gone'
      BY <2>1, <3>2, <3>3 DEF Gone
    <3> QED BY <1>3, <2>1, <3>4, <3>5, <3>6 DEF DInv
  <2> QED BY <2>2, <2>3
<1>9. ASSUME connectDestroyedDown PROVE DInv'
  <2>1. /\ pc = "destroying" /\ pc' = "idle" /\ state' = "kDisconnected"
        /\ channel' = removeChannel(disableAll(channel))
        /\ downs' = downs + 1 /\ destroyed' = TRUE
        /\ UNCHANGED <<revents, call, finSent, ups>>
    BY <1>9 DEF connectDestroyedDown
  <2>2. revents = {} /\ state = "kConnected"
    BY <2>1 DEF DInv, Live
  <2>3. downs = 0 /\ ups = 1
    BY <1>1, <2>1, <2>2 DEF DInv, Ended, IInv, Fresh
  <2>4. channel'.events = {} /\ ~channel'.registered /\ ~channel'.mapped
    BY <1>2, <2>1, DisableAll, RemoveChannel
  <2>5. Ended' /\ Live' /\ Gone'
    BY <2>1, <2>2, <2>3, <2>4 DEF Ended, Live, Gone
  <2> QED BY <1>3, <2>1, <2>5 DEF DInv
<1> QED BY <1>4, <1>5, <1>6, <1>7, <1>8, <1>9 DEF Functor

(* handleClose runs once, on a channel that is registered. *)
LEMMA handleCloseKeepsDown ==
    ASSUME IInv, DInv, handleClose, revents \cap {"IN", "HUP"} # {},
           revents' \cap {"IN", "HUP"} = {}, pc = "idle", pc' = "idle",
           UNCHANGED <<call, destroyed, ups>>
    PROVE  DInv'
<1>1. state' = "kDisconnected" /\ channel' = disableAll(channel) /\ downs' = downs + 1
  BY DEF handleClose
<1>2. downs = 0 /\ ups = 1 /\ ~destroyed
  <2>1. downs \in Nat /\ ups \in 0 .. 1
    BY DEF IInv, TypeOK
  <2> QED BY <2>1 DEF IInv, Fresh, DInv, Ended, Gone
<1>3. channel'.events = {} /\ ~channel'.registered
  <2>1. channel \in Channels /\ Consistent(channel)
    BY DEF IInv, TypeOK, PollerConsistent
  <2>2. channel.registered
    BY <1>2 DEF DInv, Live
  <2> QED BY <1>1, <2>1, <2>2, DisableAll
<1>4. Ended' /\ Live' /\ Gone' /\ LoopCloses'
  BY <1>1, <1>2, <1>3 DEF DInv, Ended, Live, Gone, LoopCloses
<1> QED BY <1>4 DEF DInv

LEMMA EventKeepsDown ==
    ASSUME IInv, DInv, Poll \/ HandleEvent
    PROVE  DInv'
<1>1. downs \in Nat /\ ups \in 0 .. 1
  BY DEF IInv, TypeOK
<1>2. channel \in Channels /\ Consistent(channel)
  BY DEF IInv, TypeOK, PollerConsistent
<1>3. call' = call => LoopCloses'
  BY DEF DInv, LoopCloses
<1>4. ASSUME Poll PROVE DInv'
  <2>1. /\ pc = "idle" /\ channel.registered
        /\ UNCHANGED <<state, channel, pc, call, destroyed, finSent, ups, downs>>
    BY <1>4 DEF Poll, serverVars, history
  <2>2. downs = 0 /\ ~destroyed
    BY <1>1, <2>1 DEF DInv, Ended, Gone
  <2>3. Ended' /\ Live' /\ Gone'
    BY <2>1, <2>2 DEF DInv, Ended, Live, Gone
  <2> QED BY <1>3, <2>1, <2>3 DEF DInv
<1>5. ASSUME HangUp PROVE DInv'
  <2>1. /\ pc = "idle" /\ "HUP" \in revents /\ revents' = revents \ {"HUP"}
        /\ UNCHANGED <<pc, call, destroyed, finSent, ups>>
        /\ \/ "IN" \notin revents /\ handleClose
           \/ UNCHANGED <<state, channel, downs>>
    BY <1>5 DEF HangUp
  <2>2. CASE "IN" \notin revents /\ handleClose
    <3>1. revents \cap {"IN", "HUP"} # {} /\ revents' \cap {"IN", "HUP"} = {}
      BY <2>1, <2>2
    <3> QED BY <2>1, <2>2, <3>1, handleCloseKeepsDown
  <2>3. CASE UNCHANGED <<state, channel, downs>>
    BY <1>3, <2>1, <2>3, ElsewhereKeeps
  <2> QED BY <2>1, <2>2, <2>3
<1>6. ASSUME handleError PROVE DInv'
  <2>1. /\ UNCHANGED <<state, channel, pc, call, destroyed, finSent, ups, downs>>
        /\ revents' \subseteq revents
    BY <1>6 DEF handleError, serverVars, history
  <2> QED BY <1>3, <2>1, ElsewhereKeeps
<1>7. ASSUME handleRead PROVE DInv'
  <2>1. /\ pc = "idle" /\ "HUP" \notin revents /\ "IN" \in revents
        /\ revents' = revents \ {"IN"}
        /\ UNCHANGED <<call, destroyed, finSent, ups>>
        /\ \/ handleClose /\ UNCHANGED pc
           \/ UNCHANGED <<state, channel, downs>> /\ pc' \in {"idle", "user"}
    BY <1>7 DEF handleRead
  <2>2. CASE handleClose /\ UNCHANGED pc
    <3>1. revents \cap {"IN", "HUP"} # {} /\ revents' \cap {"IN", "HUP"} = {}
      BY <2>1
    <3> QED BY <2>1, <2>2, <3>1, handleCloseKeepsDown
  <2>3. CASE UNCHANGED <<state, channel, downs>> /\ pc' \in {"idle", "user"}
    BY <1>3, <2>1, <2>3, ElsewhereKeeps
  <2> QED BY <2>1, <2>2, <2>3
<1>8. ASSUME handleWrite PROVE DInv'
  <2>1. /\ pc = "idle" /\ revents = {"OUT"} /\ revents' = {}
        /\ UNCHANGED <<state, pc, call, destroyed, ups, downs>>
        /\ \/ isWriting(channel) /\ (AllWritten \/ PartWritten)
           \/ UNCHANGED <<channel, finSent>>
    BY <1>8 DEF handleWrite, serverVars
  <2>2. CASE isWriting(channel) /\ AllWritten
    <3>1. /\ channel' = disableWriting(channel)
          /\ finSent' = (finSent \/ state = "kDisconnecting")
      BY <2>2 DEF AllWritten
    <3>2. downs = 0 /\ ups = 1 /\ ~destroyed
      BY <1>1, <2>1, <2>2 DEF IInv, Fresh, DInv, Ended, Gone, isWriting
    <3>3. Reading \in channel.events
      BY <3>2 DEF DInv, Live
    <3>4. channel'.events = channel.events \ {Writing} /\ channel'.registered
      BY <1>2, <3>1, <3>3, DisableWriting
    <3>5. Reading \in channel'.events
      BY <3>3, <3>4 DEF Reading, Writing
    <3>6. Ended' /\ Live' /\ Gone'
      BY <2>1, <3>1, <3>2, <3>4, <3>5 DEF DInv, Ended, Live, Gone
    <3> QED BY <1>3, <2>1, <3>6 DEF DInv
  <2>3. CASE (isWriting(channel) /\ PartWritten) \/ UNCHANGED <<channel, finSent>>
    <3>1. UNCHANGED <<channel, finSent>>
      BY <2>3 DEF PartWritten
    <3> QED BY <1>3, <2>1, <3>1, ElsewhereKeeps
  <2> QED BY <2>1, <2>2, <2>3
<1> QED BY <1>4, <1>5, <1>6, <1>7, <1>8 DEF HandleEvent

LEMMA OtherKeepsDown ==
    ASSUME IInv, DInv, Environment \/ UNCHANGED vars
    PROVE  DInv'
<1>1. UNCHANGED <<state, channel, destroyed, ups, downs, call, finSent, revents, pc>>
  BY DEF Environment, ServerRemoves, ServerDies, PeerSends, PeerReads, PeerShutsDown,
         PeerResets, envRest, vars, loopVars, serverVars, history
<1>2. LoopCloses'
  BY <1>1 DEF DInv, LoopCloses
<1> QED BY <1>1, <1>2, ElsewhereKeeps

(* When only the loop calls shutdown(), down is down: the user is told UP  *)
(* and DOWN once each, and a connection that is down or destroyed is out   *)
(* of the poller for good, whether the peer went, the server removed it or *)
(* died, or a shutdown was half done.                                      *)
THEOREM DownIsForGood ==
    ASSUME Closers \subseteq {LoopThread}
    PROVE  Spec => []DownForGood
<1>1. IInv /\ DInv /\ [Next]_vars => DInv'
  BY UserStepKeepsDown, FunctorKeepsDown, EventKeepsDown, OtherKeepsDown DEF Next
<1>2. IInv /\ DInv => DownForGood
  BY DEF IInv, TypeOK, DInv, Ended, Gone, DownForGood
<1> QED BY <1>1, <1>2, DownInitially, Inductive, PTL DEF Spec

(* And it writes nothing once DOWN was reported.                           *)
THEOREM DownIsSilent ==
    ASSUME Closers \subseteq {LoopThread}
    PROVE  Spec => SilentWhenDown
<1>1. IInv /\ DInv /\ [Next]_vars => DInv'
  BY UserStepKeepsDown, FunctorKeepsDown, EventKeepsDown, OtherKeepsDown DEF Next
<1>2. ASSUME DInv, [Next]_vars, downs > 0 PROVE wire' = wire
  <2>1. state = "kDisconnected" /\ ~isWriting(channel)
    BY <1>2 DEF DInv, Ended, isWriting
  <2>2. \A m, queue : sendInLoop(m, queue) => wire' = wire
    BY <2>1 DEF sendInLoop
  <2>3. CASE UserStep
    BY <2>2, <2>3 DEF UserStep, LoopSend, LoopShutdown, UserReturns, SendTest, SendQueue,
       ShutdownTest, ShutdownSet, ShutdownQueue, threadRest, history
  <2>4. CASE Functor
    BY <2>2, <2>4 DEF Functor, RunSend, RunShutdown, RunCallback, connectEstablished,
       connectDestroyed, connectDestroyedDown, history
  <2>5. CASE Poll \/ HandleEvent
    BY <2>1, <2>5 DEF Poll, HandleEvent, HangUp, handleError, handleRead, handleWrite, history
  <2>6. CASE Environment \/ UNCHANGED vars
    BY <2>6 DEF Environment, ServerRemoves, ServerDies, PeerSends, PeerReads, PeerShutsDown,
       PeerResets, envRest, vars, history
  <2> QED BY <1>2, <2>3, <2>4, <2>5, <2>6 DEF Next
<1>3. DInv /\ [Next]_vars => [downs > 0 => wire' = wire]_vars
  BY <1>2
<1> QED BY <1>1, <1>3, DownInitially, Inductive, PTL DEF Spec, SilentWhenDown

-----------------------------------------------------------------------------
(* A graceful shutdown, for any threads that send and shut down, any       *)
(* messages and any sizes: when the write side has been closed, what a     *)
(* thread sent before its own shutdown() has been written in full, unless  *)
(* the connection was lost or down, or the message was queued by another   *)
(* thread and overtaken by a handler or a shutdown() in the loop.          *)

(* The bytes of a message in a stream. *)
Count(s, m) == Cardinality({i \in DOMAIN s : s[i] = m})

(* The messages whose functor waits. *)
Waits(q) == {m \in Messages : \E i \in 1 .. Len(q) : q[i] = <<"send", m>>}

AllSent == UNION {sent[th] : th \in AllThreads}

(* The message was taken on in full, or the connection is lost or down. *)
Done(m) == Count(accepted, m) = MessageLen \/ peer = "rst" \/ downs > 0

(* A message waits once, and one that was promised before any shutdown.    *)
Orderly(q, firm) ==
    /\ \A i, j \in 1 .. Len(q) : \A m \in Messages :
         q[i] = <<"send", m>> /\ q[j] = <<"send", m>> => i = j
    /\ \A i, j \in 1 .. Len(q) : \A th \in AllThreads : \A m \in firm :
         q[i] = <<"shutdown", th>> /\ q[j] = <<"send", m>> => j < i

(* A message is sent by one thread, which called send() once. *)
SentOnce ==
    /\ \A t, u \in AllThreads : t # u => sent[t] \cap sent[u] = {}
    /\ \A th \in Threads, m \in Messages : call[th] = <<"send", m>> =>
         /\ m \notin AllSent
         /\ \A u \in Threads : call[u] = <<"send", m>> => u = th

(* The functors: only other threads queue a send.                          *)
Others == UNION {sent[th] : th \in Threads}

QueueInv == Orderly(tasks, promised) /\ Waits(tasks) \subseteq Others

(* The bytes: of a message that was not run yet none; until the FIN, of    *)
(* one that was run all; after it, of one that was promised all, or it was *)
(* overtaken.                                                              *)
BytesInv ==
    /\ \A m \in Messages : m \notin AllSent \/ m \in Waits(tasks) => Count(accepted, m) = 0
    /\ promised \subseteq AllSent /\ overtaken \subseteq Others
    /\ ~finSent => \A m \in AllSent \ Waits(tasks) : Done(m)
    /\ finSent => \A m \in promised : Done(m) \/ m \in overtaken
    /\ state = "kDisconnected" => downs > 0

SInv == SentOnce /\ QueueInv /\ BytesInv

-----------------------------------------------------------------------------
LEMMA CountConcat ==
    ASSUME NEW s \in Seq(Messages), NEW t \in Seq(Messages), NEW m
    PROVE  Count(s \o t, m) = Count(s, m) + Count(t, m)
           /\ Count(s, m) \in Nat /\ Count(t, m) \in Nat
<1> DEFINE S == {i \in 1 .. Len(s) : s[i] = m}
           T == {i \in 1 .. Len(t) : t[i] = m}
           U == {i \in 1 .. Len(s) + Len(t) : (s \o t)[i] = m}
           V == U \ S
           f == [i \in T |-> i + Len(s)]
<1>1. Len(s) \in Nat /\ Len(t) \in Nat /\ DOMAIN s = 1 .. Len(s) /\ DOMAIN t = 1 .. Len(t)
  BY LenProperties
<1>2. /\ DOMAIN (s \o t) = 1 .. Len(s) + Len(t)
      /\ \A i \in 1 .. Len(s) + Len(t) :
           (s \o t)[i] = IF i <= Len(s) THEN s[i] ELSE t[i - Len(s)]
  BY ConcatProperties, LenProperties
<1>3. IsFiniteSet(1 .. Len(s)) /\ IsFiniteSet(1 .. Len(t)) /\ IsFiniteSet(1 .. Len(s) + Len(t))
  BY <1>1, FS_Interval
<1>4. IsFiniteSet(S) /\ IsFiniteSet(T) /\ IsFiniteSet(U) /\ IsFiniteSet(V)
  BY <1>3, FS_Subset
<1>5. S \subseteq U /\ S \cup V = U /\ S \cap V = {}
  BY <1>1, <1>2
<1>6. Cardinality(V) = Cardinality(T)
  <2>1. f \in [T -> V]
    BY <1>1, <1>2
  <2>2. \A i, j \in T : f[i] = f[j] => i = j
    BY <1>1
  <2>3. \A j \in V : \E i \in T : f[i] = j
    <3>1. SUFFICES ASSUME NEW j \in V PROVE j - Len(s) \in T /\ f[j - Len(s)] = j
      BY <3>1
    <3>2. j \in 1 .. Len(s) + Len(t) /\ (s \o t)[j] = m /\ ~(j <= Len(s))
      BY <1>1, <1>2
    <3> QED BY <1>1, <1>2, <3>2
  <2> HIDE DEF T, V, f
  <2>4. f \in Bijection(T, V)
    BY <2>1, <2>2, <2>3, Fun_IsBij
  <2>5. ExistsBijection(T, V)
    BY <2>4 DEF ExistsBijection
  <2> QED BY <1>4, <2>5, FS_Bijection
<1>7. Cardinality(U) = Cardinality(S) + Cardinality(V)
  <2>1. Cardinality(S \cup V) = Cardinality(S) + Cardinality(V) - Cardinality(S \cap V)
    BY <1>4, FS_Union
  <2>2. Cardinality(S \cap V) = 0
    BY <1>5, FS_EmptySet
  <2>3. Cardinality(S) \in Nat /\ Cardinality(V) \in Nat
    BY <1>4, FS_CardinalityType
  <2> HIDE DEF S, V, U
  <2>4. Cardinality(S) + Cardinality(V) - 0 = Cardinality(S) + Cardinality(V)
    BY <2>3
  <2> QED BY <1>5, <2>1, <2>2, <2>4
<1>8. Cardinality(S) \in Nat /\ Cardinality(T) \in Nat
  BY <1>4, FS_CardinalityType
<1>9. Count(s, m) = Cardinality(S) /\ Count(t, m) = Cardinality(T)
      /\ Count(s \o t, m) = Cardinality(U)
  BY <1>1, <1>2 DEF Count
<1> HIDE DEF S, T, U, V
<1> QED BY <1>6, <1>7, <1>8, <1>9

LEMMA CountBytes ==
    ASSUME NEW a \in Messages, NEW m \in Messages
    PROVE  Count(Bytes(a), m) = IF a = m THEN MessageLen ELSE 0
<1>1. DOMAIN Bytes(a) = 1 .. MessageLen /\ \A i \in 1 .. MessageLen : Bytes(a)[i] = a
  BY DEF Bytes
<1>2. CASE a = m
  <2>1. {i \in DOMAIN Bytes(a) : Bytes(a)[i] = m} = 1 .. MessageLen
    BY <1>1, <1>2
  <2>2. Cardinality(1 .. MessageLen) = MessageLen
    BY FS_Interval, SizeAssumption
  <2> QED BY <1>2, <2>1, <2>2 DEF Count
<1>3. CASE a # m
  <2>1. {i \in DOMAIN Bytes(a) : Bytes(a)[i] = m} = {}
    BY <1>1, <1>3
  <2> QED BY <1>3, <2>1, FS_EmptySet DEF Count
<1> QED BY <1>2, <1>3

(* What the queue becomes when its first functor is taken. *)
LEMMA OrderlyTail ==
    ASSUME NEW q \in Seq(Tasks), q # <<>>, NEW firm, Orderly(q, firm)
    PROVE  /\ Orderly(Tail(q), firm)
           /\ Waits(Tail(q)) \subseteq Waits(q)
           /\ \A m \in Messages : Head(q) = <<"send", m>> =>
                m \in Waits(q) /\ Waits(Tail(q)) = Waits(q) \ {m}
           /\ (\A m \in Messages : Head(q) # <<"send", m>>) => Waits(Tail(q)) = Waits(q)
           /\ \A th \in AllThreads : Head(q) = <<"shutdown", th>> =>
                firm \cap Waits(q) = {}
           /\ \A t : (\E i \in 1 .. Len(Tail(q)) : Tail(q)[i] = t) =>
                     (\E i \in 1 .. Len(q) : q[i] = t)
<1>1. /\ Tail(q) \in Seq(Tasks) /\ Len(Tail(q)) = Len(q) - 1
      /\ \A i \in 1 .. Len(Tail(q)) : Tail(q)[i] = q[i + 1]
  BY HeadTailProperties
<1>2. Len(q) \in Nat \ {0} /\ Head(q) = q[1]
  BY EmptySeq
<1> DEFINE r == Tail(q)
           n == Len(q)
<1>3. /\ Len(r) = n - 1 /\ n \in Nat \ {0} /\ \A i \in 1 .. n - 1 : r[i] = q[i + 1]
      /\ \A i \in 1 .. n - 1 : i + 1 \in 1 .. n
      /\ \A i \in 1 .. n : i = 1 \/ (i - 1 \in 1 .. n - 1 /\ r[i - 1] = q[i])
  BY <1>1, <1>2
<1> HIDE DEF r, n
<1>4. /\ \A i, j \in 1 .. n : \A m \in Messages :
           q[i] = <<"send", m>> /\ q[j] = <<"send", m>> => i = j
      /\ \A i, j \in 1 .. n : \A th \in AllThreads : \A m \in firm :
           q[i] = <<"shutdown", th>> /\ q[j] = <<"send", m>> => j < i
  BY DEF Orderly, n
<1>5. Orderly(r, firm)
  <2>1. ASSUME NEW i \in 1 .. n - 1, NEW j \in 1 .. n - 1, NEW m \in Messages,
               r[i] = <<"send", m>>, r[j] = <<"send", m>>
        PROVE  i = j
    <3>1. /\ i + 1 \in 1 .. n /\ j + 1 \in 1 .. n
          /\ q[i + 1] = <<"send", m>> /\ q[j + 1] = <<"send", m>>
      BY <1>3, <2>1
    <3>2. i + 1 = j + 1
      BY <1>4, <3>1
    <3> QED BY <1>3, <3>2
  <2>2. ASSUME NEW i \in 1 .. n - 1, NEW j \in 1 .. n - 1, NEW th \in AllThreads,
               NEW m \in firm, r[i] = <<"shutdown", th>>, r[j] = <<"send", m>>
        PROVE  j < i
    <3>1. /\ i + 1 \in 1 .. n /\ j + 1 \in 1 .. n
          /\ q[i + 1] = <<"shutdown", th>> /\ q[j + 1] = <<"send", m>>
      BY <1>3, <2>2
    <3>2. j + 1 < i + 1
      BY <1>4, <3>1
    <3> QED BY <1>3, <3>2
  <2>3. 1 .. Len(r) = 1 .. n - 1
    BY <1>3
  <2> QED BY <2>1, <2>2, <2>3 DEF Orderly
<1>6. \A t : (\E i \in 1 .. Len(r) : r[i] = t) => (\E i \in 1 .. n : q[i] = t)
  BY <1>3
<1>7. Waits(r) \subseteq Waits(q)
  BY <1>6 DEF Waits, n
<1>8. ASSUME NEW m \in Waits(q), m \notin Waits(r) PROVE Head(q) = <<"send", m>>
  <2>1. PICK i \in 1 .. n : q[i] = <<"send", m>>
    BY DEF Waits, n
  <2>2. i = 1
    BY <1>3, <1>8, <2>1 DEF Waits
  <2> QED BY <1>2, <2>1, <2>2
<1>9. ASSUME NEW m \in Messages, Head(q) = <<"send", m>>
      PROVE  m \in Waits(q) /\ m \notin Waits(r)
  <2>1. 1 \in 1 .. n /\ q[1] = <<"send", m>>
    BY <1>2, <1>3, <1>9
  <2>2. \A i \in 1 .. n - 1 : r[i] # <<"send", m>>
    <3>1. SUFFICES ASSUME NEW i \in 1 .. n - 1, r[i] = <<"send", m>> PROVE FALSE
      OBVIOUS
    <3>2. i + 1 \in 1 .. n /\ q[i + 1] = <<"send", m>>
      BY <1>3, <3>1
    <3>3. i + 1 = 1
      BY <1>4, <2>1, <3>2
    <3> QED BY <1>3, <3>3
  <2> QED BY <1>3, <2>1, <2>2 DEF Waits, n
<1>10. ASSUME NEW m \in Messages, Head(q) = <<"send", m>>
       PROVE  Waits(r) = Waits(q) \ {m}
  <2>1. \A a \in Waits(q) : a \notin Waits(r) => <<"send", a>> = <<"send", m>>
    BY <1>8, <1>10
  <2>2. \A a \in Waits(q) : a \notin Waits(r) => a = m
    BY <2>1
  <2> QED BY <1>7, <1>9, <1>10, <2>2
<1>11. (\A m \in Messages : Head(q) # <<"send", m>>) => Waits(r) = Waits(q)
  BY <1>7, <1>8 DEF Waits
<1>12. ASSUME NEW th \in AllThreads, Head(q) = <<"shutdown", th>>
       PROVE  firm \cap Waits(q) = {}
  <2>1. SUFFICES ASSUME NEW m \in firm, m \in Waits(q) PROVE FALSE
    OBVIOUS
  <2>2. PICK j \in 1 .. n : q[j] = <<"send", m>>
    BY <2>1 DEF Waits, n
  <2>3. 1 \in 1 .. n /\ q[1] = <<"shutdown", th>>
    BY <1>2, <1>3, <1>12
  <2>4. j < 1
    BY <1>4, <2>2, <2>3
  <2> QED BY <1>3, <2>4
<1> QED BY <1>5, <1>6, <1>7, <1>9, <1>10, <1>11, <1>12 DEF r, n

(* What a functor changes that is queued. *)
LEMMA Appended ==
    ASSUME NEW q \in Seq(Tasks), NEW t \in Tasks
    PROVE  /\ Len(q) \in Nat /\ Len(Append(q, t)) = Len(q) + 1
           /\ \A i \in 1 .. Len(q) : Append(q, t)[i] = q[i] /\ i < Len(q) + 1
           /\ Append(q, t)[Len(q) + 1] = t
           /\ \A i \in 1 .. Len(q) + 1 : i \in 1 .. Len(q) \/ i = Len(q) + 1
           /\ \A u : (\E i \in 1 .. Len(Append(q, t)) : Append(q, t)[i] = u) <=>
                     (\E i \in 1 .. Len(q) : q[i] = u) \/ u = t
<1>1. /\ Len(q) \in Nat /\ Len(Append(q, t)) = Len(q) + 1
      /\ \A i \in 1 .. Len(q) : Append(q, t)[i] = q[i]
      /\ Append(q, t)[Len(q) + 1] = t
  BY AppendProperties, LenProperties
<1> DEFINE n == Len(q)
           r == Append(q, t)
<1>2. n \in Nat /\ Len(r) = n + 1 /\ r[n + 1] = t /\ \A i \in 1 .. n : r[i] = q[i]
  BY <1>1
<1> HIDE DEF n, r
<1>3. /\ \A i \in 1 .. n : i < n + 1 /\ i \in 1 .. n + 1
      /\ \A i \in 1 .. n + 1 : i \in 1 .. n \/ i = n + 1
      /\ n + 1 \in 1 .. n + 1
  BY <1>2
<1>4. ASSUME NEW u
      PROVE  (\E i \in 1 .. Len(r) : r[i] = u) <=> (\E i \in 1 .. n : q[i] = u) \/ u = t
  BY <1>2, <1>3
<1> QED BY <1>2, <1>3, <1>4 DEF n, r

(* A functor that is neither a send nor a shutdown changes nothing. *)
LEMMA OrderlyAppend ==
    ASSUME NEW q \in Seq(Tasks), NEW firm \in SUBSET Messages, Orderly(q, firm),
           NEW t \in Tasks, \A m \in Messages : t # <<"send", m>>,
           t \notin {"shutdown"} \X AllThreads
    PROVE  Orderly(Append(q, t), firm) /\ Waits(Append(q, t)) = Waits(q)
<1> DEFINE n == Len(q)
           r == Append(q, t)
<1>1. /\ n \in Nat /\ Len(r) = n + 1 /\ r[n + 1] = t /\ \A i \in 1 .. n : r[i] = q[i]
      /\ \A i \in 1 .. n + 1 : i \in 1 .. n \/ i = n + 1
      /\ \A u : (\E i \in 1 .. Len(r) : r[i] = u) <=> (\E i \in 1 .. n : q[i] = u) \/ u = t
  BY Appended
<1> HIDE DEF n, r
<1>2. /\ \A i \in 1 .. n + 1 : \A m \in Messages :
           r[i] = <<"send", m>> => i \in 1 .. n /\ q[i] = <<"send", m>>
      /\ \A i \in 1 .. n + 1 : \A th \in AllThreads :
           r[i] = <<"shutdown", th>> => i \in 1 .. n /\ q[i] = <<"shutdown", th>>
  <2>1. \A th \in AllThreads : t # <<"shutdown", th>>
    OBVIOUS
  <2> QED BY <1>1, <2>1
<1>3. Orderly(r, firm)
  <2>1. /\ \A i, j \in 1 .. n : \A m \in Messages :
             q[i] = <<"send", m>> /\ q[j] = <<"send", m>> => i = j
        /\ \A i, j \in 1 .. n : \A th \in AllThreads : \A m \in firm :
             q[i] = <<"shutdown", th>> /\ q[j] = <<"send", m>> => j < i
    BY DEF Orderly, n
  <2>2. ASSUME NEW i \in 1 .. n + 1, NEW j \in 1 .. n + 1, NEW m \in Messages,
               r[i] = <<"send", m>>, r[j] = <<"send", m>>
        PROVE  i = j
    BY <1>2, <2>1, <2>2
  <2>3. ASSUME NEW i \in 1 .. n + 1, NEW j \in 1 .. n + 1, NEW th \in AllThreads,
               NEW m \in firm, r[i] = <<"shutdown", th>>, r[j] = <<"send", m>>
        PROVE  j < i
    BY <1>2, <2>1, <2>3
  <2> QED BY <1>1, <2>2, <2>3 DEF Orderly
<1>4. Waits(r) = Waits(q)
  BY <1>1 DEF Waits, n
<1> QED BY <1>3, <1>4 DEF r

(* A send of a message that was not promised.                              *)
LEMMA OrderlyAppendSend ==
    ASSUME NEW q \in Seq(Tasks), NEW firm \in SUBSET Messages, Orderly(q, firm),
           NEW m \in Messages \ firm, m \notin Waits(q)
    PROVE  /\ Orderly(Append(q, <<"send", m>>), firm)
           /\ Waits(Append(q, <<"send", m>>)) = Waits(q) \cup {m}
<1> DEFINE n == Len(q)
           t == <<"send", m>>
           r == Append(q, t)
<1>1. t \in Tasks
  BY Kinds
<1>2. /\ n \in Nat /\ Len(r) = n + 1 /\ r[n + 1] = t /\ \A i \in 1 .. n : r[i] = q[i]
      /\ \A i \in 1 .. n + 1 : i \in 1 .. n \/ i = n + 1
      /\ \A u : (\E i \in 1 .. Len(r) : r[i] = u) <=> (\E i \in 1 .. n : q[i] = u) \/ u = t
  BY <1>1, Appended
<1> HIDE DEF n, r
<1>3. /\ \A i \in 1 .. n + 1 : \A a \in Messages : r[i] = <<"send", a>> =>
           (i \in 1 .. n /\ q[i] = <<"send", a>>) \/ (i = n + 1 /\ a = m)
      /\ \A i \in 1 .. n + 1 : \A u \in AllThreads :
           r[i] = <<"shutdown", u>> => i \in 1 .. n /\ q[i] = <<"shutdown", u>>
  BY <1>2
<1>4. \A i \in 1 .. n : q[i] # <<"send", m>>
  BY DEF Waits, n
<1>5. Orderly(r, firm)
  <2>1. /\ \A i, j \in 1 .. n : \A a \in Messages :
             q[i] = <<"send", a>> /\ q[j] = <<"send", a>> => i = j
        /\ \A i, j \in 1 .. n : \A u \in AllThreads : \A a \in firm :
             q[i] = <<"shutdown", u>> /\ q[j] = <<"send", a>> => j < i
    BY DEF Orderly, n
  <2>2. ASSUME NEW i \in 1 .. n + 1, NEW j \in 1 .. n + 1, NEW a \in Messages,
               r[i] = <<"send", a>>, r[j] = <<"send", a>>
        PROVE  i = j
    BY <1>3, <1>4, <2>1, <2>2
  <2>3. ASSUME NEW i \in 1 .. n + 1, NEW j \in 1 .. n + 1, NEW u \in AllThreads,
               NEW a \in firm, r[i] = <<"shutdown", u>>, r[j] = <<"send", a>>
        PROVE  j < i
    <3>1. i \in 1 .. n /\ q[i] = <<"shutdown", u>>
      BY <1>3, <2>3
    <3>2. j \in 1 .. n /\ q[j] = <<"send", a>>
      BY <1>3, <2>3
    <3> QED BY <2>1, <3>1, <3>2
  <2>4. 1 .. Len(r) = 1 .. n + 1
    BY <1>2
  <2> QED BY <2>2, <2>3, <2>4 DEF Orderly
<1>6. Waits(r) = Waits(q) \cup {m}
  <2>1. \A a \in Messages : <<"send", a>> = t <=> a = m
    OBVIOUS
  <2> QED BY <1>2, <2>1 DEF Waits, n
<1> QED BY <1>5, <1>6 DEF r

LEMMA OrderlyAppendShutdown ==
    ASSUME NEW q \in Seq(Tasks), NEW firm \in SUBSET Messages, Orderly(q, firm),
           NEW th \in AllThreads
    PROVE  /\ Orderly(Append(q, <<"shutdown", th>>), firm)
           /\ Waits(Append(q, <<"shutdown", th>>)) = Waits(q)
<1> DEFINE n == Len(q)
           t == <<"shutdown", th>>
           r == Append(q, t)
<1>0. t \in Tasks
  BY Kinds
<1>1. /\ n \in Nat /\ Len(r) = n + 1 /\ r[n + 1] = t /\ \A i \in 1 .. n : r[i] = q[i] /\ i < n + 1
      /\ \A i \in 1 .. n + 1 : i \in 1 .. n \/ i = n + 1
      /\ \A u : (\E i \in 1 .. Len(r) : r[i] = u) <=> (\E i \in 1 .. n : q[i] = u) \/ u = t
  BY <1>0, Appended
<1> HIDE DEF n, r
<1>2. \A i \in 1 .. n + 1 : \A a \in Messages :
        r[i] = <<"send", a>> => i \in 1 .. n /\ q[i] = <<"send", a>>
  BY <1>1
<1>3. Orderly(r, firm)
  <2>1. /\ \A i, j \in 1 .. n : \A a \in Messages :
             q[i] = <<"send", a>> /\ q[j] = <<"send", a>> => i = j
        /\ \A i, j \in 1 .. n : \A u \in AllThreads : \A a \in firm :
             q[i] = <<"shutdown", u>> /\ q[j] = <<"send", a>> => j < i
    BY DEF Orderly, n
  <2>2. ASSUME NEW i \in 1 .. n + 1, NEW j \in 1 .. n + 1, NEW a \in Messages,
               r[i] = <<"send", a>>, r[j] = <<"send", a>>
        PROVE  i = j
    BY <1>2, <2>1, <2>2
  <2>3. ASSUME NEW i \in 1 .. n + 1, NEW j \in 1 .. n + 1, NEW u \in AllThreads,
               NEW a \in firm, r[i] = <<"shutdown", u>>, r[j] = <<"send", a>>
        PROVE  j < i
    <3>1. j \in 1 .. n /\ q[j] = <<"send", a>>
      BY <1>2, <2>3
    <3>2. CASE i \in 1 .. n
      BY <1>1, <2>1, <2>3, <3>1, <3>2
    <3>3. CASE i = n + 1
      BY <1>1, <3>1, <3>3
    <3> QED BY <1>1, <3>2, <3>3
  <2> QED BY <1>1, <2>2, <2>3 DEF Orderly
<1>4. Waits(r) = Waits(q)
  BY <1>1 DEF Waits, n
<1> QED BY <1>3, <1>4 DEF r

(* With no shutdown in the queue anything may be promised.                 *)
LEMMA OrderlyYet ==
    ASSUME NEW firm, NEW more, Orderly(tasks, firm), NoShutdown(tasks)
    PROVE  Orderly(tasks, more)
<1>1. \A th \in AllThreads : <<"shutdown", th>> \in {"shutdown"} \X AllThreads
  OBVIOUS
<1> QED BY <1>1 DEF Orderly, NoShutdown

LEMMA WaitingIsWaits == IInv => Waiting = Waits(tasks)
<1> SUFFICES ASSUME IInv PROVE Waiting = Waits(tasks)
  OBVIOUS
<1>1. DOMAIN tasks = 1 .. Len(tasks)
  BY LenProperties DEF IInv, TypeOK
<1> QED BY <1>1 DEF Waiting, Waits, Range

-----------------------------------------------------------------------------
LEMMA ShutdownInitially == Init => SInv
<1> SUFFICES ASSUME Init PROVE SInv
  OBVIOUS
<1>1. tasks = <<<<"establish">>>> /\ Len(tasks) = 1 /\ tasks[1] = <<"establish">>
  BY DEF Init
<1>2. \A i \in 1 .. 1 : i = 1
  OBVIOUS
<1>3. \A i \in 1 .. Len(tasks) : /\ \A m \in Messages : tasks[i] # <<"send", m>>
                                 /\ \A th \in AllThreads : tasks[i] # <<"shutdown", th>>
  BY <1>1, <1>2
<1>4. Waits(tasks) = {}
  BY <1>3 DEF Waits
<1>5. AllSent = {}
  BY DEF Init, AllSent
<1>6. SentOnce
  BY <1>5 DEF Init, SentOnce
<1>7. QueueInv
  <2>1. Orderly(tasks, promised)
    BY <1>3 DEF Orderly
  <2> QED BY <1>4, <2>1 DEF QueueInv
<1>8. BytesInv
  <2>1. \A m : Count(accepted, m) = 0
    <3>1. SUFFICES ASSUME NEW m PROVE Count(<<>>, m) = 0
      BY DEF Init
    <3>2. {i \in DOMAIN <<>> : <<>>[i] = m} = {}
      OBVIOUS
    <3> QED BY <3>2, FS_EmptySet DEF Count
  <2> QED BY <1>5, <2>1 DEF Init, BytesInv
<1> QED BY <1>6, <1>7, <1>8 DEF SInv

(* How the write side may be closed: ahead of the sends that wait, which   *)
(* are overtaken; or with nothing promised among them.                     *)
ClosesAhead ==
    /\ Overtake
    /\ finSent => finSent' /\ promised' = promised

ClosesInTurn ==
    /\ UNCHANGED <<promised, overtaken>>
    /\ finSent => finSent'
    /\ finSent' = finSent \/ promised \cap Waits(tasks) = {}

LEMMA Closes ==
    ASSUME IInv, SInv, UNCHANGED sent, promised' \subseteq AllSent,
           ClosesAhead \/ ClosesInTurn
    PROVE  /\ finSent => finSent'
           /\ overtaken' \subseteq Others
           /\ finSent' => \A m \in promised' : Done(m) \/ m \in overtaken'
<1>1. CASE ~(finSent' /\ ~finSent)
  BY <1>1 DEF ClosesAhead, ClosesInTurn, Overtake, SInv, BytesInv
<1>2. CASE finSent' /\ ~finSent
  <2>1. \A m \in AllSent \ Waits(tasks) : Done(m)
    BY <1>2 DEF SInv, BytesInv
  <2>2. CASE ClosesAhead
    <3>1. overtaken' = Waits(tasks)
      BY <1>2, <2>2, WaitingIsWaits DEF ClosesAhead, Overtake
    <3> QED BY <1>2, <2>1, <3>1 DEF SInv, QueueInv
  <2>3. CASE ClosesInTurn
    <3>1. UNCHANGED <<promised, overtaken>> /\ promised \cap Waits(tasks) = {}
      BY <1>2, <2>3 DEF ClosesInTurn
    <3> QED BY <1>2, <2>1, <3>1 DEF SInv, BytesInv
  <2> QED BY <2>2, <2>3
<1> QED BY <1>1, <1>2

(* A step that sends nothing and takes nothing on. *)
LEMMA NothingSent ==
    ASSUME IInv, SInv, UNCHANGED <<sent, accepted>>,
           \A th \in Threads : call'[th] \in {"send"} \X Messages => call'[th] = call[th],
           Orderly(tasks', promised'), Waits(tasks') = Waits(tasks),
           promised' \subseteq AllSent, ClosesAhead \/ ClosesInTurn,
           peer = "rst" => peer' = "rst",
           downs > 0 => downs' > 0, state' = "kDisconnected" => downs' > 0
    PROVE  SInv'
<1>1. AllSent' = AllSent /\ Others' = Others
  BY DEF AllSent, Others
<1>2. \A m : Done(m) => Done(m)'
  BY DEF Done
<1>3. SentOnce'
  <2>1. ASSUME NEW th \in Threads, NEW m \in Messages, call'[th] = <<"send", m>>
        PROVE  call[th] = <<"send", m>>
    <3>1. <<"send", m>> \in {"send"} \X Messages
      OBVIOUS
    <3> QED BY <2>1, <3>1
  <2> QED BY <1>1, <2>1 DEF SInv, SentOnce
<1>4. QueueInv'
  BY <1>1 DEF SInv, QueueInv
<1>5. /\ finSent => finSent'
      /\ overtaken' \subseteq Others
      /\ finSent' => \A m \in promised' : Done(m) \/ m \in overtaken'
  BY Closes
<1>6. BytesInv'
  BY <1>1, <1>2, <1>5 DEF SInv, BytesInv
<1> QED BY <1>3, <1>4, <1>6 DEF SInv

(* The same for a step that leaves the functors and the calls alone.       *)
LEMMA NothingQueued ==
    ASSUME IInv, SInv, UNCHANGED <<sent, accepted, call, tasks, promised>>,
           ClosesAhead \/ UNCHANGED <<finSent, overtaken>>,
           peer = "rst" => peer' = "rst",
           downs > 0 => downs' > 0, state' = "kDisconnected" => downs' > 0
    PROVE  SInv'
<1>1. Orderly(tasks', promised') /\ Waits(tasks') = Waits(tasks)
  BY DEF SInv, QueueInv
<1>2. promised' \subseteq AllSent /\ (ClosesAhead \/ ClosesInTurn)
  BY DEF SInv, BytesInv, ClosesInTurn
<1> QED BY <1>1, <1>2, NothingSent

(* For one that queues a functor that is neither a send nor a shutdown.    *)
LEMMA AnotherQueued ==
    ASSUME IInv, SInv, UNCHANGED <<sent, accepted, call, promised>>,
           NEW t \in {<<"callback">>, <<"destroy">>}, tasks' = Append(tasks, t),
           ClosesAhead \/ UNCHANGED <<finSent, overtaken>>,
           peer = "rst" => peer' = "rst",
           downs > 0 => downs' > 0, state' = "kDisconnected" => downs' > 0
    PROVE  SInv'
<1>1. /\ tasks \in Seq(Tasks) /\ t \in Tasks /\ Orderly(tasks, promised)
      /\ t \notin {"shutdown"} \X AllThreads
      /\ \A m \in Messages : t # <<"send", m>>
      /\ promised \in SUBSET Messages
  <2>1. tasks \in Seq(Tasks) /\ Orderly(tasks, promised) /\ promised \in SUBSET Messages
    BY DEF IInv, TypeOK, SInv, QueueInv
  <2>2. t \in Tasks /\ t \notin {"shutdown"} \X AllThreads
    BY Kinds
  <2>3. \A m \in Messages : t # <<"send", m>>
    OBVIOUS
  <2> QED BY <2>1, <2>2, <2>3
<1>2. Orderly(tasks', promised') /\ Waits(tasks') = Waits(tasks)
  BY <1>1, OrderlyAppend
<1>3. promised' \subseteq AllSent /\ (ClosesAhead \/ ClosesInTurn)
  BY DEF SInv, BytesInv, ClosesInTurn
<1> QED BY <1>2, <1>3, NothingSent

(* For one that takes such a functor, or a shutdown, from the queue.       *)
LEMMA AnotherTaken ==
    ASSUME IInv, SInv, UNCHANGED <<sent, accepted, call, promised>>,
           tasks # <<>>, tasks' = Tail(tasks),
           \A m \in Messages : Head(tasks) # <<"send", m>>,
           ClosesInTurn, peer = "rst" => peer' = "rst",
           downs > 0 => downs' > 0, state' = "kDisconnected" => downs' > 0
    PROVE  SInv'
<1>1. tasks \in Seq(Tasks) /\ Orderly(tasks, promised)
  BY DEF IInv, TypeOK, SInv, QueueInv
<1>2. Orderly(tasks', promised') /\ Waits(tasks') = Waits(tasks)
  BY <1>1, OrderlyTail
<1>3. promised' \subseteq AllSent
  BY DEF SInv, BytesInv
<1> QED BY <1>2, <1>3, NothingSent

-----------------------------------------------------------------------------
(* sendInLoop runs for a message that has no byte in the stream yet.       *)
LEMMA TakesOn ==
    ASSUME IInv, SInv, NEW m \in Messages, NEW queue \in Seq(Tasks), sendInLoop(m, queue),
           Count(accepted, m) = 0, UNCHANGED <<peer, downs>>
    PROVE  /\ \A a \in Messages : a # m => Count(accepted', a) = Count(accepted, a)
           /\ Count(accepted', m) = MessageLen \/ peer = "rst" \/ downs > 0 \/ finSent
           /\ tasks' \in {queue, Append(queue, <<"callback">>)}
<1>1. accepted \in Seq(Messages) /\ Bytes(m) \in Seq(Messages)
  BY MessageBytes DEF IInv, TypeOK
<1>2. \A a \in Messages : Count(accepted \o Bytes(m), a)
        = Count(accepted, a) + (IF a = m THEN MessageLen ELSE 0)
      /\ Count(accepted, a) \in Nat
  <2>1. SUFFICES ASSUME NEW a \in Messages
                 PROVE  /\ Count(accepted \o Bytes(m), a)
                            = Count(accepted, a) + (IF a = m THEN MessageLen ELSE 0)
                        /\ Count(accepted, a) \in Nat
    OBVIOUS
  <2>2. /\ Count(accepted \o Bytes(m), a) = Count(accepted, a) + Count(Bytes(m), a)
        /\ Count(accepted, a) \in Nat
    BY <1>1, CountConcat
  <2>3. Count(Bytes(m), a) = IF a = m THEN MessageLen ELSE 0
    BY CountBytes
  <2> QED BY <2>2, <2>3
<1>3. \A a \in Messages : Count(accepted, a) + 0 = Count(accepted, a)
  BY <1>2
<1>4. 0 + MessageLen = MessageLen
  BY SizeAssumption
<1>5. \/ accepted' = accepted \o Bytes(m)
      \/ accepted' = accepted /\ (state = "kDisconnected" \/ finSent \/ peer = "rst")
  BY DEF sendInLoop, Broken
<1>6. state = "kDisconnected" => downs > 0
  BY DEF SInv, BytesInv
<1>7. tasks' \in {queue, Append(queue, <<"callback">>)}
  BY SendInLoop DEF IInv
<1>8. CASE accepted' = accepted \o Bytes(m)
  BY <1>2, <1>3, <1>4, <1>7, <1>8
<1>9. CASE accepted' = accepted /\ (state = "kDisconnected" \/ finSent \/ peer = "rst")
  BY <1>6, <1>7, <1>9
<1> QED BY <1>5, <1>8, <1>9

LEMMA RunSendKeepsBooks ==
    ASSUME IInv, SInv, NEW m \in Messages, RunSend(m)
    PROVE  SInv'
<1>1. /\ tasks # <<>> /\ Head(tasks) = <<"send", m>> /\ sendInLoop(m, Tail(tasks))
      /\ UNCHANGED <<state, call, peer, finSent, sent, promised, overtaken, downs>>
  BY DEF RunSend, Taken
<1>2. /\ tasks \in Seq(Tasks) /\ Tail(tasks) \in Seq(Tasks) /\ Orderly(tasks, promised)
      /\ promised \in SUBSET Messages /\ AllSent \subseteq Messages
  <2>1. tasks \in Seq(Tasks) /\ Orderly(tasks, promised) /\ promised \in SUBSET Messages
    BY DEF IInv, TypeOK, SInv, QueueInv
  <2>2. AllSent \subseteq Messages
    BY DEF IInv, TypeOK, AllSent
  <2> QED BY <1>1, <2>1, <2>2, Dequeued
<1>3. /\ Orderly(Tail(tasks), promised) /\ m \in Waits(tasks)
      /\ Waits(Tail(tasks)) = Waits(tasks) \ {m}
  BY <1>1, <1>2, OrderlyTail
<1>4. Count(accepted, m) = 0
  BY <1>3 DEF SInv, BytesInv
<1>5. /\ \A a \in Messages : a # m => Count(accepted', a) = Count(accepted, a)
      /\ Count(accepted', m) = MessageLen \/ peer = "rst" \/ downs > 0 \/ finSent
      /\ tasks' \in {Tail(tasks), Append(Tail(tasks), <<"callback">>)}
  BY <1>1, <1>2, <1>4, TakesOn
<1>6. Orderly(tasks', promised) /\ Waits(tasks') = Waits(tasks) \ {m}
  <2>1. CASE tasks' = Tail(tasks)
    BY <1>3, <2>1
  <2>2. CASE tasks' = Append(Tail(tasks), <<"callback">>)
    <3>1. /\ <<"callback">> \in Tasks /\ <<"callback">> \notin {"shutdown"} \X AllThreads
          /\ \A a \in Messages : <<"callback">> # <<"send", a>>
      BY Kinds
    <3>2. Orderly(tasks', promised) /\ Waits(tasks') = Waits(Tail(tasks))
      BY <1>2, <1>3, <2>2, <3>1, OrderlyAppend
    <3> QED BY <1>3, <3>2
  <2> QED BY <1>5, <2>1, <2>2
<1>7. AllSent' = AllSent /\ Others' = Others /\ m \in AllSent
  <2>1. Waits(tasks) \subseteq AllSent
    BY DEF SInv, QueueInv, Others, AllSent, AllThreads
  <2> QED BY <1>1, <1>3, <2>1 DEF AllSent, Others
<1>8. \A a \in Messages : a # m /\ Done(a) => Done(a)'
  BY <1>1, <1>5 DEF Done
<1>9. SentOnce'
  BY <1>1, <1>7 DEF SInv, SentOnce
<1>10. QueueInv'
  BY <1>1, <1>6, <1>7 DEF SInv, QueueInv
<1>11. BytesInv'
  <2>1. \A a \in Messages : a \notin AllSent' \/ a \in Waits(tasks') => Count(accepted', a) = 0
    BY <1>5, <1>6, <1>7 DEF SInv, BytesInv
  <2>2. ~finSent => Done(m)'
    BY <1>1, <1>5 DEF Done
  <2>3. ~finSent' => \A a \in AllSent' \ Waits(tasks') : Done(a)'
    BY <1>1, <1>2, <1>6, <1>7, <1>8, <2>2 DEF SInv, BytesInv
  <2>4. ASSUME finSent', NEW a \in promised' PROVE Done(a)' \/ a \in overtaken'
    <3>1. a \in Messages /\ (Done(a) \/ a \in overtaken)
      BY <1>1, <1>2, <2>4 DEF SInv, BytesInv
    <3>2. a = m /\ Done(a) => Done(a)'
      BY <1>1, <1>4, SizeAssumption DEF Done
    <3> QED BY <1>1, <1>8, <3>1, <3>2
  <2>5. state' = "kDisconnected" => downs' > 0
    BY <1>1 DEF SInv, BytesInv
  <2>6. promised' \subseteq AllSent' /\ overtaken' \subseteq Others'
    BY <1>1, <1>7 DEF SInv, BytesInv
  <2> QED BY <2>1, <2>3, <2>4, <2>5, <2>6 DEF BytesInv
<1> QED BY <1>9, <1>10, <1>11 DEF SInv

(* send() in the loop: the state says that no FIN was sent.                *)
LEMMA LoopSendKeepsBooks ==
    ASSUME IInv, SInv, NEW m \in Messages, LoopSend(m)
    PROVE  SInv'
<1>1. /\ state = "kConnected" /\ sendInLoop(m, tasks)
      /\ \A th \in AllThreads : m \notin sent[th]
      /\ \A th \in Threads : call[th] # <<"send", m>>
      /\ sent' = [sent EXCEPT ![LoopThread] = @ \cup {m}]
      /\ UNCHANGED <<state, call, peer, finSent, promised, overtaken, downs>>
  BY DEF LoopSend, MaySend
<1>2. /\ tasks \in Seq(Tasks) /\ Orderly(tasks, promised) /\ ~finSent
      /\ promised \in SUBSET Messages
      /\ sent \in [AllThreads -> SUBSET Messages] /\ LoopThread \in AllThreads
  BY <1>1 DEF IInv, TypeOK, SInv, QueueInv, Quiet, AllThreads
<1>3. m \notin AllSent /\ AllSent' = AllSent \cup {m} /\ AllSent \subseteq Messages
  BY <1>1, <1>2 DEF AllSent
<1>4. Waits(tasks) \subseteq AllSent
  BY DEF SInv, QueueInv, Others, AllSent, AllThreads
<1>5. Count(accepted, m) = 0
  BY <1>3 DEF SInv, BytesInv
<1>6. /\ \A a \in Messages : a # m => Count(accepted', a) = Count(accepted, a)
      /\ Count(accepted', m) = MessageLen \/ peer = "rst" \/ downs > 0 \/ finSent
      /\ tasks' \in {tasks, Append(tasks, <<"callback">>)}
  BY <1>1, <1>2, <1>5, TakesOn
<1>7. Waits(tasks') = Waits(tasks) /\ Orderly(tasks', promised)
  <2>1. CASE tasks' = tasks
    BY <1>2, <2>1
  <2>2. CASE tasks' = Append(tasks, <<"callback">>)
    <3>1. /\ <<"callback">> \in Tasks /\ <<"callback">> \notin {"shutdown"} \X AllThreads
          /\ \A a \in Messages : <<"callback">> # <<"send", a>>
      BY Kinds
    <3> QED BY <1>2, <2>2, <3>1, OrderlyAppend
  <2> QED BY <1>6, <2>1, <2>2
<1>8. Others \subseteq Others'
  <2>1. \A th \in Threads : sent[th] \subseteq sent'[th]
    BY <1>1, <1>2 DEF AllThreads
  <2> QED BY <2>1 DEF Others
<1>9. SentOnce'
  <2>1. ASSUME NEW t \in AllThreads, NEW u \in AllThreads, t # u
        PROVE  sent'[t] \cap sent'[u] = {}
    <3>1. sent[t] \cap sent[u] = {} /\ m \notin sent[t] /\ m \notin sent[u]
      BY <1>1, <2>1 DEF SInv, SentOnce
    <3> QED BY <1>1, <1>2, <2>1, <3>1
  <2>2. ASSUME NEW th \in Threads, NEW a \in Messages, call'[th] = <<"send", a>>
        PROVE  /\ a \notin AllSent'
               /\ \A u \in Threads : call'[u] = <<"send", a>> => u = th
    <3>1. a # m
      BY <1>1, <2>2
    <3> QED BY <1>1, <1>3, <2>2, <3>1 DEF SInv, SentOnce
  <2> QED BY <2>1, <2>2 DEF SentOnce
<1>10. QueueInv'
  BY <1>1, <1>7, <1>8 DEF SInv, QueueInv
<1>11. BytesInv'
  <2>1. \A a \in Messages : a # m /\ Done(a) => Done(a)'
    BY <1>1, <1>6 DEF Done
  <2>2. Done(m)'
    BY <1>1, <1>2, <1>6 DEF Done
  <2>3. \A a \in Messages : a \notin AllSent' \/ a \in Waits(tasks') => Count(accepted', a) = 0
    BY <1>3, <1>4, <1>6, <1>7 DEF SInv, BytesInv
  <2>4. \A a \in AllSent' \ Waits(tasks') : Done(a)'
    BY <1>2, <1>3, <1>7, <2>1, <2>2 DEF SInv, BytesInv
  <2>5. promised' \subseteq AllSent' /\ overtaken' \subseteq Others'
    BY <1>1, <1>3, <1>8 DEF SInv, BytesInv
  <2> QED BY <1>1, <1>2, <2>3, <2>4, <2>5 DEF SInv, BytesInv
<1> QED BY <1>9, <1>10, <1>11 DEF SInv

-----------------------------------------------------------------------------
(* The other threads. *)
LEMMA SendTestKeepsBooks ==
    ASSUME IInv, SInv, NEW th \in Threads, NEW m \in Messages, SendTest(th, m)
    PROVE  SInv'
<1>1. /\ state = "kConnected"
      /\ \A u \in AllThreads : m \notin sent[u]
      /\ \A u \in Threads : call[u] # <<"send", m>>
      /\ call' = [call EXCEPT ![th] = <<"send", m>>]
      /\ UNCHANGED <<state, tasks, sent, accepted, promised, overtaken, peer, downs, finSent>>
  BY DEF SendTest, MaySend, threadRest, kernelVars
<1>2. m \notin AllSent /\ AllSent' = AllSent /\ Others' = Others
  BY <1>1 DEF AllSent, Others
<1>3. \A u \in Threads : call'[u] = IF u = th THEN <<"send", m>> ELSE call[u]
  BY <1>1 DEF IInv, TypeOK
<1>4. SentOnce'
  <2>1. ASSUME NEW t \in Threads, NEW a \in Messages, call'[t] = <<"send", a>>
        PROVE  /\ a \notin AllSent'
               /\ \A u \in Threads : call'[u] = <<"send", a>> => u = t
    <3>1. CASE a = m
      BY <1>1, <1>2, <1>3, <2>1, <3>1
    <3>2. CASE a # m
      <4>1. \A u \in Threads : call'[u] = <<"send", a>> => u # th /\ call[u] = <<"send", a>>
        <5>1. <<"send", a>> # <<"send", m>>
          BY <3>2
        <5> QED BY <1>3, <5>1
      <4> QED BY <1>2, <2>1, <4>1 DEF SInv, SentOnce
    <3> QED BY <3>1, <3>2
  <2> QED BY <1>1, <2>1 DEF SInv, SentOnce
<1>5. QueueInv'
  BY <1>1, <1>2 DEF SInv, QueueInv
<1>6. BytesInv'
  BY <1>1, <1>2 DEF SInv, BytesInv, Done
<1> QED BY <1>4, <1>5, <1>6 DEF SInv

LEMMA SendQueueKeepsBooks ==
    ASSUME IInv, SInv, NEW th \in Threads, NEW m \in Messages, SendQueue(th, m)
    PROVE  SInv'
<1>1. /\ call[th] = <<"send", m>>
      /\ tasks' = Append(tasks, <<"send", m>>)
      /\ sent' = [sent EXCEPT ![th] = @ \cup {m}]
      /\ call' = [call EXCEPT ![th] = <<"idle">>]
      /\ UNCHANGED <<state, accepted, promised, overtaken, peer, downs, finSent>>
  BY DEF SendQueue, threadRest, kernelVars
<1>2. /\ tasks \in Seq(Tasks) /\ Orderly(tasks, promised)
      /\ promised \in SUBSET Messages
      /\ sent \in [AllThreads -> SUBSET Messages] /\ th \in AllThreads
  BY DEF IInv, TypeOK, SInv, QueueInv, AllThreads
<1>3. m \notin AllSent /\ AllSent' = AllSent \cup {m}
  BY <1>1, <1>2 DEF SInv, SentOnce, AllSent
<1>4. /\ \A u \in AllThreads : m \notin sent[u] /\ sent[u] \subseteq Messages
      /\ \A u \in AllThreads : sent'[u] = IF u = th THEN sent[u] \cup {m} ELSE sent[u]
  BY <1>1, <1>2, <1>3 DEF AllSent
<1>5. Waits(tasks) \subseteq AllSent
  BY DEF SInv, QueueInv, Others, AllSent, AllThreads
<1>6. Others \subseteq Others' /\ m \in Others'
  <2>1. \A u \in Threads : sent[u] \subseteq sent'[u]
    BY <1>4 DEF AllThreads
  <2>2. m \in sent'[th]
    BY <1>2, <1>4
  <2> QED BY <2>1, <2>2 DEF Others
<1>7. Orderly(tasks', promised) /\ Waits(tasks') = Waits(tasks) \cup {m}
  <2>1. m \notin Waits(tasks)
    BY <1>3, <1>5
  <2>2. m \in Messages \ promised
    BY <1>3 DEF SInv, BytesInv
  <2> QED BY <1>1, <1>2, <2>1, <2>2, OrderlyAppendSend
<1>8. \A u \in Threads : call'[u] = IF u = th THEN <<"idle">> ELSE call[u]
  BY <1>1 DEF IInv, TypeOK
<1>9. \A u \in Threads : call'[u] \in {"send"} \X Messages => u # th /\ call'[u] = call[u]
  BY <1>8
<1>10. SentOnce'
  <2>1. ASSUME NEW t \in AllThreads, NEW u \in AllThreads, t # u
        PROVE  sent'[t] \cap sent'[u] = {}
    <3>1. sent[t] \cap sent[u] = {}
      BY <2>1 DEF SInv, SentOnce
    <3> QED BY <1>4, <2>1, <3>1
  <2>2. ASSUME NEW t \in Threads, NEW a \in Messages, call'[t] = <<"send", a>>
        PROVE  /\ a \notin AllSent'
               /\ \A u \in Threads : call'[u] = <<"send", a>> => u = t
    <3>1. \A u \in Threads : call'[u] = <<"send", a>> => u # th /\ call[u] = <<"send", a>>
      <4>1. <<"send", a>> \in {"send"} \X Messages
        OBVIOUS
      <4> QED BY <1>9, <4>1
    <3>2. a \notin AllSent /\ \A u \in Threads : call[u] = <<"send", a>> => u = t
      BY <2>2, <3>1 DEF SInv, SentOnce
    <3>3. a # m
      BY <1>1, <2>2, <3>1, <3>2
    <3> QED BY <1>3, <3>1, <3>2, <3>3
  <2> QED BY <2>1, <2>2 DEF SentOnce
<1>11. QueueInv'
  BY <1>1, <1>6, <1>7 DEF SInv, QueueInv
<1>12. BytesInv'
  <2>1. \A a : Done(a) => Done(a)'
    BY <1>1 DEF Done
  <2>2. \A a \in Messages : a \notin AllSent' \/ a \in Waits(tasks') => Count(accepted', a) = 0
    BY <1>1, <1>3, <1>7 DEF SInv, BytesInv
  <2>3. ~finSent' => \A a \in AllSent' \ Waits(tasks') : Done(a)'
    BY <1>1, <1>3, <1>7, <2>1 DEF SInv, BytesInv
  <2>4. promised' \subseteq AllSent' /\ overtaken' \subseteq Others'
    BY <1>1, <1>3, <1>6 DEF SInv, BytesInv
  <2> QED BY <1>1, <2>1, <2>2, <2>3, <2>4 DEF SInv, BytesInv
<1> QED BY <1>10, <1>11, <1>12 DEF SInv

LEMMA ShutdownStepsKeepBooks ==
    ASSUME IInv, SInv, NEW th \in Threads,
           ShutdownTest(th) \/ ShutdownSet(th) \/ ShutdownQueue(th)
    PROVE  SInv'
<1>1. /\ UNCHANGED <<sent, accepted, overtaken, peer, downs, finSent>>
      /\ \/ UNCHANGED promised
         \/ state = "kConnected" /\ promised' = promised \cup sent[th] /\ UNCHANGED tasks
      /\ state' \in {state, "kDisconnecting"}
      /\ \E place \in {<<"set">>, <<"queue">>, <<"idle">>} : call' = [call EXCEPT ![th] = place]
      /\ tasks' \in {tasks, Append(tasks, <<"shutdown", th>>)}
  BY DEF ShutdownTest, ShutdownSet, ShutdownQueue, threadRest, kernelVars
<1>2. \A u \in Threads : call'[u] \in {"send"} \X Messages => u # th /\ call'[u] = call[u]
  <2>1. PICK place \in {<<"set">>, <<"queue">>, <<"idle">>} : call' = [call EXCEPT ![th] = place]
    BY <1>1
  <2>2. place \notin {"send"} \X Messages
    OBVIOUS
  <2>3. \A u \in Threads : call'[u] = IF u = th THEN place ELSE call[u]
    BY <2>1 DEF IInv, TypeOK
  <2> QED BY <2>2, <2>3
<1>3. /\ tasks \in Seq(Tasks) /\ Orderly(tasks, promised) /\ th \in AllThreads
      /\ promised \in SUBSET Messages /\ promised \subseteq AllSent
  BY DEF IInv, TypeOK, SInv, QueueInv, BytesInv, AllThreads
<1>4. Orderly(tasks', promised') /\ Waits(tasks') = Waits(tasks)
  <2>1. CASE UNCHANGED promised
    BY <1>1, <1>3, <2>1, OrderlyAppendShutdown
  <2>2. CASE state = "kConnected" /\ UNCHANGED tasks
    <3>1. NoShutdown(tasks)
      BY <2>2 DEF IInv, Quiet
    <3> QED BY <1>3, <2>2, <3>1, OrderlyYet
  <2> QED BY <1>1, <2>1, <2>2
<1>5. promised' \subseteq AllSent /\ ClosesAhead
  <2>1. state = "kConnected" => ~finSent
    BY DEF IInv, Quiet
  <2>2. promised' \subseteq AllSent
    BY <1>1, <1>3 DEF AllSent
  <2> QED BY <1>1, <2>1, <2>2 DEF ClosesAhead, Overtake
<1>6. state' = "kDisconnected" => downs' > 0
  BY <1>1 DEF SInv, BytesInv
<1> QED BY <1>1, <1>2, <1>4, <1>5, <1>6, NothingSent

-----------------------------------------------------------------------------
(* The two ends of shutdown() in the loop. *)
LEMMA LoopShutdownKeepsBooks == IInv /\ SInv /\ LoopShutdown => SInv'
<1> SUFFICES ASSUME IInv, SInv, LoopShutdown PROVE SInv'
  OBVIOUS
<1>1. /\ state = "kConnected" /\ state' = "kDisconnecting" /\ Overtake
      /\ promised' = promised \cup sent[LoopThread]
      /\ UNCHANGED <<sent, accepted, call, tasks, peer, downs>>
  BY DEF LoopShutdown, kernelVars
<1>2. ~finSent /\ NoShutdown(tasks)
  BY <1>1 DEF IInv, Quiet
<1>3. Orderly(tasks', promised') /\ Waits(tasks') = Waits(tasks)
  BY <1>1, <1>2, OrderlyYet DEF SInv, QueueInv
<1>4. promised' \subseteq AllSent /\ ClosesAhead
  BY <1>1, <1>2 DEF SInv, BytesInv, AllSent, AllThreads, ClosesAhead
<1> QED BY <1>1, <1>3, <1>4, NothingSent

(* What was promised ran before: the functors are in order.                *)
LEMMA RunShutdownKeepsBooks ==
    ASSUME IInv, SInv, NEW th \in AllThreads, RunShutdown(th)
    PROVE  SInv'
<1>1. /\ tasks # <<>> /\ tasks' = Tail(tasks) /\ Head(tasks) = <<"shutdown", th>>
      /\ finSent => finSent'
      /\ UNCHANGED <<state, sent, accepted, promised, overtaken, call, peer, downs>>
  BY DEF RunShutdown, Taken, shutdownInLoop, kernelVars, history
<1>2. promised \cap Waits(tasks) = {}
  BY <1>1, OrderlyTail DEF IInv, TypeOK, SInv, QueueInv
<1>3. state' = "kDisconnected" => downs' > 0
  BY <1>1 DEF SInv, BytesInv
<1>4. \A m \in Messages : Head(tasks) # <<"send", m>>
  BY <1>1
<1> QED BY <1>1, <1>2, <1>3, <1>4, AnotherTaken DEF ClosesInTurn

(* The other functors, the events and the world outside. *)
LEMMA OtherFunctorKeepsBooks ==
    ASSUME IInv, SInv,
           RunCallback \/ connectEstablished \/ connectDestroyed \/ connectDestroyedDown
    PROVE  SInv'
<1>1. downs \in Nat
  BY DEF IInv, TypeOK
<1>2. state = "kDisconnected" => downs > 0
  BY DEF SInv, BytesInv
<1>3. CASE RunCallback \/ connectEstablished \/ connectDestroyed
  <2>1. /\ tasks # <<>> /\ tasks' = Tail(tasks)
        /\ Head(tasks) \in {<<"callback">>, <<"establish">>, <<"destroy">>}
        /\ UNCHANGED <<sent, accepted, call, promised, overtaken, finSent, peer, downs>>
        /\ state' \in {state, "kConnected"}
    BY <1>3 DEF RunCallback, connectEstablished, connectDestroyed, Taken, kernelVars, history
  <2>2. \A m \in Messages : Head(tasks) # <<"send", m>>
    BY <2>1
  <2> QED BY <1>1, <1>2, <2>1, <2>2, AnotherTaken DEF ClosesInTurn
<1>4. CASE connectDestroyedDown
  <2>1. /\ UNCHANGED <<sent, accepted, call, tasks, promised, overtaken, finSent, peer>>
        /\ downs' = downs + 1
    BY <1>4 DEF connectDestroyedDown, kernelVars
  <2>2. downs' > 0
    BY <1>1, <2>1
  <2> QED BY <2>1, <2>2, NothingQueued
<1> QED BY <1>3, <1>4

LEMMA EventKeepsBooks ==
    ASSUME IInv, SInv, Poll \/ HandleEvent
    PROVE  SInv'
<1>1. downs \in Nat /\ (state = "kDisconnected" => downs > 0)
  BY DEF IInv, TypeOK, SInv, BytesInv
<1>2. CASE Poll \/ handleError
  <2>1. UNCHANGED <<state, sent, accepted, call, tasks, promised, overtaken, finSent, peer, downs>>
    BY <1>2 DEF Poll, handleError, kernelVars, history
  <2> QED BY <1>1, <2>1, NothingQueued
<1>3. CASE HangUp \/ handleRead
  <2>1. /\ UNCHANGED <<sent, accepted, call, tasks, promised, overtaken, finSent, peer>>
        /\ handleClose \/ UNCHANGED <<state, downs>>
    BY <1>3 DEF HangUp, handleRead, kernelVars
  <2>2. downs' > 0 \/ UNCHANGED <<state, downs>>
    BY <1>1, <2>1 DEF handleClose
  <2> QED BY <1>1, <2>1, <2>2, NothingQueued
<1>4. CASE handleWrite
  <2>1. /\ UNCHANGED <<state, sent, accepted, call, promised, peer, downs>>
        /\ tasks' = Append(tasks, <<"callback">>) \/ UNCHANGED tasks
        /\ Overtake /\ (finSent => finSent')
    BY <1>4 DEF handleWrite, AllWritten, PartWritten
  <2>2. ClosesAhead
    BY <2>1 DEF ClosesAhead
  <2>3. CASE tasks' = Append(tasks, <<"callback">>)
    BY <1>1, <2>1, <2>3, <2>2, AnotherQueued
  <2>4. CASE UNCHANGED tasks
    BY <1>1, <2>1, <2>4, <2>2, NothingQueued
  <2> QED BY <2>1, <2>3, <2>4
<1> QED BY <1>2, <1>3, <1>4 DEF HandleEvent

LEMMA OutsideKeepsBooks ==
    ASSUME IInv, SInv, Environment \/ UserReturns \/ UNCHANGED vars
    PROVE  SInv'
<1>1. state = "kDisconnected" => downs > 0
  BY DEF SInv, BytesInv
<1>2. CASE ServerRemoves \/ ServerDies
  <2>1. /\ UNCHANGED <<state, sent, accepted, call, promised, overtaken, finSent, peer, downs>>
        /\ tasks' = Append(tasks, <<"destroy">>)
    BY <1>2 DEF ServerRemoves, ServerDies, kernelVars, history
  <2> QED BY <1>1, <2>1, AnotherQueued
<1>3. CASE PeerSends \/ PeerReads \/ PeerShutsDown \/ PeerResets \/ UserReturns \/ UNCHANGED vars
  <2>1. /\ UNCHANGED <<state, sent, accepted, call, tasks, promised, overtaken, finSent, downs>>
        /\ peer = "rst" => peer' = "rst"
    BY <1>3 DEF PeerSends, PeerReads, PeerShutsDown, PeerResets, UserReturns, envRest, vars,
                kernelVars, history
  <2> QED BY <1>1, <2>1, NothingQueued
<1> QED BY <1>2, <1>3 DEF Environment

LEMMA BooksKept == IInv /\ SInv /\ [Next]_vars => SInv'
<1> SUFFICES ASSUME IInv, SInv, [Next]_vars PROVE SInv'
  OBVIOUS
<1>1. CASE UserStep
  BY <1>1, LoopSendKeepsBooks, LoopShutdownKeepsBooks, SendTestKeepsBooks,
     SendQueueKeepsBooks, ShutdownStepsKeepBooks, OutsideKeepsBooks DEF UserStep
<1>2. CASE Functor
  BY <1>2, RunSendKeepsBooks, RunShutdownKeepsBooks, OtherFunctorKeepsBooks DEF Functor
<1>3. CASE Poll \/ HandleEvent
  BY <1>3, EventKeepsBooks
<1>4. CASE Environment \/ UNCHANGED vars
  BY <1>4, OutsideKeepsBooks
<1> QED BY <1>1, <1>2, <1>3, <1>4 DEF Next

(* A graceful shutdown: when the write side is closed, every message that  *)
(* a thread had sent before its own shutdown() is on the wire in full,     *)
(* unless the connection was reset or reported DOWN, or handleWrite or a   *)
(* shutdown() in the loop closed it ahead of the functor that waited with  *)
(* the message; nothing that the loop thread sent is lost in this way.     *)
THEOREM GracefulShutdown == Spec => []NothingLeftBehind
<1>1. ASSUME IInv, SInv, finSent, NEW m \in promised, m \notin overtaken, peer # "rst",
             ~(downs > 0)
      PROVE  Written(m)
  <2>1. Count(accepted, m) = MessageLen
    BY <1>1 DEF SInv, BytesInv, Done
  <2>2. downs = 0
    BY <1>1 DEF IInv, TypeOK
  <2>3. out = <<>>
    BY <1>1, <2>2 DEF IInv, Asks
  <2>4. accepted = wire
    <3>1. wire \in Seq(Messages)
      BY <1>1 DEF IInv, TypeOK
    <3> QED BY <1>1, <2>3, <3>1, ConcatEmptySeq DEF IInv, StreamIntact
  <2> QED BY <2>1, <2>4 DEF Count, Written
<1>2. SInv => overtaken \cap sent[LoopThread] = {}
  <2>1. SInv => \A th \in Threads : sent[LoopThread] \cap sent[th] = {}
    BY ThreadsAssumption DEF SInv, SentOnce, AllThreads
  <2> QED BY <2>1 DEF SInv, BytesInv, Others
<1>3. IInv /\ SInv => NothingLeftBehind
  BY <1>1, <1>2 DEF NothingLeftBehind
<1> QED BY <1>3, ShutdownInitially, BooksKept, Inductive, PTL DEF Spec
=============================================================================
