-------------------------- MODULE TcpServer_proofs ---------------------------
(***************************************************************************)
(* For any number of connections and of io loops: the channel of a         *)
(* connection is out of its poller before the connection is freed, and     *)
(* what has been freed is not touched again.                               *)
(***************************************************************************)
EXTENDS TcpServer, SequenceTheorems, TLAPS

-----------------------------------------------------------------------------
(* Queues of functors. *)

In(q, f) == \E i \in 1 .. Len(q) : q[i] = f
Once(q, f) == \A i, j \in 1 .. Len(q) : q[i] = f /\ q[j] = f => i = j
Before(q, f, g) == \A i \in 1 .. Len(q) : q[i] = f => \E j \in 1 .. Len(q) : i < j /\ q[j] = g

LEMMA Appending ==
    ASSUME NEW q \in Seq(Functors), NEW f \in Functors
    PROVE  /\ Append(q, f) \in Seq(Functors)
           /\ \A g : In(Append(q, f), g) <=> In(q, g) \/ g = f
           /\ \A g : Once(q, g) /\ (g # f \/ ~In(q, f)) => Once(Append(q, f), g)
           /\ \A g, h : Before(q, g, h) /\ g # f => Before(Append(q, f), g, h)
           /\ \A g : g # f => Before(Append(q, f), g, f)
<1> DEFINE r == Append(q, f)
<1>1. /\ r \in Seq(Functors) /\ Len(q) \in Nat /\ Len(r) = Len(q) + 1
      /\ \A i \in 1 .. Len(q) : r[i] = q[i]
      /\ r[Len(q) + 1] = f
  OBVIOUS
<1>2. 1 .. Len(r) = 1 .. Len(q) \cup {Len(q) + 1}
  BY <1>1
<1> HIDE DEF r
<1>3. \A g : In(r, g) <=> In(q, g) \/ g = f
  BY <1>1, <1>2 DEF In
<1>4. \A g : Once(q, g) /\ (g # f \/ ~In(q, f)) => Once(r, g)
  BY <1>1, <1>2 DEF In, Once
<1>5. \A g, h : Before(q, g, h) /\ g # f => Before(r, g, h)
  BY <1>1, <1>2 DEF Before
<1>6. \A g : g # f => Before(r, g, f)
  BY <1>1, <1>2 DEF Before
<1> QED BY <1>1, <1>3, <1>4, <1>5, <1>6 DEF r

LEMMA Taking ==
    ASSUME NEW q \in Seq(Functors), q # <<>>
    PROVE  /\ Head(q) \in Functors /\ Tail(q) \in Seq(Functors) /\ In(q, Head(q))
           /\ \A g : In(Tail(q), g) => In(q, g)
           /\ \A g : In(q, g) => g = Head(q) \/ In(Tail(q), g)
           /\ \A g : Once(q, g) => Once(Tail(q), g)
           /\ Once(q, Head(q)) => ~In(Tail(q), Head(q))
           /\ \A g, h : Before(q, g, h) => Before(Tail(q), g, h)
           /\ \A h : Before(q, Head(q), h) => In(Tail(q), h)
<1> DEFINE r == Tail(q)  e == Head(q)
<1>1. /\ e \in Functors /\ r \in Seq(Functors) /\ Len(q) \in Nat \ {0} /\ Len(r) = Len(q) - 1
      /\ \A i \in 1 .. Len(r) : r[i] = q[i + 1]
      /\ e = q[1]
  BY HeadTailProperties, EmptySeq
<1> HIDE DEF r, e
<1>2. \A i \in 1 .. Len(q) : i = 1 \/ (i - 1 \in 1 .. Len(r) /\ q[i] = r[i - 1])
  BY <1>1
<1>3. In(q, e) /\ (\A g : In(r, g) => In(q, g)) /\ (\A g : In(q, g) => g = e \/ In(r, g))
  BY <1>1, <1>2 DEF In
<1>4. \A g : Once(q, g) => Once(r, g)
  BY <1>1 DEF Once
<1>5. Once(q, e) => ~In(r, e)
  BY <1>1 DEF Once, In
<1>6. \A g, h : Before(q, g, h) => Before(r, g, h)
  <2>1. SUFFICES ASSUME NEW g, NEW h, Before(q, g, h), NEW i \in 1 .. Len(r), r[i] = g
                 PROVE  \E j \in 1 .. Len(r) : i < j /\ r[j] = h
    BY DEF Before
  <2>2. i + 1 \in 1 .. Len(q) /\ q[i + 1] = g
    BY <1>1, <2>1
  <2>3. PICK j \in 1 .. Len(q) : i + 1 < j /\ q[j] = h
    BY <2>1, <2>2 DEF Before
  <2>4. j - 1 \in 1 .. Len(r) /\ r[j - 1] = h /\ i < j - 1
    BY <1>1, <1>2, <2>1, <2>3
  <2> QED BY <2>4
<1>7. \A h : Before(q, e, h) => In(r, h)
  <2>1. SUFFICES ASSUME NEW h, Before(q, e, h) PROVE In(r, h)
    OBVIOUS
  <2>2. PICK j \in 1 .. Len(q) : 1 < j /\ q[j] = h
    BY <1>1, <2>1 DEF Before
  <2> QED BY <1>1, <1>2, <2>2 DEF In
<1> QED BY <1>1, <1>3, <1>4, <1>5, <1>6, <1>7 DEF r, e

LEMMA Nothing == \A f, g : ~In(<<>>, f) /\ Once(<<>>, f) /\ Before(<<>>, f, g)
BY DEF In, Once, Before

-----------------------------------------------------------------------------
(* What a loop has yet to run: its batch, then what was queued since.      *)
queues == [l \in Loops |-> batch[l] \o tasks[l]]

Kinds == {"establish", "remove", "destroy"}
Establish(c) == <<"establish", c>>
Remove(c) == <<"remove", c>>
Destroy(c) == <<"destroy", c>>

LEMMA FunctorsOf ==
    /\ \A c \in Conns : {Establish(c), Remove(c), Destroy(c)} \subseteq Functors
    /\ \A f \in Functors : \E c \in Conns : f \in {Establish(c), Remove(c), Destroy(c)}
    /\ \A f \in Functors : f[2] \in Conns
                           /\ (f[1] = "establish" => f = Establish(f[2]))
                           /\ (f[1] = "remove" => f = Remove(f[2]))
                           /\ (f[1] = "destroy" => f = Destroy(f[2]))
    /\ \A c, d : /\ Establish(c) # Remove(d) /\ Establish(c) # Destroy(d) /\ Remove(c) # Destroy(d)
                 /\ Establish(c)[2] = c /\ Remove(c)[2] = c /\ Destroy(c)[2] = c
                 /\ (c # d => Establish(c) # Establish(d) /\ Remove(c) # Remove(d)
                              /\ Destroy(c) # Destroy(d))
BY DEF Functors, Establish, Remove, Destroy

LEMMA QueuesType == TypeOK => queues \in [Loops -> Seq(Functors)]
<1> SUFFICES ASSUME TypeOK, NEW l \in Loops PROVE batch[l] \o tasks[l] \in Seq(Functors)
  BY DEF queues
<1> QED BY ConcatProperties DEF TypeOK

(* What keeps a connection alive, in terms of the queues. *)
Pending(c) == \E l \in Loops : In(queues[l], Establish(c)) \/ In(queues[l], Remove(c))
                               \/ In(queues[l], Destroy(c))

LEMMA InRanges ==
    ASSUME TypeOK, NEW l \in Loops, NEW f
    PROVE  In(queues[l], f) <=> f \in Range(tasks[l]) \cup Range(batch[l])
<1> DEFINE b == batch[l]  t == tasks[l]  q == b \o t
<1>1. b \in Seq(Functors) /\ t \in Seq(Functors)
  BY DEF TypeOK
<1>2. /\ Len(b) \in Nat /\ DOMAIN b = 1 .. Len(b) /\ Len(t) \in Nat /\ DOMAIN t = 1 .. Len(t)
  BY <1>1, LenProperties
<1>3. queues[l] = q
  BY DEF queues
<1> HIDE DEF b, t
<1>4. Len(q) = Len(b) + Len(t)
      /\ \A i \in 1 .. Len(b) + Len(t) : q[i] = IF i <= Len(b) THEN b[i] ELSE t[i - Len(b)]
  BY <1>1, ConcatProperties
<1> HIDE DEF q
<1>5. ASSUME In(q, f) PROVE f \in Range(t) \cup Range(b)
  <2>1. PICK i \in 1 .. Len(b) + Len(t) : q[i] = f
    BY <1>4, <1>5 DEF In
  <2>2. CASE i <= Len(b)
    BY <1>2, <1>4, <2>1, <2>2 DEF Range
  <2>3. CASE ~(i <= Len(b))
    <3>1. i - Len(b) \in 1 .. Len(t) /\ t[i - Len(b)] = f
      BY <1>2, <1>4, <2>1, <2>3
    <3> QED BY <1>2, <3>1 DEF Range
  <2> QED BY <2>2, <2>3
<1>6. ASSUME f \in Range(b) PROVE In(q, f)
  <2>1. PICK i \in 1 .. Len(b) : b[i] = f
    BY <1>2, <1>6 DEF Range
  <2>2. i \in 1 .. Len(q) /\ q[i] = f
    BY <1>2, <1>4, <2>1
  <2> QED BY <2>2 DEF In
<1>7. ASSUME f \in Range(t) PROVE In(q, f)
  <2>1. PICK i \in 1 .. Len(t) : t[i] = f
    BY <1>2, <1>7 DEF Range
  <2>2. i + Len(b) \in 1 .. Len(q) /\ q[i + Len(b)] = f
    BY <1>2, <1>4, <2>1
  <2> QED BY <2>2 DEF In
<1> QED BY <1>3, <1>5, <1>6, <1>7 DEF b, t

LEMMA HeldIs ==
    ASSUME TypeOK, NEW c \in Conns
    PROVE  Held(c) <=> c \in connections \/ Pending(c)
<1>1. ASSUME NEW l \in Loops, NEW f \in Range(tasks[l]) \cup Range(batch[l]), f[2] = c
      PROVE  Pending(c)
  <2>1. In(queues[l], f)
    BY <1>1, InRanges
  <2>2. f \in Functors
    <3>1. queues[l] \in Seq(Functors)
      BY QueuesType
    <3> QED BY <2>1, <3>1, ElementOfSeq DEF In
  <2>3. f \in {Establish(c), Remove(c), Destroy(c)}
    BY <1>1, <2>2, FunctorsOf
  <2> QED BY <2>1, <2>3 DEF Pending
<1>2. ASSUME Pending(c)
      PROVE  \E l \in Loops : \E f \in Range(tasks[l]) \cup Range(batch[l]) : f[2] = c
  <2>1. PICK l \in Loops : \E f \in {Establish(c), Remove(c), Destroy(c)} : In(queues[l], f)
    BY <1>2 DEF Pending
  <2> QED BY <2>1, InRanges, FunctorsOf
<1> QED BY <1>1, <1>2 DEF Held

LEMMA HeldIsNext == (TypeOK => \A c \in Conns : Held(c) <=> c \in connections \/ Pending(c))'
<1>1. TypeOK => \A c \in Conns : Held(c) <=> c \in connections \/ Pending(c)
  BY HeldIs
<1> QED BY <1>1, PTL

-----------------------------------------------------------------------------
LEMMA ConcatAppend ==
    ASSUME NEW b \in Seq(Functors), NEW t \in Seq(Functors), NEW f \in Functors
    PROVE  b \o Append(t, f) = Append(b \o t, f)
<1>1. /\ b \o t \in Seq(Functors) /\ Len(b \o t) = Len(b) + Len(t)
      /\ \A i \in 1 .. Len(b) + Len(t) : (b \o t)[i] = IF i <= Len(b) THEN b[i] ELSE t[i - Len(b)]
  BY ConcatProperties
<1>2. /\ Append(t, f) \in Seq(Functors) /\ Len(Append(t, f)) = Len(t) + 1
      /\ \A i \in 1 .. Len(t) : Append(t, f)[i] = t[i]
      /\ Append(t, f)[Len(t) + 1] = f /\ Len(t) \in Nat /\ Len(b) \in Nat
  OBVIOUS
<1> DEFINE s == b \o t  u == Append(t, f)  v == b \o u  w == Append(s, f)
<1>3. /\ v \in Seq(Functors) /\ Len(v) = Len(b) + Len(u)
      /\ \A i \in 1 .. Len(b) + Len(u) : v[i] = IF i <= Len(b) THEN b[i] ELSE u[i - Len(b)]
  BY <1>2, ConcatProperties
<1>4. /\ w \in Seq(Functors) /\ Len(w) = Len(s) + 1
      /\ \A i \in 1 .. Len(s) : w[i] = s[i]
      /\ w[Len(s) + 1] = f
  BY <1>1
<1> HIDE DEF s, u, v, w
<1>5. Len(s) = Len(b) + Len(t)
      /\ \A i \in 1 .. Len(b) + Len(t) : s[i] = IF i <= Len(b) THEN b[i] ELSE t[i - Len(b)]
  BY <1>1 DEF s
<1>6. Len(u) = Len(t) + 1 /\ u[Len(t) + 1] = f /\ \A i \in 1 .. Len(t) : u[i] = t[i]
  BY <1>2 DEF u
<1>7. ASSUME NEW i \in 1 .. Len(v) PROVE v[i] = w[i]
  <2>1. Len(b) \in Nat /\ Len(t) \in Nat /\ i \in 1 .. Len(b) + Len(u) /\ i \in Nat
    BY <1>2, <1>3
  <2>2. v[i] = IF i <= Len(b) THEN b[i] ELSE u[i - Len(b)]
    BY <1>3, <2>1
  <2>3. CASE i <= Len(b) + Len(t)
    <3>1. i \in 1 .. Len(s) /\ w[i] = IF i <= Len(b) THEN b[i] ELSE t[i - Len(b)]
      BY <1>4, <1>5, <2>1, <2>3
    <3>2. i <= Len(b) \/ i - Len(b) \in 1 .. Len(t)
      BY <2>1, <2>3
    <3> QED BY <1>6, <2>2, <3>1, <3>2
  <2>4. CASE i = Len(b) + Len(t) + 1
    <3>1. ~(i <= Len(b)) /\ i - Len(b) = Len(t) + 1 /\ i = Len(s) + 1
      BY <1>5, <2>1, <2>4
    <3> QED BY <1>4, <1>6, <2>2, <3>1
  <2> QED BY <1>6, <2>1, <2>3, <2>4
<1>8. Len(v) = Len(w)
  BY <1>2, <1>3, <1>4, <1>5, <1>6
<1>9. v = w
  BY <1>3, <1>4, <1>7, <1>8, SeqEqual
<1> QED BY <1>9 DEF s, u, v, w

(* The steps of the queues: a functor is queued, one is taken, and the     *)
(* swap changes nothing.                                                   *)
LEMMA Queued ==
    ASSUME TypeOK, NEW l \in Loops, NEW f \in Functors, queueInLoop(l, f), batch' = batch
    PROVE  /\ tasks' \in [Loops -> Seq(Functors)]
           /\ queues' = [queues EXCEPT ![l] = Append(@, f)]
<1>1. batch \in [Loops -> Seq(Functors)] /\ tasks \in [Loops -> Seq(Functors)]
  BY DEF TypeOK
<1>2. tasks' = [tasks EXCEPT ![l] = Append(@, f)]
  BY DEF queueInLoop
<1>3. \A b, t \in Seq(Functors) : b \o Append(t, f) = Append(b \o t, f)
  BY ConcatAppend
<1>4. tasks' \in [Loops -> Seq(Functors)]
  BY <1>1, <1>2
<1>5. \A k \in Loops : batch'[k] \o tasks'[k]
                      = IF k = l THEN Append(batch[k] \o tasks[k], f) ELSE batch[k] \o tasks[k]
  BY <1>1, <1>2, <1>3
<1> QED BY <1>4, <1>5 DEF queues

LEMMA TakenFromBatch ==
    ASSUME TypeOK, NEW l \in Loops, batch[l] # <<>>, batch' = [batch EXCEPT ![l] = Tail(@)],
           tasks' = tasks
    PROVE  /\ batch' \in [Loops -> Seq(Functors)]
           /\ queues[l] # <<>> /\ Head(queues[l]) = Head(batch[l])
           /\ queues' = [queues EXCEPT ![l] = Tail(@)]
<1>1. batch \in [Loops -> Seq(Functors)] /\ tasks \in [Loops -> Seq(Functors)]
  BY DEF TypeOK
<1> DEFINE b == batch[l]  t == tasks[l]  s == b \o t  u == Tail(b)  v == u \o t  w == Tail(s)
<1>2. b \in Seq(Functors) /\ t \in Seq(Functors) /\ b # <<>>
  BY <1>1
<1>3. /\ u \in Seq(Functors) /\ Len(u) = Len(b) - 1 /\ Len(b) \in Nat \ {0} /\ Len(t) \in Nat
      /\ \A i \in 1 .. Len(u) : u[i] = b[i + 1]
      /\ Head(b) = b[1]
  BY <1>2, HeadTailProperties, EmptySeq, LenProperties
<1>4. /\ s \in Seq(Functors) /\ Len(s) = Len(b) + Len(t)
      /\ \A i \in 1 .. Len(b) + Len(t) : s[i] = IF i <= Len(b) THEN b[i] ELSE t[i - Len(b)]
  BY <1>2, ConcatProperties
<1>5. /\ v \in Seq(Functors) /\ Len(v) = Len(u) + Len(t)
      /\ \A i \in 1 .. Len(u) + Len(t) : v[i] = IF i <= Len(u) THEN u[i] ELSE t[i - Len(u)]
  BY <1>2, <1>3, ConcatProperties
<1>6. s # <<>> /\ Head(s) = s[1]
  <2> HIDE DEF s, b, t
  <2> QED BY <1>3, <1>4, EmptySeq
<1>7. /\ w \in Seq(Functors) /\ Len(w) = Len(s) - 1
      /\ \A i \in 1 .. Len(w) : w[i] = s[i + 1]
  BY <1>4, <1>6, HeadTailProperties
<1>8. queues[l] = s /\ batch' \in [Loops -> Seq(Functors)]
      /\ \A k \in Loops : batch'[k] \o tasks'[k] = IF k = l THEN v ELSE queues[k]
  BY <1>1, <1>3 DEF queues
<1> HIDE DEF b, t, s, u, v, w
<1>9. v = w
  <2>1. ASSUME NEW i \in 1 .. Len(v) PROVE v[i] = w[i]
    <3>1. CASE i <= Len(u)
      BY <1>3, <1>4, <1>5, <1>7, <3>1
    <3>2. CASE ~(i <= Len(u))
      <4>1. /\ v[i] = t[i - Len(u)] /\ w[i] = s[i + 1]
        BY <1>3, <1>4, <1>5, <1>7, <3>2
      <4>2. s[i + 1] = t[i + 1 - Len(b)]
        BY <1>3, <1>4, <1>5, <3>2
      <4>3. i + 1 - Len(b) = i - Len(u)
        BY <1>3, <1>5
      <4> QED BY <4>1, <4>2, <4>3
    <3> QED BY <3>1, <3>2
  <2>2. Len(v) = Len(w)
    BY <1>3, <1>4, <1>5, <1>7
  <2> QED BY <1>5, <1>7, <2>1, <2>2, SeqEqual
<1>10. Head(queues[l]) = Head(batch[l])
  BY <1>3, <1>4, <1>6, <1>8 DEF b
<1>11. queues' = [queues EXCEPT ![l] = Tail(@)]
  <2>1. queues' = [k \in Loops |-> IF k = l THEN v ELSE queues[k]]
    BY <1>8 DEF queues
  <2> QED BY <1>8, <1>9, <2>1 DEF w, queues
<1> QED BY <1>6, <1>8, <1>10, <1>11

LEMMA TakenFromTasks ==
    ASSUME TypeOK, NEW l \in Loops, batch[l] = <<>>
    PROVE  queues[l] = tasks[l]
BY ConcatEmptySeq DEF queues, TypeOK

LEMMA Swapped ==
    ASSUME TypeOK, NEW l \in Loops, batch[l] = <<>>, batch' = [batch EXCEPT ![l] = tasks[l]],
           tasks' = [tasks EXCEPT ![l] = <<>>]
    PROVE  /\ batch' \in [Loops -> Seq(Functors)] /\ tasks' \in [Loops -> Seq(Functors)]
           /\ queues' = queues
<1>1. batch \in [Loops -> Seq(Functors)] /\ tasks \in [Loops -> Seq(Functors)]
  BY DEF TypeOK
<1>2. \A q \in Seq(Functors) : <<>> \o q = q /\ q \o <<>> = q
  BY ConcatEmptySeq
<1>3. \A k \in Loops : batch'[k] \o tasks'[k] = batch[k] \o tasks[k]
  BY <1>1, <1>2
<1> QED BY <1>1, <1>3 DEF queues

-----------------------------------------------------------------------------
(* A connection: what it was told. *)
Reported(c) ==
    /\ state[c] \in {Waiting, "kConnecting"} => ups[c] = 0
    /\ state[c] = "kConnected" => ups[c] = 1 /\ downs[c] = 0
    /\ state[c] = "kDisconnected" => ups[c] = 1

(* It is established once, in its io loop, and if it has left the map by   *)
(* then, it is destroyed after that.                                       *)
Establishing(c) ==
    \A l \in Loops : In(queues[l], Establish(c)) =>
        /\ l = loopOf[c] /\ l # Main /\ state[c] = "kConnecting"
        /\ Once(queues[l], Establish(c))
        /\ c \in connections \/ Before(queues[l], Establish(c), Destroy(c))

(* It is taken from the map once, in the main loop, having been there.     *)
Removing(c) ==
    \A l \in Loops : In(queues[l], Remove(c)) =>
        /\ l = Main /\ loopOf[c] # Main /\ state[c] = "kDisconnected"
        /\ Once(queues[l], Remove(c))
        /\ owner = "running" => c \in connections

(* And destroyed once, in its loop, when it is out of the map.             *)
Destroying(c) ==
    \A l \in Loops : In(queues[l], Destroy(c)) =>
        /\ l = loopOf[c] /\ c \notin connections /\ state[c] # Waiting
        /\ Once(queues[l], Destroy(c))
        /\ owner = "running" => state[c] = "kDisconnected"

(* Until it is closed the map has it. *)
InMap(c) ==
    /\ owner = "running" /\ state[c] \in {"kConnecting", "kConnected"} => c \in connections
    /\ state[c] = Waiting => c \notin connections /\ ~mapped[c]

Alive(c) ==
    mapped[c] /\ thread[loopOf[c]] # "done" => c \in connections \/ Pending(c)

ConnInv(c) == /\ Reported(c) /\ Establishing(c) /\ Removing(c) /\ Destroying(c)
              /\ InMap(c) /\ Alive(c)

(* A batch is done before the next swap; the main loop has none.           *)
BatchDone ==
    /\ \A l \in Loops : thread[l] # "functors" => batch[l] = <<>>
    /\ thread[Main] = "none"

(* Until the acceptor listens nobody has connected. *)
Unused == owner \in {"new", "starting"} => \A c \in Conns : state[c] = Waiting

IInv == TypeOK /\ BatchDone /\ Unused /\ \A c \in Conns : ConnInv(c)

LEMMA MainIsALoop == Main \in Loops /\ \A l \in IoLoops : TypeOK => l \in Loops /\ l # Main
BY MaxThreadsAssumption DEF Main, Loops, IoLoops, TypeOK

LEMMA Initially == Init => IInv
<1> SUFFICES ASSUME Init PROVE IInv
  OBVIOUS
<1>1. TypeOK
  <2>1. numThreads \in 0 .. MaxThreads /\ 0 \in 0 .. numThreads /\ 0 \in 0 .. MaxThreads
    BY MaxThreadsAssumption DEF Init
  <2>2. <<>> \in Seq(Functors)
    BY EmptySeq
  <2>3. \A c \in Conns : downs[c] = 0 /\ ups[c] = 0
    BY DEF Init
  <2>4. /\ owner \in {"new", "starting", "running", "dying", "joining", "dead"}
        /\ started \in 0 .. numThreads /\ next \in 0 .. MaxThreads /\ next = 0 /\ ending \in 0 .. started
    BY <2>1 DEF Init
  <2>5. /\ thread \in [Loops -> {"none", "init", "ready", "check", "events", "functors", "done"}]
        /\ quit \in [Loops -> BOOLEAN] /\ lostQuit \in BOOLEAN
        /\ connections \subseteq Conns /\ gone \subseteq Conns
        /\ loopOf \in [Conns -> Loops] /\ mapped \in [Conns -> BOOLEAN]
    BY MainIsALoop DEF Init
  <2>6. tasks \in [Loops -> Seq(Functors)] /\ batch \in [Loops -> Seq(Functors)]
    BY <2>2 DEF Init
  <2>7. /\ state \in [Conns -> {Waiting, "kConnecting", "kConnected", "kDisconnected"}]
        /\ ups \in [Conns -> 0 .. 1] /\ downs \in [Conns -> 0 .. 1]
        /\ \A c \in Conns : downs[c] <= ups[c]
    BY <2>3 DEF Init
  <2> QED BY <2>1, <2>4, <2>5, <2>6, <2>7 DEF TypeOK
<1>2. BatchDone /\ Unused
  BY MainIsALoop DEF Init, BatchDone, Unused
<1>3. \A l \in Loops : queues[l] = <<>>
  BY ConcatEmptySeq, EmptySeq DEF Init, queues
<1>4. ASSUME NEW c \in Conns PROVE ConnInv(c)
  <2>1. \A l \in Loops : \A f : ~In(queues[l], f)
    BY <1>3, Nothing
  <2>2. Reported(c) /\ InMap(c) /\ Alive(c)
    BY DEF Init, Reported, InMap, Alive, Waiting
  <2> QED BY <2>1, <2>2 DEF ConnInv, Establishing, Removing, Destroying
<1> QED BY <1>1, <1>2, <1>4 DEF IInv

-----------------------------------------------------------------------------
(* The connections a step is not about. *)
SameConn(d) ==
    /\ state'[d] = state[d] /\ mapped'[d] = mapped[d] /\ ups'[d] = ups[d]
    /\ downs'[d] = downs[d] /\ loopOf'[d] = loopOf[d]
    /\ d \in connections' <=> d \in connections

SameFunctors(d) ==
    \A l \in Loops :
        /\ \A f \in {Establish(d), Remove(d), Destroy(d)} :
              /\ In(queues'[l], f) <=> In(queues[l], f)
              /\ Once(queues[l], f) => Once(queues'[l], f)
        /\ Before(queues[l], Establish(d), Destroy(d)) => Before(queues'[l], Establish(d), Destroy(d))

LEMMA Untouched ==
    ASSUME IInv, NEW d \in Conns, SameConn(d), SameFunctors(d),
           owner' = "running" => owner = "running" \/ state[d] = Waiting,
           thread[loopOf[d]] = "done" => thread'[loopOf[d]] = "done"
    PROVE  ConnInv(d)'
<1>1. ConnInv(d)
  BY DEF IInv
<1>2. Reported(d)'
  BY <1>1 DEF ConnInv, Reported, SameConn
<1>3. Establishing(d)'
  BY <1>1 DEF ConnInv, Establishing, SameConn, SameFunctors
<1>4. Removing(d)'
  BY <1>1 DEF ConnInv, Removing, SameConn, SameFunctors, Waiting
<1>5. Destroying(d)'
  BY <1>1 DEF ConnInv, Destroying, SameConn, SameFunctors, Waiting
<1>6. InMap(d)'
  BY <1>1 DEF ConnInv, InMap, SameConn, Waiting
<1>7. Alive(d)'
  BY <1>1 DEF ConnInv, Alive, Pending, SameConn, SameFunctors
<1> QED BY <1>2, <1>3, <1>4, <1>5, <1>6, <1>7 DEF ConnInv

(* Functors come and go that are about c. *)
OnlyAbout(c) ==
    \A l \in Loops :
        \/ queues'[l] = queues[l]
        \/ \E f \in Functors : f[2] = c /\ queues'[l] = Append(queues[l], f)
        \/ queues[l] # <<>> /\ Head(queues[l])[2] = c /\ queues'[l] = Tail(queues[l])

LEMMA Others ==
    ASSUME TypeOK, NEW c \in Conns, NEW d \in Conns, c # d, OnlyAbout(c)
    PROVE  SameFunctors(d)
<1> SUFFICES ASSUME NEW l \in Loops
             PROVE  /\ \A f \in {Establish(d), Remove(d), Destroy(d)} :
                          /\ In(queues'[l], f) <=> In(queues[l], f)
                          /\ Once(queues[l], f) => Once(queues'[l], f)
                    /\ Before(queues[l], Establish(d), Destroy(d))
                         => Before(queues'[l], Establish(d), Destroy(d))
  BY DEF SameFunctors
<1>1. queues[l] \in Seq(Functors)
  BY QueuesType
<1>2. \A g : g[2] = c => g \notin {Establish(d), Remove(d), Destroy(d)}
  BY FunctorsOf
<1>3. CASE queues'[l] = queues[l]
  BY <1>3
<1>4. ASSUME NEW g \in Functors, g[2] = c, queues'[l] = Append(queues[l], g)
      PROVE  /\ \A f \in {Establish(d), Remove(d), Destroy(d)} :
                   /\ In(queues'[l], f) <=> In(queues[l], f)
                   /\ Once(queues[l], f) => Once(queues'[l], f)
             /\ Before(queues[l], Establish(d), Destroy(d))
                  => Before(queues'[l], Establish(d), Destroy(d))
  BY <1>1, <1>2, <1>4, Appending
<1>5. CASE queues[l] # <<>> /\ Head(queues[l])[2] = c /\ queues'[l] = Tail(queues[l])
  BY <1>1, <1>2, <1>5, Taking
<1> QED BY <1>3, <1>4, <1>5 DEF OnlyAbout

-----------------------------------------------------------------------------
(* The steps that leave the connections and their functors alone.          *)
LEMMA ElsewhereKeeps ==
    ASSUME IInv, UNCHANGED <<connections, loopOf, connVars>>, queues' = queues,
           owner' = "running" => owner = "running" \/ \A d \in Conns : state[d] = Waiting,
           \A l \in Loops : thread[l] = "done" => thread'[l] = "done"
    PROVE  \A d \in Conns : ConnInv(d)'
<1> TAKE d \in Conns
<1>1. SameConn(d) /\ SameFunctors(d)
  BY DEF SameConn, SameFunctors, connVars
<1>2. loopOf[d] \in Loops
  BY DEF IInv, TypeOK
<1> QED BY <1>1, <1>2, Untouched

LEMMA SameQueues == UNCHANGED <<tasks, batch>> => queues' = queues
BY DEF queues

LEMMA OwnerKeeps ==
    ASSUME IInv, \/ Start \/ Die \/ JoinThreads \/ QuitThread \/ Dead
                 \/ \E l \in IoLoops : startThread(l) \/ loopSet(l)
    PROVE  IInv'
<1> USE DEF poolVars, threadVars, connVars
<1>1. UNCHANGED <<tasks, batch, connections, loopOf, state, mapped, ups, downs, gone>>
  BY DEF Start, Die, JoinThreads, QuitThread, Dead, startThread, loopSet
<1>2. /\ owner' = "running" => owner \in {"new", "starting", "running"}
      /\ owner' \in {"new", "starting"} => owner \in {"new", "starting"}
  BY DEF Start, Die, JoinThreads, QuitThread, Dead, startThread, loopSet
<1>3. /\ thread' \in [Loops -> {"none", "init", "ready", "check", "events", "functors", "done"}]
      /\ \A l \in Loops : thread'[l] = thread[l] \/ (l # Main /\ thread[l] = "none" /\ thread'[l] = "init")
  BY MainIsALoop DEF Start, Die, JoinThreads, QuitThread, Dead, startThread, loopSet, IInv, TypeOK
<1>4. TypeOK'
  <2>1. /\ owner' \in {"new", "starting", "running", "dying", "joining", "dead"}
        /\ numThreads' \in 0 .. MaxThreads /\ started' \in 0 .. numThreads'
        /\ next' \in 0 .. MaxThreads /\ (next' = 0 \/ next' < started') /\ ending' \in 0 .. started'
    BY MaxThreadsAssumption DEF Start, Die, JoinThreads, QuitThread, Dead, startThread, loopSet, IInv, TypeOK, IoLoops
  <2>2. quit' \in [Loops -> BOOLEAN] /\ lostQuit' \in BOOLEAN
    BY DEF Start, Die, JoinThreads, QuitThread, Dead, startThread, loopSet, IInv, TypeOK
  <2> QED BY <1>1, <1>3, <2>1, <2>2 DEF IInv, TypeOK
<1>5. BatchDone'
  BY <1>1, <1>3, MainIsALoop DEF IInv, BatchDone
<1>6. Unused'
  BY <1>1, <1>2 DEF IInv, Unused
<1>7. \A c \in Conns : ConnInv(c)'
  <2>1. owner' = "running" => owner = "running" \/ \A d \in Conns : state[d] = Waiting
    BY <1>2 DEF IInv, Unused
  <2>2. \A l \in Loops : thread[l] = "done" => thread'[l] = "done"
    BY <1>3
  <2> QED BY <1>1, <2>1, <2>2, SameQueues, ElsewhereKeeps
<1> QED BY <1>4, <1>5, <1>6, <1>7 DEF IInv

LEMMA QuietIoStepKeeps ==
    ASSUME IInv, NEW l \in IoLoops,
           setLoop(l) \/ EnterLoop(l) \/ CheckQuit(l) \/ SwapFunctors(l) \/ EndFunctors(l)
    PROVE  IInv' /\ queues' = queues
<1> USE DEF poolVars, threadVars, connVars
<1>1. UNCHANGED <<owner, numThreads, started, next, ending, connections, loopOf, state, mapped, ups, downs, gone>>
  BY DEF setLoop, EnterLoop, CheckQuit, SwapFunctors, EndFunctors
<1>2. l \in Loops /\ l # Main
  BY MainIsALoop DEF IInv
<1>3. /\ thread' \in [Loops -> {"none", "init", "ready", "check", "events", "functors", "done"}]
      /\ \A k \in Loops : thread[k] = "done" => thread'[k] = "done"
      /\ \A k \in Loops \ {l} : thread'[k] = thread[k]
      /\ quit' \in [Loops -> BOOLEAN] /\ lostQuit' \in BOOLEAN
  BY <1>2 DEF setLoop, EnterLoop, CheckQuit, SwapFunctors, EndFunctors, Goto, IInv, TypeOK
<1>4. /\ batch' \in [Loops -> Seq(Functors)] /\ tasks' \in [Loops -> Seq(Functors)]
      /\ queues' = queues /\ BatchDone'
  <2>1. CASE SwapFunctors(l)
    <3>1. /\ thread[l] = "events" /\ thread'[l] = "functors"
          /\ batch' = [batch EXCEPT ![l] = tasks[l]] /\ tasks' = [tasks EXCEPT ![l] = <<>>]
      BY <1>2, <2>1 DEF SwapFunctors, Goto, IInv, TypeOK
    <3>2. batch[l] = <<>>
      BY <1>2, <3>1 DEF IInv, BatchDone
    <3>3. batch' \in [Loops -> Seq(Functors)] /\ tasks' \in [Loops -> Seq(Functors)] /\ queues' = queues
      BY <1>2, <3>1, <3>2, Swapped DEF IInv
    <3>4. BatchDone'
      BY <1>2, <1>3, <3>1, MainIsALoop DEF IInv, BatchDone, TypeOK
    <3> QED BY <3>3, <3>4
  <2>2. CASE setLoop(l) \/ EnterLoop(l) \/ CheckQuit(l) \/ EndFunctors(l)
    <3>1. UNCHANGED <<tasks, batch>>
      BY <2>2 DEF setLoop, EnterLoop, CheckQuit, EndFunctors
    <3>2. thread'[l] # "functors" /\ batch[l] = <<>>
      BY <1>2, <2>2 DEF setLoop, EnterLoop, CheckQuit, EndFunctors, Goto, IInv, TypeOK, BatchDone
    <3>3. BatchDone'
      BY <1>2, <1>3, <3>1, <3>2, MainIsALoop DEF IInv, BatchDone
    <3> QED BY <3>1, <3>3, SameQueues DEF IInv, TypeOK
  <2> QED BY <2>1, <2>2
<1>5. TypeOK'
  BY <1>1, <1>3, <1>4 DEF IInv, TypeOK
<1>6. \A c \in Conns : ConnInv(c)'
  BY <1>1, <1>3, <1>4, ElsewhereKeeps
<1> QED BY <1>1, <1>4, <1>5, <1>6 DEF IInv, Unused

LEMMA PeerKeeps ==
    ASSUME IInv, (\E c \in Conns : PeerCloses(c)) \/ UNCHANGED vars
    PROVE  IInv'
<1>1. UNCHANGED <<owner, poolVars, threadVars, tasks, batch, connections, loopOf, connVars>>
      /\ gone' \subseteq Conns
  BY DEF PeerCloses, vars, IInv, TypeOK
<1>2. TypeOK' /\ BatchDone' /\ Unused'
  BY <1>1 DEF IInv, TypeOK, BatchDone, Unused, poolVars, threadVars, connVars
<1>3. \A c \in Conns : ConnInv(c)'
  BY <1>1, SameQueues, ElsewhereKeeps DEF threadVars
<1> QED BY <1>2, <1>3 DEF IInv

-----------------------------------------------------------------------------
(* The steps that are about one connection. *)
LEMMA ActingKeeps ==
    ASSUME IInv, NEW c \in Conns, TypeOK', ConnInv(c)', OnlyAbout(c),
           \A d \in Conns \ {c} : SameConn(d),
           UNCHANGED <<owner, thread>>, \A l \in Loops : thread[l] # "functors" => batch'[l] = batch[l],
           owner \in {"new", "starting"} => state' = state
    PROVE  IInv'
<1>1. BatchDone' /\ Unused'
  BY DEF IInv, BatchDone, Unused
<1>2. ASSUME NEW d \in Conns, d # c PROVE ConnInv(d)'
  <2>1. SameFunctors(d) /\ SameConn(d)
    BY <1>2, Others DEF IInv
  <2> QED BY <2>1, Untouched
<1> QED BY <1>1, <1>2 DEF IInv

(* A step is about a connection that is new or that somebody holds.        *)
About(c) ==
    /\ state[c] = Waiting \/ c \in connections \/ Pending(c)
    /\ OnlyAbout(c) /\ \A d \in Conns \ {c} : SameConn(d)

(* What the invariant says of a queue with a functor of c more. *)
LEMMA QueuedAbout ==
    ASSUME TypeOK, NEW c \in Conns, NEW l \in Loops, NEW f \in {Establish(c), Remove(c), Destroy(c)},
           queues' = [queues EXCEPT ![l] = Append(@, f)]
    PROVE  /\ OnlyAbout(c) /\ In(queues'[l], f) /\ Pending(c)'
           /\ \A k \in Loops \ {l} : queues'[k] = queues[k]
           /\ \A g : In(queues'[l], g) <=> In(queues[l], g) \/ g = f
           /\ \A g : Once(queues[l], g) /\ (g # f \/ ~In(queues[l], f)) => Once(queues'[l], g)
           /\ \A g, h : Before(queues[l], g, h) /\ g # f => Before(queues'[l], g, h)
           /\ \A g : g # f => Before(queues'[l], g, f)
<1>1. f \in Functors /\ f[2] = c
  BY FunctorsOf
<1>2. queues \in [Loops -> Seq(Functors)]
  BY QueuesType
<1>3. queues'[l] = Append(queues[l], f) /\ \A k \in Loops \ {l} : queues'[k] = queues[k]
  BY <1>2
<1>4. OnlyAbout(c)
  BY <1>1, <1>3 DEF OnlyAbout
<1>5. /\ \A g : In(queues'[l], g) <=> In(queues[l], g) \/ g = f
      /\ \A g : Once(queues[l], g) /\ (g # f \/ ~In(queues[l], f)) => Once(queues'[l], g)
      /\ \A g, h : Before(queues[l], g, h) /\ g # f => Before(queues'[l], g, h)
      /\ \A g : g # f => Before(queues'[l], g, f)
  BY <1>1, <1>2, <1>3, Appending
<1> QED BY <1>3, <1>4, <1>5 DEF Pending

(* And with one less. *)
LEMMA TakenAbout ==
    ASSUME TypeOK, NEW c \in Conns, NEW l \in Loops, queues[l] # <<>>,
           Head(queues[l]) \in {Establish(c), Remove(c), Destroy(c)},
           queues' = [queues EXCEPT ![l] = Tail(@)]
    PROVE  /\ OnlyAbout(c) /\ In(queues[l], Head(queues[l]))
           /\ \A k \in Loops \ {l} : queues'[k] = queues[k]
           /\ \A g : In(queues'[l], g) => In(queues[l], g)
           /\ \A g : In(queues[l], g) => g = Head(queues[l]) \/ In(queues'[l], g)
           /\ \A g : Once(queues[l], g) => Once(queues'[l], g)
           /\ Once(queues[l], Head(queues[l])) => ~In(queues'[l], Head(queues[l]))
           /\ \A g, h : Before(queues[l], g, h) => Before(queues'[l], g, h)
           /\ \A h : Before(queues[l], Head(queues[l]), h) => In(queues'[l], h)
<1>1. Head(queues[l])[2] = c
  BY FunctorsOf
<1>2. queues \in [Loops -> Seq(Functors)]
  BY QueuesType
<1>3. queues'[l] = Tail(queues[l]) /\ \A k \in Loops \ {l} : queues'[k] = queues[k]
  BY <1>2
<1>4. OnlyAbout(c)
  BY <1>1, <1>3 DEF OnlyAbout
<1>5. queues[l] \in Seq(Functors)
  BY <1>2
<1> QED BY <1>3, <1>4, <1>5, Taking

(* A name that no connection has yet is mentioned nowhere. *)
LEMMA UnknownYet ==
    ASSUME IInv, NEW c \in Conns, state[c] = Waiting
    PROVE  /\ \A l \in Loops, f \in {Establish(c), Remove(c), Destroy(c)} : ~In(queues[l], f)
           /\ ups[c] = 0 /\ downs[c] = 0 /\ ~mapped[c] /\ c \notin connections
<1>1. ConnInv(c) /\ Waiting \notin {"kConnecting", "kDisconnected"}
  BY DEF IInv, Waiting
<1>2. ups[c] = 0 /\ downs[c] = 0
  BY <1>1 DEF ConnInv, Reported, IInv, TypeOK
<1> QED BY <1>1, <1>2 DEF ConnInv, Establishing, Removing, Destroying, InMap

LEMMA NextLoop ==
    ASSUME TypeOK
    PROVE  /\ getNextLoop[1] \in Loops /\ (started = 0 => getNextLoop[1] = Main)
           /\ getNextLoop[2] \in 0 .. MaxThreads
           /\ (getNextLoop[2] = 0 \/ getNextLoop[2] < started)
<1>1. /\ started \in Nat /\ started <= MaxThreads /\ next \in Nat /\ next <= MaxThreads
      /\ (next = 0 \/ next < started) /\ MaxThreads \in Nat
  BY MaxThreadsAssumption DEF TypeOK
<1> QED BY <1>1 DEF getNextLoop, Loops, Main

LEMMA HandleReadKeeps ==
    ASSUME IInv, NEW c \in Conns, handleRead(c)
    PROVE  IInv' /\ About(c)
<1> DEFINE l == getNextLoop[1]
<1>1. /\ owner = "running" /\ state[c] = Waiting
      /\ next' = getNextLoop[2] /\ loopOf' = [loopOf EXCEPT ![c] = l]
      /\ connections' = connections \cup {c}
      /\ UNCHANGED <<owner, numThreads, started, ending, thread, quit, lostQuit, batch, gone>>
  BY DEF handleRead, newConnection, threadVars
<1>2. /\ l \in Loops /\ next' \in 0 .. MaxThreads /\ (next' = 0 \/ next' < started')
      /\ loopOf'[c] = l /\ loopOf' \in [Conns -> Loops]
  BY <1>1, NextLoop DEF IInv, TypeOK
<1>3. /\ \A k \in Loops, f \in {Establish(c), Remove(c), Destroy(c)} : ~In(queues[k], f)
      /\ ups[c] = 0 /\ downs[c] = 0 /\ ~mapped[c] /\ c \notin connections
  BY <1>1, UnknownYet
<1> HIDE DEF l
<1>4. CASE l = Main
  <2>1. /\ state' = [state EXCEPT ![c] = "kConnected"] /\ mapped' = [mapped EXCEPT ![c] = TRUE]
        /\ ups' = [ups EXCEPT ![c] = @ + 1] /\ downs' = downs /\ tasks' = tasks
    BY <1>1, <1>2, <1>4 DEF handleRead, newConnection, connectEstablished
  <2>2. queues' = queues
    BY <1>1, <2>1, SameQueues
  <2>3. TypeOK'
    <3>1. /\ state' \in [Conns -> {Waiting, "kConnecting", "kConnected", "kDisconnected"}]
          /\ mapped' \in [Conns -> BOOLEAN]
          /\ ups' \in [Conns -> 0 .. 1] /\ downs' \in [Conns -> 0 .. 1]
          /\ \A d \in Conns : downs'[d] <= ups'[d]
      BY <1>3, <2>1 DEF IInv, TypeOK
    <3> QED BY <1>1, <1>2, <2>1, <3>1 DEF IInv, TypeOK
  <2>4. \A d \in Conns \ {c} : SameConn(d)
    BY <1>1, <2>1 DEF SameConn, IInv, TypeOK
  <2>5. ConnInv(c)'
    <3>1. state'[c] = "kConnected" /\ ups'[c] = 1 /\ downs'[c] = 0
      BY <1>3, <2>1 DEF IInv, TypeOK
    <3> QED BY <1>1, <1>3, <2>2, <3>1 DEF ConnInv, Reported, Establishing, Removing, Destroying,
               InMap, Alive, Waiting
  <2>6. OnlyAbout(c)
    BY <2>2 DEF OnlyAbout
  <2> QED BY <1>1, <2>3, <2>4, <2>5, <2>6, ActingKeeps DEF About
<1>5. CASE l # Main
  <2>1. /\ state' = [state EXCEPT ![c] = "kConnecting"] /\ queueInLoop(l, Establish(c))
        /\ UNCHANGED <<mapped, ups, downs>>
    BY <1>1, <1>2, <1>5 DEF handleRead, newConnection, Establish
  <2>2. tasks' \in [Loops -> Seq(Functors)] /\ queues' = [queues EXCEPT ![l] = Append(@, Establish(c))]
    BY <1>1, <1>2, <2>1, Queued, FunctorsOf DEF IInv
  <2>3. TypeOK'
    BY <1>1, <1>2, <2>1, <2>2 DEF IInv, TypeOK
  <2>4. \A d \in Conns \ {c} : SameConn(d)
    BY <1>1, <2>1 DEF SameConn, IInv, TypeOK
  <2>5. /\ OnlyAbout(c)
        /\ \A k \in Loops \ {l} : queues'[k] = queues[k]
        /\ \A g : In(queues'[l], g) <=> In(queues[l], g) \/ g = Establish(c)
        /\ Once(queues[l], Establish(c)) => Once(queues'[l], Establish(c))
    BY <1>2, <1>3, <2>2, QueuedAbout DEF IInv
  <2>6. Once(queues[l], Establish(c))
    BY <1>2, <1>3 DEF In, Once
  <2>7. /\ \A k \in Loops : ~In(queues'[k], Remove(c)) /\ ~In(queues'[k], Destroy(c))
        /\ \A k \in Loops : In(queues'[k], Establish(c)) => k = l
    BY <1>2, <1>3, <2>5, FunctorsOf
  <2>8. ConnInv(c)'
    <3>1. state'[c] = "kConnecting" /\ ups'[c] = 0 /\ ~mapped'[c]
      BY <1>3, <2>1 DEF IInv, TypeOK
    <3> QED BY <1>1, <1>2, <1>5, <2>5, <2>6, <2>7, <3>1 DEF ConnInv, Reported, Establishing, Removing,
               Destroying, InMap, Alive, Waiting
  <2> QED BY <1>1, <2>1, <2>3, <2>4, <2>5, <2>8, ActingKeeps DEF About
<1> QED BY <1>4, <1>5

(* What connectDestroyed and handleClose leave of the connection.          *)
LEMMA DestroyedIs ==
    ASSUME IInv, NEW c \in Conns, connectDestroyed(c), UNCHANGED loopOf
    PROVE  /\ state' \in [Conns -> {Waiting, "kConnecting", "kConnected", "kDisconnected"}]
           /\ mapped' \in [Conns -> BOOLEAN]
           /\ ups' \in [Conns -> 0 .. 1] /\ downs' \in [Conns -> 0 .. 1]
           /\ \A d \in Conns : downs'[d] <= ups'[d]
           /\ ~mapped'[c] /\ Reported(c)'
           /\ state'[c] = IF state[c] = "kConnected" THEN "kDisconnected" ELSE state[c]
           /\ \A d \in Conns \ {c} : /\ state'[d] = state[d] /\ mapped'[d] = mapped[d]
                                     /\ ups'[d] = ups[d] /\ downs'[d] = downs[d]
<1>1. Reported(c)
  BY DEF IInv, ConnInv
<1>2. mapped' = [mapped EXCEPT ![c] = FALSE] /\ ups' = ups
  BY DEF connectDestroyed
<1>3. CASE state[c] = "kConnected"
  <2>1. state' = [state EXCEPT ![c] = "kDisconnected"] /\ downs' = [downs EXCEPT ![c] = @ + 1]
    BY <1>3 DEF connectDestroyed
  <2>2. ups[c] = 1 /\ downs[c] = 0
    BY <1>1, <1>3 DEF Reported
  <2>3. ups[c] = 1 /\ downs'[c] = 1 /\ state'[c] = "kDisconnected"
    BY <2>1, <2>2 DEF IInv, TypeOK
  <2> QED BY <1>2, <1>3, <2>1, <2>2, <2>3 DEF IInv, TypeOK, Reported, Waiting
<1>4. CASE state[c] # "kConnected"
  <2>1. state' = state /\ downs' = downs
    BY <1>4 DEF connectDestroyed
  <2> QED BY <1>1, <1>2, <1>4, <2>1 DEF IInv, TypeOK, Reported
<1> QED BY <1>3, <1>4

LEMMA ClosedIs ==
    ASSUME IInv, NEW c \in Conns, handleClose(c), CanClose(c), UNCHANGED loopOf
    PROVE  /\ state' \in [Conns -> {Waiting, "kConnecting", "kConnected", "kDisconnected"}]
           /\ mapped' = mapped /\ ups' = ups /\ downs' \in [Conns -> 0 .. 1]
           /\ \A d \in Conns : downs'[d] <= ups'[d]
           /\ state[c] = "kConnected" /\ state'[c] = "kDisconnected" /\ Reported(c)'
           /\ \A d \in Conns \ {c} : state'[d] = state[d] /\ downs'[d] = downs[d]
<1>1. Reported(c) /\ state[c] = "kConnected"
  BY DEF IInv, ConnInv, CanClose
<1>2. /\ mapped' = mapped /\ ups' = ups
      /\ state' = [state EXCEPT ![c] = "kDisconnected"] /\ downs' = [downs EXCEPT ![c] = @ + 1]
  BY DEF handleClose
<1>3. ups[c] = 1 /\ downs[c] = 0
  BY <1>1 DEF Reported
<1>4. downs'[c] = 1 /\ state'[c] = "kDisconnected"
  BY <1>2, <1>3 DEF IInv, TypeOK
<1> QED BY <1>1, <1>2, <1>3, <1>4 DEF IInv, TypeOK, Reported, Waiting

LEMMA MainFunctorKeeps ==
    ASSUME IInv, MainFunctor
    PROVE  IInv' /\ \E c \in Conns : About(c)
<1>1. tasks \in [Loops -> Seq(Functors)] /\ tasks[Main] # <<>> /\ batch[Main] = <<>> /\ Main \in Loops
  BY MainIsALoop DEF MainFunctor, IInv, TypeOK, BatchDone
<1>2. /\ owner = "running"
      /\ UNCHANGED <<owner, numThreads, started, next, ending, thread, quit, lostQuit, batch, loopOf, gone>>
  BY DEF MainFunctor, poolVars, threadVars
<1>3. /\ queues \in [Loops -> Seq(Functors)] /\ queues[Main] = tasks[Main]
      /\ batch \in [Loops -> Seq(Functors)]
  BY <1>1, QueuesType, TakenFromTasks DEF IInv, TypeOK
<1>4. PICK f \in Functors : f = Head(tasks[Main])
  BY <1>1, <1>3, Taking
<1>5. PICK c \in Conns : c = f[2]
  BY FunctorsOf
<1>6. PICK l \in Loops : l = loopOf[c]
  BY DEF IInv, TypeOK
<1> DEFINE rest == [tasks EXCEPT ![Main] = Tail(@)]
<1>7. /\ rest \in [Loops -> Seq(Functors)] /\ rest[Main] = Tail(tasks[Main]) /\ rest[Main] \in Seq(Functors)
      /\ \A k \in Loops \ {Main} : rest[k] = tasks[k]
  <2>1. Tail(tasks[Main]) \in Seq(Functors)
    BY <1>1, <1>3, Taking
  <2> QED BY <1>1, <2>1
<1>8. \/ /\ f[1] = "remove" /\ connections' = connections \ {c}
         /\ tasks' = [rest EXCEPT ![l] = Append(@, Destroy(c))]
         /\ UNCHANGED <<state, mapped, ups, downs>>
      \/ f[1] = "destroy" /\ connectDestroyed(c) /\ tasks' = rest /\ UNCHANGED connections
  BY <1>4, <1>5, <1>6 DEF MainFunctor, removeConnectionInLoop, connVars, Destroy
<1> HIDE DEF rest
<1>9. /\ In(queues[Main], f) /\ (\A g : In(Tail(queues[Main]), g) => In(queues[Main], g))
      /\ (Once(queues[Main], f) => ~In(Tail(queues[Main]), f))
      /\ (\A g : Once(queues[Main], g) => Once(Tail(queues[Main]), g))
  BY <1>1, <1>3, <1>4, Taking
<1>10. ConnInv(c)
  BY DEF IInv
<1>11. \A q \in Seq(Functors) : <<>> \o q = q
  BY ConcatEmptySeq
<1>12. CASE f[1] = "remove"
  <2>1. f = Remove(c) /\ Destroy(c) \in Functors
    BY <1>5, <1>12, FunctorsOf
  <2>2. /\ l # Main /\ state[c] = "kDisconnected" /\ c \in connections
        /\ Once(queues[Main], Remove(c))
    BY <1>1, <1>2, <1>6, <1>9, <1>10, <2>1 DEF ConnInv, Removing
  <2>3. /\ connections' = connections \ {c} /\ tasks' = [rest EXCEPT ![l] = Append(@, Destroy(c))]
        /\ UNCHANGED <<state, mapped, ups, downs>>
    BY <1>8, <1>12
  <2>4. /\ tasks' \in [Loops -> Seq(Functors)]
        /\ tasks'[Main] = Tail(tasks[Main]) /\ tasks'[l] = Append(tasks[l], Destroy(c))
        /\ \A k \in Loops \ {Main, l} : tasks'[k] = tasks[k]
    BY <1>1, <1>7, <2>1, <2>2, <2>3
  <2>5. /\ queues'[Main] = Tail(queues[Main]) /\ queues'[l] = Append(queues[l], Destroy(c))
        /\ \A k \in Loops \ {Main, l} : queues'[k] = queues[k]
    <3>1. \A k \in Loops : queues'[k] = batch[k] \o tasks'[k] /\ queues[k] = batch[k] \o tasks[k]
      BY <1>2 DEF queues
    <3>2. batch[l] \o Append(tasks[l], Destroy(c)) = Append(batch[l] \o tasks[l], Destroy(c))
      BY <1>1, <1>3, <2>1, ConcatAppend
    <3>3. queues'[Main] = Tail(queues[Main])
      BY <1>1, <1>3, <1>7, <1>11, <2>4, <3>1
    <3> QED BY <2>4, <3>1, <3>2, <3>3
  <2>6. OnlyAbout(c)
    <3>1. Head(queues[Main])[2] = c /\ queues[Main] # <<>> /\ Destroy(c)[2] = c
      BY <1>1, <1>3, <1>4, <1>5, FunctorsOf
    <3> QED BY <2>1, <2>5, <3>1 DEF OnlyAbout
  <2>7. TypeOK'
    BY <1>2, <2>3, <2>4 DEF IInv, TypeOK
  <2>8. \A d \in Conns \ {c} : SameConn(d)
    BY <1>2, <2>3 DEF SameConn
  <2>9. /\ \A k \in Loops : ~In(queues[k], Establish(c)) /\ ~In(queues[k], Destroy(c))
        /\ \A k \in Loops : In(queues[k], Remove(c)) => k = Main
    BY <1>10, <2>2 DEF ConnInv, Establishing, Removing, Destroying
  <2>10. /\ queues[l] \in Seq(Functors) /\ Once(queues[l], Destroy(c))
    BY <1>3, <2>9 DEF In, Once
  <2>11. /\ \A g : In(queues'[l], g) <=> In(queues[l], g) \/ g = Destroy(c)
         /\ Once(queues'[l], Destroy(c))
    BY <2>1, <2>5, <2>9, <2>10, Appending
  <2>12. /\ \A g : In(queues'[Main], g) => In(queues[Main], g)
         /\ ~In(queues'[Main], Remove(c))
    BY <1>9, <2>1, <2>2, <2>5
  <2>13. /\ \A k \in Loops : ~In(queues'[k], Establish(c)) /\ ~In(queues'[k], Remove(c))
         /\ \A k \in Loops : In(queues'[k], Destroy(c)) => k = l
    BY <2>2, <2>5, <2>9, <2>11, <2>12, FunctorsOf
  <2>14. Pending(c)'
    BY <2>11 DEF Pending
  <2>15. ConnInv(c)'
    BY <1>2, <1>6, <1>10, <2>2, <2>3, <2>11, <2>13, <2>14 DEF ConnInv, Reported, Establishing, Removing,
       Destroying, InMap, Alive, Waiting
  <2> QED BY <1>2, <2>2, <2>6, <2>7, <2>8, <2>15, ActingKeeps DEF About
<1>13. CASE f[1] = "destroy"
  <2>1. f = Destroy(c)
    BY <1>5, <1>13, FunctorsOf
  <2>2. /\ l = Main /\ state[c] = "kDisconnected" /\ c \notin connections
        /\ Once(queues[Main], Destroy(c))
    BY <1>1, <1>2, <1>6, <1>9, <1>10, <2>1 DEF ConnInv, Destroying
  <2>3. connectDestroyed(c) /\ tasks' = rest /\ UNCHANGED connections
    BY <1>8, <1>13
  <2>4. tasks' \in [Loops -> Seq(Functors)] /\ queues' = [queues EXCEPT ![Main] = Tail(@)]
    <3>1. \A k \in Loops : queues'[k] = batch[k] \o tasks'[k] /\ queues[k] = batch[k] \o tasks[k]
      BY <1>2 DEF queues
    <3>2. tasks'[Main] = Tail(tasks[Main]) /\ \A k \in Loops \ {Main} : tasks'[k] = tasks[k]
      BY <1>7, <2>3
    <3>3. queues'[Main] = Tail(queues[Main])
      BY <1>1, <1>3, <1>7, <1>11, <3>1, <3>2
    <3>4. \A k \in Loops : queues'[k] = IF k = Main THEN Tail(queues[k]) ELSE queues[k]
      BY <3>1, <3>2, <3>3
    <3>5. tasks' \in [Loops -> Seq(Functors)]
      BY <1>7, <2>3
    <3> QED BY <3>4, <3>5 DEF queues
  <2>5. /\ state' \in [Conns -> {Waiting, "kConnecting", "kConnected", "kDisconnected"}]
        /\ mapped' \in [Conns -> BOOLEAN]
        /\ ups' \in [Conns -> 0 .. 1] /\ downs' \in [Conns -> 0 .. 1]
        /\ \A d \in Conns : downs'[d] <= ups'[d]
        /\ ~mapped'[c] /\ Reported(c)' /\ state'[c] = "kDisconnected"
        /\ \A d \in Conns \ {c} : /\ state'[d] = state[d] /\ mapped'[d] = mapped[d]
                                  /\ ups'[d] = ups[d] /\ downs'[d] = downs[d]
    BY <1>2, <2>2, <2>3, DestroyedIs
  <2>6. TypeOK'
    BY <1>2, <2>3, <2>4, <2>5 DEF IInv, TypeOK
  <2>7. \A d \in Conns \ {c} : SameConn(d)
    BY <1>2, <2>3, <2>5 DEF SameConn
  <2>8. /\ OnlyAbout(c) /\ \A k \in Loops \ {Main} : queues'[k] = queues[k]
        /\ \A g : In(queues'[Main], g) => In(queues[Main], g)
        /\ ~In(queues'[Main], Destroy(c))
    <3>1. queues[Main] # <<>> /\ Head(queues[Main]) = Destroy(c)
      BY <1>1, <1>3, <1>4, <2>1
    <3> QED BY <1>1, <2>2, <2>4, <3>1, TakenAbout DEF IInv
  <2>9. \A k \in Loops : ~In(queues'[k], Establish(c)) /\ ~In(queues'[k], Remove(c))
                         /\ ~In(queues'[k], Destroy(c))
    <3>1. \A k \in Loops : /\ ~In(queues[k], Establish(c)) /\ ~In(queues[k], Remove(c))
                           /\ In(queues[k], Destroy(c)) => k = Main
      BY <1>6, <1>10, <2>2 DEF ConnInv, Establishing, Removing, Destroying
    <3> QED BY <2>8, <3>1
  <2>10. ConnInv(c)'
    BY <2>5, <2>9 DEF ConnInv, Establishing, Removing, Destroying, InMap, Alive, Waiting
  <2> QED BY <1>1, <1>2, <1>9, <2>1, <2>6, <2>7, <2>8, <2>10, ActingKeeps DEF About, Pending
<1> QED BY <1>8, <1>12, <1>13

LEMMA CloseKeeps ==
    ASSUME IInv, NEW c \in Conns, MainClose(c) \/ \E l \in IoLoops : IoClose(l, c)
    PROVE  IInv' /\ About(c)
<1>1. /\ CanClose(c) /\ handleClose(c) /\ (loopOf[c] = Main => owner = "running")
      /\ UNCHANGED <<owner, numThreads, started, next, ending, thread, quit, lostQuit, batch, loopOf, gone>>
  BY MainIsALoop DEF MainClose, IoClose, poolVars, threadVars, IInv
<1>2. /\ state' \in [Conns -> {Waiting, "kConnecting", "kConnected", "kDisconnected"}]
      /\ mapped' = mapped /\ ups' = ups /\ downs' \in [Conns -> 0 .. 1]
      /\ \A d \in Conns : downs'[d] <= ups'[d]
      /\ state[c] = "kConnected" /\ state'[c] = "kDisconnected" /\ Reported(c)'
      /\ \A d \in Conns \ {c} : state'[d] = state[d] /\ downs'[d] = downs[d]
  BY <1>1, ClosedIs
<1>3. /\ ConnInv(c) /\ loopOf[c] \in Loops /\ Main \in Loops
      /\ Remove(c) \in Functors /\ Destroy(c) \in Functors
  BY MainIsALoop, FunctorsOf DEF IInv, TypeOK
<1>4. \A k \in Loops : /\ ~In(queues[k], Establish(c)) /\ ~In(queues[k], Remove(c))
                       /\ In(queues[k], Destroy(c)) => owner # "running" /\ k = loopOf[c]
                                                       /\ c \notin connections
                                                       /\ Once(queues[k], Destroy(c))
  BY <1>2, <1>3 DEF ConnInv, Establishing, Removing, Destroying
<1>5. owner \notin {"new", "starting"}
  BY <1>2 DEF IInv, Unused, Waiting
<1>6. c \in connections \/ Pending(c)
  <2>1. mapped[c] /\ thread[loopOf[c]] # "done"
    BY MainIsALoop DEF MainClose, IoClose, CanClose, IInv, BatchDone
  <2> QED BY <1>3, <2>1 DEF ConnInv, Alive
<1>7. CASE loopOf[c] = Main
  <2>1. connections' = connections \ {c} /\ queueInLoop(Main, Destroy(c)) /\ owner = "running"
    BY <1>1, <1>7 DEF handleClose, removeConnectionInLoop, queueInLoop, Destroy
  <2>2. /\ tasks' \in [Loops -> Seq(Functors)]
        /\ queues' = [queues EXCEPT ![Main] = Append(@, Destroy(c))]
    BY <1>1, <1>3, <2>1, Queued DEF IInv
  <2>3. TypeOK'
    BY <1>1, <1>2, <2>1, <2>2 DEF IInv, TypeOK
  <2>4. \A d \in Conns \ {c} : SameConn(d)
    BY <1>1, <1>2, <2>1 DEF SameConn
  <2>5. /\ OnlyAbout(c) /\ Pending(c)'
        /\ \A k \in Loops \ {Main} : queues'[k] = queues[k]
        /\ \A g : In(queues'[Main], g) <=> In(queues[Main], g) \/ g = Destroy(c)
        /\ Once(queues[Main], Destroy(c)) /\ ~In(queues[Main], Destroy(c))
              => Once(queues'[Main], Destroy(c))
    BY <1>3, <2>2, QueuedAbout DEF IInv
  <2>6. /\ \A k \in Loops : ~In(queues'[k], Establish(c)) /\ ~In(queues'[k], Remove(c))
        /\ \A k \in Loops : In(queues'[k], Destroy(c)) => k = Main
        /\ Once(queues'[Main], Destroy(c))
    <3>1. \A k \in Loops : ~In(queues[k], Destroy(c))
      BY <1>4, <2>1
    <3>2. Once(queues[Main], Destroy(c))
      BY <1>3, <3>1 DEF In, Once
    <3> QED BY <1>3, <1>4, <2>5, <3>1, <3>2, FunctorsOf
  <2>7. ConnInv(c)'
    BY <1>1, <1>2, <1>7, <2>1, <2>5, <2>6 DEF ConnInv, Establishing, Removing, Destroying, InMap,
       Alive, Waiting
  <2> QED BY <1>1, <1>6, <2>1, <2>3, <2>4, <2>5, <2>7, ActingKeeps DEF About
<1>8. CASE loopOf[c] # Main
  <2>1. queueInLoop(Main, Remove(c)) /\ UNCHANGED connections
    BY <1>1, <1>8 DEF handleClose, Remove
  <2>2. /\ tasks' \in [Loops -> Seq(Functors)]
        /\ queues' = [queues EXCEPT ![Main] = Append(@, Remove(c))]
    BY <1>1, <1>3, <2>1, Queued DEF IInv
  <2>3. TypeOK'
    BY <1>1, <1>2, <2>1, <2>2 DEF IInv, TypeOK
  <2>4. \A d \in Conns \ {c} : SameConn(d)
    BY <1>1, <1>2, <2>1 DEF SameConn
  <2>5. /\ OnlyAbout(c) /\ Pending(c)'
        /\ \A k \in Loops \ {Main} : queues'[k] = queues[k]
        /\ \A g : In(queues'[Main], g) <=> In(queues[Main], g) \/ g = Remove(c)
        /\ \A g : Once(queues[Main], g) /\ (g # Remove(c) \/ ~In(queues[Main], Remove(c)))
              => Once(queues'[Main], g)
    BY <1>3, <2>2, QueuedAbout DEF IInv
  <2>6. Once(queues'[Main], Remove(c))
    <3>1. Once(queues[Main], Remove(c))
      BY <1>3, <1>4 DEF In, Once
    <3> QED BY <1>3, <1>4, <2>5, <3>1
  <2>7. /\ \A k \in Loops : ~In(queues'[k], Establish(c))
        /\ \A k \in Loops : In(queues'[k], Remove(c)) => k = Main
        /\ \A k \in Loops : In(queues'[k], Destroy(c)) =>
              owner # "running" /\ k = loopOf[c] /\ c \notin connections /\ Once(queues'[k], Destroy(c))
    BY <1>3, <1>4, <1>8, <2>5, FunctorsOf
  <2>8. owner = "running" => c \in connections
    BY <1>2, <1>3 DEF ConnInv, InMap
  <2>9. ConnInv(c)'
    BY <1>1, <1>2, <1>8, <2>1, <2>5, <2>6, <2>7, <2>8 DEF ConnInv, Establishing, Removing, Destroying,
       InMap, Alive, Waiting
  <2> QED BY <1>1, <1>5, <1>6, <2>3, <2>4, <2>5, <2>9, ActingKeeps DEF About
<1> QED BY <1>7, <1>8

LEMMA DestroyConnectionKeeps ==
    ASSUME IInv, NEW c \in Conns, DestroyConnection(c)
    PROVE  IInv' /\ About(c)
<1>1. PICK l \in Loops : l = loopOf[c]
  BY DEF IInv, TypeOK
<1>2. /\ owner = "dying" /\ c \in connections /\ connections' = connections \ {c}
      /\ UNCHANGED <<owner, numThreads, started, next, ending, thread, quit, lostQuit, batch, loopOf, gone>>
  BY DEF DestroyConnection, poolVars, threadVars
<1>3. ConnInv(c) /\ Destroy(c) \in Functors
  BY FunctorsOf DEF IInv, TypeOK
<1>4. state[c] # Waiting /\ \A k \in Loops : ~In(queues[k], Destroy(c))
  BY <1>2, <1>3 DEF ConnInv, InMap, Destroying
<1>5. CASE l = Main
  <2>1. connectDestroyed(c) /\ UNCHANGED tasks /\ queues' = queues
    BY <1>1, <1>2, <1>5, SameQueues DEF DestroyConnection
  <2>2. /\ state' \in [Conns -> {Waiting, "kConnecting", "kConnected", "kDisconnected"}]
        /\ mapped' \in [Conns -> BOOLEAN]
        /\ ups' \in [Conns -> 0 .. 1] /\ downs' \in [Conns -> 0 .. 1]
        /\ \A d \in Conns : downs'[d] <= ups'[d]
        /\ ~mapped'[c] /\ Reported(c)'
        /\ state'[c] = IF state[c] = "kConnected" THEN "kDisconnected" ELSE state[c]
        /\ \A d \in Conns \ {c} : /\ state'[d] = state[d] /\ mapped'[d] = mapped[d]
                                  /\ ups'[d] = ups[d] /\ downs'[d] = downs[d]
    BY <1>2, <2>1, DestroyedIs
  <2>3. TypeOK'
    BY <1>2, <2>1, <2>2 DEF IInv, TypeOK
  <2>4. \A d \in Conns \ {c} : SameConn(d)
    BY <1>2, <2>2 DEF SameConn
  <2>5. OnlyAbout(c)
    BY <2>1 DEF OnlyAbout
  <2>6. \A k \in Loops : ~In(queues[k], Establish(c)) /\ ~In(queues[k], Remove(c))
    BY <1>1, <1>3, <1>5 DEF ConnInv, Establishing, Removing
  <2>7. ConnInv(c)'
    BY <1>2, <1>4, <2>1, <2>2, <2>6 DEF ConnInv, Establishing, Removing, Destroying, InMap, Alive, Waiting
  <2> QED BY <1>2, <2>3, <2>4, <2>5, <2>7, ActingKeeps DEF About
<1>6. CASE l # Main
  <2>1. queueInLoop(l, Destroy(c)) /\ UNCHANGED <<state, mapped, ups, downs>>
    BY <1>1, <1>2, <1>6 DEF DestroyConnection, Destroy, connVars
  <2>2. /\ tasks' \in [Loops -> Seq(Functors)]
        /\ queues' = [queues EXCEPT ![l] = Append(@, Destroy(c))]
    BY <1>2, <1>3, <2>1, Queued DEF IInv
  <2>3. TypeOK'
    BY <1>2, <2>1, <2>2 DEF IInv, TypeOK
  <2>4. \A d \in Conns \ {c} : SameConn(d)
    BY <1>2, <2>1 DEF SameConn
  <2>5. /\ OnlyAbout(c) /\ Pending(c)'
        /\ \A k \in Loops \ {l} : queues'[k] = queues[k]
        /\ \A g : In(queues'[l], g) <=> In(queues[l], g) \/ g = Destroy(c)
        /\ \A g : Once(queues[l], g) /\ (g # Destroy(c) \/ ~In(queues[l], Destroy(c)))
                     => Once(queues'[l], g)
        /\ \A g : g # Destroy(c) => Before(queues'[l], g, Destroy(c))
    BY <1>3, <2>2, QueuedAbout DEF IInv
  <2>6. Once(queues'[l], Destroy(c)) /\ \A k \in Loops : In(queues'[k], Destroy(c)) => k = l
    <3>1. Once(queues[l], Destroy(c))
      BY <1>3, <1>4 DEF In, Once
    <3> QED BY <1>3, <1>4, <2>5, <3>1
  <2>7. \A k \in Loops : In(queues'[k], Establish(c)) =>
            /\ k = l /\ state[c] = "kConnecting"
            /\ Once(queues'[k], Establish(c)) /\ Before(queues'[k], Establish(c), Destroy(c))
    <3>1. \A k \in Loops : In(queues[k], Establish(c)) =>
              k = l /\ state[c] = "kConnecting" /\ Once(queues[k], Establish(c))
      BY <1>1, <1>3 DEF ConnInv, Establishing
    <3> QED BY <1>3, <2>5, <3>1, FunctorsOf
  <2>8. \A k \in Loops : In(queues'[k], Remove(c)) =>
            k = Main /\ state[c] = "kDisconnected" /\ Once(queues'[k], Remove(c))
    <3>1. \A k \in Loops : In(queues[k], Remove(c)) =>
              k = Main /\ state[c] = "kDisconnected" /\ Once(queues[k], Remove(c))
      BY <1>3 DEF ConnInv, Removing
    <3> QED BY <1>3, <1>6, <2>5, <3>1, FunctorsOf
  <2>9. Reported(c)'
    BY <1>3, <2>1 DEF ConnInv, Reported
  <2>10. ConnInv(c)'
    BY <1>1, <1>2, <1>4, <1>6, <2>1, <2>5, <2>6, <2>7, <2>8, <2>9 DEF ConnInv, Establishing, Removing,
       Destroying, InMap, Alive, Waiting
  <2> QED BY <1>2, <2>1, <2>3, <2>4, <2>5, <2>10, ActingKeeps DEF About
<1> QED BY <1>5, <1>6

LEMMA RunFunctorKeeps ==
    ASSUME IInv, NEW l \in IoLoops, RunFunctor(l)
    PROVE  IInv' /\ \E c \in Conns : About(c)
<1>1. l \in Loops /\ l # Main /\ batch[l] # <<>> /\ batch[l] \in Seq(Functors)
  BY MainIsALoop DEF RunFunctor, IInv, TypeOK
<1>2. PICK f \in Functors : f = Head(batch[l])
  BY <1>1, Taking
<1>3. PICK c \in Conns : c = f[2]
  BY FunctorsOf
<1>4. /\ thread[l] = "functors" /\ batch' = [batch EXCEPT ![l] = Tail(@)]
      /\ \/ f[1] = "establish" /\ f = Establish(c) /\ connectEstablished(c)
         \/ f[1] = "destroy" /\ f = Destroy(c) /\ connectDestroyed(c)
      /\ UNCHANGED <<owner, numThreads, started, next, ending, thread, quit, lostQuit, tasks,
                     connections, loopOf, gone>>
  BY <1>2, <1>3, FunctorsOf DEF RunFunctor, poolVars, threadVars
<1>5. /\ batch' \in [Loops -> Seq(Functors)] /\ queues[l] # <<>> /\ Head(queues[l]) = f
      /\ queues' = [queues EXCEPT ![l] = Tail(@)]
  BY <1>1, <1>2, <1>4, TakenFromBatch DEF IInv
<1>6. /\ OnlyAbout(c) /\ In(queues[l], f)
      /\ \A k \in Loops \ {l} : queues'[k] = queues[k]
      /\ \A g : In(queues'[l], g) => In(queues[l], g)
      /\ \A g : In(queues[l], g) => g = f \/ In(queues'[l], g)
      /\ \A g : Once(queues[l], g) => Once(queues'[l], g)
      /\ Once(queues[l], f) => ~In(queues'[l], f)
      /\ \A g, h : Before(queues[l], g, h) => Before(queues'[l], g, h)
      /\ \A h : Before(queues[l], f, h) => In(queues'[l], h)
  BY <1>1, <1>4, <1>5, <1>4, TakenAbout DEF IInv
<1>7. ConnInv(c) /\ \A k \in Loops : thread[k] # "functors" => batch'[k] = batch[k]
  BY <1>1, <1>4 DEF IInv, TypeOK
<1>8. state[c] # Waiting /\ owner \notin {"new", "starting"}
  BY <1>1, <1>4, <1>6, <1>7 DEF ConnInv, Establishing, Removing, Destroying, Waiting, IInv, Unused
<1>9. CASE f[1] = "establish"
  <2>1. /\ state' = [state EXCEPT ![c] = "kConnected"] /\ mapped' = [mapped EXCEPT ![c] = TRUE]
        /\ ups' = [ups EXCEPT ![c] = @ + 1] /\ downs' = downs /\ f = Establish(c)
    BY <1>4, <1>9 DEF connectEstablished
  <2>2. /\ l = loopOf[c] /\ state[c] = "kConnecting" /\ Once(queues[l], f)
        /\ (c \in connections \/ Before(queues[l], f, Destroy(c)))
    BY <1>1, <1>4, <1>6, <1>7, <2>1 DEF ConnInv, Establishing
  <2>3. ups[c] = 0 /\ downs[c] = 0
    BY <1>4, <1>7, <2>2 DEF ConnInv, Reported, IInv, TypeOK
  <2>4. TypeOK'
    <3>1. /\ state' \in [Conns -> {Waiting, "kConnecting", "kConnected", "kDisconnected"}]
          /\ mapped' \in [Conns -> BOOLEAN]
          /\ ups' \in [Conns -> 0 .. 1] /\ downs' \in [Conns -> 0 .. 1]
          /\ \A d \in Conns : downs'[d] <= ups'[d]
      BY <2>1, <2>3 DEF IInv, TypeOK
    <3> QED BY <1>1, <1>4, <1>5, <3>1 DEF IInv, TypeOK
  <2>5. \A d \in Conns \ {c} : SameConn(d)
    BY <1>4, <2>1 DEF SameConn, IInv, TypeOK
  <2>6. \A k \in Loops : ~In(queues'[k], Establish(c)) /\ ~In(queues'[k], Remove(c))
    <3>1. \A k \in Loops : ~In(queues[k], Remove(c)) /\ (In(queues[k], Establish(c)) => k = l)
      BY <1>7, <2>2 DEF ConnInv, Establishing, Removing
    <3> QED BY <1>1, <1>4, <1>6, <2>1, <2>2, <3>1
  <2>7. \A k \in Loops : In(queues'[k], Destroy(c)) =>
            /\ k = l /\ c \notin connections /\ owner # "running" /\ Once(queues'[k], Destroy(c))
    <3>1. \A k \in Loops : In(queues[k], Destroy(c)) =>
              /\ k = l /\ c \notin connections /\ owner # "running" /\ Once(queues[k], Destroy(c))
      BY <1>7, <2>2 DEF ConnInv, Destroying
    <3> QED BY <1>1, <1>4, <1>6, <3>1
  <2>8. c \in connections \/ Pending(c)'
    BY <1>1, <1>4, <1>6, <2>2 DEF Pending
  <2>9. owner = "running" => c \in connections
    BY <1>7, <2>2 DEF ConnInv, InMap
  <2>10. ConnInv(c)'
    <3>1. state'[c] = "kConnected" /\ ups'[c] = 1 /\ downs'[c] = 0
      BY <2>1, <2>3 DEF IInv, TypeOK
    <3> QED BY <1>1, <1>4, <2>2, <2>6, <2>7, <2>8, <2>9, <3>1 DEF ConnInv, Reported, Establishing, Removing,
               Destroying, InMap, Alive, Waiting
  <2> QED BY <1>1, <1>4, <1>6, <1>7, <1>8, <2>4, <2>5, <2>10, ActingKeeps DEF About, Pending
<1>10. CASE f[1] = "destroy"
  <2>1. connectDestroyed(c) /\ f = Destroy(c)
    BY <1>4, <1>10
  <2>2. /\ l = loopOf[c] /\ c \notin connections /\ Once(queues[l], f)
        /\ owner = "running" => state[c] = "kDisconnected"
    BY <1>1, <1>4, <1>6, <1>7, <2>1 DEF ConnInv, Destroying
  <2>3. /\ state' \in [Conns -> {Waiting, "kConnecting", "kConnected", "kDisconnected"}]
        /\ mapped' \in [Conns -> BOOLEAN]
        /\ ups' \in [Conns -> 0 .. 1] /\ downs' \in [Conns -> 0 .. 1]
        /\ \A d \in Conns : downs'[d] <= ups'[d]
        /\ ~mapped'[c] /\ Reported(c)'
        /\ state'[c] = IF state[c] = "kConnected" THEN "kDisconnected" ELSE state[c]
        /\ \A d \in Conns \ {c} : /\ state'[d] = state[d] /\ mapped'[d] = mapped[d]
                                  /\ ups'[d] = ups[d] /\ downs'[d] = downs[d]
    BY <1>1, <1>4, <2>1, DestroyedIs
  <2>4. TypeOK'
    BY <1>1, <1>4, <1>5, <2>3 DEF IInv, TypeOK
  <2>5. \A d \in Conns \ {c} : SameConn(d)
    BY <1>1, <1>4, <2>3 DEF SameConn
  <2>6. \A k \in Loops : In(queues'[k], Establish(c)) =>
            /\ k = l /\ state[c] = "kConnecting" /\ Once(queues'[k], Establish(c))
            /\ Before(queues'[k], Establish(c), Destroy(c))
    <3>1. \A k \in Loops : In(queues[k], Establish(c)) =>
            /\ k = l /\ state[c] = "kConnecting" /\ Once(queues[k], Establish(c))
            /\ Before(queues[k], Establish(c), Destroy(c))
      BY <1>7, <2>2 DEF ConnInv, Establishing
    <3> QED BY <1>1, <1>4, <1>6, <3>1
  <2>7. \A k \in Loops : In(queues'[k], Remove(c)) =>
            /\ k = Main /\ state[c] = "kDisconnected" /\ Once(queues'[k], Remove(c))
            /\ owner # "running"
    <3>1. \A k \in Loops : In(queues[k], Remove(c)) =>
            /\ k = Main /\ state[c] = "kDisconnected" /\ Once(queues[k], Remove(c))
            /\ owner # "running"
      BY <1>7, <2>2 DEF ConnInv, Removing
    <3> QED BY <1>1, <1>4, <1>6, <3>1
  <2>8. \A k \in Loops : ~In(queues'[k], Destroy(c))
    <3>1. \A k \in Loops : In(queues[k], Destroy(c)) => k = l
      BY <1>7, <2>2 DEF ConnInv, Destroying
    <3> QED BY <1>1, <1>4, <1>6, <2>1, <2>2, <3>1
  <2>9. ConnInv(c)'
    BY <1>1, <1>4, <1>8, <2>2, <2>3, <2>6, <2>7, <2>8 DEF ConnInv, Establishing, Removing, Destroying,
       InMap, Alive, Waiting
  <2> QED BY <1>1, <1>4, <1>6, <1>7, <1>8, <2>4, <2>5, <2>9, ActingKeeps DEF About, Pending
<1> QED BY <1>1, <1>4, <1>9, <1>10

-----------------------------------------------------------------------------
(* A step that is about no connection. *)
Elsewhere == /\ UNCHANGED <<connections, loopOf, state, mapped, ups, downs>>
             /\ queues' = queues

LEMMA StepKeeps ==
    ASSUME IInv, [Next]_vars
    PROVE  IInv' /\ (Elsewhere \/ \E c \in Conns : About(c))
<1>1. CASE \/ Start \/ Die \/ JoinThreads \/ QuitThread \/ Dead
           \/ \E l \in IoLoops : startThread(l) \/ loopSet(l)
  <2>1. Elsewhere
    BY <1>1, SameQueues DEF Elsewhere, connVars, Start, Die, JoinThreads, QuitThread, Dead,
       startThread, loopSet
  <2> QED BY <1>1, <2>1, OwnerKeeps
<1>2. ASSUME NEW c \in Conns, DestroyConnection(c)
      PROVE  IInv' /\ About(c)
  BY <1>2, DestroyConnectionKeeps
<1>3. CASE MainFunctor
  BY <1>3, MainFunctorKeeps
<1>4. ASSUME NEW c \in Conns, handleRead(c)
      PROVE  IInv' /\ About(c)
  BY <1>4, HandleReadKeeps
<1>5. ASSUME NEW c \in Conns, MainClose(c) \/ \E l \in IoLoops : IoClose(l, c)
      PROVE  IInv' /\ About(c)
  BY <1>5, CloseKeeps
<1>6. CASE (\E c \in Conns : PeerCloses(c)) \/ UNCHANGED vars
  <2>1. Elsewhere
    BY <1>6, SameQueues DEF Elsewhere, connVars, PeerCloses, vars
  <2> QED BY <1>6, <2>1, PeerKeeps
<1>7. ASSUME NEW l \in IoLoops,
             setLoop(l) \/ EnterLoop(l) \/ CheckQuit(l) \/ SwapFunctors(l) \/ EndFunctors(l)
      PROVE  IInv' /\ Elsewhere
  <2>1. UNCHANGED <<connections, loopOf, state, mapped, ups, downs>>
    BY <1>7 DEF connVars, setLoop, EnterLoop, CheckQuit, SwapFunctors, EndFunctors
  <2>2. queues' = queues
    BY <1>7, QuietIoStepKeeps
  <2> QED BY <1>7, <2>1, <2>2, QuietIoStepKeeps DEF Elsewhere
<1>8. ASSUME NEW l \in IoLoops, RunFunctor(l)
      PROVE  IInv' /\ \E c \in Conns : About(c)
  BY <1>8, RunFunctorKeeps
<1> QED BY <1>1, <1>2, <1>3, <1>4, <1>5, <1>6, <1>7, <1>8 DEF Next, OwnerStep, IoStep

-----------------------------------------------------------------------------
(* The inductive invariant. *)
THEOREM Inductive == Spec => []IInv
<1>1. IInv /\ [Next]_vars => IInv'
  BY StepKeeps
<1> QED BY Initially, <1>1, PTL DEF Spec

(* Types; a connection is reported UP at most once, and DOWN at most once  *)
(* and not before (newConnection, handleClose, connectDestroyed).          *)
THEOREM TypeCorrect == Spec => []TypeOK
<1>1. IInv => TypeOK
  BY DEF IInv
<1> QED BY <1>1, Inductive, PTL

(* A connection is held, by the map or by a functor on its way through two *)
(* loops, until connectDestroyed has removed its channel from its poller,  *)
(* whatever the interleaving of removeConnection, ~TcpServer and the loops.*)
THEOREM ChannelsStayAlive == Spec => []ChannelsAlive
<1>1. ASSUME IInv PROVE ChannelsAlive
  <2>1. SUFFICES ASSUME NEW c \in Conns, mapped[c], thread[loopOf[c]] # "done" PROVE Held(c)
    BY DEF ChannelsAlive
  <2>2. c \in connections \/ Pending(c)
    BY <1>1, <2>1 DEF IInv, ConnInv, Alive
  <2> QED BY <1>1, <2>2, HeldIs DEF IInv
<1> QED BY <1>1, Inductive, PTL

(* What runs in a loop is meant for it: the map is the main loop's alone,  *)
(* a connection is established and destroyed in its own loop and nowhere   *)
(* else, and established only where it is not the main loop's, which does  *)
(* so at once (newConnection, removeConnection, removeConnectionInLoop).   *)
InItsLoop ==
    \A l \in Loops, c \in Conns :
        LET waiting == Range(tasks[l]) \cup Range(batch[l])
        IN /\ Establish(c) \in waiting => l = loopOf[c] /\ l # Main
           /\ Remove(c) \in waiting => l = Main /\ loopOf[c] # Main
           /\ Destroy(c) \in waiting => l = loopOf[c]

THEOREM FunctorsInTheirLoops == Spec => []InItsLoop
<1>1. ASSUME IInv PROVE InItsLoop
  <2>1. SUFFICES ASSUME NEW l \in Loops, NEW c \in Conns
                 PROVE  /\ In(queues[l], Establish(c)) => l = loopOf[c] /\ l # Main
                        /\ In(queues[l], Remove(c)) => l = Main /\ loopOf[c] # Main
                        /\ In(queues[l], Destroy(c)) => l = loopOf[c]
    BY <1>1, InRanges DEF InItsLoop, IInv
  <2> QED BY <1>1 DEF IInv, ConnInv, Establishing, Removing, Destroying
<1> QED BY <1>1, Inductive, PTL

(* A connection nobody holds is freed for good: no later step, of the main *)
(* loop, of its io loop or of ~TcpServer, touches it or gets hold of it.   *)
Freed(c) == state[c] # Waiting /\ ~Held(c)
Untouchable(c) ==
    Freed(c) => /\ Freed(c)' /\ state'[c] = state[c] /\ mapped'[c] = mapped[c]
                /\ ups'[c] = ups[c] /\ downs'[c] = downs[c]

THEOREM FreedIsUntouched == Spec => [][\A c \in Conns : Untouchable(c)]_vars
<1>1. ASSUME IInv, [Next]_vars, NEW c \in Conns, Freed(c)
      PROVE  /\ Freed(c)' /\ state'[c] = state[c] /\ mapped'[c] = mapped[c]
             /\ ups'[c] = ups[c] /\ downs'[c] = downs[c]
  <2>1. IInv' /\ (Elsewhere \/ \E d \in Conns : About(d))
    BY <1>1, StepKeeps
  <2>2. c \notin connections /\ ~Pending(c) /\ state[c] # Waiting
    BY <1>1, HeldIs DEF Freed, IInv
  <2>3. SameConn(c) /\ SameFunctors(c)
    <3>1. CASE Elsewhere
      BY <3>1 DEF Elsewhere, SameConn, SameFunctors
    <3>2. ASSUME NEW d \in Conns, About(d) PROVE SameConn(c) /\ SameFunctors(c)
      <4>1. d # c
        BY <2>2, <3>2 DEF About
      <4> QED BY <1>1, <3>2, <4>1, Others DEF About, IInv
    <3> QED BY <2>1, <3>1, <3>2
  <2>4. c \notin connections' /\ ~Pending(c)'
    BY <2>2, <2>3 DEF SameConn, SameFunctors, Pending
  <2>5. (Held(c) <=> c \in connections \/ Pending(c))'
    <3>1. TypeOK'
      BY <2>1 DEF IInv
    <3> QED BY <3>1, HeldIsNext
  <2> QED BY <2>2, <2>3, <2>4, <2>5 DEF Freed, SameConn
<1>2. IInv /\ [Next]_vars => \A c \in Conns : Untouchable(c)
  BY <1>1 DEF Untouchable
<1> QED BY <1>2, Inductive, PTL DEF Spec
=============================================================================
