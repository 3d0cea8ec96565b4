-------------------------- MODULE HttpServer_proofs --------------------------
(***************************************************************************)
(* A Buffer is a FIFO of bytes, for every content, every size of its       *)
(* vector and of extrabuf, and every place of its indices: appending adds  *)
(* at the end of Readable, retrieving takes from its front, moving and     *)
(* growing change nothing of it, and the indices stay in bounds.           *)
(*                                                                         *)
(* So, however the stream of requests is cut, and for any sizes of the     *)
(* buffer, what the parser reads from it is what arrived and was not       *)
(* retrieved, and it never takes more out of the buffer than it holds.     *)
(*                                                                         *)
(* And what it reads it reads as the client meant it: where each request   *)
(* and each of its lines begins in the stream is known, findCRLF finds the *)
(* end of just that line, and so each request is understood, and answered  *)
(* once, in order, whatever its words are.                                 *)
(***************************************************************************)
EXTENDS HttpServer, SequenceTheorems, WellFoundedInduction, TLAPS

(* Two sequences of one length that agree everywhere are equal. *)
LEMMA SameBytes ==
    ASSUME NEW s \in Seq(Bytes), NEW t \in Seq(Bytes), Len(s) = Len(t),
           \A i \in 1 .. Len(s) : s[i] = t[i]
    PROVE  s = t
BY SeqEqual

(* A sequence that is one and then another. *)
LEMMA IsConcat ==
    ASSUME NEW s \in Seq(Bytes), NEW t \in Seq(Bytes), NEW u \in Seq(Bytes),
           Len(s) = Len(t) + Len(u),
           \A i \in 1 .. Len(t) : s[i] = t[i],
           \A i \in 1 .. Len(u) : s[Len(t) + i] = u[i]
    PROVE  s = t \o u
<1>1. t \o u \in Seq(Bytes) /\ Len(t \o u) = Len(t) + Len(u)
  BY ConcatProperties
<1>2. ASSUME NEW i \in 1 .. Len(s) PROVE s[i] = (t \o u)[i]
  <2>1. CASE i <= Len(t)
    <3>1. i \in 1 .. Len(t)
      BY <2>1
    <3>2. (t \o u)[i] = t[i]
      BY <3>1, ConcatProperties
    <3> QED BY <3>1, <3>2
  <2>2. CASE i > Len(t)
    <3>1. PICK j \in 1 .. Len(u) : i = Len(t) + j
      <4>1. i - Len(t) \in 1 .. Len(u) /\ i = Len(t) + (i - Len(t))
        BY <2>2
      <4> QED BY <4>1
    <3>2. (t \o u)[i] = u[i - Len(t)]
      BY <2>2, ConcatProperties
    <3>3. i - Len(t) = j
      BY <3>1
    <3> QED BY <3>1, <3>2, <3>3
  <2> QED BY <2>1, <2>2
<1> QED BY <1>1, <1>2, SameBytes

(* What is left of a sequence without its first k elements. *)
LEMMA Rest ==
    ASSUME NEW s \in Seq(Bytes), NEW k \in 0 .. Len(s)
    PROVE  /\ SubSeq(s, k + 1, Len(s)) \in Seq(Bytes)
           /\ Len(SubSeq(s, k + 1, Len(s))) = Len(s) - k
           /\ \A i \in 1 .. Len(s) - k : SubSeq(s, k + 1, Len(s))[i] = s[k + i]
<1> DEFINE n == Len(s)
           m == k + 1
           t == SubSeq(s, m, n)
<1>1. n \in Int /\ m \in Int /\ \A i \in m .. n : s[i] \in Bytes
  BY ElementOfSeq
<1> HIDE DEF n, m
<1>2. /\ t \in Seq(Bytes)
      /\ Len(t) = IF m <= n THEN n - m + 1 ELSE 0
      /\ \A i \in 1 .. n - m + 1 : t[i] = s[m + i - 1]
  BY <1>1, SubSeqProperties
<1>3. m = k + 1 /\ n = Len(s) /\ n \in Nat /\ k \in 0 .. n
  BY DEF m, n
<1>4. Len(t) = n - k
  BY <1>2, <1>3
<1>5. ASSUME NEW i \in 1 .. n - k
      PROVE  t[i] = s[k + i]
  <2>1. i \in 1 .. n - m + 1 /\ m + i - 1 = k + i
    BY <1>3
  <2> QED BY <1>2, <2>1
<1> QED BY <1>2, <1>3, <1>4, <1>5

(* What a well-formed buffer lets its owner read. *)
LEMMA ReadableBytes ==
    ASSUME NEW b, WellFormed(b)
    PROVE  /\ Readable(b) \in Seq(Bytes)
           /\ Len(Readable(b)) = readableBytes(b)
           /\ readableBytes(b) \in Nat
           /\ \A i \in 1 .. readableBytes(b) : Readable(b)[i] = b.cells[b.readerIndex + i]
<1> USE BufferAssumption DEF WellFormed, Buffers
<1>1. \A i \in b.readerIndex + 1 .. b.writerIndex : b.cells[i] \in Bytes
  BY ElementOfSeq
<1>2. /\ Readable(b) \in Seq(Bytes)
      /\ Len(Readable(b)) = IF b.readerIndex + 1 <= b.writerIndex
                            THEN b.writerIndex - (b.readerIndex + 1) + 1 ELSE 0
      /\ \A i \in 1 .. b.writerIndex - (b.readerIndex + 1) + 1 :
            Readable(b)[i] = b.cells[b.readerIndex + 1 + i - 1]
  BY <1>1, SubSeqProperties DEF Readable
<1> QED BY <1>2 DEF readableBytes

(* A buffer made of its three parts. *)
LEMMA Parts ==
    ASSUME NEW cells \in Seq(Bytes), NEW r \in Nat, NEW w \in Nat,
           kCheapPrepend <= r, r <= w, w <= Len(cells),
           NEW b, b = [cells |-> cells, readerIndex |-> r, writerIndex |-> w]
    PROVE  /\ WellFormed(b)
           /\ b.cells = cells /\ b.readerIndex = r
           /\ readableBytes(b) = w - r /\ writableBytes(b) = Len(cells) - w
<1>1. b \in Buffers
  BY DEF Buffers
<1> QED BY <1>1 DEF WellFormed, readableBytes, writableBytes

(* The constructor: indices in bounds, nothing to read. *)
THEOREM NewBufferEmpty == WellFormed(NewBuffer) /\ Readable(NewBuffer) = <<>>
<1> USE BufferAssumption DEF NewBuffer
<1>1. NewBuffer.cells \in Seq(Bytes) /\ Len(NewBuffer.cells) = kCheapPrepend + kInitialSize
  OBVIOUS
<1>2. WellFormed(NewBuffer)
  BY <1>1 DEF WellFormed, Buffers
<1>3. Readable(NewBuffer) = <<>>
  BY SubSeqEmpty DEF Readable
<1> QED BY <1>2, <1>3

(* Copying to beginWrite() where there is room for it appends. *)
LEMMA FilledAppends ==
    ASSUME NEW b, WellFormed(b), NEW data \in Seq(Bytes), Len(data) <= writableBytes(b)
    PROVE  /\ WellFormed(Filled(b, data))
           /\ Readable(Filled(b, data)) = Readable(b) \o data
<1> DEFINE n == readableBytes(b)
           d == Len(data)
           r == b.readerIndex
           w == b.writerIndex
           old == b.cells
           new == [i \in 1 .. Len(old) |->
                      IF i - w \in 1 .. d THEN data[i - w] ELSE old[i]]
           f == Filled(b, data)
<1>1. /\ old \in Seq(Bytes) /\ Len(old) \in Nat /\ r \in Nat /\ w \in Nat
      /\ kCheapPrepend \in Nat /\ kCheapPrepend <= r /\ r <= w
      /\ w + d <= Len(old) /\ d \in Nat /\ n = w - r /\ n \in Nat
  BY BufferAssumption DEF WellFormed, Buffers, writableBytes, readableBytes
<1>2. new \in Seq(Bytes) /\ Len(new) = Len(old)
  BY <1>1
<1>3. /\ WellFormed(f) /\ f.cells = new /\ f.readerIndex = r
      /\ readableBytes(f) = n + d
  <2>1. f = [cells |-> new, readerIndex |-> r, writerIndex |-> w + d]
    BY DEF Filled
  <2> HIDE DEF f, new, old, r, w, d, n
  <2> QED BY <1>1, <1>2, <2>1, Parts
<1>4. ASSUME NEW i \in 1 .. n PROVE new[r + i] = old[r + i]
  <2> HIDE DEF old, r, w, d, n
  <2>1. PICK j \in 1 .. Len(old) : j = r + i /\ ~(j - w \in 1 .. d)
    BY <1>1
  <2>2. new[j] = old[j]
    BY <2>1
  <2> QED BY <2>1, <2>2
<1>5. ASSUME NEW i \in 1 .. d PROVE new[r + (n + i)] = data[i]
  <2> HIDE DEF old, r, w, d, n
  <2>1. PICK j \in 1 .. Len(old) : j = r + (n + i) /\ j - w = i
    BY <1>1
  <2>2. new[j] = data[j - w]
    BY <2>1
  <2> QED BY <2>1, <2>2
<1>6. /\ Readable(b) \in Seq(Bytes) /\ Len(Readable(b)) = n
      /\ \A i \in 1 .. n : Readable(b)[i] = old[r + i]
      /\ Readable(f) \in Seq(Bytes) /\ Len(Readable(f)) = n + d
      /\ \A i \in 1 .. n + d : Readable(f)[i] = new[r + i]
  <2>1. /\ Readable(b) \in Seq(Bytes) /\ Len(Readable(b)) = n
        /\ \A i \in 1 .. n : Readable(b)[i] = old[r + i]
    BY ReadableBytes
  <2>2. /\ Readable(f) \in Seq(Bytes) /\ Len(Readable(f)) = n + d
        /\ \A i \in 1 .. n + d : Readable(f)[i] = new[r + i]
    <3> HIDE DEF f, new, old, r, w, d, n
    <3> QED BY <1>3, ReadableBytes
  <2> QED BY <2>1, <2>2
<1>7. Readable(f) = Readable(b) \o data
  <2> DEFINE s == Readable(f)
             t == Readable(b)
  <2> HIDE DEF f, new, old, r, w, n, s, t
  <2>1. s \in Seq(Bytes) /\ t \in Seq(Bytes) /\ Len(t) = n /\ Len(s) = n + d
    BY <1>6 DEF s, t
  <2>2. \A i \in 1 .. n : s[i] = t[i]
    <3>1. \A i \in 1 .. n : i \in 1 .. n + d
      BY <1>1
    <3> QED BY <1>4, <1>6, <3>1 DEF s, t
  <2>3. \A i \in 1 .. d : s[n + i] = data[i]
    <3>1. \A i \in 1 .. d : n + i \in 1 .. n + d
      BY <1>1
    <3> QED BY <1>5, <1>6, <3>1 DEF s, t
  <2>4. s = t \o data
    BY <2>1, <2>2, <2>3, IsConcat
  <2> QED BY <2>4 DEF s, t
<1> QED BY <1>3, <1>7

(* A longer vector: makeSpace's resize. *)
LEMMA GrownKeeps ==
    ASSUME NEW b, WellFormed(b), NEW len \in Nat, writableBytes(b) < len
    PROVE  /\ WellFormed(Grown(b, len)) /\ Readable(Grown(b, len)) = Readable(b)
           /\ writableBytes(Grown(b, len)) = len
<1> DEFINE n == readableBytes(b)
           r == b.readerIndex
           w == b.writerIndex
           old == b.cells
           new == [i \in 1 .. w + len |-> IF i <= Len(old) THEN old[i] ELSE Zero]
           g == Grown(b, len)
<1>1. /\ old \in Seq(Bytes) /\ Len(old) \in Nat /\ r \in Nat /\ w \in Nat
      /\ kCheapPrepend \in Nat /\ kCheapPrepend <= r /\ r <= w
      /\ w <= Len(old) /\ Len(old) < w + len /\ n = w - r /\ n \in Nat
  BY BufferAssumption DEF WellFormed, Buffers, writableBytes, readableBytes
<1>2. new \in Seq(Bytes) /\ Len(new) = w + len
  <2>1. \A i \in 1 .. w + len : new[i] \in Bytes
    BY <1>1, BufferAssumption
  <2>2. w + len \in Nat
    <3> HIDE DEF w, old
    <3> QED BY <1>1
  <2>3. new \in [1 .. w + len -> Bytes]
    BY <2>1
  <2> HIDE DEF new, w
  <2> QED BY <2>2, <2>3
<1>3. /\ WellFormed(g) /\ g.cells = new /\ g.readerIndex = r
      /\ readableBytes(g) = n /\ writableBytes(g) = len
  <2>1. g = [cells |-> new, readerIndex |-> r, writerIndex |-> w]
    BY DEF Grown
  <2> HIDE DEF g, new, old, r, w, n
  <2>2. w <= Len(new) /\ Len(new) - w = len
    BY <1>1, <1>2
  <2>3. /\ new \in Seq(Bytes) /\ r \in Nat /\ w \in Nat
        /\ kCheapPrepend <= r /\ r <= w /\ w <= Len(new)
        /\ g = [cells |-> new, readerIndex |-> r, writerIndex |-> w]
    BY <1>1, <1>2, <2>1, <2>2
  <2>4. /\ WellFormed(g) /\ g.cells = new /\ g.readerIndex = r
        /\ readableBytes(g) = w - r /\ writableBytes(g) = Len(new) - w
    BY <2>3, Parts
  <2> QED BY <1>1, <2>2, <2>4
<1>4. ASSUME NEW i \in 1 .. n PROVE new[r + i] = old[r + i]
  <2> HIDE DEF old, r, w, n
  <2>1. PICK j \in 1 .. w + len : j = r + i /\ j <= Len(old)
    BY <1>1
  <2>2. new[j] = old[j]
    BY <2>1
  <2> QED BY <2>1, <2>2
<1>5. Readable(g) = Readable(b)
  <2> HIDE DEF g, new, old, r, w, n
  <2>1. /\ Readable(g) \in Seq(Bytes) /\ Len(Readable(g)) = n
        /\ \A i \in 1 .. n : Readable(g)[i] = new[r + i]
    BY <1>3, ReadableBytes
  <2>2. /\ Readable(b) \in Seq(Bytes) /\ Len(Readable(b)) = n
        /\ \A i \in 1 .. n : Readable(b)[i] = old[r + i]
    BY ReadableBytes DEF n, old, r
  <2> QED BY <1>4, <2>1, <2>2, SameBytes
<1> QED BY <1>3, <1>5

(* The same bytes at the front: makeSpace's copy. *)
LEMMA MovedKeeps ==
    ASSUME NEW b, WellFormed(b)
    PROVE  /\ WellFormed(Moved(b)) /\ Readable(Moved(b)) = Readable(b)
           /\ writableBytes(Moved(b)) =
                  writableBytes(b) + prependableBytes(b) - kCheapPrepend
<1> DEFINE n == readableBytes(b)
           r == b.readerIndex
           w == b.writerIndex
           old == b.cells
           k == kCheapPrepend
           new == [i \in 1 .. Len(old) |->
                      IF i - k \in 1 .. n THEN old[i - k + r] ELSE old[i]]
           m == Moved(b)
<1>1. /\ old \in Seq(Bytes) /\ Len(old) \in Nat /\ r \in Nat /\ w \in Nat
      /\ k \in Nat /\ k <= r /\ r <= w /\ w <= Len(old) /\ n = w - r /\ n \in Nat
  BY BufferAssumption DEF WellFormed, Buffers, readableBytes
<1>2. new \in Seq(Bytes) /\ Len(new) = Len(old)
  <2>1. ASSUME NEW i \in 1 .. Len(old), i - k \in 1 .. n
        PROVE  i - k + r \in 1 .. Len(old)
    <3> HIDE DEF old, r, w, n, k
    <3> QED BY <1>1, <2>1
  <2>2. \A i \in 1 .. Len(old) : new[i] \in Bytes
    BY <1>1, <2>1
  <2> QED BY <1>1, <2>2
<1>3. /\ WellFormed(m) /\ m.cells = new /\ m.readerIndex = k
      /\ readableBytes(m) = n /\ writableBytes(m) = Len(old) - (k + n)
  <2>1. m = [cells |-> new, readerIndex |-> k, writerIndex |-> k + n]
    BY DEF Moved
  <2>2. k + n \in Nat /\ k <= k + n /\ k + n <= Len(old) /\ k + n - k = n
    <3> HIDE DEF old, r, w, n, k
    <3> QED BY <1>1
  <2> HIDE DEF m, new, old, r, w, n
  <2> DEFINE e == k + n
  <2>3. /\ new \in Seq(Bytes) /\ k \in Nat /\ e \in Nat
        /\ kCheapPrepend <= k /\ k <= e /\ e <= Len(new)
        /\ m = [cells |-> new, readerIndex |-> k, writerIndex |-> e]
    BY <1>1, <1>2, <2>1, <2>2
  <2> HIDE DEF e, k
  <2>4. /\ WellFormed(m) /\ m.cells = new /\ m.readerIndex = k
        /\ readableBytes(m) = e - k /\ writableBytes(m) = Len(new) - e
    BY <2>3, Parts
  <2>5. e - k = n
    BY <1>1 DEF e
  <2>6. Len(new) - e = Len(old) - (k + n)
    <3>1. Len(new) = Len(old)
      BY <1>2
    <3> QED BY <3>1 DEF e
  <2> QED BY <2>4, <2>5, <2>6
<1>4. ASSUME NEW i \in 1 .. n PROVE new[k + i] = old[r + i]
  <2> HIDE DEF old, r, w, n, k
  <2>1. PICK j \in 1 .. Len(old) : j = k + i
    BY <1>1
  <2>2. j - k \in 1 .. n /\ j - k + r = r + i
    BY <1>1, <2>1
  <2>3. new[j] = old[j - k + r]
    BY <2>2
  <2> QED BY <2>1, <2>2, <2>3
<1>5. Readable(m) = Readable(b)
  <2> HIDE DEF m, new, old, r, w, n, k
  <2>1. /\ Readable(m) \in Seq(Bytes) /\ Len(Readable(m)) = n
        /\ \A i \in 1 .. n : Readable(m)[i] = new[k + i]
    BY <1>3, ReadableBytes
  <2>2. /\ Readable(b) \in Seq(Bytes) /\ Len(Readable(b)) = n
        /\ \A i \in 1 .. n : Readable(b)[i] = old[r + i]
    BY ReadableBytes DEF n, old, r
  <2> QED BY <1>4, <2>1, <2>2, SameBytes
<1>6. writableBytes(m) = writableBytes(b) + prependableBytes(b) - kCheapPrepend
  <2>1. writableBytes(b) = Len(old) - w /\ prependableBytes(b) = r
    BY DEF writableBytes, prependableBytes
  <2> HIDE DEF m, new, old, r, w, n
  <2> QED BY <1>1, <1>3, <2>1
<1> QED BY <1>3, <1>5, <1>6

(* ensureWritableBytes makes the room and keeps what can be read.          *)
THEOREM RoomIsMade ==
    ASSUME NEW b, WellFormed(b), NEW len \in Nat
    PROVE  LET e == ensureWritableBytes(b, len)
           IN WellFormed(e) /\ Readable(e) = Readable(b) /\ len <= writableBytes(e)
<1> USE BufferAssumption
<1>1. writableBytes(b) \in Nat /\ prependableBytes(b) \in Nat
  BY DEF WellFormed, Buffers, writableBytes, prependableBytes
<1>2. CASE writableBytes(b) >= len
  BY <1>1, <1>2 DEF ensureWritableBytes
<1>3. CASE writableBytes(b) < len /\ writableBytes(b) + prependableBytes(b) < len + kCheapPrepend
  <2>1. ensureWritableBytes(b, len) = Grown(b, len)
    BY <1>3 DEF ensureWritableBytes, makeSpace
  <2> QED BY <1>3, <2>1, GrownKeeps
<1>4. CASE writableBytes(b) < len /\ ~(writableBytes(b) + prependableBytes(b) < len + kCheapPrepend)
  <2>1. ensureWritableBytes(b, len) = Moved(b)
    BY <1>4 DEF ensureWritableBytes, makeSpace
  <2> QED BY <1>1, <1>4, <2>1, MovedKeeps
<1> QED BY <1>1, <1>2, <1>3, <1>4

(* append() adds its bytes at the end, whatever has to be moved for it.    *)
THEOREM AppendAppends ==
    ASSUME NEW b, WellFormed(b), NEW data \in Seq(Bytes)
    PROVE  /\ WellFormed(append(b, data))
           /\ Readable(append(b, data)) = Readable(b) \o data
<1>1. Len(data) \in Nat
  OBVIOUS
<1> QED BY <1>1, RoomIsMade, FilledAppends DEF append

(* readFd() adds what readv() read, be it in the vector, in extrabuf or in *)
(* both.                                                                   *)
THEOREM ReadFdAppends ==
    ASSUME NEW b, WellFormed(b), NEW data \in Seq(Bytes)
    PROVE  /\ WellFormed(readFd(b, data))
           /\ Readable(readFd(b, data)) = Readable(b) \o data
<1> DEFINE w == writableBytes(b)
           front == SubSeq(data, 1, w)
           back == SubSeq(data, w + 1, Len(data))
<1>1. w \in Nat /\ Len(data) \in Nat
  BY DEF WellFormed, Buffers, writableBytes
<1>2. CASE Len(data) <= w
  BY <1>2, FilledAppends DEF readFd
<1>3. CASE ~(Len(data) <= w)
  <2>1. /\ front \in Seq(Bytes) /\ Len(front) = w
        /\ \A i \in 1 .. w : front[i] = data[i]
    BY <1>1, <1>3, SubSeqProperties, ElementOfSeq
  <2>2. /\ back \in Seq(Bytes) /\ Len(back) = Len(data) - w
        /\ \A i \in 1 .. Len(data) - w : back[i] = data[w + i]
    BY <1>1, <1>3, Rest
  <2>3. data = front \o back
    <3> HIDE DEF front, back, w
    <3>1. Len(data) = Len(front) + Len(back)
      BY <1>1, <2>1, <2>2
    <3>2. /\ \A i \in 1 .. Len(front) : data[i] = front[i]
          /\ \A i \in 1 .. Len(back) : data[Len(front) + i] = back[i]
      BY <2>1, <2>2
    <3>3. front \in Seq(Bytes) /\ back \in Seq(Bytes)
      BY <2>1, <2>2
    <3> QED BY <3>1, <3>2, <3>3, IsConcat
  <2>4. /\ WellFormed(Filled(b, front))
        /\ Readable(Filled(b, front)) = Readable(b) \o front
    <3> HIDE DEF front
    <3>1. Len(front) <= writableBytes(b)
      BY <1>1, <2>1
    <3> QED BY <2>1, <3>1, FilledAppends
  <2>5. /\ WellFormed(readFd(b, data))
        /\ Readable(readFd(b, data)) = (Readable(b) \o front) \o back
    BY <1>3, <2>2, <2>4, AppendAppends DEF readFd
  <2>6. (Readable(b) \o front) \o back = Readable(b) \o (front \o back)
    <3> DEFINE s == Readable(b)
    <3>1. s \in Seq(Bytes) /\ front \in Seq(Bytes) /\ back \in Seq(Bytes)
      BY <2>1, <2>2, ReadableBytes
    <3> HIDE DEF front, back, s
    <3>2. (s \o front) \o back = s \o (front \o back)
      BY <3>1, ConcatAssociative
    <3> QED BY <3>2 DEF s
  <2> QED BY <2>3, <2>5, <2>6
<1> QED BY <1>2, <1>3

(* retrieve() takes bytes from the front. *)
THEOREM RetrieveRemoves ==
    ASSUME NEW b, WellFormed(b), NEW len \in 0 .. readableBytes(b)
    PROVE  /\ WellFormed(retrieve(b, len))
           /\ Readable(retrieve(b, len)) =
                  SubSeq(Readable(b), len + 1, readableBytes(b))
<1> DEFINE r == retrieve(b, len)
           rest == SubSeq(Readable(b), len + 1, readableBytes(b))
<1> USE BufferAssumption
<1>1. /\ b.cells \in Seq(Bytes) /\ b.readerIndex \in Nat /\ b.writerIndex \in Nat
      /\ b.readerIndex <= b.writerIndex /\ kCheapPrepend <= b.readerIndex
      /\ b.writerIndex <= Len(b.cells) /\ Len(b.cells) \in Nat
      /\ readableBytes(b) = b.writerIndex - b.readerIndex
      /\ b = [cells |-> b.cells, readerIndex |-> b.readerIndex, writerIndex |-> b.writerIndex]
  BY DEF WellFormed, Buffers, readableBytes
<1>2. CASE len < readableBytes(b)
  <2>1. r = [cells |-> b.cells, readerIndex |-> b.readerIndex + len,
             writerIndex |-> b.writerIndex]
    BY <1>1, <1>2 DEF retrieve
  <2>2. WellFormed(r) /\ readableBytes(r) = readableBytes(b) - len
    BY <1>1, <1>2, <2>1 DEF WellFormed, Buffers, readableBytes
  <2>3. /\ rest \in Seq(Bytes) /\ Len(rest) = readableBytes(b) - len
        /\ \A i \in 1 .. readableBytes(b) - len : rest[i] = Readable(b)[len + i]
    BY ReadableBytes, Rest
  <2>4. ASSUME NEW i \in 1 .. readableBytes(b) - len
        PROVE  Readable(r)[i] = rest[i]
    <3>1. Readable(r)[i] = r.cells[r.readerIndex + i]
      BY <2>2, ReadableBytes
    <3>2. Readable(b)[len + i] = b.cells[b.readerIndex + (len + i)]
      <4>1. len + i \in 1 .. readableBytes(b)
        BY <1>1, <1>2
      <4> QED BY <4>1, ReadableBytes
    <3>3. r.cells = b.cells /\ r.readerIndex + i = b.readerIndex + (len + i)
      <4> HIDE DEF r
      <4> QED BY <1>1, <1>2, <2>1
    <3> HIDE DEF r, rest
    <3> QED BY <2>3, <3>1, <3>2, <3>3
  <2> QED BY <2>2, <2>3, <2>4, ReadableBytes, SameBytes
<1>3. CASE len = readableBytes(b)
  <2>1. r = [cells |-> b.cells, readerIndex |-> kCheapPrepend, writerIndex |-> kCheapPrepend]
    BY <1>1, <1>3 DEF retrieve, retrieveAll
  <2>2. WellFormed(r)
    BY <1>1, <2>1 DEF WellFormed, Buffers
  <2>3. Readable(r) = <<>> /\ rest = <<>>
    BY <1>1, <1>3, <2>1, SubSeqEmpty DEF Readable
  <2> QED BY <2>2, <2>3
<1> QED BY <1>1, <1>2, <1>3

-----------------------------------------------------------------------------
(* The parser and the server over that buffer. *)

(* A set of natural numbers has a least element. *)
LEMMA MinIs ==
    ASSUME NEW S \in SUBSET Nat, S # {}
    PROVE  Min(S) \in S /\ \A y \in S : Min(S) <= y
<1> DEFINE R == OpToRel(<, Nat)
<1>1. \A x, y \in Nat : x < y => <<x, y>> \in R
  BY DEF OpToRel
<1>2. IsWellFoundedOn(R, Nat)
  BY NatLessThanWellFounded
<1> HIDE DEF R
<1>3. PICK x \in S : \A y \in S : ~(<<y, x>> \in R)
  BY <1>2, WFMin
<1>4. ASSUME NEW y \in S PROVE x <= y
  <2>1. x \in Nat /\ y \in Nat
    OBVIOUS
  <2>2. ~(y < x)
    BY <1>1, <1>3, <2>1
  <2> QED BY <2>1, <2>2
<1> QED BY <1>3, <1>4 DEF Min

(* The first elements of a sequence. *)
LEMMA First ==
    ASSUME NEW s \in Seq(Bytes), NEW k \in 0 .. Len(s)
    PROVE  SubSeq(s, 1, k) \in Seq(Bytes) /\ Len(SubSeq(s, 1, k)) = k
<1>1. \A i \in 1 .. k : s[i] \in Bytes
  BY ElementOfSeq
<1> QED BY <1>1, SubSeqProperties

(* The line and its CR and LF are in the buffer. *)
LEMMA LineFits ==
    ASSUME WellFormed(buf), findCRLF
    PROVE  /\ Line \in Seq(Bytes) /\ Len(Line) \in Nat
           /\ Len(Line) + 2 <= readableBytes(buf)
<1>1. /\ Readable(buf) \in Seq(Bytes) /\ readableBytes(buf) \in Nat
      /\ Len(Readable(buf)) = readableBytes(buf)
  BY ReadableBytes
<1>2. Ends \in SUBSET Nat /\ Ends # {} /\ Ends \subseteq 1 .. readableBytes(buf) - 1
  BY <1>1 DEF Ends, findCRLF
<1>3. Min(Ends) \in 1 .. readableBytes(buf) - 1
  BY <1>2, MinIs
<1> DEFINE s == Readable(buf)
           k == Min(Ends) - 1
<1>4. k \in 0 .. Len(s) /\ k + 2 <= readableBytes(buf) /\ k \in Nat
  BY <1>1, <1>3
<1>5. Line = SubSeq(s, 1, k)
  BY DEF Line
<1> HIDE DEF s, k
<1>6. s \in Seq(Bytes)
  BY <1>1 DEF s
<1>7. Line \in Seq(Bytes) /\ Len(Line) = k
  BY <1>4, <1>5, <1>6, First
<1> QED BY <1>4, <1>7

(* Taking a line out of the buffer takes it out of what was unread. *)
LEMMA LineRetrieved ==
    ASSUME WellFormed(buf), StreamKept, findCRLF, retrieveLine
    PROVE  WellFormed(buf)' /\ StreamKept' /\ unread' \in Seq(Bytes)
<1> DEFINE len == Len(Line) + 2
<1>1. len \in 0 .. readableBytes(buf) /\ len + 1 = Len(Line) + 3 /\ readableBytes(buf) \in Nat
  BY LineFits, ReadableBytes
<1>2. buf' = retrieve(buf, len) /\ unread' = SubSeq(unread, len + 1, Len(unread))
  BY <1>1 DEF retrieveLine
<1> HIDE DEF len
<1>3. /\ unread = Readable(buf) /\ unread \in Seq(Bytes) /\ Len(unread) = readableBytes(buf)
  BY ReadableBytes DEF StreamKept
<1>4. /\ WellFormed(retrieve(buf, len))
      /\ Readable(retrieve(buf, len)) = SubSeq(Readable(buf), len + 1, readableBytes(buf))
  BY <1>1, RetrieveRemoves
<1>5. WellFormed(buf')
  BY <1>2, <1>4
<1>6. Readable(buf') = unread'
  BY <1>2, <1>3, <1>4
<1>7. Readable(buf') \in Seq(Bytes)
  BY <1>5, ReadableBytes
<1> QED BY <1>5, <1>6, <1>7 DEF StreamKept, WellFormed, Readable

(* A request is tokens, and so is its text bytes. *)
LEMMA TextBytes ==
    ASSUME NEW n \in Ids, NEW req \in Requests
    PROVE  Text(n, req) \in Seq(Bytes)
<1>1. \A s, t \in Texts : s \o t \in Texts
  BY ConcatProperties DEF Texts
<1>2. /\ {"space", "colon", "cr", "lf", "Connection", "body"} \subseteq Tokens
      /\ req.method \in Tokens /\ req.path \in Tokens
      /\ req.version \in Texts /\ req.query \in Texts
      /\ req.connection \in Seq(Tokens)
  BY RequestsAssumption
<1>3. LineText(req) \in Texts
  <2>1. <<req.method, "space", req.path>> \in Texts /\ <<"space">> \in Texts
    BY <1>2 DEF Texts
  <2> QED BY <1>1, <1>2, <2>1 DEF LineText
<1>4. CrlfText \in Texts /\ <<>> \in Texts /\ <<"body">> \in Texts
  BY <1>2 DEF CrlfText, Texts
<1>5. \A i \in DOMAIN req.connection : HeaderText(req.connection[i]) \in Texts
  <2>1. \A i \in DOMAIN req.connection : req.connection[i] \in Tokens
    BY <1>2, ElementOfSeq
  <2> QED BY <1>2, <2>1 DEF HeaderText, Texts
<1> DEFINE header(i) == IF i \in DOMAIN req.connection
                        THEN HeaderText(req.connection[i]) \o CrlfText ELSE <<>>
           rest == IF req.body THEN <<"body">> ELSE <<>>
<1>6. header(1) \in Texts /\ header(2) \in Texts /\ rest \in Texts
  BY <1>1, <1>4, <1>5
<1>7. RequestText(req) =
        LineText(req) \o CrlfText \o header(1) \o header(2) \o CrlfText \o rest
  BY DEF RequestText
<1> HIDE DEF header, rest
<1>8. RequestText(req) \in Texts
  BY <1>1, <1>3, <1>4, <1>6, <1>7
<1>9. \A i \in DOMAIN RequestText(req) : Byte(RequestText(req)[i], n) \in Bytes
  <2>1. \A i \in DOMAIN RequestText(req) : RequestText(req)[i] \in Tokens
    BY <1>8, ElementOfSeq DEF Texts
  <2> QED BY <2>1, BytesAssumption DEF HttpBytes, Byte
<1>10. DOMAIN RequestText(req) = 1 .. Len(RequestText(req)) /\ Len(RequestText(req)) \in Nat
  BY <1>8 DEF Texts
<1> QED BY <1>9, <1>10 DEF Text

-----------------------------------------------------------------------------
(* What the operators on texts return.                                     *)
LEMMA FindIs ==
    ASSUME NEW text \in Texts, NEW token
    PROVE  find(text, token) \in 1 .. Len(text) + 1
<1> DEFINE S == {i \in DOMAIN text : text[i] = token} \cup {Len(text) + 1}
<1>1. Len(text) \in Nat /\ DOMAIN text = 1 .. Len(text)
  BY DEF Texts
<1>2. S \in SUBSET Nat /\ S # {} /\ S \subseteq 1 .. Len(text) + 1
  BY <1>1
<1>3. find(text, token) = Min(S)
  BY DEF find
<1> HIDE DEF S
<1> QED BY <1>2, <1>3, MinIs

LEMMA PartType ==
    ASSUME NEW text \in Texts, NEW m \in Nat \ {0}, NEW n \in Int, n <= Len(text)
    PROVE  SubSeq(text, m, n) \in Texts
<1>1. \A i \in 1 .. Len(text) : text[i] \in Tokens
  BY ElementOfSeq DEF Texts
<1>2. \A i \in m .. n : text[i] \in Tokens
  BY <1>1 DEF Texts
<1> QED BY <1>2, SubSeqProperties DEF Texts

LEMMA PartsType ==
    ASSUME NEW text \in Texts, NEW token
    PROVE  Before(text, token) \in Texts /\ Behind(text, token) \in Texts
<1>1. find(text, token) \in 1 .. Len(text) + 1 /\ Len(text) \in Nat
  BY FindIs DEF Texts
<1>2. find(text, token) - 1 \in Int /\ find(text, token) - 1 <= Len(text)
  BY <1>1
<1>3. find(text, token) + 1 \in Nat \ {0}
  BY <1>1
<1> QED BY <1>1, <1>2, <1>3, PartType DEF Before, Behind

LEMMA TrimType ==
    ASSUME NEW text \in Texts
    PROVE  Trim(text) \in Texts
<1> DEFINE kept == {i \in DOMAIN text : text[i] # "space"}
<1>1. Len(text) \in Nat /\ kept \subseteq 1 .. Len(text)
  BY DEF Texts
<1>2. CASE kept = {}
  BY <1>2 DEF Trim, Texts
<1>3. CASE kept # {}
  <2> DEFINE mirrored == {Len(text) - i : i \in kept}
  <2>1. mirrored \in SUBSET Nat /\ mirrored # {}
    BY <1>1, <1>3
  <2>2. PICK i \in kept : Min(mirrored) = Len(text) - i
    BY <2>1, MinIs
  <2>3. \A k \in kept : Min(mirrored) <= Len(text) - k
    BY <2>1, MinIs
  <2>4. \A k \in kept : i >= k
    BY <1>1, <2>2, <2>3
  <2>5. Max(kept) \in kept
    BY <2>2, <2>4 DEF Max
  <2>6. Min(kept) \in kept
    <3>1. kept \in SUBSET Nat
      BY <1>1
    <3> HIDE DEF kept
    <3> QED BY <1>3, <3>1, MinIs
  <2>7. Trim(text) = SubSeq(text, Min(kept), Max(kept))
    BY <1>3 DEF Trim
  <2> HIDE DEF kept, mirrored
  <2>8. Min(kept) \in Nat \ {0} /\ Max(kept) \in Int /\ Max(kept) <= Len(text)
    <3>1. \A k \in kept : k \in 1 .. Len(text)
      BY <1>1
    <3>2. Min(kept) \in 1 .. Len(text) /\ Max(kept) \in 1 .. Len(text)
      BY <2>5, <2>6, <3>1
    <3> QED BY <1>1, <3>2
  <2> QED BY <2>7, <2>8, PartType
<1> QED BY <1>2, <1>3

LEMMA MethodType == ASSUME NEW text PROVE MethodOf(text) \in methods
  BY DEF MethodOf, methods

LEMMA VersionType == ASSUME NEW text PROVE VersionOf(text) \in versions
  BY DEF VersionOf, versions

(* A request stays one through a request line and a header.                *)
LEMMA LineType ==
    ASSUME NEW r, IsRequest(r), NEW line \in Texts
    PROVE  IsRequest(processRequestLine(r, line))
<1> DEFINE target == Target(line)
           query == IF Has(target, "question")
                    THEN SubSeq(target, find(target, "question"), Len(target)) ELSE r.query
           parsed == processRequestLine(r, line)
<1>1. target \in Texts
  BY PartsType DEF Target
<1>2. query \in Texts
  <2>1. find(target, "question") \in 1 .. Len(target) + 1 /\ Len(target) \in Nat
    BY <1>1, FindIs DEF Texts
  <2>2. SubSeq(target, find(target, "question"), Len(target)) \in Texts
    BY <1>1, <2>1, PartType
  <2> QED BY <2>2 DEF IsRequest
<1>3. Before(target, "question") \in Texts
  BY <1>1, PartsType
<1>4. parsed = [method  |-> MethodOf(Before(line, "space")),
                version |-> VersionOf(Protocol(line)),
                path    |-> Before(target, "question"),
                query   |-> query,
                headers |-> r.headers]
  BY DEF processRequestLine
<1> HIDE DEF parsed, query, target
<1>5. /\ parsed.method \in methods /\ parsed.version \in versions
      /\ parsed.path \in Texts /\ parsed.query \in Texts
      /\ parsed.headers = r.headers
  BY <1>2, <1>3, <1>4, MethodType, VersionType
<1>6. parsed = [method |-> parsed.method, version |-> parsed.version,
                path |-> parsed.path, query |-> parsed.query, headers |-> parsed.headers]
  BY <1>4
<1>7. IsRequest(parsed)
  BY <1>5, <1>6 DEF IsRequest
<1> QED BY <1>7 DEF parsed

LEMMA HeaderType ==
    ASSUME NEW r, IsRequest(r), NEW line \in Texts
    PROVE  IsRequest(addHeader(r, line))
<1> DEFINE field == Before(line, "colon")
           value == Trim(Behind(line, "colon"))
           headers == [f \in DOMAIN r.headers \cup {field} |->
                         IF f = field THEN value ELSE r.headers[f]]
           added == addHeader(r, line)
<1>1. field \in Texts /\ value \in Texts
  BY PartsType, TrimType
<1>2. added = [method |-> r.method, version |-> r.version, path |-> r.path,
               query |-> r.query, headers |-> headers]
  BY DEF addHeader
<1> HIDE DEF added, field, value
<1>3. DOMAIN headers \subseteq Texts /\ \A f \in DOMAIN headers : headers[f] \in Texts
  BY <1>1 DEF IsRequest
<1> HIDE DEF headers
<1>4. /\ added.method = r.method /\ added.version = r.version /\ added.path = r.path
      /\ added.query = r.query /\ added.headers = headers
      /\ added = [method |-> added.method, version |-> added.version, path |-> added.path,
                   query |-> added.query, headers |-> added.headers]
  BY <1>2
<1>5. IsRequest(added)
  BY <1>3, <1>4 DEF IsRequest
<1> QED BY <1>5 DEF added

LEMMA NewRequestType == IsRequest(NewRequest)
  BY DEF IsRequest, NewRequest, methods, versions, Texts

-----------------------------------------------------------------------------
(* The types hold and the buffer is the stream; each part carries the      *)
(* other through a step, so they are proved together.                      *)
IInv == TypeOK /\ StreamKept

LEMMA Initially == Init => IInv
<1> SUFFICES ASSUME Init PROVE IInv
  OBVIOUS
<1>1. WellFormed(buf) /\ Readable(buf) = <<>>
  BY NewBufferEmpty DEF Init
<1>2. script \in Seq(Requests) /\ Len(script) <= NumRequests
  BY NumRequestsAssumption DEF Init
<1>3. IsRequest(request)
  BY NewRequestType DEF Init
<1> QED BY <1>1, <1>2, <1>3 DEF Init, IInv, TypeOK, StreamKept

LEMMA ClientSendsKeeps ==
    ASSUME IInv, NEW req \in Requests, ClientSends(req)
    PROVE  IInv'
<1> USE DEF ClientSends, IInv, TypeOK
<1>1. /\ Len(script') = Len(script) + 1 /\ Len(script') \in Ids
      /\ script' \in Seq(Requests) /\ Len(script') <= NumRequests
  BY NumRequestsAssumption DEF Ids
<1>2. wire' \in Seq(Bytes)
  <2>1. Text(Len(script'), req) \in Seq(Bytes)
    BY <1>1, TextBytes
  <2> QED BY <2>1, ConcatProperties
<1>3. WellFormed(buf') /\ Readable(buf') = unread'
  BY DEF StreamKept
<1> QED BY <1>1, <1>2, <1>3 DEF StreamKept, contextVars, WellFormed, Readable

LEMMA OnMessageKeeps ==
    ASSUME IInv, NEW n \in 1 .. Min2(Len(wire), MaxRead(buf)),
           OnMessage(SubSeq(wire, 1, n))
    PROVE  IInv'
<1> DEFINE piece == SubSeq(wire, 1, n)
<1>1. n \in 0 .. Len(wire)
  <2>1. Len(wire) \in Nat /\ MaxRead(buf) \in Int
    BY BufferAssumption DEF MaxRead, writableBytes, WellFormed, Buffers, IInv, TypeOK
  <2> QED BY <2>1 DEF Min2
<1>2. piece \in Seq(Bytes) /\ Len(piece) = n
  BY <1>1, First DEF IInv, TypeOK
<1>3. wire' \in Seq(Bytes)
  <2>1. wire' = SubSeq(wire, n + 1, Len(wire))
    BY <1>2 DEF OnMessage
  <2> QED BY <1>1, <2>1, Rest DEF IInv, TypeOK
<1> HIDE DEF piece
<1>4. /\ WellFormed(buf') /\ Readable(buf') = unread' /\ unread' \in Seq(Bytes)
  <2>1. /\ WellFormed(readFd(buf, piece))
        /\ Readable(readFd(buf, piece)) = Readable(buf) \o piece
    BY <1>2, ReadFdAppends DEF IInv, TypeOK
  <2>2. buf' = readFd(buf, piece) /\ unread' = unread \o piece
    BY DEF OnMessage, piece
  <2>3. unread \o piece \in Seq(Bytes)
    BY <1>2, ConcatProperties DEF IInv, TypeOK
  <2> QED BY <2>1, <2>2, <2>3 DEF IInv, StreamKept
<1>5. whole' \in BOOLEAN
  BY DEF OnMessage
<1>6. IsRequest(request')
  BY NewRequestType DEF OnMessage
<1> QED
  BY <1>3, <1>4, <1>5, <1>6 DEF IInv, TypeOK, StreamKept, OnMessage, WellFormed, Readable

(* The parser looks at tokens, and the first of a request line names a     *)
(* request.                                                                *)
LEMMA LineIs ==
    ASSUME WellFormed(buf), findCRLF
    PROVE  /\ LineTokens \in Texts
           /\ IsRequestLine(LineTokens) => Line[1].id \in Ids \cup {0}
<1>1. Line \in Seq(Bytes) /\ Len(Line) \in Nat /\ DOMAIN Line = 1 .. Len(Line)
  BY LineFits
<1>2. \A i \in DOMAIN Line : Line[i] \in Bytes
  BY <1>1, ElementOfSeq
<1>3. \A x \in Bytes : x.kind \in Tokens /\ x.id \in Ids \cup {0}
  BY BytesAssumption, RequestsAssumption DEF HttpBytes, Nothing, Byte
<1>4. LineTokens \in Texts /\ Len(LineTokens) = Len(Line)
  BY <1>1, <1>2, <1>3 DEF LineTokens, Texts
<1>5. ASSUME IsRequestLine(LineTokens) PROVE Line[1].id \in Ids \cup {0}
  <2>1. find(LineTokens, "space") \in 1 .. Len(Line) + 1 /\ find(LineTokens, "space") <= Len(Line)
    BY <1>4, <1>5, FindIs DEF IsRequestLine, Has
  <2>2. 1 \in DOMAIN Line
    BY <1>1, <2>1
  <2> QED BY <1>2, <1>3, <2>2
<1> QED BY <1>4, <1>5

LEMMA ParserKeeps ==
    ASSUME IInv, RequestLine \/ Header \/ LastLine
    PROVE  IInv'
<1>1. findCRLF /\ retrieveLine /\ WellFormed(buf) /\ StreamKept
  BY DEF RequestLine, Header, LastLine, IInv, TypeOK
<1>2. WellFormed(buf)' /\ StreamKept' /\ unread' \in Seq(Bytes)
  BY <1>1, LineRetrieved
<1>3. IsRequest(request') /\ current' \in Ids \cup {0}
  <2>1. IsRequest(request) /\ current \in Ids \cup {0}
    BY DEF IInv, TypeOK
  <2>2. LineTokens \in Texts /\ (IsRequestLine(LineTokens) => Line[1].id \in Ids \cup {0})
    BY <1>1, LineIs
  <2>3. CASE RequestLine
    BY <2>1, <2>2, <2>3, LineType DEF RequestLine
  <2>4. CASE Header
    BY <2>1, <2>2, <2>4, HeaderType DEF Header
  <2>5. CASE LastLine
    BY <2>1, <2>5 DEF LastLine
  <2> QED BY <2>3, <2>4, <2>5
<1> QED
  BY <1>2, <1>3 DEF RequestLine, Header, LastLine, IInv, TypeOK, netVars

(* The steps that leave the buffer alone. *)
LEMMA AnswersKeep ==
    ASSUME IInv,
           \/ NoLine \/ BadRequestLine \/ PeerCloses
           \/ \E close \in BOOLEAN, body \in 0 .. 1 : OnRequest(close, body)
    PROVE  IInv'
<1> DEFINE Answers == [id : Ids \cup {BadRequest}, asked : BOOLEAN, close : BOOLEAN,
                       body : Nat, length : Nat \cup {NoLength}]
<1>1. UNCHANGED <<netVars, buf, contextVars, unread>>
  BY DEF NoLine, BadRequestLine, OnRequest, PeerCloses
<1>2. output' \in Seq(Answers)
  <2>1. \A n \in Ids \cup {0}, asked \in BOOLEAN, close \in BOOLEAN, body \in Nat :
            Answer(n, asked, close, body) \in Answers
    BY DEF Answer, BadRequest
  <2>2. current \in Ids \cup {0} /\ output \in Seq(Answers)
    BY DEF IInv, TypeOK
  <2>3. asksToClose(request) \in BOOLEAN
    BY DEF asksToClose
  <2> HIDE DEF Answers
  <2>4. CASE NoLine \/ PeerCloses
    BY <2>2, <2>4 DEF NoLine, PeerCloses
  <2>5. CASE BadRequestLine
    <3> DEFINE answer == Answer(BadRequest, FALSE, TRUE, 0)
    <3>1. answer \in Answers
      BY <2>1 DEF BadRequest
    <3>2. output' = output \/ output' = Append(output, answer)
      BY <2>5 DEF BadRequestLine, send
    <3> HIDE DEF answer
    <3> QED BY <2>2, <3>1, <3>2
  <2>6. CASE \E close \in BOOLEAN, body \in 0 .. 1 : OnRequest(close, body)
    <3>1. PICK close \in BOOLEAN, body \in 0 .. 1 : OnRequest(close, body)
      BY <2>6
    <3>2. body \in Nat /\ current \in Ids \cup {0}
      BY <2>2
    <3> DEFINE answer == Answer(current, asksToClose(request), close, body)
    <3>3. answer \in Answers
      BY <2>1, <2>3, <3>2, Zenon
    <3>4. output' = output \/ output' = Append(output, answer)
      BY <3>1 DEF OnRequest, send
    <3> HIDE DEF answer
    <3> QED BY <2>2, <3>3, <3>4
  <2> QED BY <2>4, <2>5, <2>6
<1>3. /\ state' \in {"kConnected", "kDisconnecting", "kDisconnected"}
      /\ pc' \in {"poll", "parse", "request"}
  BY DEF NoLine, BadRequestLine, OnRequest, PeerCloses, shutdown, IInv, TypeOK
<1> QED
  BY <1>1, <1>2, <1>3
  DEF IInv, TypeOK, StreamKept, netVars, contextVars, WellFormed, Readable

LEMMA Steps == IInv /\ [Next]_vars => IInv'
<1> SUFFICES ASSUME IInv, [Next]_vars PROVE IInv'
  OBVIOUS
<1>1. CASE \E req \in Requests : ClientSends(req)
  BY <1>1, ClientSendsKeeps
<1>2. CASE \E n \in 1 .. Min2(Len(wire), MaxRead(buf)) : OnMessage(SubSeq(wire, 1, n))
  BY <1>2, OnMessageKeeps
<1>3. CASE RequestLine \/ Header \/ LastLine
  BY <1>3, ParserKeeps
<1>4. CASE \/ NoLine \/ BadRequestLine \/ PeerCloses
           \/ \E close \in BOOLEAN, body \in 0 .. 1 : OnRequest(close, body)
  BY <1>4, AnswersKeep
<1>5. CASE UNCHANGED vars
  BY <1>5 DEF vars, IInv, TypeOK, StreamKept, WellFormed, Readable
<1> QED BY <1>1, <1>2, <1>3, <1>4, <1>5 DEF Next

(* The types, with the indices of the buffer in bounds, for every number   *)
(* of requests and every size of the buffer and of extrabuf.               *)
THEOREM TypeCorrect == Spec => []TypeOK
<1>1. IInv => TypeOK
  BY DEF IInv
<1> QED BY Initially, Steps, <1>1, PTL DEF Spec

(* What can be read is what arrived and was not retrieved.                 *)
THEOREM StreamIsKept == Spec => []StreamKept
<1>1. IInv => StreamKept
  BY DEF IInv
<1> QED BY Initially, Steps, <1>1, PTL DEF Spec

-----------------------------------------------------------------------------
(* What a client means and what the parser makes of it: the grammar.       *)

(* Where everything is in a sequence that is one and then another. *)
LEMMA Joined ==
    ASSUME NEW S, NEW s \in Seq(S), NEW t \in Seq(S)
    PROVE  /\ s \o t \in Seq(S) /\ Len(s \o t) = Len(s) + Len(t) /\ Len(s) \in Nat /\ Len(t) \in Nat
           /\ \A i \in 1 .. Len(s) : (s \o t)[i] = s[i]
           /\ \A i \in 1 .. Len(t) : (s \o t)[Len(s) + i] = t[i]
<1>1. /\ s \o t \in Seq(S) /\ Len(s \o t) = Len(s) + Len(t) /\ Len(s) \in Nat /\ Len(t) \in Nat
      /\ \A i \in 1 .. Len(s) + Len(t) : (s \o t)[i] = IF i <= Len(s) THEN s[i] ELSE t[i - Len(s)]
  BY ConcatProperties, LenProperties
<1>2. \A i \in 1 .. Len(s) : (s \o t)[i] = s[i]
  BY <1>1
<1>3. ASSUME NEW i \in 1 .. Len(t) PROVE (s \o t)[Len(s) + i] = t[i]
  <2>1. Len(s) + i \in 1 .. Len(s) + Len(t) /\ ~(Len(s) + i <= Len(s)) /\ (Len(s) + i) - Len(s) = i
    BY <1>1
  <2> QED BY <1>1, <2>1
<1> QED BY <1>1, <1>2, <1>3

(* The same of texts. *)
LEMMA JoinedTexts ==
    \A s, t \in Texts :
        /\ s \o t \in Texts /\ Len(s \o t) = Len(s) + Len(t) /\ Len(s) \in Nat /\ Len(t) \in Nat
        /\ \A i \in 1 .. Len(s) : (s \o t)[i] = s[i]
        /\ \A i \in 1 .. Len(t) : (s \o t)[Len(s) + i] = t[i]
BY Joined DEF Texts

(* A part of a sequence. *)
LEMMA Part ==
    ASSUME NEW S, NEW s \in Seq(S), NEW m \in Nat \ {0}, NEW n \in Int, m <= n + 1, n <= Len(s)
    PROVE  /\ SubSeq(s, m, n) \in Seq(S) /\ Len(SubSeq(s, m, n)) = n - m + 1
           /\ \A i \in 1 .. n - m + 1 : SubSeq(s, m, n)[i] = s[m + i - 1]
<1>1. Len(s) \in Nat
  BY LenProperties
<1>2. \A i \in m .. n : s[i] \in S
  BY <1>1, ElementOfSeq
<1> QED BY <1>1, <1>2, SubSeqProperties

(* find returns the first place of a token. *)
LEMMA FindAt ==
    ASSUME NEW text \in Texts, NEW token, NEW p \in 1 .. Len(text), text[p] = token,
           \A q \in 1 .. p - 1 : text[q] # token
    PROVE  find(text, token) = p /\ Has(text, token)
<1> DEFINE S == {i \in DOMAIN text : text[i] = token} \cup {Len(text) + 1}
<1>1. Len(text) \in Nat /\ DOMAIN text = 1 .. Len(text)
  BY DEF Texts
<1>2. S \in SUBSET Nat /\ p \in S /\ \A i \in S : i >= p
  BY <1>1
<1>3. find(text, token) = Min(S)
  BY DEF find
<1> HIDE DEF S
<1>4. Min(S) \in S /\ Min(S) <= p
  BY <1>2, MinIs
<1>5. Min(S) = p
  <2>1. Min(S) \in Nat /\ Min(S) >= p
    BY <1>2, <1>4
  <2> QED BY <1>4, <2>1
<1> QED BY <1>1, <1>3, <1>5 DEF Has

(* find returns one past the end if the token is not there. *)
LEMMA FindNone ==
    ASSUME NEW text \in Texts, NEW token, \A q \in 1 .. Len(text) : text[q] # token
    PROVE  find(text, token) = Len(text) + 1 /\ ~Has(text, token)
<1> DEFINE S == {i \in DOMAIN text : text[i] = token} \cup {Len(text) + 1}
<1>1. Len(text) \in Nat /\ DOMAIN text = 1 .. Len(text)
  BY DEF Texts
<1>2. S = {Len(text) + 1}
  BY <1>1
<1>3. find(text, token) = Min(S)
  BY DEF find
<1>4. S \in SUBSET Nat /\ S # {}
  BY <1>1, <1>2
<1> HIDE DEF S
<1>5. Min(S) \in S
  BY <1>4, MinIs
<1> QED BY <1>1, <1>2, <1>3, <1>5 DEF Has

(* What the assumptions say of the words of a request. *)
LEMMA Words ==
    ASSUME NEW req \in Requests
    PROVE  /\ req.method \in Tokens \ {"space", "cr"} /\ req.path \in Tokens \ {"space", "cr", "question"}
           /\ req.version \in Texts /\ \A i \in 1 .. Len(req.version) : req.version[i] # "cr"
           /\ req.query \in Texts /\ \A i \in 1 .. Len(req.query) : req.query[i] \notin {"space", "cr"}
           /\ (req.query = <<>> \/ req.query[1] = "question")
           /\ req.connection \in Texts /\ Len(req.connection) \in {0, 1, 2}
           /\ \A i \in 1 .. Len(req.connection) : /\ req.connection[i] \in Tokens
                                                   /\ req.connection[i] \notin {"space", "cr"}
           /\ req.body \in BOOLEAN
           /\ {"space", "colon", "cr", "lf", "Connection", "body"} \subseteq Tokens
<1>1. /\ req.method \in Tokens /\ req.path \in Tokens
      /\ req.version \in Texts /\ req.query \in Texts /\ req.connection \in Texts
      /\ Len(req.connection) <= 2 /\ req.body \in BOOLEAN
      /\ {"space", "colon", "cr", "lf", "Connection", "body"} \subseteq Tokens
  BY RequestsAssumption DEF Texts
<1>2. \A t \in Texts : /\ Len(t) \in Nat
                       /\ \A i \in 1 .. Len(t) : t[i] \in Tokens /\ t[i] \in Range(t)
  BY LenProperties, ElementOfSeq DEF Texts, Range
<1>3. /\ \A word \in {req.method, req.path} \cup Range(req.version) \cup Range(req.query)
                     \cup Range(req.connection) : word \notin {"space", "cr"}
      /\ req.path # "question" /\ (req.query = <<>> \/ req.query[1] = "question")
  BY WordsAssumption
<1>4. /\ req.method \notin {"space", "cr"} /\ req.path \notin {"space", "cr", "question"}
  BY <1>3
<1>5. \A i \in 1 .. Len(req.version) : req.version[i] # "cr"
  BY <1>1, <1>2, <1>3
<1>6. \A i \in 1 .. Len(req.query) : req.query[i] \notin {"space", "cr"}
  BY <1>1, <1>2, <1>3
<1>7. \A i \in 1 .. Len(req.connection) : /\ req.connection[i] \in Tokens
                                          /\ req.connection[i] \notin {"space", "cr"}
  BY <1>1, <1>2, <1>3
<1>8. Len(req.connection) \in {0, 1, 2}
  <2>1. PICK c : c = Len(req.connection)
    OBVIOUS
  <2>2. c \in Nat /\ c <= 2
    BY <1>1, <1>2, <2>1
  <2>3. c \in {0, 1, 2}
    BY <2>2
  <2> QED BY <2>1, <2>3
<1> QED BY <1>1, <1>3, <1>4, <1>5, <1>6, <1>7, <1>8

(* Where everything is in a request line. *)
LEMMA LineTextIs ==
    ASSUME NEW req \in Requests
    PROVE  LET line == LineText(req)  q == Len(req.query)  v == Len(req.version) IN
           /\ line \in Texts /\ Len(line) = 4 + q + v /\ q \in Nat /\ v \in Nat
           /\ line[1] = req.method /\ line[2] = "space" /\ line[3] = req.path
           /\ \A i \in 1 .. q : line[3 + i] = req.query[i]
           /\ line[4 + q] = "space"
           /\ \A i \in 1 .. v : line[4 + q + i] = req.version[i]
<1> DEFINE a == <<req.method, "space", req.path>>  b == a \o req.query  c == b \o <<"space">>
           line == c \o req.version  q == Len(req.query)  v == Len(req.version)
<1>1. /\ a \in Texts /\ Len(a) = 3 /\ a[1] = req.method /\ a[2] = "space" /\ a[3] = req.path
      /\ <<"space">> \in Texts /\ Len(<<"space">>) = 1 /\ <<"space">>[1] = "space"
  BY Words DEF Texts
<1>2. req.query \in Texts /\ req.version \in Texts
  BY Words
<1> HIDE DEF a
<1>3. /\ b \in Texts /\ Len(b) = 3 + q /\ q \in Nat
      /\ \A i \in 1 .. 3 : b[i] = a[i]
      /\ \A i \in 1 .. q : b[3 + i] = req.query[i]
  <2>1. /\ b \in Texts /\ Len(b) = Len(a) + q /\ q \in Nat
        /\ \A i \in 1 .. Len(a) : b[i] = a[i]
        /\ \A i \in 1 .. q : b[Len(a) + i] = req.query[i]
    BY <1>1, <1>2, JoinedTexts
  <2> QED BY <1>1, <2>1
<1> HIDE DEF b
<1>4. /\ c \in Texts /\ Len(c) = 4 + q
      /\ \A i \in 1 .. 3 + q : c[i] = b[i]
      /\ c[4 + q] = "space"
  <2>1. /\ c \in Texts /\ Len(c) = Len(b) + 1
        /\ \A i \in 1 .. Len(b) : c[i] = b[i]
        /\ c[Len(b) + 1] = <<"space">>[1]
    BY <1>1, <1>3, Joined DEF Texts
  <2> HIDE DEF c
  <2> QED BY <1>1, <1>3, <2>1
<1> HIDE DEF c
<1>5. /\ line \in Texts /\ Len(line) = 4 + q + v /\ v \in Nat
      /\ \A i \in 1 .. 4 + q : line[i] = c[i]
      /\ \A i \in 1 .. v : line[4 + q + i] = req.version[i]
  <2>1. /\ line \in Texts /\ Len(line) = Len(c) + v /\ v \in Nat
        /\ \A i \in 1 .. Len(c) : line[i] = c[i]
        /\ \A i \in 1 .. v : line[Len(c) + i] = req.version[i]
    BY <1>2, <1>4, JoinedTexts
  <2> QED BY <1>4, <2>1
<1>6. LineText(req) = line
  BY DEF LineText, a, b, c
<1> HIDE DEF line, q, v
<1>7. line[1] = req.method /\ line[2] = "space" /\ line[3] = req.path
  BY <1>1, <1>3, <1>4, <1>5
<1>8. \A i \in 1 .. q : line[3 + i] = req.query[i]
  BY <1>3, <1>4, <1>5
<1>9. line[4 + q] = "space"
  BY <1>3, <1>4, <1>5
<1> QED BY <1>3, <1>5, <1>6, <1>7, <1>8, <1>9 DEF q, v

(* Where everything is in a header. *)
LEMMA HeaderTextIs ==
    ASSUME NEW value \in Tokens
    PROVE  LET text == HeaderText(value) IN
           /\ text \in Texts /\ Len(text) = 5
           /\ text[1] = "Connection" /\ text[2] = "colon" /\ text[3] = "space"
           /\ text[4] = value /\ text[5] = "space"
<1>1. {"space", "colon", "cr", "lf", "Connection", "body"} \subseteq Tokens
  BY RequestsAssumption
<1> QED BY <1>1 DEF HeaderText, Texts

(* The lines of a request: the request line, the headers, an empty one.    *)
NumLines(req) == Len(req.connection) + 2
LineOf(req, i) ==
    IF i = 1 THEN LineText(req)
    ELSE IF i < NumLines(req) THEN HeaderText(req.connection[i - 1]) ELSE <<>>
StartOf(req, i) == IF i = 1 THEN 1 ELSE Len(LineText(req)) + 3 + 7 * (i - 2)

(* What ends a line. *)
LEMMA CrlfIs == CrlfText \in Texts /\ Len(CrlfText) = 2 /\ CrlfText[1] = "cr" /\ CrlfText[2] = "lf"
BY RequestsAssumption DEF CrlfText, Texts

(* The empty line. *)
LEMMA EmptyText == <<>> \in Texts /\ Len(<<>>) = 0
BY EmptySeq DEF Texts

(* A header, or what stands for one that is not there. *)
OneHeader(req, i) ==
    IF i \in DOMAIN req.connection THEN HeaderText(req.connection[i]) \o CrlfText ELSE <<>>

(* Where everything is in a header and its CR and LF. *)
LEMMA OneHeaderIs ==
    ASSUME NEW req \in Requests, NEW i \in {1, 2}
    PROVE  /\ OneHeader(req, i) \in Texts
           /\ i > Len(req.connection) => Len(OneHeader(req, i)) = 0
           /\ i <= Len(req.connection) =>
                 /\ Len(OneHeader(req, i)) = 7
                 /\ \A j \in 1 .. 5 : OneHeader(req, i)[j] = HeaderText(req.connection[i])[j]
                 /\ OneHeader(req, i)[6] = "cr" /\ OneHeader(req, i)[7] = "lf"
<1>1. /\ DOMAIN req.connection = 1 .. Len(req.connection) /\ Len(req.connection) \in {0, 1, 2}
      /\ \A k \in 1 .. Len(req.connection) : req.connection[k] \in Tokens
  BY Words DEF Texts
<1>2. CASE i > Len(req.connection)
  <2>1. OneHeader(req, i) = <<>>
    BY <1>1, <1>2 DEF OneHeader
  <2> QED BY <1>1, <1>2, <2>1, EmptyText
<1>3. CASE i <= Len(req.connection)
  <2> DEFINE h == HeaderText(req.connection[i])
  <2>1. i \in 1 .. Len(req.connection)
    BY <1>1, <1>3
  <2>2. h \in Texts /\ Len(h) = 5
    BY <1>1, <2>1, HeaderTextIs
  <2>3. OneHeader(req, i) = h \o CrlfText
    BY <1>1, <2>1 DEF OneHeader
  <2> HIDE DEF h
  <2>4. /\ h \o CrlfText \in Texts /\ Len(h \o CrlfText) = 7
        /\ \A j \in 1 .. 5 : (h \o CrlfText)[j] = h[j]
        /\ \A j \in 1 .. 2 : (h \o CrlfText)[5 + j] = CrlfText[j]
    <3>1. /\ h \o CrlfText \in Texts /\ Len(h \o CrlfText) = Len(h) + Len(CrlfText)
          /\ \A j \in 1 .. Len(h) : (h \o CrlfText)[j] = h[j]
          /\ \A j \in 1 .. Len(CrlfText) : (h \o CrlfText)[Len(h) + j] = CrlfText[j]
      BY <2>2, CrlfIs, JoinedTexts
    <3> QED BY <2>2, <3>1, CrlfIs
  <2> DEFINE t == h \o CrlfText
  <2>5. /\ t \in Texts /\ Len(t) = 7 /\ OneHeader(req, i) = t
        /\ \A j \in 1 .. 5 : t[j] = h[j]
        /\ \A j \in 1 .. 2 : t[5 + j] = CrlfText[j]
    BY <2>3, <2>4
  <2> HIDE DEF t
  <2>6. t[6] = "cr" /\ t[7] = "lf"
    <3>1. /\ t[5 + 1] = CrlfText[1] /\ t[5 + 2] = CrlfText[2]
      BY <2>5
    <3> QED BY <3>1, CrlfIs
  <2>7. ~(i > Len(req.connection))
    BY <1>1, <1>3
  <2> QED BY <2>5, <2>6, <2>7 DEF h
<1> QED BY <1>1, <1>2, <1>3

(* Where everything is in a request. *)
LEMMA TextIs ==
    ASSUME NEW req \in Requests
    PROVE  LET text == RequestText(req)  len == Len(LineText(req))  c == Len(req.connection) IN
           /\ text \in Texts /\ len \in Nat /\ len >= 4
           /\ Len(text) = len + 7 * c + (IF req.body THEN 5 ELSE 4)
           /\ \A j \in 1 .. len : text[j] = LineText(req)[j]
           /\ text[len + 1] = "cr" /\ text[len + 2] = "lf"
           /\ \A i \in 1 .. c :
                 /\ \A j \in 1 .. 5 : text[len + 2 + 7 * (i - 1) + j] = HeaderText(req.connection[i])[j]
                 /\ text[len + 2 + 7 * (i - 1) + 6] = "cr" /\ text[len + 2 + 7 * (i - 1) + 7] = "lf"
           /\ text[len + 2 + 7 * c + 1] = "cr" /\ text[len + 2 + 7 * c + 2] = "lf"
           /\ req.body => text[len + 2 + 7 * c + 3] = "body"
<1> DEFINE l == LineText(req)  h1 == OneHeader(req, 1)  h2 == OneHeader(req, 2)
           b == IF req.body THEN <<"body">> ELSE <<>>
           t1 == l \o CrlfText  t2 == t1 \o h1  t3 == t2 \o h2  t4 == t3 \o CrlfText  t5 == t4 \o b
           len == Len(l)  c == Len(req.connection)
<1>1. RequestText(req) = t5
  BY DEF RequestText, OneHeader
<1>2. /\ l \in Texts /\ len \in Nat /\ len >= 4 /\ c \in {0, 1, 2}
  <2>1. l \in Texts /\ len = 4 + Len(req.query) + Len(req.version)
        /\ Len(req.query) \in Nat /\ Len(req.version) \in Nat
    BY LineTextIs
  <2>2. c \in {0, 1, 2}
    BY Words
  <2>3. \A x, q, v : q \in Nat /\ v \in Nat /\ x = 4 + q + v => x \in Nat /\ x >= 4
    OBVIOUS
  <2> HIDE DEF len
  <2>4. len \in Nat /\ len >= 4
    BY <2>1, <2>3
  <2> QED BY <2>1, <2>2, <2>4
<1>3. /\ b \in Texts /\ Len(b) = IF req.body THEN 1 ELSE 0
      /\ req.body => b[1] = "body"
  BY EmptyText, Words DEF Texts
<1>4. /\ h1 \in Texts /\ h2 \in Texts
      /\ Len(h1) = IF c >= 1 THEN 7 ELSE 0
      /\ Len(h2) = IF c = 2 THEN 7 ELSE 0
      /\ c >= 1 => /\ \A j \in 1 .. 5 : h1[j] = HeaderText(req.connection[1])[j]
                   /\ h1[6] = "cr" /\ h1[7] = "lf"
      /\ c = 2 => /\ \A j \in 1 .. 5 : h2[j] = HeaderText(req.connection[2])[j]
                  /\ h2[6] = "cr" /\ h2[7] = "lf"
  <2>1. CASE c = 0
    BY <2>1, OneHeaderIs
  <2>2. CASE c = 1
    BY <2>2, OneHeaderIs
  <2>3. CASE c = 2
    BY <2>3, OneHeaderIs
  <2> QED BY <1>2, <2>1, <2>2, <2>3
<1> HIDE DEF l, h1, h2, b, c
<1>5. /\ t1 \in Texts /\ Len(t1) = len + 2 /\ \A j \in 1 .. len : t1[j] = l[j]
      /\ t1[len + 1] = "cr" /\ t1[len + 2] = "lf"
  <2>1. /\ t1 \in Texts /\ Len(t1) = len + Len(CrlfText) /\ \A j \in 1 .. len : t1[j] = l[j]
        /\ \A j \in 1 .. Len(CrlfText) : t1[len + j] = CrlfText[j]
    BY <1>2, CrlfIs, JoinedTexts
  <2> HIDE DEF t1
  <2> QED BY <2>1, CrlfIs
<1> HIDE DEF t1, len
<1>6. /\ t2 \in Texts /\ Len(t2) = Len(t1) + Len(h1)
      /\ \A j \in 1 .. Len(t1) : t2[j] = t1[j]
      /\ \A j \in 1 .. Len(h1) : t2[Len(t1) + j] = h1[j]
  BY <1>4, <1>5, JoinedTexts
<1> HIDE DEF t2
<1>7. /\ t3 \in Texts /\ Len(t3) = Len(t2) + Len(h2)
      /\ \A j \in 1 .. Len(t2) : t3[j] = t2[j]
      /\ \A j \in 1 .. Len(h2) : t3[Len(t2) + j] = h2[j]
  BY <1>4, <1>6, JoinedTexts
<1> HIDE DEF t3
<1>8. /\ t4 \in Texts /\ Len(t4) = Len(t3) + 2
      /\ \A j \in 1 .. Len(t3) : t4[j] = t3[j]
      /\ t4[Len(t3) + 1] = "cr" /\ t4[Len(t3) + 2] = "lf"
  <2>1. /\ t4 \in Texts /\ Len(t4) = Len(t3) + Len(CrlfText)
        /\ \A j \in 1 .. Len(t3) : t4[j] = t3[j]
        /\ \A j \in 1 .. Len(CrlfText) : t4[Len(t3) + j] = CrlfText[j]
    BY <1>7, CrlfIs, JoinedTexts
  <2> HIDE DEF t4
  <2> QED BY <2>1, CrlfIs
<1> HIDE DEF t4
<1>9. /\ t5 \in Texts /\ Len(t5) = Len(t4) + Len(b)
      /\ \A j \in 1 .. Len(t4) : t5[j] = t4[j]
      /\ \A j \in 1 .. Len(b) : t5[Len(t4) + j] = b[j]
  BY <1>3, <1>8, JoinedTexts
<1> HIDE DEF t5
<1>0. len + 2 <= Len(t2) /\ Len(t2) <= Len(t3) /\ Len(t3) <= Len(t4) /\ Len(t4) \in Nat
      /\ Len(t2) \in Nat /\ Len(t3) \in Nat
  BY <1>2, <1>4, <1>5, <1>6, <1>7, <1>8
<1>10. /\ \A j \in 1 .. len : t5[j] = l[j]
       /\ t5[len + 1] = "cr" /\ t5[len + 2] = "lf"
  <2>1. \A j \in 1 .. len + 2 : /\ j \in 1 .. Len(t2) /\ j \in 1 .. Len(t3) /\ j \in 1 .. Len(t4)
                                 /\ j \in 1 .. Len(t1)
    BY <1>0, <1>2, <1>5
  <2>2. \A j \in 1 .. len + 2 : t5[j] = t1[j]
    BY <1>6, <1>7, <1>8, <1>9, <2>1
  <2> QED BY <1>2, <1>5, <2>2
<1>11. ASSUME c >= 1
       PROVE  /\ \A j \in 1 .. 5 : t5[len + 2 + j] = HeaderText(req.connection[1])[j]
              /\ t5[len + 2 + 6] = "cr" /\ t5[len + 2 + 7] = "lf"
  <2>1. Len(h1) = 7 /\ Len(t2) = len + 9
    BY <1>2, <1>4, <1>5, <1>6, <1>11
  <2>2. \A j \in 1 .. 7 : t2[len + 2 + j] = h1[j] /\ len + 2 + j \in 1 .. len + 9
    BY <1>2, <1>5, <1>6, <2>1
  <2>3. \A j \in 1 .. len + 9 : t5[j] = t2[j]
    BY <1>2, <1>4, <1>7, <1>8, <1>9, <2>1
  <2>4. \A j \in 1 .. 7 : t5[len + 2 + j] = h1[j]
    BY <2>2, <2>3
  <2> QED BY <1>4, <1>11, <2>4
<1>12. ASSUME c = 2
       PROVE  /\ \A j \in 1 .. 5 : t5[len + 9 + j] = HeaderText(req.connection[2])[j]
              /\ t5[len + 9 + 6] = "cr" /\ t5[len + 9 + 7] = "lf"
  <2>1. Len(h2) = 7 /\ Len(t2) = len + 9 /\ Len(t3) = len + 16
    BY <1>2, <1>4, <1>5, <1>6, <1>7, <1>12
  <2>2. \A j \in 1 .. 7 : t3[len + 9 + j] = h2[j] /\ len + 9 + j \in 1 .. len + 16
    BY <1>2, <1>7, <2>1
  <2>3. \A j \in 1 .. len + 16 : t5[j] = t3[j]
    BY <1>2, <1>8, <1>9, <2>1
  <2>4. \A j \in 1 .. 7 : t5[len + 9 + j] = h2[j]
    BY <2>2, <2>3
  <2>5. /\ \A j \in 1 .. 5 : h2[j] = HeaderText(req.connection[2])[j]
        /\ h2[6] = "cr" /\ h2[7] = "lf"
    BY <1>4, <1>12
  <2>6. t5[len + 9 + 6] = h2[6] /\ t5[len + 9 + 7] = h2[7]
    BY <2>4
  <2> QED BY <2>4, <2>5, <2>6
<1>13. Len(t3) = len + 2 + 7 * c /\ Len(t4) = len + 4 + 7 * c
  <2>1. Len(h1) + Len(h2) = 7 * c
    BY <1>2, <1>4
  <2>2. Len(h1) \in Nat /\ Len(h2) \in Nat
    BY <1>4
  <2>3. Len(t3) = len + 2 + (Len(h1) + Len(h2))
    BY <1>2, <1>5, <1>6, <1>7, <2>2
  <2> QED BY <1>2, <1>8, <2>1, <2>3
<1>14. /\ t5[len + 2 + 7 * c + 1] = "cr" /\ t5[len + 2 + 7 * c + 2] = "lf"
       /\ req.body => t5[len + 2 + 7 * c + 3] = "body"
  <2>1. t5[Len(t3) + 1] = "cr" /\ t5[Len(t3) + 2] = "lf"
    <3>1. Len(t3) + 1 \in 1 .. Len(t4) /\ Len(t3) + 2 \in 1 .. Len(t4)
      BY <1>0, <1>8
    <3> QED BY <1>8, <1>9, <3>1
  <2>2. req.body => t5[Len(t4) + 1] = "body"
    BY <1>3, <1>9
  <2>3. Len(t4) + 1 = len + 2 + 7 * c + 3
    BY <1>2, <1>13
  <2> QED BY <1>13, <2>1, <2>2, <2>3
<1>15. Len(t5) = len + 7 * c + (IF req.body THEN 5 ELSE 4)
  <2>1. Len(t5) = len + 4 + 7 * c + (IF req.body THEN 1 ELSE 0)
    BY <1>3, <1>9, <1>13
  <2>2. 7 * c \in Nat
    BY <1>2
  <2> QED BY <1>2, <2>1, <2>2
<1>16. \A i \in 1 .. c :
          /\ \A j \in 1 .. 5 : t5[len + 2 + 7 * (i - 1) + j] = HeaderText(req.connection[i])[j]
          /\ t5[len + 2 + 7 * (i - 1) + 6] = "cr" /\ t5[len + 2 + 7 * (i - 1) + 7] = "lf"
  <2>1. SUFFICES ASSUME NEW i \in 1 .. c
                 PROVE  /\ \A j \in 1 .. 5 : t5[len + 2 + 7 * (i - 1) + j]
                                                = HeaderText(req.connection[i])[j]
                        /\ t5[len + 2 + 7 * (i - 1) + 6] = "cr"
                        /\ t5[len + 2 + 7 * (i - 1) + 7] = "lf"
    OBVIOUS
  <2>2. i \in {1, 2} /\ c >= 1 /\ (i = 2 => c = 2)
    BY <1>2
  <2>3. CASE i = 1
    <3>1. len + 2 + 7 * (i - 1) = len + 2
      BY <1>2, <2>3
    <3> QED BY <1>11, <2>2, <2>3, <3>1
  <2>4. CASE i = 2
    <3>1. len + 2 + 7 * (i - 1) = len + 9
      BY <1>2, <2>4
    <3> QED BY <1>12, <2>2, <2>4, <3>1
  <2> QED BY <2>2, <2>3, <2>4
<1> QED BY <1>1, <1>2, <1>9, <1>10, <1>14, <1>15, <1>16 DEF len, l, c

(* Line i of a request stands at its start, without a CR in it, with CR    *)
(* and LF behind it, and the next line, the body or the end follows.       *)
LEMMA LinesAre ==
    ASSUME NEW req \in Requests, NEW i \in 1 .. NumLines(req)
    PROVE  LET text == RequestText(req)  s == StartOf(req, i)  line == LineOf(req, i)  l == Len(line) IN
           /\ line \in Texts /\ l \in Nat /\ s \in Nat \ {0} /\ text \in Texts /\ Len(text) \in Nat
           /\ \A j \in 1 .. l : text[s + j - 1] = line[j] /\ line[j] # "cr"
           /\ text[s + l] = "cr" /\ text[s + l + 1] = "lf"
           /\ s + l + 1 <= Len(text)
           /\ i < NumLines(req) => StartOf(req, i + 1) = s + l + 2
           /\ i = NumLines(req) => s + l + 1 = Len(text) - (IF req.body THEN 1 ELSE 0)
<1> DEFINE text == RequestText(req)  s == StartOf(req, i)  line == LineOf(req, i)  l == Len(line)
           len == Len(LineText(req))  c == Len(req.connection)
<1>1. /\ text \in Texts /\ len \in Nat
      /\ Len(text) = len + 7 * c + (IF req.body THEN 5 ELSE 4)
      /\ \A j \in 1 .. len : text[j] = LineText(req)[j]
      /\ text[len + 1] = "cr" /\ text[len + 2] = "lf"
      /\ \A k \in 1 .. c :
            /\ \A j \in 1 .. 5 : text[len + 2 + 7 * (k - 1) + j] = HeaderText(req.connection[k])[j]
            /\ text[len + 2 + 7 * (k - 1) + 6] = "cr" /\ text[len + 2 + 7 * (k - 1) + 7] = "lf"
      /\ text[len + 2 + 7 * c + 1] = "cr" /\ text[len + 2 + 7 * c + 2] = "lf"
  BY TextIs
<1>2. /\ c \in {0, 1, 2} /\ req.body \in BOOLEAN /\ NumLines(req) = c + 2
      /\ \A k \in 1 .. c : req.connection[k] \in Tokens /\ req.connection[k] \notin {"space", "cr"}
  BY Words DEF NumLines
<1>3. Len(text) \in Nat /\ 7 * c \in Nat /\ len + 7 * c + 4 <= Len(text)
      /\ Len(text) - (IF req.body THEN 1 ELSE 0) = len + 7 * c + 4
  <2>1. Len(text) = len + 7 * c + (IF req.body THEN 5 ELSE 4)
    BY <1>1
  <2> HIDE DEF text, c, len
  <2>2. 7 * c \in Nat
    BY <1>2
  <2> QED BY <1>1, <1>2, <2>1, <2>2
<1>7. PICK d \in Nat : d = 7 * c /\ len + d + 4 <= Len(text)
                      /\ Len(text) - (IF req.body THEN 1 ELSE 0) = len + d + 4
  BY <1>3
<1>8. len \in Nat
  BY <1>1
<1>4. CASE i = 1
  <2>1. line = LineText(req) /\ s = 1 /\ l = len
    BY <1>4 DEF LineOf, StartOf
  <2>2. line \in Texts /\ \A j \in 1 .. l : line[j] # "cr"
    <3> DEFINE q == Len(req.query)  v == Len(req.version)
    <3>1. /\ line \in Texts /\ l = 4 + q + v /\ q \in Nat /\ v \in Nat
          /\ line[1] = req.method /\ line[2] = "space" /\ line[3] = req.path
          /\ \A j \in 1 .. q : line[3 + j] = req.query[j]
          /\ line[4 + q] = "space"
          /\ \A j \in 1 .. v : line[4 + q + j] = req.version[j]
      BY <2>1, LineTextIs
    <3>2. /\ req.method # "cr" /\ req.path # "cr"
          /\ \A j \in 1 .. q : req.query[j] # "cr"
          /\ \A j \in 1 .. v : req.version[j] # "cr"
      BY Words
    <3> HIDE DEF q, v, line, l
    <3>3. ASSUME NEW j \in 1 .. l PROVE line[j] # "cr"
      <4>1. CASE j \in {1, 2, 3, 4 + q}
        BY <3>1, <3>2, <4>1
      <4>2. CASE j > 3 /\ j < 4 + q
        <5>1. j - 3 \in 1 .. q /\ 3 + (j - 3) = j
          BY <3>1, <4>2
        <5> QED BY <3>1, <3>2, <5>1
      <4>3. CASE j > 4 + q
        <5>1. j - (4 + q) \in 1 .. v /\ 4 + q + (j - (4 + q)) = j
          BY <3>1, <4>3
        <5> QED BY <3>1, <3>2, <5>1
      <4> QED BY <3>1, <4>1, <4>2, <4>3
    <3> QED BY <3>1, <3>3
  <2>3. i < NumLines(req) => StartOf(req, i + 1) = len + 3
    BY <1>1, <1>4 DEF StartOf
  <2>4. i # NumLines(req)
    BY <1>2, <1>4
  <2> HIDE DEF text, c, len, line, l, s
  <2>5. \A j \in 1 .. l : text[s + j - 1] = line[j]
    <3>1. \A j \in 1 .. l : s + j - 1 = j
      BY <2>1
    <3> QED BY <1>1, <2>1, <3>1 DEF len, line
  <2>6. s + l = len + 1 /\ s + l + 1 = len + 2 /\ s + l + 2 = len + 3 /\ s + l + 1 <= Len(text)
    <3>1. Len(text) \in Nat
      BY <1>3
    <3> QED BY <1>7, <1>8, <2>1, <3>1
  <2> QED BY <1>1, <1>3, <2>1, <2>2, <2>3, <2>4, <2>5, <2>6 DEF text, len, line, l, s
<1>5. CASE i > 1 /\ i < NumLines(req)
  <2>1. PICK k \in 1 .. c : k = i - 1 /\ i = k + 1
    <3>1. i - 1 \in 1 .. c /\ i = (i - 1) + 1
      BY <1>2, <1>5
    <3> QED BY <3>1
  <2>2. i # 1 /\ i # NumLines(req)
    BY <1>2, <1>5
  <2>3. line = HeaderText(req.connection[k]) /\ s = len + 3 + 7 * (i - 2)
    BY <1>5, <2>1, <2>2 DEF LineOf, StartOf
  <2>4. /\ line \in Texts /\ l = 5 /\ \A j \in 1 .. 5 : line[j] # "cr"
    <3>1. req.connection[k] \in Tokens /\ req.connection[k] # "cr"
      BY <1>2
    <3>2. line \in Texts /\ l = 5 /\ line[1] = "Connection" /\ line[2] = "colon" /\ line[3] = "space"
          /\ line[4] = req.connection[k] /\ line[5] = "space"
      BY <2>3, <3>1, HeaderTextIs
    <3> HIDE DEF line
    <3> QED BY <3>1, <3>2
  <2>5. StartOf(req, i + 1) = len + 3 + 7 * (i - 1)
    <3>1. i + 1 # 1 /\ (i + 1) - 2 = i - 1
      BY <1>2, <1>5
    <3> QED BY <3>1 DEF StartOf
  <2> HIDE DEF text, c, len, line, l, s
  <2>6. /\ \A j \in 1 .. 5 : text[len + 2 + 7 * (k - 1) + j] = line[j]
        /\ text[len + 2 + 7 * (k - 1) + 6] = "cr" /\ text[len + 2 + 7 * (k - 1) + 7] = "lf"
    BY <1>1, <2>3
  <2>7. /\ s \in Nat \ {0} /\ 7 * (k - 1) \in Nat /\ s = len + 2 + 7 * (k - 1) + 1
    <3>1. k \in {1, 2}
      BY <1>2
    <3> QED BY <1>1, <2>1, <2>3, <3>1
  <2>8. /\ \A j \in 1 .. 5 : s + j - 1 = len + 2 + 7 * (k - 1) + j
        /\ s + l = len + 2 + 7 * (k - 1) + 6 /\ s + l + 1 = len + 2 + 7 * (k - 1) + 7
    BY <1>1, <2>4, <2>7
  <2>9. s + l + 1 <= Len(text) /\ s + l + 2 = len + 3 + 7 * (i - 1)
    <3>1. 7 * (k - 1) + 7 <= 7 * c /\ 7 * (i - 1) = 7 * (k - 1) + 7
      BY <1>2, <2>1
    <3> QED BY <1>1, <1>3, <2>4, <2>7, <3>1
  <2>10. l \in Nat /\ text \in Texts /\ Len(text) \in Nat
    BY <1>1, <1>3, <2>4
  <2>11. /\ \A j \in 1 .. l : text[s + j - 1] = line[j] /\ line[j] # "cr"
         /\ text[s + l] = "cr" /\ text[s + l + 1] = "lf"
    BY <2>4, <2>6, <2>8
  <2>12. StartOf(req, i + 1) = s + l + 2
    BY <2>5, <2>9
  <2> QED BY <2>2, <2>4, <2>7, <2>9, <2>10, <2>11, <2>12 DEF text, line, l, s
<1>6. CASE i = NumLines(req)
  <2>1. i # 1 /\ ~(i < NumLines(req)) /\ i = c + 2 /\ i - 2 = c
    BY <1>2, <1>6
  <2>2. line = <<>> /\ l = 0 /\ s = len + 3 + 7 * c
    BY <1>6, <2>1, EmptyText DEF LineOf, StartOf
  <2>3. line \in Texts
    BY <2>2, EmptyText
  <2> HIDE DEF text, c, len, line, l, s
  <2>4. /\ s \in Nat \ {0} /\ s + l = len + 2 + 7 * c + 1 /\ s + l + 1 = len + 2 + 7 * c + 2
        /\ s + l + 1 = len + 7 * c + 4
    BY <1>7, <1>8, <2>2
  <2>5. /\ text[s + l] = "cr" /\ text[s + l + 1] = "lf" /\ 1 .. l = {}
    BY <1>1, <2>2, <2>4
  <2>6. s + l + 1 = Len(text) - (IF req.body THEN 1 ELSE 0) /\ s + l + 1 <= Len(text)
    BY <1>3, <2>4
  <2> QED BY <1>1, <1>3, <2>1, <2>2, <2>3, <2>4, <2>5, <2>6 DEF text, line, l, s
<1> QED BY <1>2, <1>4, <1>5, <1>6

(* What the parser understands of each kind of line. *)
LEMMA MethodIs ==
    /\ \A word : MethodOf(<<word>>) # "kInvalid" =>
                    word \in DOMAIN Methods /\ MethodOf(<<word>>) = Methods[word]
    /\ \A text : MethodOf(text) # "kInvalid" => \E word \in DOMAIN Methods : text = <<word>>
    /\ \A word \in DOMAIN Methods : word \notin {"Connection", "body", "space"}
<1>1. \A word, other : <<word>> = <<other>> => word = other
  OBVIOUS
<1>2. ASSUME NEW text, MethodOf(text) # "kInvalid"
      PROVE  \E word \in DOMAIN Methods : text = <<word>> /\ MethodOf(text) = Methods[word]
  <2> DEFINE known == {m \in DOMAIN Methods : text = <<m>>}
  <2>1. known # {} /\ MethodOf(text) = Methods[CHOOSE m \in known : TRUE]
    BY <1>2 DEF MethodOf
  <2>2. (CHOOSE m \in known : TRUE) \in known
    BY <2>1
  <2> QED BY <2>1, <2>2
<1>3. \A word : MethodOf(<<word>>) # "kInvalid" =>
                    word \in DOMAIN Methods /\ MethodOf(<<word>>) = Methods[word]
  BY <1>1, <1>2
<1>4. \A word \in DOMAIN Methods : word \notin {"Connection", "body", "space"}
  BY DEF Methods
<1> QED BY <1>2, <1>3, <1>4

(* A line that does not begin with a method is not a request line. *)
LEMMA NoMethodNoRequest ==
    ASSUME NEW line \in Texts,
           line = <<>> \/ (Len(line) >= 1 /\ line[1] \in {"Connection", "body"})
    PROVE  ~IsRequestLine(line)
<1> SUFFICES ASSUME IsRequestLine(line) PROVE FALSE
  OBVIOUS
<1> DEFINE p == find(line, "space")  first == Before(line, "space")
<1>1. p \in 1 .. Len(line) + 1 /\ Len(line) \in Nat /\ p <= Len(line) /\ MethodOf(first) # "kInvalid"
  BY FindIs DEF IsRequestLine, Has, Texts
<1>2. line # <<>>
  BY <1>1, EmptyText
<1>3. line[1] \in {"Connection", "body"} /\ Len(line) >= 1
  BY <1>2
<1>4. first = SubSeq(line, 1, p - 1)
  BY DEF Before
<1> HIDE DEF p, first
<1>5. Len(first) = p - 1 /\ \A i \in 1 .. p - 1 : first[i] = line[i]
  <2>1. p - 1 \in Int /\ 1 <= (p - 1) + 1 /\ p - 1 <= Len(line) /\ (p - 1) - 1 + 1 = p - 1
    BY <1>1
  <2>2. /\ Len(SubSeq(line, 1, p - 1)) = (p - 1) - 1 + 1
        /\ \A i \in 1 .. (p - 1) - 1 + 1 : SubSeq(line, 1, p - 1)[i] = line[1 + i - 1]
    BY <2>1, Part DEF Texts
  <2> QED BY <1>4, <2>1, <2>2
<1>6. PICK word \in DOMAIN Methods : first = <<word>>
  BY <1>1, MethodIs
<1>7. p - 1 = 1 /\ line[1] = word
  <2>1. Len(first) = 1 /\ first[1] = word
    BY <1>6
  <2>2. p - 1 = 1
    BY <1>5, <2>1
  <2>3. first[1] = line[1]
    BY <1>5, <2>2
  <2> QED BY <2>1, <2>2, <2>3
<1> QED BY <1>3, <1>7, MethodIs

(* The empty line ends the headers. *)
LEMMA EmptyIsLast == ~Has(<<>>, "colon")
<1>1. \A q \in 1 .. Len(<<>>) : <<>>[q] # "colon"
  BY EmptyText
<1> QED BY <1>1, EmptyText, FindNone

(* One token of a text. *)
LEMMA OneToken ==
    ASSUME NEW text \in Texts, NEW k \in 1 .. Len(text)
    PROVE  SubSeq(text, k, k) = <<text[k]>>
<1> DEFINE t == SubSeq(text, k, k)
<1>1. \A i \in k .. k : text[i] \in Tokens
  BY ElementOfSeq DEF Texts
<1>2. k \in Int /\ k - k + 1 = 1 /\ k + 1 - 1 = k
  BY DEF Texts
<1>3. /\ t \in Seq(Tokens) /\ Len(t) = IF k <= k THEN k - k + 1 ELSE 0
      /\ \A i \in 1 .. k - k + 1 : t[i] = text[k + i - 1]
  BY <1>1, <1>2, SubSeqProperties
<1> HIDE DEF t
<1>4. t \in Seq(Tokens) /\ Len(t) = 1 /\ t[1] = text[k]
  <2>1. Len(t) = k - k + 1
    BY <1>2, <1>3
  <2>2. t[1] = text[k + 1 - 1]
    <3>1. \A i \in 1 .. k - k + 1 : t[i] = text[k + i - 1]
      BY <1>3
    <3>2. 1 \in 1 .. k - k + 1
      BY <1>2
    <3> QED BY <3>1, <3>2
  <2> QED BY <1>2, <1>3, <2>1, <2>2
<1>5. t = <<text[k]>>
  BY <1>4
<1> QED BY <1>5 DEF t

(* addHeader takes the value from a header, stripped of its spaces, and    *)
(* leaves the rest of the request alone.                                   *)
LEMMA HeaderIs ==
    ASSUME NEW value \in Tokens, value # "space", NEW r
    PROVE  LET line == HeaderText(value)  added == addHeader(r, line) IN
           /\ Has(line, "colon")
           /\ getHeader(added, <<"Connection">>) = <<value>>
           /\ added.method = r.method /\ added.version = r.version
           /\ added.path = r.path /\ added.query = r.query
<1> DEFINE line == HeaderText(value)  rest == Behind(line, "colon")
<1>1. /\ line \in Texts /\ Len(line) = 5
      /\ line[1] = "Connection" /\ line[2] = "colon" /\ line[3] = "space"
      /\ line[4] = value /\ line[5] = "space"
  BY HeaderTextIs
<1> HIDE DEF line
<1>2. find(line, "colon") = 2 /\ Has(line, "colon")
  <2>1. 2 \in 1 .. Len(line) /\ \A q \in 1 .. 2 - 1 : line[q] # "colon"
    BY <1>1
  <2> QED BY <1>1, <2>1, FindAt
<1>3. Before(line, "colon") = <<"Connection">>
  <2>1. SubSeq(line, 1, 1) = <<"Connection">>
    BY <1>1, OneToken
  <2> QED BY <1>2, <2>1 DEF Before
<1>4. rest \in Texts /\ Len(rest) = 3 /\ rest[1] = "space" /\ rest[2] = value /\ rest[3] = "space"
  <2>1. 3 \in Nat \ {0} /\ 5 \in Int /\ 3 <= 5 + 1 /\ 5 <= Len(line) /\ 5 - 3 + 1 = 3
    BY <1>1
  <2>2. /\ SubSeq(line, 3, 5) \in Seq(Tokens) /\ Len(SubSeq(line, 3, 5)) = 5 - 3 + 1
        /\ \A i \in 1 .. 5 - 3 + 1 : SubSeq(line, 3, 5)[i] = line[3 + i - 1]
    BY <1>1, <2>1, Part DEF Texts
  <2>3. rest = SubSeq(line, 3, 5)
    BY <1>1, <1>2 DEF Behind
  <2> HIDE DEF rest
  <2>4. rest[1] = line[3] /\ rest[2] = line[4] /\ rest[3] = line[5]
    <3>1. 3 + 1 - 1 = 3 /\ 3 + 2 - 1 = 4 /\ 3 + 3 - 1 = 5
      OBVIOUS
    <3>2. \A i \in 1 .. 3 : rest[i] = line[3 + i - 1]
      BY <2>1, <2>2, <2>3
    <3> QED BY <3>1, <3>2
  <2> QED BY <1>1, <2>1, <2>2, <2>3, <2>4 DEF Texts
<1> HIDE DEF rest
<1>5. Trim(rest) = <<value>>
  <2> DEFINE kept == {i \in DOMAIN rest : rest[i] # "space"}
  <2>1. DOMAIN rest = 1 .. 3
    BY <1>4 DEF Texts
  <2>2. kept = {2}
    BY <1>4, <2>1
  <2> HIDE DEF kept
  <2>3. Min(kept) = 2 /\ Max(kept) = 2
    <3>1. kept \in SUBSET Nat /\ kept # {}
      BY <2>2
    <3>2. Min(kept) \in kept
      BY <3>1, MinIs
    <3>3. \E k \in kept : \A y \in kept : k >= y
      BY <2>2
    <3>4. Max(kept) \in kept
      BY <3>3 DEF Max
    <3> QED BY <2>2, <3>2, <3>4
  <2>4. Trim(rest) = SubSeq(rest, 2, 2)
    BY <2>2, <2>3 DEF Trim, kept
  <2>5. SubSeq(rest, 2, 2) = <<value>>
    BY <1>4, OneToken
  <2> QED BY <2>4, <2>5
<1>6. addHeader(r, line) =
        [method |-> r.method, version |-> r.version, path |-> r.path, query |-> r.query,
         headers |-> [f \in DOMAIN r.headers \cup {<<"Connection">>} |->
                        IF f = <<"Connection">> THEN <<value>> ELSE r.headers[f]]]
  BY <1>3, <1>5 DEF addHeader, rest
<1>7. getHeader(addHeader(r, line), <<"Connection">>) = <<value>>
  BY <1>6 DEF getHeader
<1> QED BY <1>2, <1>6, <1>7 DEF line

(* A part of a text, by its start and length. *)
LEMMA PartOfText ==
    ASSUME NEW text \in Texts, NEW m \in Nat \ {0}, NEW k \in Nat, m + k <= Len(text) + 1
    PROVE  /\ SubSeq(text, m, m + k - 1) \in Texts /\ Len(SubSeq(text, m, m + k - 1)) = k
           /\ \A i \in 1 .. k : SubSeq(text, m, m + k - 1)[i] = text[m + i - 1]
<1>1. PICK n \in Int : n = m + k - 1
  OBVIOUS
<1>2. m <= n + 1 /\ n <= Len(text) /\ n - m + 1 = k
  <2>1. Len(text) \in Nat
    BY DEF Texts
  <2> QED BY <1>1, <2>1
<1>3. /\ SubSeq(text, m, n) \in Seq(Tokens) /\ Len(SubSeq(text, m, n)) = n - m + 1
      /\ \A i \in 1 .. n - m + 1 : SubSeq(text, m, n)[i] = text[m + i - 1]
  BY <1>2, Part DEF Texts
<1> QED BY <1>1, <1>2, <1>3 DEF Texts

(* Two texts of one length that agree everywhere are equal. *)
LEMMA SameText ==
    ASSUME NEW s \in Texts, NEW t \in Texts, Len(s) = Len(t), \A i \in 1 .. Len(s) : s[i] = t[i]
    PROVE  s = t
BY SeqEqual DEF Texts

(* processRequestLine takes the method, the path, the query and the        *)
(* version from a request line as the client meant them.                   *)
LEMMA RequestLineIs ==
    ASSUME NEW req \in Requests, IsRequestLine(LineText(req))
    PROVE  LET p == processRequestLine(NewRequest, LineText(req)) IN
           /\ req.method \in DOMAIN Methods /\ p.method = Methods[req.method]
           /\ p.version = VersionOf(req.version)
           /\ p.path = <<req.path>> /\ p.query = req.query
           /\ getHeader(p, <<"Connection">>) = <<>>
<1> DEFINE line == LineText(req)  q == Len(req.query)  v == Len(req.version)
           rest == Behind(line, "space")  target == Target(line)  protocol == Protocol(line)
<1>1. /\ line \in Texts /\ Len(line) = 4 + q + v /\ q \in Nat /\ v \in Nat
      /\ line[1] = req.method /\ line[2] = "space" /\ line[3] = req.path
      /\ \A i \in 1 .. q : line[3 + i] = req.query[i]
      /\ line[4 + q] = "space"
      /\ \A i \in 1 .. v : line[4 + q + i] = req.version[i]
  BY LineTextIs
<1>2. /\ req.method # "space" /\ req.path # "space" /\ req.path # "question"
      /\ req.version \in Texts /\ req.query \in Texts
      /\ \A i \in 1 .. q : req.query[i] # "space"
      /\ (req.query = <<>> \/ req.query[1] = "question")
  BY Words
<1> HIDE DEF line, q, v
<1>3. find(line, "space") = 2
  <2>1. 2 \in 1 .. Len(line) /\ \A i \in 1 .. 2 - 1 : line[i] # "space"
    BY <1>1, <1>2
  <2> QED BY <1>1, <2>1, FindAt
<1>4. Before(line, "space") = <<req.method>>
  <2>1. 1 \in 1 .. Len(line) /\ 2 - 1 = 1
    BY <1>1
  <2>2. SubSeq(line, 1, 1) = <<line[1]>>
    BY <1>1, <2>1, OneToken
  <2> QED BY <1>1, <1>3, <2>1, <2>2 DEF Before
<1>5. rest \in Texts /\ Len(rest) = 2 + q + v /\ \A i \in 1 .. 2 + q + v : rest[i] = line[2 + i]
  <2>1. PICK k \in Nat : k = 2 + q + v /\ 3 + k <= Len(line) + 1 /\ 3 + k - 1 = Len(line)
    BY <1>1
  <2>2. /\ SubSeq(line, 3, 3 + k - 1) \in Texts /\ Len(SubSeq(line, 3, 3 + k - 1)) = k
        /\ \A i \in 1 .. k : SubSeq(line, 3, 3 + k - 1)[i] = line[3 + i - 1]
    <3>1. PICK m \in Nat \ {0} : m = 3
      OBVIOUS
    <3>2. line \in Texts /\ m + k <= Len(line) + 1
      BY <1>1, <2>1, <3>1
    <3>3. /\ SubSeq(line, m, m + k - 1) \in Texts /\ Len(SubSeq(line, m, m + k - 1)) = k
          /\ \A i \in 1 .. k : SubSeq(line, m, m + k - 1)[i] = line[m + i - 1]
      BY <3>2, PartOfText
    <3> QED BY <3>1, <3>3
  <2>3. rest = SubSeq(line, 3, 3 + k - 1)
    BY <1>3, <2>1 DEF Behind
  <2>4. \A i \in 1 .. k : 3 + i - 1 = 2 + i
    OBVIOUS
  <2> HIDE DEF rest
  <2> QED BY <2>1, <2>2, <2>3, <2>4
<1>6. target = Before(rest, "space") /\ protocol = Behind(rest, "space")
  BY DEF Target, Protocol
<1> HIDE DEF rest, target, protocol
<1>7. /\ rest[1] = req.path /\ rest[2 + q] = "space"
      /\ \A i \in 1 .. q : rest[1 + i] = req.query[i]
      /\ \A i \in 1 .. v : rest[2 + q + i] = req.version[i]
  <2>1. rest[1] = line[3] /\ rest[2 + q] = line[4 + q]
    <3>1. 1 \in 1 .. 2 + q + v /\ 2 + q \in 1 .. 2 + q + v /\ 2 + 1 = 3 /\ 2 + (2 + q) = 4 + q
      BY <1>1
    <3> QED BY <1>5, <3>1
  <2>2. \A i \in 1 .. q : 1 + i \in 1 .. 2 + q + v /\ 2 + (1 + i) = 3 + i
    BY <1>1
  <2>3. \A i \in 1 .. v : 2 + q + i \in 1 .. 2 + q + v /\ 2 + (2 + q + i) = 4 + q + i
    BY <1>1
  <2>4. \A i \in 1 .. q : rest[1 + i] = line[3 + i]
    BY <1>5, <2>2
  <2>5. \A i \in 1 .. v : rest[2 + q + i] = line[4 + q + i]
    BY <1>5, <2>3
  <2> QED BY <1>1, <2>1, <2>4, <2>5
<1>8. find(rest, "space") = 2 + q
  <2>1. 2 + q \in 1 .. Len(rest)
    BY <1>1, <1>5
  <2>2. ASSUME NEW i \in 1 .. (2 + q) - 1 PROVE rest[i] # "space"
    <3>1. i = 1 \/ (i - 1 \in 1 .. q /\ 1 + (i - 1) = i)
      BY <1>1
    <3> QED BY <1>2, <1>7, <3>1
  <2> QED BY <1>5, <1>7, <2>1, <2>2, FindAt
<1>9. target \in Texts /\ Len(target) = 1 + q /\ target[1] = req.path
      /\ \A i \in 1 .. q : target[1 + i] = req.query[i]
  <2>1. PICK k \in Nat : k = 1 + q /\ 1 + k <= Len(rest) + 1 /\ 1 + k - 1 = (2 + q) - 1
    BY <1>1, <1>5
  <2>2. /\ SubSeq(rest, 1, 1 + k - 1) \in Texts /\ Len(SubSeq(rest, 1, 1 + k - 1)) = k
        /\ \A i \in 1 .. k : SubSeq(rest, 1, 1 + k - 1)[i] = rest[1 + i - 1]
    BY <1>5, <2>1, PartOfText
  <2>3. target = SubSeq(rest, 1, 1 + k - 1)
    BY <1>6, <1>8, <2>1 DEF Before
  <2>4. \A i \in 1 .. k : target[i] = rest[i]
    <3>1. \A i \in 1 .. k : 1 + i - 1 = i
      OBVIOUS
    <3> QED BY <2>2, <2>3, <3>1
  <2>5. 1 \in 1 .. k /\ \A i \in 1 .. q : 1 + i \in 1 .. k
    BY <1>1, <2>1
  <2> QED BY <1>7, <2>1, <2>2, <2>3, <2>4, <2>5
<1>10. protocol = req.version
  <2>1. 2 + q + 1 \in Nat \ {0} /\ 2 + q + 1 + v <= Len(rest) + 1 /\ 2 + q + 1 + v - 1 = Len(rest)
    BY <1>1, <1>5
  <2> DEFINE m == 2 + q + 1
  <2>2. protocol = SubSeq(rest, m, m + v - 1)
    BY <1>6, <1>8, <2>1 DEF Behind
  <2>3. m \in Nat \ {0} /\ m + v <= Len(rest) + 1 /\ \A i \in 1 .. v : m + i - 1 = 2 + q + i
    BY <1>1, <2>1
  <2> HIDE DEF m
  <2>4. /\ SubSeq(rest, m, m + v - 1) \in Texts /\ Len(SubSeq(rest, m, m + v - 1)) = v
        /\ \A i \in 1 .. v : SubSeq(rest, m, m + v - 1)[i] = rest[m + i - 1]
    BY <1>1, <1>5, <2>3, PartOfText
  <2>5. protocol \in Texts /\ Len(protocol) = v /\ \A i \in 1 .. v : protocol[i] = req.version[i]
    BY <1>7, <2>2, <2>3, <2>4
  <2>6. Len(req.version) = v
    BY DEF v
  <2> QED BY <1>2, <2>5, <2>6, SameText
<1>11. find(target, "question") = 2 /\ (Has(target, "question") <=> q > 0)
  <2>1. CASE q = 0
    <3>1. Len(target) = 1 /\ \A i \in 1 .. Len(target) : target[i] # "question"
      BY <1>2, <1>9, <2>1
    <3>2. find(target, "question") = Len(target) + 1 /\ ~Has(target, "question")
      BY <1>9, <3>1, FindNone
    <3> QED BY <2>1, <3>1, <3>2
  <2>2. CASE q > 0
    <3>1. req.query[1] = "question"
      <4>1. req.query # <<>>
        BY <2>2, EmptyText DEF q
      <4> QED BY <1>2, <4>1
    <3>2. target[1 + 1] = req.query[1]
      BY <1>1, <1>9, <2>2
    <3>3. 2 \in 1 .. Len(target) /\ \A i \in 1 .. 2 - 1 : target[i] # "question"
      BY <1>1, <1>2, <1>9, <2>2
    <3>4. target[2] = "question"
      BY <3>1, <3>2
    <3> QED BY <1>9, <2>2, <3>3, <3>4, FindAt
  <2> QED BY <1>1, <2>1, <2>2
<1>12. Before(target, "question") = <<req.path>>
  <2>1. 1 \in 1 .. Len(target) /\ 2 - 1 = 1
    BY <1>1, <1>9
  <2>2. SubSeq(target, 1, 1) = <<target[1]>>
    BY <1>9, <2>1, OneToken
  <2> QED BY <1>9, <1>11, <2>1, <2>2 DEF Before
<1>13. (IF Has(target, "question")
        THEN SubSeq(target, find(target, "question"), Len(target)) ELSE NewRequest.query) = req.query
  <2>1. CASE q = 0
    <3>1. req.query = <<>>
      BY <1>2, <2>1, EmptySeq DEF q, Texts
    <3>2. NewRequest.query = <<>>
      BY DEF NewRequest
    <3>3. ~Has(target, "question")
      BY <1>11, <2>1
    <3> QED BY <3>1, <3>2, <3>3
  <2>2. CASE q > 0
    <3>1. 2 + q <= Len(target) + 1 /\ 2 + q - 1 = Len(target)
      BY <1>1, <1>9
    <3>2. /\ SubSeq(target, 2, 2 + q - 1) \in Texts /\ Len(SubSeq(target, 2, 2 + q - 1)) = q
          /\ \A i \in 1 .. q : SubSeq(target, 2, 2 + q - 1)[i] = target[2 + i - 1]
      BY <1>1, <1>9, <3>1, PartOfText
    <3> DEFINE t == SubSeq(target, 2, 2 + q - 1)
    <3>3. \A i \in 1 .. q : 2 + i - 1 = 1 + i
      BY <1>1
    <3>4. t \in Texts /\ Len(t) = Len(req.query) /\ \A i \in 1 .. Len(t) : t[i] = req.query[i]
      BY <1>9, <3>2, <3>3 DEF q
    <3> HIDE DEF t
    <3>5. t = req.query
      BY <1>2, <3>4, SameText
    <3> QED BY <1>11, <2>2, <3>1, <3>5 DEF t
  <2> QED BY <1>1, <2>1, <2>2
<1>14. req.method \in DOMAIN Methods /\ MethodOf(<<req.method>>) = Methods[req.method]
  <2>1. MethodOf(Before(line, "space")) # "kInvalid"
    BY DEF IsRequestLine, line
  <2> QED BY <1>4, <2>1, MethodIs
<1> DEFINE p == processRequestLine(NewRequest, line)
<1>15. p = [method |-> Methods[req.method], version |-> VersionOf(req.version),
            path |-> <<req.path>>, query |-> req.query, headers |-> NewRequest.headers]
  BY <1>4, <1>10, <1>12, <1>13, <1>14 DEF processRequestLine, target, protocol
<1>16. getHeader(p, <<"Connection">>) = <<>>
  <2>1. p.headers = NewRequest.headers /\ DOMAIN NewRequest.headers = {}
    BY <1>15 DEF NewRequest
  <2> QED BY <2>1 DEF getHeader
<1> HIDE DEF p
<1>17. /\ p.method = Methods[req.method] /\ p.version = VersionOf(req.version)
       /\ p.path = <<req.path>> /\ p.query = req.query
  BY <1>15
<1> QED BY <1>14, <1>16, <1>17 DEF p, line

(* The stream: what is unread and what has not arrived yet.  B says where  *)
(* each request that was sent begins in it; one that has been taken out,   *)
(* or in part, begins before it.                                           *)
stream == unread \o wire

Laid(s, sent, B) ==
    /\ B \in [1 .. Len(sent) + 1 -> Int]
    /\ B[Len(sent) + 1] = Len(s) + 1
    /\ \A n \in 1 .. Len(sent) : B[n + 1] = B[n] + Len(RequestText(sent[n]))
    /\ \A n \in 1 .. Len(sent) + 1 : B[n] <= Len(s) + 1
    /\ \A j \in 1 .. Len(s) : \E n \in 1 .. Len(sent) : B[n] <= j /\ j < B[n + 1]
    /\ \A n \in 1 .. Len(sent), j \in 1 .. Len(s) :
          B[n] <= j /\ j < B[n + 1] => s[j] = Byte(RequestText(sent[n])[j - B[n] + 1], n)

(* The bytes of a request are its tokens, and there are some. *)
LEMMA TextBytesAre ==
    ASSUME NEW n \in Ids, NEW req \in Requests
    PROVE  /\ Text(n, req) \in Seq(Bytes) /\ Len(Text(n, req)) = Len(RequestText(req))
           /\ RequestText(req) \in Texts /\ Len(RequestText(req)) \in Nat \ {0}
           /\ \A i \in 1 .. Len(RequestText(req)) : Text(n, req)[i] = Byte(RequestText(req)[i], n)
<1> DEFINE t == RequestText(req)
<1>1. t \in Texts
  BY TextIs
<1>2. DOMAIN t = 1 .. Len(t) /\ Len(t) \in Nat
  BY <1>1 DEF Texts
<1>3. Text(n, req) = [i \in 1 .. Len(t) |-> Byte(t[i], n)]
  BY <1>2 DEF Text
<1>4. Len(t) # 0
  <2>1. Len(t) >= Len(LineText(req)) + 7 * Len(req.connection) + 4
        /\ Len(LineText(req)) \in Nat /\ 7 * Len(req.connection) \in Nat
    <3>1. PICK c \in {0, 1, 2} : c = Len(req.connection)
      BY Words
    <3>2. 7 * c \in Nat
      OBVIOUS
    <3>3. /\ Len(LineText(req)) \in Nat
          /\ Len(t) = Len(LineText(req)) + 7 * c + (IF req.body THEN 5 ELSE 4)
      BY <3>1, TextIs
    <3> HIDE DEF t
    <3> QED BY <1>2, <3>1, <3>2, <3>3
  <2> HIDE DEF t
  <2> QED BY <1>2, <2>1
<1> HIDE DEF t
<1>5. Text(n, req) \in Seq(Bytes)
  BY TextBytes
<1> QED BY <1>1, <1>2, <1>3, <1>4, <1>5 DEF t

(* Where everything is in a stream that is one and then another. *)
LEMMA JoinedBytes ==
    \A x, y \in Seq(Bytes) :
        /\ x \o y \in Seq(Bytes) /\ Len(x \o y) = Len(x) + Len(y) /\ Len(x) \in Nat /\ Len(y) \in Nat
        /\ \A i \in 1 .. Len(x) : (x \o y)[i] = x[i]
        /\ \A i \in 1 .. Len(y) : (x \o y)[Len(x) + i] = y[i]
BY Joined

(* A request more at the end of the stream. *)
LEMMA LaidOnAppend ==
    ASSUME NEW s \in Seq(Bytes), NEW sent \in Seq(Requests), NEW B, Laid(s, sent, B),
           NEW req \in Requests, Len(sent) + 1 \in Ids
    PROVE  \E C : /\ Laid(s \o Text(Len(sent) + 1, req), Append(sent, req), C)
                  /\ \A n \in 1 .. Len(sent) + 1 : C[n] = B[n]
<1> DEFINE t == Text(Len(sent) + 1, req)  r == s \o t  more == Append(sent, req)
           size == Len(RequestText(req))
<1>1. /\ t \in Seq(Bytes) /\ Len(t) = size /\ size \in Nat \ {0}
      /\ \A i \in 1 .. size : t[i] = Byte(RequestText(req)[i], Len(sent) + 1)
  BY TextBytesAre
<1> HIDE DEF t
<1>2. /\ r \in Seq(Bytes) /\ Len(r) = Len(s) + size /\ Len(s) \in Nat
      /\ \A i \in 1 .. Len(s) : r[i] = s[i]
      /\ \A i \in 1 .. size : r[Len(s) + i] = t[i]
  <2>1. /\ r \in Seq(Bytes) /\ Len(r) = Len(s) + Len(t) /\ Len(s) \in Nat
        /\ \A i \in 1 .. Len(s) : r[i] = s[i]
        /\ \A i \in 1 .. Len(t) : r[Len(s) + i] = t[i]
    BY <1>1, JoinedBytes
  <2> HIDE DEF r, size
  <2> QED BY <1>1, <2>1
<1>3. /\ Len(more) = Len(sent) + 1 /\ Len(sent) \in Nat
      /\ \A n \in 1 .. Len(sent) : more[n] = sent[n]
      /\ more[Len(sent) + 1] = req
  BY AppendProperties, LenProperties
<1> HIDE DEF r, more
<1> DEFINE N == Len(sent)  C == [n \in 1 .. N + 2 |-> IF n = N + 2 THEN Len(r) + 1 ELSE B[n]]
<1>4. /\ B \in [1 .. N + 1 -> Int] /\ B[N + 1] = Len(s) + 1
      /\ \A n \in 1 .. N : B[n + 1] = B[n] + Len(RequestText(sent[n]))
      /\ \A n \in 1 .. N + 1 : B[n] <= Len(s) + 1
      /\ \A j \in 1 .. Len(s) : \E n \in 1 .. N : B[n] <= j /\ j < B[n + 1]
      /\ \A n \in 1 .. N, j \in 1 .. Len(s) :
            B[n] <= j /\ j < B[n + 1] => s[j] = Byte(RequestText(sent[n])[j - B[n] + 1], n)
  BY DEF Laid
<1>5. N \in Nat /\ Len(more) = N + 1
  BY <1>3
<1> HIDE DEF N, size
<1>6. C \in [1 .. N + 2 -> Int] /\ C[N + 2] = Len(r) + 1 /\ \A n \in 1 .. N + 1 : C[n] = B[n]
  BY <1>2, <1>1, <1>4, <1>5
<1> HIDE DEF C
<1>7. \A n \in 1 .. N + 1 : C[n + 1] = C[n] + Len(RequestText(more[n]))
  <2>1. SUFFICES ASSUME NEW n \in 1 .. N + 1 PROVE C[n + 1] = C[n] + Len(RequestText(more[n]))
    OBVIOUS
  <2>2. CASE n = N + 1
    <3>1. C[n + 1] = Len(s) + size + 1 /\ C[n] = Len(s) + 1 /\ more[n] = req
      <4>1. n + 1 = N + 2 /\ n \in 1 .. N + 1
        BY <1>5, <2>2
      <4> QED BY <1>2, <1>3, <1>4, <1>6, <2>2, <4>1 DEF N
    <3> QED BY <1>1, <1>2, <3>1 DEF size
  <2>3. CASE n \in 1 .. N
    <3>1. C[n + 1] = B[n + 1] /\ C[n] = B[n]
      BY <1>5, <1>6, <2>3
    <3>2. more[n] = sent[n]
      BY <1>3, <2>3 DEF N
    <3> QED BY <1>4, <2>3, <3>1, <3>2
  <2> QED BY <1>5, <2>2, <2>3
<1>8. \A n \in 1 .. N + 2 : C[n] <= Len(r) + 1
  <2>1. \A n \in 1 .. N + 1 : C[n] <= Len(s) + 1 /\ C[n] \in Int
    BY <1>4, <1>6
  <2>2. Len(s) + 1 <= Len(r) + 1 /\ Len(s) \in Nat /\ Len(r) \in Nat
    BY <1>1, <1>2
  <2>3. \A n \in 1 .. N + 2 : n \in 1 .. N + 1 \/ n = N + 2
    BY <1>5
  <2>4. \A n \in 1 .. N + 1 : C[n] <= Len(r) + 1
    BY <2>1, <2>2
  <2>5. C[N + 2] <= Len(r) + 1
    BY <1>6, <2>2
  <2> QED BY <2>3, <2>4, <2>5
<1>9. \A j \in 1 .. Len(r) : \E n \in 1 .. N + 1 : C[n] <= j /\ j < C[n + 1]
  <2>1. SUFFICES ASSUME NEW j \in 1 .. Len(r) PROVE \E n \in 1 .. N + 1 : C[n] <= j /\ j < C[n + 1]
    OBVIOUS
  <2>2. CASE j \in 1 .. Len(s)
    <3>1. PICK n \in 1 .. N : B[n] <= j /\ j < B[n + 1]
      BY <1>4, <2>2
    <3>2. n \in 1 .. N + 1 /\ n + 1 \in 1 .. N + 1
      BY <1>5
    <3> QED BY <1>6, <3>1, <3>2
  <2>3. CASE j > Len(s)
    <3>1. N + 1 \in 1 .. N + 1 /\ (N + 1) + 1 = N + 2
      BY <1>5
    <3>2. C[N + 1] <= j /\ j < C[(N + 1) + 1]
      BY <1>1, <1>2, <1>4, <1>6, <2>3, <3>1
    <3> QED BY <3>1, <3>2
  <2> QED BY <1>2, <2>2, <2>3
<1>10. ASSUME NEW n \in 1 .. N + 1, NEW j \in 1 .. Len(r), C[n] <= j, j < C[n + 1]
       PROVE  r[j] = Byte(RequestText(more[n])[j - C[n] + 1], n)
  <2>1. CASE n \in 1 .. N
    <3>1. C[n + 1] = B[n + 1] /\ C[n] = B[n] /\ n + 1 \in 1 .. N + 1 /\ B[n + 1] \in Int /\ B[n] \in Int
      BY <1>4, <1>5, <1>6, <2>1
    <3>2. B[n + 1] <= Len(s) + 1
      BY <1>4, <3>1
    <3>3. j \in 1 .. Len(s)
      BY <1>2, <1>10, <3>1, <3>2
    <3>4. s[j] = Byte(RequestText(sent[n])[j - B[n] + 1], n)
      BY <1>4, <1>10, <2>1, <3>1, <3>3
    <3>5. more[n] = sent[n]
      BY <1>3, <2>1 DEF N
    <3> QED BY <1>2, <3>1, <3>3, <3>4, <3>5
  <2>2. CASE n = N + 1
    <3>1. C[n] = Len(s) + 1 /\ more[n] = req
      BY <1>3, <1>4, <1>5, <1>6, <2>2 DEF N
    <3>2. j - Len(s) \in 1 .. size /\ Len(s) + (j - Len(s)) = j
      BY <1>1, <1>2, <1>10, <3>1
    <3>3. r[j] = Byte(RequestText(req)[j - Len(s)], Len(sent) + 1)
      BY <1>1, <1>2, <3>2
    <3>4. j - C[n] + 1 = j - Len(s)
      BY <1>2, <3>1
    <3> QED BY <2>2, <3>1, <3>3, <3>4 DEF N
  <2> QED BY <1>5, <2>1, <2>2
<1>11. Laid(r, more, C)
  <2>1. Len(more) + 1 = N + 2
    BY <1>5
  <2> QED BY <1>5, <1>6, <1>7, <1>8, <1>9, <1>10, <2>1 DEF Laid
<1> QED BY <1>6, <1>11 DEF r, t, more, N

(* What is left of a sequence without its first d elements. *)
Dropped(s, d, r) ==
    /\ d \in 0 .. Len(s) /\ r \in Seq(Bytes) /\ Len(r) = Len(s) - d
    /\ \A j \in 1 .. Len(r) : r[j] = s[d + j]

(* Some bytes less at the front of the stream. *)
LEMMA LaidOnDrop ==
    ASSUME NEW s \in Seq(Bytes), NEW sent \in Seq(Requests), NEW B, Laid(s, sent, B),
           NEW d, NEW r, Dropped(s, d, r)
    PROVE  \E C : Laid(r, sent, C) /\ \A n \in 1 .. Len(sent) + 1 : C[n] = B[n] - d
<1>0. /\ d \in 0 .. Len(s) /\ r \in Seq(Bytes) /\ Len(r) = Len(s) - d
      /\ \A j \in 1 .. Len(r) : r[j] = s[d + j]
  BY DEF Dropped
<1> DEFINE N == Len(sent)  C == [n \in 1 .. N + 1 |-> B[n] - d]
<1>1. /\ B \in [1 .. N + 1 -> Int] /\ B[N + 1] = Len(s) + 1
      /\ \A n \in 1 .. N : B[n + 1] = B[n] + Len(RequestText(sent[n]))
      /\ \A n \in 1 .. N + 1 : B[n] <= Len(s) + 1
      /\ \A j \in 1 .. Len(s) : \E n \in 1 .. N : B[n] <= j /\ j < B[n + 1]
      /\ \A n \in 1 .. N, j \in 1 .. Len(s) :
            B[n] <= j /\ j < B[n + 1] => s[j] = Byte(RequestText(sent[n])[j - B[n] + 1], n)
  BY DEF Laid
<1>2. Len(s) \in Nat /\ Len(r) \in Nat /\ N \in Nat
  BY <1>0, LenProperties
<1> HIDE DEF N
<1>3. \A n \in 1 .. N : Len(RequestText(sent[n])) \in Nat
  <2>1. \A n \in 1 .. N : sent[n] \in Requests
    BY ElementOfSeq DEF N
  <2> QED BY <2>1, LenProperties, TextIs DEF Texts
<1>4. C \in [1 .. N + 1 -> Int] /\ \A n \in 1 .. N + 1 : C[n] = B[n] - d /\ B[n] \in Int
  BY <1>0, <1>1, <1>2
<1> HIDE DEF C
<1>5. \A n \in 1 .. N : n \in 1 .. N + 1 /\ n + 1 \in 1 .. N + 1
  BY <1>2
<1>6. N + 1 \in 1 .. N + 1
  BY <1>2
<1>7. C[N + 1] = Len(r) + 1
  BY <1>0, <1>1, <1>2, <1>4, <1>6
<1>8. \A n \in 1 .. N : C[n + 1] = C[n] + Len(RequestText(sent[n]))
  BY <1>0, <1>1, <1>3, <1>4, <1>5
<1>9. \A n \in 1 .. N + 1 : C[n] <= Len(r) + 1
  BY <1>0, <1>1, <1>2, <1>4
<1>10. \A j \in 1 .. Len(r) : d + j \in 1 .. Len(s)
  BY <1>0, <1>2
<1>11. \A n \in 1 .. N, j \in 1 .. Len(r) :
         (C[n] <= j <=> B[n] <= d + j) /\ (j < C[n + 1] <=> d + j < B[n + 1])
         /\ j - C[n] + 1 = d + j - B[n] + 1
  <2>1. SUFFICES ASSUME NEW n \in 1 .. N, NEW j \in 1 .. Len(r)
                 PROVE  /\ (C[n] <= j <=> B[n] <= d + j) /\ (j < C[n + 1] <=> d + j < B[n + 1])
                        /\ j - C[n] + 1 = d + j - B[n] + 1
    OBVIOUS
  <2>2. PICK b \in Int, e \in Int : b = B[n] /\ e = B[n + 1]
    BY <1>4, <1>5
  <2>3. C[n] = b - d /\ C[n + 1] = e - d
    BY <1>4, <1>5, <2>2
  <2>4. d \in Int /\ j \in Int
    BY <1>0, <1>2
  <2>5. \A p, q, x, y \in Int :
          x = p - d /\ y = q - d => /\ (x <= j <=> p <= d + j) /\ (j < y <=> d + j < q)
                                   /\ j - x + 1 = d + j - p + 1
    BY <2>4
  <2>6. PICK x \in Int, y \in Int : x = C[n] /\ y = C[n + 1]
    BY <1>4, <1>5
  <2>7. x = b - d /\ y = e - d
    BY <2>3, <2>6
  <2>8. (x <= j <=> b <= d + j) /\ (j < y <=> d + j < e) /\ j - x + 1 = d + j - b + 1
    BY <2>5, <2>7
  <2> QED BY <2>2, <2>6, <2>8
<1>12. \A j \in 1 .. Len(r) : \E n \in 1 .. N : C[n] <= j /\ j < C[n + 1]
  BY <1>1, <1>10, <1>11
<1>13. ASSUME NEW n \in 1 .. N, NEW j \in 1 .. Len(r), C[n] <= j, j < C[n + 1]
       PROVE  r[j] = Byte(RequestText(sent[n])[j - C[n] + 1], n)
  <2>1. d + j \in 1 .. Len(s) /\ B[n] <= d + j /\ d + j < B[n + 1] /\ r[j] = s[d + j]
    BY <1>0, <1>10, <1>11, <1>13
  <2>2. PICK k \in 1 .. Len(s) : k = d + j
    BY <2>1
  <2>3. B[n] <= k /\ k < B[n + 1] /\ r[j] = s[k]
    BY <2>1, <2>2
  <2>4. s[k] = Byte(RequestText(sent[n])[k - B[n] + 1], n)
    BY <1>1, <2>3
  <2>5. j - C[n] + 1 = k - B[n] + 1
    <3>1. j - C[n] + 1 = d + j - B[n] + 1
      BY <1>11
    <3>2. PICK b \in Int : b = B[n]
      BY <1>4, <1>5
    <3>3. d + j - b + 1 = k - b + 1
      BY <1>0, <1>2, <2>2
    <3> QED BY <3>1, <3>2, <3>3
  <2> QED BY <2>3, <2>4, <2>5
<1>14. Laid(r, sent, C)
  BY <1>4, <1>7, <1>8, <1>9, <1>12, <1>13 DEF Laid, N
<1> QED BY <1>4, <1>14 DEF N

(* The head of the stream is the first byte of a line, or the body.        *)
AtLine(B, n, i) == B[n] + StartOf(script[n], i) = 2

(* Where the stream begins with line i of a request, it begins with that   *)
(* line, CR and LF, and what follows is the next line, the body or the     *)
(* next request.                                                           *)
LEMMA HeadIsLine ==
    ASSUME NEW s \in Seq(Bytes), NEW sent \in Seq(Requests), NEW B, Laid(s, sent, B),
           NEW n \in 1 .. Len(sent), NEW i \in 1 .. NumLines(sent[n]),
           B[n] + StartOf(sent[n], i) = 2
    PROVE  LET line == LineOf(sent[n], i)  l == Len(line) IN
           /\ line \in Texts /\ l \in Nat /\ l + 2 <= Len(s)
           /\ l + 2 < B[n + 1] /\ B[n + 1] \in Int /\ B[n] \in Int
           /\ \A j \in 1 .. l : s[j] = Byte(line[j], n) /\ line[j] # "cr"
           /\ s[l + 1] = Byte("cr", n) /\ s[l + 2] = Byte("lf", n)
           /\ i < NumLines(sent[n]) => B[n] - (l + 2) + StartOf(sent[n], i + 1) = 2
           /\ i = NumLines(sent[n]) => B[n + 1] - (l + 2) = IF sent[n].body THEN 2 ELSE 1
<1> DEFINE req == sent[n]  text == RequestText(req)  line == LineOf(req, i)  l == Len(line)
<1>1. req \in Requests /\ Len(sent) \in Nat /\ Len(s) \in Nat
  BY ElementOfSeq, LenProperties
<1>2. /\ B[n + 1] = B[n] + Len(text) /\ B[n] \in Int /\ B[n + 1] \in Int
      /\ B[n + 1] <= Len(s) + 1
      /\ \A j \in 1 .. Len(s) :
            B[n] <= j /\ j < B[n + 1] => s[j] = Byte(text[j - B[n] + 1], n)
  <2>1. n \in 1 .. Len(sent) + 1 /\ n + 1 \in 1 .. Len(sent) + 1
    BY <1>1
  <2> QED BY <2>1 DEF Laid
<1> HIDE DEF req
<1>3. /\ line \in Texts /\ l \in Nat /\ StartOf(req, i) \in Nat \ {0} /\ Len(text) \in Nat
      /\ \A j \in 1 .. l : text[StartOf(req, i) + j - 1] = line[j] /\ line[j] # "cr"
      /\ text[StartOf(req, i) + l] = "cr" /\ text[StartOf(req, i) + l + 1] = "lf"
      /\ StartOf(req, i) + l + 1 <= Len(text)
      /\ i < NumLines(req) => StartOf(req, i + 1) = StartOf(req, i) + l + 2
      /\ i = NumLines(req) => StartOf(req, i) + l + 1 = Len(text) - (IF req.body THEN 1 ELSE 0)
  BY <1>1, LinesAre DEF req
<1> HIDE DEF text, line, l
<1>4. PICK b \in Int, e \in Int, st \in Nat \ {0}, len \in Nat :
        b = B[n] /\ e = B[n + 1] /\ st = StartOf(req, i) /\ len = Len(text)
  BY <1>2, <1>3
<1>5. b = 2 - st /\ e = b + len /\ e <= Len(s) + 1 /\ st + l + 1 <= len
  <2>1. b + st = 2
    BY <1>4 DEF req
  <2>2. b = 2 - st
    BY <2>1
  <2>3. e = b + len /\ e <= Len(s) + 1
    BY <1>2, <1>4
  <2>4. st + l + 1 <= len
    BY <1>3, <1>4
  <2> QED BY <2>2, <2>3, <2>4
<1>6. l + 2 <= Len(s) /\ l + 2 < e
  BY <1>1, <1>3, <1>5
<1>7. \A j \in 1 .. l + 2 : /\ j \in 1 .. Len(s) /\ b <= j /\ j < e
                            /\ j - b + 1 = st + j - 1
  BY <1>1, <1>3, <1>5, <1>6
<1>8. \A j \in 1 .. l + 2 : s[j] = Byte(text[st + j - 1], n)
  <2>1. \A j \in 1 .. Len(s) : b <= j /\ j < e => s[j] = Byte(text[j - b + 1], n)
    BY <1>2, <1>4
  <2> QED BY <1>7, <2>1
<1>9. \A j \in 1 .. l : s[j] = Byte(line[j], n) /\ line[j] # "cr"
  <2>1. \A j \in 1 .. l : j \in 1 .. l + 2
    BY <1>3
  <2> QED BY <1>3, <1>4, <1>8, <2>1
<1>10. s[l + 1] = Byte("cr", n) /\ s[l + 2] = Byte("lf", n)
  <2>1. /\ l + 1 \in 1 .. l + 2 /\ l + 2 \in 1 .. l + 2
        /\ st + (l + 1) - 1 = st + l /\ st + (l + 2) - 1 = st + l + 1
    BY <1>3
  <2>2. s[l + 1] = Byte(text[st + l], n) /\ s[l + 2] = Byte(text[st + l + 1], n)
    BY <1>8, <2>1
  <2> QED BY <1>3, <1>4, <2>2
<1>11. i < NumLines(req) => B[n] - (l + 2) + StartOf(req, i + 1) = 2
  <2>1. b - (l + 2) + (st + l + 2) = 2
    BY <1>3, <1>5
  <2> QED BY <1>3, <1>4, <2>1
<1>12. i = NumLines(req) => B[n + 1] - (l + 2) = IF req.body THEN 2 ELSE 1
  <2>1. SUFFICES ASSUME i = NumLines(req)
                 PROVE  B[n + 1] - (l + 2) = IF req.body THEN 2 ELSE 1
    OBVIOUS
  <2>2. CASE req.body
    <3>1. st + l + 1 = len - 1
      BY <1>3, <1>4, <2>1, <2>2
    <3>2. e - (l + 2) = 2
      BY <1>3, <1>5, <3>1
    <3> QED BY <1>4, <2>2, <3>2
  <2>3. CASE ~req.body
    <3>1. st + l + 1 = len - 0
      BY <1>3, <1>4, <2>1, <2>3
    <3>2. e - (l + 2) = 1
      BY <1>3, <1>5, <3>1
    <3> QED BY <1>4, <2>3, <3>2
  <2> QED BY <2>2, <2>3
<1> QED BY <1>2, <1>3, <1>4, <1>6, <1>9, <1>10, <1>11, <1>12 DEF line, l, req

(* The last byte of a request that has a body is the body. *)
LEMMA HeadIsBody ==
    ASSUME NEW s \in Seq(Bytes), NEW sent \in Seq(Requests), NEW B, Laid(s, sent, B),
           NEW n \in 1 .. Len(sent), sent[n].body, NEW j \in 1 .. Len(s), B[n] <= j, B[n + 1] = j + 1
    PROVE  s[j] = Byte("body", n)
<1> DEFINE req == sent[n]  text == RequestText(req)  c == Len(req.connection)
           line == Len(LineText(req))
<1>1. req \in Requests /\ Len(sent) \in Nat /\ Len(s) \in Nat
  BY ElementOfSeq, LenProperties
<1>2. n \in 1 .. Len(sent) + 1 /\ n + 1 \in 1 .. Len(sent) + 1
  BY <1>1
<1>3. PICK b \in Int : b = B[n]
  BY <1>2 DEF Laid
<1>4. B[n + 1] = b + Len(text)
  BY <1>3 DEF Laid
<1>5. PICK d \in Nat : d = 7 * c
  BY <1>1, Words
<1>6. /\ Len(text) = line + d + 5 /\ text[line + 2 + d + 3] = "body" /\ line \in Nat
  BY <1>1, <1>5, TextIs
<1>7. s[j] = Byte(text[j - b + 1], n)
  <2>1. b <= j /\ j < B[n + 1]
    BY <1>3
  <2> QED BY <1>3, <2>1 DEF Laid
<1> HIDE DEF text, line
<1>8. j - b + 1 = line + 2 + d + 3
  <2>1. j + 1 = b + (line + d + 5)
    BY <1>4, <1>6
  <2> QED BY <1>6, <2>1
<1> QED BY <1>6, <1>7, <1>8

(* The types of what the stream is made of. *)
LEMMA StreamIs ==
    ASSUME IInv
    PROVE  /\ stream \in Seq(Bytes) /\ unread \in Seq(Bytes) /\ wire \in Seq(Bytes)
           /\ script \in Seq(Requests)
           /\ Len(unread) \in Nat /\ Len(wire) \in Nat /\ Len(script) \in Nat
           /\ Len(stream) = Len(unread) + Len(wire)
           /\ \A j \in 1 .. Len(unread) : stream[j] = unread[j] /\ j \in 1 .. Len(stream)
           /\ \A j \in 1 .. Len(wire) : stream[Len(unread) + j] = wire[j]
<1>1. unread \in Seq(Bytes) /\ wire \in Seq(Bytes) /\ script \in Seq(Requests) /\ Len(script) \in Nat
  BY LenProperties DEF IInv, TypeOK
<1>2. /\ stream \in Seq(Bytes) /\ Len(unread) \in Nat /\ Len(wire) \in Nat
      /\ Len(stream) = Len(unread) + Len(wire)
      /\ \A j \in 1 .. Len(unread) : stream[j] = unread[j]
      /\ \A j \in 1 .. Len(wire) : stream[Len(unread) + j] = wire[j]
  BY <1>1, JoinedBytes DEF stream
<1>3. \A j \in 1 .. Len(unread) : j \in 1 .. Len(stream)
  BY <1>2
<1> QED BY <1>1, <1>2, <1>3

(* What findCRLF finds in what is unread. *)
LEMMA EndsAre ==
    ASSUME IInv
    PROVE  /\ Ends = {k \in 1 .. Len(unread) - 1 : unread[k].kind = "cr" /\ unread[k + 1].kind = "lf"}
           /\ findCRLF => /\ Min(Ends) \in Ends /\ \A k \in Ends : Min(Ends) <= k
                          /\ Len(Line) = Min(Ends) - 1
                          /\ \A j \in 1 .. Min(Ends) - 1 : Line[j] = unread[j]
           /\ Line \in Seq(Bytes) \/ ~findCRLF
<1>1. /\ unread \in Seq(Bytes) /\ Len(unread) = readableBytes(buf) /\ Readable(buf) = unread
      /\ Len(unread) \in Nat
  BY ReadableBytes DEF IInv, TypeOK, StreamKept
<1>2. Ends = {k \in 1 .. Len(unread) - 1 : unread[k].kind = "cr" /\ unread[k + 1].kind = "lf"}
  BY <1>1 DEF Ends
<1>3. ASSUME findCRLF
      PROVE  /\ Min(Ends) \in Ends /\ \A k \in Ends : Min(Ends) <= k
             /\ Line \in Seq(Bytes) /\ Len(Line) = Min(Ends) - 1
             /\ \A j \in 1 .. Min(Ends) - 1 : Line[j] = unread[j]
  <2>1. Ends \in SUBSET Nat /\ Ends # {} /\ Ends \subseteq 1 .. Len(unread) - 1
    BY <1>1, <1>2, <1>3 DEF findCRLF
  <2>2. Min(Ends) \in Ends /\ \A k \in Ends : Min(Ends) <= k
    BY <2>1, MinIs
  <2>3. PICK m \in Int : m = Min(Ends) - 1 /\ 1 <= m + 1 /\ m <= Len(unread)
    <3>1. Min(Ends) \in 1 .. Len(unread) - 1
      BY <2>1, <2>2
    <3> QED BY <1>1, <3>1
  <2>4. /\ SubSeq(unread, 1, m) \in Seq(Bytes) /\ Len(SubSeq(unread, 1, m)) = m - 1 + 1
        /\ \A j \in 1 .. m - 1 + 1 : SubSeq(unread, 1, m)[j] = unread[1 + j - 1]
    BY <1>1, <2>3, Part
  <2>5. Line = SubSeq(unread, 1, m)
    BY <1>1, <2>3 DEF Line
  <2>6. m - 1 + 1 = m /\ \A j \in 1 .. m : 1 + j - 1 = j
    BY <2>3
  <2>7. Line \in Seq(Bytes) /\ Len(Line) = m /\ \A j \in 1 .. m : Line[j] = unread[j]
    BY <2>4, <2>5, <2>6
  <2> QED BY <2>2, <2>3, <2>7
<1> QED BY <1>2, <1>3

(* Where the stream begins with line i of a request, findCRLF finds the    *)
(* end of that line once it has arrived, and nothing else.                 *)
LEMMA LineFound ==
    ASSUME IInv, NEW B, Laid(stream, script, B),
           NEW n \in 1 .. Len(script), NEW i \in 1 .. NumLines(script[n]), AtLine(B, n, i)
    PROVE  LET line == LineOf(script[n], i)  l == Len(line) IN
           /\ l \in Nat /\ l + 2 < B[n + 1] /\ B[n + 1] \in Int
           /\ l + 2 <= Len(unread) => findCRLF
           /\ findCRLF => /\ Len(Line) = l /\ l + 2 <= Len(unread) /\ LineTokens = line
                          /\ l > 0 => Line[1].id = n
<1>1. PICK line \in Texts, l \in Nat : line = LineOf(script[n], i) /\ l = Len(line)
  BY StreamIs, HeadIsLine DEF AtLine
<1>2. /\ l + 2 < B[n + 1] /\ B[n + 1] \in Int
      /\ \A j \in 1 .. l : stream[j] = Byte(line[j], n) /\ line[j] # "cr"
      /\ stream[l + 1] = Byte("cr", n) /\ stream[l + 2] = Byte("lf", n)
  <2> DEFINE t == LineOf(script[n], i)
  <2>1. /\ Len(t) + 2 < B[n + 1] /\ B[n + 1] \in Int
        /\ \A j \in 1 .. Len(t) : stream[j] = Byte(t[j], n) /\ t[j] # "cr"
        /\ stream[Len(t) + 1] = Byte("cr", n) /\ stream[Len(t) + 2] = Byte("lf", n)
    BY StreamIs, HeadIsLine DEF AtLine
  <2> HIDE DEF t
  <2>2. t = line /\ Len(t) = l
    BY <1>1 DEF t
  <2> QED BY <2>1, <2>2
<1>3. PICK size \in Nat : size = Len(unread) /\ \A j \in 1 .. size : stream[j] = unread[j]
  BY StreamIs
<1>4. \A kind, id : Byte(kind, id).kind = kind /\ Byte(kind, id).id = id
  BY DEF Byte
<1>5. Ends = {k \in 1 .. size - 1 : unread[k].kind = "cr" /\ unread[k + 1].kind = "lf"}
  BY <1>3, EndsAre
<1>6. \A k \in Ends : k >= l + 1
  <2>1. SUFFICES ASSUME NEW k \in Ends, k \in 1 .. l PROVE FALSE
    BY <1>1, <1>5
  <2>2. unread[k].kind = "cr" /\ k \in 1 .. size
    BY <1>3, <1>5
  <2>3. unread[k].kind = line[k]
    BY <1>2, <1>3, <1>4, <2>1, <2>2
  <2> QED BY <1>2, <2>1, <2>2, <2>3
<1>7. ASSUME l + 2 <= size PROVE l + 1 \in Ends
  <2>1. l + 1 \in 1 .. size - 1 /\ l + 1 \in 1 .. size /\ l + 2 \in 1 .. size /\ (l + 1) + 1 = l + 2
    BY <1>7
  <2>2. unread[l + 1].kind = "cr" /\ unread[l + 2].kind = "lf"
    BY <1>2, <1>3, <1>4, <2>1
  <2> QED BY <1>5, <2>1, <2>2
<1>8. ASSUME findCRLF
      PROVE  /\ Len(Line) = l /\ l + 2 <= size /\ LineTokens = line
             /\ l > 0 => Line[1].id = n
  <2>1. PICK m : m = Min(Ends)
    OBVIOUS
  <2>2. /\ m \in Ends /\ \A k \in Ends : m <= k
        /\ Len(Line) = m - 1 /\ \A j \in 1 .. m - 1 : Line[j] = unread[j]
        /\ Line \in Seq(Bytes)
    BY <1>8, <2>1, EndsAre
  <2>3. m \in Nat /\ m >= l + 1 /\ m <= size - 1
    BY <1>5, <1>6, <2>2
  <2>4. l + 2 <= size
    BY <1>1, <2>3
  <2>5. m = l + 1
    <3>1. m <= l + 1
      BY <1>7, <2>2, <2>4
    <3> QED BY <1>1, <2>3, <3>1
  <2>6. Len(Line) = l /\ \A j \in 1 .. l : Line[j] = unread[j] /\ j \in 1 .. size
    <3>1. m - 1 = l /\ \A j \in 1 .. l : j \in 1 .. size
      BY <2>4, <2>5
    <3> QED BY <2>2, <3>1
  <2>7. \A j \in 1 .. l : Line[j] = Byte(line[j], n)
    BY <1>2, <1>3, <2>6
  <2>8. LineTokens = line
    <3>1. findCRLF /\ WellFormed(buf)
      BY <1>8 DEF IInv, TypeOK
    <3>2. LineTokens \in Texts
      BY <3>1, LineIs
    <3>3. DOMAIN Line = 1 .. l
      BY <2>2, <2>6, LenProperties
    <3>4. LineTokens = [j \in 1 .. l |-> Line[j].kind]
      BY <3>3 DEF LineTokens
    <3>5. Len(LineTokens) = l /\ \A j \in 1 .. l : LineTokens[j] = line[j]
      BY <1>4, <2>7, <3>4
    <3> QED BY <1>1, <3>2, <3>5, SameText
  <2>9. l > 0 => Line[1].id = n
    BY <1>4, <2>7
  <2> QED BY <2>4, <2>6, <2>8, <2>9
<1> QED BY <1>1, <1>2, <1>3, <1>7, <1>8 DEF findCRLF

(* A body is not taken for a request line. *)
LEMMA BodyFound ==
    ASSUME IInv, NEW B, Laid(stream, script, B), findCRLF,
           NEW n \in 1 .. Len(script), script[n].body, B[n + 1] = 2
    PROVE  ~IsRequestLine(LineTokens)
<1>1. PICK m : m = Min(Ends)
  OBVIOUS
<1>2. /\ m \in Ends /\ Len(Line) = m - 1 /\ \A j \in 1 .. m - 1 : Line[j] = unread[j]
      /\ Line \in Seq(Bytes)
      /\ Ends = {k \in 1 .. Len(unread) - 1 : unread[k].kind = "cr" /\ unread[k + 1].kind = "lf"}
  BY <1>1, EndsAre
<1>3. m \in 1 .. Len(unread) - 1 /\ unread[m].kind = "cr" /\ Len(unread) \in Nat
  BY <1>2, StreamIs
<1>4. 1 \in 1 .. Len(unread) /\ 1 \in 1 .. Len(stream) /\ stream[1] = unread[1]
  <2>1. 1 \in 1 .. Len(unread)
    BY <1>3
  <2> QED BY <2>1, StreamIs
<1>5. B[n] <= 1 /\ B[n + 1] = 1 + 1
  <2>1. n \in 1 .. Len(script) + 1 /\ n + 1 \in 1 .. Len(script) + 1 /\ script[n] \in Requests
    BY StreamIs, ElementOfSeq
  <2>2. PICK b \in Int : b = B[n]
    BY <2>1 DEF Laid
  <2>3. PICK t \in Nat \ {0} : t = Len(RequestText(script[n]))
    <3>1. n \in Ids
      <4>1. Len(script) <= NumRequests /\ NumRequests \in Nat /\ Len(script) \in Nat
        BY NumRequestsAssumption, StreamIs DEF IInv, TypeOK
      <4> QED BY <4>1 DEF Ids
    <3> QED BY <2>1, <3>1, TextBytesAre
  <2>4. B[n + 1] = b + t
    BY <2>2, <2>3 DEF Laid
  <2> QED BY <2>2, <2>4
<1>6. stream[1] = Byte("body", n)
  BY <1>4, <1>5, StreamIs, HeadIsBody
<1>7. m > 1
  <2>1. unread[1].kind = "body"
    BY <1>4, <1>6 DEF Byte
  <2> QED BY <1>3, <2>1
<1>8. LineTokens \in Texts
  BY LineIs DEF IInv, TypeOK
<1>9. Len(LineTokens) >= 1 /\ LineTokens[1] = "body"
  <2>1. DOMAIN Line = 1 .. m - 1 /\ m - 1 \in Nat /\ 1 \in 1 .. m - 1
    BY <1>2, <1>3, <1>7, LenProperties
  <2>2. LineTokens = [j \in 1 .. m - 1 |-> Line[j].kind]
    BY <2>1 DEF LineTokens
  <2>3. Len(LineTokens) = m - 1 /\ LineTokens[1] = Line[1].kind
    BY <2>1, <2>2
  <2>4. Line[1] = unread[1] /\ unread[1].kind = "body"
    <3>1. \A j \in 1 .. m - 1 : Line[j] = unread[j]
      BY <1>2
    <3>2. unread[1].kind = "body"
      BY <1>4, <1>6 DEF Byte
    <3> QED BY <2>1, <3>1, <3>2
  <2>5. m - 1 >= 1
    BY <1>3, <1>7
  <2> QED BY <2>3, <2>4, <2>5
<1> QED BY <1>8, <1>9, NoMethodNoRequest

(* What the steps make of the stream. *)
LEMMA Assoc ==
    \A x, y, z \in Seq(Bytes) : (x \o y) \o z = x \o (y \o z)
<1> SUFFICES ASSUME NEW x \in Seq(Bytes), NEW y \in Seq(Bytes), NEW z \in Seq(Bytes)
             PROVE  (x \o y) \o z = x \o (y \o z)
  OBVIOUS
<1> QED BY ConcatAssociative

(* ClientSends adds a request to the stream. *)
LEMMA StreamAppends ==
    ASSUME IInv, NEW req \in Requests, ClientSends(req)
    PROVE  /\ Len(script) + 1 \in Ids /\ script' = Append(script, req)
           /\ stream' = stream \o Text(Len(script) + 1, req)
<1>1. /\ Len(script) \in Nat /\ Len(script) < NumRequests /\ script' = Append(script, req)
      /\ wire' = wire \o Text(Len(script'), req) /\ unread' = unread
  BY StreamIs DEF ClientSends
<1>2. Len(script') = Len(script) + 1 /\ Len(script) + 1 \in Ids
  <2>1. Len(script') = Len(script) + 1
    BY <1>1, StreamIs, AppendProperties
  <2> QED BY <1>1, <2>1, NumRequestsAssumption DEF Ids
<1> DEFINE t == Text(Len(script) + 1, req)
<1>3. t \in Seq(Bytes)
  BY <1>2, TextBytes
<1>4. stream' = unread \o (wire \o t)
  BY <1>1, <1>2 DEF stream
<1> HIDE DEF t
<1>5. unread \o (wire \o t) = (unread \o wire) \o t
  BY <1>3, StreamIs, Assoc
<1> QED BY <1>1, <1>2, <1>4, <1>5 DEF stream, t

(* A piece of the wire is its first bytes, and what is left of it.         *)
LEMMA PieceIs ==
    ASSUME IInv, NEW n \in 1 .. Min2(Len(wire), MaxRead(buf)), OnMessage(SubSeq(wire, 1, n))
    PROVE  LET piece == SubSeq(wire, 1, n) IN
           /\ piece \in Seq(Bytes) /\ Len(piece) = n /\ n \in 1 .. Len(wire)
           /\ \A j \in 1 .. n : piece[j] = wire[j]
           /\ wire' = SubSeq(wire, n + 1, Len(wire)) /\ wire' \in Seq(Bytes)
           /\ Len(wire') = Len(wire) - n /\ \A j \in 1 .. Len(wire) - n : wire'[j] = wire[n + j]
           /\ wire = piece \o wire'
<1> DEFINE piece == SubSeq(wire, 1, n)  left == SubSeq(wire, n + 1, Len(wire))
<1>1. wire \in Seq(Bytes) /\ Len(wire) \in Nat
  BY StreamIs
<1>2. n \in 1 .. Len(wire)
  <2>1. MaxRead(buf) \in Int
    BY BufferAssumption DEF MaxRead, writableBytes, WellFormed, Buffers, IInv, TypeOK
  <2> QED BY <1>1, <2>1 DEF Min2
<1>3. piece \in Seq(Bytes) /\ Len(piece) = n /\ \A j \in 1 .. n : piece[j] = wire[j]
  <2>1. PICK m \in Int : m = n /\ 1 <= m + 1 /\ m <= Len(wire) /\ m - 1 + 1 = m
    BY <1>1, <1>2
  <2>2. /\ SubSeq(wire, 1, m) \in Seq(Bytes) /\ Len(SubSeq(wire, 1, m)) = m - 1 + 1
        /\ \A j \in 1 .. m - 1 + 1 : SubSeq(wire, 1, m)[j] = wire[1 + j - 1]
    BY <1>1, <2>1, Part
  <2>3. \A j \in 1 .. m : 1 + j - 1 = j
    BY <2>1
  <2> QED BY <2>1, <2>2, <2>3
<1>4. left \in Seq(Bytes) /\ Len(left) = Len(wire) - n /\ \A j \in 1 .. Len(wire) - n : left[j] = wire[n + j]
  BY <1>1, <1>2, Rest
<1> HIDE DEF piece, left
<1>5. wire' = left
  BY <1>3 DEF OnMessage, piece, left
<1>6. wire = piece \o left
  <2>1. Len(wire) = Len(piece) + Len(left)
    BY <1>1, <1>2, <1>3, <1>4
  <2>2. /\ \A i \in 1 .. Len(piece) : wire[i] = piece[i]
        /\ \A i \in 1 .. Len(left) : wire[Len(piece) + i] = left[i]
    BY <1>3, <1>4
  <2> QED BY <1>1, <1>3, <1>4, <2>1, <2>2, IsConcat
<1> QED BY <1>2, <1>3, <1>4, <1>5, <1>6 DEF piece, left

(* OnMessage leaves the stream as it is: it moves bytes from the wire to   *)
(* the buffer.                                                             *)
LEMMA StreamStays ==
    ASSUME IInv, NEW n \in 1 .. Min2(Len(wire), MaxRead(buf)), OnMessage(SubSeq(wire, 1, n))
    PROVE  stream' = stream
<1> DEFINE piece == SubSeq(wire, 1, n)
<1>1. piece \in Seq(Bytes) /\ wire' \in Seq(Bytes) /\ wire = piece \o wire'
  BY PieceIs
<1>2. unread' = unread \o piece
  BY DEF OnMessage
<1> DEFINE left == wire'
<1> HIDE DEF piece, left
<1>3. piece \in Seq(Bytes) /\ left \in Seq(Bytes) /\ unread \in Seq(Bytes)
  BY <1>1, StreamIs DEF left
<1>4. (unread \o piece) \o left = unread \o (piece \o left)
  BY <1>3, Assoc
<1> QED BY <1>1, <1>2, <1>4 DEF stream, left

(* retrieveLine takes the line and its CR and LF from the stream. *)
LEMMA StreamDrops ==
    ASSUME IInv, findCRLF, retrieveLine, wire' = wire, NEW d \in Nat, d = Len(Line) + 2
    PROVE  Dropped(stream, d, stream') /\ Len(unread') = Len(unread) - d
<1>1. d \in 0 .. Len(unread)
  BY LineFits, ReadableBytes DEF IInv, TypeOK, StreamKept
<1>2. unread' = SubSeq(unread, d + 1, Len(unread))
  <2>1. Len(Line) + 3 = d + 1
    <3>1. Len(Line) \in Nat
      BY LineFits DEF IInv, TypeOK
    <3> QED BY <3>1
  <2> QED BY <2>1 DEF retrieveLine
<1>3. /\ unread' \in Seq(Bytes) /\ Len(unread') = Len(unread) - d
      /\ \A j \in 1 .. Len(unread) - d : unread'[j] = unread[d + j]
  BY <1>1, <1>2, StreamIs, Rest
<1> DEFINE u == unread'
<1>4. stream' = u \o wire
  BY DEF stream
<1> HIDE DEF u
<1>5. u \in Seq(Bytes) /\ Len(u) = Len(unread) - d /\ \A j \in 1 .. Len(unread) - d : u[j] = unread[d + j]
  BY <1>3 DEF u
<1>6. /\ u \o wire \in Seq(Bytes) /\ Len(u \o wire) = Len(u) + Len(wire)
      /\ \A j \in 1 .. Len(u) : (u \o wire)[j] = u[j]
      /\ \A j \in 1 .. Len(wire) : (u \o wire)[Len(u) + j] = wire[j]
  BY <1>5, StreamIs, JoinedBytes
<1> DEFINE r == u \o wire
<1>7. /\ r \in Seq(Bytes) /\ Len(r) = Len(u) + Len(wire)
      /\ \A j \in 1 .. Len(u) : r[j] = u[j]
      /\ \A j \in 1 .. Len(wire) : r[Len(u) + j] = wire[j]
  BY <1>6
<1> HIDE DEF r
<1>8. /\ Len(unread) \in Nat /\ Len(wire) \in Nat /\ Len(stream) = Len(unread) + Len(wire)
      /\ \A j \in 1 .. Len(unread) : stream[j] = unread[j]
      /\ \A j \in 1 .. Len(wire) : stream[Len(unread) + j] = wire[j]
  BY StreamIs
<1>9. d \in 0 .. Len(stream) /\ Len(r) = Len(stream) - d
  BY <1>1, <1>5, <1>7, <1>8
<1>10. ASSUME NEW j \in 1 .. Len(r) PROVE r[j] = stream[d + j]
  <2>1. CASE j \in 1 .. Len(u)
    <3>1. d + j \in 1 .. Len(unread)
      BY <1>1, <1>5, <1>8, <2>1
    <3> QED BY <1>5, <1>7, <1>8, <2>1, <3>1
  <2>2. CASE j > Len(u)
    <3>1. PICK k \in 1 .. Len(wire) : j = Len(u) + k /\ d + j = Len(unread) + k
      <4>1. /\ j - Len(u) \in 1 .. Len(wire) /\ j = Len(u) + (j - Len(u))
            /\ d + j = Len(unread) + (j - Len(u))
        BY <1>1, <1>5, <1>7, <1>8, <2>2
      <4> QED BY <4>1
    <3> QED BY <1>7, <1>8, <3>1
  <2> QED BY <1>1, <1>5, <1>8, <2>1, <2>2
<1>11. stream' = r
  BY <1>4 DEF r
<1>12. Dropped(stream, d, r)
  BY <1>7, <1>9, <1>10 DEF Dropped
<1> QED BY <1>3, <1>11, <1>12

(* Where the head of the stream may stand: behind the last request that    *)
(* was taken out, at its body, or, when a piece ended within a request and *)
(* the context was made anew, at a later line of the next one.             *)
Boundary(B, h) == B[h + 1] = 1 \/ (h > 0 /\ script[h].body /\ B[h + 1] = 2)
Lost(B, h) ==
    h < Len(script) /\ \E i \in 2 .. NumLines(script[h + 1]) : AtLine(B, h + 1, i)

(* What the context has understood before line i of request n.             *)
Parsed(n, i) ==
    LET req == script[n] IN
    /\ current = n /\ req.method \in DOMAIN Methods
    /\ request.method = Methods[req.method] /\ request.version = VersionOf(req.version)
    /\ request.path = <<req.path>> /\ request.query = req.query
    /\ getHeader(request, <<"Connection">>) = IF i = 2 THEN <<>> ELSE <<req.connection[i - 2]>>

(* The first h requests have been taken out.                               *)
Where(B, h) ==
    /\ h \in 0 .. Len(script)
    /\ (pc = "poll" \/ (pc = "parse" /\ expect = "kExpectRequestLine")) =>
          Boundary(B, h) \/ Lost(B, h)
    /\ (pc = "parse" /\ expect = "kExpectRequestLine") => request = NewRequest
    /\ pc = "parse" => expect # "kGotAll"
    /\ (pc = "parse" /\ expect = "kExpectHeaders") =>
          /\ h < Len(script)
          /\ \E i \in 2 .. NumLines(script[h + 1]) : AtLine(B, h + 1, i) /\ Parsed(h + 1, i)
    /\ pc = "request" =>
          /\ h < Len(script) /\ B[h + 2] = IF script[h + 1].body THEN 2 ELSE 1
          /\ Parsed(h + 1, NumLines(script[h + 1]))

Answered(h) == state = "kConnected" => Len(output) = h /\ \A i \in 1 .. h : output[i].id = i

Whole(B, h) ==
    (whole /\ state = "kConnected") =>
        /\ pc = "poll" => unread = <<>> /\ B[h + 1] = 1
        /\ pc = "parse" => /\ h < Len(script) /\ ~script[h + 1].body
                           /\ Len(unread) = B[h + 2] - 1
                           /\ expect = "kExpectRequestLine" => B[h + 1] = 1
        /\ pc = "request" => unread = <<>> /\ ~script[h + 1].body

HInv ==
    /\ IInv /\ AnswersInOrder
    /\ \E B, h : Laid(stream, script, B) /\ Where(B, h) /\ Answered(h) /\ Whole(B, h)

(* It holds in the beginning. *)
LEMMA HInitially == Init => HInv
<1> SUFFICES ASSUME Init PROVE HInv
  OBVIOUS
<1>1. IInv
  BY Initially
<1>2. /\ script = <<>> /\ stream = <<>> /\ output = <<>> /\ unread = <<>> /\ wire = <<>>
      /\ pc = "poll" /\ state = "kConnected"
  BY DEF Init, stream
<1>3. Len(<<>>) = 0
  OBVIOUS
<1> DEFINE B == [n \in 1 .. 1 |-> 1]
<1>4. Laid(stream, script, B)
  <2>1. B \in [1 .. 0 + 1 -> Int] /\ B[0 + 1] = 0 + 1 /\ \A n \in 1 .. 0 + 1 : B[n] <= 0 + 1
    OBVIOUS
  <2>2. 1 .. 0 = {}
    OBVIOUS
  <2> HIDE DEF B
  <2> QED BY <1>2, <1>3, <2>1, <2>2 DEF Laid
<1>5. Where(B, 0)
  BY <1>2, <1>3 DEF Where, Boundary
<1>6. Answered(0)
  BY <1>2, <1>3 DEF Answered
<1>7. Whole(B, 0)
  BY <1>2 DEF Whole
<1>8. AnswersInOrder
  <2>1. DOMAIN output = {}
    BY <1>2
  <2> QED BY <2>1 DEF AnswersInOrder
<1> HIDE DEF B
<1> QED BY <1>1, <1>4, <1>5, <1>6, <1>7, <1>8 DEF HInv

(* A client that sends more changes nothing of what it sent. *)
LEMMA SentStays ==
    ASSUME IInv, NEW req \in Requests, ClientSends(req)
    PROVE  /\ Len(script') = Len(script) + 1 /\ Len(script) \in Nat
           /\ \A n \in 1 .. Len(script) : script'[n] = script[n] /\ n \in 1 .. Len(script')
<1>1. script' = Append(script, req) /\ script \in Seq(Requests) /\ Len(script) \in Nat
  BY StreamIs, StreamAppends
<1>2. /\ Len(script') = Len(script) + 1
      /\ \A n \in 1 .. Len(script) : script'[n] = script[n]
  BY <1>1, AppendProperties
<1> QED BY <1>1, <1>2

(* A client that sends more sends nothing of an earlier request. *)
LEMMA ArrivedStays ==
    ASSUME IInv, NEW req \in Requests, ClientSends(req), NEW n \in 1 .. Len(script), Arrived(n)
    PROVE  Arrived(n)'
<1>1. Len(script') = Len(script) + 1 /\ Len(script) \in Nat /\ Len(script) + 1 \in Ids
  BY SentStays, StreamAppends
<1> DEFINE t == Text(Len(script) + 1, req)
<1>2. /\ t \in Seq(Bytes) /\ \A i \in 1 .. Len(t) : t[i].id = Len(script) + 1
  <2>1. /\ t \in Seq(Bytes) /\ Len(t) = Len(RequestText(req))
        /\ \A i \in 1 .. Len(RequestText(req)) : t[i] = Byte(RequestText(req)[i], Len(script) + 1)
    BY <1>1, TextBytesAre
  <2>2. \A kind, id : Byte(kind, id).id = id
    BY DEF Byte
  <2> HIDE DEF t
  <2> QED BY <2>1, <2>2
<1>3. wire' = wire \o t /\ wire \in Seq(Bytes)
  BY <1>1, StreamIs DEF ClientSends
<1> HIDE DEF t
<1>4. /\ wire' \in Seq(Bytes) /\ Len(wire') = Len(wire) + Len(t) /\ Len(wire) \in Nat /\ Len(t) \in Nat
      /\ \A i \in 1 .. Len(wire) : wire'[i] = wire[i]
      /\ \A i \in 1 .. Len(t) : wire'[Len(wire) + i] = t[i]
  BY <1>2, <1>3, JoinedBytes
<1>5. DOMAIN wire' = 1 .. Len(wire') /\ DOMAIN wire = 1 .. Len(wire)
  BY <1>3, <1>4
<1>6. ASSUME NEW i \in 1 .. Len(wire'), wire'[i].id = n PROVE wire'[i].kind = "body"
  <2>1. CASE i \in 1 .. Len(wire)
    BY <1>4, <1>5, <1>6, <2>1 DEF Arrived
  <2>2. CASE i > Len(wire)
    <3>1. PICK k \in 1 .. Len(t) : i = Len(wire) + k
      <4>1. i - Len(wire) \in 1 .. Len(t) /\ i = Len(wire) + (i - Len(wire))
        BY <1>4, <2>2
      <4> QED BY <4>1
    <3>2. wire'[i].id = Len(script) + 1
      BY <1>2, <1>4, <3>1
    <3> QED BY <1>1, <1>6, <3>2
  <2> QED BY <1>4, <2>1, <2>2
<1>7. n <= Len(script')
  BY <1>1
<1> QED BY <1>5, <1>6, <1>7 DEF Arrived

(* A step that answers nobody keeps the answers in order. *)
LEMMA AnswersStay ==
    ASSUME IInv, AnswersInOrder, output' = output, state' = "kConnected" => state = "kConnected",
           \A n \in 1 .. Len(script) : Arrived(n) => Arrived(n)' /\ script'[n] = script[n]
    PROVE  AnswersInOrder'
<1>1. output \in Seq([id : Ids \cup {BadRequest}, asked : BOOLEAN, close : BOOLEAN,
                      body : Nat, length : Nat \cup {NoLength}])
  BY DEF IInv, TypeOK
<1>2. DOMAIN output = 1 .. Len(output) /\ Len(output) \in Nat /\ Len(script) \in Nat
  BY <1>1, StreamIs, LenProperties
<1>3. ASSUME NEW i \in DOMAIN output
      PROVE  /\ \/ output[i].id = BadRequest
                \/ output[i].id = i /\ Arrived(i)' /\ output[i].asked = WantsClose(script'[i])
             /\ \/ output[i].length = output[i].body
                \/ i = Len(output) /\ state' # "kConnected"
  <2>1. /\ \/ output[i].id = BadRequest
           \/ output[i].id = i /\ Arrived(i) /\ output[i].asked = WantsClose(script[i])
        /\ \/ output[i].length = output[i].body
           \/ i = Len(output) /\ state # "kConnected"
    BY <1>3 DEF AnswersInOrder
  <2>2. CASE output[i].id = BadRequest
    BY <2>1, <2>2
  <2>3. CASE output[i].id = i /\ Arrived(i) /\ output[i].asked = WantsClose(script[i])
    <3>1. i \in 1 .. Len(script)
      BY <1>2, <2>3 DEF Arrived
    <3>2. Arrived(i)' /\ script'[i] = script[i]
      BY <2>3, <3>1
    <3> QED BY <2>1, <2>3, <3>2
  <2> QED BY <2>1, <2>2, <2>3
<1>4. output' = output
  OBVIOUS
<1> QED BY <1>3, <1>4 DEF AnswersInOrder

(* Each step keeps it. *)
LEMMA ClientSendsH ==
    ASSUME HInv, NEW req \in Requests, ClientSends(req)
    PROVE  HInv'
<1>1. IInv /\ AnswersInOrder /\ IInv'
  BY ClientSendsKeeps DEF HInv
<1>2. PICK B, h : Laid(stream, script, B) /\ Where(B, h) /\ Answered(h) /\ Whole(B, h)
  BY DEF HInv
<1>3. /\ Len(script) + 1 \in Ids /\ script' = Append(script, req)
      /\ stream' = stream \o Text(Len(script) + 1, req)
  BY <1>1, StreamAppends
<1>4. PICK C : Laid(stream', script', C) /\ \A n \in 1 .. Len(script) + 1 : C[n] = B[n]
  BY <1>1, <1>2, <1>3, StreamIs, LaidOnAppend
<1>5. /\ Len(script') = Len(script) + 1 /\ Len(script) \in Nat
      /\ \A n \in 1 .. Len(script) : script'[n] = script[n] /\ n \in 1 .. Len(script')
  BY <1>1, SentStays
<1>6. UNCHANGED <<buf, pc, expect, request, current, state, output, unread, whole>>
  BY DEF ClientSends, contextVars
<1>7. h \in 0 .. Len(script)
  BY <1>2 DEF Where
<1>8. h + 1 \in 1 .. Len(script) + 1 /\ C[h + 1] = B[h + 1]
  BY <1>4, <1>5, <1>7
<1>9. h < Len(script) => /\ h + 1 \in 1 .. Len(script) /\ h + 2 \in 1 .. Len(script) + 1
                         /\ C[h + 2] = B[h + 2] /\ script'[h + 1] = script[h + 1]
                         /\ h < Len(script')
  BY <1>4, <1>5, <1>7
<1>10. h > 0 => script'[h] = script[h]
  BY <1>5, <1>7
<1>11. Boundary(B, h) => Boundary(C, h)'
  BY <1>8, <1>10 DEF Boundary
<1>12. ASSUME NEW i, h < Len(script), AtLine(B, h + 1, i)
       PROVE  AtLine(C, h + 1, i)'
  BY <1>8, <1>9, <1>12 DEF AtLine
<1>13. ASSUME NEW i, h < Len(script), Parsed(h + 1, i)
       PROVE  Parsed(h + 1, i)'
  BY <1>6, <1>9, <1>13 DEF Parsed
<1>14. Lost(B, h) => Lost(C, h)'
  BY <1>9, <1>12 DEF Lost
<1>15. Where(C, h)'
  <2>1. h \in 0 .. Len(script')
    BY <1>5, <1>7
  <2>2. (pc' = "poll" \/ (pc' = "parse" /\ expect' = "kExpectRequestLine")) =>
          Boundary(C, h)' \/ Lost(C, h)'
    BY <1>2, <1>6, <1>11, <1>14 DEF Where
  <2>3. /\ (pc' = "parse" /\ expect' = "kExpectRequestLine") => request' = NewRequest
        /\ pc' = "parse" => expect' # "kGotAll"
    BY <1>2, <1>6 DEF Where
  <2>4. (pc' = "parse" /\ expect' = "kExpectHeaders") =>
          /\ h < Len(script')
          /\ \E i \in 2 .. NumLines(script'[h + 1]) : AtLine(C, h + 1, i)' /\ Parsed(h + 1, i)'
    BY <1>2, <1>6, <1>9, <1>12, <1>13 DEF Where
  <2>5. pc' = "request" =>
          /\ h < Len(script') /\ C[h + 2] = IF script'[h + 1].body THEN 2 ELSE 1
          /\ Parsed(h + 1, NumLines(script[h + 1]))'
    <3>1. SUFFICES ASSUME pc = "request"
                   PROVE  /\ h < Len(script') /\ C[h + 2] = IF script'[h + 1].body THEN 2 ELSE 1
                          /\ Parsed(h + 1, NumLines(script[h + 1]))'
      BY <1>6
    <3>2. /\ h < Len(script) /\ B[h + 2] = IF script[h + 1].body THEN 2 ELSE 1
          /\ Parsed(h + 1, NumLines(script[h + 1]))
      BY <1>2, <3>1 DEF Where
    <3>3. PICK i : i = NumLines(script[h + 1])
      OBVIOUS
    <3>4. NumLines(script[h + 1])' = i
      BY <1>9, <3>2, <3>3 DEF NumLines
    <3>5. Parsed(h + 1, i)'
      BY <1>13, <3>2, <3>3
    <3> QED BY <1>9, <3>2, <3>4, <3>5
  <2> QED BY <2>1, <2>2, <2>3, <2>4, <2>5 DEF Where
<1>16. Answered(h)'
  BY <1>2, <1>6 DEF Answered
<1>17. Whole(C, h)'
  <2>1. SUFFICES ASSUME whole, state = "kConnected"
                 PROVE  /\ pc' = "poll" => unread' = <<>> /\ C[h + 1] = 1
                        /\ pc' = "parse" => /\ h < Len(script') /\ ~script'[h + 1].body
                                            /\ Len(unread') = C[h + 2] - 1
                                            /\ expect' = "kExpectRequestLine" => C[h + 1] = 1
                        /\ pc' = "request" => unread' = <<>> /\ ~script'[h + 1].body
    BY <1>6 DEF Whole
  <2>2. /\ pc = "poll" => unread = <<>> /\ B[h + 1] = 1
        /\ pc = "parse" => /\ h < Len(script) /\ ~script[h + 1].body
                           /\ Len(unread) = B[h + 2] - 1
                           /\ expect = "kExpectRequestLine" => B[h + 1] = 1
        /\ pc = "request" => unread = <<>> /\ ~script[h + 1].body
    BY <1>2, <2>1 DEF Whole
  <2>3. pc = "request" => h < Len(script)
    BY <1>2 DEF Where
  <2> QED BY <1>6, <1>8, <1>9, <2>2, <2>3
<1>18. AnswersInOrder'
  <2>1. \A n \in 1 .. Len(script) : Arrived(n) => Arrived(n)'
    BY <1>1, ArrivedStays
  <2> QED BY <1>1, <1>5, <1>6, <2>1, AnswersStay
<1> QED BY <1>1, <1>4, <1>15, <1>16, <1>17, <1>18 DEF HInv

(* What starts at the head of the stream. *)
LEMMA HeadOf ==
    ASSUME IInv, NEW B, Laid(stream, script, B), NEW h \in 0 .. Len(script), B[h + 1] = 1
    PROVE  /\ h = Len(script) => Len(stream) = 0
           /\ h < Len(script) =>
                 /\ Len(stream) > 0 /\ B[h + 2] = 1 + Len(RequestText(script[h + 1]))
                 /\ stream[1] = Byte(script[h + 1].method, h + 1)
                 /\ h + 1 \in Ids /\ script[h + 1] \in Requests
<1>1. Len(script) \in Nat /\ Len(stream) \in Nat /\ stream \in Seq(Bytes) /\ script \in Seq(Requests)
  BY StreamIs, LenProperties
<1>2. h = Len(script) => Len(stream) = 0
  <2>1. B[Len(script) + 1] = Len(stream) + 1
    BY DEF Laid
  <2> QED BY <1>1, <2>1
<1>3. ASSUME h < Len(script)
      PROVE  /\ Len(stream) > 0 /\ B[h + 2] = 1 + Len(RequestText(script[h + 1]))
             /\ stream[1] = Byte(script[h + 1].method, h + 1)
             /\ h + 1 \in Ids /\ script[h + 1] \in Requests
  <2>1. PICK n \in 1 .. Len(script) : n = h + 1 /\ n + 1 = h + 2 /\ n + 1 \in 1 .. Len(script) + 1
    <3>1. h + 1 \in 1 .. Len(script) /\ (h + 1) + 1 = h + 2 /\ (h + 1) + 1 \in 1 .. Len(script) + 1
      BY <1>1, <1>3
    <3> QED BY <3>1
  <2>2. script[n] \in Requests /\ n \in Ids
    <3>1. Len(script) <= NumRequests
      BY DEF IInv, TypeOK
    <3> QED BY <1>1, <3>1, ElementOfSeq, NumRequestsAssumption DEF Ids
  <2> DEFINE t == RequestText(script[n])
  <2>3. Len(t) \in Nat \ {0}
    BY <2>2, TextBytesAre
  <2>4. t[1] = script[n].method
    <3>1. PICK line \in Nat : line = Len(LineText(script[n])) /\ line >= 4
                            /\ \A j \in 1 .. line : t[j] = LineText(script[n])[j]
      BY <2>2, TextIs
    <3>2. LineText(script[n])[1] = script[n].method
      BY <2>2, LineTextIs
    <3> QED BY <3>1, <3>2
  <2>5. B[n] = 1 /\ B[n + 1] = B[n] + Len(t) /\ B[n + 1] <= Len(stream) + 1
        /\ \A j \in 1 .. Len(stream) : B[n] <= j /\ j < B[n + 1] => stream[j] = Byte(t[j - B[n] + 1], n)
    BY <2>1 DEF Laid
  <2> HIDE DEF t
  <2>6. B[n + 1] = 1 + Len(t) /\ Len(stream) > 0 /\ 1 \in 1 .. Len(stream) /\ 1 < B[n + 1]
    BY <1>1, <2>3, <2>5
  <2>7. stream[1] = Byte(t[1 - 1 + 1], n)
    BY <2>5, <2>6
  <2> QED BY <2>1, <2>2, <2>4, <2>6, <2>7 DEF t
<1> QED BY <1>2, <1>3

(* A new context at the head of the stream; a piece that is one request is *)
(* the next one.                                                           *)
LEMMA OnMessageH ==
    ASSUME HInv, NEW n \in 1 .. Min2(Len(wire), MaxRead(buf)), OnMessage(SubSeq(wire, 1, n))
    PROVE  HInv'
<1>1. IInv /\ AnswersInOrder /\ IInv'
  BY OnMessageKeeps DEF HInv
<1>2. PICK B, h : Laid(stream, script, B) /\ Where(B, h) /\ Answered(h) /\ Whole(B, h)
  BY DEF HInv
<1>3. stream' = stream
  BY <1>1, StreamStays
<1>4. PICK piece : piece = SubSeq(wire, 1, n)
  OBVIOUS
<1>5. /\ piece \in Seq(Bytes) /\ Len(piece) = n /\ n \in 1 .. Len(wire)
      /\ \A j \in 1 .. n : piece[j] = wire[j]
      /\ wire' \in Seq(Bytes)
      /\ Len(wire') = Len(wire) - n /\ \A j \in 1 .. Len(wire) - n : wire'[j] = wire[n + j]
  BY <1>1, <1>4, PieceIs
<1>6. /\ pc = "poll" /\ pc' = "parse" /\ expect' = "kExpectRequestLine" /\ request' = NewRequest
      /\ UNCHANGED <<script, state, output>>
      /\ unread' = unread \o piece
      /\ whole' = (whole /\ \E id \in DOMAIN script : piece = Text(id, script[id]) /\ ~script[id].body)
  BY <1>4 DEF OnMessage
<1>7. h \in 0 .. Len(script) /\ (Boundary(B, h) \/ Lost(B, h))
  BY <1>2, <1>6 DEF Where
<1>8. Where(B, h)'
  <2>1. Boundary(B, h) => Boundary(B, h)'
    BY <1>6 DEF Boundary
  <2>2. Lost(B, h) => Lost(B, h)'
    BY <1>6 DEF Lost, AtLine
  <2> QED BY <1>6, <1>7, <2>1, <2>2 DEF Where
<1>9. Answered(h)'
  BY <1>2, <1>6 DEF Answered
<1>10. Whole(B, h)'
  <2>1. SUFFICES ASSUME whole', state = "kConnected"
                 PROVE  /\ h < Len(script) /\ ~script[h + 1].body
                        /\ Len(unread') = B[h + 2] - 1 /\ B[h + 1] = 1
    BY <1>6 DEF Whole
  <2>2. whole /\ unread = <<>> /\ B[h + 1] = 1
    BY <1>2, <1>6, <2>1 DEF Whole
  <2>3. PICK id \in DOMAIN script : piece = Text(id, script[id]) /\ ~script[id].body
    BY <1>6, <2>1
  <2>4. /\ Len(unread) = 0 /\ Len(wire) \in Nat /\ Len(stream) = Len(wire) /\ stream[1] = wire[1]
    <3>1. Len(unread) = 0
      BY <2>2
    <3>2. 1 \in 1 .. Len(wire) /\ Len(wire) \in Nat
      BY <1>1, <1>5, StreamIs
    <3>3. Len(unread) + 1 = 1 /\ Len(stream) = Len(unread) + Len(wire)
          /\ \A j \in 1 .. Len(wire) : stream[Len(unread) + j] = wire[j]
      BY <1>1, <3>1, StreamIs
    <3> QED BY <3>1, <3>2, <3>3
  <2>5. h < Len(script)
    <3>1. Len(script) \in Nat /\ Len(wire) > 0
      BY <1>1, <1>5, StreamIs
    <3> QED BY <1>1, <1>2, <1>7, <2>2, <2>4, <3>1, HeadOf
  <2>6. stream[1].id = h + 1 /\ B[h + 2] = 1 + Len(RequestText(script[h + 1]))
        /\ h + 1 \in Ids /\ script[h + 1] \in Requests
    <3>1. /\ stream[1] = Byte(script[h + 1].method, h + 1)
          /\ B[h + 2] = 1 + Len(RequestText(script[h + 1]))
          /\ h + 1 \in Ids /\ script[h + 1] \in Requests
      BY <1>1, <1>2, <1>7, <2>2, <2>5, HeadOf
    <3>2. Byte(script[h + 1].method, h + 1).id = h + 1
      BY DEF Byte
    <3> QED BY <3>1, <3>2
  <2>7. /\ id \in Ids /\ script[id] \in Requests
    <3>1. Len(script) <= NumRequests /\ Len(script) \in Nat /\ script \in Seq(Requests)
      BY <1>1, StreamIs DEF IInv, TypeOK
    <3>2. id \in 1 .. Len(script)
      BY <2>3, <3>1
    <3> QED BY <3>1, <3>2, ElementOfSeq, NumRequestsAssumption DEF Ids
  <2>8. /\ Len(piece) = Len(RequestText(script[id])) /\ Len(piece) \in Nat \ {0} /\ piece[1].id = id
    <3>1. /\ Len(Text(id, script[id])) = Len(RequestText(script[id]))
          /\ Len(RequestText(script[id])) \in Nat \ {0}
          /\ \A i \in 1 .. Len(RequestText(script[id])) :
                Text(id, script[id])[i] = Byte(RequestText(script[id])[i], id)
      BY <2>7, TextBytesAre
    <3>2. 1 \in 1 .. Len(RequestText(script[id])) /\ \A kind : Byte(kind, id).id = id
      BY <3>1 DEF Byte
    <3> QED BY <2>3, <3>1, <3>2
  <2>9. id = h + 1
    <3>1. piece[1] = wire[1]
      BY <1>5
    <3> QED BY <2>4, <2>6, <2>8, <3>1
  <2>10. Len(unread') = Len(piece)
    <3>1. unread \in Seq(Bytes)
      BY <1>1, StreamIs
    <3>2. Len(unread \o piece) = Len(unread) + Len(piece)
      BY <1>5, <3>1, JoinedBytes
    <3> QED BY <1>6, <2>4, <2>8, <3>2
  <2>11. Len(unread') = B[h + 2] - 1
    BY <2>6, <2>8, <2>9, <2>10
  <2> QED BY <2>2, <2>3, <2>5, <2>9, <2>11
<1>11. AnswersInOrder'
  <2>1. ASSUME NEW k \in 1 .. Len(script), Arrived(k) PROVE Arrived(k)'
    <3>1. DOMAIN wire' = 1 .. Len(wire') /\ DOMAIN wire = 1 .. Len(wire) /\ Len(wire) \in Nat
      BY <1>1, <1>5, StreamIs
    <3>2. ASSUME NEW i \in 1 .. Len(wire'), wire'[i].id = k PROVE wire'[i].kind = "body"
      <4>1. n + i \in 1 .. Len(wire) /\ wire'[i] = wire[n + i]
        BY <1>5, <3>1
      <4> QED BY <2>1, <3>1, <3>2, <4>1 DEF Arrived
    <3>3. k <= Len(script')
      BY <1>1, <1>6, StreamIs
    <3> QED BY <3>1, <3>2, <3>3 DEF Arrived
  <2> QED BY <1>1, <1>6, <2>1, AnswersStay
<1> QED BY <1>1, <1>2, <1>3, <1>6, <1>8, <1>9, <1>10, <1>11 DEF HInv

(* Taking line i of request n out of the stream: the next one follows.     *)
LEMMA Advance ==
    ASSUME IInv, NEW B, Laid(stream, script, B),
           NEW n \in 1 .. Len(script), NEW i \in 1 .. NumLines(script[n]), AtLine(B, n, i),
           findCRLF, retrieveLine, wire' = wire, script' = script
    PROVE  \E C : /\ Laid(stream', script, C)
                  /\ i < NumLines(script[n]) => AtLine(C, n, i + 1)
                  /\ i = NumLines(script[n]) => C[n + 1] = IF script[n].body THEN 2 ELSE 1
                  /\ Len(unread') - C[n + 1] = Len(unread) - B[n + 1]
                  /\ C[n + 1] \in Int
<1>1. PICK l \in Nat : l = Len(LineOf(script[n], i))
  BY LineFound
<1>2. Len(Line) = l
  BY <1>1, LineFound
<1>3. PICK d \in Nat : d = l + 2
  OBVIOUS
<1>4. Dropped(stream, d, stream') /\ Len(unread') = Len(unread) - d
  BY <1>2, <1>3, StreamDrops
<1>5. PICK C : Laid(stream', script, C) /\ \A m \in 1 .. Len(script) + 1 : C[m] = B[m] - d
  <2>1. PICK r, s, sent : r = stream' /\ s = stream /\ sent = script
    OBVIOUS
  <2>2. s \in Seq(Bytes) /\ sent \in Seq(Requests) /\ Laid(s, sent, B)
    BY <2>1, StreamIs
  <2>3. Dropped(s, d, r)
    BY <1>4, <2>1
  <2>4. \E C : Laid(r, sent, C) /\ \A m \in 1 .. Len(sent) + 1 : C[m] = B[m] - d
    BY <2>2, <2>3, LaidOnDrop
  <2> QED BY <2>1, <2>4
<1>6. n \in 1 .. Len(script) + 1 /\ n + 1 \in 1 .. Len(script) + 1
  BY StreamIs
<1>7. C[n] = B[n] - d /\ C[n + 1] = B[n + 1] - d
  BY <1>5, <1>6
<1>8. B[n] \in Int /\ B[n + 1] \in Int
  BY <1>6 DEF Laid
<1>9. /\ i < NumLines(script[n]) => B[n] - (l + 2) + StartOf(script[n], i + 1) = 2
      /\ i = NumLines(script[n]) => B[n + 1] - (l + 2) = IF script[n].body THEN 2 ELSE 1
  BY <1>1, StreamIs, HeadIsLine DEF AtLine
<1>10. i < NumLines(script[n]) => AtLine(C, n, i + 1)
  BY <1>3, <1>7, <1>9 DEF AtLine
<1>11. i = NumLines(script[n]) => C[n + 1] = IF script[n].body THEN 2 ELSE 1
  BY <1>3, <1>7, <1>9
<1>12. Len(unread') - C[n + 1] = Len(unread) - B[n + 1] /\ C[n + 1] \in Int
  <2>1. PICK u \in Nat, e \in Int : u = Len(unread) /\ e = B[n + 1]
    BY <1>8, StreamIs
  <2>2. (u - d) - (e - d) = u - e /\ e - d \in Int
    OBVIOUS
  <2> QED BY <1>4, <1>7, <2>1, <2>2
<1> QED BY <1>5, <1>10, <1>11, <1>12

(* Where h requests have been taken out and the parser looks for a request *)
(* line, it can only find that of the next.                                *)
LEMMA RequestLineFound ==
    ASSUME IInv, NEW B, Laid(stream, script, B), NEW h \in 0 .. Len(script),
           Boundary(B, h) \/ Lost(B, h), findCRLF, IsRequestLine(LineTokens)
    PROVE  h < Len(script) /\ AtLine(B, h + 1, 1) /\ B[h + 1] = 1
<1>1. Len(script) \in Nat /\ script \in Seq(Requests)
  BY StreamIs
<1>2. ~Lost(B, h)
  <2>1. SUFFICES ASSUME Lost(B, h) PROVE FALSE
    OBVIOUS
  <2>2. PICK n : n = h + 1
    OBVIOUS
  <2>3. n \in 1 .. Len(script) /\ script[n] \in Requests
    BY <1>1, <2>1, <2>2, ElementOfSeq DEF Lost
  <2>4. PICK i \in 2 .. NumLines(script[n]) : AtLine(B, n, i)
    BY <2>1, <2>2 DEF Lost
  <2>5. i \in 1 .. NumLines(script[n]) /\ i # 1 /\ i \in Nat
    <3>1. NumLines(script[n]) \in Nat
      <4>1. Len(script[n].connection) \in {0, 1, 2}
        BY <2>3, Words
      <4> QED BY <4>1 DEF NumLines
    <3> QED BY <3>1
  <2>6. LineTokens = LineOf(script[n], i)
    BY <2>3, <2>4, <2>5, LineFound
  <2>7. LineTokens \in Texts
    BY LineIs DEF IInv, TypeOK
  <2>8. CASE i < NumLines(script[n])
    <3>1. LineOf(script[n], i) = HeaderText(script[n].connection[i - 1])
      BY <2>5, <2>8 DEF LineOf
    <3>2. i - 1 \in 1 .. Len(script[n].connection)
      <4>1. Len(script[n].connection) \in {0, 1, 2}
        BY <2>3, Words
      <4> QED BY <2>8, <4>1 DEF NumLines
    <3>3. script[n].connection[i - 1] \in Tokens
      BY <2>3, <3>2, Words
    <3>4. Len(LineTokens) >= 1 /\ LineTokens[1] = "Connection"
      BY <2>6, <3>1, <3>3, HeaderTextIs
    <3> QED BY <2>7, <3>4, NoMethodNoRequest
  <2>9. CASE ~(i < NumLines(script[n]))
    <3>1. LineTokens = <<>>
      BY <2>5, <2>6, <2>9 DEF LineOf
    <3> QED BY <2>7, <3>1, NoMethodNoRequest
  <2> QED BY <2>8, <2>9
<1>3. B[h + 1] = 1
  <2>1. SUFFICES ASSUME h > 0, script[h].body, B[h + 1] = 2 PROVE FALSE
    BY <1>2 DEF Boundary
  <2>2. h \in 1 .. Len(script)
    BY <1>1, <2>1
  <2> QED BY <2>1, <2>2, BodyFound
<1>4. h < Len(script)
  <2>1. SUFFICES ASSUME h = Len(script) PROVE FALSE
    BY <1>1
  <2>2. Len(stream) = 0
    BY <1>3, <2>1, HeadOf
  <2>3. Ends = {k \in 1 .. Len(unread) - 1 : unread[k].kind = "cr" /\ unread[k + 1].kind = "lf"}
    BY EndsAre
  <2>4. Len(unread) = 0
    BY <2>2, StreamIs
  <2> QED BY <2>3, <2>4 DEF findCRLF
<1>5. AtLine(B, h + 1, 1)
  BY <1>3 DEF AtLine, StartOf
<1> QED BY <1>3, <1>4, <1>5

(* A line that is taken out answers nobody. *)
LEMMA TakenAnswers ==
    ASSUME HInv, wire' = wire, script' = script, output' = output, state' = state
    PROVE  AnswersInOrder'
<1>1. \A n \in 1 .. Len(script) : Arrived(n) => Arrived(n)'
  BY DEF Arrived
<1> QED BY <1>1, AnswersStay DEF HInv

(* The request line that is taken is that of the next request. *)
LEMMA RequestLineH ==
    ASSUME HInv, RequestLine
    PROVE  HInv'
<1>1. IInv /\ AnswersInOrder /\ IInv'
  BY ParserKeeps DEF HInv
<1>2. PICK B, h : Laid(stream, script, B) /\ Where(B, h) /\ Answered(h) /\ Whole(B, h)
  BY DEF HInv
<1>3. /\ pc = "parse" /\ expect = "kExpectRequestLine" /\ pc' = pc /\ expect' = "kExpectHeaders"
      /\ findCRLF /\ IsRequestLine(LineTokens) /\ retrieveLine
      /\ request' = processRequestLine(request, LineTokens) /\ current' = Line[1].id
      /\ wire' = wire /\ script' = script /\ output' = output /\ state' = state /\ whole' = whole
  BY DEF RequestLine, netVars
<1>4. h \in 0 .. Len(script) /\ request = NewRequest /\ (Boundary(B, h) \/ Lost(B, h))
  BY <1>2, <1>3 DEF Where
<1>5. h < Len(script) /\ AtLine(B, h + 1, 1) /\ B[h + 1] = 1
  BY <1>1, <1>2, <1>3, <1>4, RequestLineFound
<1>6. PICK n \in 1 .. Len(script) : n = h + 1 /\ n + 1 = h + 2 /\ script[n] \in Requests
  <2>1. h + 1 \in 1 .. Len(script) /\ (h + 1) + 1 = h + 2
    BY <1>1, <1>4, <1>5, StreamIs
  <2>2. script[h + 1] \in Requests
    BY <1>1, <2>1, StreamIs, ElementOfSeq
  <2> QED BY <2>1, <2>2
<1>7. NumLines(script[n]) \in Nat /\ 1 \in 1 .. NumLines(script[n]) /\ 1 < NumLines(script[n])
  <2>1. Len(script[n].connection) \in {0, 1, 2}
    BY <1>6, Words
  <2> QED BY <2>1 DEF NumLines
<1>8. PICK C : /\ Laid(stream', script, C) /\ AtLine(C, n, 2)
               /\ Len(unread') - C[n + 1] = Len(unread) - B[n + 1] /\ C[n + 1] \in Int
  <2>1. AtLine(B, n, 1) /\ 1 + 1 = 2
    BY <1>5, <1>6
  <2> QED BY <1>1, <1>2, <1>3, <1>7, <2>1, Advance
<1>9. LineTokens = LineText(script[n]) /\ Line[1].id = n
  <2>1. LineOf(script[n], 1) = LineText(script[n])
    BY DEF LineOf
  <2>2. Len(LineText(script[n])) > 0
    <3>1. Len(LineText(script[n])) \in Nat /\ Len(LineText(script[n])) >= 4
      BY <1>6, TextIs
    <3> QED BY <3>1
  <2>3. AtLine(B, n, 1)
    BY <1>5, <1>6
  <2> QED BY <1>1, <1>2, <1>3, <1>7, <2>1, <2>2, <2>3, LineFound
<1>10. Parsed(n, 2)'
  <2> DEFINE p == processRequestLine(NewRequest, LineText(script[n]))
  <2>1. /\ script[n].method \in DOMAIN Methods /\ p.method = Methods[script[n].method]
        /\ p.version = VersionOf(script[n].version)
        /\ p.path = <<script[n].path>> /\ p.query = script[n].query
        /\ getHeader(p, <<"Connection">>) = <<>>
    BY <1>3, <1>6, <1>9, RequestLineIs
  <2>2. request' = p /\ current' = n
    BY <1>3, <1>4, <1>9
  <2> HIDE DEF p
  <2> QED BY <1>3, <2>1, <2>2 DEF Parsed
<1>11. Where(C, h)'
  <2>1. AtLine(C, n, 2)' /\ 2 \in 2 .. NumLines(script[n])
    BY <1>3, <1>7, <1>8 DEF AtLine
  <2>2. \E i \in 2 .. NumLines(script'[h + 1]) : AtLine(C, h + 1, i)' /\ Parsed(h + 1, i)'
    BY <1>3, <1>6, <1>10, <2>1
  <2> QED BY <1>3, <1>4, <1>5, <2>2 DEF Where
<1>12. Answered(h)'
  BY <1>2, <1>3 DEF Answered
<1>13. Whole(C, h)'
  <2>1. SUFFICES ASSUME whole, state = "kConnected"
                 PROVE  /\ h < Len(script) /\ ~script[h + 1].body
                        /\ Len(unread') = C[h + 2] - 1
    BY <1>3 DEF Whole
  <2>2. ~script[h + 1].body /\ Len(unread) = B[h + 2] - 1
    BY <1>2, <1>3, <2>1 DEF Whole
  <2>3. PICK e \in Int, c \in Int, u \in Nat, v \in Nat :
          e = B[h + 2] /\ c = C[h + 2] /\ u = Len(unread) /\ v = Len(unread')
    <3>1. B[n + 1] \in Int
      <4>1. n + 1 \in 1 .. Len(script) + 1
        BY <1>1, StreamIs
      <4> QED BY <1>2, <4>1 DEF Laid
    <3>2. Len(unread) \in Nat /\ Len(unread') \in Nat
      BY <1>1, LenProperties DEF IInv, TypeOK
    <3> QED BY <1>6, <1>8, <3>1, <3>2
  <2>4. v - c = u - e /\ u = e - 1
    BY <1>6, <1>8, <2>2, <2>3
  <2>5. v = c - 1
    BY <2>4
  <2> QED BY <1>5, <2>2, <2>3, <2>5
<1>14. AnswersInOrder'
  BY <1>3, TakenAnswers
<1> QED BY <1>1, <1>3, <1>8, <1>11, <1>12, <1>13, <1>14 DEF HInv

(* The line that the parser finds when it looks for a header. *)
LEMMA HeaderFound ==
    ASSUME IInv, NEW B, Laid(stream, script, B), NEW n \in 1 .. Len(script),
           NEW i \in 2 .. NumLines(script[n]), AtLine(B, n, i), findCRLF
    PROVE  /\ script[n] \in Requests /\ i \in 1 .. NumLines(script[n]) /\ i \in Nat
           /\ Has(LineTokens, "colon") =>
                 /\ i < NumLines(script[n]) /\ i - 1 \in 1 .. Len(script[n].connection)
                 /\ script[n].connection[i - 1] \in Tokens \ {"space"}
                 /\ LineTokens = HeaderText(script[n].connection[i - 1])
           /\ ~Has(LineTokens, "colon") => i = NumLines(script[n])
           /\ NumLines(script[n]) \in Nat
<1>1. script[n] \in Requests
  BY StreamIs, ElementOfSeq
<1>2. PICK c \in {0, 1, 2} : c = Len(script[n].connection) /\ NumLines(script[n]) = c + 2
  BY <1>1, Words DEF NumLines
<1>3. i \in 1 .. NumLines(script[n]) /\ i \in Nat /\ i # 1
  BY <1>2
<1>4. LineTokens = LineOf(script[n], i)
  BY <1>3, LineFound
<1>5. CASE i < NumLines(script[n])
  <2>1. i - 1 \in 1 .. Len(script[n].connection)
    BY <1>2, <1>3, <1>5
  <2>2. script[n].connection[i - 1] \in Tokens \ {"space"}
    BY <1>1, <2>1, Words
  <2>3. LineTokens = HeaderText(script[n].connection[i - 1])
    BY <1>3, <1>4, <1>5 DEF LineOf
  <2>4. Has(LineTokens, "colon")
    BY <2>2, <2>3, HeaderIs
  <2> QED BY <1>1, <1>2, <1>3, <1>5, <2>1, <2>2, <2>3, <2>4
<1>6. CASE i = NumLines(script[n])
  <2>1. LineTokens = <<>>
    BY <1>2, <1>3, <1>4, <1>6 DEF LineOf
  <2>2. ~Has(LineTokens, "colon")
    BY <2>1, EmptyIsLast
  <2> QED BY <1>1, <1>2, <1>3, <1>6, <2>2
<1> QED BY <1>2, <1>3, <1>5, <1>6

(* The header that is taken is the next one of that request. *)
LEMMA HeaderH ==
    ASSUME HInv, Header
    PROVE  HInv'
<1>1. IInv /\ AnswersInOrder /\ IInv'
  BY ParserKeeps DEF HInv
<1>2. PICK B, h : Laid(stream, script, B) /\ Where(B, h) /\ Answered(h) /\ Whole(B, h)
  BY DEF HInv
<1>3. /\ pc = "parse" /\ expect = "kExpectHeaders" /\ pc' = pc /\ expect' = expect
      /\ findCRLF /\ Has(LineTokens, "colon") /\ retrieveLine
      /\ request' = addHeader(request, LineTokens) /\ current' = current
      /\ wire' = wire /\ script' = script /\ output' = output /\ state' = state /\ whole' = whole
  BY DEF Header, netVars
<1>4. h \in 0 .. Len(script) /\ h < Len(script)
  BY <1>2, <1>3 DEF Where
<1>5. PICK n \in 1 .. Len(script) : n = h + 1 /\ n + 1 = h + 2
  <2>1. h + 1 \in 1 .. Len(script) /\ (h + 1) + 1 = h + 2
    BY <1>1, <1>4, StreamIs
  <2> QED BY <2>1
<1>6. PICK i \in 2 .. NumLines(script[n]) : AtLine(B, n, i) /\ Parsed(n, i)
  BY <1>2, <1>3, <1>5 DEF Where
<1>7. /\ i \in 1 .. NumLines(script[n]) /\ i \in Nat /\ i < NumLines(script[n])
      /\ script[n].connection[i - 1] \in Tokens \ {"space"}
      /\ LineTokens = HeaderText(script[n].connection[i - 1]) /\ NumLines(script[n]) \in Nat
  BY <1>1, <1>2, <1>3, <1>6, HeaderFound
<1>8. PICK C : /\ Laid(stream', script, C) /\ AtLine(C, n, i + 1)
               /\ Len(unread') - C[n + 1] = Len(unread) - B[n + 1] /\ C[n + 1] \in Int
  BY <1>1, <1>2, <1>3, <1>6, <1>7, Advance
<1>9. Parsed(n, i + 1)'
  <2> DEFINE value == script[n].connection[i - 1]  p == addHeader(request, HeaderText(value))
  <2>1. /\ getHeader(p, <<"Connection">>) = <<value>>
        /\ p.method = request.method /\ p.version = request.version
        /\ p.path = request.path /\ p.query = request.query
    BY <1>7, HeaderIs
  <2>2. request' = p /\ current' = current
    BY <1>3, <1>7
  <2>3. i + 1 # 2 /\ (i + 1) - 2 = i - 1
    BY <1>6, <1>7
  <2>4. <<value>> = IF i + 1 = 2 THEN <<>> ELSE <<script[n].connection[(i + 1) - 2]>>
    BY <2>3
  <2> HIDE DEF p, value
  <2> QED BY <1>3, <1>6, <2>1, <2>2, <2>4 DEF Parsed
<1>10. Where(C, h)'
  <2>1. AtLine(C, n, i + 1)' /\ i + 1 \in 2 .. NumLines(script[n])
    BY <1>3, <1>6, <1>7, <1>8 DEF AtLine
  <2>2. \E k \in 2 .. NumLines(script'[h + 1]) : AtLine(C, h + 1, k)' /\ Parsed(h + 1, k)'
    BY <1>3, <1>5, <1>9, <2>1
  <2> QED BY <1>3, <1>4, <2>2 DEF Where
<1>11. Answered(h)'
  BY <1>2, <1>3 DEF Answered
<1>12. Whole(C, h)'
  <2>1. SUFFICES ASSUME whole, state = "kConnected"
                 PROVE  ~script[h + 1].body /\ Len(unread') = C[h + 2] - 1
    BY <1>3, <1>4 DEF Whole
  <2>2. ~script[h + 1].body /\ Len(unread) = B[h + 2] - 1
    BY <1>2, <1>3, <2>1 DEF Whole
  <2>3. PICK e \in Int, c \in Int, u \in Nat, v \in Nat :
          e = B[h + 2] /\ c = C[h + 2] /\ u = Len(unread) /\ v = Len(unread')
    <3>1. B[n + 1] \in Int
      <4>1. n + 1 \in 1 .. Len(script) + 1
        BY <1>1, StreamIs
      <4> QED BY <1>2, <4>1 DEF Laid
    <3>2. Len(unread) \in Nat /\ Len(unread') \in Nat
      BY <1>1, LenProperties DEF IInv, TypeOK
    <3> QED BY <1>5, <1>8, <3>1, <3>2
  <2>4. v - c = u - e /\ u = e - 1
    BY <1>5, <1>8, <2>2, <2>3
  <2>5. v = c - 1
    BY <2>4
  <2> QED BY <2>2, <2>3, <2>5
<1>13. AnswersInOrder'
  BY <1>3, TakenAnswers
<1> QED BY <1>1, <1>3, <1>8, <1>10, <1>11, <1>12, <1>13 DEF HInv

(* The empty line that is taken is the last one of that request. *)
LEMMA LastLineH ==
    ASSUME HInv, LastLine
    PROVE  HInv'
<1>1. IInv /\ AnswersInOrder /\ IInv'
  BY ParserKeeps DEF HInv
<1>2. PICK B, h : Laid(stream, script, B) /\ Where(B, h) /\ Answered(h) /\ Whole(B, h)
  BY DEF HInv
<1>3. /\ pc = "parse" /\ expect = "kExpectHeaders" /\ pc' = "request" /\ expect' = "kGotAll"
      /\ findCRLF /\ ~Has(LineTokens, "colon") /\ retrieveLine
      /\ request' = request /\ current' = current
      /\ wire' = wire /\ script' = script /\ output' = output /\ state' = state /\ whole' = whole
  BY DEF LastLine, netVars
<1>4. h \in 0 .. Len(script) /\ h < Len(script)
  BY <1>2, <1>3 DEF Where
<1>5. PICK n \in 1 .. Len(script) : n = h + 1 /\ n + 1 = h + 2
  <2>1. h + 1 \in 1 .. Len(script) /\ (h + 1) + 1 = h + 2
    BY <1>1, <1>4, StreamIs
  <2> QED BY <2>1
<1>6. PICK i \in 2 .. NumLines(script[n]) : AtLine(B, n, i) /\ Parsed(n, i)
  BY <1>2, <1>3, <1>5 DEF Where
<1>7. i \in 1 .. NumLines(script[n]) /\ i = NumLines(script[n])
  BY <1>1, <1>2, <1>3, <1>6, HeaderFound
<1>8. PICK C : /\ Laid(stream', script, C) /\ C[n + 1] = IF script[n].body THEN 2 ELSE 1
               /\ Len(unread') - C[n + 1] = Len(unread) - B[n + 1]
  BY <1>1, <1>2, <1>3, <1>6, <1>7, Advance
<1>9. Parsed(n, NumLines(script[n]))'
  <2>1. PICK k : k = NumLines(script[n])
    OBVIOUS
  <2>2. Parsed(n, k)'
    BY <1>3, <1>6, <1>7, <2>1 DEF Parsed
  <2>3. NumLines(script[n])' = k
    BY <1>3, <2>1 DEF NumLines
  <2> QED BY <2>2, <2>3
<1>10. Where(C, h)'
  <2>1. C[h + 2] = IF script'[h + 1].body THEN 2 ELSE 1
    BY <1>3, <1>5, <1>8
  <2>2. Parsed(h + 1, NumLines(script[h + 1]))'
    BY <1>5, <1>9
  <2> QED BY <1>3, <1>4, <2>1, <2>2 DEF Where
<1>11. Answered(h)'
  BY <1>2, <1>3 DEF Answered
<1>12. Whole(C, h)'
  <2>1. SUFFICES ASSUME whole, state = "kConnected"
                 PROVE  unread' = <<>> /\ ~script[h + 1].body
    BY <1>3 DEF Whole
  <2>2. ~script[n].body /\ Len(unread) = B[n + 1] - 1
    BY <1>2, <1>3, <1>5, <2>1 DEF Whole
  <2>3. PICK e \in Int, u \in Nat, v \in Nat :
          e = B[n + 1] /\ u = Len(unread) /\ v = Len(unread')
    <3>1. B[n + 1] \in Int
      <4>1. n + 1 \in 1 .. Len(script) + 1
        BY <1>1, StreamIs
      <4> QED BY <1>2, <4>1 DEF Laid
    <3>2. Len(unread) \in Nat /\ Len(unread') \in Nat
      BY <1>1, LenProperties DEF IInv, TypeOK
    <3> QED BY <3>1, <3>2
  <2>4. v - 1 = u - e /\ u = e - 1
    BY <1>8, <2>2, <2>3
  <2>5. v = 0
    BY <2>4
  <2>6. unread' \in Seq(Bytes)
    BY <1>1 DEF IInv, TypeOK
  <2> QED BY <1>5, <2>2, <2>3, <2>5, <2>6, EmptySeq
<1>13. AnswersInOrder'
  BY <1>3, TakenAnswers
<1> QED BY <1>1, <1>3, <1>8, <1>10, <1>11, <1>12, <1>13 DEF HInv

(* Without a whole line nothing is taken, and the context is lost. *)
LEMMA NoLineH ==
    ASSUME HInv, NoLine
    PROVE  HInv'
<1>1. IInv /\ AnswersInOrder /\ IInv'
  BY AnswersKeep DEF HInv
<1>2. PICK B, h : Laid(stream, script, B) /\ Where(B, h) /\ Answered(h) /\ Whole(B, h)
  BY DEF HInv
<1>3. /\ pc = "parse" /\ ~findCRLF /\ pc' = "poll"
      /\ UNCHANGED <<script, wire, whole, buf, expect, request, current, state, output, unread>>
  BY DEF NoLine, netVars, contextVars
<1>4. stream' = stream
  BY <1>3 DEF stream
<1>5. h \in 0 .. Len(script) /\ expect # "kGotAll"
  BY <1>2, <1>3 DEF Where
<1>6. expect \in {"kExpectRequestLine", "kExpectHeaders"}
  BY <1>1, <1>5 DEF IInv, TypeOK
<1>7. Boundary(B, h) \/ Lost(B, h)
  <2>1. CASE expect = "kExpectRequestLine"
    BY <1>2, <1>3, <2>1 DEF Where
  <2>2. CASE expect = "kExpectHeaders"
    BY <1>2, <1>3, <2>2 DEF Where, Lost
  <2> QED BY <1>6, <2>1, <2>2
<1>8. Where(B, h)'
  <2>1. Boundary(B, h) => Boundary(B, h)'
    BY <1>3 DEF Boundary
  <2>2. Lost(B, h) => Lost(B, h)'
    BY <1>3 DEF Lost, AtLine
  <2> QED BY <1>3, <1>5, <1>7, <2>1, <2>2 DEF Where
<1>9. Answered(h)'
  BY <1>2, <1>3 DEF Answered
<1>10. Whole(B, h)'
  <2>1. SUFFICES ASSUME whole, state = "kConnected" PROVE FALSE
    BY <1>3 DEF Whole
  <2>2. /\ h < Len(script) /\ Len(unread) = B[h + 2] - 1
        /\ expect = "kExpectRequestLine" => B[h + 1] = 1
    BY <1>2, <1>3, <2>1 DEF Whole
  <2>3. PICK n \in 1 .. Len(script) : n = h + 1 /\ n + 1 = h + 2
    <3>1. h + 1 \in 1 .. Len(script) /\ (h + 1) + 1 = h + 2
      BY <1>1, <1>5, <2>2, StreamIs
    <3> QED BY <3>1
  <2>4. PICK i \in 1 .. NumLines(script[n]) : AtLine(B, n, i)
    <3>0. NumLines(script[n]) \in Nat /\ 2 <= NumLines(script[n])
      <4>1. Len(script[n].connection) \in {0, 1, 2}
        BY <1>1, StreamIs, ElementOfSeq, Words
      <4> QED BY <4>1 DEF NumLines
    <3>1. CASE expect = "kExpectRequestLine"
      <4>1. AtLine(B, n, 1)
        BY <2>2, <2>3, <3>1 DEF AtLine, StartOf
      <4> QED BY <3>0, <4>1
    <3>2. CASE expect = "kExpectHeaders"
      <4>1. \E i \in 2 .. NumLines(script[n]) : AtLine(B, n, i)
        BY <1>2, <1>3, <2>3, <3>2 DEF Where
      <4> QED BY <3>0, <4>1
    <3> QED BY <1>6, <3>1, <3>2
  <2>5. PICK l \in Nat : /\ l = Len(LineOf(script[n], i)) /\ l + 2 < B[n + 1] /\ B[n + 1] \in Int
                         /\ l + 2 <= Len(unread) => findCRLF
    BY <1>1, <1>2, <2>4, LineFound
  <2>6. l + 2 <= Len(unread)
    BY <2>2, <2>3, <2>5
  <2> QED BY <1>3, <2>5, <2>6
<1>11. AnswersInOrder'
  BY <1>3, TakenAnswers
<1> QED BY <1>1, <1>2, <1>3, <1>4, <1>8, <1>9, <1>10, <1>11 DEF HInv

(* The peer closes: no more answers are taken. *)
LEMMA PeerClosesH ==
    ASSUME HInv, PeerCloses
    PROVE  HInv'
<1>1. IInv /\ AnswersInOrder /\ IInv'
  BY AnswersKeep DEF HInv
<1>2. PICK B, h : Laid(stream, script, B) /\ Where(B, h) /\ Answered(h) /\ Whole(B, h)
  BY DEF HInv
<1>3. /\ pc = "poll" /\ state' = "kDisconnected"
      /\ UNCHANGED <<script, wire, whole, pc, expect, request, current, output, unread>>
  BY DEF PeerCloses, netVars, contextVars
<1>4. stream' = stream
  BY <1>3 DEF stream
<1>5. h \in 0 .. Len(script) /\ (Boundary(B, h) \/ Lost(B, h))
  BY <1>2, <1>3 DEF Where
<1>6. Where(B, h)'
  <2>1. Boundary(B, h) => Boundary(B, h)'
    BY <1>3 DEF Boundary
  <2>2. Lost(B, h) => Lost(B, h)'
    BY <1>3 DEF Lost, AtLine
  <2> QED BY <1>3, <1>5, <2>1, <2>2 DEF Where
<1>7. Answered(h)' /\ Whole(B, h)'
  BY <1>3 DEF Answered, Whole
<1>8. AnswersInOrder'
  <2>1. \A n \in 1 .. Len(script) : Arrived(n) => Arrived(n)'
    BY <1>3 DEF Arrived
  <2> QED BY <1>1, <1>3, <2>1, AnswersStay
<1> QED BY <1>1, <1>2, <1>3, <1>4, <1>6, <1>7, <1>8 DEF HInv

(* One more answer, which nothing follows if its end is not told. *)
LEMMA AnswerAdded ==
    ASSUME IInv, AnswersInOrder, state = "kConnected", NEW answer, output' = Append(output, answer),
           \/ answer.id = BadRequest
           \/ /\ answer.id = Len(output) + 1 /\ Arrived(Len(output) + 1)
              /\ answer.asked = WantsClose(script[Len(output) + 1]),
           answer.length = answer.body \/ state' # "kConnected",
           script' = script, wire' = wire, output' \in Seq([id : Ids \cup {BadRequest}, asked : BOOLEAN,
                                            close : BOOLEAN, body : Nat, length : Nat \cup {NoLength}])
    PROVE  AnswersInOrder'
<1>1. output \in Seq([id : Ids \cup {BadRequest}, asked : BOOLEAN, close : BOOLEAN,
                      body : Nat, length : Nat \cup {NoLength}])
  BY DEF IInv, TypeOK
<1>2. PICK m \in Nat : m = Len(output) /\ DOMAIN output = 1 .. m
  BY <1>1
<1>3. DOMAIN output' = 1 .. m + 1 /\ Len(output') = m + 1 /\ output'[m + 1] = answer
      /\ \A i \in 1 .. m : output'[i] = output[i]
  BY <1>1, <1>2
<1>4. ASSUME NEW i \in 1 .. m + 1
      PROVE  /\ \/ output'[i].id = BadRequest
                \/ output'[i].id = i /\ Arrived(i) /\ output'[i].asked = WantsClose(script[i])
             /\ \/ output'[i].length = output'[i].body
                \/ i = Len(output') /\ state' # "kConnected"
  <2>1. CASE i \in 1 .. m
    BY <1>2, <1>3, <2>1 DEF AnswersInOrder
  <2>2. CASE i = m + 1
    <3>1. /\ \/ answer.id = BadRequest
             \/ answer.id = m + 1 /\ Arrived(m + 1) /\ answer.asked = WantsClose(script[m + 1])
          /\ answer.length = answer.body \/ state' # "kConnected"
      BY <1>2
    <3>2. output'[i] = answer /\ i = Len(output')
      BY <1>3, <2>2
    <3> QED BY <2>2, <3>1, <3>2
  <2>3. i \in 1 .. m \/ i = m + 1
    BY <1>2
  <2> QED BY <2>1, <2>2, <2>3
<1>5. \A i : Arrived(i)' <=> Arrived(i)
  BY DEF Arrived
<1>6. \A i : script'[i] = script[i]
  OBVIOUS
<1>7. ASSUME NEW i \in DOMAIN output'
      PROVE  /\ \/ output'[i].id = BadRequest
                \/ output'[i].id = i /\ Arrived(i)' /\ output'[i].asked = WantsClose(script'[i])
             /\ \/ output'[i].length = output'[i].body
                \/ i = Len(output') /\ state' # "kConnected"
  BY <1>3, <1>4, <1>5, <1>6
<1> QED BY <1>7 DEF AnswersInOrder

(* A 400 closes, so that nothing follows it. *)
LEMMA BadRequestLineH ==
    ASSUME HInv, BadRequestLine
    PROVE  HInv'
<1>1. IInv /\ AnswersInOrder /\ IInv'
  BY AnswersKeep DEF HInv
<1>2. PICK B, h : Laid(stream, script, B) /\ Where(B, h) /\ Answered(h) /\ Whole(B, h)
  BY DEF HInv
<1>3. /\ pc = "parse" /\ expect = "kExpectRequestLine" /\ pc' = "poll"
      /\ send(Answer(BadRequest, FALSE, TRUE, 0)) /\ shutdown
      /\ UNCHANGED <<script, wire, whole, buf, expect, request, current, unread>>
  BY DEF BadRequestLine, netVars, contextVars
<1>4. stream' = stream
  BY <1>3 DEF stream
<1>5. h \in 0 .. Len(script) /\ (Boundary(B, h) \/ Lost(B, h))
  BY <1>2, <1>3 DEF Where
<1>6. Where(B, h)'
  <2>1. Boundary(B, h) => Boundary(B, h)'
    BY <1>3 DEF Boundary
  <2>2. Lost(B, h) => Lost(B, h)'
    BY <1>3 DEF Lost, AtLine
  <2> QED BY <1>3, <1>5, <2>1, <2>2 DEF Where
<1>7. state' # "kConnected"
  BY <1>3 DEF shutdown
<1>8. Answered(h)' /\ Whole(B, h)'
  BY <1>7 DEF Answered, Whole
<1>9. AnswersInOrder'
  <2>1. CASE state = "kConnected"
    <3> DEFINE answer == Answer(BadRequest, FALSE, TRUE, 0)
    <3>1. output' = Append(output, answer) /\ answer.id = BadRequest
      BY <1>3, <2>1 DEF send, Answer
    <3>2. output' \in Seq([id : Ids \cup {BadRequest}, asked : BOOLEAN,
                           close : BOOLEAN, body : Nat, length : Nat \cup {NoLength}])
      BY <1>1 DEF IInv, TypeOK
    <3> HIDE DEF answer
    <3> QED BY <1>1, <1>3, <1>7, <2>1, <3>1, <3>2, AnswerAdded
  <2>2. CASE state # "kConnected"
    <3>1. output' = output
      BY <1>3, <2>2 DEF send
    <3>2. \A n \in 1 .. Len(script) : Arrived(n) => Arrived(n)'
      BY <1>3 DEF Arrived
    <3> QED BY <1>1, <1>3, <1>7, <3>1, <3>2, AnswersStay
  <2> QED BY <2>1, <2>2
<1> QED BY <1>1, <1>2, <1>3, <1>4, <1>6, <1>8, <1>9 DEF HInv

(* What a client means by its Connection headers, and what the server      *)
(* makes of them.                                                          *)
LEMMA LastHeaderIs ==
    ASSUME NEW req \in Requests, NEW n \in 1 .. Len(script), script[n] = req, Parsed(n, NumLines(req))
    PROVE  /\ getHeader(request, <<"Connection">>) =
                 IF req.connection = <<>> THEN <<>> ELSE <<LastOf(req.connection)>>
           /\ asksToClose(request) = WantsClose(req)
<1> DEFINE said == getHeader(request, <<"Connection">>)
<1>1. PICK c \in {0, 1, 2} : c = Len(req.connection) /\ NumLines(req) = c + 2
  BY Words DEF NumLines
<1>2. req.connection = <<>> <=> c = 0
  BY <1>1, Words, EmptySeq DEF Texts
<1>3. said = IF c = 0 THEN <<>> ELSE <<req.connection[c]>>
  <2>1. said = IF NumLines(req) = 2 THEN <<>> ELSE <<req.connection[NumLines(req) - 2]>>
    BY DEF Parsed
  <2>2. (c + 2 = 2 <=> c = 0) /\ c + 2 - 2 = c
    BY <1>1
  <2> HIDE DEF said
  <2> QED BY <1>1, <2>1, <2>2
<1>4. LastOf(req.connection) = IF c = 0 THEN "" ELSE req.connection[c]
  BY <1>1, <1>2 DEF LastOf
<1>5. said = IF req.connection = <<>> THEN <<>> ELSE <<LastOf(req.connection)>>
  <2> HIDE DEF said
  <2> QED BY <1>2, <1>3, <1>4
<1>6. /\ said = <<"close">> <=> LastOf(req.connection) = "close"
      /\ said = <<"KeepAlive">> <=> LastOf(req.connection) = "KeepAlive"
  <2>1. \A x, y : <<x>> = <<y>> <=> x = y
    OBVIOUS
  <2>2. \A x : <<>> # <<x>>
    OBVIOUS
  <2>3. "" # "close" /\ "" # "KeepAlive"
    OBVIOUS
  <2> HIDE DEF said
  <2> QED BY <1>3, <1>4, <2>1, <2>2, <2>3
<1>7. request.version = "kHttp10" <=> req.version = <<"HTTP1", "0">>
  <2>1. request.version = VersionOf(req.version)
    BY DEF Parsed
  <2>2. <<"HTTP1", "0">> # <<"HTTP1", "1">>
    OBVIOUS
  <2> QED BY <2>1, <2>2 DEF VersionOf
<1> HIDE DEF said
<1>8. asksToClose(request) <=> (said = <<"close">> \/ (request.version = "kHttp10" /\ said # <<"KeepAlive">>))
  BY DEF asksToClose, said
<1>9. WantsClose(req) <=> (LastOf(req.connection) = "close"
                          \/ (req.version = <<"HTTP1", "0">> /\ LastOf(req.connection) # "KeepAlive"))
  BY DEF WantsClose
<1>10. asksToClose(request) \in BOOLEAN /\ WantsClose(req) \in BOOLEAN
  BY DEF asksToClose, WantsClose
<1>11. asksToClose(request) = WantsClose(req)
  BY <1>6, <1>7, <1>8, <1>9, <1>10
<1> QED BY <1>5, <1>11 DEF said

(* Of a request whose last line was taken out only a body is on its way.   *)
LEMMA TakenArrived ==
    ASSUME IInv, NEW B, Laid(stream, script, B), NEW n \in 1 .. Len(script),
           B[n + 1] = IF script[n].body THEN 2 ELSE 1
    PROVE  Arrived(n)
<1>1. /\ Len(script) \in Nat /\ Len(unread) \in Nat /\ Len(wire) \in Nat /\ DOMAIN wire = 1 .. Len(wire)
      /\ Len(stream) = Len(unread) + Len(wire)
      /\ \A j \in 1 .. Len(wire) : stream[Len(unread) + j] = wire[j]
      /\ stream \in Seq(Bytes) /\ script \in Seq(Requests)
  BY StreamIs, LenProperties
<1>2. ASSUME NEW i \in 1 .. Len(wire), wire[i].id = n PROVE wire[i].kind = "body"
  <2>1. PICK p \in 1 .. Len(stream) : p = Len(unread) + i /\ stream[p] = wire[i]
    <3>1. Len(unread) + i \in 1 .. Len(stream)
      BY <1>1
    <3> QED BY <1>1, <3>1
  <2>2. PICK m \in 1 .. Len(script) : B[m] <= p /\ p < B[m + 1]
    BY DEF Laid
  <2>3. stream[p].id = m
    <3>1. stream[p] = Byte(RequestText(script[m])[p - B[m] + 1], m)
      BY <2>2 DEF Laid
    <3>2. \A kind : Byte(kind, m).id = m
      BY DEF Byte
    <3> QED BY <3>1, <3>2
  <2>4. m = n
    BY <1>2, <2>1, <2>3
  <2>5. B[n] <= p /\ B[n + 1] = p + 1 /\ script[n].body
    <3>1. p < (IF script[n].body THEN 2 ELSE 1) /\ p \in Nat /\ p >= 1
      BY <1>1, <2>2, <2>4
    <3>2. script[n].body /\ p = 1
      BY <3>1
    <3> QED BY <2>2, <2>4, <3>2
  <2>6. stream[p] = Byte("body", n)
    <3>1. /\ stream \in Seq(Bytes) /\ script \in Seq(Requests) /\ p \in 1 .. Len(stream)
          /\ script[n].body /\ B[n] <= p /\ B[n + 1] = p + 1
      BY <1>1, <2>1, <2>5
    <3> QED BY <3>1, HeadIsBody
  <2> QED BY <2>1, <2>6 DEF Byte
<1> QED BY <1>1, <1>2 DEF Arrived

(* An answer is to the request that was taken, all of which had arrived. *)
LEMMA OnRequestH ==
    ASSUME HInv, NEW close \in BOOLEAN, NEW body \in 0 .. 1, OnRequest(close, body)
    PROVE  HInv'
<1>1. IInv /\ AnswersInOrder /\ IInv'
  BY AnswersKeep DEF HInv
<1>2. PICK B, h : Laid(stream, script, B) /\ Where(B, h) /\ Answered(h) /\ Whole(B, h)
  BY DEF HInv
<1>3. /\ pc = "request" /\ pc' = "poll"
      /\ send(Answer(current, asksToClose(request), close, body))
      /\ IF close THEN shutdown ELSE state' = state
      /\ UNCHANGED <<script, wire, whole, buf, expect, request, current, unread>>
  BY DEF OnRequest, netVars, contextVars
<1>4. stream' = stream
  BY <1>3 DEF stream
<1>5. /\ h \in 0 .. Len(script) /\ h < Len(script)
      /\ B[h + 2] = IF script[h + 1].body THEN 2 ELSE 1
      /\ Parsed(h + 1, NumLines(script[h + 1]))
  BY <1>2, <1>3 DEF Where
<1>6. PICK n \in 1 .. Len(script) : n = h + 1 /\ n + 1 = h + 2 /\ n > 0 /\ n \in 0 .. Len(script)
                                  /\ script[n] \in Requests
  <2>1. /\ h + 1 \in 1 .. Len(script) /\ (h + 1) + 1 = h + 2 /\ h + 1 > 0 /\ h + 1 \in 0 .. Len(script)
    BY <1>1, <1>5, StreamIs
  <2>2. script[h + 1] \in Requests
    BY <1>1, <2>1, StreamIs, ElementOfSeq
  <2> QED BY <2>1, <2>2
<1>7. B[n + 1] = IF script[n].body THEN 2 ELSE 1
  BY <1>5, <1>6
<1>8. Where(B, n)'
  <2>1. Boundary(B, n)'
    BY <1>3, <1>6, <1>7 DEF Boundary
  <2> QED BY <1>3, <1>6, <2>1 DEF Where
<1>9. Whole(B, n)'
  <2>1. SUFFICES ASSUME whole, state' = "kConnected" PROVE unread = <<>> /\ B[n + 1] = 1
    BY <1>3 DEF Whole
  <2>2. state = "kConnected"
    BY <1>3, <2>1 DEF shutdown
  <2>3. unread = <<>> /\ ~script[n].body
    BY <1>2, <1>3, <1>6, <2>1, <2>2 DEF Whole
  <2> QED BY <1>7, <2>3
<1> DEFINE Answers == [id : Ids \cup {BadRequest}, asked : BOOLEAN, close : BOOLEAN,
                       body : Nat, length : Nat \cup {NoLength}]
<1>10. output \in Seq(Answers) /\ output' \in Seq(Answers)
  BY <1>1 DEF IInv, TypeOK
<1>11. PICK answer : answer = Answer(current, asksToClose(request), close, body)
  OBVIOUS
<1>12. /\ answer.id = n /\ answer.asked = WantsClose(script[n])
       /\ close \/ answer.length = answer.body
  <2>1. current = n /\ asksToClose(request) = WantsClose(script[n])
    <3>1. Parsed(n, NumLines(script[n]))
      BY <1>5, <1>6
    <3>2. current = n
      BY <3>1 DEF Parsed
    <3> QED BY <1>6, <3>1, <3>2, LastHeaderIs
  <2>2. answer = [id |-> n, asked |-> WantsClose(script[n]), close |-> close, body |-> body,
                  length |-> IF close THEN NoLength ELSE body]
    BY <1>11, <2>1 DEF Answer
  <2> QED BY <2>2
<1> HIDE DEF Answers
<1>13. CASE state = "kConnected"
  <2>1. output' = Append(output, answer) /\ Len(output) = h /\ \A i \in 1 .. h : output[i].id = i
    BY <1>2, <1>3, <1>11, <1>13 DEF send, Answered
  <2>2. Len(output') = n /\ \A i \in 1 .. n : output'[i].id = i
    <3>1. Len(output') = h + 1 /\ output'[h + 1] = answer /\ \A i \in 1 .. h : output'[i] = output[i]
      BY <1>10, <2>1
    <3>2. \A i \in 1 .. n : i \in 1 .. h \/ i = h + 1
      BY <1>5, <1>6
    <3> QED BY <1>6, <1>12, <2>1, <3>1, <3>2
  <2>3. Answered(n)'
    BY <2>2 DEF Answered
  <2>4. close => state' # "kConnected"
    BY <1>3 DEF shutdown
  <2>5. AnswersInOrder'
    <3>1. Arrived(n)
      BY <1>1, <1>2, <1>7, TakenArrived
    <3>2. /\ answer.id = Len(output) + 1 /\ Arrived(Len(output) + 1)
          /\ answer.asked = WantsClose(script[Len(output) + 1])
      BY <1>6, <1>12, <2>1, <3>1
    <3>3. answer.length = answer.body \/ state' # "kConnected"
      BY <1>12, <2>4
    <3>4. wire' = wire /\ script' = script
      BY <1>3
    <3> QED BY <1>1, <1>10, <1>13, <2>1, <3>2, <3>3, <3>4, AnswerAdded DEF Answers
  <2> QED BY <1>1, <1>2, <1>3, <1>4, <1>8, <1>9, <2>3, <2>5 DEF HInv
<1>14. CASE state # "kConnected"
  <2>1. output' = output /\ state' # "kConnected"
    BY <1>3, <1>14 DEF send, shutdown
  <2>2. Answered(n)'
    BY <2>1 DEF Answered
  <2>3. AnswersInOrder'
    <3>1. \A k \in 1 .. Len(script) : Arrived(k) => Arrived(k)'
      BY <1>3 DEF Arrived
    <3> QED BY <1>1, <1>3, <2>1, <3>1, AnswersStay
  <2> QED BY <1>1, <1>2, <1>3, <1>4, <1>8, <1>9, <2>2, <2>3 DEF HInv
<1> QED BY <1>13, <1>14

(* Nothing changes. *)
LEMMA StutterH ==
    ASSUME HInv, UNCHANGED vars
    PROVE  HInv'
<1>1. IInv /\ AnswersInOrder /\ IInv'
  BY Steps DEF HInv
<1>2. PICK B, h : Laid(stream, script, B) /\ Where(B, h) /\ Answered(h) /\ Whole(B, h)
  BY DEF HInv
<1>3. UNCHANGED <<script, wire, whole, buf, pc, expect, request, current, state, output, unread>>
  BY DEF vars
<1>4. stream' = stream
  BY <1>3 DEF stream
<1>5. Boundary(B, h)' <=> Boundary(B, h)
  BY <1>3 DEF Boundary
<1>6. \A i : (AtLine(B, h + 1, i)' <=> AtLine(B, h + 1, i)) /\ (Parsed(h + 1, i)' <=> Parsed(h + 1, i))
  BY <1>3 DEF AtLine, Parsed
<1>7. NumLines(script[h + 1])' = NumLines(script[h + 1])
  BY <1>3 DEF NumLines
<1>8. Lost(B, h)' <=> Lost(B, h)
  BY <1>3 DEF Lost, AtLine
<1>9. Where(B, h)'
  <2>1. PICK k : k = NumLines(script[h + 1]) /\ NumLines(script[h + 1])' = k
    BY <1>7
  <2>2. pc = "request" => Parsed(h + 1, NumLines(script[h + 1]))'
    <3>1. pc = "request" => Parsed(h + 1, k)
      BY <1>2, <2>1 DEF Where
    <3>2. pc = "request" => Parsed(h + 1, k)'
      BY <1>6, <3>1
    <3> QED BY <2>1, <3>2
  <2>3. (pc = "parse" /\ expect = "kExpectHeaders") =>
            \E i \in 2 .. NumLines(script'[h + 1]) : AtLine(B, h + 1, i)' /\ Parsed(h + 1, i)'
    BY <1>2, <1>3, <1>6 DEF Where
  <2> QED BY <1>2, <1>3, <1>5, <1>8, <2>2, <2>3 DEF Where
<1>10. Answered(h)' /\ Whole(B, h)'
  BY <1>2, <1>3 DEF Answered, Whole
<1>11. AnswersInOrder'
  BY <1>3, TakenAnswers
<1> QED BY <1>1, <1>2, <1>3, <1>4, <1>9, <1>10, <1>11 DEF HInv

(* The inductive step. *)
LEMMA HSteps == HInv /\ [Next]_vars => HInv'
<1> SUFFICES ASSUME HInv, [Next]_vars PROVE HInv'
  OBVIOUS
<1>1. CASE \E req \in Requests : ClientSends(req)
  BY <1>1, ClientSendsH
<1>2. CASE \E n \in 1 .. Min2(Len(wire), MaxRead(buf)) : OnMessage(SubSeq(wire, 1, n))
  BY <1>2, OnMessageH
<1>3. CASE NoLine \/ RequestLine \/ BadRequestLine \/ Header \/ LastLine \/ PeerCloses
  BY <1>3, NoLineH, RequestLineH, BadRequestLineH, HeaderH, LastLineH, PeerClosesH
<1>4. CASE \E close \in BOOLEAN, body \in 0 .. 1 : OnRequest(close, body)
  BY <1>4, OnRequestH
<1>5. CASE UNCHANGED vars
  BY <1>5, StutterH
<1> QED BY <1>1, <1>2, <1>3, <1>4, <1>5 DEF Next

(* Requests are answered in the order in which they came, each at most     *)
(* once, with its own wish to close and only when all of it was there, for *)
(* any requests, any number of them, any cut of the stream and any buffer; *)
(* and a client can tell where each answer ends.                           *)
THEOREM EachAnsweredInOrder == Spec => []AnswersInOrder
<1>1. HInv => AnswersInOrder
  BY DEF HInv
<1> QED BY HInitially, HSteps, <1>1, PTL DEF Spec

(* The callback sees the path, the query and the header that the client    *)
(* meant, however the stream was cut.                                      *)
THEOREM IsUnderstood == Spec => []Understood
<1>1. HInv => Understood
  <2>1. SUFFICES ASSUME HInv, pc = "request" PROVE Understood
    BY DEF Understood
  <2>2. PICK B, h : Where(B, h)
    BY <2>1 DEF HInv
  <2>3. PICK n : n = h + 1 /\ n \in 1 .. Len(script) /\ Parsed(n, NumLines(script[n]))
    BY <2>1, <2>2, StreamIs DEF Where, HInv
  <2>4. script[n] \in Requests
    BY <2>1, <2>3, StreamIs, ElementOfSeq DEF HInv
  <2>5. PICK req \in Requests : req = script[n]
    BY <2>4
  <2>6. /\ current = n /\ req.method \in DOMAIN Methods
        /\ request.method = Methods[req.method]
        /\ request.path = <<req.path>> /\ request.query = req.query
    BY <2>3, <2>5 DEF Parsed
  <2>7. getHeader(request, <<"Connection">>) =
              IF req.connection = <<>> THEN <<>> ELSE <<LastOf(req.connection)>>
    BY <2>3, <2>5, LastHeaderIs
  <2>8. <<req.method>> \in {<<m>> : m \in DOMAIN Methods} /\ script[current] = req
    BY <2>5, <2>6
  <2> QED BY <2>6, <2>7, <2>8 DEF Understood
<1> QED BY HInitially, HSteps, <1>1, PTL DEF Spec

(* A client whose requests each come in one piece, without a body, gets    *)
(* each answered before the next is read, with nothing left over in the    *)
(* buffer.                                                                 *)
THEOREM EachBeforeTheNext == Spec => []OneAtATime
<1>1. HInv => OneAtATime
  <2>1. SUFFICES ASSUME HInv, whole, pc = "poll", state = "kConnected"
                 PROVE  /\ unread = <<>>
                        /\ IF wire = <<>> THEN Len(output) = Len(script)
                           ELSE wire[1].id = Len(output) + 1 /\ wire[1].kind = script[wire[1].id].method
                        /\ \A i \in DOMAIN output : output[i].id = i
    BY DEF OneAtATime
  <2>2. IInv
    BY <2>1 DEF HInv
  <2>3. PICK B, h : Laid(stream, script, B) /\ Where(B, h) /\ Answered(h) /\ Whole(B, h)
    BY <2>1 DEF HInv
  <2>4. /\ unread = <<>> /\ B[h + 1] = 1 /\ h \in 0 .. Len(script)
        /\ Len(output) = h /\ \A i \in 1 .. h : output[i].id = i
    BY <2>1, <2>3 DEF Where, Answered, Whole
  <2>5. DOMAIN output = 1 .. h
    BY <2>2, <2>4 DEF IInv, TypeOK
  <2>6. Len(unread) = 0 /\ Len(wire) \in Nat /\ Len(stream) = Len(wire) /\ Len(script) \in Nat
        /\ (Len(wire) > 0 => stream[1] = wire[1])
    <3>1. Len(unread) = 0
      BY <2>4
    <3>2. /\ Len(wire) \in Nat /\ Len(stream) = Len(unread) + Len(wire) /\ Len(script) \in Nat
          /\ \A j \in 1 .. Len(wire) : stream[Len(unread) + j] = wire[j]
      BY <2>2, StreamIs
    <3>3. Len(wire) > 0 => 1 \in 1 .. Len(wire) /\ Len(unread) + 1 = 1
      BY <3>1, <3>2
    <3> QED BY <3>1, <3>2, <3>3
  <2>7. wire = <<>> <=> Len(wire) = 0
    BY <2>2, EmptySeq DEF IInv, TypeOK
  <2>8. /\ h = Len(script) => Len(stream) = 0
        /\ h < Len(script) => /\ Len(stream) > 0
                              /\ stream[1] = Byte(script[h + 1].method, h + 1)
    BY <2>2, <2>3, <2>4, HeadOf
  <2>9. CASE wire = <<>>
    BY <2>4, <2>5, <2>6, <2>7, <2>8, <2>9
  <2>10. CASE wire # <<>>
    <3>1. wire[1] = Byte(script[h + 1].method, h + 1)
      BY <2>4, <2>6, <2>7, <2>8, <2>10
    <3>2. wire[1].id = h + 1 /\ wire[1].kind = script[h + 1].method
      BY <3>1 DEF Byte
    <3> QED BY <2>4, <2>5, <2>10, <3>2
  <2> QED BY <2>9, <2>10
<1> QED BY HInitially, HSteps, <1>1, PTL DEF Spec
=============================================================================
