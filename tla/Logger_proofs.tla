--------------------------- MODULE Logger_proofs ---------------------------
(***************************************************************************)
(* For any threads, levels, streams and lines that fit in a buffer, and    *)
(* for any size of it: the cursor of the FixedBuffer stays in the array,   *)
(* every stream gets the lines of every thread, and the file of a LogFile  *)
(* holds them, once and complete, but for what flush() repeats.            *)
(***************************************************************************)
EXTENDS Logger, SequenceTheorems, WellFoundedInduction, TLAPS

(* The lines of log() are numbered, and who is at a stream has a line of   *)
(* its own, severe enough, to append.                                      *)
Numbered ==
    /\ \A i \in DOMAIN asked : asked[i].id = i
    /\ \A t \in Threads : at[t] # 0 =>
          /\ message[t] \in LinesOf(t) \cap Severe /\ message[t].id \in DOMAIN asked
          /\ asked[message[t].id] = message[t]

(* A thread that is at a stream owes its line to this one and to those     *)
(* behind it, and to no other.                                             *)
Due(t) == Those(asked, LinesOf(t) \cap Severe)
Has(t, stream) == Those(Shown(stream), LinesOf(t))
Owes(t, p) == at[t] \in 1 .. p
Owing ==
    \A t \in Threads, p \in DOMAIN Streams :
        Due(t) = IF Owes(t, p) THEN Append(Has(t, Streams[p]), message[t])
                 ELSE Has(t, Streams[p])

(* No line that is owed to the LogFile is in it already, and none comes    *)
(* that log() was not called with.                                         *)
Unfiled ==
    /\ \A i \in DOMAIN filed : filed[i].id \in DOMAIN asked
    /\ \A t \in Threads, p \in DOMAIN Streams, i \in DOMAIN filed :
          Streams[p] = "file" /\ Owes(t, p) => filed[i].id # message[t].id

(* The array begins with what memory held or with the first byte of a line *)
(* that was appended.  While the cursor is at the beginning, a flush would *)
(* write what the last one wrote, or else nothing or junk; once it has     *)
(* moved on, the array begins otherwise than what the last flush wrote.    *)
Begins == buffer.data[0] \in {Nul, Junk} \/ \E i \in DOMAIN filed : buffer.data[0] = <<filed[i].id, 1>>
Repeats ==
    buffer.cur = 0 =>
        IF file # <<>> THEN file[Len(file)] = cString(buffer)
        ELSE cString(buffer) = <<>> \/ \E k \in DOMAIN cString(buffer) : cString(buffer)[k] = Junk
Differs ==
    (buffer.cur > 0 /\ file # <<>>) =>
        file[Len(file)] = <<>> \/ file[Len(file)][1] # buffer.data[0]

Complete == Fresh \o toStringView(buffer) = Contents

LInv ==
    /\ TypeOK /\ Numbered /\ Owing /\ Unfiled
    /\ Begins /\ Repeats /\ Differs /\ Complete

(* A set of natural numbers has a least element. *)
LEMMA Least ==
    ASSUME NEW S \in SUBSET Nat, S # {}
    PROVE  \E x \in S : \A y \in S : x <= y
<1> DEFINE R == OpToRel(<, Nat)
<1>1. \A x, y \in Nat : x < y => <<x, y>> \in R
  BY DEF OpToRel
<1>2. IsWellFoundedOn(R, Nat)
  BY NatLessThanWellFounded
<1> HIDE DEF R
<1>3. PICK x \in S : \A y \in S : ~(<<y, x>> \in R)
  BY <1>2, WFMin
<1>4. ASSUME NEW y \in S PROVE x <= y
  <2>1. x \in Nat /\ y \in Nat
    OBVIOUS
  <2>2. ~(y < x)
    BY <1>1, <1>3, <2>1
  <2> QED BY <2>1, <2>2
<1> QED BY <1>3, <1>4

(* The concatenations of the first 0, 1, ..., Len(s) elements of s.        *)
Sums(E, p, s) == /\ p \in [0 .. Len(s) -> Seq(E)] /\ p[0] = <<>>
              /\ \A i \in 1 .. Len(s) : p[i] = p[i - 1] \o s[i]

(* The recursive function of FlattenSeq is there, and computes them.       *)
LEMMA Recursion ==
    ASSUME NEW E, NEW s \in Seq(Seq(E))
    PROVE  \E f : f = [i \in 1 .. Len(s) |-> IF i = 1 THEN s[i] ELSE f[i - 1] \o s[i]]
<1> DEFINE Rec(f, n) == f = [i \in 1 .. n |-> IF i = 1 THEN s[i] ELSE f[i - 1] \o s[i]]
           Bad == {n \in 0 .. Len(s) : ~ \E f : Rec(f, n)}
<1>1. Len(s) \in Nat
  BY LenProperties
<1> HIDE DEF Rec
<1>2. Bad = {}
  <2>1. SUFFICES ASSUME Bad # {} PROVE FALSE
    OBVIOUS
  <2>2. PICK n \in Bad : \A m \in Bad : n <= m
    <3>1. Bad \in SUBSET Nat
      BY <1>1
    <3> HIDE DEF Bad
    <3> QED BY <2>1, <3>1, Least
  <2>3. n \in 0 .. Len(s) /\ n \in Nat /\ ~ \E f : Rec(f, n)
    BY <1>1
  <2>4. CASE n = 0
    <3>1. Rec([i \in 1 .. 0 |-> s[i]], 0)
      BY DEF Rec
    <3> QED BY <2>3, <2>4, <3>1
  <2>5. CASE n > 0
    <3>1. n - 1 \in 0 .. Len(s) /\ n - 1 \notin Bad
      <4>1. n - 1 \in 0 .. Len(s) /\ ~(n <= n - 1)
        BY <1>1, <2>3, <2>5
      <4> QED BY <2>2, <4>1
    <3>2. PICK f : Rec(f, n - 1)
      BY <3>1
    <3> DEFINE g == [i \in 1 .. n |-> IF i = n THEN (IF n = 1 THEN s[n] ELSE f[n - 1] \o s[n]) ELSE f[i]]
    <3>3. ASSUME NEW i \in 1 .. n PROVE g[i] = IF i = 1 THEN s[i] ELSE g[i - 1] \o s[i]
      <4>1. CASE i = n
        BY <2>3, <2>5, <4>1
      <4>2. CASE i # n
        <5>1. i \in 1 .. n - 1 /\ (i # 1 => i - 1 \in 1 .. n - 1 /\ i - 1 # n)
          BY <2>3, <4>2
        <5>2. f[i] = IF i = 1 THEN s[i] ELSE f[i - 1] \o s[i]
          BY <3>2, <5>1 DEF Rec
        <5> QED BY <2>3, <4>2, <5>1, <5>2
      <4> QED BY <4>1, <4>2
    <3>4. Rec(g, n)
      <4>1. g = [i \in 1 .. n |-> g[i]]
        OBVIOUS
      <4> HIDE DEF g
      <4> QED BY <3>3, <4>1 DEF Rec
    <3> QED BY <2>3, <3>4
  <2> QED BY <2>3, <2>4, <2>5
<1>3. \E f : Rec(f, Len(s))
  BY <1>1, <1>2
<1> QED BY <1>3 DEF Rec

LEMMA Flattened ==
    ASSUME NEW E, NEW s \in Seq(Seq(E))
    PROVE  \E p : Sums(E, p, s) /\ FlattenSeq(s) = p[Len(s)]
<1>1. Len(s) \in Nat /\ \A i \in 1 .. Len(s) : s[i] \in Seq(E)
  BY LenProperties, ElementOfSeq
<1>2. PICK f : f = [i \in 1 .. Len(s) |-> IF i = 1 THEN s[i] ELSE f[i - 1] \o s[i]]
               /\ (Len(s) # 0 => FlattenSeq(s) = f[Len(s)])
  <2>1. CASE Len(s) = 0
    BY <2>1, Recursion
  <2>2. CASE Len(s) # 0
    <3>1. \E f : f = [i \in 1 .. Len(s) |-> IF i = 1 THEN s[i] ELSE f[i - 1] \o s[i]]
      BY Recursion
    <3> QED BY <2>2, <3>1 DEF FlattenSeq
  <2> QED BY <2>1, <2>2
<1>3. \A i \in 1 .. Len(s) : f[i] = IF i = 1 THEN s[i] ELSE f[i - 1] \o s[i]
  BY <1>2
<1> DEFINE p == [i \in 0 .. Len(s) |-> IF i = 0 THEN <<>> ELSE f[i]]
           Bad == {i \in 0 .. Len(s) : p[i] \notin Seq(E)}
<1>4. p[0] = <<>> /\ \A i \in 1 .. Len(s) : p[i] = f[i]
  BY <1>1
<1>5. ASSUME NEW i \in 1 .. Len(s) PROVE p[i] = p[i - 1] \o s[i]
  <2>1. CASE i = 1
    <3>1. p[i - 1] = <<>> /\ p[i] = s[i]
      BY <1>1, <1>3, <1>4, <2>1
    <3> QED BY <1>1, <3>1, ConcatEmptySeq
  <2>2. CASE i # 1
    <3>1. i - 1 \in 1 .. Len(s)
      BY <1>1, <2>2
    <3> QED BY <1>3, <1>4, <2>2, <3>1
  <2> QED BY <2>1, <2>2
<1>6. p = [i \in 0 .. Len(s) |-> p[i]]
  OBVIOUS
<1> HIDE DEF p
<1>7. Len(s) = 0 => s = <<>>
  BY EmptySeq
<1>8. FlattenSeq(s) = p[Len(s)]
  <2>1. CASE Len(s) = 0
    <3>1. FlattenSeq(s) = s
      BY <2>1 DEF FlattenSeq
    <3> QED BY <1>4, <1>7, <2>1, <3>1
  <2>2. CASE Len(s) # 0
    <3>1. Len(s) \in 1 .. Len(s)
      BY <1>1, <2>2
    <3> QED BY <1>2, <1>4, <2>2, <3>1
  <2> QED BY <2>1, <2>2
<1>9. Bad = {}
  <2>1. SUFFICES ASSUME Bad # {} PROVE FALSE
    OBVIOUS
  <2>2. PICK n \in Bad : \A m \in Bad : n <= m
    <3>1. Bad \in SUBSET Nat
      BY <1>1
    <3> HIDE DEF Bad
    <3> QED BY <2>1, <3>1, Least
  <2>3. n \in 1 .. Len(s) /\ n - 1 \in 0 .. Len(s) /\ n \in Nat
    <3>1. n \in 0 .. Len(s) /\ p[n] # <<>>
      BY EmptySeq
    <3>2. n # 0
      BY <1>4, <3>1
    <3> QED BY <1>1, <3>1, <3>2
  <2>4. p[n - 1] \in Seq(E)
    <3>1. ~(n <= n - 1)
      BY <2>3
    <3> QED BY <2>2, <2>3, <3>1
  <2> QED BY <1>1, <1>5, <2>3, <2>4, ConcatProperties
<1>10. Sums(E, p, s)
  <2>1. \A i \in 0 .. Len(s) : p[i] \in Seq(E)
    BY <1>9
  <2> QED BY <1>4, <1>5, <1>6, <2>1 DEF Sums
<1> QED BY <1>8, <1>10

LEMMA FlattenType ==
    ASSUME NEW E, NEW s \in Seq(Seq(E))
    PROVE  FlattenSeq(s) \in Seq(E)
<1>1. Len(s) \in 0 .. Len(s)
  BY LenProperties
<1>2. PICK p : Sums(E, p, s) /\ FlattenSeq(s) = p[Len(s)]
  BY Flattened
<1> QED BY <1>1, <1>2 DEF Sums

LEMMA FlattenEmpty == FlattenSeq(<<>>) = <<>>
BY DEF FlattenSeq

LEMMA FlattenAppend ==
    ASSUME NEW E, NEW s \in Seq(Seq(E)), NEW b \in Seq(E)
    PROVE  FlattenSeq(Append(s, b)) = FlattenSeq(s) \o b
<1> DEFINE t == Append(s, b)
<1>1. /\ t \in Seq(Seq(E)) /\ Len(t) = Len(s) + 1 /\ Len(s) \in Nat
      /\ (\A i \in 1 .. Len(s) : t[i] = s[i]) /\ t[Len(s) + 1] = b
  BY AppendProperties, LenProperties
<1> HIDE DEF t
<1>2. PICK p : Sums(E, p, s) /\ FlattenSeq(s) = p[Len(s)]
  BY Flattened
<1>3. PICK q : Sums(E, q, t) /\ FlattenSeq(t) = q[Len(t)]
  BY <1>1, Flattened
<1> DEFINE Bad == {i \in 0 .. Len(s) : q[i] # p[i]}
<1>4. Bad = {}
  <2>1. SUFFICES ASSUME Bad # {} PROVE FALSE
    OBVIOUS
  <2>2. PICK n \in Bad : \A m \in Bad : n <= m
    <3>1. Bad \in SUBSET Nat
      BY <1>1
    <3> HIDE DEF Bad
    <3> QED BY <2>1, <3>1, Least
  <2>3. n \in 1 .. Len(s) /\ n \in 1 .. Len(t) /\ n - 1 \in 0 .. Len(s)
    BY <1>1, <1>2, <1>3 DEF Sums
  <2>4. q[n - 1] = p[n - 1]
    BY <2>2, <2>3
  <2> QED BY <1>1, <1>2, <1>3, <2>3, <2>4 DEF Sums
<1>5. Len(t) \in 1 .. Len(t) /\ Len(t) - 1 = Len(s) /\ Len(s) \in 0 .. Len(s)
  BY <1>1
<1>6. q[Len(t)] = p[Len(s)] \o b
  BY <1>1, <1>3, <1>4, <1>5 DEF Sums
<1> QED BY <1>2, <1>3, <1>6 DEF t


-----------------------------------------------------------------------------
(* The FixedBuffer. *)
LEMMA SizeIs == SIZE \in Nat /\ SIZE >= 1 /\ Bytes \subseteq Cells /\ Nul \in Cells /\ Junk \in Cells
BY SizeAssumption DEF Cells

(* A buffer of the array's size, or less, is a sequence.                   *)
LEMMA CellsAre ==
    ASSUME NEW b \in Fixed, NEW n \in 0 .. SIZE
    PROVE  /\ [k \in 1 .. n |-> b.data[k - 1]] \in Seq(Cells)
           /\ Len([k \in 1 .. n |-> b.data[k - 1]]) = n
<1>1. ASSUME NEW k \in 1 .. n PROVE b.data[k - 1] \in Cells
  BY SizeIs DEF Fixed
<1>2. n \in Nat
  BY SizeIs
<1> QED BY <1>1, <1>2, IsASeq

(* What a flush writes: some cells from the beginning, of a terminated     *)
(* buffer just what was appended since the reset.                          *)
THEOREM CStringIs ==
    ASSUME NEW b \in Fixed
    PROVE  /\ cString(b) \in Seq(Cells)
           /\ cString(b) # <<>> => cString(b)[1] = b.data[0]
           /\ Terminated(b) => cString(b) = toStringView(b)
           /\ b.cur > 0 /\ Terminated(b) => cString(b) # <<>>
<1> DEFINE nuls == {i \in 0 .. SIZE - 1 : b.data[i] = Nul}
           n == IF nuls = {} THEN SIZE ELSE Min(nuls)
<1>1. nuls # {} => Min(nuls) \in nuls /\ \A y \in nuls : Min(nuls) <= y
  <2>1. SUFFICES ASSUME nuls # {} PROVE Min(nuls) \in nuls /\ \A y \in nuls : Min(nuls) <= y
    OBVIOUS
  <2>2. nuls \in SUBSET Nat
    BY SizeIs
  <2> HIDE DEF nuls
  <2>3. \E x \in nuls : \A y \in nuls : x <= y
    BY <2>1, <2>2, Least
  <2> QED BY <2>3 DEF Min
<1>2. n \in 0 .. SIZE
  BY <1>1, SizeIs
<1>3. cString(b) = [k \in 1 .. n |-> b.data[k - 1]]
  BY DEF cString
<1>4. Terminated(b) => n = b.cur
  <2>1. SUFFICES ASSUME Terminated(b) PROVE n = b.cur
    OBVIOUS
  <2>2. b.cur \in nuls
    BY <2>1, SizeIs DEF Terminated, Fixed
  <2>3. \A i \in nuls : ~(i < b.cur)
    BY <2>1, SizeIs, NulAssumption DEF Terminated, Fixed
  <2>4. n \in nuls /\ n <= b.cur
    BY <1>1, <2>2
  <2>5. b.cur \in Nat /\ n \in Nat
    BY <1>2, SizeIs DEF Fixed
  <2> QED BY <2>3, <2>4, <2>5
<1> HIDE DEF n, nuls
<1>5. cString(b) \in Seq(Cells) /\ Len(cString(b)) = n
  BY <1>2, <1>3, CellsAre
<1>6. cString(b) # <<>> => cString(b)[1] = b.data[0]
  <2>1. SUFFICES ASSUME cString(b) # <<>> PROVE cString(b)[1] = b.data[0]
    OBVIOUS
  <2>2. n # 0 /\ n \in Nat
    BY <1>2, <1>5, <2>1, SizeIs, EmptySeq
  <2>3. 1 \in 1 .. n
    BY <2>2
  <2> QED BY <1>3, <2>3
<1>7. Terminated(b) => cString(b) = toStringView(b)
  BY <1>3, <1>4 DEF toStringView
<1>8. b.cur > 0 /\ Terminated(b) => cString(b) # <<>>
  BY <1>4, <1>5
<1> QED BY <1>5, <1>6, <1>7, <1>8

(* A reset moves the cursor and leaves the array.                          *)
LEMMA ResetIs ==
    ASSUME NEW b \in Fixed
    PROVE  /\ reset(b) \in Fixed /\ reset(b).cur = 0 /\ reset(b).data = b.data
           /\ toStringView(reset(b)) = <<>> /\ cString(reset(b)) = cString(b)
<1>1. reset(b) \in Fixed /\ reset(b).cur = 0 /\ reset(b).data = b.data
  BY SizeIs DEF reset, Fixed
<1>2. toStringView(reset(b)) = <<>>
  <2>1. toStringView(reset(b)) = [k \in 1 .. 0 |-> reset(b).data[k - 1]]
    BY <1>1 DEF toStringView
  <2> QED BY <2>1
<1>3. cString(reset(b)) = cString(b)
  BY <1>1 DEF cString
<1> QED BY <1>1, <1>2, <1>3

(* What is appended to a buffer with room for it and for the NUL stands    *)
(* behind what was there, and the cursor stays in the array, on the NUL.   *)
THEOREM PutIs ==
    ASSUME NEW b \in Fixed, b.cur > 0 => Terminated(b), NEW buf \in Seq(Bytes),
           Len(buf) > 0, ~isFullFor(b, Len(buf))
    PROVE  /\ put(b, buf) \in Fixed /\ Terminated(put(b, buf)) /\ put(b, buf).cur > 0
           /\ toStringView(put(b, buf)) = toStringView(b) \o buf
           /\ put(b, buf).data[0] = IF b.cur = 0 THEN buf[1] ELSE b.data[0]
<1> DEFINE stop == b.cur + Len(buf)
           d == [i \in 0 .. SIZE - 1 |->
                   IF i \in b.cur .. stop - 1 THEN buf[i - b.cur + 1]
                   ELSE IF i = stop THEN Nul ELSE b.data[i]]
           c == put(b, buf)
<1>1. Len(buf) \in Nat /\ b.cur \in Nat /\ b.cur <= SIZE /\ b.data \in [0 .. SIZE - 1 -> Cells]
  BY SizeIs, LenProperties DEF Fixed
<1>2. stop \in Nat /\ stop < SIZE /\ stop > 0
  BY <1>1, SizeIs DEF isFullFor, avail
<1>3. c.data = d /\ c.cur = stop /\ c = [data |-> d, cur |-> stop]
  BY DEF put
<1>4. \A i \in 1 .. Len(buf) : buf[i] \in Bytes
  BY ElementOfSeq
<1>5. ASSUME NEW i \in 0 .. SIZE - 1
      PROVE  /\ i < b.cur => d[i] = b.data[i]
             /\ (b.cur <= i /\ i < stop) => i - b.cur + 1 \in 1 .. Len(buf) /\ d[i] = buf[i - b.cur + 1]
             /\ i = stop => d[i] = Nul
             /\ d[i] \in Cells
  <2>1. i \in Nat /\ b.data[i] \in Cells
    BY <1>1, SizeIs
  <2>2. i < b.cur => d[i] = b.data[i] /\ d[i] \in Cells
    BY <1>1, <1>2, <2>1
  <2>3. (b.cur <= i /\ i < stop) => i - b.cur + 1 \in 1 .. Len(buf) /\ d[i] = buf[i - b.cur + 1]
    BY <1>1, <1>2, <2>1
  <2>4. (b.cur <= i /\ i < stop) => d[i] \in Cells
    BY <1>4, <2>3, SizeIs
  <2>5. i = stop => d[i] = Nul /\ d[i] \in Cells
    BY <1>1, <1>2, <2>1, SizeIs
  <2>6. i > stop => d[i] = b.data[i] /\ d[i] \in Cells
    BY <1>1, <1>2, <2>1
  <2> QED BY <1>1, <1>2, <2>1, <2>2, <2>3, <2>4, <2>5, <2>6
<1>6. d = [i \in 0 .. SIZE - 1 |-> d[i]]
  OBVIOUS
<1> HIDE DEF d, stop, c
<1>7. c \in Fixed
  <2>1. d \in [0 .. SIZE - 1 -> Cells]
    BY <1>5, <1>6
  <2>2. stop \in 0 .. SIZE
    BY <1>2, SizeIs
  <2> QED BY <1>3, <2>1, <2>2 DEF Fixed
<1>8. Terminated(c)
  <2>1. stop \in 0 .. SIZE - 1
    BY <1>2, SizeIs
  <2>2. ASSUME NEW i \in 0 .. stop - 1 PROVE d[i] \in Bytes
    <3>1. i \in 0 .. SIZE - 1 /\ i \in Nat /\ i < stop
      BY <1>2, SizeIs
    <3>2. CASE i < b.cur
      <4>1. b.cur > 0 /\ i \in 0 .. b.cur - 1
        BY <1>1, <3>1, <3>2
      <4> QED BY <1>5, <3>1, <3>2, <4>1 DEF Terminated
    <3>3. CASE ~(i < b.cur)
      BY <1>1, <1>4, <1>5, <3>1, <3>3
    <3> QED BY <3>2, <3>3
  <2> QED BY <1>2, <1>3, <1>5, <2>1, <2>2 DEF Terminated
<1>9. toStringView(c) = toStringView(b) \o buf
  <2> DEFINE u == toStringView(b)  v == toStringView(c)
  <2>1. /\ u \in Seq(Cells) /\ Len(u) = b.cur /\ v \in Seq(Cells) /\ Len(v) = stop
    <3>1. b.cur \in 0 .. SIZE /\ stop \in 0 .. SIZE
      BY <1>1, <1>2, SizeIs
    <3> QED BY <1>3, <1>7, <3>1, CellsAre DEF toStringView
  <2>2. buf \in Seq(Cells)
    BY SizeIs, SeqMonotonic
  <2>3. /\ u \o buf \in Seq(Cells) /\ Len(u \o buf) = b.cur + Len(buf)
        /\ \A i \in 1 .. b.cur + Len(buf) : (u \o buf)[i] = IF i <= b.cur THEN u[i] ELSE buf[i - b.cur]
    <3> HIDE DEF u, v
    <3>1. Len(u) = b.cur
      BY <2>1
    <3>2. /\ u \o buf \in Seq(Cells) /\ Len(u \o buf) = Len(u) + Len(buf)
          /\ \A i \in 1 .. Len(u) + Len(buf) : (u \o buf)[i] = IF i <= Len(u) THEN u[i] ELSE buf[i - Len(u)]
      BY <2>1, <2>2, ConcatProperties
    <3> QED BY <3>1, <3>2
  <2>4. ASSUME NEW i \in 1 .. stop PROVE v[i] = (u \o buf)[i]
    <3>1. i - 1 \in 0 .. SIZE - 1 /\ i \in 1 .. b.cur + Len(buf) /\ i \in Nat
      BY <1>1, <1>2, SizeIs DEF stop
    <3>2. v[i] = d[i - 1]
      BY <1>3 DEF toStringView
    <3>3. CASE i <= b.cur
      <4>1. i - 1 < b.cur /\ u[i] = b.data[i - 1]
        BY <1>1, <3>1, <3>3 DEF toStringView
      <4> QED BY <1>5, <2>3, <3>1, <3>2, <3>3, <4>1
    <3>4. CASE ~(i <= b.cur)
      <4>1. b.cur <= i - 1 /\ i - 1 < stop /\ (i - 1) - b.cur + 1 = i - b.cur
        BY <1>1, <1>2, <3>1, <3>4
      <4>2. d[i - 1] = buf[i - b.cur]
        BY <1>5, <3>1, <4>1
      <4> QED BY <2>3, <3>1, <3>2, <3>4, <4>2
    <3> QED BY <3>3, <3>4
  <2>5. Len(v) = Len(u \o buf)
    BY <2>1, <2>3 DEF stop
  <2> HIDE DEF u, v
  <2>6. v = u \o buf
    BY <2>1, <2>3, <2>4, <2>5, SeqEqual
  <2> QED BY <2>6 DEF u, v
<1>10. d[0] = IF b.cur = 0 THEN buf[1] ELSE b.data[0]
  <2>1. 0 \in 0 .. SIZE - 1
    BY SizeIs
  <2>2. b.cur = 0 => 0 - b.cur + 1 = 1 /\ b.cur <= 0 /\ 0 < stop
    BY <1>2
  <2>3. b.cur # 0 => 0 < b.cur
    BY <1>1
  <2> QED BY <1>5, <2>1, <2>2, <2>3
<1> QED BY <1>2, <1>3, <1>7, <1>8, <1>9, <1>10 DEF c

-----------------------------------------------------------------------------
(* The sequences the properties are made of: what becomes of them when one *)
(* more element comes.                                                     *)
LEMMA OneMore ==
    ASSUME NEW E, NEW s \in Seq(E), NEW t \in Seq(E), Len(t) = Len(s) + 1,
           \A i \in 1 .. Len(s) : t[i] = s[i]
    PROVE  t = Append(s, t[Len(s) + 1])
<1>1. Len(s) \in Nat /\ Len(s) + 1 \in 1 .. Len(t)
  BY LenProperties
<1>2. t[Len(s) + 1] \in E
  BY <1>1, ElementOfSeq
<1> DEFINE u == Append(s, t[Len(s) + 1])
<1>3. /\ u \in Seq(E) /\ Len(u) = Len(s) + 1
      /\ \A i \in 1 .. Len(s) : u[i] = s[i]
      /\ u[Len(s) + 1] = t[Len(s) + 1]
  BY <1>2, AppendProperties
<1> HIDE DEF u
<1>4. \A i \in 1 .. Len(t) : t[i] = u[i]
  BY <1>1, <1>3
<1>5. t = u
  BY <1>3, <1>4, SeqEqual
<1> QED BY <1>5 DEF u

(* The lines of a set. *)
LEMMA ThoseAppend ==
    ASSUME NEW S, NEW lines \in Seq(LogLines), NEW line \in LogLines
    PROVE  /\ Those(lines, S) \in Seq(LogLines)
           /\ Those(Append(lines, line), S) =
                 IF line \in S THEN Append(Those(lines, S), line) ELSE Those(lines, S)
<1> DEFINE more == Append(lines, line)
           m == [i \in DOMAIN lines |-> IF lines[i] \in S THEN <<lines[i]>> ELSE <<>>]
           n == [i \in DOMAIN more |-> IF more[i] \in S THEN <<more[i]>> ELSE <<>>]
           last == IF line \in S THEN <<line>> ELSE <<>>
<1>1. /\ more \in Seq(LogLines) /\ Len(more) = Len(lines) + 1 /\ Len(lines) \in Nat
      /\ (\A i \in 1 .. Len(lines) : more[i] = lines[i]) /\ more[Len(lines) + 1] = line
      /\ DOMAIN lines = 1 .. Len(lines) /\ DOMAIN more = 1 .. Len(lines) + 1
  BY AppendProperties, LenProperties
<1> HIDE DEF more
<1>2. \A x \in LogLines : <<x>> \in Seq(LogLines)
  OBVIOUS
<1>3. m \in Seq(Seq(LogLines)) /\ Len(m) = Len(lines)
  <2>1. \A i \in 1 .. Len(lines) : (IF lines[i] \in S THEN <<lines[i]>> ELSE <<>>) \in Seq(LogLines)
    BY <1>2, ElementOfSeq
  <2>2. m = [i \in 1 .. Len(lines) |-> IF lines[i] \in S THEN <<lines[i]>> ELSE <<>>]
    BY <1>1
  <2> QED BY <1>1, <2>1, <2>2, IsASeq
<1>4. n \in Seq(Seq(LogLines)) /\ Len(n) = Len(lines) + 1
  <2>1. \A i \in 1 .. Len(lines) + 1 : (IF more[i] \in S THEN <<more[i]>> ELSE <<>>) \in Seq(LogLines)
    BY <1>1, <1>2, ElementOfSeq
  <2>2. n = [i \in 1 .. Len(lines) + 1 |-> IF more[i] \in S THEN <<more[i]>> ELSE <<>>]
    BY <1>1
  <2> QED BY <1>1, <2>1, <2>2, IsASeq
<1>5. /\ \A i \in 1 .. Len(m) : n[i] = m[i]
      /\ n[Len(m) + 1] = last
  BY <1>1, <1>3
<1>6. Those(lines, S) = FlattenSeq(m) /\ Those(more, S) = FlattenSeq(n)
  BY DEF Those
<1>7. last \in Seq(LogLines)
  BY <1>2
<1> HIDE DEF m, n
<1>8. n = Append(m, last)
  BY <1>3, <1>4, <1>5, OneMore
<1>9. FlattenSeq(m) \in Seq(LogLines) /\ FlattenSeq(n) = FlattenSeq(m) \o last
  BY <1>3, <1>7, <1>8, FlattenType, FlattenAppend
<1>10. line \in S => FlattenSeq(m) \o last = Append(FlattenSeq(m), line)
  BY <1>9, AppendIsConcat
<1>11. line \notin S => FlattenSeq(m) \o last = FlattenSeq(m)
  BY <1>9, ConcatEmptySeq
<1> QED BY <1>6, <1>9, <1>10, <1>11 DEF more

LEMMA ThoseOfNone == \A S : Those(<<>>, S) = <<>>
<1> TAKE S
<1> DEFINE m == [i \in DOMAIN <<>> |-> IF <<>>[i] \in S THEN <<<<>>[i]>> ELSE <<>>]
<1>1. m = <<>>
  OBVIOUS
<1>2. Those(<<>>, S) = FlattenSeq(m)
  BY DEF Those
<1> QED BY <1>1, <1>2, FlattenEmpty

(* The bytes of a line, and those of the lines that were appended.         *)
LEMMA BytesAre ==
    ASSUME NEW line \in LogLines
    PROVE  /\ bytesOf(line) \in Seq(Bytes) /\ bytesOf(line) \in Seq(Cells)
           /\ Len(bytesOf(line)) = line.len /\ line.len \in 1 .. SIZE - 1
           /\ bytesOf(line)[1] = <<line.id, 1>> /\ <<line.id, 1>> \in Bytes
<1>1. line.id \in 1 .. MaxLines /\ line.len \in 1 .. SIZE - 1
  BY DEF LogLines
<1>2. line.len \in Nat /\ line.len >= 1 /\ line.len <= SIZE - 1 /\ SIZE \in Nat
  BY <1>1, SizeIs
<1>3. \A k \in 1 .. line.len : <<line.id, k>> \in Bytes
  <2> TAKE k \in 1 .. line.len
  <2>1. k \in 1 .. SIZE - 1
    BY <1>2
  <2> QED BY <1>1, <2>1, BytesAssumption DEF LogBytes
<1>4. bytesOf(line) = [k \in 1 .. line.len |-> <<line.id, k>>]
  BY DEF bytesOf
<1>5. bytesOf(line) \in Seq(Bytes) /\ Len(bytesOf(line)) = line.len
  BY <1>2, <1>3, <1>4, IsASeq
<1>6. 1 \in 1 .. line.len
  BY <1>2
<1>7. bytesOf(line) \in Seq(Cells)
  BY <1>5, SizeIs, SeqMonotonic
<1> QED BY <1>1, <1>3, <1>4, <1>5, <1>6, <1>7

LEMMA ContentsAppend ==
    ASSUME filed \in Seq(LogLines), NEW line \in LogLines, filed' = Append(filed, line)
    PROVE  /\ Contents \in Seq(Cells)
           /\ Contents' = Contents \o bytesOf(line)
<1> DEFINE m == [i \in DOMAIN filed |-> bytesOf(filed[i])]
           n == [i \in DOMAIN filed' |-> bytesOf(filed'[i])]
<1>1. /\ filed' \in Seq(LogLines) /\ Len(filed') = Len(filed) + 1 /\ Len(filed) \in Nat
      /\ (\A i \in 1 .. Len(filed) : filed'[i] = filed[i]) /\ filed'[Len(filed) + 1] = line
      /\ DOMAIN filed = 1 .. Len(filed) /\ DOMAIN filed' = 1 .. Len(filed) + 1
  BY AppendProperties, LenProperties
<1>2. m \in Seq(Seq(Cells)) /\ Len(m) = Len(filed)
  <2>1. \A i \in 1 .. Len(filed) : bytesOf(filed[i]) \in Seq(Cells)
    BY BytesAre, ElementOfSeq
  <2>2. m = [i \in 1 .. Len(filed) |-> bytesOf(filed[i])]
    BY <1>1
  <2> QED BY <1>1, <2>1, <2>2, IsASeq
<1>3. n \in Seq(Seq(Cells)) /\ Len(n) = Len(filed) + 1
  <2>1. \A i \in 1 .. Len(filed) + 1 : bytesOf(filed'[i]) \in Seq(Cells)
    BY <1>1, BytesAre, ElementOfSeq
  <2>2. n = [i \in 1 .. Len(filed) + 1 |-> bytesOf(filed'[i])]
    BY <1>1
  <2> QED BY <1>1, <2>1, <2>2, IsASeq
<1>4. (\A i \in 1 .. Len(m) : n[i] = m[i]) /\ n[Len(m) + 1] = bytesOf(line)
  BY <1>1, <1>2
<1>5. Contents = FlattenSeq(m) /\ Contents' = FlattenSeq(n)
  BY DEF Contents
<1> HIDE DEF m, n
<1>6. n = Append(m, bytesOf(line))
  BY <1>2, <1>3, <1>4, OneMore
<1> QED BY <1>2, <1>5, <1>6, BytesAre, FlattenType, FlattenAppend

(* What a flush adds to the file, unless it is a repetition or junk.       *)
IsNew(text) ==
    /\ \A k \in DOMAIN text : text[k] # Junk
    /\ file # <<>> => text # file[Len(file)]

LEMMA FreshAppend ==
    ASSUME file \in Seq(Seq(Cells)), NEW text \in Seq(Cells), file' = Append(file, text)
    PROVE  /\ Fresh \in Seq(Cells)
           /\ Fresh' = IF IsNew(text) THEN Fresh \o text ELSE Fresh
<1> DEFINE m == [i \in DOMAIN file |-> IF IsFresh(i) THEN file[i] ELSE <<>>]
           n == [i \in DOMAIN file' |-> IF IsFresh(i)' THEN file'[i] ELSE <<>>]
           last == IF IsNew(text) THEN text ELSE <<>>
<1>1. /\ file' \in Seq(Seq(Cells)) /\ Len(file') = Len(file) + 1 /\ Len(file) \in Nat
      /\ (\A i \in 1 .. Len(file) : file'[i] = file[i]) /\ file'[Len(file) + 1] = text
      /\ DOMAIN file = 1 .. Len(file) /\ DOMAIN file' = 1 .. Len(file) + 1
  BY AppendProperties, LenProperties
<1>2. m \in Seq(Seq(Cells)) /\ Len(m) = Len(file)
  <2>1. \A i \in 1 .. Len(file) : (IF IsFresh(i) THEN file[i] ELSE <<>>) \in Seq(Cells)
    BY ElementOfSeq
  <2>2. m = [i \in 1 .. Len(file) |-> IF IsFresh(i) THEN file[i] ELSE <<>>]
    BY <1>1
  <2> QED BY <1>1, <2>1, <2>2, IsASeq
<1>3. n \in Seq(Seq(Cells)) /\ Len(n) = Len(file) + 1
  <2>1. \A i \in 1 .. Len(file) + 1 : (IF IsFresh(i)' THEN file'[i] ELSE <<>>) \in Seq(Cells)
    BY <1>1, ElementOfSeq
  <2>2. n = [i \in 1 .. Len(file) + 1 |-> IF IsFresh(i)' THEN file'[i] ELSE <<>>]
    BY <1>1
  <2> QED BY <1>1, <2>1, <2>2, IsASeq
<1>4. \A i \in 1 .. Len(file) : IsFresh(i)' <=> IsFresh(i)
  <2> TAKE i \in 1 .. Len(file)
  <2>1. i > 1 => i - 1 \in 1 .. Len(file)
    BY <1>1
  <2>2. file'[i] = file[i] /\ (i > 1 => file'[i - 1] = file[i - 1])
    BY <1>1, <2>1
  <2> QED BY <2>2 DEF IsFresh
<1>5. ASSUME NEW i \in Nat, i = Len(file) + 1 PROVE IsFresh(i)' <=> IsNew(text)
  <2>1. (i > 1 <=> file # <<>>) /\ i - 1 = Len(file)
    BY <1>1, <1>5, EmptySeq
  <2>2. file # <<>> => Len(file) \in 1 .. Len(file)
    BY <1>1, EmptySeq
  <2>3. file # <<>> => file'[i - 1] = file[Len(file)]
    BY <1>1, <2>1, <2>2
  <2>4. file'[i] = text
    BY <1>1, <1>5
  <2> QED BY <2>1, <2>3, <2>4 DEF IsFresh, IsNew
<1>6. (\A i \in 1 .. Len(m) : n[i] = m[i]) /\ n[Len(m) + 1] = last
  <2>1. \A i \in 1 .. Len(m) : n[i] = m[i]
    BY <1>1, <1>2, <1>4
  <2>2. PICK i \in 1 .. Len(file) + 1 : i = Len(file) + 1 /\ i \in Nat
    BY <1>1
  <2>3. n[i] = IF IsFresh(i)' THEN text ELSE <<>>
    BY <1>1, <2>2
  <2>4. n[i] = last
    BY <1>5, <2>2, <2>3
  <2> QED BY <1>2, <2>1, <2>2, <2>4
<1>7. Fresh = FlattenSeq(m) /\ Fresh' = FlattenSeq(n)
  BY DEF Fresh
<1>8. last \in Seq(Cells)
  OBVIOUS
<1> HIDE DEF m, n
<1>9. n = Append(m, last)
  BY <1>2, <1>3, <1>6, OneMore
<1>10. FlattenSeq(m) \in Seq(Cells) /\ FlattenSeq(n) = FlattenSeq(m) \o last
  BY <1>2, <1>8, <1>9, FlattenType, FlattenAppend
<1> QED BY <1>7, <1>10, ConcatEmptySeq

-----------------------------------------------------------------------------
(* The file of a LogFile.                                                  *)
Filing == Begins /\ Repeats /\ Differs /\ Complete

LEMMA ViewIs ==
    ASSUME TypeOK
    PROVE  /\ toStringView(buffer) \in Seq(Cells) /\ buffer.cur \in Nat
           /\ buffer.cur = 0 => toStringView(buffer) = <<>>
<1>1. buffer \in Fixed /\ buffer.cur \in 0 .. SIZE
  BY DEF TypeOK, Fixed
<1>2. toStringView(buffer) \in Seq(Cells) /\ Len(toStringView(buffer)) = buffer.cur
  BY <1>1, CellsAre DEF toStringView
<1> QED BY <1>1, <1>2, SizeIs, EmptySeq

(* A flush writes what was appended since the last one, or else nothing    *)
(* that counts.                                                            *)
LEMMA FlushIs ==
    ASSUME TypeOK, Filing, file' = Append(file, flushed(buffer))
    PROVE  Fresh' = Fresh \o toStringView(buffer) /\ Fresh \in Seq(Cells)
<1> DEFINE text == flushed(buffer)  view == toStringView(buffer)
<1>1. /\ text = cString(buffer) /\ text \in Seq(Cells) /\ file \in Seq(Seq(Cells)) /\ buffer \in Fixed
      /\ view \in Seq(Cells) /\ buffer.cur \in Nat
  BY CStringIs, ViewIs DEF TypeOK, flushed
<1>2. Fresh \in Seq(Cells) /\ Fresh' = IF IsNew(text) THEN Fresh \o text ELSE Fresh
  <2> HIDE DEF text
  <2> QED BY <1>1, FreshAppend DEF text
<1>3. Fresh \o <<>> = Fresh
  BY <1>2, ConcatEmptySeq
<1>4. CASE buffer.cur = 0
  <2>1. view = <<>>
    BY <1>4, ViewIs
  <2>2. file # <<>> => ~IsNew(text)
    BY <1>1, <1>4 DEF IsNew, Filing, Repeats
  <2>3. file = <<>> => text = <<>> \/ ~IsNew(text)
    BY <1>1, <1>4 DEF IsNew, Filing, Repeats
  <2> QED BY <1>2, <1>3, <2>1, <2>2, <2>3
<1>5. CASE buffer.cur > 0
  <2>1. Terminated(buffer) /\ text = view /\ text # <<>> /\ text[1] = buffer.data[0]
    BY <1>1, <1>5, CStringIs DEF TypeOK
  <2>2. \A k \in DOMAIN view : view[k] # Junk
    <3> TAKE k \in DOMAIN view
    <3>1. k \in 1 .. buffer.cur /\ view[k] = buffer.data[k - 1]
      BY DEF toStringView
    <3>2. k - 1 \in 0 .. buffer.cur - 1
      BY <1>1, <3>1
    <3> QED BY <2>1, <3>1, <3>2, NulAssumption DEF Terminated
  <2>3. file # <<>> => text # file[Len(file)]
    BY <1>5, <2>1 DEF Filing, Differs
  <2>4. IsNew(text)
    BY <2>1, <2>2, <2>3 DEF IsNew
  <2> QED BY <1>2, <2>1, <2>4
<1> QED BY <1>1, <1>4, <1>5

(* A flush by a user of the LogFile, or by its destructor.                 *)
LEMMA FlushKeeps ==
    ASSUME TypeOK, Filing, flushFile
    PROVE  /\ Filing'
           /\ buffer' \in Fixed /\ buffer'.cur = 0 /\ file' \in Seq(Seq(Cells))
<1>1. /\ file' = Append(file, flushed(buffer)) /\ buffer' = reset(buffer) /\ filed' = filed
      /\ buffer \in Fixed /\ file \in Seq(Seq(Cells)) /\ flushed(buffer) = cString(buffer)
  BY DEF flushFile, TypeOK, flushed
<1>2. /\ buffer' \in Fixed /\ buffer'.cur = 0 /\ buffer'.data = buffer.data
      /\ toStringView(buffer') = <<>> /\ cString(buffer') = cString(buffer)
  BY <1>1, ResetIs
<1>3. cString(buffer) \in Seq(Cells)
  BY <1>1, CStringIs
<1>4. /\ file' \in Seq(Seq(Cells)) /\ file' # <<>> /\ file'[Len(file')] = cString(buffer)
  <2>1. /\ file' \in Seq(Seq(Cells)) /\ Len(file') = Len(file) + 1 /\ Len(file) \in Nat
        /\ file'[Len(file) + 1] = cString(buffer)
    BY <1>1, <1>3, AppendProperties, LenProperties
  <2> QED BY <2>1
<1>5. Complete'
  <2>1. Fresh' = Fresh \o toStringView(buffer) /\ Fresh \in Seq(Cells)
    BY <1>1, FlushIs
  <2>2. Fresh' \in Seq(Cells)
    BY <2>1, ViewIs, ConcatProperties
  <2>3. Fresh' \o <<>> = Fresh'
    BY <2>2, ConcatEmptySeq
  <2>4. Contents' = Contents
    BY <1>1 DEF Contents
  <2> QED BY <1>2, <2>1, <2>3, <2>4 DEF Filing, Complete
<1>6. Begins' /\ Repeats' /\ Differs'
  BY <1>1, <1>2, <1>4 DEF Filing, Begins, Repeats, Differs
<1> QED BY <1>2, <1>4, <1>5, <1>6 DEF Filing

(* The first byte of a line that is not in the file is new to the buffer.  *)
LEMMA NewByte ==
    ASSUME Filing, NEW line \in LogLines, \A i \in DOMAIN filed : filed[i].id # line.id
    PROVE  buffer.data[0] # <<line.id, 1>>
<1>1. <<line.id, 1>> \in Bytes
  BY BytesAre
<1>2. buffer.data[0] \in {Nul, Junk} => buffer.data[0] # <<line.id, 1>>
  BY <1>1, NulAssumption
<1>3. ASSUME NEW i \in DOMAIN filed, buffer.data[0] = <<filed[i].id, 1>>
      PROVE  buffer.data[0] # <<line.id, 1>>
  BY <1>3
<1> QED BY <1>2, <1>3 DEF Filing, Begins

(* LogFile::append, with or without a flush.                               *)
LEMMA AppendFiles ==
    ASSUME TypeOK, Filing, NEW line \in LogLines,
           \A i \in DOMAIN filed : filed[i].id # line.id,
           filed' = Append(filed, line),
           IF fileFull(buffer, bytesOf(line))
           THEN /\ file' = Append(file, flushed(buffer))
                /\ buffer' = put(reset(buffer), bytesOf(line))
           ELSE /\ buffer' = put(buffer, bytesOf(line))
                /\ UNCHANGED file
    PROVE  /\ Filing'
           /\ buffer' \in Fixed /\ Terminated(buffer') /\ file' \in Seq(Seq(Cells))
<1> DEFINE buf == bytesOf(line)
<1>1. /\ buf \in Seq(Bytes) /\ buf \in Seq(Cells) /\ Len(buf) \in 1 .. SIZE - 1 /\ Len(buf) > 0
      /\ buf[1] = <<line.id, 1>> /\ Len(buf) < SIZE
  <2>1. Len(buf) = line.len /\ line.len \in 1 .. SIZE - 1 /\ buf \in Seq(Bytes) /\ buf \in Seq(Cells)
        /\ buf[1] = <<line.id, 1>>
    BY BytesAre
  <2> HIDE DEF buf
  <2> QED BY <2>1, SizeIs
<1>2. /\ buffer \in Fixed /\ (buffer.cur > 0 => Terminated(buffer)) /\ file \in Seq(Seq(Cells))
      /\ filed \in Seq(LogLines) /\ buffer.cur \in Nat
  BY ViewIs DEF TypeOK
<1>3. /\ filed' \in Seq(LogLines) /\ DOMAIN filed \subseteq DOMAIN filed'
      /\ (\A i \in DOMAIN filed : filed'[i] = filed[i])
      /\ \E i \in DOMAIN filed' : filed'[i] = line
  <2>1. /\ filed' \in Seq(LogLines) /\ Len(filed') = Len(filed) + 1 /\ Len(filed) \in Nat
        /\ (\A i \in 1 .. Len(filed) : filed'[i] = filed[i]) /\ filed'[Len(filed) + 1] = line
        /\ DOMAIN filed = 1 .. Len(filed) /\ DOMAIN filed' = 1 .. Len(filed) + 1
    BY <1>2, AppendProperties, LenProperties
  <2> QED BY <2>1
<1>4. Contents' = Contents \o buf /\ Contents \in Seq(Cells)
  BY <1>2, ContentsAppend
<1>5. buffer.data[0] # <<line.id, 1>>
  BY NewByte
<1>6. Fresh \in Seq(Cells) /\ toStringView(buffer) \in Seq(Cells)
  <2>1. Fresh \in Seq(Cells)
    <3> DEFINE m == [i \in DOMAIN file |-> IF IsFresh(i) THEN file[i] ELSE <<>>]
    <3>1. \A i \in 1 .. Len(file) : (IF IsFresh(i) THEN file[i] ELSE <<>>) \in Seq(Cells)
      BY <1>2, ElementOfSeq
    <3>2. DOMAIN file = 1 .. Len(file) /\ Len(file) \in Nat
      BY <1>2, LenProperties
    <3>3. m \in Seq(Seq(Cells))
      <4>1. m = [i \in 1 .. Len(file) |-> IF IsFresh(i) THEN file[i] ELSE <<>>]
        BY <3>2
      <4> QED BY <3>1, <3>2, <4>1, IsASeq
    <3>4. Fresh = FlattenSeq(m)
      BY DEF Fresh
    <3> HIDE DEF m
    <3> QED BY <3>3, <3>4, FlattenType
  <2> QED BY <2>1, ViewIs
<1>7. Complete => (Fresh \o toStringView(buffer)) \o buf = Contents'
  BY <1>4 DEF Complete
<1>8. CASE ~fileFull(buffer, buf)
  <2>1. buffer' = put(buffer, buf) /\ file' = file
    BY <1>8
  <2>2. ~isFullFor(buffer, Len(buf))
    BY <1>8 DEF fileFull
  <2> HIDE DEF buf
  <2>3. /\ buffer' \in Fixed /\ Terminated(buffer') /\ buffer'.cur > 0
        /\ toStringView(buffer') = toStringView(buffer) \o buf
        /\ buffer'.data[0] = IF buffer.cur = 0 THEN buf[1] ELSE buffer.data[0]
    BY <1>1, <1>2, <2>1, <2>2, PutIs
  <2>4. Fresh' = Fresh
    BY <2>1 DEF Fresh, IsFresh
  <2>5. Complete'
    <3>1. (Fresh \o toStringView(buffer)) \o buf = Fresh \o (toStringView(buffer) \o buf)
      <4> DEFINE x == Fresh  y == toStringView(buffer)
      <4>1. x \in Seq(Cells) /\ y \in Seq(Cells) /\ buf \in Seq(Cells)
        BY <1>1, <1>6
      <4> HIDE DEF x, y
      <4>2. (x \o y) \o buf = x \o (y \o buf)
        BY <4>1, ConcatAssociative
      <4> QED BY <4>2 DEF x, y
    <3> QED BY <1>7, <2>3, <2>4, <3>1 DEF Filing, Complete
  <2>6. Begins'
    <3>1. CASE buffer.cur = 0
      BY <1>1, <1>3, <2>3, <3>1 DEF Begins
    <3>2. CASE buffer.cur # 0
      BY <1>3, <2>3, <3>2 DEF Begins, Filing
    <3> QED BY <3>1, <3>2
  <2>7. Differs'
    <3>1. SUFFICES ASSUME file # <<>>
                   PROVE  file[Len(file)] = <<>> \/ file[Len(file)][1] # buffer'.data[0]
      BY <2>1 DEF Differs
    <3>2. CASE buffer.cur = 0
      <4>1. file[Len(file)] = cString(buffer)
        BY <3>1, <3>2 DEF Filing, Repeats
      <4>2. cString(buffer) # <<>> => cString(buffer)[1] = buffer.data[0]
        BY <1>2, CStringIs
      <4> QED BY <1>1, <1>5, <2>3, <3>2, <4>1, <4>2
    <3>3. CASE buffer.cur # 0
      BY <1>2, <2>3, <3>1, <3>3 DEF Filing, Differs
    <3> QED BY <3>2, <3>3
  <2>8. Repeats'
    BY <2>3 DEF Repeats
  <2> QED BY <1>2, <2>1, <2>3, <2>5, <2>6, <2>7, <2>8 DEF Filing
<1>9. CASE fileFull(buffer, buf)
  <2>1. buffer' = put(reset(buffer), buf) /\ file' = Append(file, flushed(buffer))
    BY <1>9
  <2>2. /\ reset(buffer) \in Fixed /\ reset(buffer).cur = 0 /\ toStringView(reset(buffer)) = <<>>
    BY <1>2, ResetIs
  <2>3. ~isFullFor(reset(buffer), Len(buf))
    <3> HIDE DEF buf
    <3> QED BY <1>1, <2>2, SizeIs DEF isFullFor, avail
  <2>4. buffer.cur > 0
    <3>1. avail(buffer) <= Len(buf)
      BY <1>9 DEF fileFull, isFullFor
    <3> HIDE DEF buf
    <3> QED BY <1>1, <1>2, <3>1, SizeIs DEF avail
  <2>5. /\ flushed(buffer) = cString(buffer) /\ cString(buffer) \in Seq(Cells)
        /\ cString(buffer)[1] = buffer.data[0]
    BY <1>2, <2>4, CStringIs DEF flushed
  <2>6. Fresh' = Fresh \o toStringView(buffer)
    BY <2>1, FlushIs
  <2>7. file' \in Seq(Seq(Cells)) /\ file' # <<>> /\ file'[Len(file')] = cString(buffer)
    <3>1. /\ file' \in Seq(Seq(Cells)) /\ Len(file') = Len(file) + 1 /\ Len(file) \in Nat
          /\ file'[Len(file) + 1] = cString(buffer)
      BY <1>2, <2>1, <2>5, AppendProperties, LenProperties
    <3> QED BY <3>1
  <2> HIDE DEF buf
  <2>8. /\ buffer' \in Fixed /\ Terminated(buffer') /\ buffer'.cur > 0
        /\ toStringView(buffer') = <<>> \o buf /\ buffer'.data[0] = buf[1]
    <3> DEFINE r == reset(buffer)
    <3>1. r \in Fixed /\ r.cur = 0 /\ toStringView(r) = <<>> /\ ~isFullFor(r, Len(buf)) /\ buffer' = put(r, buf)
      BY <2>1, <2>2, <2>3
    <3> HIDE DEF r
    <3>2. r.cur > 0 => Terminated(r)
      BY <3>1
    <3>3. /\ put(r, buf) \in Fixed /\ Terminated(put(r, buf)) /\ put(r, buf).cur > 0
          /\ toStringView(put(r, buf)) = toStringView(r) \o buf
          /\ put(r, buf).data[0] = IF r.cur = 0 THEN buf[1] ELSE r.data[0]
      BY <1>1, <3>1, <3>2, PutIs
    <3> QED BY <3>1, <3>3
  <2>9. Complete'
    <3>1. <<>> \o buf = buf
      BY <1>1, ConcatEmptySeq
    <3> QED BY <1>7, <2>6, <2>8, <3>1 DEF Filing, Complete
  <2>10. Begins'
    BY <1>1, <1>3, <2>8 DEF Begins
  <2>11. Differs' /\ Repeats'
    BY <1>1, <1>5, <2>5, <2>7, <2>8 DEF Differs, Repeats
  <2> QED BY <2>7, <2>8, <2>9, <2>10, <2>11 DEF Filing
<1> QED BY <1>8, <1>9

-----------------------------------------------------------------------------
(* The threads and the streams.                                            *)
LEMMA StreamsAre ==
    /\ Len(Streams) \in Nat /\ DOMAIN Streams = 1 .. Len(Streams)
    /\ \A p \in DOMAIN Streams : Streams[p] \in {"console", "file"}
    /\ \A p, q \in DOMAIN Streams : Streams[p] = Streams[q] => p = q
BY StreamsAssumption, LenProperties, ElementOfSeq

(* Who has appended to a stream owes its line to this one no more, and to  *)
(* the others as before.                                                   *)
LEMMA MovesOn ==
    ASSUME TypeOK, NEW t \in Threads, NEW stream, AtStream(t, stream), nextStream(t)
    PROVE  /\ at' \in [Threads -> 0 .. Len(Streams)]
           /\ at[t] \in DOMAIN Streams /\ Streams[at[t]] = stream
           /\ \A s \in Threads, p \in DOMAIN Streams :
                 Owes(s, p)' <=> Owes(s, p) /\ ~(s = t /\ Streams[p] = stream)
           /\ \A p \in DOMAIN Streams : Streams[p] = stream => Owes(t, p)
           /\ \A s \in Threads : at'[s] # 0 => at[s] # 0
<1> DEFINE n == Len(Streams)
<1>1. n \in Nat /\ DOMAIN Streams = 1 .. n /\ at \in [Threads -> 0 .. n]
  BY StreamsAre DEF TypeOK
<1>2. at[t] \in 1 .. n /\ Streams[at[t]] = stream
  BY <1>1 DEF AtStream
<1>3. at' = [at EXCEPT ![t] = IF at[t] = n THEN 0 ELSE at[t] + 1]
  BY DEF nextStream
<1> HIDE DEF n
<1>4. (IF at[t] = n THEN 0 ELSE at[t] + 1) \in 0 .. n
  BY <1>1, <1>2
<1>5. at' \in [Threads -> 0 .. n] /\ \A s \in Threads \ {t} : at'[s] = at[s]
  BY <1>1, <1>3, <1>4
<1>6. at'[t] = IF at[t] = n THEN 0 ELSE at[t] + 1
  BY <1>1, <1>3
<1>7. ASSUME NEW s \in Threads, NEW p \in DOMAIN Streams
      PROVE  Owes(s, p)' <=> Owes(s, p) /\ ~(s = t /\ Streams[p] = stream)
  <2>1. CASE s # t
    BY <1>5, <2>1 DEF Owes
  <2>2. CASE s = t
    <3>1. Streams[p] = stream <=> p = at[t]
      BY <1>1, <1>2, StreamsAre
    <3>2. p \in 1 .. n
      BY <1>1
    <3>3. at'[t] \in 1 .. p <=> at[t] \in 1 .. p /\ p # at[t]
      BY <1>1, <1>2, <1>6, <3>2
    <3> QED BY <2>2, <3>1, <3>3 DEF Owes
  <2> QED BY <2>1, <2>2
<1>8. \A p \in DOMAIN Streams : Streams[p] = stream => Owes(t, p)
  <2> TAKE p \in DOMAIN Streams
  <2> HAVE Streams[p] = stream
  <2>1. p = at[t]
    BY <1>1, <1>2, StreamsAre
  <2> QED BY <1>1, <1>2, <2>1 DEF Owes
<1>9. \A s \in Threads : at'[s] # 0 => at[s] # 0
  BY <1>1, <1>2, <1>5
<1> QED BY <1>1, <1>2, <1>5, <1>7, <1>8, <1>9 DEF n

(* Two threads at streams have different lines.                            *)
LEMMA OwnLine ==
    ASSUME Numbered, NEW s \in Threads, NEW t \in Threads, s # t, at[s] # 0, at[t] # 0
    PROVE  message[s].id # message[t].id
<1>1. message[s].by = s /\ message[t].by = t
  BY DEF Numbered, LinesOf
<1>2. asked[message[s].id] = message[s] /\ asked[message[t].id] = message[t]
  BY DEF Numbered
<1> QED BY <1>1, <1>2

(* log(): a line more, which its thread owes to every stream.              *)
LEMMA LogKeeps ==
    ASSUME LInv, NEW t \in Threads, NEW level \in Levels, NEW len \in 1 .. SIZE - 1, log(t, level, len)
    PROVE  LInv'
<1> DEFINE line == [id |-> Len(asked) + 1, len |-> len, level |-> level, by |-> t]
<1>1. /\ TypeOK /\ at[t] = 0 /\ Len(asked) < MaxLines /\ asked' = Append(asked, line)
      /\ UNCHANGED <<fileVars, console, inside, raced, closed, flushes>>
      /\ IF shouldLog(level)
         THEN /\ message' = [message EXCEPT ![t] = line]
              /\ at' = [at EXCEPT ![t] = IF Streams = <<>> THEN 0 ELSE 1]
         ELSE UNCHANGED <<message, at>>
  BY DEF log, LInv
<1>2. asked \in Seq(LogLines) /\ Len(asked) \in Nat /\ DOMAIN asked = 1 .. Len(asked)
  BY <1>1, LenProperties DEF TypeOK
<1>3. line \in LogLines /\ line.id = Len(asked) + 1 /\ line.by = t /\ line.level = level
  <2>1. Len(asked) + 1 \in 1 .. MaxLines
    BY <1>1, <1>2, BoundsAssumption
  <2> QED BY <2>1 DEF LogLines
<1> HIDE DEF line
<1>4. /\ asked' \in Seq(LogLines) /\ Len(asked') = Len(asked) + 1 /\ DOMAIN asked' = 1 .. Len(asked) + 1
      /\ (\A i \in 1 .. Len(asked) : asked'[i] = asked[i]) /\ asked'[Len(asked) + 1] = line
  BY <1>1, <1>2, <1>3, AppendProperties, LenProperties
<1>5. /\ \A s \in Threads \ {t} : at'[s] = at[s] /\ message'[s] = message[s]
      /\ at' \in [Threads -> 0 .. Len(Streams)] /\ message' \in [Threads -> LogLines \cup {NoLine}]
      /\ shouldLog(level) => message'[t] = line /\ at'[t] = IF Streams = <<>> THEN 0 ELSE 1
      /\ ~shouldLog(level) => at'[t] = 0
  <2>1. at \in [Threads -> 0 .. Len(Streams)] /\ message \in [Threads -> LogLines \cup {NoLine}]
    BY <1>1 DEF TypeOK
  <2>2. (IF Streams = <<>> THEN 0 ELSE 1) \in 0 .. Len(Streams)
    BY StreamsAre, StreamsAssumption, EmptySeq
  <2>3. CASE shouldLog(level)
    BY <1>1, <1>3, <2>1, <2>2, <2>3
  <2>4. CASE ~shouldLog(level)
    BY <1>1, <2>1, <2>4
  <2> QED BY <2>3, <2>4
<1>6. TypeOK'
  BY <1>1, <1>4, <1>5 DEF TypeOK, fileVars
<1>7. line \in Severe <=> shouldLog(level)
  BY <1>3 DEF Severe, shouldLog
<1>8. \A s \in Threads : line \in LinesOf(s) <=> s = t
  BY <1>3 DEF LinesOf
<1>9. Numbered'
  <2>1. \A i \in DOMAIN asked' : asked'[i].id = i
    BY <1>2, <1>3, <1>4 DEF LInv, Numbered
  <2>2. ASSUME NEW s \in Threads, at'[s] # 0
        PROVE  /\ message'[s] \in LinesOf(s) \cap Severe /\ message'[s].id \in DOMAIN asked'
               /\ asked'[message'[s].id] = message'[s]
    <3>1. CASE s # t
      <4>1. /\ message[s] \in LinesOf(s) \cap Severe /\ message[s].id \in 1 .. Len(asked)
            /\ asked[message[s].id] = message[s] /\ message'[s] = message[s]
        BY <1>2, <1>5, <2>2, <3>1 DEF LInv, Numbered
      <4> QED BY <1>2, <1>4, <4>1
    <3>2. CASE s = t
      BY <1>2, <1>3, <1>4, <1>5, <1>7, <1>8, <2>2, <3>2
    <3> QED BY <3>1, <3>2
  <2> QED BY <2>1, <2>2 DEF Numbered
<1>10. Owing'
  <2> SUFFICES ASSUME NEW s \in Threads, NEW p \in DOMAIN Streams
               PROVE  Due(s)' = IF Owes(s, p)' THEN Append(Has(s, Streams[p])', message'[s])
                                ELSE Has(s, Streams[p])'
    BY DEF Owing
  <2>1. Has(s, Streams[p])' = Has(s, Streams[p])
    BY <1>1 DEF Has, Shown, fileVars
  <2>2. Due(s) = IF Owes(s, p) THEN Append(Has(s, Streams[p]), message[s]) ELSE Has(s, Streams[p])
    BY DEF LInv, Owing
  <2>3. Due(s)' = IF line \in LinesOf(s) \cap Severe THEN Append(Due(s), line) ELSE Due(s)
    BY <1>1, <1>2, <1>3, ThoseAppend DEF Due
  <2>4. CASE s # t
    <3>1. Due(s)' = Due(s)
      BY <1>8, <2>3, <2>4
    <3>2. (Owes(s, p)' <=> Owes(s, p)) /\ message'[s] = message[s]
      BY <1>5, <2>4 DEF Owes
    <3> QED BY <2>1, <2>2, <3>1, <3>2
  <2>5. CASE s = t
    <3>1. Due(s) = Has(s, Streams[p])
      BY <1>1, <2>2, <2>5 DEF Owes
    <3>2. CASE shouldLog(level)
      <4>1. at'[t] = 1 /\ 1 \in 1 .. p /\ message'[s] = line
        BY <1>5, <2>5, <3>2, StreamsAre, EmptySeq
      <4>2. Owes(s, p)'
        BY <2>5, <4>1 DEF Owes
      <4> QED BY <1>7, <1>8, <2>1, <2>3, <2>5, <3>1, <3>2, <4>1, <4>2
    <3>3. CASE ~shouldLog(level)
      <4>1. ~Owes(s, p)'
        BY <1>5, <2>5, <3>3 DEF Owes
      <4> QED BY <1>7, <2>1, <2>3, <3>1, <3>3, <4>1
    <3> QED BY <3>2, <3>3
  <2> QED BY <2>4, <2>5
<1>11. Unfiled'
  <2>1. filed' = filed
    BY <1>1 DEF fileVars
  <2>2. \A i \in DOMAIN filed : filed[i].id \in 1 .. Len(asked)
    BY <1>2 DEF LInv, Unfiled
  <2>3. \A i \in DOMAIN filed' : filed'[i].id \in DOMAIN asked'
    BY <1>2, <1>4, <2>1, <2>2
  <2>4. ASSUME NEW s \in Threads, NEW p \in DOMAIN Streams, NEW i \in DOMAIN filed,
               Streams[p] = "file", Owes(s, p)'
        PROVE  filed[i].id # message'[s].id
    <3>1. CASE s # t
      <4>1. Owes(s, p) /\ message'[s] = message[s]
        BY <1>5, <2>4, <3>1 DEF Owes
      <4> QED BY <2>4, <4>1 DEF LInv, Unfiled
    <3>2. CASE s = t
      <4>1. message'[s] = line
        BY <1>5, <2>4, <3>2 DEF Owes
      <4> QED BY <1>2, <1>3, <2>2, <4>1
    <3> QED BY <3>1, <3>2
  <2> QED BY <2>1, <2>3, <2>4 DEF Unfiled
<1>12. Begins' /\ Repeats' /\ Differs' /\ Complete'
  BY <1>1 DEF LInv, Begins, Repeats, Differs, Complete, Fresh, IsFresh, Contents, fileVars
<1> QED BY <1>6, <1>9, <1>10, <1>11, <1>12 DEF LInv

(* A line that was appended to a stream is owed to it no more.             *)
LEMMA Appended ==
    ASSUME TypeOK, Numbered, Owing, NEW t \in Threads, NEW stream \in {"console", "file"},
           AtStream(t, stream), nextStream(t), UNCHANGED <<message, asked>>,
           Shown(stream) \in Seq(LogLines), Shown(stream)' = Append(Shown(stream), message[t]),
           \A other \in {"console", "file"} : other # stream => Shown(other)' = Shown(other)
    PROVE  Numbered' /\ Owing' /\ message[t] \in LogLines
<1>1. \A s \in Threads : at'[s] # 0 => at[s] # 0
  BY MovesOn
<1>2. Numbered'
  BY <1>1 DEF Numbered
<1>3. at[t] # 0 /\ message[t] \in LinesOf(t) /\ message[t] \in LogLines
  BY DEF AtStream, Numbered, LinesOf
<1>4. ASSUME NEW s \in Threads, NEW p \in DOMAIN Streams
      PROVE  Due(s)' = IF Owes(s, p)' THEN Append(Has(s, Streams[p])', message'[s])
                       ELSE Has(s, Streams[p])'
  <2>1. Due(s) = IF Owes(s, p) THEN Append(Has(s, Streams[p]), message[s]) ELSE Has(s, Streams[p])
    BY DEF Owing
  <2>2. Due(s)' = Due(s)
    BY DEF Due
  <2>3. Owes(s, p)' <=> Owes(s, p) /\ ~(s = t /\ Streams[p] = stream)
    BY MovesOn
  <2>4. CASE Streams[p] # stream
    <3>1. Shown(Streams[p])' = Shown(Streams[p])
      BY <2>4, StreamsAre
    <3>2. Has(s, Streams[p])' = Has(s, Streams[p])
      BY <3>1 DEF Has
    <3> QED BY <2>1, <2>2, <2>3, <2>4, <3>2
  <2>5. CASE Streams[p] = stream
    <3>1. Has(s, Streams[p])' = IF message[t] \in LinesOf(s) THEN Append(Has(s, Streams[p]), message[t])
                                ELSE Has(s, Streams[p])
      <4> DEFINE lines == Shown(stream)
      <4>1. Shown(Streams[p]) = lines /\ Shown(Streams[p])' = lines'
        BY <2>5 DEF Shown
      <4>2. Has(s, Streams[p]) = Those(lines, LinesOf(s)) /\ Has(s, Streams[p])' = Those(lines', LinesOf(s))
        BY <4>1 DEF Has
      <4>3. lines \in Seq(LogLines) /\ lines' = Append(lines, message[t])
        OBVIOUS
      <4> HIDE DEF lines
      <4>4. Those(Append(lines, message[t]), LinesOf(s)) =
               IF message[t] \in LinesOf(s) THEN Append(Those(lines, LinesOf(s)), message[t])
               ELSE Those(lines, LinesOf(s))
        BY <1>3, <4>3, ThoseAppend
      <4> QED BY <4>2, <4>3, <4>4
    <3>2. message[t] \in LinesOf(s) <=> s = t
      BY <1>3 DEF LinesOf
    <3>3. CASE s = t
      <4>1. Owes(t, p)
        BY <2>5, MovesOn
      <4> QED BY <2>1, <2>2, <2>3, <2>5, <3>1, <3>2, <3>3, <4>1
    <3>4. CASE s # t
      BY <2>1, <2>2, <2>3, <3>1, <3>2, <3>4
    <3> QED BY <3>3, <3>4
  <2> QED BY <2>4, <2>5
<1> QED BY <1>2, <1>3, <1>4 DEF Owing

LEMMA ConsoleKeeps == ASSUME LInv, NEW t \in Threads, appendConsole(t) PROVE LInv'
<1>1. /\ AtStream(t, "console") /\ nextStream(t) /\ console' = Append(console, message[t])
      /\ UNCHANGED <<fileVars, message, inside, raced, closed, flushes, asked>>
      /\ TypeOK /\ Numbered /\ Owing /\ Unfiled
  BY DEF appendConsole, LInv
<1>2. /\ Shown("console") = console /\ Shown("console")' = console'
      /\ Shown("file") = filed /\ Shown("file")' = filed'
  BY DEF Shown
<1>3. Numbered' /\ Owing' /\ message[t] \in LogLines
  <2>1. UNCHANGED <<message, asked>> /\ filed' = filed /\ console \in Seq(LogLines)
    BY <1>1 DEF fileVars, TypeOK
  <2>2. \A other \in {"console", "file"} : other # "console" => Shown(other)' = Shown(other)
    BY <1>2, <2>1
  <2> QED BY <1>1, <1>2, <2>1, <2>2, Appended
<1>4. at' \in [Threads -> 0 .. Len(Streams)]
  BY <1>1, MovesOn
<1>5. TypeOK'
  <2>1. console' \in Seq(LogLines)
    BY <1>1, <1>3, AppendProperties DEF TypeOK
  <2> QED BY <1>1, <1>4, <2>1 DEF TypeOK, fileVars
<1>6. Unfiled'
  <2>1. \A s \in Threads, p \in DOMAIN Streams : Owes(s, p)' => Owes(s, p)
    BY <1>1, MovesOn
  <2>2. UNCHANGED <<filed, message, asked>>
    BY <1>1 DEF fileVars
  <2> QED BY <1>1, <2>1, <2>2 DEF Unfiled
<1>7. Begins' /\ Repeats' /\ Differs' /\ Complete'
  BY <1>1 DEF LInv, Begins, Repeats, Differs, Complete, Fresh, IsFresh, Contents, fileVars
<1> QED BY <1>3, <1>5, <1>6, <1>7 DEF LInv

LEMMA AppendKeeps == ASSUME LInv, NEW t \in Threads, append(t) PROVE LInv'
<1>1. /\ AtStream(t, "file") /\ nextStream(t) /\ filed' = Append(filed, message[t])
      /\ UNCHANGED <<console, message, raced, closed, flushes, asked>> /\ inside' = inside \ {t}
      /\ TypeOK /\ Numbered /\ Owing /\ Unfiled /\ Filing
  BY DEF append, LInv, Filing
<1>2. /\ Shown("console") = console /\ Shown("console")' = console'
      /\ Shown("file") = filed /\ Shown("file")' = filed'
  BY DEF Shown
<1>3. Numbered' /\ Owing' /\ message[t] \in LogLines
  <2>1. UNCHANGED <<message, asked>> /\ console' = console /\ filed \in Seq(LogLines)
    BY <1>1 DEF TypeOK
  <2>2. \A other \in {"console", "file"} : other # "file" => Shown(other)' = Shown(other)
    BY <1>2, <2>1
  <2> QED BY <1>1, <1>2, <2>1, <2>2, Appended
<1>4. /\ at' \in [Threads -> 0 .. Len(Streams)]
      /\ at[t] \in DOMAIN Streams /\ Streams[at[t]] = "file" /\ Owes(t, at[t])
      /\ \A s \in Threads, p \in DOMAIN Streams :
            Streams[p] = "file" /\ Owes(s, p)' => Owes(s, p) /\ s # t
  BY <1>1, MovesOn
<1>5. \A i \in DOMAIN filed : filed[i].id # message[t].id
  BY <1>1, <1>4 DEF Unfiled
<1>6. /\ Filing'
      /\ buffer' \in Fixed /\ Terminated(buffer') /\ file' \in Seq(Seq(Cells))
  <2>1. IF fileFull(buffer, bytesOf(message[t]))
        THEN /\ file' = Append(file, flushed(buffer))
             /\ buffer' = put(reset(buffer), bytesOf(message[t]))
        ELSE /\ buffer' = put(buffer, bytesOf(message[t]))
             /\ UNCHANGED file
    BY DEF append
  <2> DEFINE line == message[t]
  <2>2. line \in LogLines /\ (\A i \in DOMAIN filed : filed[i].id # line.id) /\ filed' = Append(filed, line)
    BY <1>1, <1>3, <1>5
  <2> QED BY <1>1, <2>1, <2>2, AppendFiles
<1>7. /\ filed' \in Seq(LogLines) /\ Len(filed') = Len(filed) + 1 /\ Len(filed) \in Nat
      /\ (\A i \in 1 .. Len(filed) : filed'[i] = filed[i]) /\ filed'[Len(filed) + 1] = message[t]
      /\ DOMAIN filed = 1 .. Len(filed) /\ DOMAIN filed' = 1 .. Len(filed) + 1
  <2>1. filed \in Seq(LogLines)
    BY <1>1 DEF TypeOK
  <2> QED BY <1>1, <1>3, <2>1, AppendProperties, LenProperties
<1>8. TypeOK'
  BY <1>1, <1>4, <1>6, <1>7 DEF TypeOK
<1>9. Unfiled'
  <2>1. message[t].id \in DOMAIN asked /\ at[t] # 0
    BY <1>1 DEF AtStream, Numbered
  <2>2. \A i \in DOMAIN filed' : i \in DOMAIN filed \/ filed'[i] = message[t]
    BY <1>7
  <2>3. \A i \in DOMAIN filed : filed'[i] = filed[i]
    BY <1>7
  <2>4. \A i \in DOMAIN filed' : filed'[i].id \in DOMAIN asked'
    BY <1>1, <2>1, <2>2, <2>3 DEF Unfiled
  <2>5. ASSUME NEW s \in Threads, NEW p \in DOMAIN Streams, NEW i \in DOMAIN filed',
               Streams[p] = "file", Owes(s, p)'
        PROVE  filed'[i].id # message'[s].id
    <3>1. Owes(s, p) /\ s # t /\ message'[s] = message[s] /\ at[s] # 0
      BY <1>1, <1>4, <2>5, StreamsAre DEF Owes
    <3>2. CASE i \in DOMAIN filed
      BY <1>1, <2>3, <2>5, <3>1, <3>2 DEF Unfiled
    <3>3. CASE filed'[i] = message[t]
      BY <1>1, <2>1, <3>1, <3>3, OwnLine
    <3> QED BY <2>2, <3>2, <3>3
  <2> QED BY <2>4, <2>5 DEF Unfiled
<1> QED BY <1>3, <1>6, <1>8, <1>9 DEF LInv, Filing

(* A flush, by a user or by the destructor, moves no thread.               *)
LEMMA FlushedKeeps == ASSUME LInv, flush \/ Destroy PROVE LInv'
<1>1. /\ UNCHANGED <<console, at, message, asked, filed, inside>> /\ raced' \in BOOLEAN
      /\ closed' \in BOOLEAN /\ flushes' \in 0 .. MaxFlushes
      /\ flushFile \/ UNCHANGED fileVars
      /\ TypeOK /\ Filing
  <2>1. TypeOK /\ Filing /\ flushes \in 0 .. MaxFlushes /\ raced \in BOOLEAN /\ closed \in BOOLEAN
    BY DEF LInv, Filing, TypeOK
  <2>2. CASE flush
    <3>1. /\ flushes < MaxFlushes /\ flushes' = flushes + 1 /\ UNCHANGED <<inside, closed>>
          /\ IF inside = {} THEN flushFile /\ UNCHANGED raced
             ELSE raced' = TRUE /\ UNCHANGED <<fileVars, console, at, message, asked>>
      BY <2>2 DEF flush
    <3>2. flushes' \in 0 .. MaxFlushes
      BY <2>1, <3>1, BoundsAssumption
    <3>3. CASE inside = {}
      <4>1. flushFile /\ raced' = raced
        BY <3>1, <3>3
      <4>2. UNCHANGED <<filed, console, at, message, asked>>
        BY <4>1 DEF flushFile
      <4> QED BY <2>1, <3>1, <3>2, <4>1, <4>2
    <3>4. CASE inside # {}
      BY <2>1, <3>1, <3>2, <3>4 DEF fileVars
    <3> QED BY <3>3, <3>4
  <2>3. CASE Destroy
    <3>1. flushFile /\ closed' = TRUE /\ UNCHANGED <<inside, raced, flushes>>
      BY <2>3 DEF Destroy
    <3>2. UNCHANGED <<filed, console, at, message, asked>>
      BY <3>1 DEF flushFile
    <3> QED BY <2>1, <3>1, <3>2
  <2> QED BY <2>2, <2>3
<1>2. /\ Filing' /\ buffer' \in Fixed /\ (buffer'.cur > 0 => Terminated(buffer'))
      /\ file' \in Seq(Seq(Cells))
  <2>1. CASE flushFile
    BY <1>1, <2>1, FlushKeeps
  <2>2. CASE UNCHANGED fileVars
    BY <1>1, <2>2
    DEF Filing, Begins, Repeats, Differs, Complete, Fresh, IsFresh, Contents, fileVars, TypeOK
  <2> QED BY <1>1, <2>1, <2>2
<1>3. TypeOK'
  BY <1>1, <1>2 DEF TypeOK
<1>4. Numbered' /\ Unfiled'
  BY <1>1 DEF LInv, Numbered, Unfiled, Owes
<1>5. Owing'
  BY <1>1 DEF LInv, Owing, Owes, Due, Has, Shown
<1> QED BY <1>2, <1>3, <1>4, <1>5 DEF LInv, Filing

LEMMA EnterKeeps ==
    ASSUME LInv, UNCHANGED vars \/ \E t \in Threads : enterAppend(t)
    PROVE  LInv'
<1>1. /\ UNCHANGED <<fileVars, console, at, message, closed, flushes, asked>>
      /\ inside' \subseteq Threads /\ raced' \in BOOLEAN /\ TypeOK
  BY DEF enterAppend, vars, fileVars, LInv, TypeOK
<1>2. TypeOK'
  BY <1>1 DEF TypeOK, fileVars
<1>3. Numbered' /\ Unfiled'
  BY <1>1 DEF LInv, Numbered, Unfiled, Owes, fileVars
<1>4. Owing'
  BY <1>1 DEF LInv, Owing, Owes, Due, Has, Shown, fileVars
<1>5. Begins' /\ Repeats' /\ Differs' /\ Complete'
  BY <1>1 DEF LInv, Begins, Repeats, Differs, Complete, Fresh, IsFresh, Contents, fileVars
<1> QED BY <1>2, <1>3, <1>4, <1>5 DEF LInv

LEMMA Initially == Init => LInv
<1> SUFFICES ASSUME Init PROVE LInv
  OBVIOUS
<1>1. /\ buffer \in NewFixed /\ file = <<>> /\ filed = <<>> /\ console = <<>> /\ asked = <<>>
      /\ at = [t \in Threads |-> 0] /\ message = [t \in Threads |-> NoLine]
      /\ inside = {} /\ raced = FALSE /\ closed = FALSE /\ flushes = 0
  BY DEF Init
<1>2. PICK c \in {Nul, Junk} : buffer = [data |-> [i \in 0 .. SIZE - 1 |-> c], cur |-> 0]
  BY <1>1 DEF NewFixed
<1>3. buffer \in Fixed /\ buffer.cur = 0 /\ \A i \in 0 .. SIZE - 1 : buffer.data[i] = c
  BY <1>2, SizeIs DEF Fixed
<1>4. TypeOK
  <2>1. /\ file \in Seq(Seq(Cells)) /\ console \in Seq(LogLines) /\ asked \in Seq(LogLines)
        /\ filed \in Seq(LogLines)
    BY <1>1
  <2>2. at \in [Threads -> 0 .. Len(Streams)] /\ flushes \in 0 .. MaxFlushes
    BY <1>1, StreamsAre, BoundsAssumption
  <2>3. message \in [Threads -> LogLines \cup {NoLine}]
    BY <1>1
  <2>4. inside \subseteq Threads /\ raced \in BOOLEAN /\ closed \in BOOLEAN
    BY <1>1
  <2>5. ~(buffer.cur > 0)
    BY <1>3
  <2> QED BY <1>3, <2>1, <2>2, <2>3, <2>4, <2>5 DEF TypeOK
<1>5. Numbered /\ Unfiled
  BY <1>1 DEF Numbered, Unfiled
<1>6. Owing
  <2>1. \A t \in Threads, p \in DOMAIN Streams : ~Owes(t, p)
    BY <1>1, StreamsAre DEF Owes
  <2>2. \A t \in Threads : Due(t) = <<>>
    BY <1>1, ThoseOfNone DEF Due
  <2>3. \A t \in Threads, p \in DOMAIN Streams : Has(t, Streams[p]) = <<>>
    BY <1>1, ThoseOfNone DEF Has, Shown
  <2> QED BY <2>1, <2>2, <2>3 DEF Owing
<1>7. Begins
  <2>1. 0 \in 0 .. SIZE - 1
    BY SizeIs
  <2> QED BY <1>3, <2>1 DEF Begins
<1>8. Repeats
  <2> DEFINE nuls == {i \in 0 .. SIZE - 1 : buffer.data[i] = Nul}
             n == IF nuls = {} THEN SIZE ELSE Min(nuls)
  <2>1. cString(buffer) = [k \in 1 .. n |-> buffer.data[k - 1]]
    BY DEF cString
  <2>2. 0 \in 0 .. SIZE - 1
    BY SizeIs
  <2>3. CASE c = Nul
    <3>1. Terminated(buffer)
      BY <1>3, <2>2, <2>3, SizeIs DEF Terminated
    <3>2. cString(buffer) = <<>>
      BY <1>3, <1>4, <3>1, CStringIs, ViewIs
    <3> QED BY <1>1, <3>2 DEF Repeats
  <2>4. CASE c = Junk
    <3>1. nuls = {}
      BY <1>3, <2>4, NulAssumption
    <3>2. 1 \in 1 .. SIZE /\ 1 - 1 = 0
      BY SizeIs
    <3> HIDE DEF nuls
    <3>3. cString(buffer)[1] = Junk /\ 1 \in DOMAIN cString(buffer)
      BY <1>3, <2>1, <2>2, <2>4, <3>1, <3>2
    <3> QED BY <1>1, <3>3 DEF Repeats
  <2> QED BY <2>3, <2>4
<1>9. Differs
  BY <1>1 DEF Differs
<1>10. Complete
  <2>1. toStringView(buffer) = <<>>
    BY <1>3, <1>4, ViewIs
  <2>2. Fresh = <<>>
    <3> DEFINE m == [i \in DOMAIN file |-> IF IsFresh(i) THEN file[i] ELSE <<>>]
    <3>1. m = <<>>
      BY <1>1
    <3>2. Fresh = FlattenSeq(m)
      BY DEF Fresh
    <3> QED BY <3>1, <3>2, FlattenEmpty
  <2>3. Contents = <<>>
    <3> DEFINE m == [i \in DOMAIN filed |-> bytesOf(filed[i])]
    <3>1. m = <<>>
      BY <1>1
    <3>2. Contents = FlattenSeq(m)
      BY DEF Contents
    <3> QED BY <3>1, <3>2, FlattenEmpty
  <2>4. <<>> \o <<>> = <<>>
    BY ConcatEmptySeq
  <2> QED BY <2>1, <2>2, <2>3, <2>4 DEF Complete
<1> QED BY <1>4, <1>5, <1>6, <1>7, <1>8, <1>9, <1>10 DEF LInv

LEMMA Steps == LInv /\ [Next]_vars => LInv'
<1> SUFFICES ASSUME LInv, [Next]_vars PROVE LInv'
  OBVIOUS
<1>1. ASSUME NEW t \in Threads, logAt(t) PROVE LInv'
  BY <1>1, LogKeeps DEF logAt
<1>2. ASSUME NEW t \in Threads, appendConsole(t) PROVE LInv'
  BY <1>2, ConsoleKeeps
<1>3. ASSUME NEW t \in Threads, append(t) PROVE LInv'
  BY <1>3, AppendKeeps
<1>4. CASE UNCHANGED vars \/ \E t \in Threads : enterAppend(t)
  BY <1>4, EnterKeeps
<1>5. CASE flush \/ Destroy
  BY <1>5, FlushedKeeps
<1> QED BY <1>1, <1>2, <1>3, <1>4, <1>5 DEF Next

(* What the streams owe the threads, and what the array and the last flush *)
(* have to do with each other, hold throughout.                            *)
THEOREM Inductive == Spec => []LInv
BY Initially, Steps, PTL DEF Spec

(* The cursor stays inside the array, and once something was appended it   *)
(* stands on the first NUL.                                                *)
THEOREM TypeCorrect == Spec => []TypeOK
<1>1. LInv => TypeOK
  BY DEF LInv
<1> QED BY <1>1, Inductive, PTL

(* All but the last. *)
LEMMA FrontIs ==
    ASSUME NEW E, NEW s \in Seq(E), NEW x \in E
    PROVE  Front(Append(s, x)) = s
<1> DEFINE t == Append(s, x)  f == SubSeq(t, 1, Len(s))
<1>1. /\ t \in Seq(E) /\ Len(t) = Len(s) + 1 /\ Len(s) \in Nat /\ Len(t) - 1 = Len(s)
      /\ \A i \in 1 .. Len(s) : t[i] = s[i]
  BY AppendProperties, LenProperties
<1> HIDE DEF t
<1>2. f \in Seq(E) /\ Len(f) = Len(s) /\ \A i \in 1 .. Len(s) : f[i] = t[i]
  <2>1. \A i \in 1 .. Len(s) : t[i] \in E
    BY <1>1, ElementOfSeq
  <2>2. 1 \in Int /\ Len(s) \in Int /\ (1 <= Len(s) + 1)
    BY <1>1
  <2> QED BY <1>1, <2>1, <2>2, SubSeqProperties
<1> HIDE DEF f
<1>3. f = s
  BY <1>1, <1>2, SeqEqual
<1> QED BY <1>1, <1>3 DEF Front, t, f

(* Each stream has the lines of each thread, in order, all but the one it  *)
(* may be about to append; and the file and the buffer behind it hold the  *)
(* bytes of each line once, in order, besides what flush() repeats.        *)
THEOREM LinesInFile == Spec => []FileIsLines
<1>1. LInv => FileIsLines
  <2> SUFFICES ASSUME LInv PROVE FileIsLines
    OBVIOUS
  <2>1. ASSUME NEW t \in Threads, NEW stream \in ToSet(Streams)
        PROVE  IF at[t] = 0 THEN Has(t, stream) = Due(t)
               ELSE Has(t, stream) \in {Due(t), Front(Due(t))}
    <3>1. PICK p \in DOMAIN Streams : Streams[p] = stream
      BY DEF ToSet
    <3>2. Due(t) = IF Owes(t, p) THEN Append(Has(t, stream), message[t]) ELSE Has(t, stream)
      BY <3>1 DEF LInv, Owing
    <3>3. CASE ~Owes(t, p)
      BY <3>2, <3>3
    <3>4. CASE Owes(t, p)
      <4>1. at[t] # 0
        BY <3>4, StreamsAre DEF Owes
      <4>2. message[t] \in LogLines
        BY <4>1 DEF LInv, Numbered, LinesOf
      <4>3. Has(t, stream) \in Seq(LogLines)
        BY <4>2, ThoseAppend DEF Has, Shown, LInv, TypeOK
      <4> QED BY <3>2, <3>4, <4>1, <4>2, <4>3, FrontIs
    <3> QED BY <3>3, <3>4
  <2>2. EveryStream
    BY <2>1 DEF EveryStream, Has, Due
  <2> QED BY <2>2 DEF FileIsLines, LInv, Complete
<1> QED BY <1>1, Inductive, PTL
=============================================================================
