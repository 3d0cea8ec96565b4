------------------------- MODULE AsyncLogFile_proofs -------------------------
(***************************************************************************)
(* For any lines and any capacity of a buffer: the logging thread and      *)
(* append() never meet an empty BufferPtr, buffersToWrite has a buffer for *)
(* each spare to be replaced, no notification is lost, and the lines come  *)
(* to the file in order.  Then, of RollingFile, the files behind that one: *)
(* for any sizes, clock and parameters they read in the order written, and *)
(* no roll or flush is overdue.                                            *)
(***************************************************************************)
EXTENDS AsyncLogFile, RollingFile, SequenceTheorems, WellFoundedInduction, TLAPS

(* _nextBuffer is gone only if append() has pushed a buffer since the last *)
(* swap.  So a swap that takes the second spare takes two buffers at       *)
(* least, and between the swap and the recycling this can be told from the *)
(* spares that are missing.                                                *)
NextPushed == next = Null => Len(buffers) >= 1
SparesTaken ==
    pc \in {"write", "recycle"} =>
        /\ spare1 = Null /\ Len(toWrite) >= 1
        /\ spare2 = Null => Len(toWrite) >= 2
NotStarted == stopper = "new" => pc = "new"

IInv == TypeOK /\ NextPushed /\ SparesTaken /\ NotStarted /\ NoLostNotify

-----------------------------------------------------------------------------
(* The buffers a line can make. *)
LEMMA LineFits ==
    ASSUME NEW line \in Lines
    PROVE  /\ <<>> \in Buffers /\ <<line>> \in Buffers
           /\ \A b \in Buffers : Len(b) < Capacity => Append(b, line) \in Buffers
           /\ Buffers \subseteq Seq(Lines)
<1>1. Buffers = UNION {[1 .. n -> Lines] : n \in 0 .. Capacity}
  BY DEF Buffers
<1>2. <<>> \in [1 .. 0 -> Lines] /\ <<line>> \in [1 .. 1 -> Lines]
  OBVIOUS
<1>3. 0 \in 0 .. Capacity /\ 1 \in 0 .. Capacity
  BY CapacityAssumption
<1>4. ASSUME NEW b \in Buffers, Len(b) < Capacity PROVE Append(b, line) \in Buffers
  <2>1. PICK n \in 0 .. Capacity : b \in [1 .. n -> Lines]
    BY <1>1
  <2>2. n \in Nat /\ b \in Seq(Lines) /\ Len(b) = n
    BY <2>1, CapacityAssumption
  <2>3. Append(b, line) \in [1 .. n + 1 -> Lines]
    <3>1. Append(b, line) \in Seq(Lines) /\ Len(Append(b, line)) = n + 1
      BY <2>2, AppendProperties
    <3> QED BY <3>1, LenProperties
  <2>4. n + 1 \in 0 .. Capacity
    BY <1>4, <2>1, <2>2, CapacityAssumption
  <2> QED BY <1>1, <2>3, <2>4
<1>5. Buffers \subseteq Seq(Lines)
  BY <1>1, CapacityAssumption
<1> QED BY <1>1, <1>2, <1>3, <1>4, <1>5

LEMMA EmptyBuffer == <<>> \in Buffers /\ Null # <<>> /\ Buffers \subseteq Seq(Lines)
<1>1. <<>> \in [1 .. 0 -> Lines] /\ 0 \in 0 .. Capacity
  BY CapacityAssumption
<1>2. <<>> \in Buffers
  BY <1>1 DEF Buffers
<1>3. Buffers \subseteq Seq(Lines)
  BY CapacityAssumption DEF Buffers
<1> QED BY <1>2, <1>3, NullAssumption

LEMMA Initially == Init => IInv
<1> SUFFICES ASSUME Init PROVE IInv
  OBVIOUS
<1>1. /\ buffers \in Seq(Buffers) /\ toWrite \in Seq(Buffers)
      /\ written \in 0 .. Len(toWrite)
  BY DEF Init
<1>2. file \in Seq(Lines) /\ appended \in Seq(Lines) /\ before \in Seq(Lines)
  BY DEF Init
<1>3. TypeOK
  BY <1>1, <1>2, EmptyBuffer DEF Init, TypeOK
<1>4. NextPushed /\ SparesTaken /\ NotStarted /\ NoLostNotify
  BY EmptyBuffer DEF Init, NextPushed, SparesTaken, NotStarted, NoLostNotify
<1> QED BY <1>3, <1>4 DEF IInv

(* append() pushes before it leaves _nextBuffer empty, and then notifies.  *)
LEMMA AppendKeeps == ASSUME IInv, NEW line \in Lines, append(line) PROVE IInv'
<1>1. UNCHANGED <<threadVars, stopVars>> /\ appended' \in Seq(Lines)
  BY DEF append, IInv, TypeOK
<1>2. CASE Len(current) < Capacity
  <2>1. current' \in Buffers /\ UNCHANGED <<next, buffers, notified>>
    BY <1>2, LineFits DEF append, IInv, TypeOK
  <2> QED BY <1>1, <2>1
    DEF IInv, TypeOK, NextPushed, SparesTaken, NotStarted, NoLostNotify, threadVars, stopVars
<1>3. CASE ~(Len(current) < Capacity)
  <2>1. buffers' = Append(buffers, current) /\ next' = Null /\ notify_one
    BY <1>3 DEF append
  <2>2. buffers' \in Seq(Buffers) /\ Len(buffers') >= 1
    BY <2>1 DEF IInv, TypeOK
  <2>3. current' \in Buffers
    <3>1. Append(<<>>, line) = <<line>>
      OBVIOUS
    <3>2. current' = <<line>>
      BY <1>3, <3>1 DEF append, IInv, TypeOK
    <3> QED BY <3>2, LineFits
  <2>4. notified' \in BOOLEAN /\ (pc = "wait" => notified')
    BY <2>1 DEF notify_one, IInv, TypeOK
  <2>5. TypeOK'
    BY <1>1, <2>1, <2>2, <2>3, <2>4 DEF IInv, TypeOK, threadVars, stopVars
  <2>6. NextPushed' /\ SparesTaken' /\ NotStarted' /\ NoLostNotify'
    BY <1>1, <2>2, <2>4
    DEF IInv, NextPushed, SparesTaken, NotStarted, NoLostNotify, threadVars, stopVars
  <2> QED BY <2>5, <2>6 DEF IInv
<1> QED BY <1>2, <1>3

LEMMA FlushBuffersKeeps ==
    ASSUME TypeOK, NextPushed, NoLostNotify, flushBuffers, pc' = pc, next' = next
    PROVE  /\ current' \in Buffers /\ buffers' \in Seq(Buffers) /\ notified' \in BOOLEAN
           /\ NextPushed' /\ NoLostNotify'
<1>1. CASE current = <<>>
  BY <1>1 DEF flushBuffers, TypeOK, NextPushed, NoLostNotify
<1>2. CASE current # <<>>
  <2>1. buffers' = Append(buffers, current) /\ current' = <<>> /\ notify_one
    BY <1>2 DEF flushBuffers
  <2>2. buffers' \in Seq(Buffers) /\ Len(buffers') >= 1
    BY <2>1 DEF TypeOK
  <2>3. notified' \in BOOLEAN /\ (pc = "wait" => notified')
    BY <2>1 DEF notify_one, TypeOK
  <2> QED BY <2>1, <2>2, <2>3, EmptyBuffer DEF NextPushed, NoLostNotify
<1> QED BY <1>1, <1>2

LEMMA FlushKeeps == IInv /\ (flush \/ stopFlush) => IInv'
<1> SUFFICES ASSUME IInv, flush \/ stopFlush PROVE IInv'
  OBVIOUS
<1>1. /\ flushBuffers /\ UNCHANGED <<next, threadVars, running, appended, before>>
      /\ stopper' \in {stopper, "join"} /\ (stopper' = "new" => stopper = "new")
  BY DEF flush, stopFlush, stopVars
<1>2. pc' = pc /\ next' = next
  BY <1>1 DEF threadVars
<1>3. /\ current' \in Buffers /\ buffers' \in Seq(Buffers) /\ notified' \in BOOLEAN
      /\ NextPushed' /\ NoLostNotify'
  BY <1>1, <1>2, FlushBuffersKeeps DEF IInv
<1>4. TypeOK'
  BY <1>1, <1>3 DEF IInv, TypeOK, threadVars
<1>5. SparesTaken' /\ NotStarted'
  BY <1>1 DEF IInv, SparesTaken, NotStarted, threadVars
<1> QED BY <1>3, <1>4, <1>5 DEF IInv

LEMMA StartStopKeep == IInv /\ (start \/ stop \/ stopJoin) => IInv'
<1> SUFFICES ASSUME IInv, start \/ stop \/ stopJoin PROVE IInv'
  OBVIOUS
<1>1. CASE start
  BY <1>1 DEF start, IInv, TypeOK, NextPushed, SparesTaken, NotStarted, NoLostNotify
<1>2. CASE stop
  BY <1>2 DEF stop, threadVars, IInv, TypeOK, NextPushed, SparesTaken, NotStarted, NoLostNotify
<1>3. CASE stopJoin
  BY <1>3
  DEF stopJoin, threadVars, IInv, TypeOK, NextPushed, SparesTaken, NotStarted, NoLostNotify
<1> QED BY <1>1, <1>2, <1>3

-----------------------------------------------------------------------------
(* A swap finds both spares, and the second one goes only where append()   *)
(* has pushed a buffer.                                                    *)
LEMMA SwapKeeps ==
    ASSUME IInv, Swap, pc \in {"lock", "wait"}, notified' \in BOOLEAN
    PROVE  IInv'
<1>1. /\ spare1 = <<>> /\ spare2 = <<>> /\ spare1 # Null /\ spare2 # Null
  BY DEF IInv, TypeOK
<1>2. /\ toWrite' \in Seq(Buffers) /\ Len(toWrite') = Len(buffers) + 1
      /\ Len(buffers) \in Nat
  BY DEF Swap, Full, IInv, TypeOK
<1>3. /\ current' = <<>> /\ spare1' = Null /\ next' = <<>> /\ next' # Null
      /\ spare2' \in {<<>>, Null} /\ (spare2' = Null => next = Null)
  BY <1>1, EmptyBuffer DEF Swap, IInv, TypeOK
<1>4. /\ pc' = "write" /\ written' = 0 /\ buffers' = <<>>
      /\ UNCHANGED <<file, stopVars, appended>>
  BY DEF Swap
<1>5. TypeOK'
  BY <1>2, <1>3, <1>4, EmptyBuffer DEF IInv, TypeOK, stopVars
<1>6. NextPushed' /\ NoLostNotify'
  BY <1>3, <1>4 DEF NextPushed, NoLostNotify
<1>7. SparesTaken'
  BY <1>2, <1>3 DEF IInv, NextPushed, SparesTaken
<1>8. NotStarted'
  BY <1>4 DEF IInv, NotStarted, stopVars
<1> QED BY <1>5, <1>6, <1>7, <1>8 DEF IInv

LEMMA WaitKeeps == IInv /\ (CheckRunning \/ LockAndWait) => IInv'
<1> SUFFICES ASSUME IInv, CheckRunning \/ LockAndWait PROVE IInv'
  OBVIOUS
<1>1. CASE CheckRunning
  BY <1>1
  DEF CheckRunning, stopVars, IInv, TypeOK, NextPushed, SparesTaken, NotStarted, NoLostNotify
<1>2. CASE LockAndWait
  BY <1>2
  DEF LockAndWait, stopVars, IInv, TypeOK, NextPushed, SparesTaken, NotStarted, NoLostNotify
<1> QED BY <1>1, <1>2

LEMMA WriteKeeps == IInv /\ WriteBuffers => IInv'
<1> SUFFICES ASSUME IInv, WriteBuffers PROVE IInv'
  OBVIOUS
<1>1. pc = "write" /\ pc' \in {"write", "recycle"}
      /\ UNCHANGED <<current, next, buffers, spare1, spare2, toWrite, notified, stopVars, appended>>
  BY DEF WriteBuffers
<1>2. file' \in Seq(Lines) /\ written' \in 0 .. Len(toWrite)
  <2>1. CASE More
    <3>1. Len(toWrite) \in Nat /\ written + 1 \in 1 .. Len(toWrite)
      BY <2>1 DEF More, IInv, TypeOK
    <3>2. toWrite[written + 1] \in Seq(Lines)
      BY <3>1, ElementOfSeq, EmptyBuffer DEF IInv, TypeOK
    <3>3. file' = file \o toWrite[written + 1] /\ written' = written + 1
      BY <2>1 DEF WriteBuffers
    <3>4. file' \in Seq(Lines)
      BY <3>2, <3>3, ConcatProperties DEF IInv, TypeOK
    <3> QED BY <3>1, <3>3, <3>4
  <2>2. CASE ~More
    BY <2>2 DEF WriteBuffers, IInv, TypeOK
  <2> QED BY <2>1, <2>2
<1> QED BY <1>1, <1>2
  DEF stopVars, IInv, TypeOK, NextPushed, SparesTaken, NotStarted, NoLostNotify

LEMMA RecycleKeeps == IInv /\ Recycle => IInv'
<1> SUFFICES ASSUME IInv, Recycle PROVE IInv'
  OBVIOUS
<1>1. /\ spare1' = <<>> /\ spare2' = <<>> /\ toWrite' = <<>> /\ written' = 0
      /\ pc' = "check" /\ pc = "recycle"
      /\ UNCHANGED <<current, next, buffers, file, notified, stopVars, appended>>
  BY DEF Recycle, reset, IInv, TypeOK
<1> QED BY <1>1, EmptyBuffer
  DEF stopVars, IInv, TypeOK, NextPushed, SparesTaken, NotStarted, NoLostNotify

(* IInv is an inductive invariant.                                         *)
THEOREM Inductive == Spec => []IInv
<1>1. IInv /\ [Next]_vars => IInv'
  <2> SUFFICES ASSUME IInv, [Next]_vars PROVE IInv'
    OBVIOUS
  <2>1. CASE \E line \in Lines : append(line)
    BY <2>1, AppendKeeps
  <2>2. CASE flush \/ stopFlush
    BY <2>2, FlushKeeps
  <2>3. CASE start \/ stop \/ stopJoin
    BY <2>3, StartStopKeep
  <2>4. CASE CheckRunning \/ LockAndWait
    BY <2>4, WaitKeeps
  <2>5. CASE LockAndSwap \/ Notified \/ TimedOut
    <3>1. Swap /\ pc \in {"lock", "wait"} /\ notified' \in BOOLEAN
      BY <2>5 DEF LockAndSwap, Notified, TimedOut, IInv, TypeOK
    <3> QED BY <3>1, SwapKeeps
  <2>6. CASE WriteBuffers
    BY <2>6, WriteKeeps
  <2>7. CASE Recycle
    BY <2>7, RecycleKeeps
  <2>8. CASE UNCHANGED vars
    BY <2>8 DEF vars, IInv, TypeOK, NextPushed, SparesTaken, NotStarted, NoLostNotify
  <2> QED BY <2>1, <2>2, <2>3, <2>4, <2>5, <2>6, <2>7, <2>8 DEF Next, ThreadStep
<1> QED BY Initially, <1>1, PTL DEF Spec

(* Both spares are there where the swap takes them, spares are empty, and  *)
(* the current buffer is always there.                                     *)
THEOREM TypeCorrect == Spec => []TypeOK
<1>1. IInv => TypeOK
  BY DEF IInv
<1> QED BY Inductive, <1>1, PTL

(* back() is never called on an empty buffersToWrite.                      *)
THEOREM NeverBackOfEmpty == Spec => []RecycleSafe
<1>1. IInv => RecycleSafe
  <2> SUFFICES ASSUME IInv, pc = "recycle" PROVE Missing <= Len(Kept)
    BY DEF RecycleSafe
  <2> DEFINE k == IF Len(toWrite) > 2 THEN 2 ELSE Len(toWrite)
  <2>1. /\ spare1 = Null /\ Len(toWrite) \in Nat /\ Len(toWrite) >= 1
        /\ spare2 = Null => Len(toWrite) >= 2
    BY DEF IInv, TypeOK, SparesTaken
  <2>2. k \in 0 .. Len(toWrite) /\ k >= 1 /\ (spare2 = Null => k >= 2)
    BY <2>1
  <2>3. Len(Kept) = k
    <3>1. \A i \in 1 .. k : toWrite[i] \in Buffers
      BY <2>2, ElementOfSeq DEF IInv, TypeOK
    <3> HIDE DEF k
    <3>2. Len(SubSeq(toWrite, 1, k)) = IF 1 <= k THEN k - 1 + 1 ELSE 0
      BY <2>2, <3>1, SubSeqProperties
    <3> QED BY <2>2, <3>2 DEF Kept, k
  <2> HIDE DEF k
  <2> QED BY <2>1, <2>2, <2>3 DEF Missing
<1> QED BY Inductive, <1>1, PTL

(* The thread does not sit out the flush interval over a full buffer.      *)
THEOREM NotifyNotLost == Spec => []NoLostNotify
<1>1. IInv => NoLostNotify
  BY DEF IInv
<1> QED BY Inductive, <1>1, PTL

-----------------------------------------------------------------------------
(* The order of the lines.  FlattenSeq is a recursive function, and what   *)
(* follows about it is proved by the least counterexample.                 *)

(* A set of natural numbers has a least element. *)
LEMMA Least ==
    ASSUME NEW S \in SUBSET Nat, S # {}
    PROVE  \E x \in S : \A y \in S : x <= y
<1> DEFINE R == OpToRel(<, Nat)
<1>1. \A x, y \in Nat : x < y => <<x, y>> \in R
  BY DEF OpToRel
<1>2. IsWellFoundedOn(R, Nat)
  BY NatLessThanWellFounded
<1> HIDE DEF R
<1>3. PICK x \in S : \A y \in S : ~(<<y, x>> \in R)
  BY <1>2, WFMin
<1>4. ASSUME NEW y \in S PROVE x <= y
  <2>1. x \in Nat /\ y \in Nat
    OBVIOUS
  <2>2. ~(y < x)
    BY <1>1, <1>3, <2>1
  <2> QED BY <2>1, <2>2
<1> QED BY <1>3, <1>4

(* The concatenations of the first 0, 1, ..., Len(s) elements of s.        *)
Sums(p, s) == /\ p \in [0 .. Len(s) -> Seq(Lines)] /\ p[0] = <<>>
              /\ \A i \in 1 .. Len(s) : p[i] = p[i - 1] \o s[i]

(* The recursive function of FlattenSeq is there, and computes them.       *)
LEMMA Recursion ==
    ASSUME NEW s \in Seq(Seq(Lines))
    PROVE  \E f : f = [i \in 1 .. Len(s) |-> IF i = 1 THEN s[i] ELSE f[i - 1] \o s[i]]
<1> DEFINE Rec(f, n) == f = [i \in 1 .. n |-> IF i = 1 THEN s[i] ELSE f[i - 1] \o s[i]]
           Bad == {n \in 0 .. Len(s) : ~ \E f : Rec(f, n)}
<1>1. Len(s) \in Nat
  BY LenProperties
<1> HIDE DEF Rec
<1>2. Bad = {}
  <2>1. SUFFICES ASSUME Bad # {} PROVE FALSE
    OBVIOUS
  <2>2. PICK n \in Bad : \A m \in Bad : n <= m
    <3>1. Bad \in SUBSET Nat
      BY <1>1
    <3> HIDE DEF Bad
    <3> QED BY <2>1, <3>1, Least
  <2>3. n \in 0 .. Len(s) /\ n \in Nat /\ ~ \E f : Rec(f, n)
    BY <1>1
  <2>4. CASE n = 0
    <3>1. Rec([i \in 1 .. 0 |-> s[i]], 0)
      BY DEF Rec
    <3> QED BY <2>3, <2>4, <3>1
  <2>5. CASE n > 0
    <3>1. n - 1 \in 0 .. Len(s) /\ n - 1 \notin Bad
      <4>1. n - 1 \in 0 .. Len(s) /\ ~(n <= n - 1)
        BY <1>1, <2>3, <2>5
      <4> QED BY <2>2, <4>1
    <3>2. PICK f : Rec(f, n - 1)
      BY <3>1
    <3> DEFINE g == [i \in 1 .. n |-> IF i = n THEN (IF n = 1 THEN s[n] ELSE f[n - 1] \o s[n]) ELSE f[i]]
    <3>3. ASSUME NEW i \in 1 .. n PROVE g[i] = IF i = 1 THEN s[i] ELSE g[i - 1] \o s[i]
      <4>1. CASE i = n
        BY <2>3, <2>5, <4>1
      <4>2. CASE i # n
        <5>1. i \in 1 .. n - 1 /\ (i # 1 => i - 1 \in 1 .. n - 1 /\ i - 1 # n)
          BY <2>3, <4>2
        <5>2. f[i] = IF i = 1 THEN s[i] ELSE f[i - 1] \o s[i]
          BY <3>2, <5>1 DEF Rec
        <5> QED BY <2>3, <4>2, <5>1, <5>2
      <4> QED BY <4>1, <4>2
    <3>4. Rec(g, n)
      <4>1. g = [i \in 1 .. n |-> g[i]]
        OBVIOUS
      <4> HIDE DEF g
      <4> QED BY <3>3, <4>1 DEF Rec
    <3> QED BY <2>3, <3>4
  <2> QED BY <2>3, <2>4, <2>5
<1>3. \E f : Rec(f, Len(s))
  BY <1>1, <1>2
<1> QED BY <1>3 DEF Rec

LEMMA Flattened ==
    ASSUME NEW s \in Seq(Seq(Lines))
    PROVE  \E p : Sums(p, s) /\ FlattenSeq(s) = p[Len(s)]
<1>1. Len(s) \in Nat /\ \A i \in 1 .. Len(s) : s[i] \in Seq(Lines)
  BY LenProperties, ElementOfSeq
<1>2. PICK f : f = [i \in 1 .. Len(s) |-> IF i = 1 THEN s[i] ELSE f[i - 1] \o s[i]]
               /\ (Len(s) # 0 => FlattenSeq(s) = f[Len(s)])
  <2>1. CASE Len(s) = 0
    BY <2>1, Recursion
  <2>2. CASE Len(s) # 0
    <3>1. \E f : f = [i \in 1 .. Len(s) |-> IF i = 1 THEN s[i] ELSE f[i - 1] \o s[i]]
      BY Recursion
    <3> QED BY <2>2, <3>1 DEF FlattenSeq
  <2> QED BY <2>1, <2>2
<1>3. \A i \in 1 .. Len(s) : f[i] = IF i = 1 THEN s[i] ELSE f[i - 1] \o s[i]
  BY <1>2
<1> DEFINE p == [i \in 0 .. Len(s) |-> IF i = 0 THEN <<>> ELSE f[i]]
           Bad == {i \in 0 .. Len(s) : p[i] \notin Seq(Lines)}
<1>4. p[0] = <<>> /\ \A i \in 1 .. Len(s) : p[i] = f[i]
  BY <1>1
<1>5. ASSUME NEW i \in 1 .. Len(s) PROVE p[i] = p[i - 1] \o s[i]
  <2>1. CASE i = 1
    <3>1. p[i - 1] = <<>> /\ p[i] = s[i]
      BY <1>1, <1>3, <1>4, <2>1
    <3> QED BY <1>1, <3>1, ConcatEmptySeq
  <2>2. CASE i # 1
    <3>1. i - 1 \in 1 .. Len(s)
      BY <1>1, <2>2
    <3> QED BY <1>3, <1>4, <2>2, <3>1
  <2> QED BY <2>1, <2>2
<1>6. p = [i \in 0 .. Len(s) |-> p[i]]
  OBVIOUS
<1> HIDE DEF p
<1>7. Len(s) = 0 => s = <<>>
  BY EmptySeq
<1>8. FlattenSeq(s) = p[Len(s)]
  <2>1. CASE Len(s) = 0
    <3>1. FlattenSeq(s) = s
      BY <2>1 DEF FlattenSeq
    <3> QED BY <1>4, <1>7, <2>1, <3>1
  <2>2. CASE Len(s) # 0
    <3>1. Len(s) \in 1 .. Len(s)
      BY <1>1, <2>2
    <3> QED BY <1>2, <1>4, <2>2, <3>1
  <2> QED BY <2>1, <2>2
<1>9. Bad = {}
  <2>1. SUFFICES ASSUME Bad # {} PROVE FALSE
    OBVIOUS
  <2>2. PICK n \in Bad : \A m \in Bad : n <= m
    <3>1. Bad \in SUBSET Nat
      BY <1>1
    <3> HIDE DEF Bad
    <3> QED BY <2>1, <3>1, Least
  <2>3. n \in 1 .. Len(s) /\ n - 1 \in 0 .. Len(s) /\ n \in Nat
    <3>1. n \in 0 .. Len(s) /\ p[n] # <<>>
      BY EmptySeq
    <3>2. n # 0
      BY <1>4, <3>1
    <3> QED BY <1>1, <3>1, <3>2
  <2>4. p[n - 1] \in Seq(Lines)
    <3>1. ~(n <= n - 1)
      BY <2>3
    <3> QED BY <2>2, <2>3, <3>1
  <2> QED BY <1>1, <1>5, <2>3, <2>4, ConcatProperties
<1>10. Sums(p, s)
  <2>1. \A i \in 0 .. Len(s) : p[i] \in Seq(Lines)
    BY <1>9
  <2> QED BY <1>4, <1>5, <1>6, <2>1 DEF Sums
<1> QED BY <1>8, <1>10

LEMMA FlattenType == \A s \in Seq(Seq(Lines)) : FlattenSeq(s) \in Seq(Lines)
<1> TAKE s \in Seq(Seq(Lines))
<1>1. Len(s) \in 0 .. Len(s)
  BY LenProperties
<1> QED BY <1>1, Flattened DEF Sums

LEMMA FlattenEmpty == FlattenSeq(<<>>) = <<>>
BY DEF FlattenSeq

LEMMA FlattenAppend ==
    ASSUME NEW s \in Seq(Seq(Lines)), NEW b \in Seq(Lines)
    PROVE  FlattenSeq(Append(s, b)) = FlattenSeq(s) \o b
<1> DEFINE t == Append(s, b)
<1>1. /\ t \in Seq(Seq(Lines)) /\ Len(t) = Len(s) + 1 /\ Len(s) \in Nat
      /\ (\A i \in 1 .. Len(s) : t[i] = s[i]) /\ t[Len(s) + 1] = b
  BY AppendProperties, LenProperties
<1> HIDE DEF t
<1>2. PICK p : Sums(p, s) /\ FlattenSeq(s) = p[Len(s)]
  BY Flattened
<1>3. PICK q : Sums(q, t) /\ FlattenSeq(t) = q[Len(t)]
  BY <1>1, Flattened
<1> DEFINE Bad == {i \in 0 .. Len(s) : q[i] # p[i]}
<1>4. Bad = {}
  <2>1. SUFFICES ASSUME Bad # {} PROVE FALSE
    OBVIOUS
  <2>2. PICK n \in Bad : \A m \in Bad : n <= m
    <3>1. Bad \in SUBSET Nat
      BY <1>1
    <3> HIDE DEF Bad
    <3> QED BY <2>1, <3>1, Least
  <2>3. n \in 1 .. Len(s) /\ n \in 1 .. Len(t) /\ n - 1 \in 0 .. Len(s)
    BY <1>1, <1>2, <1>3 DEF Sums
  <2>4. q[n - 1] = p[n - 1]
    BY <2>2, <2>3
  <2> QED BY <1>1, <1>2, <1>3, <2>3, <2>4 DEF Sums
<1>5. Len(t) \in 1 .. Len(t) /\ Len(t) - 1 = Len(s) /\ Len(s) \in 0 .. Len(s)
  BY <1>1
<1>6. q[Len(t)] = p[Len(s)] \o b
  BY <1>1, <1>3, <1>4, <1>5 DEF Sums
<1> QED BY <1>2, <1>3, <1>6 DEF t

(* Concatenation is associative, for lines and for buffers of them.        *)
LEMMA Association ==
    /\ \A x, y, z \in Seq(Lines) : (x \o y) \o z = x \o (y \o z)
    /\ \A x, y, z \in Seq(Buffers) : (x \o y) \o z = x \o (y \o z)
BY ConcatAssociative

LEMMA Associative ==
    ASSUME NEW x \in Seq(Lines), NEW y \in Seq(Lines), NEW z \in Seq(Lines)
    PROVE  (x \o y) \o z = x \o (y \o z) /\ x \o y \in Seq(Lines) /\ x \o <<>> = x
BY ConcatAssociative, ConcatProperties, ConcatEmptySeq

LEMMA FlattenFirst ==
    ASSUME NEW s \in Seq(Seq(Lines)), NEW b \in Seq(Lines)
    PROVE  FlattenSeq(<<b>> \o s) = b \o FlattenSeq(s)
<1> DEFINE t == <<b>> \o s
<1>1. /\ t \in Seq(Seq(Lines)) /\ Len(t) = Len(s) + 1 /\ Len(s) \in Nat /\ t[1] = b
      /\ \A i \in 1 .. Len(s) : t[i + 1] = s[i]
  <2>1. <<b>> \in Seq(Seq(Lines)) /\ Len(<<b>>) = 1 /\ <<b>>[1] = b /\ Len(s) \in Nat
    BY LenProperties
  <2> HIDE DEF t
  <2>2. /\ t \in Seq(Seq(Lines)) /\ Len(t) = 1 + Len(s)
        /\ \A i \in 1 .. 1 + Len(s) : t[i] = IF i <= 1 THEN <<b>>[i] ELSE s[i - 1]
    BY <2>1, ConcatProperties DEF t
  <2> QED BY <2>1, <2>2
<1> HIDE DEF t
<1>2. PICK p : Sums(p, s) /\ FlattenSeq(s) = p[Len(s)]
  BY Flattened
<1>3. PICK q : Sums(q, t) /\ FlattenSeq(t) = q[Len(t)]
  BY <1>1, Flattened
<1> DEFINE Bad == {i \in 0 .. Len(s) : q[i + 1] # b \o p[i]}
<1>4. q[1] = b \o p[0]
  <2>1. <<>> \o b = b /\ b \o <<>> = b
    BY ConcatEmptySeq
  <2>2. 1 \in 1 .. Len(t) /\ 1 - 1 = 0
    BY <1>1
  <2> QED BY <1>1, <1>2, <1>3, <2>1, <2>2 DEF Sums
<1>5. Bad = {}
  <2>1. SUFFICES ASSUME Bad # {} PROVE FALSE
    OBVIOUS
  <2>2. PICK n \in Bad : \A m \in Bad : n <= m
    <3>1. Bad \in SUBSET Nat
      BY <1>1
    <3> HIDE DEF Bad
    <3> QED BY <2>1, <3>1, Least
  <2>3. n \in 1 .. Len(s) /\ n + 1 \in 1 .. Len(t) /\ n - 1 \in 0 .. Len(s) /\ n \in Nat
        /\ n + 1 - 1 = n /\ n - 1 + 1 = n
    <3>1. n \in 0 .. Len(s) /\ q[n + 1] # b \o p[n]
      OBVIOUS
    <3>2. n # 0
      BY <1>4, <3>1
    <3> QED BY <1>1, <3>1, <3>2
  <2>4. q[n] = b \o p[n - 1]
    <3>1. ~(n <= n - 1)
      BY <2>3
    <3>2. q[n - 1 + 1] = b \o p[n - 1]
      BY <2>2, <2>3, <3>1
    <3> QED BY <2>3, <3>2
  <2>5. q[n + 1] = (b \o p[n - 1]) \o s[n] /\ p[n] = p[n - 1] \o s[n]
    <3>1. q[n + 1] = q[n] \o s[n]
      <4>1. q[n + 1] = q[n] \o t[n + 1]
        <5>1. \A k \in 1 .. Len(t) : q[k] = q[k - 1] \o t[k]
          BY <1>3 DEF Sums
        <5>2. PICK k \in 1 .. Len(t) : k = n + 1 /\ k - 1 = n
          BY <2>3
        <5> QED BY <5>1, <5>2
      <4>2. t[n + 1] = s[n]
        BY <1>1, <2>3
      <4> QED BY <2>3, <4>1, <4>2
    <3>2. p[n] = p[n - 1] \o s[n]
      BY <1>2, <2>3 DEF Sums
    <3> QED BY <2>3, <2>4, <3>1, <3>2
  <2>6. p[n - 1] \in Seq(Lines) /\ s[n] \in Seq(Lines)
    BY <1>2, <2>3, ElementOfSeq DEF Sums
  <2>7. (b \o p[n - 1]) \o s[n] = b \o (p[n - 1] \o s[n])
    <3> DEFINE u == p[n - 1]  v == s[n]
    <3>1. u \in Seq(Lines) /\ v \in Seq(Lines)
      BY <2>6
    <3> HIDE DEF u, v
    <3>2. (b \o u) \o v = b \o (u \o v)
      BY <3>1, Association
    <3> QED BY <3>2 DEF u, v
  <2> QED BY <2>2, <2>5, <2>7
<1>6. Len(s) \in 0 .. Len(s)
  BY <1>1
<1>7. q[Len(t)] = b \o p[Len(s)]
  BY <1>1, <1>5, <1>6
<1> QED BY <1>2, <1>3, <1>7 DEF t

-----------------------------------------------------------------------------
(* Between two rounds of writing nothing is left of the last one.          *)
AllWritten == pc # "write" => written = Len(toWrite)

LEMMA BuffersAreLines == Seq(Buffers) \subseteq Seq(Seq(Lines))
BY EmptyBuffer, SeqMonotonic

LEMMA UnwrittenIs ==
    ASSUME TypeOK
    PROVE  /\ SubSeq(toWrite, written + 1, Len(toWrite)) \in Seq(Buffers)
           /\ Unwritten \in Seq(Seq(Lines)) /\ FlattenSeq(Unwritten) \in Seq(Lines)
           /\ written = Len(toWrite) => Unwritten = buffers
<1> DEFINE rest == SubSeq(toWrite, written + 1, Len(toWrite))
<1>1. /\ toWrite \in Seq(Buffers) /\ buffers \in Seq(Buffers) /\ Len(toWrite) \in Nat
      /\ written \in 0 .. Len(toWrite)
  BY LenProperties DEF TypeOK
<1>2. \A i \in written + 1 .. Len(toWrite) : toWrite[i] \in Buffers
  BY <1>1, ElementOfSeq
<1>3. rest \in Seq(Buffers)
  BY <1>1, <1>2, SubSeqProperties
<1>4. written = Len(toWrite) => rest = <<>>
  BY <1>1, SubSeqEmpty
<1>5. Unwritten = rest \o buffers
  BY DEF Unwritten
<1> HIDE DEF rest
<1>6. Unwritten \in Seq(Buffers) /\ (written = Len(toWrite) => Unwritten = buffers)
  BY <1>1, <1>3, <1>4, <1>5, ConcatProperties, ConcatEmptySeq
<1>7. Unwritten \in Seq(Seq(Lines))
  BY <1>6, BuffersAreLines
<1> QED BY <1>3, <1>6, <1>7, FlattenType DEF rest

(* A buffer that is pushed comes last of what is unwritten.                *)
LEMMA Pushed ==
    ASSUME TypeOK, buffers' = Append(buffers, current), UNCHANGED <<toWrite, written>>
    PROVE  FlattenSeq(Unwritten') = FlattenSeq(Unwritten) \o current
<1> DEFINE rest == SubSeq(toWrite, written + 1, Len(toWrite))
<1>1. /\ rest \in Seq(Buffers) /\ buffers \in Seq(Buffers) /\ current \in Buffers
      /\ Unwritten \in Seq(Seq(Lines)) /\ current \in Seq(Lines)
  BY UnwrittenIs, EmptyBuffer DEF TypeOK
<1>2. Unwritten = rest \o buffers /\ Unwritten' = rest \o Append(buffers, current)
  BY DEF Unwritten
<1> HIDE DEF rest
<1>3. rest \o Append(buffers, current) = Append(rest \o buffers, current)
  <2>1. Append(buffers, current) = buffers \o <<current>> /\ <<current>> \in Seq(Buffers)
    BY <1>1, AppendIsConcat
  <2>2. rest \o (buffers \o <<current>>) = (rest \o buffers) \o <<current>>
    BY <1>1, <2>1, Association
  <2>3. rest \o buffers \in Seq(Buffers)
    BY <1>1, ConcatProperties
  <2>4. Append(rest \o buffers, current) = (rest \o buffers) \o <<current>>
    BY <1>1, <2>3, AppendIsConcat
  <2> QED BY <2>1, <2>2, <2>4
<1> QED BY <1>1, <1>2, <1>3, FlattenAppend

LEMMA AppendInOrder ==
    ASSUME IInv, InOrder, NEW line \in Lines, append(line)
    PROVE  InOrder'
<1> DEFINE F == FlattenSeq(Unwritten)
<1>1. /\ F \in Seq(Lines) /\ file \in Seq(Lines) /\ current \in Seq(Lines) /\ appended \in Seq(Lines)
      /\ <<line>> \in Seq(Lines)
  BY UnwrittenIs, EmptyBuffer DEF IInv, TypeOK
<1>2. appended = (file \o F) \o current
  BY DEF InOrder
<1>3. UNCHANGED <<file, toWrite, written>> /\ appended' = Append(appended, line)
  BY DEF append, threadVars
<1>4. file \o F \in Seq(Lines)
  BY <1>1, Associative
<1> HIDE DEF F
<1>5. appended' = (file \o F) \o (current \o <<line>>)
  <2> DEFINE g == file \o F
  <2>1. g \in Seq(Lines) /\ appended = g \o current /\ appended' = Append(appended, line)
    BY <1>2, <1>3, <1>4
  <2> HIDE DEF g
  <2>2. Append(appended, line) = appended \o <<line>>
    BY <1>1, AppendIsConcat
  <2>3. (g \o current) \o <<line>> = g \o (current \o <<line>>)
    <3> DEFINE last == <<line>>
    <3>1. g \in Seq(Lines) /\ current \in Seq(Lines) /\ last \in Seq(Lines)
      BY <1>1, <2>1
    <3> HIDE DEF last
    <3>2. (g \o current) \o last = g \o (current \o last)
      BY <3>1, Association
    <3> QED BY <3>2 DEF last
  <2>4. appended' = g \o (current \o <<line>>)
    BY <2>1, <2>2, <2>3
  <2> QED BY <2>4 DEF g
<1>6. CASE Len(current) < Capacity
  <2>1. current' = Append(current, line) /\ Unwritten' = Unwritten
    BY <1>3, <1>6 DEF append, Unwritten
  <2>2. current' = current \o <<line>>
    BY <1>1, <2>1, AppendIsConcat
  <2> QED BY <1>3, <1>5, <2>1, <2>2 DEF InOrder, F
<1>7. CASE ~(Len(current) < Capacity)
  <2>1. buffers' = Append(buffers, current)
    BY <1>7 DEF append
  <2>2. current' = <<line>>
    <3>1. Append(<<>>, line) = <<line>>
      OBVIOUS
    <3> QED BY <1>7, <3>1 DEF append, IInv, TypeOK
  <2>3. FlattenSeq(Unwritten') = F \o current
    BY <1>3, <2>1, Pushed DEF IInv, F
  <2>4. (file \o F) \o (current \o <<line>>) = (file \o (F \o current)) \o <<line>>
    <3> DEFINE g == file \o F  last == <<line>>
    <3>1. /\ g \in Seq(Lines) /\ file \in Seq(Lines) /\ F \in Seq(Lines)
          /\ current \in Seq(Lines) /\ last \in Seq(Lines)
      BY <1>1, <1>4
    <3> HIDE DEF g, last, F
    <3>2. g \o (current \o last) = (g \o current) \o last
      BY <3>1, Association
    <3>3. (file \o F) \o current = file \o (F \o current)
      BY <3>1, Association
    <3> QED BY <3>2, <3>3 DEF g, last
  <2> QED BY <1>3, <1>5, <2>2, <2>3, <2>4 DEF InOrder
<1> QED BY <1>6, <1>7

LEMMA FlushInOrder ==
    ASSUME IInv, InOrder, flush \/ stopFlush
    PROVE  InOrder'
<1> DEFINE F == FlattenSeq(Unwritten)
<1>1. flushBuffers /\ UNCHANGED <<file, toWrite, written, appended>>
  BY DEF flush, stopFlush, threadVars
<1>2. CASE current = <<>>
  BY <1>1, <1>2 DEF flushBuffers, InOrder, Unwritten
<1>3. CASE current # <<>>
  <2>1. buffers' = Append(buffers, current) /\ current' = <<>>
    BY <1>1, <1>3 DEF flushBuffers
  <2>2. F \in Seq(Lines) /\ file \in Seq(Lines) /\ current \in Seq(Lines)
    BY UnwrittenIs, EmptyBuffer DEF IInv, TypeOK
  <2>3. FlattenSeq(Unwritten') = F \o current
    BY <1>1, <2>1, Pushed DEF IInv
  <2>4. appended' = (file \o F) \o current
    BY <1>1 DEF InOrder
  <2> HIDE DEF F
  <2>5. (file \o F) \o current = (file \o (F \o current)) \o <<>>
    <3>1. (file \o F) \o current = file \o (F \o current) /\ F \o current \in Seq(Lines)
      BY <2>2, Associative
    <3>2. file \o (F \o current) \in Seq(Lines)
      BY <2>2, <3>1, Associative
    <3> QED BY <3>1, <3>2, ConcatEmptySeq
  <2> QED BY <1>1, <2>1, <2>3, <2>4, <2>5 DEF InOrder
<1> QED BY <1>2, <1>3

(* The swap makes all that is waiting, the current buffer included, what   *)
(* is being written.                                                       *)
LEMMA SwapInOrder ==
    ASSUME IInv, InOrder, AllWritten, Swap, pc \in {"lock", "wait"}
    PROVE  InOrder' /\ AllWritten'
<1> DEFINE F == FlattenSeq(Unwritten)
<1>1. Unwritten = buffers /\ F \in Seq(Lines) /\ buffers \in Seq(Buffers)
  BY UnwrittenIs DEF IInv, AllWritten, TypeOK
<1>2. /\ toWrite' = Append(buffers, current) /\ written' = 0 /\ buffers' = <<>> /\ current' = <<>>
      /\ pc' = "write" /\ UNCHANGED <<file, appended>>
  BY DEF Swap, Full, IInv, TypeOK
<1>3. /\ toWrite' \in Seq(Buffers) /\ current \in Seq(Lines) /\ file \in Seq(Lines)
      /\ buffers \in Seq(Seq(Lines))
  BY <1>1, <1>2, EmptyBuffer, BuffersAreLines DEF IInv, TypeOK
<1>4. Unwritten' = toWrite'
  <2>1. Unwritten' = SubSeq(toWrite', 1, Len(toWrite')) \o <<>>
    BY <1>2 DEF Unwritten
  <2>2. SubSeq(toWrite', 1, Len(toWrite')) = toWrite'
    BY <1>3, SubSeqFull
  <2> QED BY <1>3, <2>1, <2>2, ConcatEmptySeq
<1>5. FlattenSeq(Unwritten') = F \o current
  BY <1>1, <1>2, <1>3, <1>4, FlattenAppend
<1>6. appended' = (file \o F) \o current
  BY <1>2 DEF InOrder
<1> HIDE DEF F
<1>7. (file \o F) \o current = (file \o (F \o current)) \o <<>>
  <2>1. (file \o F) \o current = file \o (F \o current) /\ F \o current \in Seq(Lines)
    BY <1>1, <1>3, Associative
  <2>2. file \o (F \o current) \in Seq(Lines)
    BY <1>3, <2>1, Associative
  <2> QED BY <2>1, <2>2, ConcatEmptySeq
<1> QED BY <1>2, <1>5, <1>6, <1>7 DEF InOrder, AllWritten

LEMMA WriteInOrder ==
    ASSUME IInv, InOrder, AllWritten, WriteBuffers
    PROVE  InOrder' /\ AllWritten'
<1>1. pc = "write" /\ UNCHANGED <<toWrite, buffers, current, appended>>
  BY DEF WriteBuffers
<1>2. /\ toWrite \in Seq(Buffers) /\ Len(toWrite) \in Nat /\ written \in 0 .. Len(toWrite)
      /\ buffers \in Seq(Buffers) /\ file \in Seq(Lines) /\ current \in Seq(Lines)
  BY LenProperties, EmptyBuffer DEF IInv, TypeOK
<1>3. CASE ~More
  <2>1. written = Len(toWrite) /\ UNCHANGED <<file, written>>
    BY <1>2, <1>3 DEF More, WriteBuffers
  <2> QED BY <1>1, <2>1 DEF InOrder, Unwritten, AllWritten
<1>4. CASE More
  <2>1. file' = file \o toWrite[written + 1] /\ written' = written + 1 /\ pc' = "write"
    BY <1>1, <1>4 DEF WriteBuffers
  <2>2. written + 1 \in 1 .. Len(toWrite) /\ written' \in 0 .. Len(toWrite)
    BY <1>2, <1>4, <2>1 DEF More
  <2> DEFINE b == toWrite[written + 1]
             rest == SubSeq(toWrite, written + 1, Len(toWrite))
             rest2 == SubSeq(toWrite, written + 1 + 1, Len(toWrite))
             U == rest2 \o buffers
  <2>3. b \in Buffers /\ b \in Seq(Lines)
    BY <1>2, <2>2, ElementOfSeq, EmptyBuffer
  <2>4. rest = <<b>> \o rest2
    BY <1>2, <2>2, SubSeqRecursiveFirst
  <2>5. rest2 \in Seq(Buffers)
    <3>1. \A i \in written + 1 + 1 .. Len(toWrite) : toWrite[i] \in Buffers
      BY <1>2, ElementOfSeq
    <3>2. written + 1 + 1 \in Int /\ Len(toWrite) \in Int
      BY <1>2
    <3> QED BY <3>1, <3>2, SubSeqProperties
  <2>6. Unwritten = rest \o buffers /\ Unwritten' = U
    BY <1>1, <2>1 DEF Unwritten
  <2>7. U \in Seq(Seq(Lines)) /\ Unwritten = <<b>> \o U
    <3> HIDE DEF b, rest, rest2
    <3>1. <<b>> \in Seq(Buffers)
      BY <2>3
    <3>2. (<<b>> \o rest2) \o buffers = <<b>> \o (rest2 \o buffers)
      BY <1>2, <2>5, <3>1, Association
    <3>3. rest2 \o buffers \in Seq(Buffers)
      BY <1>2, <2>5, ConcatProperties
    <3> QED BY <2>4, <2>6, <3>2, <3>3, BuffersAreLines
  <2>8. appended' = (file \o FlattenSeq(Unwritten)) \o current /\ file' = file \o b
    BY <1>1, <2>1 DEF InOrder
  <2> HIDE DEF b, U
  <2>9. FlattenSeq(Unwritten) = b \o FlattenSeq(U) /\ FlattenSeq(U) \in Seq(Lines)
    BY <2>3, <2>7, FlattenFirst, FlattenType
  <2>10. file \o (b \o FlattenSeq(U)) = (file \o b) \o FlattenSeq(U)
    <3> DEFINE G == FlattenSeq(U)
    <3>1. G \in Seq(Lines)
      BY <2>9
    <3> HIDE DEF G
    <3>2. (file \o b) \o G = file \o (b \o G)
      BY <1>2, <2>3, <3>1, Association
    <3> QED BY <3>2 DEF G
  <2>11. InOrder'
    BY <1>1, <2>6, <2>8, <2>9, <2>10 DEF InOrder
  <2> QED BY <2>1, <2>11 DEF AllWritten
<1> QED BY <1>3, <1>4

LEMMA RestInOrder ==
    ASSUME IInv, InOrder, AllWritten,
           start \/ stop \/ stopJoin \/ CheckRunning \/ LockAndWait \/ Recycle \/ UNCHANGED vars
    PROVE  InOrder' /\ AllWritten'
<1>1. UNCHANGED <<buffers, current, file, appended>>
  BY DEF start, stop, stopJoin, CheckRunning, LockAndWait, Recycle, vars, threadVars, stopVars
<1>2. CASE start \/ stop \/ stopJoin \/ CheckRunning \/ LockAndWait \/ UNCHANGED vars
  <2>1. UNCHANGED <<toWrite, written>> /\ (pc' = "write" => pc = "write") /\ (pc = "write" => pc' = pc)
    BY <1>2 DEF start, stop, stopJoin, CheckRunning, LockAndWait, vars, threadVars, stopVars,
       IInv, NotStarted
  <2> QED BY <1>1, <2>1 DEF InOrder, Unwritten, AllWritten
<1>3. CASE Recycle
  <2>1. pc = "recycle" /\ toWrite' = <<>> /\ written' = 0
    BY <1>3 DEF Recycle
  <2>2. Unwritten = buffers
    BY <2>1, UnwrittenIs DEF IInv, AllWritten
  <2>3. Unwritten' = buffers
    <3>1. SubSeq(<<>>, 0 + 1, Len(<<>>)) = <<>>
      BY SubSeqEmpty, EmptySeq
    <3>2. <<>> \o buffers = buffers
      BY ConcatEmptySeq DEF IInv, TypeOK
    <3> QED BY <1>1, <2>1, <3>1, <3>2 DEF Unwritten
  <2> QED BY <1>1, <2>1, <2>2, <2>3 DEF InOrder, AllWritten
<1> QED BY <1>2, <1>3

(* Every line appended is in exactly one place, in the order of append():  *)
(* whoever appends and flushes, and however often the buffers go round.    *)
THEOREM LinesInOrder == Spec => []InOrder
<1> DEFINE Ordered == InOrder /\ AllWritten
<1>1. Init => Ordered
  <2> SUFFICES ASSUME Init PROVE Ordered
    OBVIOUS
  <2>1. /\ file = <<>> /\ appended = <<>> /\ current = <<>> /\ buffers = <<>> /\ toWrite = <<>>
        /\ written = 0
    BY DEF Init
  <2>2. TypeOK
    BY Initially DEF IInv
  <2>3. Unwritten = <<>> /\ AllWritten
    BY <2>1, <2>2, UnwrittenIs, EmptySeq DEF AllWritten
  <2>4. <<>> \o <<>> = <<>>
    BY ConcatEmptySeq, EmptySeq
  <2> QED BY <2>1, <2>3, <2>4, FlattenEmpty DEF InOrder
<1>2. IInv /\ Ordered /\ [Next]_vars => Ordered'
  <2> SUFFICES ASSUME IInv, InOrder, AllWritten, [Next]_vars PROVE InOrder' /\ AllWritten'
    OBVIOUS
  <2>1. CASE \E line \in Lines : append(line)
    <3>1. AllWritten'
      BY <2>1 DEF append, threadVars, AllWritten
    <3> QED BY <2>1, <3>1, AppendInOrder
  <2>2. CASE flush \/ stopFlush
    <3>1. AllWritten'
      BY <2>2 DEF flush, stopFlush, threadVars, AllWritten
    <3> QED BY <2>2, <3>1, FlushInOrder
  <2>3. CASE LockAndSwap \/ Notified \/ TimedOut
    <3>1. Swap /\ pc \in {"lock", "wait"}
      BY <2>3 DEF LockAndSwap, Notified, TimedOut
    <3> QED BY <3>1, SwapInOrder
  <2>4. CASE WriteBuffers
    BY <2>4, WriteInOrder
  <2>5. CASE start \/ stop \/ stopJoin \/ CheckRunning \/ LockAndWait \/ Recycle \/ UNCHANGED vars
    BY <2>5, RestInOrder
  <2> QED BY <2>1, <2>2, <2>3, <2>4, <2>5 DEF Next, ThreadStep
<1>3. Ordered => InOrder
  OBVIOUS
<1> HIDE DEF Ordered
<1> QED BY <1>1, <1>2, <1>3, Inductive, PTL DEF Spec

-----------------------------------------------------------------------------
(* The files behind the log.                                                *)
(* Seconds and periods of later times are no smaller.                      *)
LEMMA DivType ==
    ASSUME NEW a \in Nat, NEW p \in Nat \ {0}
    PROVE  a \div p \in Nat
  OBVIOUS

LEMMA DivMonotone ==
    ASSUME NEW a \in Nat, NEW b \in Nat, NEW p \in Nat \ {0}, a <= b
    PROVE  a \div p <= b \div p
  OBVIOUS

LEMMA TimesMonotone ==
    ASSUME NEW a \in Nat, NEW b \in Nat, NEW p \in Nat, a <= b
    PROVE  a * p \in Nat /\ a * p <= b * p
  OBVIOUS

LEMMA SecondsType == ASSUME NEW t \in Nat PROVE seconds(t) \in Nat
  BY ParametersAssumption, DivType DEF seconds

LEMMA SecondsMonotone ==
    ASSUME NEW a \in Nat, NEW b \in Nat, a <= b
    PROVE  seconds(a) <= seconds(b)
  BY ParametersAssumption, DivMonotone DEF seconds

(* So are the names of files.                                              *)
LEMMA SecondsInBounds ==
    ASSUME NEW t \in Times PROVE seconds(t) \in 0 .. MaxTime
  <1>1. t \in Nat /\ t <= MaxTime
    BY ParametersAssumption DEF Times
  <1>2. kMicroSecondsPerSecond \in Nat /\ kMicroSecondsPerSecond >= 1
    BY ParametersAssumption
  <1>3. \A a, p \in Nat : p >= 1 => a \div p <= a
    OBVIOUS
  <1>4. seconds(t) \in Nat /\ seconds(t) <= t
    BY <1>1, <1>2, <1>3, SecondsType DEF seconds
  <1>5. QED
    BY <1>1, <1>4, ParametersAssumption

LEMMA NamesMonotone ==
    ASSUME NEW a \in Times, NEW b \in Times, a <= b
    PROVE  /\ getLogFileName(a) \in Nat /\ getLogFileName(b) \in Nat
           /\ getLogFileName(a) <= getLogFileName(b)
  <1>1. seconds(a) \in 0 .. MaxTime /\ seconds(b) \in 0 .. MaxTime
    BY SecondsInBounds
  <1>2. seconds(a) <= seconds(b)
    BY ParametersAssumption, SecondsMonotone DEF Times
  <1>3. QED
    BY <1>1, <1>2, LocaltimeAssumption DEF getLogFileName

LEMMA PeriodMonotone ==
    ASSUME NEW a \in Nat, NEW b \in Nat, a <= b
    PROVE  PeriodOf(a) \in Nat /\ PeriodOf(b) \in Nat /\ PeriodOf(a) <= PeriodOf(b)
  <1>1. seconds(a) \in Nat /\ seconds(b) \in Nat /\ seconds(a) <= seconds(b)
    BY SecondsType, SecondsMonotone
  <1>2. kSecondsPerRoll \in Nat \ {0}
    BY ParametersAssumption
  <1> DEFINE qa == seconds(a) \div kSecondsPerRoll
             qb == seconds(b) \div kSecondsPerRoll
  <1>3. qa \in Nat /\ qb \in Nat /\ qa <= qb
    BY <1>1, <1>2, DivType, DivMonotone
  <1>4. PeriodOf(a) = qa * kSecondsPerRoll /\ PeriodOf(b) = qb * kSecondsPerRoll
    BY DEF PeriodOf
  <1> HIDE DEF qa, qb
  <1>5. qb * kSecondsPerRoll \in Nat
    BY <1>2, <1>3, TimesMonotone
  <1>6. QED
    BY <1>2, <1>3, <1>4, <1>5, TimesMonotone

(* A time is never past a later one and an interval.                       *)
LEMMA NotPast ==
    ASSUME NEW now \in Nat, NEW t \in Nat, now <= t
    PROVE  ~(now > addTime(t, flushInterval))
  <1>1. flushInterval * kMicroSecondsPerSecond \in Nat
    BY ParametersAssumption, TimesMonotone
  <1> DEFINE d == flushInterval * kMicroSecondsPerSecond
  <1>2. d \in Nat
    BY <1>1
  <1>3. addTime(t, flushInterval) = t + d
    BY DEF addTime
  <1> HIDE DEF d
  <1>4. QED
    BY <1>2, <1>3

-----------------------------------------------------------------------------
(* The inductive invariant: the buffers written so far are in files named  *)
(* for the last roll or before it, and while a roll or a flush is due each *)
(* write is counted.                                                       *)
LowestCount == IF first < 0 THEN first ELSE 0

NoneLater == \A i \in DOMAIN log : log[i] <= getLogFileName(lastRoll)

Counting ==
    /\ LowestCount <= count
    /\ overdue <= count - LowestCount
    /\ overdue < checkEveryN - LowestCount

RollInv == RollTypeOK /\ NoneLater /\ NamesInOrder /\ Counting

LEMMA FirstIsInt == RollTypeOK => first \in Int /\ LowestCount \in Int /\ LowestCount <= 0
  BY ParametersAssumption DEF RollTypeOK, LowestCount

LEMMA RollInitially == RollInit => RollInv
  <1> SUFFICES ASSUME RollInit PROVE RollInv
    OBVIOUS
  <1>1. PICK now \in Times :
           /\ lastRoll = now /\ lastFlush = now /\ startOfPeriod = PeriodOf(now)
           /\ opened \in {getLogFileName(now), NoFile}
           /\ since = 0
           /\ first \in FirstCounts /\ count = first
           /\ log = <<>> /\ writes = 0 /\ overdue = 0
    BY DEF RollInit
  <1>2. RollTypeOK
    BY <1>1, ParametersAssumption DEF RollTypeOK, Times
  <1>3. QED
    BY <1>1, <1>2, ParametersAssumption
    DEF RollInv, NoneLater, NamesInOrder, Counting, LowestCount

(* The types of what rollFile changes, and that it goes forward.           *)
LEMMA RollTypes ==
    ASSUME RollTypeOK, NEW now \in Times, rollFile(now)
    PROVE  /\ lastRoll' \in Times /\ lastFlush' \in Times /\ lastRoll' <= lastFlush'
           /\ startOfPeriod' = PeriodOf(lastRoll')
           /\ opened' \in {getLogFileName(lastRoll'), NoFile}
           /\ lastRoll <= lastRoll'
  <1>1. CASE MayRoll(now)
    BY <1>1, ParametersAssumption DEF rollFile, MayRoll, RollTypeOK, Times
  <1>2. CASE ~MayRoll(now)
    BY <1>2, ParametersAssumption DEF rollFile, RollTypeOK, Times
  <1>3. QED
    BY <1>1, <1>2

(* After rollFile, done or refused, nothing is due that was due at an      *)
(* earlier reading of the clock.                                           *)
LEMMA RollSettles ==
    ASSUME RollTypeOK, NEW now \in Times, NEW later \in Times, now <= later,
           rollFile(later)
    PROVE  ~StillDue(now)'
  <1>1. now \in Nat /\ later \in Nat /\ lastRoll \in Nat /\ lastFlush \in Nat
    BY ParametersAssumption DEF RollTypeOK, Times
  <1>2. CASE MayRoll(later)
    <2>1. lastFlush' = later /\ startOfPeriod' = PeriodOf(later)
      BY <1>2 DEF rollFile
    <2>2. PeriodOf(now) \in Nat /\ PeriodOf(later) \in Nat /\ PeriodOf(now) <= PeriodOf(later)
      BY <1>1, PeriodMonotone
    <2>3. ~(now > addTime(later, flushInterval))
      BY <1>1, NotPast
    <2>4. QED
      BY <2>1, <2>2, <2>3 DEF StillDue, FlushDue
  <1>3. CASE ~MayRoll(later)
    <2>1. lastFlush' = lastFlush /\ startOfPeriod' = PeriodOf(lastRoll)
      BY <1>3 DEF rollFile, RollTypeOK
    <2>2. now <= lastRoll /\ now <= lastFlush
      BY <1>1, <1>3 DEF MayRoll, RollTypeOK
    <2>3. /\ PeriodOf(now) \in Nat /\ PeriodOf(lastRoll) \in Nat
          /\ PeriodOf(now) <= PeriodOf(lastRoll)
      BY <1>1, <2>2, PeriodMonotone
    <2>4. ~(now > addTime(lastFlush, flushInterval))
      BY <1>1, <2>2, NotPast
    <2>5. QED
      BY <2>1, <2>3, <2>4 DEF StillDue, FlushDue
  <1>4. QED
    BY <1>2, <1>3

(* checkTime, the same way: either the write was counted or nothing is due *)
(* any more.                                                               *)
LEMMA CheckStep ==
    ASSUME RollTypeOK, NEW now \in Times, NEW later \in Times, now <= later,
           checkTime(now, later)
    PROVE  /\ lastRoll' \in Times /\ lastFlush' \in Times /\ lastRoll' <= lastFlush'
           /\ startOfPeriod' = PeriodOf(lastRoll')
           /\ opened' \in {getLogFileName(lastRoll'), NoFile}
           /\ lastRoll <= lastRoll'
           /\ \/ count' = count + 1 /\ count + 1 < checkEveryN
              \/ count' = 0 /\ ~StillDue(now)'
  <1>1. CASE ~Counted
    <2>1. /\ count' = count + 1
          /\ startOfPeriod' = startOfPeriod /\ lastRoll' = lastRoll
          /\ lastFlush' = lastFlush /\ opened' = opened
      BY <1>1 DEF checkTime
    <2>2. count + 1 < checkEveryN
      BY <1>1, ParametersAssumption DEF Counted, RollTypeOK
    <2>3. lastRoll <= lastRoll'
      BY <2>1, ParametersAssumption DEF RollTypeOK, Times
    <2>4. /\ startOfPeriod' = PeriodOf(lastRoll')
          /\ opened' \in {getLogFileName(lastRoll'), NoFile}
      BY <2>1 DEF RollTypeOK
    <2>5. lastRoll' \in Times /\ lastFlush' \in Times /\ lastRoll' <= lastFlush'
      BY <2>1 DEF RollTypeOK
    <2>6. count' = count + 1 /\ count + 1 < checkEveryN
      BY <2>1, <2>2
    <2>7. QED
      BY <2>3, <2>4, <2>5, <2>6
  <1>2. CASE Counted /\ RollDue(now)
    <2>1. rollFile(later) /\ count' = 0
      BY <1>2 DEF checkTime
    <2>2. QED
      BY <2>1, RollTypes, RollSettles
  <1>3. CASE Counted /\ ~RollDue(now)
    <2>1. /\ count' = 0
          /\ lastFlush' = IF FlushDue(now) THEN now ELSE lastFlush
          /\ UNCHANGED <<startOfPeriod, lastRoll, opened>>
      BY <1>3 DEF checkTime
    <2>2. /\ now \in Nat /\ lastRoll \in Nat /\ lastFlush \in Nat
          /\ lastRoll <= lastFlush /\ startOfPeriod = PeriodOf(lastRoll)
      BY ParametersAssumption DEF RollTypeOK, Times
    <2>3. PeriodOf(now) = startOfPeriod
      BY <1>3 DEF RollDue
    <2>4. ~(PeriodOf(now) > startOfPeriod')
      BY <2>1, <2>2, <2>3, PeriodMonotone
    <2>5. CASE FlushDue(now)
      <3>1. flushInterval * kMicroSecondsPerSecond \in Nat
        BY ParametersAssumption, TimesMonotone
      <3>2. now > lastFlush
        BY <2>2, <2>5, <3>1 DEF FlushDue, addTime
      <3>3. ~(now > addTime(now, flushInterval))
        BY <2>2, NotPast
      <3>4. ~StillDue(now)'
        BY <2>1, <2>4, <2>5, <3>3 DEF StillDue, FlushDue
      <3>5. QED
        BY <2>1, <2>2, <2>5, <3>2, <3>4 DEF RollTypeOK
    <2>6. CASE ~FlushDue(now)
      <3>1. ~StillDue(now)'
        BY <2>1, <2>4, <2>6 DEF StillDue, FlushDue
      <3>2. QED
        BY <2>1, <2>2, <2>6, <3>1 DEF RollTypeOK
    <2>7. QED
      BY <2>5, <2>6
  <1>4. QED
    BY <1>1, <1>2, <1>3

LEMMA RollSteps == RollInv /\ [RollNext]_rollVars => RollInv'
  <1> SUFFICES ASSUME RollInv, [RollNext]_rollVars PROVE RollInv'
    OBVIOUS
  <1>1. CASE UNCHANGED rollVars
    BY <1>1 DEF rollVars, RollInv, RollTypeOK, NoneLater, NamesInOrder, Counting, LowestCount
  <1>2. ASSUME NEW now \in Times, NEW len \in 0 .. 1, NEW later \in now .. MaxTime,
               write(len, now, later)
        PROVE  RollInv'
    <2>1. RollTypeOK /\ NoneLater /\ NamesInOrder /\ Counting
      BY DEF RollInv
    <2>2. later \in Times /\ now \in Nat /\ later \in Nat /\ now <= later
      BY ParametersAssumption DEF Times
    <2>3. PICK size \in tellp(len) :
             IF size >= rollSize THEN rollFile(later) /\ UNCHANGED count
                                 ELSE checkTime(now, later)
      BY <1>2 DEF write
    <2>4. /\ lastRoll' \in Times /\ lastFlush' \in Times /\ lastRoll' <= lastFlush'
          /\ startOfPeriod' = PeriodOf(lastRoll')
          /\ opened' \in {getLogFileName(lastRoll'), NoFile}
          /\ lastRoll <= lastRoll'
          /\ \/ count' = count /\ ~StillDue(now)'
             \/ count' = count + 1 /\ count + 1 < checkEveryN
             \/ count' = 0 /\ ~StillDue(now)'
      <3>1. CASE size >= rollSize
        BY <2>1, <2>2, <2>3, <3>1, RollTypes, RollSettles
      <3>2. CASE ~(size >= rollSize)
        BY <2>1, <2>2, <2>3, <3>2, CheckStep
      <3>3. QED
        BY <3>1, <3>2
    <2>5. /\ writes < MaxWrites /\ writes' = writes + 1
          /\ log' = IF opened = NoFile \/ len = 0 THEN log ELSE Append(log, opened)
          /\ since' = IF lastRoll' = lastRoll THEN since + len ELSE 0
          /\ overdue' = IF StillDue(now)' THEN overdue + 1 ELSE 0
          /\ first' = first
      BY <1>2 DEF write
    <2>6. lastRoll \in Times /\ lastRoll' \in Times
      BY <2>1, <2>4 DEF RollTypeOK
    <2>7. /\ getLogFileName(lastRoll) \in Nat /\ getLogFileName(lastRoll') \in Nat
          /\ getLogFileName(lastRoll) <= getLogFileName(lastRoll')
      BY <2>4, <2>6, NamesMonotone
    <2>8. opened # NoFile => opened = getLogFileName(lastRoll)
      BY <2>1 DEF RollTypeOK
    <2>9. first \in Int /\ LowestCount \in Int /\ LowestCount <= 0
          /\ LowestCount' = LowestCount
      BY <2>1, <2>5, FirstIsInt DEF LowestCount
    <2>10. RollTypeOK'
      <3>1. log' \in Seq(Nat)
        BY <2>1, <2>5, <2>7, <2>8 DEF RollTypeOK
      <3>2. count' \in Int /\ overdue' \in Nat /\ since' \in Nat
            /\ writes' \in 0 .. MaxWrites
        BY <2>1, <2>4, <2>5, ParametersAssumption DEF RollTypeOK
      <3>3. QED
        BY <2>1, <2>4, <2>5, <3>1, <3>2 DEF RollTypeOK
    <2>11. NoneLater' /\ NamesInOrder'
      <3>1. log \in Seq(Nat)
        BY <2>1 DEF RollTypeOK
      <3>2. \A i \in DOMAIN log : log[i] \in Nat /\ log[i] <= getLogFileName(lastRoll)
        BY <2>1, <3>1 DEF NoneLater
      <3>3. CASE opened = NoFile \/ len = 0
        <4>1. log' = log
          BY <2>5, <3>3
        <4>2. QED
          BY <2>1, <2>7, <3>2, <4>1 DEF NoneLater, NamesInOrder
      <3>4. CASE ~(opened = NoFile \/ len = 0)
        <4>1. log' = Append(log, getLogFileName(lastRoll))
          BY <2>5, <2>8, <3>4
        <4>2. /\ DOMAIN log' = 1 .. Len(log) + 1
              /\ DOMAIN log = 1 .. Len(log) /\ Len(log) \in Nat
              /\ \A i \in 1 .. Len(log) : log'[i] = log[i]
              /\ log'[Len(log) + 1] = getLogFileName(lastRoll)
          BY <2>7, <3>1, <4>1
        <4>3. NoneLater'
          BY <2>7, <3>2, <4>2 DEF NoneLater
        <4>4. NamesInOrder'
          BY <2>1, <2>7, <3>2, <4>2 DEF NamesInOrder
        <4>5. QED
          BY <4>3, <4>4
      <3>5. QED
        BY <3>3, <3>4
    <2>12. Counting'
      BY <2>1, <2>4, <2>5, <2>9, ParametersAssumption DEF Counting, RollTypeOK
    <2>13. QED
      BY <2>10, <2>11, <2>12 DEF RollInv
  <1>3. QED
    BY <1>1, <1>2 DEF RollNext

(* The inductive invariant holds throughout.                               *)
THEOREM RollInductive == RollSpec => []RollInv
  BY RollInitially, RollSteps, PTL DEF RollSpec

(* The types, and the last roll's period, name and flush.                  *)
THEOREM RollTypeCorrect == RollSpec => []RollTypeOK
  <1>1. RollInv => RollTypeOK
    BY DEF RollInv
  <1>2. QED
    BY <1>1, RollInductive, PTL

(* The order of the files is the order of what was written, for any clock. *)
THEOREM FilesInOrder == RollSpec => []NamesInOrder
  <1>1. RollInv => NamesInOrder
    BY DEF RollInv
  <1>2. QED
    BY <1>1, RollInductive, PTL

(* A check is never more than checkEveryN writes late.                     *)
THEOREM ChecksInTime == RollSpec => []ChecksCome
  <1>1. RollInv => ChecksCome
    <2> SUFFICES ASSUME RollInv PROVE ChecksCome
      OBVIOUS
    <2>1. first \in Int /\ overdue \in Nat /\ overdue < checkEveryN - LowestCount
      BY FirstIsInt DEF RollInv, Counting, RollTypeOK
    <2>2. QED
      BY <2>1, ParametersAssumption DEF ChecksCome, LowestCount
  <1>2. QED
    BY <1>1, RollInductive, PTL
=============================================================================
