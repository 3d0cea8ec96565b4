----------------------------- MODULE FixedBuffer -----------------------------
(***************************************************************************)
(* FixedBuffer<SIZE> (log/FixedBuffer.hpp): an array that is never         *)
(* cleared and a cursor _cur into it.  A buffer is a record: data, a       *)
(* function on 0 .. SIZE - 1, and cur, the offset of _cur.  The cells hold *)
(* bytes, Nul (the character '\0') or Junk (memory nobody has written).    *)
(***************************************************************************)
EXTENDS Integers, Sequences, FiniteSetsExt

CONSTANTS SIZE,   \* the template parameter
          Bytes,  \* the characters of the log lines, Nul not among them
          Nul, Junk

ASSUME SizeAssumption == SIZE \in Nat \ {0}
ASSUME NulAssumption == Nul \notin Bytes /\ Junk \notin Bytes /\ Nul # Junk

Cells == Bytes \cup {Nul, Junk}
Fixed == [data : [0 .. SIZE - 1 -> Cells], cur : 0 .. SIZE]

(* The array is not initialised: what stands in it may or may not end at   *)
(* once as a C string.                                                     *)
NewFixed == [data : {[i \in 0 .. SIZE - 1 |-> c] : c \in {Nul, Junk}}, cur : {0}]

length(b) == b.cur
avail(b) == SIZE - b.cur

(* The test with which append() calls the full callback or resets.         *)
isFullForOffByOne(b, len) == avail(b) < len   \* fault: no cell for '\0'
isFullFor(b, len) == avail(b) <= len

putUnterminated(b, buf) ==   \* fault: no '\0' behind the line
    LET stop == b.cur + Len(buf) IN
    [data |-> [i \in 0 .. SIZE - 1 |->
                 IF i \in b.cur .. stop - 1 THEN buf[i - b.cur + 1] ELSE b.data[i]],
     cur |-> stop]

(* What append() does when there is room: memcpy, advance, terminate.      *)
(* A cell past the end is not part of the buffer.                          *)
put(b, buf) ==
    LET stop == b.cur + Len(buf) IN
    [data |-> [i \in 0 .. SIZE - 1 |->
                 IF i \in b.cur .. stop - 1 THEN buf[i - b.cur + 1]
                 ELSE IF i = stop THEN Nul ELSE b.data[i]],
     cur |-> stop]

reset(b) == [b EXCEPT !.cur = 0]

(* data() read as a C string: the cells up to the first Nul, or all of     *)
(* them (and whatever memory follows) when there is none.                  *)
cString(b) ==
    LET nuls == {i \in 0 .. SIZE - 1 : b.data[i] = Nul}
        n == IF nuls = {} THEN SIZE ELSE Min(nuls)
    IN  [k \in 1 .. n |-> b.data[k - 1]]

(* What was appended since the last reset.                                 *)
toStringView(b) == [k \in 1 .. b.cur |-> b.data[k - 1]]

(* The cursor is inside the array, on a Nul, with no other before it.      *)
Terminated(b) ==
    /\ b.cur < SIZE /\ b.data[b.cur] = Nul
    /\ \A i \in 0 .. b.cur - 1 : b.data[i] \in Bytes
=============================================================================
