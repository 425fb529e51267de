------------------------------ MODULE ByteArray ------------------------------
(***************************************************************************)
(* The chained buffer (bytearray/ByteArray.cpp): a list of blocks, a       *)
(* position and the block m_cur that should hold it.  The state is one     *)
(* record and the code's private helpers are functions of it, because the  *)
(* public operations chain several of them.                                *)
(*                                                                         *)
(* The client writes and reads values and strings and moves to any place   *)
(* it has written.  A write moves m_cur to the next block even when it     *)
(* ends inside one, and links new blocks behind m_cur even when others     *)
(* follow it; `careful' tells the clients that keep out of both: they set  *)
(* the position after a write that ended inside a block, write at the end  *)
(* of the data or within it, and start what is longer than a block at the  *)
(* edge of one.                                                            *)
(***************************************************************************)
EXTENDS Integers, Sequences, SequencesExt

CONSTANTS
  BlockSize,   \* m_blockSize
  Bytes,       \* byte values; a string's length is one of them
  MaxData,     \* bound: the bytes of one value
  MaxSize      \* bound: bytes written

ASSUME ByteArrayAssumption ==
  /\ BlockSize \in Nat \ {0}
  /\ Bytes \subseteq Nat /\ MaxData \in Nat /\ MaxSize \in Nat

VARIABLES
  a,        \* the ByteArray
  file,     \* the bytes written so far, in order
  due,      \* the last write ended inside a block, and no setPosition since
  careful,  \* no access while it was due, and every write was Proper
  misread   \* a read gave other bytes than were written there

vars == <<a, file, due, careful, misread>>

\* what a fresh block holds
Garbage == -1
NewBlock == [i \in 0 .. BlockSize - 1 |-> Garbage]

Init ==
  /\ a = [chain |-> <<NewBlock>>, cur |-> 1, pos |-> 0, total |-> BlockSize,
          cap |-> BlockSize, err |-> FALSE]
  /\ file = <<>> /\ due = FALSE /\ careful = TRUE /\ misread = FALSE

-----------------------------------------------------------------------------
(* allocate, write and read                                                *)

\* How many blocks hold n bytes.
Blocks(n) == (n + BlockSize - 1) \div BlockSize

\* The new blocks are linked behind m_cur: what was there is cut off.
DoAllocate(s, n) ==
  LET more == Blocks(n - (s.cap - s.pos))
  IN IF s.cap - s.pos > n \/ more = 0 THEN s
     ELSE [s EXCEPT !.chain = SubSeq(@, 1, s.cur) \o [i \in 1 .. more |-> NewBlock],
                    !.cap = @ + more * BlockSize]

\* The block that the copy loops of write and read use for the j-th byte.
BlockOf(s, j) == s.cur + ((s.pos % BlockSize) + j) \div BlockSize

\* Mutant: every block gets the start of d, not what follows the last one.
CopyRepeats(s, d) ==
  [s EXCEPT
     !.chain = [b \in DOMAIN @ |-> [o \in 0 .. BlockSize - 1 |->
         LET js == {j \in 0 .. Len(d) - 1 : BlockOf(s, j) = b /\ (s.pos + j) % BlockSize = o}
         IN IF js = {} THEN @[b][o] ELSE d[1 + ((CHOOSE j \in js : TRUE) % BlockSize)]]],
     !.cur = BlockOf(s, Len(d) - 1),
     !.pos = @ + Len(d)]

\* memcpy of d into the blocks from m_cur on; m_cur stays in the last of them.
Copy(s, d) ==
  [s EXCEPT
     !.chain = [b \in DOMAIN @ |-> [o \in 0 .. BlockSize - 1 |->
         LET js == {j \in 0 .. Len(d) - 1 : BlockOf(s, j) = b /\ (s.pos + j) % BlockSize = o}
         IN IF js = {} THEN @[b][o] ELSE d[(CHOOSE j \in js : TRUE) + 1]]],
     !.cur = BlockOf(s, Len(d) - 1),
     !.pos = @ + Len(d)]

\* write: newtag is 1 from the start, so m_cur always moves on to the next
\* block.  A walk off the chain throws, or leaves m_cur null for the next call.
DoWrite(s, d) ==
  LET s1 == DoAllocate(s, Len(d))
      s2 == Copy(s1, d)
      s3 == DoAllocate([s2 EXCEPT !.total = IF s2.pos >= @ THEN s2.pos ELSE @], BlockSize)
  IN IF s.err \/ d = <<>> THEN s
     ELSE IF BlockOf(s1, Len(d) - 1) > Len(s1.chain) THEN [s1 EXCEPT !.err = TRUE]
     ELSE IF s3.cur = Len(s3.chain) THEN [s3 EXCEPT !.err = TRUE]
     ELSE [s3 EXCEPT !.cur = @ + 1]

\* Mutant: the loop does not go on to the next block.
ReadBytesStuck(s, n) ==
  [j \in 1 .. n |-> s.chain[s.cur][(s.pos + j - 1) % BlockSize]]

\* What read copies out, and the array after it; it throws when the data or
\* the chain ends.
ReadBytes(s, n) ==
  [j \in 1 .. n |-> s.chain[BlockOf(s, j - 1)][(s.pos + j - 1) % BlockSize]]
CanRead(s, n) == n <= s.total - s.pos /\ BlockOf(s, n) <= Len(s.chain)
DoRead(s, n) == [s EXCEPT !.cur = BlockOf(s, n), !.pos = @ + n]

-----------------------------------------------------------------------------
(* Public operations                                                       *)

Inside(pos) == pos % BlockSize # 0

\* What f becomes when d is written at pos.
Over(f, pos, d) == SubSeq(f, 1, pos) \o d \o SubSeq(f, pos + Len(d) + 1, Len(f))

\* A write at the end of f or within it; a long one starts at a block's edge.
Proper(f, pos, d) ==
  /\ pos = Len(f) \/ pos + Len(d) <= Len(f)
  /\ Len(d) <= BlockSize \/ ~Inside(pos)

\* writeInt8 .. writeDouble, writeString: d is the value's bytes
WriteFixed(d) ==
  /\ a.pos + Len(d) <= MaxSize
  /\ a' = DoWrite(a, d)
  /\ file' = Over(file, a.pos, d)
  /\ due' = Inside(a.pos + Len(d))
  /\ careful' = (careful /\ ~due /\ Proper(file, a.pos, d))
  /\ UNCHANGED misread

\* writeStringU16 .. writeStringV64: a write of the length and one of the bytes.
\* The length is one byte here, as writeStringV64 makes it for a short string.
WriteString(d) ==
  LET f == Over(file, a.pos, <<Len(d)>>)
  IN /\ a.pos + 1 + Len(d) <= MaxSize
     /\ a' = DoWrite(DoWrite(a, <<Len(d)>>), d)
     /\ file' = Over(f, a.pos + 1, d)
     /\ due' = Inside(a.pos + 1 + Len(d))
     /\ careful' = /\ careful /\ ~due
                   /\ d = <<>> \/ (~Inside(a.pos + 1) /\ Proper(f, a.pos + 1, d))
     /\ UNCHANGED misread

\* readInt8 .. readDouble
ReadFixed(n) ==
  /\ a.pos + n <= Len(file)
  /\ IF CanRead(a, n)
     THEN /\ a' = DoRead(a, n)
          /\ misread' = (misread \/ ReadBytes(a, n) # SubSeq(file, a.pos + 1, a.pos + n))
     ELSE a' = [a EXCEPT !.err = TRUE] /\ UNCHANGED misread
  /\ careful' = (careful /\ ~due)
  /\ UNCHANGED <<file, due>>

\* readStringU16 .. readStringV64, where a length and as many bytes were written
ReadString ==
  /\ a.pos < Len(file) /\ a.pos + 1 + file[a.pos + 1] <= Len(file)
  /\ LET n == ReadBytes(a, 1)[1]
         s == DoRead(a, 1)
     IN IF ~CanRead(a, 1) \/ n \notin Nat \/ ~CanRead(s, n)
        THEN a' = [a EXCEPT !.err = TRUE] /\ UNCHANGED misread
        ELSE /\ a' = DoRead(s, n)
             /\ misread' = (misread \/ ReadBytes(s, n) #
                             SubSeq(file, a.pos + 2, a.pos + 1 + file[a.pos + 1]))
  /\ careful' = (careful /\ ~due)
  /\ UNCHANGED <<file, due>>

\* setPosition walks from the first block.
SetPosition(v) ==
  /\ v \in 0 .. Len(file)
  /\ LET b == v \div BlockSize + 1
     IN a' = IF v > a.cap \/ b > Len(a.chain) THEN [a EXCEPT !.err = TRUE]
             ELSE [a EXCEPT !.pos = v, !.cur = b, !.total = IF v >= @ THEN v ELSE @]
  /\ due' = FALSE
  /\ UNCHANGED <<file, careful, misread>>

\* clear deletes every block but the first.
Clear ==
  /\ a' = [chain |-> SubSeq(a.chain, 1, 1), cur |-> 1, pos |-> 0, total |-> 0,
           cap |-> BlockSize, err |-> FALSE]
  /\ file' = <<>> /\ due' = FALSE /\ careful' = TRUE /\ misread' = FALSE

Data == UNION {[1 .. n -> Bytes] : n \in 0 .. MaxData}

\* After an exception the array is not used again.
Thrown == a.err /\ UNCHANGED vars

Next ==
  \/ /\ ~a.err
     /\ \/ \E d \in Data \ {<<>>} : WriteFixed(d)
        \/ \E d \in Data : Len(d) \in Bytes /\ WriteString(d)
        \/ \E n \in 1 .. MaxData : ReadFixed(n)
        \/ \E v \in 0 .. MaxSize : SetPosition(v)
        \/ ReadString \/ Clear
  \/ Thrown

Spec == Init /\ [][Next]_vars

-----------------------------------------------------------------------------
(* Properties                                                              *)

\* What was written is found at its place by a walk from the first block:
\* write puts a byte where setPosition, read at a position and dump look for
\* it, whatever the writes, reads and moves of a careful client were.
BytesAtPlace ==
  careful => \A i \in DOMAIN file :
    LET b == (i - 1) \div BlockSize + 1
    IN b <= Len(a.chain) /\ a.chain[b][(i - 1) % BlockSize] = file[i]

\* A careful client reads what was written where it reads, and never meets
\* "broken data", "broken bytearray" or an early end.
ReadsBack == careful => ~a.err /\ ~misread

\* "写满一块则再分配一块空间" (ByteArray.cpp 479: a new block once one is full): a
\* client that appends, moves and reads finds what it wrote, careful or not.
AlwaysReadsBack == ~a.err /\ ~misread
=============================================================================
