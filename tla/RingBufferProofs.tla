-------------------------- MODULE RingBufferProofs --------------------------
(***************************************************************************)
(* Proofs about RingBuffer for every size of the buffer and every length   *)
(* of the stream, when no thread is switched out between the two stores of *)
(* an advance.                                                             *)
(***************************************************************************)
EXTENDS RingBuffer, Sequences, SequenceTheorems, TLAPS

(***************************************************************************)
(* Arithmetic                                                              *)
(***************************************************************************)
(* Masking takes a position at most one buffer too far back into it.       *)
LEMMA MaskedIs ==
  ASSUME NEW x \in 0 .. (2 * Size - 1)
  PROVE  Masked(x) = IF x < Size THEN x ELSE x - Size
<1>1. CASE x < Size
  BY <1>1, SizeAssumption DEF Masked
<1>2. CASE x >= Size
  <2>1. x = Size * 1 + (x - Size) /\ x - Size \in 0 .. (Size - 1)
    BY <1>2, SizeAssumption
  <2> QED
    BY <2>1, SizeAssumption DEF Masked
<1> QED
  BY <1>1, <1>2, SizeAssumption

(* The i-th cell after p.                                                  *)
LEMMA AtIs ==
  ASSUME NEW p \in Cells, NEW i \in 0 .. Size
  PROVE  /\ At(p, i) = IF p + i < Size THEN p + i ELSE p + i - Size
         /\ At(p, i) \in Cells
<1>1. p + i \in 0 .. (2 * Size - 1)
  BY SizeAssumption DEF Cells
<1> QED
  BY <1>1, MaskedIs, SizeAssumption DEF At, Cells

(* A pointer that is inside the buffer is not changed by masking it.       *)
LEMMA MaskedCell ==
  ASSUME NEW p \in Cells
  PROVE  Masked(p) = p
BY MaskedIs, SizeAssumption DEF Cells

(* ringbuffer_read_space and ringbuffer_write_space are exact when both    *)
(* pointers are masked.                                                    *)
LEMMA SpaceIs ==
  ASSUME NEW w \in Cells, NEW r \in Cells, NEW u \in 0 .. (Size - 1),
         w = At(r, u)
  PROVE  ReadSpace(w, r) = u /\ WriteSpace(w, r) = Size - 1 - u
<1>0. u \in 0 .. Size
  BY SizeAssumption
<1>1. w = IF r + u < Size THEN r + u ELSE r + u - Size
  BY <1>0, AtIs
<1>2. CASE w > r
  <2>1. Masked(r - w + Size) = r - w + Size
    BY <1>2, MaskedCell, SizeAssumption DEF Cells
  <2>2. u = w - r
    BY <1>1, <1>2, SizeAssumption DEF Cells
  <2>3. ReadSpace(w, r) = u
    BY <1>2, <2>2 DEF ReadSpace
  <2>4. WriteSpace(w, r) = Masked(r - w + Size) - 1
    BY <1>2 DEF WriteSpace
  <2> QED
    BY <2>1, <2>2, <2>3, <2>4, SizeAssumption DEF Cells
<1>3. CASE w = r
  <2>1. Masked(w - r + Size) = 0
    BY <1>3, MaskedIs, SizeAssumption DEF Cells
  <2> QED
    BY <1>1, <1>3, <2>1, SizeAssumption DEF ReadSpace, WriteSpace, Cells
<1>4. CASE w < r
  <2>1. Masked(w - r + Size) = w - r + Size
    BY <1>4, MaskedCell, SizeAssumption DEF Cells
  <2> QED
    BY <1>1, <1>4, <2>1, SizeAssumption DEF ReadSpace, WriteSpace, Cells
<1> QED
  BY <1>2, <1>3, <1>4 DEF Cells

(* The vectors handed out lie at the thread's position.                    *)
LEMMA VectorIs ==
  ASSUME NEW p \in Cells, NEW n \in 1 .. (Size - 1)
  PROVE  /\ Vector(p, n) \in VectorType
         /\ VectorAt(Vector(p, n), p)
         /\ Total(Vector(p, n)) = n
<1>1. CASE p + n > Size
  <2>1. Masked(p + n) = p + n - Size
    BY <1>1, MaskedIs, SizeAssumption DEF Cells
  <2> QED
    BY <1>1, <2>1, SizeAssumption DEF Vector, VectorAt, Total, VectorType, Cells
<1>2. CASE ~(p + n > Size)
  BY <1>2, SizeAssumption DEF Vector, VectorAt, Total, VectorType, Cells
<1> QED
  BY <1>1, <1>2

(* So does what is left of one when `n' bytes of it have been used.        *)
LEMMA RestIs ==
  ASSUME NEW v \in VectorType, NEW p, VectorAt(v, p), NEW n \in 1 .. Total(v)
  PROVE  /\ Rest(v, n) \in VectorType
         /\ Total(Rest(v, n)) = Total(v) - n
         /\ Rest(v, n).len # 0 => VectorAt(Rest(v, n), At(p, n))
<1>1. p \in Cells /\ n \in 0 .. Size
  BY SizeAssumption DEF VectorAt, VectorType, Total, Cells
<1>2. At(p, n) = IF p + n < Size THEN p + n ELSE p + n - Size
  BY <1>1, AtIs
<1>3. CASE n >= v.len
  BY <1>1, <1>2, <1>3, SizeAssumption
     DEF Rest, VectorAt, Total, VectorType, Cells
<1>4. CASE ~(n >= v.len)
  BY <1>1, <1>2, <1>4, SizeAssumption
     DEF Rest, VectorAt, Total, VectorType, Cells
<1> QED
  BY <1>3, <1>4

(***************************************************************************)
(* One lemma per action                                                    *)
(***************************************************************************)
(* Both threads' positions as cells, whatever stage their advance is in.   *)
LEMMA Positions ==
  ASSUME TypeOK
  PROVE  /\ Masked(write_ptr) \in Cells
         /\ Masked(read_ptr) \in Cells
         /\ write_ptr \in Cells => Masked(write_ptr) = write_ptr
         /\ read_ptr \in Cells => Masked(read_ptr) = read_ptr
<1>1. write_ptr \in 0 .. (2 * Size - 1) /\ read_ptr \in 0 .. (2 * Size - 1)
  BY DEF TypeOK
<1>2. /\ Masked(write_ptr) = IF write_ptr < Size THEN write_ptr ELSE write_ptr - Size
      /\ Masked(read_ptr) = IF read_ptr < Size THEN read_ptr ELSE read_ptr - Size
  BY <1>1, MaskedIs
<1> QED
  BY <1>1, <1>2, SizeAssumption DEF Cells

LEMMA GetWriteVectorStep ==
  ASSUME RingInv, ~Preempts, GetWriteVector
  PROVE  RingInv'
<1> USE DEF RingInv
<1>1. rpc # "mask" /\ wpc = "idle" /\ wpc' = "fill"
  BY DEF GetWriteVector
<1>2. write_ptr \in Cells /\ read_ptr \in Cells
  BY <1>1 DEF PointersOK
<1>3. WriteSpace(write_ptr, read_ptr) = Size - 1 - Unread
  <2>1. write_ptr = At(read_ptr, Unread)
    BY <1>2, Positions DEF PointersOK
  <2>2. Unread \in 0 .. (Size - 1)
    BY DEF PointersOK
  <2> QED
    BY <1>2, <2>1, <2>2, SpaceIs
<1>4. PICK cnt \in 1 .. Size :
        LET n == AtMost(cnt, WriteSpace(write_ptr, read_ptr)) IN
        n # 0 /\ wvec' = Vector(write_ptr, n)
  BY DEF GetWriteVector
<1> DEFINE n == AtMost(cnt, WriteSpace(write_ptr, read_ptr))
<1>5. n \in 1 .. (Size - 1) /\ n <= Size - 1 - Unread
  BY <1>3, <1>4, SizeAssumption DEF AtMost, PointersOK
<1>6. wvec' = Vector(write_ptr, n)
  BY <1>4
<1> HIDE DEF n
<1>7. wvec' \in VectorType /\ VectorAt(wvec', write_ptr) /\ Total(wvec') = n
  BY <1>2, <1>5, <1>6, VectorIs
<1>8. UNCHANGED <<buf, write_ptr, written, wcnt, read_ptr, taken, rpc, rvec, rcnt, got>>
  BY DEF GetWriteVector, readerVars
<1>9. TypeOK'
  BY <1>1, <1>7, <1>8 DEF TypeOK
<1>10. PointersOK'
  BY <1>1, <1>2, <1>8 DEF PointersOK, Unread
<1>11. WriterOK'
  BY <1>1, <1>5, <1>7, <1>8 DEF WriterOK, Unread
<1>12. ReaderOK' /\ DataOK'
  BY <1>8 DEF ReaderOK, DataOK, InOrder, Unread
<1> QED
  BY <1>9, <1>10, <1>11, <1>12

LEMMA FillStep ==
  ASSUME RingInv, Fill
  PROVE  RingInv'
<1> USE DEF RingInv
<1>1. wpc = "fill" /\ wpc' = "advance"
  BY DEF Fill
<1>2. /\ write_ptr \in Cells /\ VectorAt(wvec, write_ptr)
      /\ Total(wvec) <= Size - 1 - Unread
      /\ Unread \in 0 .. (Size - 1)
      /\ write_ptr = At(Masked(read_ptr), Unread)
      /\ Masked(read_ptr) \in Cells
  BY <1>1, Positions DEF PointersOK, WriterOK
<1>3. PICK n \in 1 .. (wvec.len + wvec.more) :
        /\ buf' = [c \in Cells |->
                     IF \E i \in 0 .. (n - 1) : c = At(wvec.buf, i)
                     THEN written + Masked(c - wvec.buf + Size)
                     ELSE buf[c]]
        /\ wcnt' = n
  BY DEF Fill
<1>4. UNCHANGED <<write_ptr, written, wvec, read_ptr, taken, rpc, rvec, rcnt, got>>
  BY DEF Fill, readerVars
<1>5. /\ wvec.buf = write_ptr /\ n \in 1 .. Total(wvec)
      /\ n <= Size - 1 - Unread /\ n < Size
  BY <1>2, <1>3, SizeAssumption DEF VectorAt, Total, TypeOK, VectorType
<1>6. ASSUME NEW i \in 0 .. (n - 1)
      PROVE  /\ At(write_ptr, i) \in Cells
             /\ buf'[At(write_ptr, i)] = written + i
  <2>1. i \in 0 .. Size
    BY <1>5, SizeAssumption
  <2>2. /\ At(write_ptr, i) \in Cells
        /\ At(write_ptr, i) = IF write_ptr + i < Size THEN write_ptr + i
                              ELSE write_ptr + i - Size
    BY <1>2, <2>1, AtIs
  <2>3. At(write_ptr, i) - write_ptr + Size \in 0 .. (2 * Size - 1)
    BY <1>2, <1>5, <2>2, SizeAssumption DEF Cells
  <2>4. Masked(At(write_ptr, i) - write_ptr + Size) = i
    BY <1>2, <1>5, <2>2, <2>3, MaskedIs, SizeAssumption DEF Cells
  <2>5. buf'[At(write_ptr, i)] = written + Masked(At(write_ptr, i) - write_ptr + Size)
    BY <1>3, <1>5, <2>2
  <2> QED
    BY <2>2, <2>4, <2>5
<1>7. ASSUME NEW c \in Cells, \A i \in 0 .. (n - 1) : c # At(write_ptr, i)
      PROVE  buf'[c] = buf[c]
  BY <1>3, <1>5, <1>7
<1>8. buf' \in [Cells -> Nat]
  <2>1. ASSUME NEW c \in Cells PROVE buf'[c] \in Nat
    <3>1. CASE \E i \in 0 .. (n - 1) : c = At(write_ptr, i)
      BY <1>6, <3>1 DEF TypeOK
    <3>2. CASE ~ \E i \in 0 .. (n - 1) : c = At(write_ptr, i)
      BY <1>7, <3>2 DEF TypeOK
    <3> QED
      BY <3>1, <3>2
  <2> QED
    BY <1>3, <2>1
<1>9. TypeOK'
  BY <1>1, <1>4, <1>5, <1>3, <1>8 DEF TypeOK
<1>10. PointersOK'
  BY <1>1, <1>2, <1>4 DEF PointersOK, Unread
<1>11. WriterOK'
  BY <1>1, <1>2, <1>3, <1>4, <1>5, <1>6 DEF WriterOK, Unread, Total
<1>12. ReaderOK'
  BY <1>4 DEF ReaderOK, InOrder, Unread
<1>13. DataOK'
  <2>1. SUFFICES ASSUME NEW j \in 0 .. (Unread - 1)
                 PROVE  buf'[At(Masked(read_ptr), j)] = taken + j
    BY <1>4 DEF DataOK, Unread
  <2> DEFINE r == Masked(read_ptr)
  <2>2. r \in Cells /\ j \in 0 .. Size /\ Unread \in 0 .. Size
    BY <1>2, SizeAssumption
  <2> HIDE DEF r
  <2>3. /\ At(r, j) \in Cells
        /\ At(r, j) = IF r + j < Size THEN r + j ELSE r + j - Size
        /\ write_ptr = IF r + Unread < Size THEN r + Unread ELSE r + Unread - Size
    BY <1>2, <2>2, AtIs DEF r
  <2>4. ASSUME NEW i \in 0 .. (n - 1) PROVE At(r, j) # At(write_ptr, i)
    <3>1. i \in 0 .. Size
      BY <1>5, SizeAssumption
    <3>2. At(write_ptr, i) = IF write_ptr + i < Size THEN write_ptr + i
                             ELSE write_ptr + i - Size
      BY <1>2, <3>1, AtIs
    <3> QED
      BY <1>2, <1>5, <2>2, <2>3, <3>2, SizeAssumption DEF Cells
  <2>5. buf'[At(r, j)] = buf[At(r, j)]
    BY <1>7, <2>3, <2>4
  <2> QED
    BY <2>5 DEF DataOK, r
<1> QED
  BY <1>9, <1>10, <1>11, <1>12, <1>13

(* Going on from a cell in two strides.                                    *)
LEMMA AtAt ==
  ASSUME NEW p \in Cells, NEW i \in 0 .. Size, NEW j \in 0 .. Size,
         i + j <= Size
  PROVE  At(At(p, i), j) = At(p, i + j)
<1>1. /\ At(p, i) = IF p + i < Size THEN p + i ELSE p + i - Size
      /\ At(p, i) \in Cells
  BY AtIs
<1>2. At(At(p, i), j) = IF At(p, i) + j < Size THEN At(p, i) + j
                        ELSE At(p, i) + j - Size
  BY <1>1, AtIs
<1>3. i + j \in 0 .. Size
  BY SizeAssumption
<1>4. At(p, i + j) = IF p + (i + j) < Size THEN p + (i + j) ELSE p + (i + j) - Size
  BY <1>3, AtIs
<1> QED
  BY <1>1, <1>2, <1>4, SizeAssumption DEF Cells

LEMMA WriteAdvanceStep ==
  ASSUME RingInv, WriteAdvance
  PROVE  RingInv'
<1> USE DEF RingInv
<1>1. /\ wpc = "advance" /\ wpc' = "mask"
      /\ write_ptr' = write_ptr + wcnt /\ written' = written + wcnt
      /\ UNCHANGED <<buf, wvec, wcnt, read_ptr, taken, rpc, rvec, rcnt, got>>
  BY DEF WriteAdvance, readerVars
<1> DEFINE r == Masked(read_ptr)
<1>2. /\ write_ptr \in Cells /\ r \in Cells
      /\ VectorAt(wvec, write_ptr) /\ wvec \in VectorType
      /\ wcnt \in 1 .. Total(wvec)
      /\ Total(wvec) <= Size - 1 - Unread
      /\ Unread \in 0 .. (Size - 1)
      /\ write_ptr = At(r, Unread)
      /\ written \in Nat /\ taken \in Nat
  BY <1>1, Positions DEF PointersOK, WriterOK, TypeOK
<1>3. /\ Unread' = Unread + wcnt
      /\ wcnt \in 1 .. (Size - 1) /\ Unread' \in 0 .. (Size - 1)
  BY <1>1, <1>2, SizeAssumption DEF Unread, Total, VectorType
<1>4. write_ptr' \in 0 .. (2 * Size - 1)
  BY <1>1, <1>2, <1>3, SizeAssumption DEF Cells
<1>5. Masked(write_ptr') = At(r, Unread')
  <2>1. Masked(write_ptr') = At(At(r, Unread), wcnt)
    BY <1>1, <1>2 DEF At
  <2> HIDE DEF r
  <2> QED
    BY <1>2, <1>3, <2>1, AtAt, SizeAssumption
<1>6. TypeOK'
  BY <1>1, <1>2, <1>3, <1>4 DEF TypeOK
<1>7. PointersOK'
  BY <1>1, <1>3, <1>5 DEF PointersOK
<1>8. WriterOK'
  <2>1. write_ptr' - wcnt' = write_ptr
    BY <1>1, <1>2, <1>3, SizeAssumption DEF Cells
  <2>2. Total(wvec) - wcnt <= Size - 1 - Unread'
    BY <1>2, <1>3, SizeAssumption DEF Total, VectorType
  <2> QED
    BY <1>1, <1>2, <2>1, <2>2 DEF WriterOK
<1>9. ReaderOK'
  BY <1>1, <1>2, <1>3, SizeAssumption
     DEF ReaderOK, InOrder, Total, VectorAt, TypeOK, VectorType
<1>10. DataOK'
  <2>1. SUFFICES ASSUME NEW j \in 0 .. (Unread' - 1)
                 PROVE  buf[At(r, j)] = taken + j
    BY <1>1 DEF DataOK
  <2>2. CASE j < Unread
    BY <1>2, <2>2 DEF DataOK
  <2>3. CASE j >= Unread
    <3>1. /\ j - Unread \in 0 .. (wcnt - 1)
          /\ j - Unread \in 0 .. Size /\ Unread \in 0 .. Size
          /\ Unread + (j - Unread) = j /\ j <= Size
      BY <1>2, <1>3, <2>3, SizeAssumption
    <3>2. buf[At(write_ptr, j - Unread)] = written + (j - Unread)
      BY <1>1, <3>1 DEF WriterOK
    <3>3. written + (j - Unread) = taken + j
      BY <1>2 DEF Unread
    <3> HIDE DEF r
    <3>4. At(write_ptr, j - Unread) = At(r, j)
      BY <1>2, <3>1, AtAt
    <3> QED
      BY <3>2, <3>3, <3>4
  <2> QED
    BY <1>2, <2>2, <2>3
<1> QED
  BY <1>6, <1>7, <1>8, <1>9, <1>10

LEMMA WriteMaskStep ==
  ASSUME RingInv, WriteMask
  PROVE  RingInv'
<1> USE DEF RingInv
<1>1. /\ wpc = "mask" /\ wpc' \in {"fill", "idle"}
      /\ wpc' = "fill" => Rest(wvec, wcnt).len # 0
      /\ write_ptr' = Masked(write_ptr) /\ wvec' = Rest(wvec, wcnt) /\ wcnt' = 0
      /\ UNCHANGED <<buf, written, read_ptr, taken, rpc, rvec, rcnt, got>>
  BY DEF WriteMask, readerVars
<1> DEFINE p == write_ptr - wcnt
<1>2. /\ VectorAt(wvec, p) /\ wvec \in VectorType /\ wcnt \in 1 .. Total(wvec)
      /\ Total(wvec) - wcnt <= Size - 1 - Unread
      /\ write_ptr \in Nat /\ Unread \in 0 .. (Size - 1)
  BY <1>1 DEF WriterOK, TypeOK, PointersOK
<1>3. write_ptr' \in Cells /\ Masked(write_ptr') = write_ptr'
  BY <1>1, Positions, MaskedCell
<1>4. write_ptr' = At(p, wcnt)
  <2>1. p + wcnt = write_ptr
    BY <1>2 DEF Total, VectorType
  <2> QED
    BY <1>1, <2>1 DEF At
<1> HIDE DEF p
<1>5. /\ wvec' \in VectorType /\ Total(wvec') = Total(wvec) - wcnt
      /\ wpc' = "fill" => VectorAt(wvec', write_ptr')
  BY <1>1, <1>2, <1>4, RestIs
<1>6. TypeOK'
  BY <1>1, <1>3, <1>5, SizeAssumption, SMTT(20) DEF TypeOK, Cells
<1>7. PointersOK'
  BY <1>1, <1>3 DEF PointersOK, Unread
<1>8. WriterOK'
  BY <1>1, <1>2, <1>5 DEF WriterOK, Unread
<1>9. ReaderOK' /\ DataOK'
  BY <1>1 DEF ReaderOK, DataOK, InOrder, Unread
<1> QED
  BY <1>6, <1>7, <1>8, <1>9

LEMMA GetReadVectorStep ==
  ASSUME RingInv, ~Preempts, GetReadVector
  PROVE  RingInv'
<1> USE DEF RingInv
<1>1. wpc # "mask" /\ rpc = "idle" /\ rpc' = "take"
  BY DEF GetReadVector
<1>2. write_ptr \in Cells /\ read_ptr \in Cells
  BY <1>1 DEF PointersOK
<1>3. Unread \in 0 .. (Size - 1)
  BY DEF PointersOK
<1>4. ReadSpace(write_ptr, read_ptr) = Unread
  <2>1. write_ptr = At(read_ptr, Unread)
    BY <1>2, Positions DEF PointersOK
  <2> QED
    BY <1>2, <1>3, <2>1, SpaceIs
<1>5. PICK cnt \in 1 .. Size :
        LET n == AtMost(cnt, ReadSpace(write_ptr, read_ptr)) IN
        n # 0 /\ rvec' = Vector(read_ptr, n)
  BY DEF GetReadVector
<1> DEFINE n == AtMost(cnt, ReadSpace(write_ptr, read_ptr))
<1>6. n \in 1 .. (Size - 1) /\ n <= Unread
  BY <1>3, <1>4, <1>5, SizeAssumption DEF AtMost
<1>7. rvec' = Vector(read_ptr, n)
  BY <1>5
<1> HIDE DEF n
<1>8. rvec' \in VectorType /\ VectorAt(rvec', read_ptr) /\ Total(rvec') = n
  BY <1>2, <1>6, <1>7, VectorIs
<1>9. UNCHANGED <<buf, write_ptr, written, wpc, wvec, wcnt, read_ptr, taken, rcnt, got>>
  BY DEF GetReadVector, writerVars
<1>10. TypeOK'
  BY <1>1, <1>8, <1>9 DEF TypeOK
<1>11. PointersOK'
  BY <1>2, <1>9 DEF PointersOK, Unread
<1>12. ReaderOK'
  BY <1>1, <1>6, <1>8, <1>9 DEF ReaderOK, InOrder, Unread
<1>13. WriterOK' /\ DataOK'
  BY <1>9 DEF WriterOK, DataOK, Unread
<1> QED
  BY <1>10, <1>11, <1>12, <1>13

LEMMA TakeStep ==
  ASSUME RingInv, Take
  PROVE  RingInv'
<1> USE DEF RingInv
<1>1. /\ rpc = "take" /\ rpc' = "advance"
      /\ UNCHANGED <<buf, write_ptr, written, wpc, wvec, wcnt, read_ptr, taken, rvec>>
  BY DEF Take, writerVars
<1>2. /\ read_ptr \in Cells /\ VectorAt(rvec, read_ptr) /\ rvec \in VectorType
      /\ Total(rvec) <= Unread /\ Unread \in 0 .. (Size - 1)
      /\ Masked(read_ptr) = read_ptr
  BY <1>1, Positions DEF PointersOK, ReaderOK, TypeOK
<1>3. PICK n \in 1 .. (rvec.len + rvec.more) :
        /\ got' = [i \in Cells |-> IF i < n THEN buf[At(rvec.buf, i)] ELSE 0]
        /\ rcnt' = n
  BY DEF Take
<1>4. n \in 1 .. Total(rvec) /\ n <= Unread /\ rvec.buf = read_ptr
  BY <1>2, <1>3 DEF Total, VectorAt, VectorType
<1>5. ASSUME NEW i \in 0 .. (n - 1) PROVE i \in Cells /\ got'[i] = taken + i
  <2>1. i \in Cells /\ i \in 0 .. (Unread - 1) /\ i < n
    BY <1>2, <1>4, SizeAssumption DEF Cells
  <2>2. got'[i] = buf[At(read_ptr, i)]
    BY <1>3, <1>4, <2>1
  <2> QED
    BY <1>2, <2>1, <2>2 DEF DataOK
<1>6. got' \in [Cells -> Nat]
  <2>1. ASSUME NEW i \in Cells PROVE got'[i] \in Nat
    <3>1. CASE i < n
      BY <1>4, <1>5, <3>1 DEF Cells, TypeOK
    <3>2. CASE ~(i < n)
      BY <1>3, <3>2
    <3> QED
      BY <3>1, <3>2
  <2> QED
    BY <1>3, <2>1
<1>7. TypeOK'
  BY <1>1, <1>3, <1>4, <1>6 DEF TypeOK
<1>8. PointersOK'
  BY <1>1, <1>2 DEF PointersOK, Unread
<1>9. ReaderOK'
  BY <1>1, <1>2, <1>3, <1>4, <1>5 DEF ReaderOK, InOrder, Unread
<1>10. WriterOK' /\ DataOK'
  BY <1>1 DEF WriterOK, DataOK, Unread
<1> QED
  BY <1>7, <1>8, <1>9, <1>10

LEMMA ReadAdvanceStep ==
  ASSUME RingInv, ReadAdvance
  PROVE  RingInv'
<1> USE DEF RingInv
<1>1. /\ rpc = "advance" /\ rpc' = "mask"
      /\ read_ptr' = read_ptr + rcnt /\ taken' = taken + rcnt
      /\ UNCHANGED <<buf, write_ptr, written, wpc, wvec, wcnt, rvec, rcnt, got>>
  BY DEF ReadAdvance, writerVars
<1>2. /\ read_ptr \in Cells /\ Masked(read_ptr) = read_ptr
      /\ VectorAt(rvec, read_ptr) /\ rvec \in VectorType
      /\ rcnt \in 1 .. Total(rvec) /\ Total(rvec) <= Unread
      /\ Unread \in 0 .. (Size - 1)
      /\ Masked(write_ptr) = At(read_ptr, Unread)
      /\ written \in Nat /\ taken \in Nat
  BY <1>1, Positions DEF PointersOK, ReaderOK, TypeOK
<1>3. /\ Unread' = Unread - rcnt
      /\ rcnt \in 1 .. Unread /\ Unread' \in 0 .. (Size - 1)
  BY <1>1, <1>2, SizeAssumption DEF Unread, Total, VectorType
<1>4. read_ptr' \in 0 .. (2 * Size - 1)
  BY <1>1, <1>2, <1>3, SizeAssumption DEF Cells
<1>5. Masked(read_ptr') = At(read_ptr, rcnt)
  BY <1>1 DEF At
<1>6. ASSUME NEW j \in 0 .. Unread'
      PROVE  At(Masked(read_ptr'), j) = At(read_ptr, rcnt + j)
  <2>1. rcnt \in 0 .. Size /\ j \in 0 .. Size /\ rcnt + j <= Size
    BY <1>2, <1>3, SizeAssumption
  <2> QED
    BY <1>2, <1>5, <2>1, AtAt
<1>7. TypeOK'
  BY <1>1, <1>2, <1>3, <1>4 DEF TypeOK
<1>8. PointersOK'
  <2>1. Unread' \in 0 .. Unread' /\ rcnt + Unread' = Unread
    BY <1>2, <1>3
  <2>2. Masked(write_ptr) = At(Masked(read_ptr'), Unread')
    BY <1>2, <1>6, <2>1
  <2> QED
    BY <1>1, <1>3, <2>2 DEF PointersOK
<1>9. ReaderOK'
  <2>1. read_ptr' - rcnt' = read_ptr
    BY <1>1, <1>2, <1>3, SizeAssumption DEF Cells
  <2>2. Total(rvec) - rcnt <= Unread'
    BY <1>2, <1>3, SizeAssumption DEF Total, VectorType
  <2> QED
    BY <1>1, <1>2, <2>1, <2>2 DEF ReaderOK, InOrder
<1>10. WriterOK'
  BY <1>1, <1>2, <1>3, SizeAssumption
     DEF WriterOK, Total, TypeOK, VectorType
<1>11. DataOK'
  <2>1. SUFFICES ASSUME NEW j \in 0 .. (Unread' - 1)
                 PROVE  buf[At(Masked(read_ptr'), j)] = (taken + rcnt) + j
    BY <1>1 DEF DataOK
  <2>2. rcnt + j \in 0 .. (Unread - 1) /\ j \in 0 .. Unread'
    BY <1>2, <1>3
  <2>3. buf[At(read_ptr, rcnt + j)] = taken + (rcnt + j)
    BY <1>2, <2>2 DEF DataOK
  <2>4. taken + (rcnt + j) = (taken + rcnt) + j
    BY <1>2, <1>3
  <2> QED
    BY <1>6, <2>2, <2>3, <2>4
<1> QED
  BY <1>7, <1>8, <1>9, <1>10, <1>11

LEMMA ReadMaskStep ==
  ASSUME RingInv, ReadMask
  PROVE  RingInv'
<1> USE DEF RingInv
<1>1. /\ rpc = "mask" /\ rpc' \in {"take", "idle"}
      /\ rpc' = "take" => Rest(rvec, rcnt).len # 0
      /\ read_ptr' = Masked(read_ptr) /\ rvec' = Rest(rvec, rcnt) /\ rcnt' = 0
      /\ got' = [c \in Cells |-> 0]
      /\ UNCHANGED <<buf, write_ptr, written, wpc, wvec, wcnt, taken>>
  BY DEF ReadMask, writerVars
<1> DEFINE p == read_ptr - rcnt
<1>2. /\ VectorAt(rvec, p) /\ rvec \in VectorType /\ rcnt \in 1 .. Total(rvec)
      /\ Total(rvec) - rcnt <= Unread
      /\ read_ptr \in Nat /\ Unread \in 0 .. (Size - 1)
  BY <1>1 DEF ReaderOK, TypeOK, PointersOK
<1>3. read_ptr' \in Cells /\ Masked(read_ptr') = Masked(read_ptr)
  BY <1>1, Positions, MaskedCell
<1>4. read_ptr' = At(p, rcnt)
  <2>1. p + rcnt = read_ptr
    BY <1>2 DEF Total, VectorType
  <2> QED
    BY <1>1, <2>1 DEF At
<1> HIDE DEF p
<1>5. /\ rvec' \in VectorType /\ Total(rvec') = Total(rvec) - rcnt
      /\ rpc' = "take" => VectorAt(rvec', read_ptr')
  BY <1>1, <1>2, <1>4, RestIs
<1>6. TypeOK'
  BY <1>1, <1>3, <1>5, SizeAssumption DEF TypeOK, Cells
<1>7. PointersOK'
  BY <1>1, <1>3 DEF PointersOK, Unread
<1>8. ReaderOK'
  BY <1>1, <1>2, <1>5 DEF ReaderOK, InOrder, Unread
<1>9. WriterOK' /\ DataOK'
  BY <1>1, <1>3 DEF WriterOK, DataOK, Unread
<1> QED
  BY <1>6, <1>7, <1>8, <1>9

LEMMA ResetStep ==
  ASSUME RingInv, Reset
  PROVE  RingInv'
<1> USE DEF RingInv
<1>1. /\ wpc = "idle" /\ rpc = "idle" /\ read_ptr' = 0 /\ write_ptr' = 0
      /\ taken' = written
      /\ UNCHANGED <<buf, written, wpc, wvec, wcnt, rpc, rvec, rcnt, got>>
  BY DEF Reset
<1>2. Unread' = 0 /\ 0 \in Cells /\ Masked(0) = 0 /\ At(0, 0) = 0
  BY <1>1, AtIs, MaskedCell, SizeAssumption DEF TypeOK, Unread, Cells
<1>3. TypeOK'
  BY <1>1, SizeAssumption DEF TypeOK
<1>4. PointersOK'
  BY <1>1, <1>2, SizeAssumption DEF PointersOK
<1>5. WriterOK' /\ ReaderOK' /\ DataOK'
  BY <1>1, <1>2 DEF WriterOK, ReaderOK, DataOK, InOrder
<1> QED
  BY <1>3, <1>4, <1>5

LEMMA RingInit ==
  ASSUME Init
  PROVE  RingInv
<1>1. Unread = 0 /\ 0 \in Cells /\ Masked(0) = 0 /\ At(0, 0) = 0
  BY AtIs, MaskedCell, SizeAssumption DEF Init, Unread, Cells
<1>2. TypeOK
  BY SizeAssumption DEF Init, TypeOK, VectorType, NoVector
<1>3. PointersOK /\ WriterOK /\ ReaderOK /\ DataOK
  BY <1>1, SizeAssumption DEF Init, PointersOK, WriterOK, ReaderOK, DataOK, InOrder
<1> QED
  BY <1>2, <1>3 DEF RingInv

LEMMA RingStep ==
  ASSUME RingInv, ~Preempts, [Next]_vars
  PROVE  RingInv'
<1>1. CASE UNCHANGED vars
  BY <1>1 DEF vars, writerVars, readerVars, RingInv, TypeOK, PointersOK,
              WriterOK, ReaderOK, DataOK, InOrder, Unread
<1>2. CASE Next
  BY <1>2, GetWriteVectorStep, FillStep, WriteAdvanceStep, WriteMaskStep,
     GetReadVectorStep, TakeStep, ReadAdvanceStep, ReadMaskStep, ResetStep
     DEF Next
<1> QED
  BY <1>1, <1>2

(* For every size of the buffer: pointers, vectors and data agree at every *)
(* step of the two threads of ringbuffer.c, if the two stores of an        *)
(* advance are not separated by a switch.                                  *)
THEOREM RingInvariant ==
  ASSUME ~Preempts
  PROVE  Spec => []RingInv
<1>1. Init => RingInv
  BY RingInit
<1>2. RingInv /\ [Next]_vars => RingInv'
  BY RingStep
<1> QED
  BY <1>1, <1>2, PTL DEF Spec

(* The bytes the reader copies out of the buffer are the next bytes of the *)
(* stream.                                                                 *)
THEOREM BytesInOrder ==
  ASSUME ~Preempts
  PROVE  Spec => []InOrder
<1>1. RingInv => InOrder
  BY DEF RingInv, ReaderOK
<1> QED
  BY <1>1, RingInvariant, PTL

(* The spaces ringbuffer_read_space and ringbuffer_write_space report are  *)
(* exact.                                                                  *)
THEOREM SpacesExact ==
  ASSUME ~Preempts
  PROVE  Spec => []SpaceExact
<1>1. RingInv => SpaceExact
  <2> SUFFICES ASSUME RingInv PROVE SpaceExact
    OBVIOUS
  <2>1. CASE wpc # "mask" /\ rpc # "mask"
    <3>1. /\ write_ptr \in Cells /\ read_ptr \in Cells
          /\ Unread \in 0 .. (Size - 1)
          /\ write_ptr = At(read_ptr, Unread)
      BY <2>1, Positions DEF RingInv, PointersOK
    <3> QED
      BY <3>1, SpaceIs DEF SpaceExact
  <2>2. CASE wpc = "mask" \/ rpc = "mask"
    BY <2>2 DEF SpaceExact
  <2> QED
    BY <2>1, <2>2
<1> QED
  BY <1>1, RingInvariant, PTL

(***************************************************************************)
(* The threads' cells                                                      *)
(***************************************************************************)
(* The cells of a vector at p are the next Total(v) cells from p.          *)
LEMMA HeldCells ==
  ASSUME NEW v \in VectorType, NEW p, VectorAt(v, p), NEW c \in CellsOf(v)
  PROVE  \E i \in 0 .. (Total(v) - 1) : c = At(p, i)
<1>1. /\ p \in Cells /\ c \in Cells /\ v.buf = p /\ p + v.len <= Size
      /\ v.len \in Nat /\ v.more \in Nat /\ Total(v) = v.len + v.more
      /\ v.more > 0 => p + v.len = Size
      /\ Total(v) < Size
      /\ (p <= c /\ c < p + v.len) \/ c < v.more
  BY DEF VectorAt, CellsOf, VectorType, Total
<1>2. CASE p <= c /\ c < p + v.len
  <2>1. c - p \in 0 .. (Total(v) - 1) /\ c - p \in 0 .. Size
    BY <1>1, <1>2, SizeAssumption DEF Cells
  <2>2. At(p, c - p) = c
    <3>1. At(p, c - p) = IF p + (c - p) < Size THEN p + (c - p) ELSE p + (c - p) - Size
      BY <1>1, <2>1, AtIs
    <3> QED
      BY <1>1, <3>1, SizeAssumption DEF Cells
  <2> QED
    BY <2>1, <2>2
<1>3. CASE c < v.more
  <2>1. c + v.len \in 0 .. (Total(v) - 1) /\ c + v.len \in 0 .. Size
    BY <1>1, <1>3, SizeAssumption DEF Cells
  <2>2. At(p, c + v.len) = c
    <3>1. At(p, c + v.len) = IF p + (c + v.len) < Size THEN p + (c + v.len)
                             ELSE p + (c + v.len) - Size
      BY <1>1, <2>1, AtIs
    <3> QED
      BY <1>1, <1>3, <3>1, SizeAssumption DEF Cells
  <2> QED
    BY <2>1, <2>2
<1> QED
  BY <1>1, <1>2, <1>3

(* The same for what is left of a vector after `n' bytes.                  *)
LEMMA HeldAfter ==
  ASSUME NEW v \in VectorType, NEW p, VectorAt(v, p), NEW n \in 1 .. Total(v),
         NEW c \in CellsOf(Rest(v, n))
  PROVE  \E i \in 0 .. (Total(v) - n - 1) : c = At(At(p, n), i)
<1>1. CASE Rest(v, n).len # 0
  <2>1. /\ Rest(v, n) \in VectorType /\ Total(Rest(v, n)) = Total(v) - n
        /\ VectorAt(Rest(v, n), At(p, n))
    BY <1>1, RestIs
  <2> QED
    BY <2>1, HeldCells
<1>2. CASE Rest(v, n).len = 0
  BY <1>2, SizeAssumption DEF Rest, CellsOf, VectorAt, VectorType, Total, Cells
<1> QED
  BY <1>1, <1>2

(* The writer holds free cells only, the reader unread ones only.          *)
LEMMA WriterHolds ==
  ASSUME RingInv, NEW c \in WriterCells
  PROVE  \E i \in 0 .. (Size - 2 - Unread) : c = At(Masked(write_ptr), i)
<1>0. wvec \in VectorType /\ Unread \in 0 .. (Size - 1)
  BY DEF RingInv, TypeOK, PointersOK
<1>1. CASE wpc \in {"fill", "advance"}
  <2>1. /\ VectorAt(wvec, write_ptr) /\ Total(wvec) <= Size - 1 - Unread
        /\ Masked(write_ptr) = write_ptr /\ c \in CellsOf(wvec)
    BY <1>1, Positions DEF RingInv, WriterOK, PointersOK, WriterCells
  <2>2. PICK i \in 0 .. (Total(wvec) - 1) : c = At(write_ptr, i)
    BY <1>0, <2>1, HeldCells
  <2>3. i \in 0 .. (Size - 2 - Unread)
    BY <1>0, <2>1, SizeAssumption DEF Total, VectorType
  <2> QED
    BY <2>1, <2>2, <2>3
<1>2. CASE wpc = "mask"
  <2>1. /\ VectorAt(wvec, write_ptr - wcnt) /\ wcnt \in 1 .. Total(wvec)
        /\ Total(wvec) - wcnt <= Size - 1 - Unread /\ write_ptr \in Nat
        /\ c \in CellsOf(Rest(wvec, wcnt))
    BY <1>2 DEF RingInv, WriterOK, WriterCells, TypeOK
  <2>2. PICK i \in 0 .. (Total(wvec) - wcnt - 1) :
          c = At(At(write_ptr - wcnt, wcnt), i)
    BY <1>0, <2>1, HeldAfter
  <2>3. i \in 0 .. (Size - 2 - Unread) /\ write_ptr - wcnt + wcnt = write_ptr
    BY <1>0, <2>1, SizeAssumption DEF Total, VectorType
  <2> QED
    BY <2>2, <2>3 DEF At
<1> QED
  BY <1>1, <1>2 DEF WriterCells

LEMMA ReaderHolds ==
  ASSUME RingInv, NEW c \in ReaderCells
  PROVE  \E j \in 0 .. (Unread - 1) : c = At(Masked(read_ptr), j)
<1>0. rvec \in VectorType /\ Unread \in 0 .. (Size - 1)
  BY DEF RingInv, TypeOK, PointersOK
<1>1. CASE rpc \in {"take", "advance"}
  <2>1. /\ VectorAt(rvec, read_ptr) /\ Total(rvec) <= Unread
        /\ Masked(read_ptr) = read_ptr /\ c \in CellsOf(rvec)
    BY <1>1, Positions DEF RingInv, ReaderOK, PointersOK, ReaderCells
  <2>2. PICK j \in 0 .. (Total(rvec) - 1) : c = At(read_ptr, j)
    BY <1>0, <2>1, HeldCells
  <2>3. j \in 0 .. (Unread - 1)
    BY <1>0, <2>1, SizeAssumption DEF Total, VectorType
  <2> QED
    BY <2>1, <2>2, <2>3
<1>2. CASE rpc = "mask"
  <2>1. /\ VectorAt(rvec, read_ptr - rcnt) /\ rcnt \in 1 .. Total(rvec)
        /\ Total(rvec) - rcnt <= Unread /\ read_ptr \in Nat
        /\ c \in CellsOf(Rest(rvec, rcnt))
    BY <1>2 DEF RingInv, ReaderOK, ReaderCells, TypeOK
  <2>2. PICK j \in 0 .. (Total(rvec) - rcnt - 1) :
          c = At(At(read_ptr - rcnt, rcnt), j)
    BY <1>0, <2>1, HeldAfter
  <2>3. j \in 0 .. (Unread - 1) /\ read_ptr - rcnt + rcnt = read_ptr
    BY <1>0, <2>1, SizeAssumption DEF Total, VectorType
  <2> QED
    BY <2>2, <2>3 DEF At
<1> QED
  BY <1>1, <1>2 DEF ReaderCells

(* The comment of ringbuffer.c, "safe for the case of one read thread and  *)
(* one write thread": no cell is in both threads' hands.                   *)
THEOREM CellsDisjoint ==
  ASSUME ~Preempts
  PROVE  Spec => []Disjoint
<1>1. RingInv => Disjoint
  <2> SUFFICES ASSUME RingInv, NEW c \in WriterCells, c \in ReaderCells
               PROVE  FALSE
    BY DEF Disjoint
  <2> DEFINE r == Masked(read_ptr)
             w == Masked(write_ptr)
  <2>1. /\ w \in Cells /\ r \in Cells /\ w = At(r, Unread)
        /\ Unread \in 0 .. (Size - 1)
    BY Positions DEF RingInv, PointersOK
  <2>2. PICK i \in 0 .. (Size - 2 - Unread) : c = At(w, i)
    BY WriterHolds
  <2>3. PICK j \in 0 .. (Unread - 1) : c = At(r, j)
    BY ReaderHolds
  <2> HIDE DEF r, w
  <2>4. i \in 0 .. Size /\ j \in 0 .. Size /\ Unread \in 0 .. Size
    BY <2>1, SizeAssumption
  <2>5. /\ w = IF r + Unread < Size THEN r + Unread ELSE r + Unread - Size
        /\ c = IF w + i < Size THEN w + i ELSE w + i - Size
        /\ c = IF r + j < Size THEN r + j ELSE r + j - Size
    BY <2>1, <2>2, <2>3, <2>4, AtIs
  <2> QED
    BY <2>1, <2>2, <2>3, <2>5, SizeAssumption DEF Cells
<1> QED
  BY <1>1, RingInvariant, PTL

(***************************************************************************)
(* Refinement                                                              *)
(***************************************************************************)
(* n consecutive bytes of the stream from ordinal a.                       *)
Run(a, n) == [i \in 1 .. n |-> a + i - 1]

LEMMA RunFacts ==
  ASSUME NEW a \in Nat, NEW n \in Nat
  PROVE  Run(a, n) \in Seq(Nat) /\ Len(Run(a, n)) = n
BY DEF Run

LEMMA RunAppend ==
  ASSUME NEW a \in Nat, NEW n \in Nat, NEW m \in Nat
  PROVE  Run(a, n) \o Run(a + n, m) = Run(a, n + m)
<1> DEFINE s == Run(a, n)
           t == Run(a + n, m)
           u == Run(a, n + m)
<1>1. /\ s \in Seq(Nat) /\ Len(s) = n
      /\ t \in Seq(Nat) /\ Len(t) = m
      /\ u \in Seq(Nat) /\ Len(u) = n + m
  <2>1. a + n \in Nat /\ n + m \in Nat
    OBVIOUS
  <2> QED
    BY <2>1, RunFacts
<1>2. /\ \A i \in 1 .. n : s[i] = a + i - 1
      /\ \A i \in 1 .. m : t[i] = a + n + i - 1
      /\ \A i \in 1 .. (n + m) : u[i] = a + i - 1
  BY DEF Run
<1> HIDE DEF s, t, u
<1>3. /\ s \o t \in Seq(Nat) /\ Len(s \o t) = n + m
      /\ \A i \in 1 .. (n + m) :
           (s \o t)[i] = IF i <= n THEN s[i] ELSE t[i - n]
  BY <1>1, ConcatProperties
<1>4. ASSUME NEW i \in 1 .. (n + m) PROVE (s \o t)[i] = u[i]
  <2>1. CASE i <= n
    BY <1>2, <1>3, <2>1
  <2>2. CASE ~(i <= n)
    <3>1. i - n \in 1 .. m /\ a + n + (i - n) - 1 = a + i - 1
      BY <2>2
    <3> QED
      BY <1>2, <1>3, <2>2, <3>1
  <2> QED
    BY <2>1, <2>2
<1>5. s \o t = u
  BY <1>1, <1>3, <1>4, SeqEqual
<1> QED
  BY <1>5 DEF s, t, u

LEMMA RunSuffix ==
  ASSUME NEW a \in Nat, NEW n \in Nat, NEW m \in 0 .. n
  PROVE  SubSeq(Run(a, n), m + 1, n) = Run(a + m, n - m)
<1> DEFINE s == Run(a, n)
           u == Run(a + m, n - m)
<1>1. /\ s \in Seq(Nat) /\ Len(s) = n
      /\ u \in Seq(Nat) /\ Len(u) = n - m
  <2>1. a + m \in Nat /\ n - m \in Nat
    OBVIOUS
  <2> QED
    BY <2>1, RunFacts
<1>2. /\ \A i \in 1 .. n : s[i] = a + i - 1
      /\ \A i \in 1 .. (n - m) : u[i] = a + m + i - 1
  BY DEF Run
<1> HIDE DEF s, u
<1> DEFINE t == SubSeq(s, m + 1, n)
<1>3. /\ t \in Seq(Nat) /\ Len(t) = n - m
      /\ \A i \in 1 .. (n - m) : t[i] = s[m + i]
  <2>1. m + 1 \in Int /\ n \in Int /\ \A i \in (m + 1) .. n : s[i] \in Nat
    BY <1>1, <1>2
  <2>2. /\ t \in Seq(Nat)
        /\ Len(t) = IF m + 1 <= n THEN n - (m + 1) + 1 ELSE 0
        /\ \A i \in 1 .. (n - (m + 1) + 1) : t[i] = s[m + 1 + i - 1]
    BY <2>1, SubSeqProperties
  <2> HIDE DEF t
  <2> QED
    BY <2>2
<1> HIDE DEF t
<1>4. ASSUME NEW i \in 1 .. (n - m) PROVE t[i] = u[i]
  <2>1. m + i \in 1 .. n
    OBVIOUS
  <2> QED
    BY <1>2, <1>3, <2>1
<1>5. t = u
  BY <1>1, <1>3, <1>4, SeqEqual
<1> QED
  BY <1>5 DEF s, t, u

(* The cells between the pointers hold the unread bytes.                   *)
ContentsOK == Contents = Run(taken, Unread)

LEMMA ContentsAre == RingInv => ContentsOK
<1> SUFFICES ASSUME RingInv PROVE Contents = Run(taken, Unread)
  BY DEF ContentsOK
<1> DEFINE r == Masked(read_ptr)
           w == Masked(write_ptr)
<1>1. /\ w \in Cells /\ r \in Cells /\ w = At(r, Unread)
      /\ Unread \in 0 .. (Size - 1)
  BY Positions DEF RingInv, PointersOK
<1>2. Stored = Unread
  <2>1. Unread \in 0 .. Size
    BY <1>1, SizeAssumption
  <2>2. w = IF r + Unread < Size THEN r + Unread ELSE r + Unread - Size
    BY <1>1, <2>1, AtIs
  <2>3. w - r + Size \in 0 .. (2 * Size - 1)
    BY <1>1, SizeAssumption DEF Cells
  <2> DEFINE x == w - r + Size
  <2>4. Masked(x) = IF x < Size THEN x ELSE x - Size
    <3> HIDE DEF x
    <3> QED
      BY <2>3, MaskedIs DEF x
  <2>5. Masked(w - r + Size) = Unread
    <3> HIDE DEF r, w
    <3> QED
      BY <1>1, <2>2, <2>4, SizeAssumption DEF Cells
  <2> QED
    BY <2>5 DEF Stored
<1>3. ASSUME NEW i \in 1 .. Unread PROVE buf[At(r, i - 1)] = taken + i - 1
  <2>1. i - 1 \in 0 .. (Unread - 1)
    BY <1>1
  <2>2. buf[At(r, i - 1)] = taken + (i - 1)
    BY <2>1 DEF RingInv, DataOK
  <2> QED
    BY <2>1, <2>2 DEF RingInv, TypeOK
<1> QED
  BY <1>2, <1>3 DEF Contents, Run

LEMMA ContentsNext == RingInv' => ContentsOK'
BY ContentsAre, PTL

LEMMA QueueStep ==
  ASSUME RingInv, RingInv', [Next]_vars
  PROVE  [Queue!Next]_<<Contents, written>>
<1>1. Contents = Run(taken, Unread) /\ Contents' = Run(taken', Unread')
  BY ContentsAre, ContentsNext DEF ContentsOK
<1>2. /\ written \in Nat /\ taken \in Nat /\ written' \in Nat /\ taken' \in Nat
      /\ Unread \in 0 .. (Size - 1) /\ Unread' \in 0 .. (Size - 1)
      /\ Unread = written - taken /\ Unread' = written' - taken'
  BY DEF RingInv, TypeOK, PointersOK, Unread
<1>3. Unread \in Nat /\ Len(Contents) = Unread
  <2>1. Unread \in Nat
    BY <1>2
  <2> QED
    BY <1>1, <1>2, <2>1, RunFacts
<1>4. CASE UNCHANGED <<written, taken>>
  <2>1. Unread' = Unread
    BY <1>2, <1>4
  <2> QED
    BY <1>1, <1>4, <2>1
<1>5. CASE WriteAdvance
  <2>1. /\ written' = written + wcnt /\ taken' = taken /\ wcnt >= 1 /\ wcnt \in Nat
    BY <1>5 DEF WriteAdvance, readerVars, RingInv, WriterOK, TypeOK, Total, VectorType
  <2>2. /\ wcnt \in 1 .. (Size - 1 - Len(Contents)) /\ Unread' = Unread + wcnt
        /\ taken + Unread = written
    BY <1>2, <1>3, <2>1, SizeAssumption
  <2>3. Contents' = Contents \o Run(written, wcnt)
    <3>1. taken \in Nat /\ Unread \in Nat /\ wcnt \in Nat
      BY <1>2, <1>3, <2>1
    <3>2. Run(taken, Unread) \o Run(taken + Unread, wcnt) = Run(taken, Unread + wcnt)
      BY <3>1, RunAppend, Zenon
    <3> QED
      BY <1>1, <2>1, <2>2, <3>2
  <2>4. Queue!Put
    BY <2>1, <2>2, <2>3 DEF Queue!Put, Run
  <2> QED
    BY <2>4 DEF Queue!Next
<1>6. CASE ReadAdvance
  <2>1. /\ written' = written /\ taken' = taken + rcnt /\ rcnt >= 1 /\ rcnt \in Nat
    BY <1>6 DEF ReadAdvance, writerVars, RingInv, ReaderOK, TypeOK, Total, VectorType
  <2>2. rcnt \in 1 .. Unread /\ rcnt \in 0 .. Unread /\ Unread' = Unread - rcnt
    BY <1>2, <2>1, SizeAssumption
  <2>3. Contents' = SubSeq(Contents, rcnt + 1, Len(Contents))
    <3>1. taken \in Nat /\ Unread \in Nat /\ rcnt \in 0 .. Unread
      BY <1>2, <1>3, <2>2
    <3>2. SubSeq(Run(taken, Unread), rcnt + 1, Unread) = Run(taken + rcnt, Unread - rcnt)
      BY <3>1, RunSuffix, Zenon
    <3> QED
      BY <1>1, <1>3, <2>1, <2>2, <3>2
  <2>4. Queue!Get
    BY <1>3, <2>1, <2>2, <2>3 DEF Queue!Get
  <2> QED
    BY <2>4 DEF Queue!Next
<1>7. CASE Reset
  <2>1. written' = written /\ taken' = written
    BY <1>7 DEF Reset
  <2>2. Unread' = 0
    BY <1>2, <2>1
  <2>3. Contents' = << >>
    BY <1>1, <2>2 DEF Run
  <2> QED
    BY <2>1, <2>3 DEF Queue!Drop, Queue!Next
<1>8. CASE GetWriteVector \/ Fill \/ WriteMask \/ GetReadVector \/ Take \/ ReadMask
  <2>1. UNCHANGED <<written, taken>>
    BY <1>8 DEF GetWriteVector, Fill, WriteMask, GetReadVector, Take, ReadMask,
                readerVars, writerVars
  <2> QED
    BY <1>4, <2>1
<1>9. CASE UNCHANGED vars
  BY <1>4, <1>9 DEF vars, writerVars, readerVars
<1> QED
  BY <1>5, <1>6, <1>7, <1>8, <1>9 DEF Next

(* ringbuffer.c, used by one writer and one reader, implements a bounded   *)
(* queue of bytes.                                                         *)
THEOREM RingImplementsQueue ==
  ASSUME ~Preempts
  PROVE  Spec => Implements
<1>1. Init => Queue!Init
  <2> SUFFICES ASSUME Init PROVE Queue!Init
    OBVIOUS
  <2>1. RingInv /\ written = 0 /\ Unread = 0
    BY RingInit DEF Init, Unread
  <2>2. Contents = << >>
    BY <2>1, ContentsAre DEF ContentsOK, Run
  <2> QED
    BY <2>1, <2>2 DEF Queue!Init
<1>2. RingInv /\ RingInv' /\ [Next]_vars => [Queue!Next]_<<Contents, written>>
  BY QueueStep
<1> QED
  BY <1>1, <1>2, RingInvariant, PTL DEF Spec, Implements, Queue!Spec
=============================================================================
