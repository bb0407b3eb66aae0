----------------------------- MODULE RingBuffer -----------------------------
(***************************************************************************)
(* The lock free ring buffer of neutrino/src/driver/ringbuffer.c, used by  *)
(* one writing and one reading thread: the recorder (stream2file.cpp) and  *)
(* the movie players.                                                      *)
(*                                                                         *)
(* write_ptr and read_ptr are volatile, and both "advance" functions store *)
(* them twice: `ptr += cnt' first, `ptr &= size_mask' then.  Between the   *)
(* two stores the other thread can see a pointer that lies outside the     *)
(* buffer, if the scheduler switches threads just there.  Each store is    *)
(* therefore a step of its own, as is each load of the other side's        *)
(* pointer and each copy of data; Preempts says whether a switch between   *)
(* the two stores of an advance is considered.  Stores of one thread are   *)
(* seen by the other in program order (the boxes have one CPU).            *)
(*                                                                         *)
(* A cell of the buffer holds the ordinal of the byte stored in it, so     *)
(* that losing, repeating or reordering bytes is visible.                  *)
(***************************************************************************)
EXTENDS Integers

CONSTANTS
  Size,      \* rb->size, a power of two: x & size_mask is x % Size
  MaxBytes,  \* bound: the number of bytes the writer offers
  Preempts   \* may a thread be switched out between the stores of an advance?

ASSUME SizeAssumption == Size \in Nat /\ Size >= 2
ASSUME BytesAssumption == MaxBytes \in Nat
ASSUME PreemptsAssumption == Preempts \in BOOLEAN

VARIABLES
  buf,        \* the cells
  write_ptr,
  read_ptr,
  wpc, wvec, wcnt,  \* the writer: where it is, its vector, bytes just copied in
  rpc, rvec, rcnt,  \* the reader: the same, bytes just copied out
  written,    \* bytes made visible by write_advance
  taken,      \* bytes given back by read_advance
  got         \* what the reader has copied out and not given back yet

writerVars == <<buf, write_ptr, written, wpc, wvec, wcnt>>
readerVars == <<read_ptr, taken, rpc, rvec, rcnt, got>>
vars == <<writerVars, readerVars>>

Cells == 0 .. (Size - 1)

(* x & rb->size_mask                                                       *)
Masked(x) == x % Size

(* The i-th cell after cell p, counted from 0.                             *)
At(p, i) == Masked(p + i)

(***************************************************************************)
(* The arithmetic on the pointers                                          *)
(***************************************************************************)
ReadSpace(w, r) ==
  IF w > r THEN w - r ELSE Masked(w - r + Size)

WriteSpace(w, r) ==
  IF w > r THEN Masked(r - w + Size) - 1
  ELSE IF w < r THEN r - w - 1
  ELSE Size - 1

AtMost(cnt, space) == IF cnt > space THEN space ELSE cnt

\* Mutant: the second segment is one byte too long.
VectorAtWrap(p, n) ==
  IF p + n > Size
  THEN [buf |-> p, len |-> Size - p, more |-> p + n - Size + 1]
  ELSE [buf |-> p, len |-> n, more |-> 0]

(* A vector of `n' bytes from cell `p': the segment at p and, when the     *)
(* bytes pass the end of the buffer, `more' bytes at the start.            *)
Vector(p, n) ==
  IF p + n > Size
  THEN [buf |-> p, len |-> Size - p, more |-> Masked(p + n)]
  ELSE [buf |-> p, len |-> n, more |-> 0]

(* What is left of a vector when the caller has used its first `n' bytes. *)
Rest(v, n) ==
  IF n >= v.len
  THEN [buf |-> n - v.len, len |-> v.more - (n - v.len), more |-> 0]
  ELSE [buf |-> v.buf + n, len |-> v.len - n, more |-> v.more]

NoVector == [buf |-> 0, len |-> 0, more |-> 0]

(* The cells a vector gives access to.                                     *)
CellsOf(v) == {c \in Cells : \/ v.buf <= c /\ c < v.buf + v.len
                             \/ c < v.more}

Init ==
  /\ buf = [c \in Cells |-> 0]
  /\ write_ptr = 0
  /\ read_ptr = 0
  /\ wpc = "idle" /\ wvec = NoVector /\ wcnt = 0
  /\ rpc = "idle" /\ rvec = NoVector /\ rcnt = 0
  /\ written = 0
  /\ taken = 0
  /\ got = [c \in Cells |-> 0]

(***************************************************************************)
(* The writer.  ringbuffer_write asks for `cnt' bytes, copies and advances *)
(* segment by segment; the callers of ringbuffer_get_write_vector ask for  *)
(* all there is, advance by what they have filled of it (of both segments  *)
(* at once in movieplayer2.cpp) and may ask again before they have used it *)
(* up.                                                                     *)
(***************************************************************************)
GetWriteVector ==
  /\ wpc = "idle"
  /\ rpc = "mask" => Preempts
  /\ \E cnt \in 1 .. Size :
       LET n == AtMost(cnt, WriteSpace(write_ptr, read_ptr)) IN
       /\ n # 0
       /\ wvec' = Vector(write_ptr, n)
  /\ wpc' = "fill"
  /\ UNCHANGED <<buf, write_ptr, written, wcnt, readerVars>>

\* Mutant: the second segment starts again with the first bytes of the source.
FillRestarts ==
  /\ wpc = "fill"
  /\ \E n \in 1 .. (wvec.len + wvec.more) :
       /\ written + n <= MaxBytes
       /\ buf' = [c \in Cells |->
                    IF \E i \in 0 .. (n - 1) : c = At(wvec.buf, i)
                    THEN written + (IF c < wvec.buf THEN c ELSE c - wvec.buf)
                    ELSE buf[c]]
       /\ wcnt' = n
  /\ wpc' = "advance"
  /\ UNCHANGED <<write_ptr, written, wvec, readerVars>>

(* read(2) or memcpy into the vector                                       *)
Fill ==
  /\ wpc = "fill"
  /\ \E n \in 1 .. (wvec.len + wvec.more) :
       /\ written + n <= MaxBytes
       /\ buf' = [c \in Cells |->
                    IF \E i \in 0 .. (n - 1) : c = At(wvec.buf, i)
                    THEN written + Masked(c - wvec.buf + Size)
                    ELSE buf[c]]
       /\ wcnt' = n
  /\ wpc' = "advance"
  /\ UNCHANGED <<write_ptr, written, wvec, readerVars>>

\* Mutant: the pointer advances over the whole vector, not over what was copied.
WriteAdvanceAll ==
  /\ wpc = "advance"
  /\ write_ptr' = write_ptr + wvec.len + wvec.more
  /\ written' = written + wcnt
  /\ wpc' = "mask"
  /\ UNCHANGED <<buf, wvec, wcnt, readerVars>>

WriteAdvance ==
  /\ wpc = "advance"
  /\ write_ptr' = write_ptr + wcnt
  /\ written' = written + wcnt
  /\ wpc' = "mask"
  /\ UNCHANGED <<buf, wvec, wcnt, readerVars>>

WriteMask ==
  /\ wpc = "mask"
  /\ write_ptr' = Masked(write_ptr)
  /\ wvec' = Rest(wvec, wcnt)
  /\ wcnt' = 0
  /\ \/ wpc' = "fill" /\ Rest(wvec, wcnt).len # 0
     \/ wpc' = "idle"
  /\ UNCHANGED <<buf, written, readerVars>>

(***************************************************************************)
(* The reader.  ringbuffer_read and ringbuffer_get_readpointer (which      *)
(* copies a wrapped vector into helpbuf) ask for `cnt' bytes, the callers  *)
(* of ringbuffer_get_read_vector and ringbuffer_read_space for all.        *)
(***************************************************************************)
GetReadVector ==
  /\ rpc = "idle"
  /\ wpc = "mask" => Preempts
  /\ \E cnt \in 1 .. Size :
       LET n == AtMost(cnt, ReadSpace(write_ptr, read_ptr)) IN
       /\ n # 0
       /\ rvec' = Vector(read_ptr, n)
  /\ rpc' = "take"
  /\ UNCHANGED <<read_ptr, taken, rcnt, got, writerVars>>

(* write(2) or memcpy from the vector                                      *)
Take ==
  /\ rpc = "take"
  /\ \E n \in 1 .. (rvec.len + rvec.more) :
       /\ got' = [i \in Cells |-> IF i < n THEN buf[At(rvec.buf, i)] ELSE 0]
       /\ rcnt' = n
  /\ rpc' = "advance"
  /\ UNCHANGED <<read_ptr, taken, rvec, writerVars>>

ReadAdvance ==
  /\ rpc = "advance"
  /\ read_ptr' = read_ptr + rcnt
  /\ taken' = taken + rcnt
  /\ rpc' = "mask"
  /\ UNCHANGED <<rvec, rcnt, got, writerVars>>

ReadMask ==
  /\ rpc = "mask"
  /\ read_ptr' = Masked(read_ptr)
  /\ rvec' = Rest(rvec, rcnt)
  /\ rcnt' = 0
  /\ got' = [c \in Cells |-> 0]
  /\ \/ rpc' = "take" /\ Rest(rvec, rcnt).len # 0
     \/ rpc' = "idle"
  /\ UNCHANGED <<taken, writerVars>>

(* ringbuffer_reset "is not thread safe": both threads are outside the     *)
(* buffer.  What was not read is dropped.                                  *)
Reset ==
  /\ wpc = "idle" /\ rpc = "idle"
  /\ read_ptr' = 0
  /\ write_ptr' = 0
  /\ taken' = written
  /\ UNCHANGED <<buf, written, wpc, wvec, wcnt, rpc, rvec, rcnt, got>>

Next ==
  \/ GetWriteVector \/ Fill \/ WriteAdvance \/ WriteMask
  \/ GetReadVector \/ Take \/ ReadAdvance \/ ReadMask
  \/ Reset

Spec == Init /\ [][Next]_vars

(***************************************************************************)
(* Properties                                                              *)
(***************************************************************************)
VectorType == [buf : Nat, len : Nat, more : Nat]

TypeOK ==
  /\ buf \in [Cells -> Nat]
  /\ got \in [Cells -> Nat]
  /\ write_ptr \in 0 .. (2 * Size - 1)
  /\ read_ptr \in 0 .. (2 * Size - 1)
  /\ wpc \in {"idle", "fill", "advance", "mask"}
  /\ rpc \in {"idle", "take", "advance", "mask"}
  /\ wvec \in VectorType /\ rvec \in VectorType
  /\ wcnt \in Nat /\ rcnt \in Nat
  /\ written \in Nat /\ taken \in Nat

Unread == written - taken

(* The cells a thread still holds through its vector.                      *)
WriterCells ==
  IF wpc \in {"fill", "advance"} THEN CellsOf(wvec)
  ELSE IF wpc = "mask" THEN CellsOf(Rest(wvec, wcnt))
  ELSE {}

ReaderCells ==
  IF rpc \in {"take", "advance"} THEN CellsOf(rvec)
  ELSE IF rpc = "mask" THEN CellsOf(Rest(rvec, rcnt))
  ELSE {}

(* "This is safe for the case of one read thread and one write thread"     *)
(* (ringbuffer.c): no cell is ever handed to both threads at once, however *)
(* old their views of each other's pointer are.                            *)
Disjoint == WriterCells \cap ReaderCells = {}

(* The bytes copied out of the buffer are the next bytes of the stream:    *)
(* none is lost, repeated, overwritten or out of order.                    *)
InOrder ==
  rpc = "advance" => \A i \in 0 .. (rcnt - 1) : got[i] = taken + i

(* Whatever else the other thread is doing, ringbuffer_read_space tells    *)
(* the reader how many bytes are unread and ringbuffer_write_space tells   *)
(* the writer how many fit, one cell being kept free.                      *)
SpaceExact ==
  /\ rpc = "idle" /\ wpc # "mask" => ReadSpace(write_ptr, read_ptr) = Unread
  /\ wpc = "idle" /\ rpc # "mask" =>
       WriteSpace(write_ptr, read_ptr) = Size - 1 - Unread

(***************************************************************************)
(* The inductive invariant, when no thread is switched out between the two *)
(* stores of an advance                                                    *)
(***************************************************************************)
Total(v) == v.len + v.more

(* A vector of a thread that stands at cell p: one segment at p, and a     *)
(* second one only behind the end of the buffer.                           *)
VectorAt(v, p) ==
  /\ v.buf = p /\ p \in Cells
  /\ v.len >= 1 /\ p + v.len <= Size
  /\ v.more > 0 => p + v.len = Size
  /\ Total(v) < Size

PointersOK ==
  /\ Unread \in 0 .. (Size - 1)
  /\ Masked(write_ptr) = At(Masked(read_ptr), Unread)
  /\ wpc # "mask" => write_ptr \in Cells
  /\ rpc # "mask" => read_ptr \in Cells

WriterOK ==
  /\ wpc \in {"fill", "advance"} =>
       VectorAt(wvec, write_ptr) /\ Total(wvec) <= Size - 1 - Unread
  /\ wpc = "mask" =>
       VectorAt(wvec, write_ptr - wcnt) /\ Total(wvec) - wcnt <= Size - 1 - Unread
  /\ wpc \in {"advance", "mask"} => wcnt \in 1 .. Total(wvec)
  /\ wpc = "advance" =>
       \A i \in 0 .. (wcnt - 1) : buf[At(write_ptr, i)] = written + i

ReaderOK ==
  /\ rpc \in {"take", "advance"} =>
       VectorAt(rvec, read_ptr) /\ Total(rvec) <= Unread
  /\ rpc = "mask" =>
       VectorAt(rvec, read_ptr - rcnt) /\ Total(rvec) - rcnt <= Unread
  /\ rpc \in {"advance", "mask"} => rcnt \in 1 .. Total(rvec)
  /\ InOrder

(* The unread bytes lie in order in front of the reader.                   *)
DataOK ==
  \A i \in 0 .. (Unread - 1) : buf[At(Masked(read_ptr), i)] = taken + i

(* The code's pointers, the vectors handed out and the data in the cells   *)
(* agree at every step of both threads: the inductive invariant of the     *)
(* proofs.                                                                 *)
RingInv == TypeOK /\ PointersOK /\ WriterOK /\ ReaderOK /\ DataOK

(***************************************************************************)
(* Refinement: the bytes between the pointers behave as a bounded queue.   *)
(***************************************************************************)
Stored == Masked(Masked(write_ptr) - Masked(read_ptr) + Size)

Contents == [i \in 1 .. Stored |-> buf[At(Masked(read_ptr), i - 1)]]

Queue == INSTANCE ByteQueue WITH
  Capacity <- Size - 1, queue <- Contents, next <- written

(* The two threads' use of the buffer is indistinguishable from one of a   *)
(* bounded queue: every step of ringbuffer.c puts bytes of the stream at   *)
(* the end, takes bytes from the front, empties it or changes nothing.     *)
Implements == Queue!Spec
=============================================================================
