------------------------- MODULE EventDriverProofs --------------------------
(***************************************************************************)
(* Proofs about EventDriver: the inductive invariant, lemmas about the     *)
(* operators on rings, the types and the slots, what the rings hold,       *)
(* wake-ups, the watchdog, and the theorems.  Everything holds for any     *)
(* number of programs, slots and events and any size of the rings a u16    *)
(* can count.                                                              *)
(***************************************************************************)
EXTENDS EventDriver, FiniteSetTheorems, TLAPS

USE ZenonT(30)

(***************************************************************************)
(* The inductive invariant                                                 *)
(***************************************************************************)
Events == [kind : Kinds \cup {"none"}, n : Nat]
Rings == [filter : SUBSET Kinds, free : 0 .. U16 - 1, ptr : 0 .. Size - 1,
          read_ptr : 0 .. Size - 1, event : [0 .. Size - 1 -> Events]]
ReaderPcs == {"closed", "opening", "open", "reading", "empty", "asleep"}
WatchdogPcs == {"closed", "opening", "filter", "video", "poll", "read", "sample",
                "store", "exited"}

Writers == [pc : {"idle", "test", "put", "wake"}, i : Slots, free : 0 .. U16 - 1,
            ptr : 0 .. Size - 1]

Pcs == ReaderPcs \cup WatchdogPcs \cup {"other"}
PcTypes ==
  /\ pc \in [Files -> Pcs]
  /\ \A r \in Readers : pc[r] \in ReaderPcs
  /\ pc[Watchdog] \in WatchdogPcs
  /\ pc[Other] = "other"

Types ==
  /\ event_private \in [Slots -> Files \cup {NoFile}]
  /\ data \in [Files -> Rings]
  /\ PcTypes
  /\ runnable \in [Files -> BOOLEAN]
  /\ writer \in Writers
  /\ {fpVCR, VCRMode, newVCRMode} \subseteq Levels
  /\ owed \in [Files -> Seq(Events)]
  /\ clash \subseteq Files /\ changed \in BOOLEAN /\ writes \in Nat

(* open_handle counts the files in the slots, each in one slot, and those  *)
(* that are still being opened.                                            *)
Opening == {f \in Files : pc[f] = "opening"}
UsedSlots == {i \in Slots : event_private[i] # NoFile}
OpenPcs == {"open", "reading", "empty", "asleep", "filter", "video", "poll", "read",
            "sample", "store"}
SlotsCounted ==
  /\ \A i, j \in Slots :
       event_private[i] # NoFile /\ event_private[i] = event_private[j] => i = j
  /\ \A f \in Files \ {Other} : IsOpen(f) <=> pc[f] \in OpenPcs
  /\ IsFiniteSet(Opening)
  /\ open_handle = Cardinality(UsedSlots) + Cardinality(Opening)
  /\ open_handle <= MaxOpen

(* Index a of a ring, which is less than twice its size                    *)
Wrap(a) == IF a >= Size THEN a - Size ELSE a

(* Ring d holds the events of q.                                           *)
Holds(d, q) ==
  /\ d.free \in 0 .. Size
  /\ d.ptr = Wrap(d.read_ptr + (Size - d.free))
  /\ Len(q) = Size - d.free
  /\ \A k \in 1 .. Len(q) : q[k] = d.event[Wrap(d.read_ptr + k - 1)]

(* The task has loaded the count and the pointer of the file it writes to. *)
TaskLoaded ==
  writer.pc = "put" =>
    LET f == event_private[writer.i]
    IN  f # NoFile /\ (f \notin clash => /\ writer.free = data[f].free
                                         /\ writer.ptr = data[f].ptr
                                         /\ data[f].free > 0)

RingsHold ==
  /\ \A f \in Files : f \notin clash => Holds(data[f], owed[f])
  /\ \A f \in Files : ~IsOpen(f) => owed[f] = <<>> /\ f \notin clash
  /\ TaskLoaded

(* A program that found its ring empty has been made runnable since, if    *)
(* the ring is not empty any more, or will be.                             *)
Missed(r) == HasData(r) /\ (pc[r] = "asleep" \/ (pc[r] = "empty" /\ ~runnable[r]))
Woken == \A r \in Readers : Missed(r) => writer.pc # "idle"

HasVCR(q) == \E k \in 1 .. Len(q) : q[k].kind = "VCR"

(* The watchdog knows the level or will look.                              *)
Known ==
  \/ HasVCR(owed[Watchdog])
  \/ pc[Watchdog] = "sample"
  \/ pc[Watchdog] = "store" /\ newVCRMode = fpVCR
  \/ pc[Watchdog] # "store" /\ VCRMode = fpVCR

(* The front processor's task is done with slot s.                         *)
Past(w, s) == w.pc \in {"idle", "wake"} \/ s < w.i

ChangeServed ==
  /\ pc[Watchdog] = "filter" => data[Watchdog].filter = Kinds
  /\ pc[Watchdog] \in OpenPcs \ {"filter"} => data[Watchdog].filter = {"VCR"}
  /\ changed => IsOpen(Watchdog)
  /\ changed /\ Watchdog \notin clash =>
       /\ pc[Watchdog] = "filter" \/ data[Watchdog].free = 0 => HasVCR(owed[Watchdog])
       /\ \A s \in Slots : event_private[s] = Watchdog /\ Past(writer, s) => Known

DriverInv == Types /\ SlotsCounted /\ RingsHold /\ Woken /\ ChangeServed

-----------------------------------------------------------------------------
(***************************************************************************)
(* Arithmetic                                                              *)
(***************************************************************************)
LEMMA SmallMod ==
  ASSUME NEW s \in Nat, s # 0, NEW a \in Nat, a < s
  PROVE  a % s = a
BY SMTT(30)

LEMMA WrapMod ==
  ASSUME NEW a \in 0 .. 2 * Size - 1
  PROVE  a % Size = Wrap(a)
<1>1. Size \in Nat /\ Size # 0 /\ a \in Nat
  BY DriverAssumption, SMTT(30)
<1>2. CASE a < Size
  BY <1>1, <1>2, SmallMod, SMTT(30) DEF Wrap
<1>3. CASE a >= Size
  <2>1. ASSUME NEW s \in Nat, s # 0, NEW b \in Nat, b >= s, b < s + s
        PROVE  b % s = b - s
    BY <2>1, SMTT(30)
  <2>2. a < Size + Size
    BY <1>1, SMTT(30)
  <2> QED BY <1>1, <1>3, <2>1, <2>2 DEF Wrap
<1> QED BY <1>1, <1>2, <1>3, SMTT(30)

LEMMA ModRange ==
  ASSUME NEW w \in Nat, w # 0, NEW m \in Int
  PROVE  m % w \in 0 .. w - 1
BY SMTT(30)

LEMMA SizeFacts ==
  /\ Size \in Nat /\ Size # 0 /\ Size <= U16 - 1 /\ U16 \in Nat /\ U16 # 0
  /\ MaxOpen \in Nat /\ MaxOpen # 0
<1>1. U16 \in Nat /\ U16 # 0
  BY SMTT(30) DEF U16
<1> QED BY <1>1, DriverAssumption, SMTT(30)

(* event_free counts down and up within a u16.                             *)
LEMMA CountFacts ==
  ASSUME NEW n \in 0 .. U16 - 1
  PROVE  /\ (n - 1) % U16 \in 0 .. U16 - 1 /\ (n + 1) % U16 \in 0 .. U16 - 1
         /\ n > 0 => (n - 1) % U16 = n - 1
         /\ n < U16 - 1 => (n + 1) % U16 = n + 1
<1>1. U16 \in Nat /\ U16 # 0 /\ n - 1 \in Int /\ n + 1 \in Int
  BY SizeFacts, SMTT(30)
<1>2. ASSUME n > 0 PROVE (n - 1) % U16 = n - 1
  <2>1. n - 1 \in Nat /\ n - 1 < U16
    BY <1>1, <1>2, SMTT(30)
  <2> QED BY <1>1, <2>1, SmallMod
<1>3. ASSUME n < U16 - 1 PROVE (n + 1) % U16 = n + 1
  <2>1. n + 1 \in Nat /\ n + 1 < U16
    BY <1>1, <1>3, SMTT(30)
  <2> QED BY <1>1, <2>1, SmallMod
<1>4. (n - 1) % U16 \in 0 .. U16 - 1 /\ (n + 1) % U16 \in 0 .. U16 - 1
  BY <1>1, ModRange
<1> QED BY <1>2, <1>3, <1>4

(***************************************************************************)
(* Rings                                                                   *)
(***************************************************************************)
LEMMA FreshFacts ==
  /\ Fresh \in Rings /\ Fresh.filter = Kinds /\ Fresh.free = Size
  /\ Holds(Fresh, <<>>)
<1>1. NoEvent \in Events
  BY DEF NoEvent, Events
<1>2. Fresh \in Rings /\ Fresh.filter = Kinds /\ Fresh.free = Size
  BY <1>1, SizeFacts, SMTT(30) DEF Fresh, Rings
<1>3. Holds(Fresh, <<>>)
  BY SizeFacts, SMTT(30) DEF Fresh, Holds, Wrap
<1> QED BY <1>2, <1>3

(* What Put writes.                                                        *)
LEMMA PutFacts ==
  ASSUME NEW d \in Rings, NEW e \in Events, NEW n \in 0 .. U16 - 1, NEW p \in 0 .. Size - 1
  PROVE  /\ Put(d, e, n, p) \in Rings
         /\ Put(d, e, n, p).filter = d.filter
         /\ Put(d, e, n, p).free = (n - 1) % U16
         /\ Put(d, e, n, p).ptr = After(p)
         /\ Put(d, e, n, p).read_ptr = d.read_ptr
         /\ Put(d, e, n, p).event = [d.event EXCEPT ![p] = e]
<1>2. (n - 1) % U16 \in 0 .. U16 - 1
  BY CountFacts
<1>3. After(p) \in 0 .. Size - 1
  BY SizeFacts, SMTT(30) DEF After
<1>4. [d.event EXCEPT ![p] = e] \in [0 .. Size - 1 -> Events]
  BY DEF Rings
<1>5. Put(d, e, n, p) \in Rings
  BY <1>2, <1>3, <1>4 DEF Rings, Put
<1> QED BY <1>5 DEF Put

(* Indexes of a ring whose first event is at r, counted from 0.            *)
LEMMA WrapFacts ==
  ASSUME NEW r \in 0 .. Size - 1, NEW n \in 0 .. Size
  PROVE  /\ Wrap(r + n) \in 0 .. Size - 1
         /\ n < Size => After(Wrap(r + n)) = Wrap(r + (n + 1))
         /\ \A k \in 0 .. Size : k < n /\ n < Size => Wrap(r + k) # Wrap(r + n)
         /\ n < Size => Wrap(After(r) + n) = Wrap(r + (n + 1))
         /\ After(r) \in 0 .. Size - 1
         /\ Wrap(r) = r
<1>1. Size \in Nat /\ Size # 0
  BY SizeFacts
<1> QED BY <1>1, SMTT(30) DEF Wrap, After

(* An event put at event_ptr comes last.                                   *)
LEMMA PutHolds ==
  ASSUME NEW d \in Rings, NEW q \in Seq(Events), NEW e \in Events,
         Holds(d, q), d.free > 0
  PROVE  Holds(Put(d, e, d.free, d.ptr), Append(q, e))
<1> DEFINE c == Put(d, e, d.free, d.ptr)
           p == Append(q, e)
           r == d.read_ptr
           n == Len(q)
<1>1. /\ d.free \in 0 .. U16 - 1 /\ d.ptr \in 0 .. Size - 1 /\ r \in 0 .. Size - 1
      /\ d.event \in [0 .. Size - 1 -> Events]
  BY DEF Rings
<1>2. /\ d.free \in 1 .. Size /\ n = Size - d.free /\ d.ptr = Wrap(r + n)
      /\ \A k \in 1 .. n : q[k] = d.event[Wrap(r + k - 1)]
      /\ n \in 0 .. Size /\ n < Size
  <2>1. /\ d.free \in 0 .. Size /\ Len(q) = Size - d.free
        /\ d.ptr = Wrap(r + (Size - d.free))
        /\ \A k \in 1 .. Len(q) : q[k] = d.event[Wrap(r + k - 1)]
    BY DEF Holds
  <2> HIDE DEF n, r
  <2>2. d.free \in 1 .. Size /\ Size - d.free \in 0 .. Size /\ Size - d.free < Size
    BY <2>1, SizeFacts, SMTT(30)
  <2>3. n = Size - d.free /\ n = Len(q)
    BY <2>1 DEF n
  <2> QED BY <2>1, <2>2, <2>3
<1>3. /\ c.free = (d.free - 1) % U16 /\ c.ptr = After(d.ptr)
      /\ c.read_ptr = r /\ c.event = [d.event EXCEPT ![d.ptr] = e]
  BY DEF Put
<1>4. c.free = d.free - 1
  <2>1. (d.free - 1) % U16 = d.free - 1
    BY <1>1, CountFacts
  <2> QED BY <1>3, <2>1
<1>5. /\ Len(p) = n + 1
      /\ \A k \in 1 .. n : p[k] = q[k]
      /\ p[n + 1] = e
  BY SMTT(30)
<1> HIDE DEF c, p, r, n
<1>6. c.free \in 0 .. Size /\ Len(p) = Size - c.free
  BY <1>2, <1>4, <1>5, SizeFacts, SMTT(30)
<1>7. c.ptr = Wrap(c.read_ptr + (Size - c.free))
  <2>1. After(Wrap(r + n)) = Wrap(r + (n + 1))
    BY <1>1, <1>2, WrapFacts
  <2>2. Size - c.free = n + 1
    BY <1>2, <1>4, SizeFacts, SMTT(30)
  <2> QED BY <2>1, <2>2, <1>2, <1>3
<1>8. ASSUME NEW k \in 1 .. Len(p) PROVE p[k] = c.event[Wrap(c.read_ptr + k - 1)]
  <2>1. CASE k = n + 1
    <3>1. r + k - 1 = r + n
      BY <1>1, <1>2, <2>1, SMTT(30)
    <3>2. Wrap(c.read_ptr + k - 1) = d.ptr
      BY <3>1, <1>2, <1>3
    <3>3. c.event[d.ptr] = e
      BY <1>1, <1>3
    <3> QED BY <3>2, <3>3, <2>1, <1>5
  <2>2. CASE k \in 1 .. n
    <3>1. r + k - 1 = r + (k - 1) /\ k - 1 \in 0 .. Size /\ k - 1 < n
      BY <1>1, <1>2, <2>2, SizeFacts, SMTT(30)
    <3>2. Wrap(r + (k - 1)) \in 0 .. Size - 1
      BY <1>1, <3>1, WrapFacts
    <3>3. Wrap(r + (k - 1)) # d.ptr
      <4>1. \A j \in 0 .. Size : j < n /\ n < Size => Wrap(r + j) # Wrap(r + n)
        BY <1>1, <1>2, WrapFacts
      <4> QED BY <1>2, <3>1, <4>1
    <3>4. p[k] = d.event[Wrap(r + (k - 1))]
      BY <1>2, <1>5, <2>2, <3>1
    <3> QED BY <3>1, <3>2, <3>3, <3>4, <1>1, <1>3
  <2> QED BY <2>1, <2>2, <1>2, <1>5, SMTT(30)
<1>9. Holds(c, p)
  BY <1>6, <1>7, <1>8 DEF Holds
<1> QED BY <1>9 DEF c, p

(* What a read takes is the first one.                                     *)
LEMMA TakenFacts ==
  ASSUME NEW d \in Rings
  PROVE  /\ Taken(d) \in Rings
         /\ Taken(d).filter = d.filter
         /\ Taken(d).free = (d.free + 1) % U16
         /\ Taken(d).ptr = d.ptr
         /\ Taken(d).read_ptr = After(d.read_ptr)
         /\ Taken(d).event = d.event
<1>1. d.free \in 0 .. U16 - 1 /\ d.read_ptr \in 0 .. Size - 1
  BY DEF Rings
<1>2. (d.free + 1) % U16 \in 0 .. U16 - 1
  BY <1>1, CountFacts
<1>3. After(d.read_ptr) \in 0 .. Size - 1
  BY <1>1, SizeFacts, SMTT(30) DEF After
<1>4. Taken(d) \in Rings
  BY <1>2, <1>3 DEF Rings, Taken
<1> QED BY <1>4 DEF Taken

LEMMA TakenHolds ==
  ASSUME NEW d \in Rings, NEW q \in Seq(Events), Holds(d, q), d.free # Size
  PROVE  /\ q # <<>> /\ d.event[d.read_ptr] = q[1]
         /\ Holds(Taken(d), Tail(q))
<1> DEFINE c == Taken(d)
           p == Tail(q)
           r == d.read_ptr
           n == Len(q)
<1>1. /\ d.free \in 0 .. U16 - 1 /\ r \in 0 .. Size - 1
  BY DEF Rings
<1>2. /\ d.free \in 0 .. Size /\ n = Size - d.free /\ d.ptr = Wrap(r + n)
      /\ \A k \in 1 .. n : q[k] = d.event[Wrap(r + k - 1)]
      /\ n \in 1 .. Size /\ d.free < Size
  BY SizeFacts, SMTT(30) DEF Holds
<1>3. /\ c.free = (d.free + 1) % U16 /\ c.ptr = d.ptr
      /\ c.read_ptr = After(r) /\ c.event = d.event
  BY <1>1, TakenFacts
<1>4. c.free = d.free + 1
  <2>1. d.free < U16 - 1
    BY <1>1, <1>2, SizeFacts, SMTT(30)
  <2>2. (d.free + 1) % U16 = d.free + 1
    BY <1>1, <2>1, CountFacts
  <2> QED BY <1>3, <2>2
<1>5. q # <<>>
  BY <1>2, SMTT(30)
<1>6. /\ Len(p) = n - 1
      /\ \A k \in 1 .. n - 1 : p[k] = q[k + 1]
  BY <1>5, SMTT(30)
<1> HIDE DEF c, p, r, n
<1>7. d.event[r] = q[1]
  <2>1. r + 1 - 1 = r /\ 1 \in 1 .. n
    BY <1>1, <1>2, SMTT(30)
  <2>2. Wrap(r) = r
    BY <1>1, <1>2, SizeFacts, SMTT(30) DEF Wrap
  <2> QED BY <2>1, <2>2, <1>2
<1>8. c.free \in 0 .. Size /\ Len(p) = Size - c.free
  BY <1>2, <1>4, <1>6, SizeFacts, SMTT(30)
<1>9. c.ptr = Wrap(c.read_ptr + (Size - c.free))
  <2>1. Size - c.free = n - 1 /\ n - 1 \in 0 .. Size /\ n - 1 < Size
    BY <1>2, <1>4, SizeFacts, SMTT(30)
  <2>2. Wrap(After(r) + (n - 1)) = Wrap(r + (n - 1 + 1))
    BY <1>1, <2>1, WrapFacts
  <2>3. n - 1 + 1 = n
    BY <1>2, SMTT(30)
  <2> QED BY <2>1, <2>2, <2>3, <1>2, <1>3
<1>10. ASSUME NEW k \in 1 .. Len(p) PROVE p[k] = c.event[Wrap(c.read_ptr + k - 1)]
  <2>1. k - 1 \in 0 .. Size /\ k - 1 < Size /\ k + 1 \in 1 .. n /\ k \in 1 .. n - 1
    BY <1>2, <1>6, SizeFacts, SMTT(30)
  <2>2. Wrap(After(r) + (k - 1)) = Wrap(r + (k - 1 + 1))
    BY <1>1, <2>1, WrapFacts
  <2>3. After(r) + k - 1 = After(r) + (k - 1) /\ r + (k + 1) - 1 = r + (k - 1 + 1)
    BY <1>1, <2>1, WrapFacts, SMTT(30)
  <2> QED BY <2>1, <2>2, <2>3, <1>2, <1>3, <1>6
<1>11. Holds(c, p)
  BY <1>8, <1>9, <1>10 DEF Holds
<1> QED BY <1>5, <1>7, <1>11 DEF c, p, r

-----------------------------------------------------------------------------
(***************************************************************************)
(* Types                                                                   *)
(***************************************************************************)
LEMMA FileFacts ==
  /\ Watchdog \in Files /\ Other \in Files /\ Readers \subseteq Files
  /\ NoFile \notin Files /\ Watchdog # Other /\ Watchdog \notin Readers
  /\ Other \notin Readers
  /\ \A f \in Files : f \in Readers \/ f = Watchdog \/ f = Other
BY DriverAssumption DEF Files

LEMMA SlotFacts ==
  /\ 0 \in Slots /\ Slots \subseteq Nat
  /\ \A i \in Slots : i < MaxOpen /\ (i + 1 # MaxOpen => i + 1 \in Slots)
BY SizeFacts, SMTT(30) DEF Slots

LEMMA InitTypes == Init => Types
<1> SUFFICES ASSUME Init PROVE Types
  OBVIOUS
<1>1. event_private \in [Slots -> Files \cup {NoFile}]
  BY FileFacts DEF Init
<1>2. data \in [Files -> Rings]
  BY FreshFacts DEF Init
<1>3. PcTypes
  BY FileFacts DEF Init, PcTypes, Pcs, ReaderPcs, WatchdogPcs
<1>4. runnable \in [Files -> BOOLEAN] /\ owed \in [Files -> Seq(Events)]
  BY SMTT(30) DEF Init
<1>5. writer \in Writers
  BY SlotFacts, SizeFacts, SMTT(30) DEF Init, Idle, At, Writers
<1>6. /\ {fpVCR, VCRMode, newVCRMode} \subseteq Levels
      /\ clash \subseteq Files /\ changed \in BOOLEAN /\ writes \in Nat
  BY DriverAssumption DEF Init
<1> QED BY <1>1, <1>2, <1>3, <1>4, <1>5, <1>6 DEF Types

LEMMA AtFacts ==
  ASSUME NEW p \in {"idle", "test", "put", "wake"}, NEW i \in Slots
  PROVE  At(p, i) \in Writers /\ At(p, i).pc = p /\ At(p, i).i = i
BY SizeFacts, SMTT(30) DEF At, Writers

LEMMA NextSlotFacts ==
  ASSUME writer \in Writers
  PROVE  /\ NextSlot \in Writers
         /\ \/ NextSlot.pc = "wake"
            \/ NextSlot.pc = "test" /\ NextSlot.i = writer.i + 1
<1>1. writer.i \in Slots
  BY DEF Writers
<1>2. CASE writer.i + 1 = MaxOpen
  BY <1>2, SlotFacts, AtFacts DEF NextSlot
<1>3. CASE writer.i + 1 # MaxOpen
  <2>1. writer.i + 1 \in Slots
    BY <1>1, <1>3, SlotFacts
  <2> QED BY <1>3, <2>1, AtFacts DEF NextSlot
<1> QED BY <1>2, <1>3

(***************************************************************************)
(* What the operations do to the rings                                     *)
(***************************************************************************)
LEMMA ForgetTo ==
  ASSUME Types, NEW f \in Files, Forget(f)
  PROVE  /\ data' \in [Files -> Rings] /\ owed' \in [Files -> Seq(Events)]
         /\ clash' \subseteq Files /\ changed' \in BOOLEAN
         /\ data'[f] = Fresh /\ owed'[f] = <<>>
         /\ \A g \in Files \ {f} : data'[g] = data[g] /\ owed'[g] = owed[g]
<1>1. data \in [Files -> Rings] /\ owed \in [Files -> Seq(Events)]
  BY DEF Types
<1>2. data' = [data EXCEPT ![f] = Fresh] /\ owed' = [owed EXCEPT ![f] = <<>>]
  BY DEF Forget
<1>3. clash' \subseteq Files /\ changed' \in BOOLEAN
  BY DEF Forget, Types
<1>4. <<>> \in Seq(Events) /\ Fresh \in Rings
  BY FreshFacts, SMTT(30)
<1> QED BY <1>1, <1>2, <1>3, <1>4

LEMMA FilterTo ==
  ASSUME Types, NEW f \in Files, NEW kinds \in SUBSET Kinds, SetFilter(f, kinds)
  PROVE  /\ data' \in [Files -> Rings] /\ data'[f].filter = kinds
         /\ data'[f].free = data[f].free /\ data'[f].ptr = data[f].ptr
         /\ data'[f].read_ptr = data[f].read_ptr /\ data'[f].event = data[f].event
         /\ \A g \in Files \ {f} : data'[g] = data[g]
<1>1. data \in [Files -> Rings]
  BY DEF Types
<1>2. data' = [data EXCEPT ![f] = [data[f] EXCEPT !.filter = kinds]]
  BY <1>1 DEF SetFilter
<1>3. data[f] \in Rings
  BY <1>1
<1> DEFINE c == [data[f] EXCEPT !.filter = kinds]
<1>4. /\ c \in Rings /\ c.filter = kinds /\ c.free = data[f].free /\ c.ptr = data[f].ptr
      /\ c.read_ptr = data[f].read_ptr /\ c.event = data[f].event
  BY <1>3 DEF Rings
<1> HIDE DEF c
<1>5. data' = [data EXCEPT ![f] = c]
  BY <1>2 DEF c
<1> QED BY <1>1, <1>4, <1>5

LEMMA ConsumeTo ==
  ASSUME Types, NEW f \in Files, Consume(f)
  PROVE  /\ data' \in [Files -> Rings] /\ owed' \in [Files -> Seq(Events)]
         /\ data'[f] = Taken(data[f])
         /\ owed'[f] = IF owed[f] = <<>> THEN <<>> ELSE Tail(owed[f])
         /\ \A g \in Files \ {f} : data'[g] = data[g] /\ owed'[g] = owed[g]
<1>1. data \in [Files -> Rings] /\ owed \in [Files -> Seq(Events)]
  BY DEF Types
<1>2. /\ data' = [data EXCEPT ![f] = Taken(data[f])]
      /\ owed' = [owed EXCEPT ![f] = IF owed[f] = <<>> THEN owed[f] ELSE Tail(owed[f])]
  BY <1>1 DEF Consume
<1>3. Taken(data[f]) \in Rings
  BY <1>1, TakenFacts
<1>4. owed[f] # <<>> => Tail(owed[f]) \in Seq(Events)
  BY <1>1, SMTT(30)
<1> QED BY <1>1, <1>2, <1>3, <1>4

(* The file in the slot the task is at, and the event it writes.           *)
Target == event_private[writer.i]
VCREvent == [kind |-> "VCR", n |-> writes]

LEMMA TaskPutTo ==
  ASSUME Types, TaskLoaded, TaskPut
  PROVE  /\ Target \in Files /\ VCREvent \in Events
         /\ data' \in [Files -> Rings] /\ owed' \in [Files -> Seq(Events)]
         /\ \E n \in {writer.free, data[Target].free}, p \in {writer.ptr, data[Target].ptr} :
              data'[Target] = Put(data[Target], VCREvent, n, p)
         /\ data'[Target].filter = data[Target].filter
         /\ owed'[Target] = Append(owed[Target], VCREvent)
         /\ \A g \in Files \ {Target} : data'[g] = data[g] /\ owed'[g] = owed[g]
         /\ changed' = (changed \/ Target = Watchdog)
<1>1. data \in [Files -> Rings] /\ owed \in [Files -> Seq(Events)]
  BY DEF Types
<1>2. Target \in Files
  BY DEF Types, TaskLoaded, TaskPut, Target, Writers
<1>3. VCREvent \in Events
  BY DEF Types, VCREvent, Events, Kinds
<1>4. PICK n \in {writer.free, data[Target].free}, p \in {writer.ptr, data[Target].ptr} :
        data' = [data EXCEPT ![Target] = Put(data[Target], VCREvent, n, p)]
  BY <1>1, <1>2 DEF TaskPut, Target, VCREvent
<1>5. n \in 0 .. U16 - 1 /\ p \in 0 .. Size - 1 /\ data[Target] \in Rings
  BY <1>1, <1>2, <1>4, SMTT(30) DEF Types, Writers, Rings
<1>6. Put(data[Target], VCREvent, n, p) \in Rings
  BY <1>3, <1>5, PutFacts
<1>7. Put(data[Target], VCREvent, n, p).filter = data[Target].filter
  BY DEF Put
<1>8. owed' = [owed EXCEPT ![Target] = Append(owed[Target], VCREvent)]
  BY <1>1, <1>2 DEF TaskPut, Target, VCREvent
<1>9. Append(owed[Target], VCREvent) \in Seq(Events)
  BY <1>1, <1>2, <1>3, SMTT(30)
<1>10. changed' = (changed \/ Target = Watchdog)
  BY DEF TaskPut, Target
<1> HIDE DEF Target, VCREvent
<1>11. data' \in [Files -> Rings] /\ data'[Target] = Put(data[Target], VCREvent, n, p)
  BY <1>1, <1>2, <1>4, <1>6
<1>12. owed' \in [Files -> Seq(Events)] /\ owed'[Target] = Append(owed[Target], VCREvent)
  BY <1>1, <1>2, <1>8, <1>9
<1>13. \A g \in Files \ {Target} : data'[g] = data[g] /\ owed'[g] = owed[g]
  BY <1>1, <1>2, <1>4, <1>8
<1> QED BY <1>2, <1>3, <1>4, <1>7, <1>10, <1>11, <1>12, <1>13

(* The files the timer writes to, and the event it writes.                 *)
Recipients == {f \in Files : Accepts(f, "AV") /\ IsOpen(f)}
AVEvent == [kind |-> "AV", n |-> writes + 1]

LEMMA TimerTo ==
  ASSUME Types, TimerWrites
  PROVE  /\ AVEvent \in Events
         /\ data' \in [Files -> Rings] /\ owed' \in [Files -> Seq(Events)]
         /\ clash' \subseteq Files
         /\ clash' = clash \cup {f \in Recipients : writer.pc = "put" /\ Target = f}
         /\ \A f \in Recipients :
              /\ data'[f] = Put(data[f], AVEvent, data[f].free, data[f].ptr)
              /\ data'[f].filter = data[f].filter
              /\ owed'[f] = Append(owed[f], AVEvent)
         /\ \A f \in Files \ Recipients : data'[f] = data[f] /\ owed'[f] = owed[f]
<1>1. data \in [Files -> Rings] /\ owed \in [Files -> Seq(Events)]
  BY DEF Types
<1>2. AVEvent \in Events
  BY SMTT(30) DEF Types, AVEvent, Events, Kinds
<1>3. /\ data' = [f \in Files |-> IF f \in Recipients
                                  THEN Put(data[f], AVEvent, data[f].free, data[f].ptr)
                                  ELSE data[f]]
      /\ owed' = [f \in Files |-> IF f \in Recipients THEN Append(owed[f], AVEvent)
                                                      ELSE owed[f]]
      /\ clash' = clash \cup {f \in Recipients : writer.pc = "put" /\ Target = f}
  BY DEF TimerWrites, Recipients, IsOpen, AVEvent, Target
<1>4. Recipients \subseteq Files
  BY DEF Recipients
<1> HIDE DEF AVEvent, Recipients
<1>5. ASSUME NEW f \in Files
      PROVE  /\ Put(data[f], AVEvent, data[f].free, data[f].ptr) \in Rings
             /\ Put(data[f], AVEvent, data[f].free, data[f].ptr).filter = data[f].filter
             /\ Append(owed[f], AVEvent) \in Seq(Events)
  <2>1. data[f] \in Rings /\ data[f].free \in 0 .. U16 - 1 /\ data[f].ptr \in 0 .. Size - 1
    BY <1>1 DEF Rings
  <2>2. owed[f] \in Seq(Events)
    BY <1>1
  <2>3. Append(owed[f], AVEvent) \in Seq(Events)
    BY <1>2, <2>2, SMTT(30)
  <2>4. Put(data[f], AVEvent, data[f].free, data[f].ptr) \in Rings
    BY <1>2, <2>1, PutFacts
  <2>5. Put(data[f], AVEvent, data[f].free, data[f].ptr).filter = data[f].filter
    BY DEF Put
  <2> QED BY <2>3, <2>4, <2>5
<1>6. clash' \subseteq Files
  BY <1>3, <1>4 DEF Types
<1>7. data' \in [Files -> Rings] /\ owed' \in [Files -> Seq(Events)]
  BY <1>1, <1>3, <1>4, <1>5
<1> QED BY <1>2, <1>3, <1>4, <1>5, <1>6, <1>7

(***************************************************************************)
(* Every step keeps the types.                                             *)
(***************************************************************************)
LEMMA GotoTo ==
  ASSUME Types, NEW f \in Files \ {Other}, NEW p, Goto(f, p),
         f \in Readers => p \in ReaderPcs, f = Watchdog => p \in WatchdogPcs
  PROVE  /\ PcTypes' /\ pc'[f] = p
         /\ \A g \in Files \ {f} : pc'[g] = pc[g]
<1>1. PcTypes /\ pc' = [pc EXCEPT ![f] = p]
  BY DEF Types, Goto
<1>2. p \in ReaderPcs \cup WatchdogPcs
  BY FileFacts
<1>3. pc' \in [Files -> Pcs] /\ pc'[f] = p
      /\ \A g \in Files \ {f} : pc'[g] = pc[g]
  BY <1>1, <1>2 DEF PcTypes, Pcs
<1>4. \A r \in Readers : pc'[r] \in ReaderPcs
  BY <1>1, <1>3, FileFacts DEF PcTypes
<1>5. pc'[Watchdog] \in WatchdogPcs /\ pc'[Other] = "other"
  BY <1>1, <1>3, FileFacts DEF PcTypes
<1> QED BY <1>3, <1>4, <1>5 DEF PcTypes

LEMMA WakeTo ==
  ASSUME Types, Wake
  PROVE  /\ PcTypes' /\ runnable' \in [Files -> BOOLEAN]
         /\ \A f \in Files : runnable'[f] = TRUE /\ pc'[f] # "asleep"
         /\ \A f \in Files : pc'[f] = pc[f] \/ (pc[f] = "asleep" /\ pc'[f] = "reading")
<1>1. /\ runnable' = [f \in Files |-> TRUE]
      /\ pc' = [f \in Files |-> IF pc[f] = "asleep" THEN "reading" ELSE pc[f]]
  BY DEF Wake
<1>2. PcTypes
  BY DEF Types
<1>3. pc' \in [Files -> Pcs]
  BY <1>1, <1>2 DEF PcTypes, Pcs, ReaderPcs
<1>4. \A r \in Readers : pc'[r] \in ReaderPcs
  BY <1>1, <1>2, FileFacts DEF PcTypes, ReaderPcs
<1>5. pc'[Watchdog] \in WatchdogPcs /\ pc'[Other] = "other"
  BY <1>1, <1>2, FileFacts DEF PcTypes, WatchdogPcs
<1> QED BY <1>1, <1>3, <1>4, <1>5 DEF PcTypes

(* The rest of the state, for steps of the programs.                       *)
CallRest ==
  /\ event_private \in [Slots -> Files \cup {NoFile}]
  /\ data \in [Files -> Rings]
  /\ runnable \in [Files -> BOOLEAN]
  /\ {VCRMode, newVCRMode} \subseteq Levels
  /\ owed \in [Files -> Seq(Events)]
  /\ clash \subseteq Files /\ changed \in BOOLEAN

LEMMA CallTypes ==
  ASSUME Types, Call, PcTypes', CallRest'
  PROVE  Types'
BY DEF Types, Call, CallRest

LEMMA RestSame ==
  ASSUME Types, UNCHANGED <<drv, wdvars, ghosts>>, runnable' \in [Files -> BOOLEAN]
  PROVE  CallRest'
BY DEF Types, CallRest, drv, wdvars, ghosts

LEMMA ReleaseRest ==
  ASSUME Types, NEW f \in Files, Release(f), UNCHANGED <<runnable, wdvars>>
  PROVE  CallRest'
<1>1. Forget(f)
  BY DEF Release
<1>2. event_private' \in [Slots -> Files \cup {NoFile}]
  BY DEF Release, Types
<1>3. /\ data' \in [Files -> Rings] /\ owed' \in [Files -> Seq(Events)]
      /\ clash' \subseteq Files /\ changed' \in BOOLEAN
  BY <1>1, ForgetTo
<1>4. runnable' \in [Files -> BOOLEAN] /\ {VCRMode', newVCRMode'} \subseteq Levels
  BY DEF Types, wdvars
<1> QED BY <1>2, <1>3, <1>4 DEF CallRest

LEMMA FilterRest ==
  ASSUME Types, NEW f \in Files, NEW kinds \in SUBSET Kinds, SetFilter(f, kinds),
         UNCHANGED <<runnable, wdvars>>
  PROVE  CallRest'
<1>1. data' \in [Files -> Rings]
  BY FilterTo
<1> QED BY <1>1 DEF CallRest, Types, wdvars, SetFilter, ghosts

LEMMA ConsumeRest ==
  ASSUME Types, NEW f \in Files, Consume(f), UNCHANGED wdvars,
         runnable' \in [Files -> BOOLEAN]
  PROVE  CallRest'
<1>1. data' \in [Files -> Rings] /\ owed' \in [Files -> Seq(Events)]
  BY ConsumeTo
<1> QED BY <1>1 DEF CallRest, Types, wdvars, Consume

LEMMA WriterTypes ==
  ASSUME Types, TaskLoaded,
         TimerWrites \/ (\E v \in Levels : LevelChanges(v)) \/ TaskNext
  PROVE  Types'
<1>1. CASE TimerWrites
  <2>1. Wake
    BY <1>1 DEF TimerWrites
  <2>2. PcTypes' /\ runnable' \in [Files -> BOOLEAN]
    BY <2>1, WakeTo
  <2>3. /\ data' \in [Files -> Rings] /\ owed' \in [Files -> Seq(Events)]
        /\ clash' \subseteq Files
    BY <1>1, TimerTo
  <2>4. writes' \in Nat
    BY <1>1, SMTT(30) DEF TimerWrites, Types
  <2> QED BY <1>1, <2>2, <2>3, <2>4 DEF TimerWrites, Types, wdvars
<1>2. ASSUME NEW v \in Levels, LevelChanges(v) PROVE Types'
  <2>1. writer' \in Writers
    BY <1>2, AtFacts, SlotFacts DEF LevelChanges
  <2>2. writes' \in Nat /\ fpVCR' \in Levels
    BY <1>2, SMTT(30) DEF LevelChanges, Types
  <2>3. UNCHANGED <<drv, pc, runnable, wdvars, ghosts>>
    BY <1>2 DEF LevelChanges
  <2> QED BY <2>1, <2>2, <2>3 DEF Types, PcTypes, drv, wdvars, ghosts
<1>3. CASE TaskTest
  <2>1. UNCHANGED <<drv, pc, runnable, fpVCR, wdvars, ghosts, writes>>
    BY <1>3 DEF TaskTest
  <2>2. writer \in Writers /\ NextSlot \in Writers
    BY NextSlotFacts DEF Types
  <2>3. ASSUME Target # NoFile
        PROVE  [pc |-> "put", i |-> writer.i, free |-> data[Target].free,
                ptr |-> data[Target].ptr] \in Writers
    <3>1. writer.i \in Slots /\ Target \in Files
      BY <2>2, <2>3 DEF Types, Target, Writers
    <3>2. data[Target] \in Rings
      BY <3>1 DEF Types
    <3> QED BY <3>1, <3>2 DEF Writers, Rings
  <2>4. writer' \in Writers
    BY <1>3, <2>2, <2>3 DEF TaskTest, Target
  <2> QED BY <2>1, <2>4 DEF Types, PcTypes, drv, wdvars, ghosts
<1>4. CASE TaskPut
  <2>1. /\ data' \in [Files -> Rings] /\ owed' \in [Files -> Seq(Events)]
        /\ changed' \in BOOLEAN
    BY <1>4, TaskPutTo DEF Types
  <2>2. writer' \in Writers
    BY <1>4, NextSlotFacts DEF TaskPut, Types
  <2>3. UNCHANGED <<event_private, pc, runnable, fpVCR, wdvars, clash, writes>>
    BY <1>4 DEF TaskPut
  <2> QED BY <2>1, <2>2, <2>3 DEF Types, PcTypes, wdvars
<1>5. CASE TaskWakes
  <2>1. PcTypes' /\ runnable' \in [Files -> BOOLEAN]
    BY <1>5, WakeTo DEF TaskWakes
  <2>2. writer' \in Writers
    BY <1>5, AtFacts, SlotFacts DEF TaskWakes, Idle
  <2>3. UNCHANGED <<drv, fpVCR, wdvars, ghosts, writes>>
    BY <1>5 DEF TaskWakes
  <2> QED BY <2>1, <2>2, <2>3 DEF Types, drv, wdvars, ghosts
<1> QED BY <1>1, <1>2, <1>3, <1>4, <1>5 DEF TaskNext

LEMMA OpenTypes ==
  ASSUME Types, NEW f \in Readers \cup {Watchdog}, BeginOpen(f) \/ EndOpen(f)
  PROVE  Types'
<1>1. f \in Files \ {Other}
  BY FileFacts
<1>2. CASE BeginOpen(f)
  <2>1. PICK p : Goto(f, p) /\ (p = "opening" \/ (p = "exited" /\ f = Watchdog))
    BY <1>2 DEF BeginOpen
  <2>2. PcTypes'
    <3>1. (f \in Readers => p \in ReaderPcs) /\ (f = Watchdog => p \in WatchdogPcs)
      BY <2>1, FileFacts DEF ReaderPcs, WatchdogPcs
    <3> QED BY <1>1, <2>1, <3>1, GotoTo
  <2>3. Call /\ CallRest'
    BY <1>2 DEF BeginOpen, Types, CallRest, wdvars, ghosts
  <2> QED BY <2>2, <2>3, CallTypes
<1>3. CASE EndOpen(f)
  <2>1. PcTypes'
    <3>1. Goto(f, IF f = Watchdog THEN "filter" ELSE "open")
      BY <1>3 DEF EndOpen
    <3>2. /\ f \in Readers => (IF f = Watchdog THEN "filter" ELSE "open") \in ReaderPcs
          /\ f = Watchdog => (IF f = Watchdog THEN "filter" ELSE "open") \in WatchdogPcs
      BY FileFacts DEF ReaderPcs, WatchdogPcs
    <3> QED BY <1>1, <3>1, <3>2, GotoTo
  <2>2. event_private' \in [Slots -> Files \cup {NoFile}]
    BY <1>1, <1>3 DEF EndOpen, Types
  <2>3. data' \in [Files -> Rings]
    BY <1>3, FreshFacts DEF EndOpen, Types
  <2>4. Call /\ CallRest'
    BY <1>3, <2>2, <2>3 DEF EndOpen, Types, CallRest, wdvars, ghosts
  <2> QED BY <2>1, <2>4, CallTypes
<1> QED BY <1>2, <1>3

LEMMA WatchdogTypes ==
  ASSUME Types,
         WdFilters \/ WdVideo \/ WdPolls \/ WdPollFails \/ WdReads \/ WdSamples \/ WdStores
  PROVE  Types'
<1>1. Watchdog \in Files \ {Other} /\ Watchdog \notin Readers
  BY FileFacts
<1>2. Call
  BY DEF WdFilters, WdVideo, WdPolls, WdPollFails, WdReads, WdSamples, WdStores
<1>3. \E p \in WatchdogPcs : Goto(Watchdog, p)
  BY DEF WdFilters, WdVideo, WdPolls, WdPollFails, WdReads, WdSamples, WdStores, WatchdogPcs
<1>4. PcTypes'
  BY <1>1, <1>3, GotoTo
<1>5. CallRest'
  <2>1. CASE WdFilters
    <3>1. {"VCR"} \in SUBSET Kinds
      BY DEF Kinds
    <3> QED BY <1>1, <2>1, <3>1, FilterRest DEF WdFilters
  <2>2. CASE WdVideo
    <3>1. CASE UNCHANGED <<drv, ghosts>>
      BY <2>2, <3>1, RestSame DEF WdVideo, Types
    <3>2. CASE Release(Watchdog)
      BY <1>1, <2>2, <3>2, ReleaseRest DEF WdVideo
    <3> QED BY <2>2, <3>1, <3>2 DEF WdVideo
  <2>3. CASE WdPolls
    BY <2>3, RestSame DEF WdPolls, Types
  <2>4. CASE WdPollFails
    BY <1>1, <2>4, ReleaseRest DEF WdPollFails
  <2>5. CASE WdReads
    <3>1. runnable' \in [Files -> BOOLEAN] /\ UNCHANGED wdvars
      BY <2>5 DEF WdReads, Types
    <3>2. CASE Consume(Watchdog)
      BY <1>1, <3>1, <3>2, ConsumeRest
    <3>3. CASE UNCHANGED <<drv, ghosts>>
      BY <3>1, <3>3, RestSame
    <3> QED BY <2>5, <3>2, <3>3 DEF WdReads
  <2>6. CASE WdSamples
    BY <2>6 DEF WdSamples, CallRest, Types, drv, ghosts, Call
  <2>7. CASE WdStores
    BY <2>7, DriverAssumption, SMTT(30) DEF WdStores, CallRest, Types, drv, ghosts
  <2> QED BY <2>1, <2>2, <2>3, <2>4, <2>5, <2>6, <2>7
<1> QED BY <1>2, <1>4, <1>5, CallTypes

LEMMA ReaderTypes ==
  ASSUME Types, NEW r \in Readers,
         \/ ReaderCloses(r) \/ (\E kinds \in Filters : ReaderFilters(r, kinds))
         \/ BeginRead(r) \/ CheckRing(r) \/ Schedule(r) \/ Signal(r)
  PROVE  Types'
<1>1. r \in Files \ {Other} /\ r # Watchdog
  BY FileFacts
<1>2. Call
  BY DEF ReaderCloses, ReaderFilters, BeginRead, CheckRing, Schedule, Signal
<1>3. PcTypes'
  <2>1. CASE \E kinds \in Filters : ReaderFilters(r, kinds)
    BY <2>1 DEF ReaderFilters, Types, PcTypes
  <2>2. CASE ~ \E kinds \in Filters : ReaderFilters(r, kinds)
    <3>1. \E p \in ReaderPcs : Goto(r, p)
      BY <2>2 DEF ReaderCloses, BeginRead, CheckRing, Schedule, Signal, ReaderPcs
    <3> QED BY <1>1, <3>1, GotoTo
  <2> QED BY <2>1, <2>2
<1>4. CallRest'
  <2>1. CASE ReaderCloses(r)
    BY <1>1, <2>1, ReleaseRest DEF ReaderCloses
  <2>2. ASSUME NEW kinds \in Filters, ReaderFilters(r, kinds) PROVE CallRest'
    <3>1. kinds \in SUBSET Kinds
      BY DriverAssumption DEF Kinds
    <3> QED BY <1>1, <2>2, <3>1, FilterRest DEF ReaderFilters
  <2>3. CASE BeginRead(r) \/ Schedule(r) \/ Signal(r)
    <3>1. UNCHANGED <<drv, wdvars, ghosts>>
      BY <2>3 DEF BeginRead, Schedule, Signal
    <3>2. runnable' \in [Files -> BOOLEAN]
      BY <2>3 DEF BeginRead, Schedule, Signal, Types
    <3> QED BY <3>1, <3>2, RestSame
  <2>4. CASE CheckRing(r)
    <3>1. runnable' \in [Files -> BOOLEAN] /\ UNCHANGED wdvars
      BY <2>4 DEF CheckRing, Types
    <3>2. CASE Consume(r)
      BY <1>1, <3>1, <3>2, ConsumeRest
    <3>3. CASE UNCHANGED <<drv, ghosts>>
      BY <3>1, <3>3, RestSame
    <3> QED BY <2>4, <3>2, <3>3 DEF CheckRing
  <2> QED BY <2>1, <2>2, <2>3, <2>4
<1> QED BY <1>2, <1>3, <1>4, CallTypes

LEMMA TypesStep ==
  ASSUME Types, TaskLoaded, [Next]_vars
  PROVE  Types'
<1>1. CASE UNCHANGED vars
  BY <1>1 DEF vars, Types, PcTypes, drv, wdvars, ghosts
<1>2. CASE Next
  BY <1>2, WriterTypes, OpenTypes, WatchdogTypes, ReaderTypes
     DEF Next, WatchdogNext, ReaderNext, ReadNext
<1> QED BY <1>1, <1>2

-----------------------------------------------------------------------------
(***************************************************************************)
(* The open files are counted.                                             *)
(***************************************************************************)
LEMMA SlotsFinite ==
  /\ IsFiniteSet(Slots) /\ Cardinality(Slots) = MaxOpen
  /\ IsFiniteSet(UsedSlots)
<1>1. 0 \in Int /\ MaxOpen - 1 \in Int /\ MaxOpen \in Nat /\ MaxOpen # 0
  BY SizeFacts, SMTT(30)
<1>2. IsFiniteSet(Slots) /\ Cardinality(Slots) = MaxOpen
  BY <1>1, FS_Interval, SMTT(30) DEF Slots
<1>3. UsedSlots \subseteq Slots
  BY DEF UsedSlots
<1> QED BY <1>2, <1>3, FS_Subset

LEMMA InitSlots == Init => SlotsCounted
<1> SUFFICES ASSUME Init PROVE SlotsCounted
  OBVIOUS
<1>1. PICK f \in {NoFile, Other} :
        /\ event_private = [i \in Slots |-> IF i = 0 THEN f ELSE NoFile]
        /\ open_handle = IF f = Other THEN 1 ELSE 0
  BY DEF Init
<1>2. pc = [g \in Files |-> IF g = Other THEN "other" ELSE "closed"]
  BY DEF Init
<1>3. Opening = {}
  BY <1>2 DEF Opening
<1>4. UsedSlots = IF f = Other THEN {0} ELSE {}
  BY <1>1, FileFacts, SlotFacts DEF UsedSlots
<1>5. Cardinality(UsedSlots) = IF f = Other THEN 1 ELSE 0
  BY <1>4, FS_EmptySet, FS_Singleton
<1>6. IsFiniteSet(Opening) /\ Cardinality(Opening) = 0
  BY <1>3, FS_EmptySet
<1>7. \A g \in Files \ {Other} : IsOpen(g) <=> pc[g] \in OpenPcs
  BY <1>1, <1>2, FileFacts DEF IsOpen, OpenPcs
<1>8. \A i, j \in Slots :
        event_private[i] # NoFile /\ event_private[i] = event_private[j] => i = j
  BY <1>1
<1> QED BY <1>1, <1>5, <1>6, <1>7, <1>8, SizeFacts, SMTT(30) DEF SlotsCounted

LEMMA SlotsSame ==
  ASSUME Types, SlotsCounted, UNCHANGED <<open_handle, event_private>>,
         \A f \in Files \ {Other} : /\ pc'[f] = "opening" <=> pc[f] = "opening"
                                    /\ pc'[f] \in OpenPcs <=> pc[f] \in OpenPcs,
         PcTypes'
  PROVE  SlotsCounted'
<1>1. Opening' = Opening
  BY FileFacts DEF Opening, Types, PcTypes
<1>2. UsedSlots' = UsedSlots /\ \A f \in Files : IsOpen(f)' = IsOpen(f)
  BY DEF UsedSlots, IsOpen
<1> QED BY <1>1, <1>2 DEF SlotsCounted

(* event_open counts before it has a slot.                                 *)
LEMMA BeginOpenSlots ==
  ASSUME Types, SlotsCounted, NEW f \in Readers \cup {Watchdog}, BeginOpen(f), PcTypes'
  PROVE  SlotsCounted'
<1>1. f \in Files \ {Other} /\ pc[f] = "closed" /\ pc \in [Files -> Pcs]
  BY FileFacts DEF BeginOpen, Types, PcTypes
<1>2. CASE Goto(f, "exited") /\ UNCHANGED <<open_handle, event_private>>
  <2>1. \A g \in Files \ {Other} : /\ pc'[g] = "opening" <=> pc[g] = "opening"
                                   /\ pc'[g] \in OpenPcs <=> pc[g] \in OpenPcs
    BY <1>1, <1>2 DEF Goto, OpenPcs
  <2> QED BY <1>2, <2>1, SlotsSame
<1>3. CASE /\ open_handle # MaxOpen /\ open_handle' = open_handle + 1
           /\ Goto(f, "opening") /\ UNCHANGED event_private
  <2>1. pc' = [pc EXCEPT ![f] = "opening"]
    BY <1>3 DEF Goto
  <2>2. Opening' = Opening \cup {f} /\ f \notin Opening
    BY <1>1, <2>1 DEF Opening
  <2>3. IsFiniteSet(Opening)
    BY DEF SlotsCounted
  <2>4. IsFiniteSet(Opening') /\ Cardinality(Opening') = Cardinality(Opening) + 1
    BY <2>2, <2>3, FS_AddElement
  <2>5. UsedSlots' = UsedSlots /\ \A g \in Files : IsOpen(g)' = IsOpen(g)
    BY <1>3 DEF UsedSlots, IsOpen
  <2>6. Cardinality(Opening) \in Nat /\ Cardinality(UsedSlots) \in Nat
    BY <2>3, SlotsFinite, FS_CardinalityType
  <2>7. /\ open_handle' = Cardinality(UsedSlots') + Cardinality(Opening')
        /\ open_handle' <= MaxOpen
    BY <1>3, <2>4, <2>5, <2>6, SizeFacts, SMTT(30) DEF SlotsCounted
  <2>8. \A g \in Files \ {Other} : pc'[g] \in OpenPcs <=> pc[g] \in OpenPcs
    BY <1>1, <2>1 DEF OpenPcs
  <2> QED BY <1>3, <2>4, <2>5, <2>7, <2>8 DEF SlotsCounted
<1> QED BY <1>2, <1>3 DEF BeginOpen

LEMMA EndOpenSlots ==
  ASSUME Types, SlotsCounted, NEW f \in Readers \cup {Watchdog}, EndOpen(f)
  PROVE  SlotsCounted'
<1>1. f \in Files \ {Other} /\ pc[f] = "opening" /\ pc \in [Files -> Pcs]
  BY FileFacts DEF EndOpen, Types, PcTypes
<1>2. PICK i \in FreeSlots : event_private' = [event_private EXCEPT ![i] = f]
  BY DEF EndOpen
<1>3. /\ i \in Slots /\ event_private[i] = NoFile /\ f # NoFile
      /\ event_private \in [Slots -> Files \cup {NoFile}]
  BY <1>1, FileFacts DEF FreeSlots, Types
<1>4. PICK p \in {"filter", "open"} : pc' = [pc EXCEPT ![f] = p]
  BY DEF EndOpen, Goto
<1>5. UsedSlots' = UsedSlots \cup {i} /\ i \notin UsedSlots
  BY <1>2, <1>3 DEF UsedSlots
<1>6. Opening' = Opening \ {f} /\ f \in Opening
  BY <1>1, <1>4 DEF Opening
<1>7. IsFiniteSet(Opening) /\ IsFiniteSet(UsedSlots)
  BY SlotsFinite DEF SlotsCounted
<1>8. Cardinality(UsedSlots') = Cardinality(UsedSlots) + 1
  BY <1>5, <1>7, FS_AddElement
<1>9. IsFiniteSet(Opening') /\ Cardinality(Opening') = Cardinality(Opening) - 1
  BY <1>6, <1>7, FS_RemoveElement
<1>10. Cardinality(Opening) \in Nat /\ Cardinality(UsedSlots) \in Nat
  BY <1>7, FS_CardinalityType
<1>11. /\ open_handle' = Cardinality(UsedSlots') + Cardinality(Opening')
       /\ open_handle' <= MaxOpen
  BY <1>8, <1>9, <1>10, SMTT(30) DEF SlotsCounted, EndOpen
<1>12. ~IsOpen(f)
  BY <1>1 DEF SlotsCounted, OpenPcs
<1>13. \A j, k \in Slots :
         event_private'[j] # NoFile /\ event_private'[j] = event_private'[k] => j = k
  BY <1>2, <1>3, <1>12 DEF SlotsCounted, IsOpen
<1>14. \A g \in Files \ {Other} : IsOpen(g)' <=> pc'[g] \in OpenPcs
  <2> SUFFICES ASSUME NEW g \in Files \ {Other} PROVE IsOpen(g)' <=> pc'[g] \in OpenPcs
    OBVIOUS
  <2>1. IsOpen(g) <=> pc[g] \in OpenPcs
    BY DEF SlotsCounted
  <2>2. CASE g = f
    BY <1>1, <1>2, <1>3, <1>4, <2>2 DEF IsOpen, OpenPcs
  <2>3. CASE g # f
    <3>1. pc'[g] = pc[g]
      BY <1>1, <1>4, <2>3
    <3>2. IsOpen(g)' <=> IsOpen(g)
      BY <1>2, <1>3, <2>3, FileFacts DEF IsOpen
    <3> QED BY <2>1, <3>1, <3>2
  <2> QED BY <2>2, <2>3
<1> QED BY <1>9, <1>11, <1>13, <1>14 DEF SlotsCounted

(* event_release clears the one slot of the file.                          *)
LEMMA ReleaseSlots ==
  ASSUME Types, SlotsCounted, NEW f \in Readers \cup {Watchdog}, pc[f] \in OpenPcs,
         Release(f), NEW p \in {"closed", "exited"}, Goto(f, p)
  PROVE  SlotsCounted'
<1>1. f \in Files \ {Other} /\ pc \in [Files -> Pcs] /\ f # NoFile
      /\ event_private \in [Slots -> Files \cup {NoFile}]
  BY FileFacts DEF Types, PcTypes
<1>2. PICK i \in Slots : event_private[i] = f
  BY <1>1 DEF SlotsCounted, IsOpen
<1>3. \A j \in Slots : event_private[j] = f => j = i
  BY <1>1, <1>2 DEF SlotsCounted
<1>4. /\ event_private' = [j \in Slots |-> IF event_private[j] = f THEN NoFile
                                           ELSE event_private[j]]
      /\ open_handle' = open_handle - 1
  BY DEF Release
<1>5. pc' = [pc EXCEPT ![f] = p]
  BY DEF Goto
<1>6. UsedSlots' = UsedSlots \ {i} /\ i \in UsedSlots
  BY <1>1, <1>2, <1>3, <1>4 DEF UsedSlots
<1>7. Opening' = Opening
  BY <1>1, <1>5 DEF Opening, OpenPcs
<1>8. IsFiniteSet(Opening) /\ IsFiniteSet(UsedSlots)
  BY SlotsFinite DEF SlotsCounted
<1>9. Cardinality(UsedSlots') = Cardinality(UsedSlots) - 1
  BY <1>6, <1>8, FS_RemoveElement
<1>10. Cardinality(Opening) \in Nat /\ Cardinality(UsedSlots) \in Nat
  BY <1>8, FS_CardinalityType
<1>11. /\ open_handle' = Cardinality(UsedSlots') + Cardinality(Opening')
       /\ open_handle' <= MaxOpen
  BY <1>4, <1>7, <1>9, <1>10, SizeFacts, SMTT(30) DEF SlotsCounted
<1>12. \A j, k \in Slots :
         event_private'[j] # NoFile /\ event_private'[j] = event_private'[k] => j = k
  BY <1>4 DEF SlotsCounted
<1>13. \A g \in Files \ {Other} : IsOpen(g)' <=> pc'[g] \in OpenPcs
  <2> SUFFICES ASSUME NEW g \in Files \ {Other} PROVE IsOpen(g)' <=> pc'[g] \in OpenPcs
    OBVIOUS
  <2>1. IsOpen(g) <=> pc[g] \in OpenPcs
    BY DEF SlotsCounted
  <2>2. CASE g = f
    BY <1>1, <1>4, <1>5, <2>2 DEF IsOpen, OpenPcs
  <2>3. CASE g # f
    <3>1. pc'[g] = pc[g]
      BY <1>1, <1>5, <2>3
    <3>2. IsOpen(g)' <=> IsOpen(g)
      BY <1>1, <1>4, <2>3, FileFacts DEF IsOpen
    <3> QED BY <2>1, <3>1, <3>2
  <2> QED BY <2>2, <2>3
<1> QED BY <1>7, <1>8, <1>11, <1>12, <1>13 DEF SlotsCounted

LEMMA GotoSlots ==
  ASSUME Types, SlotsCounted, NEW f \in Readers \cup {Watchdog}, pc[f] \in OpenPcs,
         NEW p \in OpenPcs, Goto(f, p), UNCHANGED <<open_handle, event_private>>, PcTypes'
  PROVE  SlotsCounted'
<1>1. f \in Files \ {Other} /\ pc \in [Files -> Pcs]
  BY FileFacts DEF Types, PcTypes
<1>2. \A g \in Files \ {Other} : /\ pc'[g] = "opening" <=> pc[g] = "opening"
                                 /\ pc'[g] \in OpenPcs <=> pc[g] \in OpenPcs
  BY <1>1 DEF Goto, OpenPcs
<1> QED BY <1>2, SlotsSame

LEMMA SlotsStep ==
  ASSUME Types, Types', SlotsCounted, [Next]_vars
  PROVE  SlotsCounted'
<1>1. PcTypes' /\ pc \in [Files -> Pcs]
  BY DEF Types, PcTypes
<1>2. ASSUME Wake, UNCHANGED <<open_handle, event_private>> PROVE SlotsCounted'
  <2>1. \A f \in Files : pc'[f] = pc[f] \/ (pc[f] = "asleep" /\ pc'[f] = "reading")
    BY <1>2, WakeTo
  <2>2. \A f \in Files \ {Other} : /\ pc'[f] = "opening" <=> pc[f] = "opening"
                                   /\ pc'[f] \in OpenPcs <=> pc[f] \in OpenPcs
    BY <2>1 DEF OpenPcs
  <2> QED BY <1>1, <1>2, <2>2, SlotsSame
<1>3. ASSUME UNCHANGED <<open_handle, event_private, pc>> PROVE SlotsCounted'
  BY <1>1, <1>3, SlotsSame
<1>4. CASE TimerWrites
  BY <1>2, <1>4 DEF TimerWrites
<1>5. ASSUME NEW v \in Levels, LevelChanges(v) PROVE SlotsCounted'
  BY <1>3, <1>5 DEF LevelChanges, drv
<1>6. CASE TaskTest \/ TaskPut
  BY <1>3, <1>6 DEF TaskTest, TaskPut, drv
<1>7. CASE TaskWakes
  BY <1>2, <1>7 DEF TaskWakes, drv
<1>8. ASSUME NEW f \in Readers \cup {Watchdog}, BeginOpen(f) \/ EndOpen(f)
      PROVE  SlotsCounted'
  BY <1>1, <1>8, BeginOpenSlots, EndOpenSlots
<1>9. ASSUME NEW f \in Readers \cup {Watchdog}, pc[f] \in OpenPcs,
             NEW p \in OpenPcs, Goto(f, p), UNCHANGED <<open_handle, event_private>>
      PROVE  SlotsCounted'
  BY <1>1, <1>9, GotoSlots
<1>10. CASE WdFilters
  BY <1>9, <1>10 DEF WdFilters, SetFilter, OpenPcs
<1>11. CASE WdVideo
  <2>1. pc[Watchdog] \in OpenPcs /\ "poll" \in OpenPcs
    BY <1>11 DEF WdVideo, OpenPcs
  <2>2. CASE Goto(Watchdog, "poll") /\ UNCHANGED <<drv, ghosts>>
    BY <1>9, <2>1, <2>2 DEF drv
  <2>3. CASE Goto(Watchdog, "exited") /\ Release(Watchdog)
    BY <2>1, <2>3, ReleaseSlots
  <2> QED BY <1>11, <2>2, <2>3 DEF WdVideo
<1>12. CASE WdPolls
  BY <1>9, <1>12 DEF WdPolls, drv, OpenPcs
<1>13. CASE WdPollFails
  <2>1. pc[Watchdog] \in OpenPcs
    BY <1>13 DEF WdPollFails, OpenPcs
  <2> QED BY <1>13, <2>1, ReleaseSlots DEF WdPollFails
<1>14. CASE WdReads
  <2>1. /\ pc[Watchdog] \in OpenPcs /\ \E p \in OpenPcs : Goto(Watchdog, p)
        /\ UNCHANGED <<open_handle, event_private>>
    BY <1>14 DEF WdReads, OpenPcs, Consume, drv
  <2> QED BY <1>9, <2>1
<1>15. CASE WdSamples \/ WdStores
  <2>1. /\ pc[Watchdog] \in OpenPcs /\ \E p \in OpenPcs : Goto(Watchdog, p)
        /\ UNCHANGED <<open_handle, event_private>>
    BY <1>15 DEF WdSamples, WdStores, OpenPcs, drv
  <2> QED BY <1>9, <2>1
<1>16. ASSUME NEW r \in Readers, ReaderCloses(r) PROVE SlotsCounted'
  <2>1. pc[r] \in OpenPcs
    BY <1>16 DEF ReaderCloses, OpenPcs
  <2> QED BY <1>16, <2>1, ReleaseSlots DEF ReaderCloses
<1>17. ASSUME NEW r \in Readers, NEW kinds \in Filters, ReaderFilters(r, kinds)
       PROVE  SlotsCounted'
  BY <1>3, <1>17 DEF ReaderFilters, SetFilter
<1>18. ASSUME NEW r \in Readers, BeginRead(r) \/ CheckRing(r) \/ Schedule(r) \/ Signal(r)
       PROVE  SlotsCounted'
  <2>1. /\ pc[r] \in OpenPcs /\ \E p \in OpenPcs : Goto(r, p)
        /\ UNCHANGED <<open_handle, event_private>>
    BY <1>18 DEF BeginRead, CheckRing, Schedule, Signal, OpenPcs, Consume, drv
  <2> QED BY <1>9, <2>1
<1>19. CASE UNCHANGED vars
  BY <1>3, <1>19 DEF vars, drv
<1> QED
  BY <1>4, <1>5, <1>6, <1>7, <1>8, <1>10, <1>11, <1>12, <1>13, <1>14, <1>15, <1>16,
     <1>17, <1>18, <1>19
     DEF Next, TaskNext, WatchdogNext, ReaderNext, ReadNext

(***************************************************************************)
(* A file being opened has been counted and has no slot yet, so that some  *)
(* slot is free.                                                           *)
(***************************************************************************)
LEMMA OpeningHasSlot ==
  ASSUME SlotsCounted, NEW f \in Files, pc[f] = "opening"
  PROVE  FreeSlots # {}
<1>1. IsFiniteSet(Opening) /\ f \in Opening
  BY DEF SlotsCounted, Opening
<1>2. Cardinality(Opening) \in Nat /\ Cardinality(Opening) # 0
  BY <1>1, FS_CardinalityType, FS_EmptySet
<1>3. Cardinality(UsedSlots) \in Nat /\ Cardinality(UsedSlots) < MaxOpen
  BY <1>2, SlotsFinite, FS_CardinalityType, SizeFacts, SMTT(30) DEF SlotsCounted
<1>4. UsedSlots # Slots
  BY <1>3, SlotsFinite, SizeFacts, SMTT(30)
<1> QED BY <1>4 DEF UsedSlots, FreeSlots

(***************************************************************************)
(* The rings hold what was accepted and not yet read.                      *)
(***************************************************************************)
LEMMA InitRings == Init => RingsHold
<1> SUFFICES ASSUME Init PROVE RingsHold
  OBVIOUS
<1>1. \A f \in Files : data[f] = Fresh /\ owed[f] = <<>> /\ f \notin clash
  BY DEF Init
<1>2. TaskLoaded
  BY DEF Init, Idle, At, TaskLoaded
<1> QED BY <1>1, <1>2, FreshFacts DEF RingsHold

LEMMA RingsSame ==
  ASSUME RingsHold, UNCHANGED <<event_private, data, owed, clash>>, TaskLoaded'
  PROVE  RingsHold'
BY DEF RingsHold, IsOpen

LEMMA CallLoaded ==
  ASSUME Call
  PROVE  TaskLoaded'
BY DEF Call, TaskLoaded

LEMMA TestRings ==
  ASSUME Types, RingsHold, TaskTest
  PROVE  RingsHold'
<1>1. UNCHANGED <<event_private, data, owed, clash>>
  BY DEF TaskTest, drv, ghosts
<1>2. TaskLoaded'
  <2>1. CASE Target # NoFile /\ Accepts(Target, "VCR")
    <3>1. writer' = [pc |-> "put", i |-> writer.i, free |-> data[Target].free,
                     ptr |-> data[Target].ptr]
      BY <2>1 DEF TaskTest, Target
    <3>2. /\ event_private'[writer'.i] = Target /\ data' = data
          /\ writer'.free = data[Target].free /\ writer'.ptr = data[Target].ptr
      BY <1>1, <3>1 DEF Target
    <3>3. data[Target].free > 0
      BY <2>1 DEF Accepts
    <3> QED BY <2>1, <3>2, <3>3 DEF TaskLoaded
  <2>2. CASE ~(Target # NoFile /\ Accepts(Target, "VCR"))
    <3>1. writer' = NextSlot
      BY <2>2 DEF TaskTest, Target
    <3>2. writer'.pc # "put"
      BY <3>1, NextSlotFacts DEF Types
    <3> QED BY <3>2 DEF TaskLoaded
  <2> QED BY <2>1, <2>2
<1> QED BY <1>1, <1>2, RingsSame

LEMMA TimerRings ==
  ASSUME Types, RingsHold, TimerWrites
  PROVE  RingsHold'
<1>1. UNCHANGED <<event_private, writer>>
  BY DEF TimerWrites
<1>2. data \in [Files -> Rings] /\ owed \in [Files -> Seq(Events)]
  BY DEF Types
<1>3. ASSUME NEW f \in Files, f \notin clash' PROVE Holds(data'[f], owed'[f])
  <2>1. f \notin clash /\ Holds(data[f], owed[f])
    BY <1>3, TimerTo DEF RingsHold
  <2>2. CASE f \in Recipients
    <3>1. data[f].free > 0 /\ data[f] \in Rings /\ owed[f] \in Seq(Events) /\ AVEvent \in Events
      BY <1>2, <2>2, TimerTo DEF Recipients, Accepts
    <3>2. Holds(Put(data[f], AVEvent, data[f].free, data[f].ptr), Append(owed[f], AVEvent))
      BY <2>1, <3>1, PutHolds
    <3> QED BY <2>2, <3>2, TimerTo
  <2>3. CASE f \notin Recipients
    BY <2>1, <2>3, TimerTo
  <2> QED BY <2>2, <2>3
<1>4. ASSUME NEW f \in Files, ~IsOpen(f)' PROVE owed'[f] = <<>> /\ f \notin clash'
  <2>1. ~IsOpen(f)
    BY <1>1, <1>4 DEF IsOpen
  <2>2. f \notin Recipients
    BY <2>1 DEF Recipients
  <2> QED BY <2>1, <2>2, TimerTo DEF RingsHold
<1>5. TaskLoaded'
  <2>1. ASSUME writer.pc = "put"
        PROVE  Target # NoFile /\ (Target \notin clash' => /\ writer.free = data'[Target].free
                                                           /\ writer.ptr = data'[Target].ptr
                                                           /\ data'[Target].free > 0)
    <3>1. Target # NoFile /\ (Target \notin clash => /\ writer.free = data[Target].free
                                                     /\ writer.ptr = data[Target].ptr
                                                     /\ data[Target].free > 0)
      BY <2>1 DEF RingsHold, TaskLoaded, Target
    <3>2. Target \in Files
      BY <3>1 DEF Types, Writers, Target
    <3>3. Target \notin clash' => Target \notin clash /\ Target \notin Recipients
      BY <2>1, TimerTo
    <3>4. Target \notin Recipients => data'[Target] = data[Target]
      BY <3>2, TimerTo
    <3> QED BY <3>1, <3>3, <3>4
  <2> QED BY <1>1, <2>1 DEF TaskLoaded, Target
<1> QED BY <1>3, <1>4, <1>5 DEF RingsHold

LEMMA PutRings ==
  ASSUME Types, RingsHold, TaskPut
  PROVE  RingsHold'
<1>1. TaskLoaded /\ UNCHANGED <<event_private, clash>> /\ writer.pc = "put"
  BY DEF RingsHold, TaskPut
<1>2. data \in [Files -> Rings] /\ owed \in [Files -> Seq(Events)]
  BY DEF Types
<1>3. Target \in Files /\ VCREvent \in Events /\ writer.i \in Slots
  BY <1>1, TaskPutTo DEF Types, Writers
<1>4. ASSUME NEW f \in Files, f \notin clash' PROVE Holds(data'[f], owed'[f])
  <2>1. f \notin clash /\ Holds(data[f], owed[f])
    BY <1>1, <1>4 DEF RingsHold
  <2>2. CASE f = Target
    <3>1. /\ writer.free = data[f].free /\ writer.ptr = data[f].ptr
          /\ data[f].free > 0
      BY <1>1, <2>1, <2>2 DEF TaskLoaded, Target
    <3>2. data'[f] = Put(data[f], VCREvent, data[f].free, data[f].ptr)
      BY <1>1, <2>2, <3>1, TaskPutTo
    <3>3. data[f] \in Rings /\ owed[f] \in Seq(Events)
      BY <1>2
    <3>4. Holds(Put(data[f], VCREvent, data[f].free, data[f].ptr), Append(owed[f], VCREvent))
      BY <1>3, <2>1, <3>1, <3>3, PutHolds
    <3>5. owed'[f] = Append(owed[f], VCREvent)
      BY <1>1, <2>2, TaskPutTo
    <3> QED BY <3>2, <3>4, <3>5
  <2>3. CASE f # Target
    BY <1>1, <2>1, <2>3, TaskPutTo
  <2> QED BY <2>2, <2>3
<1>5. ASSUME NEW f \in Files, ~IsOpen(f)' PROVE owed'[f] = <<>> /\ f \notin clash'
  <2>1. ~IsOpen(f) /\ f # Target
    BY <1>1, <1>3, <1>5 DEF IsOpen, Target
  <2> QED BY <1>1, <2>1, TaskPutTo DEF RingsHold
<1>6. TaskLoaded'
  <2>1. writer' = NextSlot
    BY DEF TaskPut
  <2> QED BY <2>1, NextSlotFacts DEF Types, TaskLoaded
<1> QED BY <1>4, <1>5, <1>6 DEF RingsHold

LEMMA ReleaseRings ==
  ASSUME Types, RingsHold, Call, NEW f \in Files, Release(f)
  PROVE  RingsHold'
<1>1. Forget(f) /\ clash' = clash \ {f}
  BY DEF Release, Forget
<1>2. ASSUME NEW g \in Files, g \notin clash' PROVE Holds(data'[g], owed'[g])
  <2>1. CASE g = f
    BY <1>1, <2>1, ForgetTo, FreshFacts
  <2>2. CASE g # f
    BY <1>1, <1>2, <2>2, ForgetTo DEF RingsHold
  <2> QED BY <2>1, <2>2
<1>3. ASSUME NEW g \in Files, ~IsOpen(g)' PROVE owed'[g] = <<>> /\ g \notin clash'
  <2>1. CASE g = f
    BY <1>1, <2>1, ForgetTo
  <2>2. CASE g # f
    <3>1. ~IsOpen(g)
      BY <1>3, <2>2 DEF IsOpen, Release
    <3> QED BY <1>1, <2>2, <3>1, ForgetTo DEF RingsHold
  <2> QED BY <2>1, <2>2
<1> QED BY <1>2, <1>3, CallLoaded DEF RingsHold

LEMMA FilterRings ==
  ASSUME Types, RingsHold, Call, NEW f \in Files, NEW kinds \in SUBSET Kinds,
         SetFilter(f, kinds)
  PROVE  RingsHold'
<1>1. UNCHANGED <<event_private, owed, clash>>
  BY DEF SetFilter, ghosts
<1>2. ASSUME NEW g \in Files, g \notin clash PROVE Holds(data'[g], owed[g])
  <2>1. Holds(data[g], owed[g])
    BY <1>2 DEF RingsHold
  <2>2. /\ data'[g].free = data[g].free /\ data'[g].ptr = data[g].ptr
        /\ data'[g].read_ptr = data[g].read_ptr /\ data'[g].event = data[g].event
    BY FilterTo
  <2> QED BY <2>1, <2>2 DEF Holds
<1> QED BY <1>1, <1>2, CallLoaded DEF RingsHold, IsOpen

LEMMA ConsumeRings ==
  ASSUME Types, RingsHold, Call, NEW f \in Files, HasData(f), Consume(f)
  PROVE  RingsHold'
<1>1. UNCHANGED <<event_private, clash>>
  BY DEF Consume
<1>2. data[f] \in Rings /\ owed[f] \in Seq(Events)
  BY DEF Types
<1>3. ASSUME NEW g \in Files, g \notin clash PROVE Holds(data'[g], owed'[g])
  <2>1. Holds(data[g], owed[g])
    BY <1>3 DEF RingsHold
  <2>2. CASE g = f
    <3>1. owed[f] # <<>> /\ Holds(Taken(data[f]), Tail(owed[f]))
      BY <1>2, <2>1, <2>2, TakenHolds DEF HasData
    <3> QED BY <2>2, <3>1, ConsumeTo
  <2>3. CASE g # f
    BY <2>1, <2>3, ConsumeTo
  <2> QED BY <2>2, <2>3
<1>4. ASSUME NEW g \in Files, ~IsOpen(g)' PROVE owed'[g] = <<>> /\ g \notin clash
  <2>1. ~IsOpen(g)
    BY <1>1, <1>4 DEF IsOpen
  <2>2. owed[g] = <<>> /\ g \notin clash
    BY <2>1 DEF RingsHold
  <2> QED BY <2>2, ConsumeTo
<1> QED BY <1>1, <1>3, <1>4, CallLoaded DEF RingsHold

LEMMA EndOpenRings ==
  ASSUME Types, SlotsCounted, RingsHold, NEW f \in Readers \cup {Watchdog}, EndOpen(f)
  PROVE  RingsHold'
<1>1. f \in Files \ {Other} /\ f # NoFile /\ Call /\ UNCHANGED <<owed, clash>>
  BY FileFacts DEF EndOpen, ghosts
<1>2. PICK i \in FreeSlots : event_private' = [event_private EXCEPT ![i] = f]
  BY DEF EndOpen
<1>3. data' = [data EXCEPT ![f] = Fresh] /\ data \in [Files -> Rings]
  BY DEF EndOpen, Types
<1>4. ~IsOpen(f)
  BY <1>1 DEF SlotsCounted, OpenPcs, EndOpen
<1>5. owed[f] = <<>>
  BY <1>1, <1>4 DEF RingsHold
<1>6. \A g \in Files : g \notin clash => Holds(data'[g], owed[g])
  BY <1>1, <1>3, <1>5, FreshFacts DEF RingsHold
<1>7. ASSUME NEW g \in Files, ~IsOpen(g)' PROVE ~IsOpen(g)
  BY <1>1, <1>2, <1>7, FileFacts DEF IsOpen, FreeSlots, Types
<1> QED BY <1>1, <1>6, <1>7, CallLoaded DEF RingsHold

LEMMA RingsStep ==
  ASSUME Types, SlotsCounted, RingsHold, [Next]_vars
  PROVE  RingsHold'
<1>1. Watchdog \in Files /\ Readers \subseteq Files
  BY FileFacts
<1>2. ASSUME Call, UNCHANGED <<event_private, data, owed, clash>> PROVE RingsHold'
  BY <1>2, RingsSame, CallLoaded
<1>3. CASE TimerWrites \/ TaskTest \/ TaskPut
  BY <1>3, TimerRings, TestRings, PutRings
<1>4. ASSUME NEW v \in Levels, LevelChanges(v) PROVE RingsHold'
  <2>1. writer'.pc = "test"
    BY <1>4 DEF LevelChanges, At
  <2> QED BY <1>4, <2>1, RingsSame DEF LevelChanges, TaskLoaded, drv, ghosts
<1>5. CASE TaskWakes
  <2>1. writer'.pc = "idle"
    BY <1>5 DEF TaskWakes, Idle, At
  <2> QED BY <1>5, <2>1, RingsSame DEF TaskWakes, TaskLoaded, drv, ghosts
<1>6. ASSUME NEW f \in Readers \cup {Watchdog}, BeginOpen(f) \/ EndOpen(f)
      PROVE  RingsHold'
  BY <1>2, <1>6, EndOpenRings DEF BeginOpen, ghosts
<1>7. CASE WdFilters
  <2>1. {"VCR"} \in SUBSET Kinds
    BY DEF Kinds
  <2> QED BY <1>1, <1>7, <2>1, FilterRings DEF WdFilters
<1>8. CASE WdVideo
  <2>1. CASE UNCHANGED <<drv, ghosts>>
    BY <1>2, <1>8, <2>1 DEF WdVideo, drv, ghosts
  <2>2. CASE Release(Watchdog)
    BY <1>1, <1>8, <2>2, ReleaseRings DEF WdVideo
  <2> QED BY <1>8, <2>1, <2>2 DEF WdVideo
<1>9. CASE WdPolls \/ WdSamples \/ WdStores
  BY <1>2, <1>9 DEF WdPolls, WdSamples, WdStores, drv, ghosts
<1>10. CASE WdPollFails
  BY <1>1, <1>10, ReleaseRings DEF WdPollFails
<1>11. CASE WdReads
  <2>1. CASE UNCHANGED <<drv, ghosts>>
    BY <1>2, <1>11, <2>1 DEF WdReads, drv, ghosts
  <2>2. CASE HasData(Watchdog) /\ Consume(Watchdog)
    BY <1>1, <1>11, <2>2, ConsumeRings DEF WdReads
  <2> QED BY <1>11, <2>1, <2>2 DEF WdReads
<1>12. ASSUME NEW r \in Readers, ReaderCloses(r) PROVE RingsHold'
  BY <1>1, <1>12, ReleaseRings DEF ReaderCloses
<1>13. ASSUME NEW r \in Readers, NEW kinds \in Filters, ReaderFilters(r, kinds)
       PROVE  RingsHold'
  <2>1. kinds \in SUBSET Kinds
    BY DriverAssumption DEF Kinds
  <2> QED BY <1>1, <1>13, <2>1, FilterRings DEF ReaderFilters
<1>14. ASSUME NEW r \in Readers, BeginRead(r) \/ Schedule(r) \/ Signal(r)
       PROVE  RingsHold'
  BY <1>2, <1>14 DEF BeginRead, Schedule, Signal, drv, ghosts
<1>15. ASSUME NEW r \in Readers, CheckRing(r) PROVE RingsHold'
  <2>1. CASE UNCHANGED <<drv, ghosts>>
    BY <1>2, <1>15, <2>1 DEF CheckRing, drv, ghosts
  <2>2. CASE HasData(r) /\ Consume(r)
    BY <1>1, <1>15, <2>2, ConsumeRings DEF CheckRing
  <2> QED BY <1>15, <2>1, <2>2 DEF CheckRing
<1>16. CASE UNCHANGED vars
  <2>1. UNCHANGED <<event_private, data, owed, clash, writer>>
    BY <1>16 DEF vars, drv, ghosts
  <2> QED BY <2>1, RingsSame DEF TaskLoaded, RingsHold
<1> QED
  BY <1>3, <1>4, <1>5, <1>6, <1>7, <1>8, <1>9, <1>10, <1>11, <1>12, <1>13, <1>14, <1>15,
     <1>16
     DEF Next, TaskNext, WatchdogNext, ReaderNext, ReadNext

-----------------------------------------------------------------------------
(***************************************************************************)
(* A system call changes nothing of the other files.                       *)
(***************************************************************************)
Only(f) ==
  \A g \in Files \ {f} : /\ pc'[g] = pc[g] /\ runnable'[g] = runnable[g]
                         /\ data'[g] = data[g] /\ owed'[g] = owed[g]

LEMMA ReaderOnly ==
  ASSUME Types, NEW r \in Readers, ReaderNext(r)
  PROVE  Only(r) /\ Call
<1>1. /\ r \in Files /\ pc \in [Files -> Pcs] /\ runnable \in [Files -> BOOLEAN]
      /\ data \in [Files -> Rings] /\ owed \in [Files -> Seq(Events)]
  BY FileFacts DEF Types, PcTypes
<1>2. CASE BeginOpen(r)
  BY <1>1, <1>2 DEF BeginOpen, Only, Goto, ghosts
<1>3. CASE EndOpen(r)
  BY <1>1, <1>3 DEF EndOpen, Only, Goto, ghosts
<1>4. CASE ReaderCloses(r)
  BY <1>1, <1>4, ForgetTo DEF ReaderCloses, Release, Only, Goto
<1>5. ASSUME NEW kinds \in Filters, ReaderFilters(r, kinds) PROVE Only(r) /\ Call
  <2>1. kinds \in SUBSET Kinds
    BY DriverAssumption DEF Kinds
  <2>2. \A g \in Files \ {r} : data'[g] = data[g]
    BY <1>1, <1>5, <2>1, FilterTo DEF ReaderFilters
  <2> QED BY <1>5, <2>2 DEF ReaderFilters, SetFilter, Only, ghosts
<1>6. CASE BeginRead(r) \/ Schedule(r) \/ Signal(r)
  BY <1>1, <1>6 DEF BeginRead, Schedule, Signal, Only, Goto, drv, ghosts
<1>7. CASE CheckRing(r)
  BY <1>1, <1>7, ConsumeTo DEF CheckRing, Only, Goto, drv, ghosts
<1> QED BY <1>2, <1>3, <1>4, <1>5, <1>6, <1>7 DEF ReaderNext, ReadNext

LEMMA WatchdogOnly ==
  ASSUME Types, WatchdogNext \/ WdPollFails
  PROVE  Only(Watchdog) /\ Call
<1>1. /\ Watchdog \in Files /\ pc \in [Files -> Pcs] /\ runnable \in [Files -> BOOLEAN]
      /\ data \in [Files -> Rings] /\ owed \in [Files -> Seq(Events)]
  BY FileFacts DEF Types, PcTypes
<1>2. CASE BeginOpen(Watchdog)
  BY <1>1, <1>2 DEF BeginOpen, Only, Goto, ghosts
<1>3. CASE EndOpen(Watchdog)
  BY <1>1, <1>3 DEF EndOpen, Only, Goto, ghosts
<1>4. CASE WdFilters
  <2>1. {"VCR"} \in SUBSET Kinds
    BY DEF Kinds
  <2>2. \A g \in Files \ {Watchdog} : data'[g] = data[g]
    BY <1>1, <1>4, <2>1, FilterTo DEF WdFilters
  <2> QED BY <1>1, <1>4, <2>2 DEF WdFilters, SetFilter, Only, Goto, ghosts
<1>5. CASE WdVideo \/ WdPollFails
  BY <1>1, <1>5, ForgetTo DEF WdVideo, WdPollFails, Release, Only, Goto, drv, ghosts
<1>6. CASE WdPolls \/ WdSamples \/ WdStores
  BY <1>1, <1>6 DEF WdPolls, WdSamples, WdStores, Only, Goto, drv, ghosts
<1>7. CASE WdReads
  BY <1>1, <1>7, ConsumeTo DEF WdReads, Only, Goto, drv, ghosts
<1> QED BY <1>2, <1>3, <1>4, <1>5, <1>6, <1>7 DEF WatchdogNext

(***************************************************************************)
(* No wakeup is lost.                                                      *)
(***************************************************************************)
LEMMA ReaderWoken ==
  ASSUME Types, Woken, NEW r \in Readers, ReaderNext(r)
  PROVE  Woken'
<1>1. /\ r \in Files /\ Readers \subseteq Files /\ pc \in [Files -> Pcs]
      /\ runnable \in [Files -> BOOLEAN] /\ r # Watchdog
  BY FileFacts DEF Types, PcTypes
<1>2. Only(r) /\ Call
  BY ReaderOnly
<1>3. writer.pc = "idle" /\ writer' = writer
  BY <1>2 DEF Call
<1>4. \A g \in Readers \ {r} : ~Missed(g)'
  BY <1>1, <1>2, <1>3 DEF Woken, Missed, Only, HasData
<1>5. ~Missed(r)'
  <2>1. CASE BeginOpen(r) \/ EndOpen(r) \/ ReaderCloses(r) \/ BeginRead(r) \/ Signal(r)
    BY <1>1, <2>1 DEF BeginOpen, EndOpen, ReaderCloses, BeginRead, Signal, Goto, Missed
  <2>2. ASSUME NEW kinds \in Filters, ReaderFilters(r, kinds) PROVE ~Missed(r)'
    BY <2>2 DEF ReaderFilters, Missed
  <2>3. CASE CheckRing(r)
    BY <1>1, <2>3 DEF CheckRing, Goto, Missed, HasData, drv
  <2>4. CASE Schedule(r)
    <3>1. ~runnable[r] => ~HasData(r)
      BY <1>3, <2>4 DEF Woken, Missed, Schedule
    <3> QED BY <1>1, <2>4, <3>1 DEF Schedule, Goto, Missed, HasData, drv
  <2> QED BY <2>1, <2>2, <2>3, <2>4 DEF ReaderNext, ReadNext
<1>6. \A g \in Readers : ~Missed(g)'
  BY <1>4, <1>5
<1> QED BY <1>6 DEF Woken

LEMMA WokenStep ==
  ASSUME Types, Woken, [Next]_vars
  PROVE  Woken'
<1>1. CASE Wake
  <2>1. \A f \in Files : runnable'[f] = TRUE /\ pc'[f] # "asleep"
    BY <1>1, WakeTo
  <2> QED BY <2>1, FileFacts DEF Woken, Missed
<1>2. ASSUME writer'.pc # "idle" PROVE Woken'
  BY <1>2 DEF Woken
<1>3. ASSUME NEW v \in Levels, LevelChanges(v) PROVE Woken'
  BY <1>2, <1>3 DEF LevelChanges, At
<1>4. CASE TaskTest
  <2>1. writer'.pc # "idle"
    BY <1>4, NextSlotFacts DEF TaskTest, Types
  <2> QED BY <1>2, <2>1
<1>5. CASE TaskPut
  <2>1. writer'.pc # "idle"
    BY <1>5, NextSlotFacts DEF TaskPut, Types
  <2> QED BY <1>2, <2>1
<1>6. CASE WatchdogNext \/ WdPollFails
  <2>1. Only(Watchdog) /\ Call
    BY <1>6, WatchdogOnly
  <2> QED BY <2>1, FileFacts DEF Woken, Missed, Only, HasData, Call
<1>7. ASSUME NEW r \in Readers, ReaderNext(r) PROVE Woken'
  BY <1>7, ReaderWoken
<1>8. CASE UNCHANGED vars
  BY <1>8 DEF vars, drv, Woken, Missed, HasData
<1> QED BY <1>1, <1>3, <1>4, <1>5, <1>6, <1>7, <1>8
        DEF Next, TaskNext, TimerWrites, TaskWakes

-----------------------------------------------------------------------------
(***************************************************************************)
(* The watchdog comes to look at the level.                                *)
(***************************************************************************)
LEMMA AppendVCR ==
  ASSUME NEW q \in Seq(Events), NEW e \in Events
  PROVE  /\ HasVCR(q) => HasVCR(Append(q, e))
         /\ e.kind = "VCR" => HasVCR(Append(q, e))
<1>1. /\ Len(Append(q, e)) = Len(q) + 1 /\ Len(q) \in Nat
      /\ \A k \in 1 .. Len(q) : Append(q, e)[k] = q[k]
      /\ Append(q, e)[Len(q) + 1] = e
  BY SMTT(30)
<1>2. \A k \in 1 .. Len(q) : k \in 1 .. Len(q) + 1
  BY <1>1, SMTT(30)
<1>3. Len(q) + 1 \in 1 .. Len(q) + 1
  BY <1>1, SMTT(30)
<1> QED BY <1>1, <1>2, <1>3 DEF HasVCR

LEMMA TailVCR ==
  ASSUME NEW q \in Seq(Events), q # <<>>, HasVCR(q), q[1].kind # "VCR"
  PROVE  HasVCR(Tail(q))
<1>1. PICK k \in 1 .. Len(q) : q[k].kind = "VCR"
  BY DEF HasVCR
<1>2. /\ Len(Tail(q)) = Len(q) - 1 /\ Len(q) \in Nat
      /\ \A j \in 1 .. Len(q) - 1 : Tail(q)[j] = q[j + 1]
  BY SMTT(30)
<1>3. k # 1
  BY <1>1
<1>4. k - 1 \in 1 .. Len(q) - 1 /\ (k - 1) + 1 = k
  BY <1>2, <1>3, SMTT(30)
<1>5. Tail(q)[k - 1].kind = "VCR"
  BY <1>1, <1>2, <1>4
<1> QED BY <1>2, <1>4, <1>5 DEF HasVCR

LEMMA InitChange == Init => ChangeServed
BY FileFacts DEF Init, ChangeServed, OpenPcs

(* A step that leaves the watchdog and the level alone.                    *)
LEMMA ChangeFrame ==
  ASSUME ChangeServed,
         data'[Watchdog] = data[Watchdog], owed'[Watchdog] = owed[Watchdog],
         pc'[Watchdog] = pc[Watchdog], VCRMode' = VCRMode, newVCRMode' = newVCRMode,
         fpVCR' = fpVCR, changed' = changed,
         Watchdog \in clash' <=> Watchdog \in clash,
         \A s \in Slots : event_private'[s] = Watchdog <=> event_private[s] = Watchdog,
         \A s \in Slots : changed /\ Watchdog \notin clash /\ event_private[s] = Watchdog
                            => (Past(writer', s) => Past(writer, s) \/ Known)
  PROVE  ChangeServed'
<1>1. IsOpen(Watchdog)' <=> IsOpen(Watchdog)
  BY DEF IsOpen
<1>2. Known' <=> Known
  BY DEF Known
<1> QED BY <1>1, <1>2 DEF ChangeServed

LEMMA WatchdogFilter ==
  ASSUME Types, SlotsCounted, ChangeServed, IsOpen(Watchdog)
  PROVE  /\ "VCR" \in data[Watchdog].filter
         /\ "AV" \in data[Watchdog].filter => pc[Watchdog] = "filter"
         /\ pc[Watchdog] \in OpenPcs
<1>1. pc[Watchdog] \in OpenPcs
  BY FileFacts DEF SlotsCounted
<1> QED BY <1>1 DEF ChangeServed, Kinds

LEMMA TimerChange ==
  ASSUME Types, SlotsCounted, RingsHold, ChangeServed, TimerWrites
  PROVE  ChangeServed'
<1>1. UNCHANGED <<event_private, writer, fpVCR, wdvars, changed>>
  BY DEF TimerWrites
<1>2. pc'[Watchdog] = pc[Watchdog]
  <2>1. pc[Watchdog] # "asleep"
    BY DEF Types, PcTypes, WatchdogPcs
  <2> QED BY <2>1, FileFacts, WakeTo DEF TimerWrites
<1>3. Watchdog \in Files /\ owed[Watchdog] \in Seq(Events) /\ AVEvent \in Events
  BY FileFacts, TimerTo DEF Types
<1>4. CASE Watchdog \notin Recipients
  <2>1. data'[Watchdog] = data[Watchdog] /\ owed'[Watchdog] = owed[Watchdog]
    BY <1>3, <1>4, TimerTo
  <2>2. Watchdog \in clash' <=> Watchdog \in clash
    BY <1>4, TimerTo
  <2>3. \A s \in Slots : Past(writer', s) => Past(writer, s)
    BY <1>1 DEF Past
  <2> QED BY <1>1, <1>2, <2>1, <2>2, <2>3, ChangeFrame DEF wdvars
<1>5. CASE Watchdog \in Recipients
  <2>1. IsOpen(Watchdog) /\ pc[Watchdog] = "filter"
    BY <1>5, WatchdogFilter DEF Recipients, Accepts
  <2>2. /\ data'[Watchdog].filter = data[Watchdog].filter
        /\ owed'[Watchdog] = Append(owed[Watchdog], AVEvent)
    BY <1>5, TimerTo
  <2>3. ASSUME changed', Watchdog \notin clash' PROVE HasVCR(owed'[Watchdog])
    <3>1. changed /\ Watchdog \notin clash
      BY <1>1, <2>3, TimerTo
    <3>2. HasVCR(owed[Watchdog])
      BY <2>1, <3>1 DEF ChangeServed
    <3> QED BY <1>3, <2>2, <3>2, AppendVCR
  <2>4. IsOpen(Watchdog)'
    BY <1>1, <2>1 DEF IsOpen
  <2>5. data'[Watchdog].filter = Kinds
    BY <2>1, <2>2 DEF ChangeServed
  <2> QED BY <1>2, <2>1, <2>3, <2>4, <2>5 DEF ChangeServed, Known
<1> QED BY <1>4, <1>5

LEMMA LevelChange ==
  ASSUME ChangeServed, NEW v \in Levels, LevelChanges(v)
  PROVE  ChangeServed'
<1>1. UNCHANGED <<drv, pc, owed, clash, changed>>
  BY DEF LevelChanges, ghosts
<1>2. writer'.pc = "test" /\ writer'.i = 0
  BY DEF LevelChanges, At
<1>3. \A s \in Slots : ~Past(writer', s)
  BY <1>2, SlotFacts, SMTT(30) DEF Past
<1>4. IsOpen(Watchdog)' <=> IsOpen(Watchdog)
  BY <1>1 DEF IsOpen, drv
<1> QED BY <1>1, <1>3, <1>4 DEF ChangeServed, drv

(* The task has come to the next slot.                                     *)
LEMMA PastNext ==
  ASSUME writer \in Writers, writer.pc \in {"test", "put"}, writer' = NextSlot,
         NEW s \in Slots, Past(writer', s)
  PROVE  s = writer.i \/ Past(writer, s)
<1>1. writer.i \in Slots /\ writer.i \in Nat /\ s \in Nat /\ s < MaxOpen
  BY SlotFacts DEF Writers
<1>2. CASE writer.i + 1 = MaxOpen
  BY <1>1, <1>2, SizeFacts, SMTT(30) DEF Past
<1>3. CASE writer.i + 1 # MaxOpen
  <2>1. writer'.pc = "test" /\ writer'.i = writer.i + 1
    BY <1>3 DEF NextSlot, At
  <2>2. s < writer.i + 1
    BY <2>1 DEF Past
  <2> QED BY <1>1, <2>2, SMTT(30) DEF Past
<1> QED BY <1>2, <1>3

LEMMA TestChange ==
  ASSUME Types, SlotsCounted, RingsHold, ChangeServed, TaskTest
  PROVE  ChangeServed'
<1>1. UNCHANGED <<drv, pc, fpVCR, wdvars, owed, clash, changed>> /\ writer.pc = "test"
  BY DEF TaskTest, ghosts
<1>2. writer \in Writers /\ writer.i \in Slots
  BY DEF Types, Writers
<1>3. ASSUME NEW s \in Slots, changed, Watchdog \notin clash, event_private[s] = Watchdog,
             Past(writer', s)
      PROVE  Past(writer, s) \/ Known
  <2>1. CASE Target # NoFile /\ Accepts(Target, "VCR")
    <3>1. writer'.pc = "put" /\ writer'.i = writer.i
      BY <2>1 DEF TaskTest, Target
    <3> QED BY <1>3, <3>1 DEF Past
  <2>2. CASE ~(Target # NoFile /\ Accepts(Target, "VCR"))
    <3>1. writer' = NextSlot
      BY <2>2 DEF TaskTest, Target
    <3>2. s = writer.i \/ Past(writer, s)
      BY <1>1, <1>2, <1>3, <3>1, PastNext
    <3>3. ASSUME s = writer.i PROVE Known
      <4>1. Target = Watchdog /\ Watchdog # NoFile /\ Watchdog \in Files
        BY <1>3, <3>3, FileFacts DEF Target
      <4>2. ~Accepts(Watchdog, "VCR") /\ IsOpen(Watchdog)
        BY <1>2, <2>2, <4>1 DEF IsOpen, Target
      <4>3. ~(data[Watchdog].free > 0)
        BY <4>2, WatchdogFilter DEF Accepts
      <4>4. data[Watchdog].free \in 0 .. U16 - 1
        BY <4>1 DEF Types, Rings
      <4>5. data[Watchdog].free = 0
        BY <4>3, <4>4, SizeFacts, SMTT(30)
      <4> QED BY <1>3, <4>5 DEF ChangeServed, Known
    <3> QED BY <3>2, <3>3
  <2> QED BY <2>1, <2>2
<1> QED BY <1>1, <1>3, ChangeFrame DEF drv, wdvars

LEMMA PutChange ==
  ASSUME Types, SlotsCounted, RingsHold, ChangeServed, TaskPut
  PROVE  ChangeServed'
<1>1. /\ UNCHANGED <<event_private, pc, fpVCR, wdvars, clash>>
      /\ writer.pc = "put" /\ writer' = NextSlot /\ TaskLoaded
  BY DEF TaskPut, RingsHold
<1>2. writer \in Writers /\ writer.i \in Slots
  BY DEF Types, Writers
<1>3. Target \in Files /\ changed' = (changed \/ Target = Watchdog)
  BY <1>1, TaskPutTo
<1>4. CASE Target = Watchdog
  <2>1. /\ data'[Watchdog].filter = data[Watchdog].filter /\ VCREvent \in Events
        /\ owed'[Watchdog] = Append(owed[Watchdog], VCREvent)
    BY <1>1, <1>4, TaskPutTo
  <2>2. owed[Watchdog] \in Seq(Events) /\ VCREvent.kind = "VCR"
    BY <1>3, <1>4 DEF Types, VCREvent
  <2>3. HasVCR(owed'[Watchdog])
    BY <2>1, <2>2, AppendVCR
  <2>4. IsOpen(Watchdog)'
    BY <1>1, <1>2, <1>4 DEF IsOpen, Target
  <2>5. pc'[Watchdog] = pc[Watchdog]
    BY <1>1
  <2> QED BY <2>1, <2>3, <2>4, <2>5 DEF ChangeServed, Known
<1>5. CASE Target # Watchdog
  <2>1. data'[Watchdog] = data[Watchdog] /\ owed'[Watchdog] = owed[Watchdog]
    BY <1>1, <1>5, FileFacts, TaskPutTo
  <2>2. changed' = changed
    BY <1>3, <1>5 DEF Types
  <2>3. ASSUME NEW s \in Slots, event_private[s] = Watchdog, Past(writer', s) PROVE Past(writer, s)
    <3>1. s = writer.i \/ Past(writer, s)
      BY <1>1, <1>2, <2>3, PastNext
    <3> QED BY <1>5, <2>3, <3>1 DEF Target
  <2> QED BY <1>1, <2>1, <2>2, <2>3, ChangeFrame DEF wdvars
<1> QED BY <1>4, <1>5

LEMMA WakesChange ==
  ASSUME Types, ChangeServed, TaskWakes
  PROVE  ChangeServed'
<1>1. UNCHANGED <<drv, fpVCR, wdvars, owed, clash, changed>> /\ writer.pc = "wake"
  BY DEF TaskWakes, ghosts
<1>2. pc'[Watchdog] = pc[Watchdog]
  <2>1. pc[Watchdog] # "asleep"
    BY DEF Types, PcTypes, WatchdogPcs
  <2> QED BY <2>1, FileFacts, WakeTo DEF TaskWakes
<1>3. \A s \in Slots : Past(writer, s)
  BY <1>1 DEF Past
<1> QED BY <1>1, <1>2, <1>3, ChangeFrame DEF drv, wdvars

LEMMA ReaderChange ==
  ASSUME Types, SlotsCounted, ChangeServed, NEW r \in Readers, ReaderNext(r)
  PROVE  ChangeServed'
<1>1. r # Watchdog /\ Watchdog \in Files /\ Watchdog # NoFile /\ r # NoFile
  BY FileFacts
<1>2. Only(r) /\ Call
  BY ReaderOnly
<1>3. /\ data'[Watchdog] = data[Watchdog] /\ owed'[Watchdog] = owed[Watchdog]
      /\ pc'[Watchdog] = pc[Watchdog] /\ fpVCR' = fpVCR /\ writer' = writer
  BY <1>1, <1>2 DEF Only, Call
<1>4. /\ UNCHANGED wdvars /\ changed' = changed
      /\ Watchdog \in clash' <=> Watchdog \in clash
      /\ \A s \in Slots : event_private'[s] = Watchdog <=> event_private[s] = Watchdog
  <2>1. CASE BeginOpen(r)
    BY <2>1 DEF BeginOpen, ghosts
  <2>2. CASE EndOpen(r)
    BY <1>1, <2>2 DEF EndOpen, FreeSlots, ghosts, Types
  <2>3. CASE ReaderCloses(r)
    <3>1. UNCHANGED wdvars /\ changed' = (changed /\ TRUE) /\ clash' = clash \ {r}
      BY <1>1, <2>3 DEF ReaderCloses, Release, Forget
    <3>2. changed' = changed
      BY <3>1 DEF Types
    <3>3. \A s \in Slots : event_private'[s] = Watchdog <=> event_private[s] = Watchdog
      BY <1>1, <2>3 DEF ReaderCloses, Release
    <3> QED BY <1>1, <3>1, <3>2, <3>3
  <2>4. ASSUME NEW kinds \in Filters, ReaderFilters(r, kinds)
        PROVE  UNCHANGED <<wdvars, changed, clash, event_private>>
    BY <2>4 DEF ReaderFilters, SetFilter, ghosts
  <2>5. CASE BeginRead(r) \/ Schedule(r) \/ Signal(r)
    BY <2>5 DEF BeginRead, Schedule, Signal, drv, ghosts
  <2>6. CASE CheckRing(r)
    BY <2>6 DEF CheckRing, Consume, drv, ghosts
  <2> QED BY <2>1, <2>2, <2>3, <2>4, <2>5, <2>6 DEF ReaderNext, ReadNext
<1> QED BY <1>3, <1>4, ChangeFrame DEF wdvars

(* The watchdog has no file.                                               *)
LEMMA ClosedChange ==
  ASSUME ~changed', pc'[Watchdog] \notin OpenPcs
  PROVE  ChangeServed'
BY DEF ChangeServed, OpenPcs

LEMMA ReleaseChange ==
  ASSUME Types, Release(Watchdog), Goto(Watchdog, "closed") \/ Goto(Watchdog, "exited")
  PROVE  ChangeServed'
<1>1. ~changed'
  BY DEF Release, Forget
<1>2. pc'[Watchdog] \notin OpenPcs
  BY FileFacts DEF Goto, Types, PcTypes, OpenPcs
<1> QED BY <1>1, <1>2, ClosedChange

LEMMA WatchdogOpens ==
  ASSUME Types, SlotsCounted, ChangeServed, BeginOpen(Watchdog) \/ EndOpen(Watchdog)
  PROVE  ChangeServed'
<1>1. pc \in [Files -> Pcs] /\ Watchdog \in Files \ {Other}
  BY FileFacts DEF Types, PcTypes
<1>2. pc[Watchdog] \notin OpenPcs
  BY DEF BeginOpen, EndOpen, OpenPcs
<1>3. ~changed /\ changed' = changed
  BY <1>1, <1>2 DEF SlotsCounted, ChangeServed, BeginOpen, EndOpen, ghosts
<1>4. CASE BeginOpen(Watchdog)
  <2>1. pc'[Watchdog] \notin OpenPcs
    BY <1>1, <1>4 DEF BeginOpen, Goto, OpenPcs
  <2> QED BY <1>3, <2>1, ClosedChange
<1>5. CASE EndOpen(Watchdog)
  <2>1. pc'[Watchdog] = "filter" /\ data'[Watchdog] = Fresh
    BY <1>1, <1>5 DEF EndOpen, Goto, Types
  <2>2. data'[Watchdog].filter = Kinds
    BY <2>1, FreshFacts
  <2> QED BY <1>3, <2>1, <2>2 DEF ChangeServed
<1> QED BY <1>4, <1>5

(* The watchdog goes on with its file and its ring as they are.            *)
LEMMA WatchdogGoes ==
  ASSUME Types, ChangeServed, Call, UNCHANGED <<drv, ghosts>>,
         pc[Watchdog] \in OpenPcs \ {"filter"},
         NEW p \in OpenPcs \ {"filter"}, Goto(Watchdog, p),
         Known => Known'
  PROVE  ChangeServed'
<1>1. pc'[Watchdog] = p
  BY FileFacts DEF Goto, Types, PcTypes
<1>2. /\ data' = data /\ event_private' = event_private /\ owed' = owed
      /\ clash' = clash /\ changed' = changed /\ writer' = writer
  BY DEF drv, ghosts, Call
<1>3. IsOpen(Watchdog)' <=> IsOpen(Watchdog)
  BY <1>2 DEF IsOpen
<1> QED BY <1>1, <1>2, <1>3 DEF ChangeServed

LEMMA FilterChange ==
  ASSUME Types, ChangeServed, WdFilters
  PROVE  ChangeServed'
<1>1. /\ Call /\ pc[Watchdog] = "filter" /\ SetFilter(Watchdog, {"VCR"})
      /\ Goto(Watchdog, "video") /\ UNCHANGED <<event_private, ghosts>>
  BY DEF WdFilters, SetFilter
<1>2. data'[Watchdog].filter = {"VCR"}
  <2>1. {"VCR"} \in SUBSET Kinds
    BY DEF Kinds
  <2> QED BY <1>1, <2>1, FileFacts, FilterTo
<1>3. pc'[Watchdog] = "video"
  BY <1>1, FileFacts DEF Goto, Types, PcTypes
<1>4. IsOpen(Watchdog)' <=> IsOpen(Watchdog)
  BY <1>1 DEF IsOpen
<1>5. changed' /\ Watchdog \notin clash' => HasVCR(owed'[Watchdog])
  BY <1>1 DEF ChangeServed, ghosts
<1>6. changed' => IsOpen(Watchdog)'
  BY <1>1, <1>4 DEF ChangeServed, ghosts
<1> QED BY <1>2, <1>3, <1>5, <1>6 DEF ChangeServed, Known

LEMMA ReadsChange ==
  ASSUME Types, RingsHold, ChangeServed, WdReads
  PROVE  ChangeServed'
<1>1. Watchdog \in Files /\ pc \in [Files -> Pcs] /\ Call /\ pc[Watchdog] = "read"
  BY FileFacts DEF Types, PcTypes, WdReads
<1>2. UNCHANGED <<VCRMode, newVCRMode, fpVCR, writer>> /\ writer.pc = "idle"
  BY DEF WdReads, Call, wdvars
<1>3. CASE ~HasData(Watchdog)
  <2>1. UNCHANGED <<drv, ghosts>> /\ Goto(Watchdog, "poll")
    BY <1>3 DEF WdReads
  <2>2. pc'[Watchdog] = "poll" /\ owed' = owed
    BY <1>1, <2>1 DEF Goto, ghosts
  <2>3. Known => Known'
    BY <1>1, <1>2, <2>2 DEF Known
  <2>4. pc[Watchdog] \in OpenPcs \ {"filter"} /\ "poll" \in OpenPcs \ {"filter"}
    BY <1>1 DEF OpenPcs
  <2> QED BY <1>1, <2>1, <2>3, <2>4, WatchdogGoes
<1>4. CASE HasData(Watchdog)
  <2> DEFINE d == data[Watchdog]
             q == owed[Watchdog]
  <2>1. Consume(Watchdog) /\ UNCHANGED <<event_private, clash, changed>>
    BY <1>4 DEF WdReads, Consume
  <2>2. pc'[Watchdog] = IF d.event[d.read_ptr].kind = "VCR" THEN "sample" ELSE "read"
    BY <1>1, <1>4 DEF WdReads, Goto
  <2>3. d \in Rings /\ q \in Seq(Events) /\ d.free # Size
    BY <1>1, <1>4 DEF Types, HasData
  <2>4. /\ data'[Watchdog] = Taken(d)
        /\ owed'[Watchdog] = IF q = <<>> THEN <<>> ELSE Tail(q)
    BY <1>1, <2>1, ConsumeTo
  <2>5. data'[Watchdog].filter = {"VCR"}
    <3>1. d.filter = {"VCR"}
      BY <1>1 DEF ChangeServed, OpenPcs
    <3> QED BY <2>4, <3>1, SMTT(30) DEF Taken
  <2>6. changed' => IsOpen(Watchdog)'
    BY <2>1 DEF ChangeServed, IsOpen
  <2>7. ASSUME changed', Watchdog \notin clash' PROVE Known' /\ data'[Watchdog].free # 0
    <3>1. changed /\ Watchdog \notin clash
      BY <2>1, <2>7
    <3>2. Holds(d, q)
      BY <1>1, <3>1 DEF RingsHold
    <3>3. q # <<>> /\ d.event[d.read_ptr] = q[1]
      BY <2>3, <3>2, TakenHolds
    <3>4. d.free \in 0 .. U16 - 1 /\ d.free \in 0 .. Size
      BY <2>3, <3>2 DEF Rings, Holds
    <3>5. d.free < U16 - 1
      BY <2>3, <3>4, SizeFacts, SMTT(30)
    <3>6. data'[Watchdog].free = (d.free + 1) % U16
      BY <2>4, SMTT(30) DEF Taken
    <3>7. data'[Watchdog].free # 0
      <4>1. (d.free + 1) % U16 = d.free + 1
        BY <3>4, <3>5, CountFacts
      <4> HIDE DEF d
      <4> QED BY <3>4, <3>6, <4>1, SMTT(30)
    <3>8. Known
      <4>1. PICK s \in Slots : event_private[s] = Watchdog
        BY <3>1 DEF ChangeServed, IsOpen
      <4>2. Past(writer, s)
        BY <1>2 DEF Past
      <4> QED BY <3>1, <4>1, <4>2 DEF ChangeServed
    <3>9. CASE VCRMode = fpVCR
      <4>1. pc'[Watchdog] # "store"
        BY <2>2
      <4> QED BY <1>2, <3>7, <3>9, <4>1 DEF Known
    <3>10. CASE HasVCR(q)
      <4>1. CASE q[1].kind = "VCR"
        BY <2>2, <3>3, <3>7, <4>1 DEF Known
      <4>2. CASE q[1].kind # "VCR"
        <5>1. HasVCR(Tail(q))
          BY <2>3, <3>3, <3>10, <4>2, TailVCR
        <5> QED BY <2>4, <3>3, <3>7, <5>1 DEF Known
      <4> QED BY <4>1, <4>2
    <3> QED BY <1>1, <3>8, <3>9, <3>10 DEF Known
  <2>8. pc'[Watchdog] # "filter"
    BY <2>2
  <2> HIDE DEF d, q
  <2> QED BY <2>5, <2>6, <2>7, <2>8 DEF ChangeServed
<1> QED BY <1>3, <1>4

LEMMA WatchdogChange ==
  ASSUME Types, SlotsCounted, RingsHold, ChangeServed, WatchdogNext \/ WdPollFails
  PROVE  ChangeServed'
<1>1. Watchdog \in Files /\ pc \in [Files -> Pcs]
  BY FileFacts DEF Types, PcTypes
<1>2. CASE BeginOpen(Watchdog) \/ EndOpen(Watchdog)
  BY <1>2, WatchdogOpens
<1>3. CASE WdFilters
  BY <1>3, FilterChange
<1>4. CASE WdVideo
  <2>1. CASE Goto(Watchdog, "poll") /\ UNCHANGED <<drv, ghosts>>
    <3>1. pc[Watchdog] \in OpenPcs \ {"filter"} /\ "poll" \in OpenPcs \ {"filter"} /\ Call
      BY <1>4 DEF WdVideo, OpenPcs
    <3>2. Known => Known'
      BY <1>1, <1>4, <2>1 DEF WdVideo, Known, Goto, Call, wdvars, ghosts
    <3> QED BY <2>1, <3>1, <3>2, WatchdogGoes
  <2>2. CASE Goto(Watchdog, "exited") /\ Release(Watchdog)
    BY <2>2, ReleaseChange
  <2> QED BY <1>4, <2>1, <2>2 DEF WdVideo
<1>5. CASE WdPolls
  <2>1. pc[Watchdog] \in OpenPcs \ {"filter"} /\ "read" \in OpenPcs \ {"filter"}
    BY <1>5 DEF WdPolls, OpenPcs
  <2>2. Known => Known'
    BY <1>1, <1>5 DEF WdPolls, Known, Goto, Call, wdvars, ghosts
  <2> QED BY <1>5, <2>1, <2>2, WatchdogGoes DEF WdPolls
<1>6. CASE WdPollFails
  BY <1>6, ReleaseChange DEF WdPollFails
<1>7. CASE WdReads
  BY <1>7, ReadsChange
<1>8. CASE WdSamples
  <2>1. pc[Watchdog] \in OpenPcs \ {"filter"} /\ "store" \in OpenPcs \ {"filter"}
    BY <1>8 DEF WdSamples, OpenPcs
  <2>2. Known'
    BY <1>1, <1>8 DEF WdSamples, Known, Goto, Call
  <2> QED BY <1>8, <2>1, <2>2, WatchdogGoes DEF WdSamples
<1>9. CASE WdStores
  <2>1. pc[Watchdog] \in OpenPcs \ {"filter"} /\ "read" \in OpenPcs \ {"filter"}
    BY <1>9 DEF WdStores, OpenPcs
  <2>2. Known => Known'
    BY <1>1, <1>9 DEF WdStores, Known, Goto, Call, ghosts
  <2> QED BY <1>9, <2>1, <2>2, WatchdogGoes DEF WdStores
<1> QED BY <1>2, <1>3, <1>4, <1>5, <1>6, <1>7, <1>8, <1>9 DEF WatchdogNext

LEMMA ChangeStep ==
  ASSUME Types, SlotsCounted, RingsHold, ChangeServed, [Next]_vars
  PROVE  ChangeServed'
<1>1. CASE UNCHANGED vars
  <2>1. UNCHANGED <<drv, pc, writer, fpVCR, wdvars, owed, clash, changed>>
    BY <1>1 DEF vars, ghosts
  <2> QED BY <2>1, ChangeFrame DEF drv, wdvars
<1>2. CASE Next
  BY <1>2, TimerChange, LevelChange, TestChange, PutChange, WakesChange, WatchdogChange,
     ReaderChange DEF Next, TaskNext
<1> QED BY <1>1, <1>2

-----------------------------------------------------------------------------
(***************************************************************************)
(* The theorems                                                            *)
(***************************************************************************)
LEMMA InitDriver == Init => DriverInv
<1>1. Init => Woken
  BY FileFacts DEF Init, Woken, Missed
<1> QED BY <1>1, InitTypes, InitSlots, InitRings, InitChange DEF DriverInv

LEMMA StepDriver == DriverInv /\ [Next]_vars => DriverInv'
<1> SUFFICES ASSUME DriverInv, [Next]_vars PROVE DriverInv'
  OBVIOUS
<1>1. Types /\ SlotsCounted /\ RingsHold /\ Woken /\ ChangeServed /\ TaskLoaded
  BY DEF DriverInv, RingsHold
<1>2. Types'
  BY <1>1, TypesStep
<1> QED BY <1>1, <1>2, SlotsStep, RingsStep, WokenStep, ChangeStep DEF DriverInv

LEMMA DriverCorrect == Spec => []DriverInv
BY InitDriver, StepDriver, PTL DEF Spec

(* The ring of a file two writers have not met in is what is owed.         *)
LEMMA RingContents ==
  ASSUME Types, RingsHold, NEW f \in Files, f \notin clash
  PROVE  Contents(f) = owed[f]
<1> DEFINE d == data[f]
           q == owed[f]
<1>1. d \in Rings /\ q \in Seq(Events) /\ Holds(d, q)
  BY DEF Types, RingsHold
<1>2. d.read_ptr \in 0 .. Size - 1
  BY <1>1 DEF Rings
<1>3. /\ d.free \in 0 .. Size /\ Len(q) = Size - d.free
      /\ \A k \in 1 .. Len(q) : q[k] = d.event[Wrap(d.read_ptr + k - 1)]
  BY <1>1 DEF Holds
<1>4. ASSUME NEW k \in 1 .. Len(q) PROVE (d.read_ptr + k - 1) % Size = Wrap(d.read_ptr + k - 1)
  <2> HIDE DEF d, q
  <2>1. k \in Nat /\ k >= 1 /\ k <= Size
    BY <1>3, SizeFacts, SMTT(30)
  <2>2. d.read_ptr + k - 1 \in 0 .. 2 * Size - 1
    BY <1>2, <2>1, SizeFacts, SMTT(30)
  <2> QED BY <2>2, WrapMod
<1>5. q = [k \in 1 .. Len(q) |-> q[k]]
  BY <1>1, SMTT(30)
<1>6. Contents(f) = [k \in 1 .. Len(q) |-> d.event[(d.read_ptr + k - 1) % Size]]
  BY <1>3 DEF Contents
<1> HIDE DEF d, q
<1>7. Contents(f) = [k \in 1 .. Len(q) |-> q[k]]
  BY <1>3, <1>4, <1>6
<1> QED BY <1>5, <1>7 DEF q

(* event_free, the pointers and the states of the programs stay in their   *)
(* ranges, for any number of programs and any size of the rings.           *)
THEOREM DriverTypeCorrect == Spec => []TypeOK
<1>1. DriverInv => TypeOK
  <2> SUFFICES ASSUME DriverInv PROVE TypeOK
    OBVIOUS
  <2>1. Types /\ SlotsCounted /\ RingsHold
    BY DEF DriverInv
  <2>2. open_handle \in 0 .. MaxOpen
    <3>1. Cardinality(UsedSlots) \in Nat /\ Cardinality(Opening) \in Nat
      BY <2>1, SlotsFinite, FS_CardinalityType DEF SlotsCounted
    <3> QED BY <2>1, <3>1, SizeFacts, SMTT(30) DEF SlotsCounted
  <2>3. ASSUME NEW f \in Files
        PROVE  /\ data[f].filter \subseteq Kinds
               /\ data[f].free \in 0 .. (IF f \in clash THEN U16 - 1 ELSE Size)
               /\ data[f].ptr \in 0 .. Size - 1 /\ data[f].read_ptr \in 0 .. Size - 1
    <3>1. data[f] \in Rings
      BY <2>1 DEF Types
    <3>2. f \notin clash => data[f].free \in 0 .. Size
      BY <2>1 DEF RingsHold, Holds
    <3> QED BY <3>1, <3>2 DEF Rings
  <2>4. pc \in [Files -> {"closed", "opening", "open", "reading", "empty", "asleep", "filter",
                          "video", "poll", "read", "sample", "store", "exited", "other"}]
    BY <2>1 DEF Types, PcTypes, Pcs, ReaderPcs, WatchdogPcs
  <2>5. /\ event_private \in [Slots -> Files \cup {NoFile}]
        /\ writer.pc \in {"idle", "test", "put", "wake"} /\ writer.i \in Slots
        /\ fpVCR \in Levels /\ VCRMode \in Levels /\ newVCRMode \in Levels
    BY <2>1 DEF Types, Writers
  <2> QED BY <2>2, <2>3, <2>4, <2>5 DEF TypeOK
<1> QED BY <1>1, DriverCorrect, PTL

(* An open that passed the count finds a free slot (event_open,            *)
(* event_release).                                                         *)
THEOREM OpenGetsSlot == Spec => []OpenFindsSlot
<1>1. DriverInv => OpenFindsSlot
  BY OpeningHasSlot DEF DriverInv, OpenFindsSlot
<1> QED BY <1>1, DriverCorrect, PTL

(* Events are read once and in the order they were accepted, unless the    *)
(* timer came into a write of the task (event_write_message, event_read).  *)
THEOREM EventsInOrder == Spec => []InOrder
<1>1. DriverInv => InOrder
  BY RingContents DEF DriverInv, InOrder
<1> QED BY <1>1, DriverCorrect, PTL

(* No program sleeps in event_read with an event in its ring once the      *)
(* writer is through.                                                      *)
THEOREM WakeupsReach == Spec => []NoLostWakeup
<1>1. DriverInv => NoLostWakeup
  BY DEF DriverInv, Woken, Missed, NoLostWakeup
<1> QED BY <1>1, DriverCorrect, PTL

(* HasVCR names the index range, ChangeKnown the domain.                   *)
LEMMA VCRInDomain ==
  ASSUME NEW q \in Seq(Events), HasVCR(q)
  PROVE  \E k \in DOMAIN q : q[k].kind = "VCR"
<1>1. DOMAIN q = 1 .. Len(q)
  BY SMTT(30)
<1> QED BY <1>1 DEF HasVCR

(* After a change was sent the watchdog knows the level, has an event left *)
(* or is about to ask (watchdogThread, fp_handle_vcr).                     *)
THEOREM ChangeComesToKnow == Spec => []ChangeKnown
<1>1. DriverInv => ChangeKnown
  <2> SUFFICES ASSUME DriverInv, changed, IsOpen(Watchdog), Watchdog \notin clash,
                      VCRMode # fpVCR, writer.pc = "idle"
               PROVE  \/ \E k \in DOMAIN Contents(Watchdog) :
                           Contents(Watchdog)[k].kind = "VCR"
                      \/ pc[Watchdog] = "sample"
                      \/ pc[Watchdog] = "store" /\ newVCRMode = fpVCR
    BY DEF ChangeKnown
  <2>1. Contents(Watchdog) = owed[Watchdog] /\ owed[Watchdog] \in Seq(Events)
    BY FileFacts, RingContents DEF DriverInv, Types
  <2>2. PICK s \in Slots : event_private[s] = Watchdog
    BY DEF IsOpen
  <2>3. Past(writer, s)
    BY DEF Past
  <2>4. Known
    BY <2>2, <2>3 DEF DriverInv, ChangeServed
  <2>5. ASSUME HasVCR(owed[Watchdog])
        PROVE  \E k \in DOMAIN Contents(Watchdog) : Contents(Watchdog)[k].kind = "VCR"
    <3>1. \E k \in DOMAIN owed[Watchdog] : owed[Watchdog][k].kind = "VCR"
      BY <2>1, <2>5, VCRInDomain
    <3> QED BY <2>1, <3>1
  <2> QED BY <2>4, <2>5 DEF Known
<1> QED BY <1>1, DriverCorrect, PTL
=============================================================================
