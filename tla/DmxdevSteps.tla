---------------------------- MODULE DmxdevSteps -----------------------------
(***************************************************************************)
(* Proofs about Dmxdev, second part: the operators on one filter (ring,    *)
(* read call), and one lemma per action.                                   *)
(***************************************************************************)
EXTENDS DmxdevControl

USE ZenonT(30)

(***************************************************************************)
(* The ring: buffer_write appends a section, read takes bytes from the     *)
(* front                                                                   *)
(***************************************************************************)
LEMMA SmallMod ==
  ASSUME NEW w \in Nat, w # 0, NEW a \in Nat, a < w
  PROVE  a % w = a
BY SMTT(30)

LEMMA WrapMod ==
  ASSUME NEW w \in Nat, w # 0, NEW a \in Nat, a >= w, a < w + w
  PROVE  a % w = a - w
BY SMTT(30)

LEMMA BackMod ==
  ASSUME NEW w \in Nat, w # 0, NEW a \in Int, a < 0, a >= -w
  PROVE  a % w = a + w
BY SMTT(30)

LEMMA RingTypes ==
  ASSUME NEW x \in FilterRecs
  PROVE  /\ x.ring \in [0 .. Size - 1 -> Cells]
         /\ x.pread \in 0 .. Size - 1 /\ x.pwrite \in 0 .. Size - 1
         /\ x.todo \in 1 - Header .. Length - Header
BY DEF FilterRecs

(* Places without the remainders of the code.                              *)
At(i, k) == IF i + k < Size THEN i + k ELSE i + k - Size
Gap(i, j) == IF j >= i THEN j - i ELSE j - i + Size

LEMMA AtIs ==
  ASSUME NEW i \in 0 .. Size - 1, NEW k \in 0 .. Size - 1
  PROVE  (i + k) % Size = At(i, k) /\ At(i, k) \in 0 .. Size - 1
<1>1. Size \in Nat /\ Size # 0 /\ i + k \in Nat /\ i + k < Size + Size
  BY SizeFacts, SMTT(30)
<1>2. CASE i + k < Size
  BY <1>1, <1>2, SmallMod, SMTT(30) DEF At
<1>3. CASE i + k >= Size
  <2>1. (i + k) % Size = (i + k) - Size
    BY <1>1, <1>3, WrapMod
  <2> QED BY <1>1, <1>3, <2>1, SMTT(30) DEF At
<1> QED BY <1>1, <1>2, <1>3, SMTT(30)

LEMMA GapIs ==
  ASSUME NEW i \in 0 .. Size - 1, NEW j \in 0 .. Size - 1
  PROVE  (j - i) % Size = Gap(i, j) /\ Gap(i, j) \in 0 .. Size - 1
<1>1. Size \in Nat /\ Size # 0 /\ j - i \in Int /\ j - i >= -Size /\ j - i < Size
  BY SizeFacts, SMTT(30)
<1>2. CASE j >= i
  <2>1. j - i \in Nat
    BY <1>2, SMTT(30)
  <2> QED BY <1>1, <1>2, <2>1, SmallMod, SMTT(30) DEF Gap
<1>3. CASE j < i
  <2>1. (j - i) % Size = j - i + Size
    BY <1>1, <1>3, BackMod, SMTT(30)
  <2> QED BY <1>1, <1>3, <2>1, SMTT(30) DEF Gap
<1> QED BY <1>1, <1>2, <1>3, SMTT(30)

LEMMA CellIs ==
  ASSUME NEW x \in FilterRecs, NEW k \in 0 .. Size - 1
  PROVE  Cell(x, k) = x.ring[At(x.pread, k)] /\ Cell(x, k) \in Cells
<1>1. x.ring \in [0 .. Size - 1 -> Cells] /\ x.pread \in 0 .. Size - 1
  BY RingTypes
<1>2. (x.pread + k) % Size = At(x.pread, k) /\ At(x.pread, k) \in 0 .. Size - 1
  BY <1>1, AtIs
<1> QED BY <1>1, <1>2 DEF Cell

LEMMA UsedIs ==
  ASSUME NEW x \in FilterRecs
  PROVE  Used(x) = Gap(x.pread, x.pwrite) /\ Used(x) \in 0 .. Size - 1
BY RingTypes, GapIs DEF Used

LEMMA FreeIs ==
  ASSUME NEW x \in FilterRecs
  PROVE  Free(x) = Size - Used(x)
<1>1. x.pread \in 0 .. Size - 1 /\ x.pwrite \in 0 .. Size - 1
  BY RingTypes
<1>2. Used(x) = Gap(x.pread, x.pwrite)
  BY UsedIs
<1> QED BY <1>1, <1>2, SizeFacts, SMTT(30) DEF Free, Gap

(* What buffer_write leaves of the filter.                                 *)
Appended(x, n, y) ==
  /\ y \in FilterRecs /\ Used(y) = Used(x) + Length
  /\ y.pread = x.pread /\ y.error = x.error /\ y.todo = x.todo
  /\ y.state = x.state /\ y.timer = x.timer /\ Alike(x, y)
  /\ \A k \in 0 .. Used(x) - 1 : Cell(y, k) = Cell(x, k)
  /\ \A k \in Used(x) .. Used(x) + Length - 1 :
       Cell(y, k) = [n |-> n, pos |-> k - Used(x) + 1]

LEMMA WriteAppends ==
  ASSUME NEW x \in FilterRecs, NEW n \in Nat, Length < Free(x)
  PROVE  Appended(x, n, Written(x, n))
<1>0. PICK i, j, u : x.pread = i /\ x.pwrite = j /\ Used(x) = u
  OBVIOUS
<1>1. /\ x.ring \in [0 .. Size - 1 -> Cells] /\ i \in 0 .. Size - 1 /\ j \in 0 .. Size - 1
      /\ Size \in Nat /\ Length \in Nat /\ Length >= 1
  BY <1>0, RingTypes, SizeFacts, SMTT(30)
<1>2. /\ u = Gap(i, j) /\ u \in 0 .. Size - 1 /\ u + Length < Size
  BY <1>0, <1>1, UsedIs, FreeIs, SMTT(30)
<1> DEFINE pos(c) == ((c - j) % Size) + 1
           ring == [c \in 0 .. Size - 1 |->
                      IF pos(c) <= Length THEN [n |-> n, pos |-> pos(c)] ELSE x.ring[c]]
           w == (j + Length) % Size
           y == [x EXCEPT !.pwrite = w, !.ring = ring]
<1>3. Written(x, n) = y
  <2>1. ~(Length >= Free(x)) /\ DOMAIN x.ring = 0 .. Size - 1
    BY <1>0, <1>1, <1>2, FreeIs, SMTT(30)
  <2>2. x.pwrite = j
    BY <1>0
  <2> QED BY <2>1, <2>2 DEF Written, FilterRecs
<1>4. \A c \in 0 .. Size - 1 : pos(c) = Gap(j, c) + 1 /\ Gap(j, c) \in 0 .. Size - 1
  BY <1>1, GapIs
<1>5. w = At(j, Length) /\ w \in 0 .. Size - 1
  <2>1. Length \in 0 .. Size - 1
    BY SizeFacts, SMTT(30)
  <2> QED BY <1>1, <2>1, AtIs
<1> HIDE DEF pos, w
<1>6. ring \in [0 .. Size - 1 -> Cells]
  <2> SUFFICES ASSUME NEW c \in 0 .. Size - 1
               PROVE  (IF pos(c) <= Length THEN [n |-> n, pos |-> pos(c)] ELSE x.ring[c]) \in Cells
    OBVIOUS
  <2>1. pos(c) <= Length => pos(c) \in 0 .. Length
    BY <1>1, <1>4, SMTT(30)
  <2> QED BY <2>1, <1>1 DEF Cells
<1>7. \A c \in 0 .. Size - 1 :
        ring[c] = IF pos(c) <= Length THEN [n |-> n, pos |-> pos(c)] ELSE x.ring[c]
  OBVIOUS
<1> HIDE DEF ring
<1>8. /\ y \in FilterRecs /\ y.ring = ring /\ y.pwrite = w /\ y.pread = i
      /\ y.error = x.error /\ y.todo = x.todo /\ y.state = x.state /\ y.timer = x.timer
      /\ Alike(x, y)
  BY <1>0, <1>5, <1>6 DEF FilterRecs, Alike
<1> HIDE DEF y
<1>9. Used(y) = u + Length
  <2>1. Used(y) = Gap(i, w)
    BY <1>8, UsedIs
  <2> QED BY <2>1, <1>1, <1>2, <1>5, SMTT(30) DEF Gap, At
<1>10. ASSUME NEW k \in 0 .. u - 1
       PROVE  Cell(y, k) = Cell(x, k)
  <2>1. k \in 0 .. Size - 1
    BY <1>1, <1>2, SMTT(30)
  <2>2. At(i, k) \in 0 .. Size - 1
    BY <1>1, <2>1, AtIs
  <2>3. Gap(j, At(i, k)) = k - u + Size
    BY <1>1, <1>2, SMTT(30) DEF Gap, At
  <2>4. pos(At(i, k)) = k - u + Size + 1
    <3>1. pos(At(i, k)) = Gap(j, At(i, k)) + 1
      BY <2>2, <1>4
    <3> QED BY <2>3, <3>1
  <2>6. ~(pos(At(i, k)) <= Length)
    BY <2>4, <1>1, <1>2, SMTT(30)
  <2>5. ring[At(i, k)] = x.ring[At(i, k)]
    BY <2>2, <2>6, <1>7
  <2> QED BY <2>1, <2>5, <1>0, <1>8, CellIs
<1>11. ASSUME NEW k \in u .. u + Length - 1
       PROVE  Cell(y, k) = [n |-> n, pos |-> k - u + 1]
  <2>1. k \in 0 .. Size - 1
    BY <1>1, <1>2, SMTT(30)
  <2>2. At(i, k) \in 0 .. Size - 1
    BY <1>1, <2>1, AtIs
  <2>3. Gap(j, At(i, k)) = k - u
    BY <1>1, <1>2, SMTT(30) DEF Gap, At
  <2>4. pos(At(i, k)) = k - u + 1
    <3>1. pos(At(i, k)) = Gap(j, At(i, k)) + 1
      BY <2>2, <1>4
    <3> QED BY <2>3, <3>1
  <2>6. pos(At(i, k)) <= Length
    BY <2>4, <1>1, <1>2, SMTT(30)
  <2>5. ring[At(i, k)] = [n |-> n, pos |-> k - u + 1]
    BY <2>2, <2>4, <2>6, <1>7
  <2> QED BY <2>1, <2>5, <1>0, <1>8, CellIs
<1> QED BY <1>0, <1>3, <1>8, <1>9, <1>10, <1>11 DEF Appended

LEMMA FollowsFirst ==
  ASSUME NEW g \in Nat, NEW a \in {NoByte, [n |-> g, pos |-> Length]}
  PROVE  Follows([n |-> g + 1, pos |-> 1], a)
<1>1. Length \in Nat /\ Length >= 1 /\ ~(Length < Length) /\ Length # 0
  BY SizeFacts, SMTT(30)
<1>2. CASE a = NoByte
  BY <1>2 DEF Follows
<1>3. CASE a = [n |-> g, pos |-> Length]
  <2>1. a # NoByte /\ a.n = g /\ a.pos = Length
    BY <1>1, <1>3 DEF NoByte
  <2> QED BY <2>1, <1>1 DEF Follows
<1> QED BY <1>2, <1>3

LEMMA FollowsNext ==
  ASSUME NEW n \in Nat, NEW p \in 1 .. Length - 1
  PROVE  Follows([n |-> n, pos |-> p + 1], [n |-> n, pos |-> p])
<1>1. PICK a : a = [n |-> n, pos |-> p]
  OBVIOUS
<1>2. a # NoByte /\ a.pos < Length
  BY <1>1, SizeFacts, SMTT(30) DEF NoByte
<1>3. [a EXCEPT !.pos = @ + 1] = [n |-> n, pos |-> p + 1]
  BY <1>1, SMTT(30)
<1>4. Follows([n |-> n, pos |-> p + 1], a)
  BY <1>2, <1>3 DEF Follows
<1> QED BY <1>1, <1>4

LEMMA FollowsPlace ==
  ASSUME NEW a \in Cells, NEW b, Follows(b, a)
  PROVE  b.pos = Place(a) + 1
<1>1. a = [n |-> a.n, pos |-> a.pos] /\ a.pos \in 0 .. Length /\ a.n \in Nat
  BY DEF Cells
<1>2. Length \in Nat /\ Length >= 1
  BY SizeFacts, SMTT(30)
<1>3. CASE a = NoByte
  <2>1. a.pos = 0 /\ b.pos = 1
    BY <1>3 DEF Follows, NoByte
  <2> QED BY <2>1, <1>2, SMTT(30) DEF Place
<1>4. CASE a # NoByte /\ a.pos < Length
  <2>1. b = [a EXCEPT !.pos = @ + 1]
    BY <1>4 DEF Follows
  <2>2. b.pos = a.pos + 1
    BY <2>1, <1>1
  <2> QED BY <2>2, <1>1, <1>2, <1>4, SMTT(30) DEF Place
<1>5. CASE a # NoByte /\ ~(a.pos < Length)
  <2>1. b = [n |-> a.n + 1, pos |-> 1]
    BY <1>5 DEF Follows
  <2>2. a.pos = Length
    BY <1>1, <1>2, <1>5, SMTT(30)
  <2> QED BY <2>1, <2>2, SMTT(30) DEF Place
<1> QED BY <1>3, <1>4, <1>5

LEMMA AppendFollows ==
  ASSUME NEW x \in FilterRecs, NEW g \in Nat, NEW y, Appended(x, g + 1, y), NEW a,
         Stream(x, a, Used(x)), Ends(x, g, a, Used(x))
  PROVE  \A k \in 0 .. Used(y) - 1 : Follows(Cell(y, k), IF k = 0 THEN a ELSE Cell(y, k - 1))
<1>0. PICK u : Used(x) = u
  OBVIOUS
<1>1. /\ u \in 0 .. Size - 1 /\ Size \in Nat /\ Length \in Nat /\ Length >= 1
      /\ Used(y) = u + Length
      /\ \A k \in 0 .. u - 1 : Cell(y, k) = Cell(x, k)
      /\ \A k \in u .. u + Length - 1 : Cell(y, k) = [n |-> g + 1, pos |-> k - u + 1]
  BY <1>0, UsedIs, SizeFacts, SMTT(30) DEF Appended
<1> SUFFICES ASSUME NEW k \in 0 .. Used(y) - 1
             PROVE  Follows(Cell(y, k), IF k = 0 THEN a ELSE Cell(y, k - 1))
  OBVIOUS
<1>2. CASE k < u
  <2>1. Follows(Cell(x, k), IF k = 0 THEN a ELSE Cell(x, k - 1))
    BY <1>0, <1>1, <1>2, SMTT(30) DEF Stream
  <2>2. Cell(y, k) = Cell(x, k) /\ (k # 0 => Cell(y, k - 1) = Cell(x, k - 1))
    BY <1>1, <1>2, SMTT(30)
  <2> QED BY <2>1, <2>2
<1>3. CASE k = u
  <2>1. Cell(y, k) = [n |-> g + 1, pos |-> 1]
    BY <1>1, <1>3, SMTT(30)
  <2>2. (IF k = 0 THEN a ELSE Cell(y, k - 1)) \in {NoByte, [n |-> g, pos |-> Length]}
    <3>1. CASE u = 0
      BY <1>0, <1>3, <3>1 DEF Ends
    <3>2. CASE u # 0
      <4>1. Cell(x, u - 1) = [n |-> g, pos |-> Length] /\ Cell(y, u - 1) = Cell(x, u - 1)
        BY <1>0, <1>1, <3>2, SMTT(30) DEF Ends
      <4> QED BY <4>1, <1>3, <3>2
    <3> QED BY <3>1, <3>2
  <2> QED BY <2>1, <2>2, FollowsFirst
<1>4. CASE k > u
  <2>1. PICK p : p = k - u
    OBVIOUS
  <2>2. p \in 1 .. Length - 1 /\ k - u + 1 = p + 1 /\ (k - 1) - u + 1 = p /\ k # 0
    BY <1>1, <1>4, <2>1, SMTT(30)
  <2>3. Cell(y, k) = [n |-> g + 1, pos |-> p + 1]
    BY <1>1, <1>4, <2>2, SMTT(30)
  <2>4. Cell(y, k - 1) = [n |-> g + 1, pos |-> p]
    <3>1. k - 1 \in u .. u + Length - 1
      BY <1>1, <1>4, SMTT(30)
    <3>2. Cell(y, k - 1) = [n |-> g + 1, pos |-> (k - 1) - u + 1]
      BY <3>1, <1>1
    <3> QED BY <3>2, <2>2
  <2>5. g + 1 \in Nat
    BY SMTT(30)
  <2> QED BY <2>2, <2>3, <2>4, <2>5, FollowsNext
<1> QED BY <1>1, <1>2, <1>3, <1>4, SMTT(30)

LEMMA AppendWhole ==
  ASSUME NEW x \in FilterRecs, NEW g \in Nat, NEW y, Appended(x, g + 1, y), NEW a,
         Stream(x, a, Used(x)), Ends(x, g, a, Used(x))
  PROVE  \A j, k \in 0 .. Used(y) - 1 :
           j <= k /\ Cell(y, j).pos + (k - j) <= Length =>
             Cell(y, k) = [n |-> Cell(y, j).n, pos |-> Cell(y, j).pos + (k - j)]
<1>0. PICK u : Used(x) = u
  OBVIOUS
<1>1. /\ u \in 0 .. Size - 1 /\ Size \in Nat /\ Length \in Nat /\ Length >= 1
      /\ Used(y) = u + Length
      /\ \A k \in 0 .. u - 1 : Cell(y, k) = Cell(x, k)
      /\ \A k \in u .. u + Length - 1 : Cell(y, k) = [n |-> g + 1, pos |-> k - u + 1]
  BY <1>0, UsedIs, SizeFacts, SMTT(30) DEF Appended
<1>5. \A j, k \in 0 .. u - 1 :
        j <= k /\ Cell(x, j).pos + (k - j) <= Length =>
          Cell(x, k) = [n |-> Cell(x, j).n, pos |-> Cell(x, j).pos + (k - j)]
  BY <1>0 DEF Stream
<1> SUFFICES ASSUME NEW j \in 0 .. Used(y) - 1, NEW k \in 0 .. Used(y) - 1,
                    j <= k, Cell(y, j).pos + (k - j) <= Length
             PROVE  Cell(y, k) = [n |-> Cell(y, j).n, pos |-> Cell(y, j).pos + (k - j)]
  OBVIOUS
<1>2. CASE k < u
  <2>1. Cell(y, k) = Cell(x, k) /\ Cell(y, j) = Cell(x, j)
    BY <1>1, <1>2, SMTT(30)
  <2> QED BY <2>1, <1>1, <1>2, <1>5, SMTT(30)
<1>3. CASE j >= u
  <2>1. Cell(y, k) = [n |-> g + 1, pos |-> k - u + 1]
    BY <1>1, <1>3, SMTT(30)
  <2>2. Cell(y, j) = [n |-> g + 1, pos |-> j - u + 1]
    BY <1>1, <1>3, SMTT(30)
  <2>3. Cell(y, j).n = g + 1 /\ Cell(y, j).pos + (k - j) = k - u + 1
    BY <1>1, <2>2, SMTT(30)
  <2> QED BY <2>1, <2>3
<1>4. CASE j < u /\ k >= u
  <2>1. Cell(y, j) = Cell(x, j)
    BY <1>1, <1>4, SMTT(30)
  <2>2. j \in 0 .. Size - 1 /\ u - 1 \in 0 .. u - 1 /\ j \in 0 .. u - 1 /\ j <= u - 1
    BY <1>1, <1>4, SMTT(30)
  <2>3. Cell(x, j) \in Cells
    BY <2>2, CellIs
  <2>4. PICK p \in 0 .. Length : Cell(x, j).pos = p
    BY <2>3 DEF Cells
  <2>5. p + (u - 1 - j) < Length
    BY <1>1, <1>4, <2>1, <2>2, <2>4, SMTT(30)
  <2>6. Cell(x, u - 1) = [n |-> Cell(x, j).n, pos |-> p + (u - 1 - j)]
    BY <1>1, <1>5, <2>2, <2>4, <2>5, SMTT(30)
  <2>7. Cell(x, u - 1) = [n |-> g, pos |-> Length]
    BY <1>0, <1>1, <1>4, SMTT(30) DEF Ends
  <2>8. p + (u - 1 - j) = Length
    BY <2>6, <2>7, SMTT(30)
  <2> QED BY <2>5, <2>8, <1>1, <2>2, SMTT(30)
<1> QED BY <1>1, <1>2, <1>3, <1>4, SMTT(30)

LEMMA AppendStream ==
  ASSUME NEW x \in FilterRecs, NEW g \in Nat, NEW y, Appended(x, g + 1, y), NEW a,
         Stream(x, a, Used(x)), Ends(x, g, a, Used(x))
  PROVE  Stream(y, a, Used(y))
<1>1. \A k \in 0 .. Used(y) - 1 : Follows(Cell(y, k), IF k = 0 THEN a ELSE Cell(y, k - 1))
  BY AppendFollows
<1>2. \A j, k \in 0 .. Used(y) - 1 :
        j <= k /\ Cell(y, j).pos + (k - j) <= Length =>
          Cell(y, k) = [n |-> Cell(y, j).n, pos |-> Cell(y, j).pos + (k - j)]
  BY AppendWhole, SMTT(30)
<1> QED BY <1>1, <1>2 DEF Stream

(* What is left when the first m bytes have been read.                     *)
Advanced(x, m, y) ==
  /\ y \in FilterRecs /\ y.error = x.error /\ y.todo = x.todo /\ y.state = x.state
  /\ y.timer = x.timer /\ Alike(x, y)
  /\ m <= Used(x) => Used(y) = Used(x) - m
  /\ \A k \in 0 .. Size - 1 - m : Cell(y, k) = Cell(x, k + m)

LEMMA ReadAdvances ==
  ASSUME NEW x \in FilterRecs, NEW m \in 1 .. Size - 1
  PROVE  Advanced(x, m, [x EXCEPT !.pread = (@ + m) % Size])
<1>0. PICK i, j, y : /\ x.pread = i /\ x.pwrite = j
                     /\ [x EXCEPT !.pread = (@ + m) % Size] = y
  OBVIOUS
<1>1. /\ x.ring \in [0 .. Size - 1 -> Cells] /\ i \in 0 .. Size - 1 /\ j \in 0 .. Size - 1
      /\ Size \in Nat
  BY <1>0, RingTypes, SizeFacts
<1>2. m \in 0 .. Size - 1
  BY <1>1, SMTT(30)
<1>3. (i + m) % Size = At(i, m) /\ At(i, m) \in 0 .. Size - 1
  BY <1>1, <1>2, AtIs
<1>4. y = [x EXCEPT !.pread = At(i, m)]
  BY <1>0, <1>3
<1>5. /\ y \in FilterRecs /\ y.ring = x.ring /\ y.pread = At(i, m) /\ y.pwrite = j
      /\ y.error = x.error /\ y.todo = x.todo /\ y.state = x.state /\ y.timer = x.timer
      /\ Alike(x, y)
  BY <1>0, <1>3, <1>4 DEF FilterRecs, Alike
<1>6. ASSUME m <= Used(x)
      PROVE  Used(y) = Used(x) - m
  <2>1. Used(x) = Gap(i, j) /\ Used(y) = Gap(At(i, m), j)
    BY <1>0, <1>5, UsedIs
  <2> QED BY <2>1, <1>1, <1>6, SMTT(30) DEF Gap, At
<1>7. ASSUME NEW k \in 0 .. Size - 1 - m
      PROVE  Cell(y, k) = Cell(x, k + m)
  <2>1. k \in 0 .. Size - 1 /\ k + m \in 0 .. Size - 1
    BY <1>1, SMTT(30)
  <2>2. Cell(y, k) = x.ring[At(At(i, m), k)]
    BY <2>1, <1>5, CellIs
  <2>3. Cell(x, k + m) = x.ring[At(i, k + m)]
    BY <2>1, <1>0, CellIs
  <2>4. At(At(i, m), k) = At(i, k + m)
    BY <1>1, SMTT(30) DEF At
  <2> QED BY <2>2, <2>3, <2>4
<1> QED BY <1>0, <1>5, <1>6, <1>7 DEF Advanced

LEMMA AdvancedStream ==
  ASSUME NEW x \in FilterRecs, NEW m \in 1 .. Size - 1, NEW y, Advanced(x, m, y),
         NEW a, NEW u \in m .. Size - 1, Stream(x, a, u)
  PROVE  Stream(y, Cell(x, m - 1), u - m)
<1>1. Size \in Nat
  BY SizeFacts
<1>2. /\ \A k \in 0 .. u - 1 : Follows(Cell(x, k), IF k = 0 THEN a ELSE Cell(x, k - 1))
      /\ \A j, k \in 0 .. u - 1 :
           j <= k /\ Cell(x, j).pos + (k - j) <= Length =>
             Cell(x, k) = [n |-> Cell(x, j).n, pos |-> Cell(x, j).pos + (k - j)]
      /\ \A k \in 0 .. Size - 1 - m : Cell(y, k) = Cell(x, k + m)
  BY DEF Stream, Advanced
<1>3. ASSUME NEW k \in 0 .. (u - m) - 1
      PROVE  Follows(Cell(y, k), IF k = 0 THEN Cell(x, m - 1) ELSE Cell(y, k - 1))
  <2>1. k + m \in 0 .. u - 1 /\ k + m # 0 /\ k \in 0 .. Size - 1 - m
    BY <1>1, SMTT(30)
  <2>2. Follows(Cell(x, k + m), Cell(x, (k + m) - 1)) /\ Cell(y, k) = Cell(x, k + m)
    BY <2>1, <1>2
  <2>3. CASE k = 0
    <3>1. (k + m) - 1 = m - 1
      BY <2>3, SMTT(30)
    <3> QED BY <2>2, <2>3, <3>1
  <2>4. CASE k # 0
    <3>1. (k - 1) + m = (k + m) - 1 /\ k - 1 \in 0 .. Size - 1 - m
      BY <1>1, <2>4, SMTT(30)
    <3>2. Cell(y, k - 1) = Cell(x, (k - 1) + m)
      BY <3>1, <1>2
    <3> QED BY <2>2, <2>4, <3>1, <3>2
  <2> QED BY <2>3, <2>4
<1>4. ASSUME NEW j \in 0 .. (u - m) - 1, NEW k \in 0 .. (u - m) - 1,
             j <= k, Cell(y, j).pos + (k - j) <= Length
      PROVE  Cell(y, k) = [n |-> Cell(y, j).n, pos |-> Cell(y, j).pos + (k - j)]
  <2>1. /\ k + m \in 0 .. u - 1 /\ j + m \in 0 .. u - 1 /\ j + m <= k + m
        /\ (k + m) - (j + m) = k - j
        /\ j \in 0 .. Size - 1 - m /\ k \in 0 .. Size - 1 - m
    BY <1>1, <1>4, SMTT(30)
  <2>2. Cell(y, j) = Cell(x, j + m) /\ Cell(y, k) = Cell(x, k + m)
    BY <2>1, <1>2
  <2>3. Cell(x, j + m).pos + ((k + m) - (j + m)) <= Length
    BY <2>1, <2>2, <1>4
  <2>4. Cell(x, k + m) = [n |-> Cell(x, j + m).n,
                          pos |-> Cell(x, j + m).pos + ((k + m) - (j + m))]
    BY <2>1, <2>3, <1>2
  <2> QED BY <2>1, <2>2, <2>4
<1> QED BY <1>3, <1>4 DEF Stream

LEMMA StreamPrefix ==
  ASSUME NEW x, NEW a, NEW u \in Nat, NEW m \in 0 .. u, Stream(x, a, u)
  PROVE  Stream(x, a, m)
<1>1. 0 .. m - 1 \subseteq 0 .. u - 1
  BY SMTT(30)
<1> QED BY <1>1 DEF Stream

(* After m bytes, within a section, the place is m further.                *)
LEMMA StreamPlace ==
  ASSUME NEW x \in FilterRecs, NEW a \in Cells, NEW u \in 1 .. Size - 1, Stream(x, a, u),
         NEW m \in 1 .. u, Place(a) + m <= Length
  PROVE  Cell(x, m - 1).pos = Place(a) + m
<1>1. Size \in Nat /\ Length \in Nat /\ a.pos \in 0 .. Length
  BY SizeFacts DEF Cells
<1>2. Place(a) \in 0 .. Length
  BY <1>1, SMTT(30) DEF Place
<1>3. 0 \in 0 .. u - 1 /\ m - 1 \in 0 .. u - 1 /\ 0 <= m - 1 /\ (m - 1) - 0 = m - 1
  BY <1>1, SMTT(30)
<1>4. Follows(Cell(x, 0), a)
  BY <1>3 DEF Stream
<1>5. Cell(x, 0).pos = Place(a) + 1
  BY <1>4, FollowsPlace
<1>6. Cell(x, 0).pos + ((m - 1) - 0) = Place(a) + m
  BY <1>2, <1>5, SMTT(30)
<1>7. Cell(x, m - 1) = [n |-> Cell(x, 0).n, pos |-> Cell(x, 0).pos + ((m - 1) - 0)]
  <2>1. Cell(x, 0).pos + ((m - 1) - 0) <= Length
    BY <1>6
  <2> QED BY <2>1, <1>3 DEF Stream
<1> QED BY <1>6, <1>7, SMTT(30)

(***************************************************************************)
(* A filter and its read call                                              *)
(***************************************************************************)
SameData(x, y) ==
  /\ y.ring = x.ring /\ y.pread = x.pread /\ y.pwrite = x.pwrite
  /\ y.error = x.error /\ y.todo = x.todo

LEMMA SameStream ==
  ASSUME NEW x, NEW y, y.ring = x.ring, y.pread = x.pread
  PROVE  /\ \A k : Cell(y, k) = Cell(x, k)
         /\ \A a, m : Stream(x, a, m) => Stream(y, a, m)
<1>1. \A k : Cell(y, k) = Cell(x, k)
  BY DEF Cell
<1> QED BY <1>1 DEF Stream

(* The state of the filter, its timer and its feed do not matter.          *)
LEMMA FileSame ==
  ASSUME NEW f, NEW x, NEW y, SameData(x, y), NEW c, NEW g, NEW a, NEW R, NEW S, NEW T, NEW U,
         f \in R <=> f \in S, f \in T <=> f \in U, FileOK(f, x, c, g, a, R, T)
  PROVE  FileOK(f, y, c, g, a, S, U)
<1>1. /\ y.ring = x.ring /\ y.pread = x.pread /\ y.pwrite = x.pwrite
      /\ y.error = x.error /\ y.todo = x.todo
  BY DEF SameData
<1>2. CallOK(y, c)
  BY <1>1 DEF FileOK, CallOK
<1>3. Used(y) = Used(x)
  BY <1>1 DEF Used
<1>4. RingOK(x, c, g, a) => RingOK(y, c, g, a)
  BY <1>1, <1>3, SameStream DEF RingOK, Ends
<1>5. FrameOK(x, c, a) => FrameOK(y, c, a)
  BY <1>1 DEF FrameOK
<1> QED BY <1>1, <1>2, <1>4, <1>5 DEF FileOK

(* No call is under way and the ring is empty.                             *)
LEMMA FileRest ==
  ASSUME NEW f, NEW x \in FilterRecs, x.pread = x.pwrite, NEW c, c.pc = "idle", NEW g, NEW a,
         NEW R, NEW T, f \in R => a = NoByte /\ (x.todo = 0 \/ f \in T)
  PROVE  FileOK(f, x, c, g, a, R, T)
<1>1. CallOK(x, c)
  BY DEF CallOK
<1>2. Used(x) = 0
  BY RingTypes, UsedIs, SMTT(30) DEF Gap
<1>3. Stream(x, a, 0)
  <2>1. 0 .. 0 - 1 = {}
    BY SMTT(30)
  <2> QED BY <2>1 DEF Stream
<1>4. f \in R => RingOK(x, c, g, a)
  BY <1>2, <1>3, SMTT(30) DEF RingOK, Ends
<1>5. f \in R /\ f \notin T => FrameOK(x, c, a)
  <2>1. NoByte.pos = 0 /\ Length # 0
    BY SizeFacts, SMTT(30) DEF NoByte
  <2> QED BY <2>1 DEF FrameOK, Place
<1> QED BY <1>1, <1>4, <1>5 DEF FileOK

(* An error waits to be read.                                              *)
LEMMA FileFails ==
  ASSUME NEW f, NEW x, NEW y, y.ring = x.ring, y.pread = x.pread, y.todo = x.todo,
         y.error # "none", NEW c, NEW g, NEW h, NEW a, NEW R, NEW T, f \in R,
         FileOK(f, x, c, g, a, R, T)
  PROVE  FileOK(f, y, c, h, a, R, T)
<1>1. CallOK(y, c)
  BY DEF FileOK, CallOK
<1>2. RingOK(y, c, h, a)
  BY SameStream DEF FileOK, RingOK
<1> QED BY <1>1, <1>2 DEF FileOK

(* buffer_write                                                            *)
Wrote(x, y) ==
  y \in FilterRecs /\ y.state = x.state /\ y.timer = x.timer /\ Alike(x, y)

LEMMA FileWritten ==
  ASSUME NEW f, NEW x \in FilterRecs, x.error = "none", NEW c \in ReadCalls, NEW g \in Nat,
         NEW a, NEW R, NEW T, f \in R, FileOK(f, x, c, g, a, R, T)
  PROVE  FileOK(f, Written(x, g + 1), c, g + 1, a, R, T) /\ Wrote(x, Written(x, g + 1))
<1>0. PICK y : Written(x, g + 1) = y
  OBVIOUS
<1>1. Used(x) \in 0 .. Size - 1 /\ Length \in Nat /\ Size \in Nat /\ Free(x) = Size - Used(x)
      /\ Length >= 1
  BY UsedIs, FreeIs, SizeFacts, SMTT(30)
<1>2. CASE Length >= Free(x)
  <2>1. y = [x EXCEPT !.pwrite = x.pread, !.error = "OVERFLOW"]
    BY <1>0, <1>2 DEF Written
  <2>2. /\ y.ring = x.ring /\ y.pread = x.pread /\ y.todo = x.todo /\ y.error # "none"
        /\ Wrote(x, y)
    BY <2>1 DEF FilterRecs, Wrote, Alike
  <2> QED BY <2>2, <1>0, FileFails
<1>3. CASE Length < Free(x)
  <2>1. Appended(x, g + 1, y)
    BY <1>0, <1>3, WriteAppends, SMTT(30)
  <2>2. /\ y \in FilterRecs /\ Used(y) = Used(x) + Length
        /\ y.pread = x.pread /\ y.error = x.error /\ y.todo = x.todo
        /\ y.state = x.state /\ y.timer = x.timer /\ Alike(x, y)
        /\ \A k \in 0 .. Used(x) - 1 : Cell(y, k) = Cell(x, k)
        /\ \A k \in Used(x) .. Used(x) + Length - 1 :
             Cell(y, k) = [n |-> g + 1, pos |-> k - Used(x) + 1]
    BY <2>1 DEF Appended
  <2>3. /\ Stream(x, a, Used(x)) /\ Ends(x, g, a, Used(x))
        /\ c.pc = "copy" => c.n <= Used(x) /\ c.n < Size
    BY DEF FileOK, RingOK
  <2>4. Stream(y, a, Used(y))
    BY <2>1, <2>3, AppendStream
  <2>5. Ends(y, g + 1, a, Used(y))
    <3>1. /\ Used(y) > 0 /\ Used(y) # 0 /\ Used(y) - 1 \in Used(x) .. Used(x) + Length - 1
          /\ (Used(y) - 1) - Used(x) + 1 = Length
      BY <1>1, <2>2, SMTT(30)
    <3>2. Cell(y, Used(y) - 1) = [n |-> g + 1, pos |-> (Used(y) - 1) - Used(x) + 1]
      BY <3>1, <2>2
    <3> QED BY <3>1, <3>2 DEF Ends
  <2>6. c.pc = "copy" => c.n <= Used(y) /\ Stream(y, a, c.n)
    <3>1. c.n \in Nat
      BY DEF ReadCalls
    <3>2. c.pc = "copy" => c.n <= Used(y) /\ c.n \in 0 .. Used(y) /\ Used(y) \in Nat
      BY <3>1, <2>2, <2>3, <1>1, SMTT(30)
    <3> QED BY <3>2, <2>4, StreamPrefix
  <2>7. RingOK(y, c, g + 1, a)
    BY <2>3, <2>4, <2>5, <2>6 DEF RingOK
  <2>8. CallOK(y, c)
    BY <2>2 DEF FileOK, CallOK
  <2>9. f \notin T => FrameOK(y, c, a)
    BY <2>2 DEF FileOK, FrameOK
  <2>10. FileOK(f, y, c, g + 1, a, R, T)
    BY <2>7, <2>8, <2>9 DEF FileOK
  <2>11. Wrote(x, y)
    BY <2>2 DEF Wrote
  <2> QED BY <2>10, <2>11, <1>0
<1> QED BY <1>1, <1>2, <1>3, SMTT(30)

(***************************************************************************)
(* The steps of read                                                       *)
(***************************************************************************)
LEMMA CallTypes ==
  ASSUME NEW c \in ReadCalls
  PROVE  /\ c.pc \in {"idle", "enter", "loop", "copy"} /\ c.stage \in {"none", "head", "body"}
         /\ c.count \in Nat /\ c.want \in Nat /\ c.todo \in Nat /\ c.n \in Nat
         /\ c.block \in BOOLEAN
BY DEF ReadCalls

LEMMA NoCallFacts ==
  NoCall \in ReadCalls /\ NoCall.pc = "idle"
BY DEF NoCall, ReadCalls

(* The place in the section is known whatever the call is.                 *)
LEMMA RingMoves ==
  ASSUME NEW x, NEW y, y.ring = x.ring, y.pread = x.pread, y.pwrite = x.pwrite,
         y.error = x.error, NEW c, NEW d, d.pc # "copy", NEW g, NEW a, RingOK(x, c, g, a)
  PROVE  RingOK(y, d, g, a)
<1>1. Used(y) = Used(x)
  BY DEF Used
<1> QED BY <1>1, SameStream DEF RingOK, Ends

LEMMA PlaceFacts ==
  ASSUME NEW a \in Cells
  PROVE  /\ a.pos \in 0 .. Length /\ Place(a) \in 0 .. Length - 1
         /\ a.pos # Length => Place(a) = a.pos
         /\ a.pos = Length => Place(a) = 0
<1>1. a.pos \in 0 .. Length /\ Length \in Nat /\ Length >= 1
  BY SizeFacts, SMTT(30) DEF Cells
<1> QED BY <1>1, SMTT(30) DEF Place

(* The call read makes first.                                              *)
FirstCall(todo, count, block) ==
  LET c == [NoCall EXCEPT !.count = count, !.block = block]
  IN  IF todo <= 0 THEN Enter(c, "head", Smaller(Header + todo, count))
      ELSE Enter(c, "body", Smaller(count, todo))

LEMMA FirstCallFacts ==
  ASSUME NEW todo \in 1 - Header .. Length - Header, NEW count \in Nat \ {0},
         NEW block \in BOOLEAN
  PROVE  \E d \in ReadCalls :
           /\ d = FirstCall(todo, count, block) /\ d.pc = "enter" /\ d.todo = d.want
           /\ d.want \in 1 .. d.count
           /\ d.stage = IF todo <= 0 THEN "head" ELSE "body"
           /\ d.want <= IF todo <= 0 THEN Header + todo ELSE todo
<1> DEFINE c == [NoCall EXCEPT !.count = count, !.block = block]
<1>1. c \in ReadCalls /\ c.count = count
  BY DEF NoCall, ReadCalls
<1>2. Header \in Nat /\ Length \in Nat /\ Header < Length
  BY SizeFacts
<1> HIDE DEF c
<1>3. CASE todo <= 0
  <2>1. PICK w : w = Smaller(Header + todo, count)
    OBVIOUS
  <2>2. w \in 1 .. count /\ w <= Header + todo /\ w \in Nat
    BY <2>1, <1>2, <1>3, SMTT(30) DEF Smaller
  <2>3. FirstCall(todo, count, block) = Enter(c, "head", w)
    BY <1>3, <2>1 DEF FirstCall, c
  <2>4. PICK d : d = Enter(c, "head", w)
    OBVIOUS
  <2>5. /\ d \in ReadCalls /\ d.pc = "enter" /\ d.stage = "head" /\ d.want = w
        /\ d.todo = w /\ d.count = count
    BY <1>1, <2>2, <2>4 DEF Enter, ReadCalls
  <2> QED BY <1>3, <2>2, <2>3, <2>4, <2>5
<1>4. CASE todo > 0
  <2>1. PICK w : w = Smaller(count, todo)
    OBVIOUS
  <2>2. w \in 1 .. count /\ w <= todo /\ w \in Nat
    BY <2>1, <1>2, <1>4, SMTT(30) DEF Smaller
  <2>3. FirstCall(todo, count, block) = Enter(c, "body", w)
    BY <1>2, <1>4, <2>1, SMTT(30) DEF FirstCall, c
  <2>4. PICK d : d = Enter(c, "body", w)
    OBVIOUS
  <2>5. /\ d \in ReadCalls /\ d.pc = "enter" /\ d.stage = "body" /\ d.want = w
        /\ d.todo = w /\ d.count = count
    BY <1>1, <2>2, <2>4 DEF Enter, ReadCalls
  <2>6. ~(todo <= 0)
    BY <1>2, <1>4, SMTT(30)
  <2> QED BY <2>2, <2>3, <2>4, <2>5, <2>6
<1> QED BY <1>2, <1>3, <1>4, SMTT(30)

LEMMA FileEnters ==
  ASSUME NEW f, NEW x \in FilterRecs, NEW c, c.pc = "idle", NEW g, NEW a \in Cells,
         NEW R, NEW T, FileOK(f, x, c, g, a, R, T),
         NEW count \in Nat \ {0}, NEW block \in BOOLEAN
  PROVE  /\ FirstCall(x.todo, count, block) \in ReadCalls
         /\ FileOK(f, x, FirstCall(x.todo, count, block), g, a, R, T)
<1>1. x.todo \in 1 - Header .. Length - Header /\ Header \in Nat /\ Length \in Nat
      /\ Header >= 1 /\ Header < Length
  BY RingTypes, SizeFacts
<1>2. PICK d \in ReadCalls :
        /\ d = FirstCall(x.todo, count, block) /\ d.pc = "enter" /\ d.todo = d.want
        /\ d.want \in 1 .. d.count
        /\ d.stage = IF x.todo <= 0 THEN "head" ELSE "body"
        /\ d.want <= IF x.todo <= 0 THEN Header + x.todo ELSE x.todo
  BY <1>1, FirstCallFacts, SMTT(30)
<1>3. d.todo \in 0 .. d.want /\ Copied(d) = 0
  BY <1>2, CallTypes, SMTT(30) DEF Copied
<1>4. CallOK(x, d)
  BY <1>1, <1>2, <1>3, SMTT(30) DEF CallOK
<1>5. f \in R => RingOK(x, d, g, a)
  BY <1>2, RingMoves, SMTT(30) DEF FileOK
<1>6. ASSUME FrameOK(x, c, a)
      PROVE  FrameOK(x, d, a)
  <2>1. x.todo = IF Place(a) = 0 THEN 0
                 ELSE IF Place(a) < Header THEN -Place(a) ELSE Length - Place(a)
    BY <1>6 DEF FrameOK
  <2>2. /\ a.pos \in 0 .. Length /\ Place(a) \in 0 .. Length - 1
        /\ a.pos # Length => Place(a) = a.pos
        /\ a.pos = Length => Place(a) = 0
    BY PlaceFacts
  <2>3. d.stage = "head" => Place(a) = 0 - x.todo
    BY <1>1, <1>2, <2>1, <2>2, SMTT(30)
  <2>4. d.stage = "body" => a.pos = Length - x.todo + 0
    BY <1>1, <1>2, <2>1, <2>2, SMTT(30)
  <2> QED BY <1>2, <1>3, <2>3, <2>4 DEF FrameOK
<1>7. FileOK(f, x, d, g, a, R, T)
  BY <1>2, <1>4, <1>5, <1>6 DEF FileOK
<1> QED BY <1>2, <1>7

(* buffer_read returns n bytes.                                            *)
WholeHeader(x, c, n) == c.stage = "head" /\ x.todo - n <= -Header
TodoAfter(x, c, n) == IF WholeHeader(x, c, n) THEN Length - Header ELSE x.todo - n
CallAfter(x, c, n) ==
  IF WholeHeader(x, c, n) /\ c.count > n
  THEN Enter([c EXCEPT !.count = @ - n], "body", Smaller(c.count - n, Length - Header))
  ELSE NoCall
TodoAt(x, t) == [x EXCEPT !.todo = t]

LEMMA TodoAtFacts ==
  ASSUME NEW x \in FilterRecs, NEW t \in 1 - Header .. Length - Header
  PROVE  /\ TodoAt(x, t) \in FilterRecs /\ TodoAt(x, t).todo = t
         /\ TodoAt(x, t).ring = x.ring /\ TodoAt(x, t).pread = x.pread
         /\ TodoAt(x, t).pwrite = x.pwrite /\ TodoAt(x, t).error = x.error
         /\ TodoAt(x, t).state = x.state /\ TodoAt(x, t).timer = x.timer
         /\ Alike(x, TodoAt(x, t))
BY DEF FilterRecs, TodoAt, Alike

(* The call goes on with the body, or ends.                                *)
LEMMA CallAfterFacts ==
  ASSUME NEW x, NEW c \in ReadCalls, NEW n \in Nat
  PROVE  \E d \in ReadCalls :
           /\ d = CallAfter(x, c, n)
           /\ \/ d.pc = "idle"
              \/ /\ WholeHeader(x, c, n) /\ d.pc = "enter" /\ d.stage = "body"
                 /\ d.todo = d.want /\ d.want \in 1 .. d.count /\ d.want <= Length - Header
<1>1. CASE WholeHeader(x, c, n) /\ c.count > n
  <2>1. PICK b : b = [c EXCEPT !.count = @ - n]
    OBVIOUS
  <2>2. PICK w : w = Smaller(c.count - n, Length - Header)
    OBVIOUS
  <2>3. c.count \in Nat /\ Header \in Nat /\ Length \in Nat /\ Header < Length
    BY CallTypes, SizeFacts
  <2>4. w \in 1 .. c.count - n /\ w <= Length - Header /\ w \in Nat /\ c.count - n \in Nat
    BY <1>1, <2>2, <2>3, SMTT(30) DEF Smaller
  <2>5. b \in ReadCalls /\ b.count = c.count - n
    BY <2>1, <2>4 DEF ReadCalls
  <2>6. PICK d : d = Enter(b, "body", w)
    OBVIOUS
  <2>7. /\ d \in ReadCalls /\ d.pc = "enter" /\ d.stage = "body" /\ d.want = w
        /\ d.todo = w /\ d.count = c.count - n
    BY <2>4, <2>5, <2>6 DEF Enter, ReadCalls
  <2>8. d = CallAfter(x, c, n)
    BY <1>1, <2>1, <2>2, <2>6 DEF CallAfter
  <2> QED BY <1>1, <2>4, <2>7, <2>8
<1>2. CASE ~(WholeHeader(x, c, n) /\ c.count > n)
  BY <1>2, NoCallFacts DEF CallAfter
<1> QED BY <1>1, <1>2

LEMMA FileReturns ==
  ASSUME NEW f, NEW x \in FilterRecs, NEW c \in ReadCalls, c.pc \in {"enter", "loop"},
         NEW g, NEW a \in Cells, NEW R, NEW T, FileOK(f, x, c, g, a, R, T),
         NEW n, n = Copied(c)
  PROVE  /\ CallAfter(x, c, n) \in ReadCalls
         /\ TodoAfter(x, c, n) \in 1 - Header .. Length - Header
         /\ FileOK(f, TodoAt(x, TodoAfter(x, c, n)), CallAfter(x, c, n), g, a, R, T)
<1>1. /\ x.todo \in 1 - Header .. Length - Header /\ Header \in Nat /\ Length \in Nat
      /\ Header >= 1 /\ Header < Length
  BY RingTypes, SizeFacts
<1>2. /\ c.stage \in {"head", "body"} /\ c.want \in 1 .. c.count /\ c.todo \in 0 .. c.want
      /\ c.stage = "head" => x.todo <= 0 /\ c.want <= Header + x.todo
      /\ c.stage = "body" => x.todo > 0 /\ c.want <= x.todo
  BY DEF FileOK, CallOK
<1>3. c.count \in Nat /\ c.want \in Nat /\ c.todo \in Nat /\ n \in 0 .. c.want /\ n = c.want - c.todo
  BY <1>2, CallTypes, SMTT(30) DEF Copied
<1>4. PICK t : t = TodoAfter(x, c, n)
  OBVIOUS
<1>5. PICK w \in BOOLEAN : w <=> WholeHeader(x, c, n)
  OBVIOUS
<1>6. /\ w => c.stage = "head" /\ x.todo - n = -Header /\ t = Length - Header
      /\ ~w => t = x.todo - n /\ (c.stage = "head" => t > -Header)
  BY <1>1, <1>2, <1>3, <1>4, <1>5, SMTT(30) DEF WholeHeader, TodoAfter
<1>7. t \in 1 - Header .. Length - Header
  BY <1>1, <1>2, <1>3, <1>6, SMTT(30)
<1>8. PICK y : y = TodoAt(x, t)
  OBVIOUS
<1>9. /\ y \in FilterRecs /\ y.todo = t /\ y.ring = x.ring /\ y.pread = x.pread
      /\ y.pwrite = x.pwrite /\ y.error = x.error
  BY <1>7, <1>8, TodoAtFacts
<1>10. PICK d \in ReadCalls :
         /\ d = CallAfter(x, c, n)
         /\ \/ d.pc = "idle"
            \/ /\ w /\ d.pc = "enter" /\ d.stage = "body"
               /\ d.todo = d.want /\ d.want \in 1 .. d.count /\ d.want <= Length - Header
  BY <1>3, <1>5, CallAfterFacts, SMTT(30)
<1>11. CallOK(y, d)
  BY <1>1, <1>6, <1>9, <1>10, CallTypes, SMTT(30) DEF CallOK
<1>12. f \in R => RingOK(y, d, g, a)
  BY <1>9, <1>10, RingMoves DEF FileOK
<1>13. ASSUME FrameOK(x, c, a)
       PROVE  FrameOK(y, d, a)
  <2>1. /\ c.stage = "head" => Place(a) = n - x.todo
        /\ c.stage = "body" => a.pos = Length - x.todo + n
    BY <1>3, <1>13 DEF FrameOK, Copied
  <2>2. /\ a.pos \in 0 .. Length /\ Place(a) \in 0 .. Length - 1
        /\ a.pos # Length => Place(a) = a.pos
        /\ a.pos = Length => Place(a) = 0
    BY PlaceFacts
  <2>3. CASE d.pc = "idle"
    <3>1. t = IF Place(a) = 0 THEN 0
              ELSE IF Place(a) < Header THEN -Place(a) ELSE Length - Place(a)
      BY <1>1, <1>2, <1>3, <1>6, <2>1, <2>2, SMTT(30)
    <3> QED BY <2>3, <3>1, <1>9 DEF FrameOK
  <2>4. CASE d.pc # "idle"
    <3>1. w /\ d.stage = "body" /\ Copied(d) = 0
      BY <1>10, <2>4, CallTypes, SMTT(30) DEF Copied
    <3>2. a.pos = Length - t + 0
      BY <1>1, <1>3, <1>6, <2>1, <2>2, <3>1, SMTT(30)
    <3> QED BY <2>4, <3>1, <3>2, <1>9 DEF FrameOK
  <2> QED BY <2>3, <2>4
<1>14. FileOK(f, y, d, g, a, R, T)
  BY <1>9, <1>10, <1>11, <1>12, <1>13 DEF FileOK
<1> QED BY <1>4, <1>7, <1>8, <1>10, <1>14

(* Nothing is there to be read.                                            *)
LEMMA FileEmpty ==
  ASSUME NEW f, NEW x \in FilterRecs, x.pread = x.pwrite, x.error = "none",
         NEW c \in ReadCalls, c.pc \in {"enter", "loop"}, Copied(c) = 0,
         NEW g, NEW a \in Cells, NEW R, NEW T, FileOK(f, x, c, g, a, R, T),
         NEW y \in FilterRecs, y.ring = x.ring, y.pread = x.pread, y.pwrite = x.pwrite,
         y.error = x.error, y.todo = IF c.stage = "head" THEN 0 ELSE x.todo
  PROVE  FileOK(f, y, NoCall, g, a, R, T)
<1>1. /\ x.todo \in 1 - Header .. Length - Header /\ Header \in Nat /\ Length \in Nat
      /\ Header >= 1 /\ Header < Length
  BY RingTypes, SizeFacts
<1>2. CallOK(y, NoCall)
  BY NoCallFacts DEF CallOK
<1>3. f \in R => RingOK(y, NoCall, g, a)
  BY NoCallFacts, RingMoves DEF FileOK
<1>4. Used(x) = 0
  BY RingTypes, UsedIs, SMTT(30) DEF Gap
<1>5. ASSUME f \in R, FrameOK(x, c, a)
      PROVE  FrameOK(y, NoCall, a)
  <2>1. a \in {NoByte, [n |-> g, pos |-> Length]}
    BY <1>4, <1>5 DEF FileOK, RingOK, Ends
  <2>2. a.pos \in {0, Length}
    BY <2>1, SMTT(30) DEF NoByte
  <2>3. Place(a) = 0
    BY <2>2 DEF Place
  <2>4. /\ c.stage = "body" => a.pos = Length - x.todo + 0
        /\ c.stage \in {"head", "body"}
        /\ c.stage = "body" => x.todo > 0
    BY <1>5 DEF FrameOK, FileOK, CallOK
  <2>5. y.todo = 0
    BY <1>1, <2>2, <2>4, SMTT(30)
  <2> QED BY <2>3, <2>5, NoCallFacts DEF FrameOK
<1> QED BY <1>2, <1>3, <1>5, NoCallFacts DEF FileOK

(* The error is read.                                                      *)
LEMMA FileErrorRead ==
  ASSUME NEW f, NEW x \in FilterRecs, NEW c \in ReadCalls, c.pc # "idle",
         NEW g, NEW b, NEW R, NEW T, FileOK(f, x, c, g, b, R, T),
         NEW y \in FilterRecs, y.pread = y.pwrite,
         y.todo = IF c.stage = "head" THEN 0 ELSE x.todo,
         NEW U, U = IF c.stage = "body" THEN T \cup {f} ELSE T
  PROVE  FileOK(f, y, NoCall, g, NoByte, R, U)
<1>1. c.stage \in {"head", "body"}
  BY DEF FileOK, CallOK
<1>2. y.todo = 0 \/ f \in U
  BY <1>1
<1> QED BY <1>2, FileRest, NoCallFacts

(* Into the loop, and to the copy of what is there.                        *)
LEMMA FileLoops ==
  ASSUME NEW f, NEW x \in FilterRecs, NEW c \in ReadCalls, c.pc = "enter",
         NEW g, NEW a, NEW R, NEW T, FileOK(f, x, c, g, a, R, T)
  PROVE  /\ [c EXCEPT !.pc = "loop"] \in ReadCalls
         /\ FileOK(f, x, [c EXCEPT !.pc = "loop"], g, a, R, T)
<1>1. PICK d : d = [c EXCEPT !.pc = "loop"]
  OBVIOUS
<1>2. /\ d \in ReadCalls /\ d.pc = "loop" /\ d.stage = c.stage /\ d.want = c.want
      /\ d.todo = c.todo /\ d.count = c.count
  BY <1>1 DEF ReadCalls
<1>3. CallOK(x, d)
  BY <1>2 DEF FileOK, CallOK
<1>4. f \in R => RingOK(x, d, g, a)
  BY <1>2, RingMoves DEF FileOK
<1>5. FrameOK(x, c, a) => FrameOK(x, d, a)
  BY <1>2 DEF FrameOK, Copied
<1>6. FileOK(f, x, d, g, a, R, T)
  BY <1>2, <1>3, <1>4, <1>5 DEF FileOK
<1> QED BY <1>1, <1>2, <1>6

LEMMA FileCopies ==
  ASSUME NEW f, NEW x \in FilterRecs, x.pread # x.pwrite, x.error = "none",
         NEW c \in ReadCalls, c.pc = "loop", c.todo # 0,
         NEW g, NEW a, NEW R, NEW T, FileOK(f, x, c, g, a, R, T),
         NEW m, m = Smaller(Used(x), c.todo)
  PROVE  /\ [c EXCEPT !.pc = "copy", !.n = m] \in ReadCalls
         /\ FileOK(f, x, [c EXCEPT !.pc = "copy", !.n = m], g, a, R, T)
<1>1. f \in R
  BY DEF FileOK
<1>2. Used(x) \in 1 .. Size - 1 /\ Size \in Nat
  BY RingTypes, UsedIs, SizeFacts, SMTT(30) DEF Gap
<1>3. c.todo \in Nat
  BY CallTypes
<1>4. m \in 1 .. c.todo /\ m \in 0 .. Used(x) /\ m \in Nat /\ m < Size /\ m <= Used(x)
      /\ Used(x) \in Nat
  BY <1>2, <1>3, SMTT(30) DEF Smaller
<1>5. PICK d : d = [c EXCEPT !.pc = "copy", !.n = m]
  OBVIOUS
<1>6. /\ d \in ReadCalls /\ d.pc = "copy" /\ d.stage = c.stage /\ d.want = c.want
      /\ d.todo = c.todo /\ d.count = c.count /\ d.n = m
  BY <1>4, <1>5 DEF ReadCalls
<1>7. CallOK(x, d)
  BY <1>4, <1>6 DEF FileOK, CallOK
<1>8. RingOK(x, d, g, a)
  <2>1. Stream(x, a, Used(x)) /\ Ends(x, g, a, Used(x))
    BY <1>1 DEF FileOK, RingOK
  <2>2. Stream(x, a, m)
    BY <1>4, <2>1, StreamPrefix
  <2> QED BY <1>4, <1>6, <2>1, <2>2 DEF RingOK
<1>9. FrameOK(x, c, a) => FrameOK(x, d, a)
  BY <1>6 DEF FrameOK, Copied
<1>10. FileOK(f, x, d, g, a, R, T)
  BY <1>1, <1>7, <1>8, <1>9 DEF FileOK
<1> QED BY <1>5, <1>6, <1>10

(* The m bytes up to the end of the ring are copied: they follow each      *)
(* other and the last byte read.                                           *)
CopyCall(c, m) ==
  [c EXCEPT !.todo = @ - m, !.n = @ - m, !.pc = IF m = c.n THEN "loop" ELSE "copy"]

LEMMA CopyCallFacts ==
  ASSUME NEW c \in ReadCalls, c.n \in 1 .. c.todo, NEW m \in 1 .. c.n
  PROVE  /\ CopyCall(c, m) \in ReadCalls /\ CopyCall(c, m).stage = c.stage
         /\ CopyCall(c, m).want = c.want /\ CopyCall(c, m).count = c.count
         /\ CopyCall(c, m).todo = c.todo - m /\ CopyCall(c, m).n = c.n - m
         /\ CopyCall(c, m).pc = IF m = c.n THEN "loop" ELSE "copy"
<1>1. c.todo \in Nat /\ c.n \in Nat
  BY CallTypes
<1>2. c.todo - m \in Nat /\ c.n - m \in Nat
  BY <1>1, SMTT(30)
<1> QED BY <1>2 DEF CopyCall, ReadCalls

LEMMA FileCopied ==
  ASSUME NEW f, NEW x \in FilterRecs, NEW c \in ReadCalls, c.pc = "copy",
         NEW g, NEW a \in Cells, NEW R, NEW T, FileOK(f, x, c, g, a, R, T),
         NEW m \in 1 .. c.n, NEW y, Advanced(x, m, y)
  PROVE  FileOK(f, y, CopyCall(c, m), g, Cell(x, m - 1), R, T)
<1>1. f \in R
  BY DEF FileOK
<1>2. /\ c.stage \in {"head", "body"} /\ c.want \in 1 .. c.count /\ c.todo \in 0 .. c.want
      /\ c.stage = "head" => x.todo <= 0 /\ c.want <= Header + x.todo
      /\ c.stage = "body" => x.todo > 0 /\ c.want <= x.todo
      /\ c.n \in 1 .. c.todo
  BY DEF FileOK, CallOK
<1>3. c.count \in Nat /\ c.want \in Nat /\ c.todo \in Nat /\ c.n \in Nat
  BY CallTypes
<1>4. /\ x.error = "none" =>
           Stream(x, a, Used(x)) /\ Ends(x, g, a, Used(x)) /\ c.n <= Used(x)
      /\ Stream(x, a, c.n) /\ c.n < Size
  BY <1>1 DEF FileOK, RingOK
<1>5. Size \in Nat /\ Used(x) \in 0 .. Size - 1 /\ m \in 1 .. Size - 1 /\ c.n \in m .. Size - 1
  BY <1>3, <1>4, UsedIs, SizeFacts, SMTT(30)
<1>6. PICK d, b : d = CopyCall(c, m) /\ b = Cell(x, m - 1)
  OBVIOUS
<1>7. /\ d \in ReadCalls /\ d.stage = c.stage /\ d.want = c.want /\ d.count = c.count
      /\ d.todo = c.todo - m /\ d.n = c.n - m
      /\ d.pc = IF m = c.n THEN "loop" ELSE "copy"
  BY <1>2, <1>6, CopyCallFacts
<1>8. /\ y \in FilterRecs /\ y.error = x.error /\ y.todo = x.todo
      /\ m <= Used(x) => Used(y) = Used(x) - m
      /\ \A k \in 0 .. Size - 1 - m : Cell(y, k) = Cell(x, k + m)
  BY DEF Advanced
<1>9. CallOK(y, d)
  <2>1. d.todo \in 0 .. d.want /\ (d.pc = "copy" => d.n \in 1 .. d.todo)
    BY <1>2, <1>3, <1>5, <1>7, SMTT(30)
  <2>2. d.pc # "enter"
    BY <1>7
  <2> QED BY <1>2, <1>7, <1>8, <2>1, <2>2 DEF CallOK
<1>10. RingOK(y, d, g, b)
  <2>1. Stream(y, b, c.n - m) /\ d.n < Size
    BY <1>3, <1>4, <1>5, <1>6, <1>7, AdvancedStream, SMTT(30)
  <2>2. ASSUME x.error = "none"
        PROVE  Stream(y, b, Used(y)) /\ Ends(y, g, b, Used(y)) /\ d.n <= Used(y)
    <3>1. Used(x) \in m .. Size - 1 /\ Used(y) = Used(x) - m
      BY <1>3, <1>4, <1>5, <1>8, <2>2, SMTT(30)
    <3>2. Stream(y, b, Used(y))
      BY <1>4, <1>5, <1>6, <2>2, <3>1, AdvancedStream
    <3>3. Cell(x, Used(x) - 1) = [n |-> g, pos |-> Length]
      BY <1>4, <1>5, <2>2, <3>1, SMTT(30) DEF Ends
    <3>4. CASE Used(y) = 0
      <4>1. m - 1 = Used(x) - 1
        BY <3>1, <3>4, <1>5, SMTT(30)
      <4>2. b = [n |-> g, pos |-> Length]
        BY <3>3, <4>1, <1>6
      <4> QED BY <3>1, <3>2, <3>4, <4>2, <1>3, <1>4, <1>5, <1>7, <2>2, SMTT(30) DEF Ends
    <3>5. CASE Used(y) # 0
      <4>1. Used(y) - 1 \in 0 .. Size - 1 - m /\ (Used(y) - 1) + m = Used(x) - 1
        BY <3>1, <3>5, <1>5, SMTT(30)
      <4>2. Cell(y, Used(y) - 1) = Cell(x, (Used(y) - 1) + m)
        BY <4>1, <1>8
      <4>3. Cell(y, Used(y) - 1) = [n |-> g, pos |-> Length]
        BY <4>1, <4>2, <3>3
      <4> QED BY <3>1, <3>2, <3>5, <4>3, <1>3, <1>4, <1>5, <1>7, <2>2, SMTT(30) DEF Ends
    <3> QED BY <3>4, <3>5
  <2> QED BY <1>7, <1>8, <2>1, <2>2 DEF RingOK
<1>11. ASSUME FrameOK(x, c, a)
       PROVE  FrameOK(y, d, b)
  <2>1. /\ c.stage = "head" => Place(a) = (c.want - c.todo) - x.todo
        /\ c.stage = "body" => a.pos = Length - x.todo + (c.want - c.todo)
    BY <1>11 DEF FrameOK, Copied
  <2>2. /\ a.pos \in 0 .. Length /\ Place(a) \in 0 .. Length - 1
        /\ a.pos # Length => Place(a) = a.pos
    BY PlaceFacts
  <2>3. /\ x.todo \in 1 - Header .. Length - Header /\ Header \in Nat /\ Length \in Nat
        /\ Header >= 1 /\ Header < Length
    BY RingTypes, SizeFacts
  <2>4. /\ Place(a) + m <= Length /\ (c.stage = "head" => Place(a) + m < Length)
        /\ c.stage = "body" => Place(a) = a.pos
    BY <1>2, <1>3, <2>1, <2>2, <2>3, SMTT(30)
  <2>5. b.pos = Place(a) + m
    BY <1>3, <1>4, <1>5, <1>6, <2>4, StreamPlace, SMTT(30)
  <2>6. c.stage = "head" => Place(b) = Place(a) + m
    BY <2>2, <2>3, <2>4, <2>5, SMTT(30) DEF Place
  <2>7. Copied(d) = (c.want - c.todo) + m
    BY <1>3, <1>7, SMTT(30) DEF Copied
  <2>8. /\ d.stage = "head" => Place(b) = Copied(d) - y.todo
        /\ d.stage = "body" => b.pos = Length - y.todo + Copied(d)
    BY <1>3, <1>7, <1>8, <2>1, <2>2, <2>3, <2>4, <2>5, <2>6, <2>7, SMTT(30)
  <2> QED BY <1>7, <2>8 DEF FrameOK
<1>12. FileOK(f, y, d, g, b, R, T)
  BY <1>1, <1>8, <1>9, <1>10, <1>11 DEF FileOK
<1> QED BY <1>6, <1>12

(***************************************************************************)
(* The actions.  First the facts they all use.                             *)
(***************************************************************************)
LEMMA InvFacts ==
  ASSUME DeviceInv
  PROVE  /\ dmx \in Devices /\ Device(dmx, Running)
         /\ \A f \in Filters : dmx.filter[f] \in FilterRecs
         /\ Running = Acts(dmx) \cup ({call} \ {None}) /\ Running \subseteq Filters
         /\ rd \in [Filters -> ReadCalls] /\ given \in [Filters -> Nat]
         /\ last \in [Filters -> Cells] /\ broken = {} /\ arrived \in Nat
         /\ call \in Filters \cup {None} /\ torn \subseteq Filters /\ load \in Workloads
         /\ \A f \in Filters :
              FileOK(f, dmx.filter[f], rd[f], given[f], last[f], Running, torn)
<1>1. ReadTypes /\ Device(dmx, Running) /\ Reading /\ broken = {}
  BY DEF DeviceInv
<1>2. dmx \in Devices
  BY <1>1 DEF Device
<1>3. \A f \in Filters : dmx.filter[f] \in FilterRecs
  BY <1>2, DevIs
<1>4. Running = Acts(dmx) \cup ({call} \ {None})
  BY DEF Running, Acts
<1>5. Running \subseteq Filters
  BY <1>1, <1>4 DEF ReadTypes, Acts
<1> QED BY <1>1, <1>2, <1>3, <1>4, <1>5 DEF ReadTypes, Reading

LEMMA InvNext ==
  ASSUME ReadTypes', Device(dmx', Running'), Starting', broken' = {},
         \A f \in Filters :
           FileOK(f, dmx'.filter[f], rd'[f], given'[f], last'[f], Running', torn')
  PROVE  DeviceInv'
BY DEF DeviceInv, Reading

LEMMA AgainSame ==
  ASSUME NEW x \in FilterRecs
  PROVE  SameData(x, Again(x)) /\ SameData(x, x)
BY DEF FilterRecs, Again, SameData

(* A system call on filter f: another filter may be in state GO again.     *)
Resets(f) ==
  /\ given' = [given EXCEPT ![f] = 0] /\ last' = [last EXCEPT ![f] = NoByte]
  /\ torn' = torn \ {f}
  /\ UNCHANGED broken

OthersOnly(d, f, r) ==
  \A g \in Filters : g # f => \/ r.filter[g] = d.filter[g]
                              \/ g \in Acts(d) /\ r.filter[g] = Again(d.filter[g])

LEMMA ControlStep ==
  ASSUME DeviceInv, call = None, NEW f \in Filters, rd[f].pc = "idle",
         UNCHANGED <<rd, arrived, load>>, UNCHANGED ghosts \/ Resets(f),
         OthersOnly(dmx, f, dmx'), Acts(dmx') \ {f} = Acts(dmx) \ {f}, call' \in {None, f},
         Device(dmx', Running'), dmx'.filter[f].pread = dmx'.filter[f].pwrite,
         f \in Running' => last'[f] = NoByte /\ dmx'.filter[f].todo = 0,
         call' = f => dmx'.filter[f].state \in {"SET", "TIMEDOUT"}
  PROVE  DeviceInv'
<1>1. /\ dmx \in Devices
      /\ \A g \in Filters : dmx.filter[g] \in FilterRecs
      /\ Running = Acts(dmx) /\ Running \subseteq Filters
      /\ rd \in [Filters -> ReadCalls] /\ given \in [Filters -> Nat]
      /\ last \in [Filters -> Cells] /\ broken = {} /\ arrived \in Nat
      /\ torn \subseteq Filters /\ load \in Workloads
      /\ \A g \in Filters :
           FileOK(g, dmx.filter[g], rd[g], given[g], last[g], Running, torn)
  BY InvFacts
<1>2. Running' = Acts(dmx') \cup ({call'} \ {None})
  BY DEF Running, Acts
<1>3. NoByte \in Cells
  BY SizeFacts, SMTT(30) DEF NoByte, Cells
<1>4. /\ given' \in [Filters -> Nat] /\ last' \in [Filters -> Cells] /\ torn' \subseteq Filters
      /\ broken' = {}
      /\ \A g \in Filters : g # f => /\ given'[g] = given[g] /\ last'[g] = last[g]
                                     /\ g \in torn' <=> g \in torn
  <2>1. CASE UNCHANGED ghosts
    BY <1>1, <2>1 DEF ghosts
  <2>2. CASE Resets(f)
    BY <1>1, <1>3, <2>2 DEF Resets
  <2> QED BY <2>1, <2>2
<1>5. ReadTypes'
  BY <1>1, <1>4 DEF ReadTypes
<1>6. Starting'
  BY SizeFacts DEF Starting
<1>7. ASSUME NEW g \in Filters, g # f
      PROVE  FileOK(g, dmx'.filter[g], rd'[g], given'[g], last'[g], Running', torn')
  <2>1. SameData(dmx.filter[g], dmx'.filter[g])
    BY <1>1, <1>7, AgainSame DEF OthersOnly
  <2>2. g \in Running <=> g \in Running'
    BY <1>1, <1>2, <1>7
  <2>3. /\ given'[g] = given[g] /\ last'[g] = last[g] /\ rd'[g] = rd[g]
        /\ g \in torn <=> g \in torn'
    BY <1>4, <1>7
  <2>4. FileOK(g, dmx.filter[g], rd[g], given[g], last[g], Running, torn)
    BY <1>1
  <2>5. FileOK(g, dmx'.filter[g], rd[g], given[g], last[g], Running', torn')
    BY <2>1, <2>2, <2>3, <2>4, FileSame, SMTT(30)
  <2> QED BY <2>3, <2>5
<1>8. FileOK(f, dmx'.filter[f], rd'[f], given'[f], last'[f], Running', torn')
  <2>1. dmx'.filter[f] \in FilterRecs
    BY DevIs DEF Device
  <2> QED BY <2>1, FileRest
<1>9. \A g \in Filters :
        FileOK(g, dmx'.filter[g], rd'[g], given'[g], last'[g], Running', torn')
  BY <1>7, <1>8
<1> QED BY <1>4, <1>5, <1>6, <1>9, InvNext

(* A filter that does not run has an empty ring, and no timer.             *)
LEMMA NotRunning ==
  ASSUME DeviceInv, NEW f \in Filters, f \notin Running
  PROVE  dmx.filter[f].pread = dmx.filter[f].pwrite /\ ~dmx.filter[f].timer
BY InvFacts DEF FileOK, Device, Owned

(* What dvb_dmxdev_filter_stop leaves of a filter.                         *)
LEMMA LeftFilter ==
  ASSUME WellOrdered, DeviceInv, call = None, NEW f \in Filters, NEW r \in FilterStop(dmx, f)
  PROVE  /\ r \in Devices /\ Device(r, Acts(r)) /\ Acts(r) = Acts(dmx) \ {f}
         /\ OthersOnly(dmx, f, r)
         /\ r.filter[f] \in FilterRecs /\ r.filter[f].pread = r.filter[f].pwrite
         /\ ~r.filter[f].timer
         /\ f \notin Acts(dmx) => r.filter[f].state = dmx.filter[f].state
<1>1. /\ dmx \in Devices /\ Device(dmx, Acts(dmx)) /\ Running = Acts(dmx)
      /\ dmx.filter[f] \in FilterRecs
  BY InvFacts
<1>2. Left(dmx, f, r)
  BY <1>1, StopLeaves
<1>3. /\ Device(r, Acts(r)) /\ Acts(r) = Acts(dmx) \ {f}
      /\ f \in Acts(dmx) => r.filter[f] = Idle(Stopped(dmx.filter[f]))
      /\ f \notin Acts(dmx) => r.filter[f] = dmx.filter[f]
      /\ OthersOnly(dmx, f, r)
  BY <1>2 DEF Left, OthersOnly
<1>4. r \in Devices /\ Owned(r, Acts(r), None)
  BY <1>3 DEF Device
<1>5. r.filter[f].pread = r.filter[f].pwrite
  BY <1>1, <1>3, NotRunning, StoppedFacts, IdleFacts, SMTT(30)
<1>6. ~r.filter[f].timer
  BY <1>3, <1>4 DEF Owned
<1> QED BY <1>3, <1>4, <1>5, <1>6, DevIs

(* A slot that is not in use.                                              *)
Blank(y) ==
  y \in FilterRecs /\ y.state \notin Active /\ y.pread = y.pwrite /\ ~y.timer

LEMMA BlankFilter ==
  /\ NoByte \in Cells /\ NoFilter \in FilterRecs
  /\ NoFilter.state = "FREE" /\ ~NoFilter.timer /\ NoFilter.pread = NoFilter.pwrite
<1>1. NoByte \in Cells
  BY SizeFacts, SMTT(30) DEF NoByte, Cells
<1>2. EmptyRing \in [0 .. Size - 1 -> Cells]
  BY <1>1 DEF EmptyRing
<1>3. 0 \in 1 - Header .. Length - Header /\ 0 \in 0 .. Size - 1
  BY SizeFacts, SMTT(30)
<1> QED BY <1>1, <1>2, <1>3 DEF NoFilter, FilterRecs, Requests

LEMMA BlankSlots ==
  ASSUME NEW t \in 1 - Header .. Length - Header
  PROVE  /\ Blank([NoFilter EXCEPT !.state = "ALLOCATED", !.todo = t])
         /\ Blank([NoFilter EXCEPT !.timer = FALSE, !.todo = t])
<1>1. NoFilter \in FilterRecs /\ NoFilter.state = "FREE" /\ ~NoFilter.timer
      /\ NoFilter.pread = NoFilter.pwrite
  BY BlankFilter
<1> QED BY <1>1 DEF Blank, FilterRecs, Active

(* A filter that does not run is replaced by a blank one.                  *)
LEMMA SetBlank ==
  ASSUME NEW r, Device(r, Acts(r)), NEW f \in Filters, f \notin Acts(r), NEW y, Blank(y),
         NEW d, FilterSet(r, f, y, d)
  PROVE  Device(d, Acts(d)) /\ Acts(d) = Acts(r)
<1>1. /\ d \in Devices /\ d.feed = r.feed /\ d.priv = r.priv /\ d.stuck = r.stuck
      /\ d.lost = r.lost /\ d.filter[f] = y
      /\ \A h \in Filters : h # f => d.filter[h] = r.filter[h]
  BY DEF FilterSet
<1>2. Acts(d) = Acts(r)
  BY <1>1 DEF Acts, Blank
<1>3. Acts(r) \subseteq Filters
  BY DEF Acts
<1>4. \A g \in Acts(r) : Alike(r.filter[g], d.filter[g])
  BY <1>1, <1>3 DEF Alike
<1>5. \A g \in Filters \ Acts(r) : d.filter[g].timer => r.filter[g].timer
  BY <1>1 DEF Blank
<1>6. Device(d, Acts(r))
  BY <1>1, <1>3, <1>4, <1>5, DeviceKeep
<1> QED BY <1>2, <1>6

(* A call that leaves f blank.                                             *)
LEMMA BlankStep ==
  ASSUME DeviceInv, NEW f \in Filters, Calls(f), UNCHANGED <<call, ghosts, load>>,
         NEW r, Device(r, Acts(r)), Acts(r) = Acts(dmx) \ {f}, OthersOnly(dmx, f, r),
         NEW y, Blank(y), FilterSet(r, f, y, dmx')
  PROVE  DeviceInv'
<1>1. Device(dmx', Acts(dmx')) /\ Acts(dmx') = Acts(r)
  BY SetBlank
<1>2. /\ dmx'.filter[f] = y
      /\ \A h \in Filters : h # f => dmx'.filter[h] = r.filter[h]
  BY DEF FilterSet
<1>3. call = None /\ rd[f].pc = "idle" /\ UNCHANGED <<rd, arrived>> /\ call' = None
  BY DEF Calls
<1>4. Running' = Acts(dmx')
  BY <1>3 DEF Running, Acts
<1>5. OthersOnly(dmx, f, dmx')
  BY <1>2 DEF OthersOnly
<1>6. f \notin Running' /\ call' # f /\ dmx'.filter[f].pread = dmx'.filter[f].pwrite
  BY <1>1, <1>2, <1>3, <1>4, SizeFacts DEF Blank
<1>7. Device(dmx', Running') /\ Acts(dmx') \ {f} = Acts(dmx) \ {f}
  BY <1>1, <1>4
<1> QED BY <1>3, <1>5, <1>6, <1>7, ControlStep

LEMMA OpenStep ==
  ASSUME DeviceInv, NEW f \in Filters, Open(f), UNCHANGED load
  PROVE  DeviceInv'
<1>1. PICK t, y : dmx.filter[f].todo = t /\ [NoFilter EXCEPT !.state = "ALLOCATED", !.todo = t] = y
  OBVIOUS
<1>2. /\ Calls(f) /\ dmx.filter[f].state = "FREE" /\ UNCHANGED <<call, ghosts>>
      /\ dmx' = [dmx EXCEPT !.filter[f] = y]
  BY <1>1 DEF Open
<1>3. /\ call = None /\ dmx \in Devices /\ Running = Acts(dmx) /\ Device(dmx, Acts(dmx))
      /\ dmx.filter[f] \in FilterRecs
  BY <1>2, InvFacts DEF Calls
<1>4. Blank(y)
  BY <1>1, <1>3, BlankSlots, RingTypes
<1>5. y \in FilterRecs
  BY <1>4 DEF Blank
<1>6. FilterSet(dmx, f, y, dmx')
  BY <1>2, <1>3, <1>5, FilterSetIs
<1>7. Acts(dmx) = Acts(dmx) \ {f}
  BY <1>2 DEF Acts, Active
<1>8. OthersOnly(dmx, f, dmx)
  BY DEF OthersOnly
<1> QED BY <1>2, <1>3, <1>4, <1>6, <1>7, <1>8, BlankStep

LEMMA CloseStep ==
  ASSUME WellOrdered, DeviceInv, NEW f \in Filters, Close(f), UNCHANGED load
  PROVE  DeviceInv'
<1>1. PICK r \in FilterStop(dmx, f) :
        dmx' = [r EXCEPT !.filter[f] = [NoFilter EXCEPT !.timer = r.filter[f].timer,
                                                        !.todo = r.filter[f].todo]]
  BY DEF Close
<1>2. Calls(f) /\ call = None /\ UNCHANGED <<call, ghosts>>
  BY DEF Close, Calls
<1>3. /\ r \in Devices /\ Device(r, Acts(r)) /\ Acts(r) = Acts(dmx) \ {f}
      /\ OthersOnly(dmx, f, r) /\ r.filter[f] \in FilterRecs /\ ~r.filter[f].timer
  BY <1>1, <1>2, LeftFilter
<1>4. PICK t, y : r.filter[f].todo = t /\ [NoFilter EXCEPT !.timer = FALSE, !.todo = t] = y
  OBVIOUS
<1>5. r.filter[f].timer = FALSE
  BY <1>3 DEF FilterRecs
<1>6. dmx' = [r EXCEPT !.filter[f] = y]
  BY <1>1, <1>4, <1>5
<1>7. Blank(y)
  BY <1>3, <1>4, BlankSlots, RingTypes
<1>8. y \in FilterRecs
  BY <1>7 DEF Blank
<1>9. FilterSet(r, f, y, dmx')
  BY <1>3, <1>6, <1>8, FilterSetIs
<1> QED BY <1>2, <1>3, <1>7, <1>9, BlankStep

LEMMA StopStep ==
  ASSUME WellOrdered, DeviceInv, NEW f \in Filters, Stop(f), UNCHANGED load
  PROVE  DeviceInv'
<1>1. PICK r \in FilterStop(dmx, f) : dmx' = r
  BY DEF Stop
<1>2. /\ call = None /\ rd[f].pc = "idle" /\ UNCHANGED <<call, rd, arrived, ghosts>>
  BY DEF Stop, Calls
<1>3. /\ r \in Devices /\ Device(r, Acts(r)) /\ Acts(r) = Acts(dmx) \ {f}
      /\ OthersOnly(dmx, f, r) /\ r.filter[f].pread = r.filter[f].pwrite
  BY <1>1, <1>2, LeftFilter
<1>4. Running' = Acts(dmx') /\ call' # f
  BY <1>2, SizeFacts DEF Running, Acts
<1>5. /\ Device(dmx', Running') /\ f \notin Running' /\ Acts(dmx') \ {f} = Acts(dmx) \ {f}
      /\ OthersOnly(dmx, f, dmx') /\ dmx'.filter[f].pread = dmx'.filter[f].pwrite
  BY <1>1, <1>3, <1>4
<1> QED BY <1>2, <1>4, <1>5, ControlStep

(* dvb_dmxdev_filter_start on a device whose other filters are as before.  *)
LEMMA StartedStep ==
  ASSUME WellOrdered, DeviceInv, NEW f \in Filters, Calls(f), UNCHANGED load,
         NEW d, Device(d, Acts(d)),
         d.filter[f].state \in Active \cup {"SET"}, OthersOnly(dmx, f, d),
         Acts(d) \ {f} = Acts(dmx) \ {f}, Started(d, f)
  PROVE  DeviceInv'
<1>1. PICK o \in FilterStart(d, f) : dmx' = o.d /\ call' = IF o.ok THEN f ELSE None
  BY DEF Started
<1>2. Resets(f)
  BY DEF Started, Resets
<1>3. call = None /\ rd[f].pc = "idle" /\ UNCHANGED <<rd, arrived>>
  BY DEF Calls
<1>0. StartEnds(d, f, o)
  BY <1>1, FilterStartOutcome
<1>4. /\ Acts(dmx') = Acts(d) \ {f} /\ o.ok \in BOOLEAN
      /\ o.ok => Device(dmx', Acts(dmx') \cup {f}) /\ dmx'.filter[f].todo = 0
      /\ ~o.ok => Device(dmx', Acts(dmx'))
      /\ AtRest(dmx'.filter[f])
      /\ \A g \in Filters : g # f => \/ dmx'.filter[g] = d.filter[g]
                                     \/ g \in Acts(d) /\ dmx'.filter[g] = Again(d.filter[g])
  BY <1>0, <1>1 DEF StartEnds
<1>5. Running' = Acts(dmx') \cup ({call'} \ {None})
  BY DEF Running, Acts
<1>6. /\ Device(dmx', Running') /\ call' \in {None, f}
      /\ f \in Running' => dmx'.filter[f].todo = 0
  BY <1>1, <1>4, <1>5, SizeFacts
<1>7. dmx'.filter[f].pread = dmx'.filter[f].pwrite /\ dmx'.filter[f].state = "SET"
  BY <1>4 DEF AtRest
<1>8. OthersOnly(dmx, f, dmx')
  <2> SUFFICES ASSUME NEW g \in Filters, g # f
               PROVE  \/ dmx'.filter[g] = dmx.filter[g]
                      \/ g \in Acts(dmx) /\ dmx'.filter[g] = Again(dmx.filter[g])
    BY DEF OthersOnly
  <2>1. g \in Acts(d) <=> g \in Acts(dmx)
    OBVIOUS
  <2>2. \/ d.filter[g] = dmx.filter[g]
        \/ g \in Acts(dmx) /\ d.filter[g] = Again(dmx.filter[g])
    BY DEF OthersOnly
  <2>3. dmx.filter[g] \in FilterRecs
    BY InvFacts
  <2>4. Again(Again(dmx.filter[g])) = Again(dmx.filter[g])
    BY <2>3 DEF Again, FilterRecs
  <2> QED BY <1>4, <2>1, <2>2, <2>4
<1>9. last'[f] = NoByte
  BY <1>2, InvFacts DEF Resets
<1>10. Acts(dmx') \ {f} = Acts(dmx) \ {f}
  BY <1>4
<1> QED BY <1>2, <1>3, <1>6, <1>7, <1>8, <1>9, <1>10, ControlStep

LEMMA StartStep ==
  ASSUME WellOrdered, DeviceInv, NEW f \in Filters, Start(f), UNCHANGED load
  PROVE  DeviceInv'
<1>1. /\ Calls(f) /\ call = None /\ dmx.filter[f].state \in Active \cup {"SET"}
      /\ Started(dmx, f)
  BY DEF Start, Calls
<1>2. Device(dmx, Acts(dmx))
  BY <1>1, InvFacts
<1>3. OthersOnly(dmx, f, dmx)
  BY DEF OthersOnly
<1> QED BY <1>1, <1>2, <1>3, StartedStep

LEMMA SetFilterStep ==
  ASSUME WellOrdered, DeviceInv, NEW f \in Filters, NEW par \in Params, NEW immediate \in BOOLEAN,
         SetFilter(f, par, immediate), UNCHANGED load
  PROVE  DeviceInv'
<1> DEFINE Set(r) == [r EXCEPT !.filter[f].par = par, !.filter[f].state = "SET"]
<1>0. PICK r \in FilterStop(dmx, f) :
        /\ immediate => Started(Set(r), f)
        /\ ~immediate => dmx' = Set(r) /\ UNCHANGED <<call, ghosts>>
  BY DEF SetFilter
<1>1. PICK d : /\ d = [r EXCEPT !.filter[f].par = par, !.filter[f].state = "SET"]
               /\ immediate => Started(d, f)
               /\ ~immediate => dmx' = d /\ UNCHANGED <<call, ghosts>>
  BY <1>0
<1> HIDE DEF Set
<1>2. Calls(f) /\ call = None
  BY DEF SetFilter, Calls
<1>3. /\ r \in Devices /\ Device(r, Acts(r)) /\ Acts(r) = Acts(dmx) \ {f}
      /\ OthersOnly(dmx, f, r) /\ r.filter[f] \in FilterRecs
      /\ r.filter[f].pread = r.filter[f].pwrite /\ ~r.filter[f].timer
  BY <1>2, LeftFilter
<1>4. PICK y : [r.filter[f] EXCEPT !.par = par, !.state = "SET"] = y
  OBVIOUS
<1>5. d = [r EXCEPT !.filter[f] = y]
  BY <1>1, <1>3, <1>4 DEF Devices
<1>6. Blank(y) /\ y \in FilterRecs /\ y.state = "SET"
  BY <1>3, <1>4 DEF Blank, FilterRecs, Requests, Active
<1>7. FilterSet(r, f, y, d)
  BY <1>3, <1>5, <1>6, FilterSetIs
<1>8. CASE ~immediate
  BY <1>1, <1>2, <1>3, <1>6, <1>7, <1>8, BlankStep
<1>9. CASE immediate
  <2>1. Device(d, Acts(d)) /\ Acts(d) = Acts(r)
    BY <1>3, <1>6, <1>7, SetBlank
  <2>2. OthersOnly(dmx, f, d) /\ d.filter[f].state = "SET"
    BY <1>3, <1>6, <1>7 DEF FilterSet, OthersOnly
  <2>3. Acts(d) \ {f} = Acts(dmx) \ {f}
    BY <1>3, <2>1
  <2> QED BY <1>1, <1>2, <1>9, <2>1, <2>2, <2>3, StartedStep
<1> QED BY <1>8, <1>9

(***************************************************************************)
(* The other actions change one filter, which keeps its place on its feed. *)
(***************************************************************************)
OnlyAt(f, new, old) ==
  \A g \in Filters : g # f => new[g] = old[g]

LEMMA DataStep ==
  ASSUME DeviceInv, NEW f \in Filters, NEW y, FilterSet(dmx, f, y, dmx'),
         Alike(dmx.filter[f], y), y.timer => f \in Running,
         call' = call \/ (call = f /\ call' = None),
         f \in Running <=> y.state \in Active \/ call' = f,
         call' = f => y.state \in {"SET", "TIMEDOUT"} /\ rd'[f].pc = "idle",
         rd' \in [Filters -> ReadCalls], OnlyAt(f, rd', rd),
         given' \in [Filters -> Nat], OnlyAt(f, given', given),
         last' \in [Filters -> Cells], OnlyAt(f, last', last),
         torn' \in {torn, torn \cup {f}}, broken' = broken, arrived' \in Nat, UNCHANGED load,
         FileOK(f, y, rd'[f], given'[f], last'[f], Running, torn')
  PROVE  DeviceInv'
<1>1. /\ dmx \in Devices /\ Device(dmx, Running)
      /\ \A g \in Filters : dmx.filter[g] \in FilterRecs
      /\ Running = Acts(dmx) \cup ({call} \ {None}) /\ Running \subseteq Filters
      /\ broken = {} /\ call \in Filters \cup {None} /\ torn \subseteq Filters
      /\ load \in Workloads
      /\ \A g \in Filters :
           FileOK(g, dmx.filter[g], rd[g], given[g], last[g], Running, torn)
  BY InvFacts
<1>2. /\ dmx' \in Devices /\ dmx'.feed = dmx.feed /\ dmx'.priv = dmx.priv
      /\ dmx'.stuck = dmx.stuck /\ dmx'.lost = dmx.lost /\ dmx'.filter[f] = y
      /\ \A g \in Filters : g # f => dmx'.filter[g] = dmx.filter[g]
  BY DEF FilterSet
<1>3. Running' = Acts(dmx') \cup ({call'} \ {None})
  BY DEF Running, Acts
<1>4. \A g \in Filters : g # f => (g \in Acts(dmx') <=> g \in Acts(dmx))
  BY <1>2 DEF Acts
<1>5. f \in Acts(dmx') <=> y.state \in Active
  BY <1>2 DEF Acts
<1>6. Running' = Running
  <2>1. Running' \subseteq Filters
    BY <1>1, <1>3, SizeFacts DEF Acts
  <2>2. f \in Running' <=> f \in Running
    BY <1>3, <1>5, SizeFacts
  <2>3. \A g \in Filters : g # f => (g \in Running' <=> g \in Running)
    BY <1>1, <1>3, <1>4, SizeFacts
  <2> QED BY <1>1, <2>1, <2>2, <2>3
<1>7. Device(dmx', Running)
  <2>1. \A g \in Running : Alike(dmx.filter[g], dmx'.filter[g])
    BY <1>1, <1>2 DEF Alike
  <2>2. \A g \in Filters \ Running : dmx'.filter[g].timer => dmx.filter[g].timer
    BY <1>2
  <2> QED BY <1>1, <1>2, <2>1, <2>2, DeviceKeep
<1>8. Starting'
  <2>1. Starting
    BY DEF DeviceInv
  <2>2. CASE call' = f
    BY <1>2, <2>2 DEF Starting
  <2>3. CASE call' # f /\ call' # None
    BY <1>1, <1>2, <2>1, <2>3 DEF Starting, OnlyAt
  <2> QED BY <2>2, <2>3 DEF Starting
<1>9. ReadTypes'
  BY <1>1 DEF ReadTypes
<1>10. ASSUME NEW g \in Filters, g # f
       PROVE  FileOK(g, dmx'.filter[g], rd'[g], given'[g], last'[g], Running, torn')
  <2>1. /\ dmx'.filter[g] = dmx.filter[g] /\ rd'[g] = rd[g] /\ given'[g] = given[g]
        /\ last'[g] = last[g]
        /\ g \in torn <=> g \in torn'
    BY <1>2, <1>10 DEF OnlyAt
  <2>2. FileOK(g, dmx.filter[g], rd[g], given[g], last[g], Running, torn)
    BY <1>1
  <2>3. SameData(dmx.filter[g], dmx.filter[g])
    BY <1>1, AgainSame
  <2>4. FileOK(g, dmx.filter[g], rd[g], given[g], last[g], Running, torn')
    BY <2>1, <2>2, <2>3, FileSame, SMTT(30)
  <2> QED BY <2>1, <2>4
<1>11. \A g \in Filters :
         FileOK(g, dmx'.filter[g], rd'[g], given'[g], last'[g], Running', torn')
  BY <1>2, <1>6, <1>10
<1> QED BY <1>1, <1>6, <1>7, <1>8, <1>9, <1>11, InvNext

LEMMA StateOf ==
  ASSUME DeviceInv, NEW f \in Filters
  PROVE  /\ f \in Running <=> dmx.filter[f].state \in Active \/ call = f
         /\ dmx.filter[f].timer => f \in Running
         /\ call = f => dmx.filter[f].state \in {"SET", "TIMEDOUT"} /\ rd[f].pc = "idle"
<1>1. f \in Running <=> dmx.filter[f].state \in Active \/ call = f
  BY SizeFacts DEF Running
<1>2. call = f => dmx.filter[f].state \in {"SET", "TIMEDOUT"} /\ rd[f].pc = "idle"
  BY SizeFacts DEF DeviceInv, Starting
<1>3. dmx.filter[f].timer => f \in Running
  BY InvFacts DEF Device, Owned
<1> QED BY <1>1, <1>2, <1>3

LEMMA SetGoStep ==
  ASSUME DeviceInv, SetGo, UNCHANGED load
  PROVE  DeviceInv'
<1>1. PICK f \in Filters : call = f
  BY InvFacts DEF SetGo
<1>2. /\ dmx' = [dmx EXCEPT !.filter[f].state = "GO"] /\ call' = None
      /\ UNCHANGED <<rd, arrived, given, last, broken, torn>>
  BY <1>1 DEF SetGo, ghosts
<1>3. PICK x, y : dmx.filter[f] = x /\ Again(dmx.filter[f]) = y
  OBVIOUS
<1>4. x \in FilterRecs /\ FilterSet(dmx, f, y, dmx')
  BY <1>2, <1>3, AgainIs, InvFacts
<1>5. Alike(x, y) /\ y.state = "GO" /\ SameData(x, y)
  BY <1>3, <1>4, AgainFacts, AgainSame
<1>6. f \in Running /\ call' # f
  BY <1>1, <1>2, StateOf, SizeFacts
<1>7. FileOK(f, x, rd[f], given[f], last[f], Running, torn)
  BY <1>3, InvFacts
<1>8. FileOK(f, y, rd'[f], given'[f], last'[f], Running, torn')
  BY <1>2, <1>5, <1>7, FileSame
<1>9. /\ rd' \in [Filters -> ReadCalls] /\ given' \in [Filters -> Nat]
      /\ last' \in [Filters -> Cells] /\ arrived' \in Nat
      /\ OnlyAt(f, rd', rd) /\ OnlyAt(f, given', given) /\ OnlyAt(f, last', last)
  BY <1>2, InvFacts DEF OnlyAt
<1>10. y.state \in Active
  BY <1>5 DEF Active
<1> QED BY <1>1, <1>2, <1>3, <1>4, <1>5, <1>6, <1>8, <1>9, <1>10, DataStep

LEMMA TimeoutStep ==
  ASSUME DeviceInv, NEW f \in Filters, Timeout(f), UNCHANGED load
  PROVE  DeviceInv'
<1>1. PICK x, y : /\ dmx.filter[f] = x
                  /\ [x EXCEPT !.timer = FALSE, !.error = "TIMEDOUT", !.state = "TIMEDOUT"] = y
  OBVIOUS
<1>2. x \in FilterRecs /\ dmx \in Devices
  BY <1>1, InvFacts
<1>3. /\ dmx' = [dmx EXCEPT !.filter[f] = y] /\ x.timer /\ call' = call
      /\ UNCHANGED <<rd, arrived, given, last, broken, torn>>
  BY <1>1, <1>2 DEF Timeout, ghosts, Devices
<1>4. /\ y \in FilterRecs /\ y.state = "TIMEDOUT" /\ y.error # "none" /\ ~y.timer
      /\ y.ring = x.ring /\ y.pread = x.pread /\ y.todo = x.todo /\ Alike(x, y)
  BY <1>1, <1>2 DEF FilterRecs, Active, Alike
<1>5. FilterSet(dmx, f, y, dmx')
  BY <1>2, <1>3, <1>4, FilterSetIs
<1>6. f \in Running /\ (call' = f => rd[f].pc = "idle")
  BY <1>1, <1>3, StateOf
<1>7. FileOK(f, x, rd[f], given[f], last[f], Running, torn)
  BY <1>1, InvFacts
<1>8. FileOK(f, y, rd[f], given[f], last[f], Running, torn)
  BY <1>4, <1>6, <1>7, FileFails
<1>9. /\ rd' \in [Filters -> ReadCalls] /\ given' \in [Filters -> Nat]
      /\ last' \in [Filters -> Cells] /\ arrived' \in Nat
      /\ OnlyAt(f, rd', rd) /\ OnlyAt(f, given', given) /\ OnlyAt(f, last', last)
  BY <1>3, InvFacts DEF OnlyAt
<1>10. y.state \in Active
  BY <1>4 DEF Active
<1> QED BY <1>1, <1>3, <1>4, <1>5, <1>6, <1>8, <1>9, <1>10, DataStep

(* A step that changes no filter.                                          *)
LEMMA FilterSetSame ==
  ASSUME NEW d \in Devices, NEW f \in Filters
  PROVE  FilterSet(d, f, d.filter[f], d) /\ Alike(d.filter[f], d.filter[f])
BY DEF FilterSet, Alike

LEMMA SectionStep ==
  ASSUME DeviceInv, NEW e \in Feeds, NEW s \in Entries, Section(e, s), UNCHANGED load
  PROVE  DeviceInv'
<1>0. PICK f : dmx.priv[s] = f
  OBVIOUS
<1>1. /\ dmx \in Devices /\ Lists(dmx) /\ arrived \in Nat /\ given \in [Filters -> Nat]
      /\ rd \in [Filters -> ReadCalls] /\ last \in [Filters -> Cells]
  BY InvFacts DEF Device
<1>2. f \in Filters
  <2>1. dmx.feed[e].list \in Seq(Entries) /\ dmx.priv[s] \in Filters \cup {None}
    BY <1>1, DevIs DEF FeedRecs
  <2>2. PICK i \in DOMAIN dmx.feed[e].list : dmx.feed[e].list[i] = s
    BY DEF Section
  <2>3. i \in 1 .. Len(dmx.feed[e].list)
    BY <2>1, <2>2, SMTT(30)
  <2> QED BY <1>0, <1>1, <2>1, <2>2, <2>3 DEF Lists
<1>3. PICK x, z, g : /\ dmx.filter[f] = x /\ given[f] = g /\ [x EXCEPT !.timer = FALSE] = z
  OBVIOUS
<1>4. x \in FilterRecs /\ g \in Nat /\ FileOK(f, x, rd[f], g, last[f], Running, torn)
  BY <1>2, <1>3, InvFacts
<1>5. /\ UNCHANGED <<call, rd, last, broken, torn>> /\ arrived' = arrived + 1
      /\ given' = IF x.state = "GO" THEN [given EXCEPT ![f] = @ + 1] ELSE given
      /\ x.error # "none" \/ x.state # "GO" => dmx' = dmx
      /\ ~(x.error # "none" \/ x.state # "GO") =>
           dmx' = [dmx EXCEPT !.filter[f] =
                     [Written(z, g + 1) EXCEPT !.state = IF x.par.oneshot THEN "DONE" ELSE @]]
  BY <1>0, <1>3 DEF Section
<1>6. /\ rd' \in [Filters -> ReadCalls] /\ last' \in [Filters -> Cells]
      /\ arrived' \in Nat /\ given' \in [Filters -> Nat]
      /\ OnlyAt(f, rd', rd) /\ OnlyAt(f, given', given) /\ OnlyAt(f, last', last)
      /\ x.state = "GO" => given'[f] = g + 1
      /\ x.state # "GO" => given'[f] = g
  BY <1>1, <1>2, <1>3, <1>5, SMTT(30) DEF OnlyAt
<1>7. /\ f \in Running <=> x.state \in Active \/ call = f
      /\ x.timer => f \in Running
      /\ call = f => x.state \in {"SET", "TIMEDOUT"} /\ rd[f].pc = "idle"
  BY <1>2, <1>3, StateOf
<1>8. x.state = "GO" => f \in Running /\ call # f
  BY <1>7 DEF Active
<1>9. CASE x.error # "none" \/ x.state # "GO"
  <2>1. FilterSet(dmx, f, x, dmx') /\ Alike(x, x)
    BY <1>1, <1>2, <1>3, <1>5, <1>9, FilterSetSame, SMTT(30)
  <2>2. FileOK(f, x, rd[f], given'[f], last[f], Running, torn)
    <3>1. CASE x.state = "GO"
      BY <1>4, <1>8, <1>9, <3>1, FileFails
    <3>2. CASE x.state # "GO"
      BY <1>4, <1>6, <3>2
    <3> QED BY <3>1, <3>2
  <2> QED BY <1>2, <1>3, <1>5, <1>6, <1>7, <2>1, <2>2, DataStep
<1>10. CASE x.error = "none" /\ x.state = "GO"
  <2>1. /\ z \in FilterRecs /\ z.error = "none" /\ z.state = "GO" /\ ~z.timer /\ Alike(x, z)
        /\ SameData(x, z) /\ z.par = x.par
    BY <1>3, <1>4, <1>10 DEF FilterRecs, Alike, SameData
  <2>2. FileOK(f, z, rd[f], g, last[f], Running, torn)
    BY <1>4, <2>1, FileSame
  <2>3. PICK w, y : /\ Written(z, g + 1) = w
                    /\ [w EXCEPT !.state = IF x.par.oneshot THEN "DONE" ELSE @] = y
    OBVIOUS
  <2>4. FileOK(f, w, rd[f], g + 1, last[f], Running, torn) /\ Wrote(z, w)
    <3>1. rd[f] \in ReadCalls
      BY <1>1, <1>2
    <3> QED BY <3>1, <1>4, <1>8, <1>10, <2>1, <2>2, <2>3, FileWritten
  <2>5. w \in FilterRecs /\ w.state = "GO" /\ ~w.timer /\ Alike(z, w)
    BY <2>1, <2>4 DEF Wrote
  <2>6. y \in FilterRecs /\ y.state \in {"GO", "DONE"} /\ ~y.timer /\ Alike(w, y) /\ SameData(w, y)
    BY <2>3, <2>5, SMTT(30) DEF FilterRecs, Active, Alike, SameData
  <2>7. FileOK(f, y, rd[f], g + 1, last[f], Running, torn)
    BY <2>4, <2>6, FileSame
  <2>8. dmx' = [dmx EXCEPT !.filter[f] = y]
    BY <1>5, <1>10, <2>3
  <2>9. FilterSet(dmx, f, y, dmx')
    BY <1>1, <1>2, <2>6, <2>8, FilterSetIs
  <2>10. Alike(x, y) /\ y.state \in Active
    BY <2>1, <2>5, <2>6 DEF Alike, Active
  <2> QED BY <1>2, <1>3, <1>5, <1>6, <1>8, <1>10, <2>6, <2>7, <2>9, <2>10, DataStep
<1> QED BY <1>9, <1>10

(***************************************************************************)
(* read                                                                    *)
(***************************************************************************)
LEMMA ReadStep ==
  ASSUME DeviceInv, NEW f \in Filters, call # f, UNCHANGED <<call, arrived, given, broken, load>>,
         NEW y, FilterSet(dmx, f, y, dmx'), Alike(dmx.filter[f], y),
         y.state = dmx.filter[f].state, y.timer = dmx.filter[f].timer,
         NEW c \in ReadCalls, rd' = [rd EXCEPT ![f] = c],
         NEW a \in Cells, last' = [last EXCEPT ![f] = a], torn' \in {torn, torn \cup {f}},
         FileOK(f, y, c, given[f], a, Running, torn')
  PROVE  DeviceInv'
<1>1. /\ rd \in [Filters -> ReadCalls] /\ given \in [Filters -> Nat]
      /\ last \in [Filters -> Cells] /\ arrived \in Nat
  BY InvFacts
<1>2. /\ rd' \in [Filters -> ReadCalls] /\ OnlyAt(f, rd', rd) /\ rd'[f] = c
      /\ last' \in [Filters -> Cells] /\ OnlyAt(f, last', last) /\ last'[f] = a
      /\ given' \in [Filters -> Nat] /\ OnlyAt(f, given', given) /\ arrived' \in Nat
  BY <1>1 DEF OnlyAt
<1>3. /\ f \in Running <=> y.state \in Active \/ call' = f
      /\ y.timer => f \in Running
      /\ call' # f
  BY StateOf
<1> QED BY <1>2, <1>3, DataStep

LEMMA SameLast ==
  ASSUME DeviceInv, NEW f \in Filters
  PROVE  last = [last EXCEPT ![f] = last[f]] /\ last[f] \in Cells
BY InvFacts

(* What a read call that has begun knows.                                  *)
LEMMA InCall ==
  ASSUME DeviceInv, NEW f \in Filters, rd[f].pc # "idle"
  PROVE  /\ dmx \in Devices /\ dmx.filter[f] \in FilterRecs /\ rd[f] \in ReadCalls /\ call # f
         /\ last = [last EXCEPT ![f] = last[f]] /\ last[f] \in Cells
         /\ FileOK(f, dmx.filter[f], rd[f], given[f], last[f], Running, torn)
         /\ Copied(rd[f]) \in Nat
         /\ rd[f].pc = "enter" => Copied(rd[f]) = 0
         /\ rd[f].todo = 0 => Copied(rd[f]) = rd[f].want
<1>1. /\ dmx \in Devices /\ dmx.filter[f] \in FilterRecs /\ rd[f] \in ReadCalls /\ call # f
      /\ FileOK(f, dmx.filter[f], rd[f], given[f], last[f], Running, torn)
  BY InvFacts, StateOf
<1>2. PICK c : rd[f] = c
  OBVIOUS
<1>3. c.want \in Nat /\ c.todo \in 0 .. c.want /\ (c.pc = "enter" => c.todo = c.want)
  BY <1>1, <1>2, CallTypes DEF FileOK, CallOK
<1>4. /\ Copied(c) \in Nat
      /\ c.pc = "enter" => Copied(c) = 0
      /\ c.todo = 0 => Copied(c) = c.want
  BY <1>3, SMTT(30) DEF Copied
<1> QED BY <1>1, <1>2, <1>4, SameLast

LEMMA ReadsStep ==
  ASSUME DeviceInv, NEW f \in Filters, NEW count \in Counts, NEW block \in BOOLEAN,
         Read(f, count, block), UNCHANGED load
  PROVE  DeviceInv'
<1>1. PICK x, c : dmx.filter[f] = x /\ FirstCall(x.todo, count, block) = c
  OBVIOUS
<1>2. /\ rd[f].pc = "idle" /\ call # f /\ dmx' = dmx
      /\ UNCHANGED <<call, arrived, given, last, broken, torn>>
  BY DEF Read, ghosts
<1>3. rd' = [rd EXCEPT ![f] = c]
  BY <1>1 DEF Read, FirstCall
<1>4. /\ dmx \in Devices /\ x \in FilterRecs
      /\ FileOK(f, x, rd[f], given[f], last[f], Running, torn)
      /\ last = [last EXCEPT ![f] = last[f]] /\ last[f] \in Cells
  BY <1>1, InvFacts, SameLast, SMTT(30)
<1>5. count \in Nat \ {0}
  BY DmxdevAssumption, SMTT(30)
<1>6. c \in ReadCalls /\ FileOK(f, x, c, given[f], last[f], Running, torn)
  BY <1>1, <1>2, <1>4, <1>5, FileEnters
<1>7. FilterSet(dmx, f, x, dmx') /\ Alike(x, x)
  BY <1>1, <1>2, <1>4, FilterSetSame
<1> QED BY <1>1, <1>2, <1>3, <1>4, <1>6, <1>7, ReadStep

LEMMA TodoIs ==
  ASSUME NEW d \in Devices, NEW f \in Filters, NEW t \in 1 - Header .. Length - Header
  PROVE  FilterSet(d, f, TodoAt(d.filter[f], t), [d EXCEPT !.filter[f].todo = t])
<1>1. d.filter[f] \in FilterRecs
  BY DevIs
<1>2. TodoAt(d.filter[f], t) \in FilterRecs
  BY <1>1, TodoAtFacts
<1>3. [d EXCEPT !.filter[f].todo = t] = [d EXCEPT !.filter[f] = TodoAt(d.filter[f], t)]
  BY DEF Devices, TodoAt
<1> QED BY <1>2, <1>3, FilterSetIs

LEMMA ReturnsStep ==
  ASSUME DeviceInv, NEW f \in Filters, rd[f].pc \in {"enter", "loop"}, NEW n, n = Copied(rd[f]),
         Returns(f, n), UNCHANGED load
  PROVE  DeviceInv'
<1>1. PICK x, c : dmx.filter[f] = x /\ rd[f] = c
  OBVIOUS
<1>2. /\ dmx \in Devices /\ x \in FilterRecs /\ c \in ReadCalls /\ call # f
      /\ last = [last EXCEPT ![f] = last[f]] /\ last[f] \in Cells
      /\ FileOK(f, x, c, given[f], last[f], Running, torn)
  BY <1>1, InCall
<1>3. PICK t, b, y : TodoAfter(x, c, n) = t /\ CallAfter(x, c, n) = b /\ TodoAt(x, t) = y
  OBVIOUS
<1>4. /\ b \in ReadCalls /\ t \in 1 - Header .. Length - Header
      /\ FileOK(f, y, b, given[f], last[f], Running, torn)
  BY <1>1, <1>2, <1>3, FileReturns
<1>5. /\ dmx' = [dmx EXCEPT !.filter[f].todo = t] /\ rd' = [rd EXCEPT ![f] = b]
      /\ UNCHANGED <<call, arrived, ghosts>>
  BY <1>1, <1>3 DEF Returns, SetTodo, TodoAfter, CallAfter, WholeHeader
<1>6. FilterSet(dmx, f, y, dmx')
  BY <1>1, <1>2, <1>3, <1>4, <1>5, TodoIs
<1>7. Alike(x, y) /\ y.state = x.state /\ y.timer = x.timer
  BY <1>2, <1>3, <1>4, TodoAtFacts
<1>8. UNCHANGED <<call, arrived, given, last, broken, torn>>
  BY <1>5 DEF ghosts
<1> QED BY <1>1, <1>2, <1>4, <1>5, <1>6, <1>7, <1>8, ReadStep

LEMMA ErrorStep ==
  ASSUME DeviceInv, NEW f \in Filters, rd[f].pc # "idle", ReturnsError(f), UNCHANGED load
  PROVE  DeviceInv'
<1>1. PICK x, c : dmx.filter[f] = x /\ rd[f] = c
  OBVIOUS
<1>2. /\ dmx \in Devices /\ x \in FilterRecs /\ c \in ReadCalls /\ call # f
      /\ FileOK(f, x, c, given[f], last[f], Running, torn)
  BY <1>1, InCall
<1>3. PICK y : y = [x EXCEPT !.pwrite = x.pread, !.error = "none",
                             !.todo = IF c.stage = "head" THEN 0 ELSE @]
  OBVIOUS
<1>4. /\ dmx' = [dmx EXCEPT !.filter[f] = y]
      /\ rd' = [rd EXCEPT ![f] = NoCall]
      /\ last' = [last EXCEPT ![f] = NoByte]
      /\ torn' = IF c.stage = "body" THEN torn \cup {f} ELSE torn
      /\ UNCHANGED <<call, arrived, given, broken>>
  BY <1>1, <1>3 DEF ReturnsError
<1>5. 0 \in 1 - Header .. Length - Header
  BY SizeFacts, SMTT(30)
<1>6. /\ y \in FilterRecs /\ y.pread = y.pwrite /\ Alike(x, y) /\ y.state = x.state
      /\ y.timer = x.timer
      /\ y.todo = IF c.stage = "head" THEN 0 ELSE x.todo
  BY <1>2, <1>3, <1>5 DEF FilterRecs, Alike
<1>7. FilterSet(dmx, f, y, dmx')
  BY <1>2, <1>4, <1>6, FilterSetIs
<1>8. FileOK(f, y, NoCall, given[f], NoByte, Running, torn')
  BY <1>1, <1>2, <1>4, <1>6, FileErrorRead
<1>9. NoCall \in ReadCalls /\ NoByte \in Cells
  BY NoCallFacts, BlankFilter
<1> QED BY <1>1, <1>2, <1>4, <1>6, <1>7, <1>8, <1>9, ReadStep

LEMMA EmptyStep ==
  ASSUME DeviceInv, NEW f \in Filters, rd[f].pc \in {"enter", "loop"}, Copied(rd[f]) = 0,
         Empty(dmx.filter[f]), ReturnsEmpty(f), UNCHANGED load
  PROVE  DeviceInv'
<1>1. PICK x, c : dmx.filter[f] = x /\ rd[f] = c
  OBVIOUS
<1>2. /\ dmx \in Devices /\ x \in FilterRecs /\ c \in ReadCalls /\ call # f
      /\ last = [last EXCEPT ![f] = last[f]] /\ last[f] \in Cells
      /\ FileOK(f, x, c, given[f], last[f], Running, torn)
  BY <1>1, InCall
<1>3. /\ dmx' = IF c.stage = "head" THEN [dmx EXCEPT !.filter[f].todo = 0] ELSE dmx
      /\ rd' = [rd EXCEPT ![f] = NoCall]
      /\ UNCHANGED <<call, arrived, given, last, broken, torn>>
  BY <1>1 DEF ReturnsEmpty, SetTodo, ghosts
<1>4. 0 \in 1 - Header .. Length - Header
  BY SizeFacts, SMTT(30)
<1>5. PICK y : y = IF c.stage = "head" THEN TodoAt(x, 0) ELSE x
  OBVIOUS
<1>6. FilterSet(dmx, f, y, dmx')
  BY <1>1, <1>2, <1>3, <1>4, <1>5, TodoIs, FilterSetSame
<1>7. /\ y \in FilterRecs /\ y.ring = x.ring /\ y.pread = x.pread /\ y.pwrite = x.pwrite
      /\ y.error = x.error /\ y.state = x.state /\ y.timer = x.timer /\ Alike(x, y)
      /\ y.todo = IF c.stage = "head" THEN 0 ELSE x.todo
  BY <1>2, <1>4, <1>5, TodoAtFacts, SMTT(30) DEF Alike
<1>8. x.pread = x.pwrite
  BY <1>1 DEF Empty
<1>9. FileOK(f, y, NoCall, given[f], last[f], Running, torn)
  <2>1. CASE x.error = "none"
    BY <1>1, <1>2, <1>7, <1>8, <2>1, FileEmpty
  <2>2. CASE x.error # "none"
    BY <1>7, <1>8, <2>2, NoCallFacts DEF FileOK, CallOK, RingOK
  <2> QED BY <2>1, <2>2
<1>10. NoCall \in ReadCalls
  BY NoCallFacts
<1> QED BY <1>1, <1>2, <1>3, <1>6, <1>7, <1>9, <1>10, ReadStep

(* The call goes on, and nothing else happens.                             *)
LEMMA GoesOnStep ==
  ASSUME DeviceInv, NEW f \in Filters, rd[f].pc # "idle",
         NEW c \in ReadCalls, rd' = [rd EXCEPT ![f] = c],
         UNCHANGED <<dmx, call, arrived, ghosts, load>>,
         FileOK(f, dmx.filter[f], c, given[f], last[f], Running, torn)
  PROVE  DeviceInv'
<1>1. /\ dmx \in Devices /\ dmx.filter[f] \in FilterRecs /\ call # f
      /\ last = [last EXCEPT ![f] = last[f]] /\ last[f] \in Cells
  BY InCall
<1>2. FilterSet(dmx, f, dmx.filter[f], dmx') /\ Alike(dmx.filter[f], dmx.filter[f])
  BY <1>1, FilterSetSame
<1>3. UNCHANGED <<call, arrived, given, last, broken, torn>>
  BY DEF ghosts
<1> QED BY <1>1, <1>2, <1>3, ReadStep

LEMMA ReadEnterStep ==
  ASSUME DeviceInv, NEW f \in Filters, ReadEnter(f), UNCHANGED load
  PROVE  DeviceInv'
<1>1. PICK x, c : dmx.filter[f] = x /\ rd[f] = c
  OBVIOUS
<1>2. rd[f].pc = "enter"
  BY DEF ReadEnter
<1>3. /\ x \in FilterRecs /\ c \in ReadCalls /\ rd \in [Filters -> ReadCalls]
      /\ FileOK(f, x, c, given[f], last[f], Running, torn) /\ Copied(rd[f]) = 0
  BY <1>1, <1>2, InCall, InvFacts
<1>4. CASE Returns(f, 0)
  BY <1>2, <1>3, <1>4, ReturnsStep
<1>5. CASE ReturnsError(f)
  BY <1>2, <1>5, ErrorStep
<1>6. CASE Empty(x) /\ ReturnsEmpty(f)
  BY <1>1, <1>2, <1>3, <1>6, EmptyStep
<1>7. CASE rd' = [rd EXCEPT ![f].pc = "loop"] /\ UNCHANGED <<dmx, call, arrived, ghosts>>
  <2>1. PICK b : b = [c EXCEPT !.pc = "loop"]
    OBVIOUS
  <2>2. rd' = [rd EXCEPT ![f] = b]
    BY <1>1, <1>7, <2>1
  <2>3. b \in ReadCalls /\ FileOK(f, x, b, given[f], last[f], Running, torn)
    BY <1>1, <1>2, <1>3, <2>1, FileLoops
  <2> QED BY <1>1, <1>2, <1>7, <2>2, <2>3, GoesOnStep
<1> QED BY <1>1, <1>4, <1>5, <1>6, <1>7 DEF ReadEnter

LEMMA ReadLoopStep ==
  ASSUME DeviceInv, NEW f \in Filters, ReadLoop(f), UNCHANGED load
  PROVE  DeviceInv'
<1>1. PICK x, c : dmx.filter[f] = x /\ rd[f] = c
  OBVIOUS
<1>2. rd[f].pc = "loop" /\ c.pc = "loop"
  BY <1>1 DEF ReadLoop
<1>3. /\ x \in FilterRecs /\ c \in ReadCalls /\ rd \in [Filters -> ReadCalls]
      /\ FileOK(f, x, c, given[f], last[f], Running, torn) /\ Copied(c) \in Nat
      /\ c.todo = 0 => Copied(c) = c.want
  BY <1>1, <1>2, InCall, InvFacts
<1>4. CASE c.todo = 0 /\ Returns(f, c.want)
  BY <1>1, <1>2, <1>3, <1>4, ReturnsStep
<1>5. CASE Returns(f, Copied(c))
  BY <1>1, <1>2, <1>5, ReturnsStep
<1>6. CASE Empty(x) /\ ~(Copied(c) > 0) /\ ReturnsEmpty(f)
  <2>1. Copied(c) = 0
    BY <1>3, <1>6, SMTT(30)
  <2> QED BY <1>1, <1>2, <1>6, <2>1, EmptyStep
<1>7. CASE ReturnsError(f)
  BY <1>2, <1>7, ErrorStep
<1>8. CASE /\ c.todo # 0 /\ ~Empty(x) /\ x.error = "none"
           /\ rd' = [rd EXCEPT ![f].pc = "copy", ![f].n = Smaller(Used(x), c.todo)]
           /\ UNCHANGED <<dmx, call, arrived, ghosts>>
  <2>1. PICK m, b : Smaller(Used(x), c.todo) = m /\ b = [c EXCEPT !.pc = "copy", !.n = m]
    OBVIOUS
  <2>2. rd' = [rd EXCEPT ![f] = b]
    BY <1>1, <1>3, <1>8, <2>1
  <2>3. b \in ReadCalls /\ FileOK(f, x, b, given[f], last[f], Running, torn)
    BY <1>1, <1>2, <1>3, <1>8, <2>1, FileCopies DEF Empty
  <2> QED BY <1>1, <1>2, <1>8, <2>2, <2>3, GoesOnStep
<1>9. \/ c.todo = 0 /\ Returns(f, c.want)
      \/ Returns(f, Copied(c))
      \/ Empty(x) /\ ~(Copied(c) > 0) /\ ReturnsEmpty(f)
      \/ ReturnsError(f)
      \/ /\ c.todo # 0 /\ ~Empty(x) /\ x.error = "none"
         /\ rd' = [rd EXCEPT ![f].pc = "copy", ![f].n = Smaller(Used(x), c.todo)]
         /\ UNCHANGED <<dmx, call, arrived, ghosts>>
  BY <1>1 DEF ReadLoop, Used
<1> QED BY <1>4, <1>5, <1>6, <1>7, <1>8, <1>9

LEMMA ReadSignalStep ==
  ASSUME DeviceInv, NEW f \in Filters, ReadSignal(f), UNCHANGED load
  PROVE  DeviceInv'
BY ReturnsStep DEF ReadSignal

LEMMA ReadCopyStep ==
  ASSUME DeviceInv, NEW f \in Filters, ReadCopy(f), UNCHANGED load
  PROVE  DeviceInv'
<1>1. PICK x, c, a : dmx.filter[f] = x /\ rd[f] = c /\ last[f] = a
  OBVIOUS
<1>2. PICK m : Smaller(c.n, Size - x.pread) = m
  OBVIOUS
<1> DEFINE bytes == [k \in 1 .. m |-> x.ring[x.pread + k - 1]]
<1>3. /\ rd[f].pc = "copy" /\ c.pc = "copy"
      /\ dmx' = [dmx EXCEPT !.filter[f].pread = (@ + m) % Size]
      /\ rd' = [rd EXCEPT ![f].todo = @ - m, ![f].n = @ - m,
                          ![f].pc = IF m = c.n THEN "loop" ELSE "copy"]
      /\ last' = [last EXCEPT ![f] = bytes[m]]
      /\ broken' = IF \A k \in 1 .. m : Follows(bytes[k], IF k = 1 THEN a ELSE bytes[k - 1])
                   THEN broken ELSE broken \cup {f}
      /\ UNCHANGED <<call, arrived, given, torn>>
  BY <1>1, <1>2 DEF ReadCopy
<1>4. /\ dmx \in Devices /\ x \in FilterRecs /\ c \in ReadCalls /\ call # f
      /\ a \in Cells /\ FileOK(f, x, c, given[f], a, Running, torn)
      /\ rd \in [Filters -> ReadCalls]
  BY <1>1, <1>3, InCall, InvFacts
<1>5. /\ c.n \in 1 .. c.todo /\ Stream(x, a, c.n) /\ c.n < Size
  BY <1>3, <1>4 DEF FileOK, CallOK, RingOK
<1>6. c.todo \in Nat /\ c.n \in Nat /\ x.pread \in 0 .. Size - 1 /\ Size \in Nat
  BY <1>4, CallTypes, RingTypes, SizeFacts
<1>7. m \in 1 .. c.n /\ m \in 1 .. Size - 1 /\ x.pread + m <= Size
  BY <1>2, <1>5, <1>6, SMTT(30) DEF Smaller
<1>8. ASSUME NEW k \in 1 .. m
      PROVE  bytes[k] = Cell(x, k - 1) /\ k - 1 \in 0 .. c.n - 1 /\ Cell(x, k - 1) \in Cells
  <2>1. k - 1 \in 0 .. Size - 1 /\ k - 1 \in 0 .. c.n - 1 /\ x.pread + (k - 1) < Size
        /\ x.pread + (k - 1) = x.pread + k - 1
    BY <1>6, <1>7, SMTT(30)
  <2>2. At(x.pread, k - 1) = x.pread + k - 1
    BY <2>1 DEF At
  <2> QED BY <1>4, <2>1, <2>2, CellIs
<1>9. ASSUME NEW k \in 1 .. m
      PROVE  Follows(bytes[k], IF k = 1 THEN a ELSE bytes[k - 1])
  <2>1. PICK j : j = k - 1
    OBVIOUS
  <2>2. j \in 0 .. c.n - 1 /\ bytes[k] = Cell(x, j)
    BY <1>8, <2>1
  <2>3. Follows(Cell(x, j), IF j = 0 THEN a ELSE Cell(x, j - 1))
    BY <1>5, <2>2 DEF Stream
  <2>4. CASE k = 1
    <3>1. j = 0
      BY <2>1, <2>4, SMTT(30)
    <3> QED BY <2>2, <2>3, <2>4, <3>1
  <2>5. CASE k # 1
    <3>1. j # 0 /\ j \in 1 .. m
      BY <1>6, <1>7, <2>1, <2>5, SMTT(30)
    <3>2. bytes[j] = Cell(x, j - 1)
      BY <1>8, <3>1
    <3>3. bytes[k - 1] = Cell(x, j - 1)
      BY <2>1, <3>2
    <3> QED BY <2>2, <2>3, <2>5, <3>1, <3>3
  <2> QED BY <2>4, <2>5
<1>10. broken' = broken
  BY <1>3, <1>9
<1>11. m \in 1 .. m
  BY <1>6, <1>7, SMTT(30)
<1>12. bytes[m] = Cell(x, m - 1) /\ Cell(x, m - 1) \in Cells
  BY <1>8, <1>11
<1> HIDE DEF bytes
<1>13. last' = [last EXCEPT ![f] = Cell(x, m - 1)]
  BY <1>3, <1>12
<1>14. PICK y, b : [x EXCEPT !.pread = (@ + m) % Size] = y /\ CopyCall(c, m) = b
  OBVIOUS
<1>15. Advanced(x, m, y)
  BY <1>4, <1>7, <1>14, ReadAdvances
<1>16. y \in FilterRecs /\ y.state = x.state /\ y.timer = x.timer /\ Alike(x, y)
  BY <1>15 DEF Advanced
<1>17. dmx' = [dmx EXCEPT !.filter[f] = y]
  BY <1>1, <1>3, <1>4, <1>14 DEF Devices
<1>18. FilterSet(dmx, f, y, dmx')
  BY <1>4, <1>16, <1>17, FilterSetIs
<1>19. b \in ReadCalls
  BY <1>4, <1>5, <1>7, <1>14, CopyCallFacts
<1>20. rd' = [rd EXCEPT ![f] = b]
  BY <1>1, <1>3, <1>4, <1>14 DEF CopyCall, ReadCalls
<1>21. FileOK(f, y, b, given[f], Cell(x, m - 1), Running, torn)
  BY <1>3, <1>4, <1>7, <1>14, <1>15, FileCopied
<1> QED BY <1>1, <1>3, <1>4, <1>10, <1>12, <1>13, <1>16, <1>18, <1>19, <1>20, <1>21,
           ReadStep

(***************************************************************************)
(* The invariant is inductive                                              *)
(***************************************************************************)
LEMMA DeviceInit == Init => DeviceInv
<1> SUFFICES ASSUME Init PROVE DeviceInv
  OBVIOUS
<1>1. /\ \A f \in Filters : dmx.filter[f] = NoFilter /\ rd[f] = NoCall /\ last[f] = NoByte
      /\ \A e \in Feeds : dmx.feed[e] = NoFeed
      /\ \A s \in Entries : dmx.priv[s] = None
  BY DEF Init
<1>2. call = None /\ load \in Workloads /\ arrived = 0 /\ broken = {} /\ torn = {}
  BY DEF Init
<1>3. NoFeed \in FeedRecs /\ NoFeed.state = "FREE" /\ NoFeed.list = <<>>
  BY SMTT(30) DEF NoFeed, FeedRecs
<1>4. dmx \in Devices
  BY <1>3, BlankFilter DEF Init, Devices
<1>5. Acts(dmx) = {}
  BY <1>1, BlankFilter DEF Acts, Active
<1>6. Running = {}
  BY <1>2, <1>5 DEF Running, Acts
<1>7. Lists(dmx)
  <2>1. \A e \in Feeds : 1 .. Len(dmx.feed[e].list) = {}
    BY <1>1, <1>3, SMTT(30)
  <2> QED BY <2>1 DEF Lists
<1>8. Owned(dmx, {}, None)
  BY <1>1, <1>3, BlankFilter DEF Owned
<1>9. Device(dmx, Running)
  BY <1>4, <1>6, <1>7, <1>8 DEF Device, Serves, Goes
<1>10. ReadTypes
  <2>1. rd \in [Filters -> ReadCalls]
    BY NoCallFacts DEF Init
  <2>2. given \in [Filters -> Nat] /\ last \in [Filters -> Cells]
    BY BlankFilter DEF Init
  <2> QED BY <1>2, <2>1, <2>2 DEF ReadTypes
<1>11. Reading
  <2> SUFFICES ASSUME NEW f \in Filters
               PROVE  FileOK(f, dmx.filter[f], rd[f], given[f], last[f], Running, torn)
    BY DEF Reading
  <2>1. rd[f].pc = "idle"
    BY <1>1, NoCallFacts
  <2> QED BY <1>1, <1>6, <2>1, BlankFilter, FileRest
<1>12. Starting
  BY <1>2 DEF Starting
<1> QED BY <1>2, <1>9, <1>10, <1>11, <1>12 DEF DeviceInv

LEMMA DeviceNext ==
  ASSUME WellOrdered, DeviceInv, [Next]_vars
  PROVE  DeviceInv'
<1>1. /\ load \in Workloads /\ load.users \subseteq Filters /\ load.readers \subseteq Filters
  BY InvFacts, DmxdevAssumption, SMTT(30) DEF Filters
<1>2. ASSUME UNCHANGED load, NEW f \in Filters, Control(f)
      PROVE  DeviceInv'
  <2>1. CASE \E par \in Params, immediate \in BOOLEAN : SetFilter(f, par, immediate)
    BY <1>2, <2>1, SetFilterStep
  <2> QED BY <1>2, <2>1, OpenStep, StartStep, StopStep, CloseStep DEF Control
<1>3. ASSUME UNCHANGED load, NEW f \in Filters, Reads(f)
      PROVE  DeviceInv'
  <2>1. CASE \E count \in Counts, block \in BOOLEAN : Read(f, count, block)
    BY <1>3, <2>1, ReadsStep
  <2> QED
    BY <1>3, <2>1, ReadEnterStep, ReadLoopStep, ReadSignalStep, ReadCopyStep DEF Reads
<1>4. ASSUME UNCHANGED load, Interrupt
      PROVE  DeviceInv'
  BY <1>4, SectionStep, TimeoutStep DEF Interrupt
<1>5. CASE Next
  BY <1>1, <1>2, <1>3, <1>4, <1>5, SetGoStep DEF Next
<1>6. CASE UNCHANGED vars
  <2>1. UNCHANGED <<dmx, call, rd, load, arrived, given, last, broken, torn>>
    BY <1>6 DEF vars, ghosts
  <2>2. Running' = Running
    BY <2>1 DEF Running
  <2> QED BY <2>1, <2>2 DEF DeviceInv, ReadTypes, Starting, Reading
<1> QED BY <1>5, <1>6, SMTT(30)

=============================================================================
