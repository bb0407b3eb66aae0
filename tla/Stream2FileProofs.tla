------------------------- MODULE Stream2FileProofs --------------------------
(***************************************************************************)
(* Proofs about Stream2File: the inductive invariant, what the threads do  *)
(* to their own state, the types, what the main thread and the threads do  *)
(* to the recordings, the theorems about the invariants, and that in       *)
(* transport stream mode it implements Recorder, which is all that         *)
(* RecordControl knows of it.  Everything holds for any number of pids,    *)
(* any sizes of the ring, of a read and of a file, and any number of       *)
(* recordings and bytes.                                                   *)
(***************************************************************************)
EXTENDS Stream2File, TLAPS

USE ZenonT(30)


(***************************************************************************)
(* The inductive invariant                                                 *)
(***************************************************************************)
Flags == {"IDLE", "RUNNING"} \cup Failures
Bytes == 0 .. 255
MainPcs == {"idle", "load", "store", "sleep", "claimed", "setup", "create", "release",
            "created", "failed", "stop"}
Mains == [pc : MainPcs, tmp : Bytes, add : {-1, 0, 1}, then : MainPcs, next : Nat]
DmxPcs == {"gone", "start", "sync", "syncpoll", "first", "vector", "space", "read",
           "poll", "close", "join", "load", "store"}
Dmxs == [pc : DmxPcs, todo : Nat, tmp : Bytes, of : Nat, received : Nat]
FilePcs == {"gone", "loop", "empty", "open", "write", "done", "failed"}
FileStates == [pc : FilePcs, readsize : Nat, left : Nat, remfile : Nat, late : Nat,
               sizes : Seq(Nat)]

ThreadTypes ==
  dmx \in [Threads -> Dmxs] /\ file \in [Threads -> FileStates] /\ ring \in [Threads -> Nat]

MainTypes ==
  /\ write_ts \in BOOLEAN
  /\ exit_flag \in Flags /\ busy_count \in Bytes
  /\ myfilename \in [of : Nat, cut : BOOLEAN]
  /\ demuxfd \subseteq Pids /\ demuxfd_count \in 0 .. NumPids
  /\ record_start_time \in BOOLEAN
  /\ main \in Mains
  /\ starts \in Nat

Types == MainTypes /\ ThreadTypes

(* A FileThread: its files are full but the last, which has remfile bytes  *)
(* left when the vector in hand has been written.                          *)
Split(f) ==
  /\ f.sizes = <<>> => f.remfile = 0
  /\ f.sizes # <<>> =>
       f.sizes[Len(f.sizes)] + f.remfile =
         SplitSize + (IF f.left > 0 THEN f.readsize - f.left ELSE 0)
  /\ \A i \in 1 .. Len(f.sizes) - 1 : f.sizes[i] = SplitSize
  /\ f.remfile <= SplitSize
  /\ f.left > 0 => f.left <= f.readsize /\ f.readsize <= f.remfile

(* The vector it holds is the oldest part of what is in the ring.          *)
Vectors(f, r) ==
  /\ f.pc # "gone" /\ f.late <= r
  /\ f.pc = "write" => f.left > 0 /\ f.left <= r - f.late
  /\ f.pc \in {"loop", "empty", "open", "done"} => f.left = 0
  /\ f.pc = "open" => f.remfile = 0 /\ f.late < r
  /\ f.pc \in {"empty", "done"} => f.late = r

(* The bytes in files                                                      *)
Filed(f) == IF f.sizes = <<>> THEN 0
            ELSE (Len(f.sizes) - 1) * SplitSize + f.sizes[Len(f.sizes)]

(* A DMXThread and its FileThread: between the creation of the FileThread  *)
(* and its join no byte is lost.                                           *)
Idling == {"gone", "start", "load", "store"}
Flow(d, f, r) ==
  /\ d.pc \in Idling => f.pc \in {"gone", "done", "failed"}
  /\ d.pc \notin Idling => Vectors(f, r) /\ d.received = Filed(f) + r
  /\ d.pc \in {"sync", "syncpoll", "first"} => r = 0 /\ f.sizes = <<>>
  /\ d.pc = "start" => d.received = 0

(* What a DMXThread still wants fits into the ring, once it has looked.    *)
Room(d, r, running) ==
  /\ r < RingSize
  /\ d.pc \in {"vector", "space", "read", "poll"} => d.todo \in 1 .. InSize
  /\ d.pc = "poll" \/ (d.pc = "read" /\ running) => d.todo <= RingSize - 1 - r
  /\ d.pc \in {"close", "join", "load", "store"} => ~running

ThreadOK(d, f, r, running) == Split(f) /\ Flow(d, f, r) /\ Room(d, r, running)
ThreadsOK == \A t \in Threads : ThreadOK(dmx[t], file[t], ring[t], Running)

(* The main thread is in busy_count++ or busy_count--, to go on at p.      *)
Counting(m, p) == m.pc \in {"load", "store"} /\ m.then = p

(* It has decided to start a recording and has not begun it.               *)
Claiming(m) == m.pc \in {"claimed", "setup"} \/ Counting(m, "claimed")

MainOK ==
  /\ starts <= MaxStarts[write_ts] /\ myfilename.of = starts
  /\ main.pc \in {"sleep", "claimed"} \/ Counting(main, "claimed") =>
       starts < MaxStarts[write_ts]
  /\ main.pc \in {"setup", "create"} \/ Counting(main, "create") => starts > 0
  /\ main.pc \in {"load", "store"} =>
       \/ main.add = 1 /\ main.then \in {"claimed", "create", "release"}
       \/ main.add = -1 /\ main.then \in {"idle", "failed", "created"}
  /\ Claiming(main) => \A t \in Threads : ~Live(t)

(* Single pids: there is one recording, and its threads are created in     *)
(* turn.                                                                   *)
PidsOK ==
  ~write_ts =>
    /\ ~Live(Dvr)
    /\ starts = 0 => \A t \in Threads : ~Live(t)
    /\ main.pc = "create" \/ Counting(main, "create") =>
         main.next < NumPids /\ \A t \in Pids : main.next <= t => ~Live(t)

(* Transport stream: one thread, counted by busy_count.                    *)
Preparing(m) ==
  \/ m.pc \in {"claimed", "setup", "create"}
  \/ m.pc \in {"load", "store"} /\ m.add = -1
Begun(m) == m.pc \in {"create", "failed"} \/ Counting(m, "failed")
One(b) == IF b THEN 1 ELSE 0
StreamOK ==
  write_ts =>
    /\ \A t \in Pids : ~Live(t)
    /\ busy_count = One(Live(Dvr)) + One(Preparing(main))
    /\ Claiming(main) \/ Preparing(main) \/ Begun(main) => ~Live(Dvr)
    /\ main.pc = "store" => main.tmp = busy_count
    /\ dmx[Dvr].pc = "store" => dmx[Dvr].tmp = busy_count
    /\ main.pc # "release"
    /\ main.pc \in {"load", "store"} => main.then \in {"claimed", "idle", "failed"}
    /\ Live(Dvr) => dmx[Dvr].of = starts
    /\ Live(Dvr) => starts > 0
    /\ demuxfd \subseteq 0 .. demuxfd_count - 1
    /\ demuxfd # {} => (Live(Dvr) /\ dmx[Dvr].pc \notin {"load", "store"}) \/ Begun(main)

RecorderInv == Types /\ ThreadsOK /\ MainOK /\ PidsOK /\ StreamOK

-----------------------------------------------------------------------------
(***************************************************************************)
(* Constants and arithmetic                                                *)
(***************************************************************************)
LEMMA SizeFacts ==
  /\ NumPids \in Nat /\ NumPids > 0
  /\ RingSize \in Nat /\ InSize \in Nat /\ TsSize \in Nat /\ SplitSize \in Nat
  /\ 0 < TsSize /\ TsSize < InSize /\ InSize < RingSize /\ 0 < SplitSize
BY SizesAssumption, SMTT(30)

LEMMA BoundFacts ==
  ASSUME write_ts \in BOOLEAN
  PROVE  /\ MaxStarts[write_ts] \in Nat
         /\ ~write_ts => MaxStarts[write_ts] <= 1
<1>1. MaxStarts \in [BOOLEAN -> Nat]
  BY SizesAssumption
<1>2. CASE write_ts
  BY <1>1, <1>2
<1>3. CASE ~write_ts
  <2>1. write_ts = FALSE
    BY <1>3
  <2> QED BY <1>1, <2>1, SizesAssumption
<1> QED BY <1>2, <1>3

LEMMA ThreadFacts ==
  /\ Dvr \in Threads /\ Dvr \notin Pids
  /\ \A t \in Threads : t \in Pids \/ t = Dvr
  /\ \A t \in Pids : t \in Nat /\ t < NumPids
  /\ 0 \in Pids
BY SizeFacts, SMTT(30) DEF Threads, Pids, Dvr

(* busy_count is an unsigned char and counts exactly as far as it goes.    *)
LEMMA CountedFacts ==
  /\ \A n \in Int : Counted(n) \in Bytes
  /\ Counted(0) = 0 /\ Counted(1) = 1
BY SMTT(30) DEF Counted, Bytes

LEMMA OneMore ==
  ASSUME NEW n \in Nat, NEW s \in Nat
  PROVE  (n + 1) * s = n * s + s /\ n * s \in Nat
BY SMTT(30)

(***************************************************************************)
(* The states of the threads                                               *)
(***************************************************************************)
LEMMA DmxIs ==
  ASSUME NEW p \in DmxPcs, NEW of \in Nat, NEW todo \in Nat, NEW received \in Nat
  PROVE  /\ Dmx(p, of, todo, received) \in Dmxs
         /\ Dmx(p, of, todo, received).pc = p
         /\ Dmx(p, of, todo, received).of = of
         /\ Dmx(p, of, todo, received).todo = todo
         /\ Dmx(p, of, todo, received).received = received
BY SMTT(30) DEF Dmx, Dmxs, Bytes

LEMMA FileIs ==
  ASSUME NEW p \in FilePcs, NEW n \in Nat, NEW remfile \in Nat, NEW sizes \in Seq(Nat)
  PROVE  LET f == File(p, n, remfile, sizes)
         IN  /\ f \in FileStates
             /\ f.pc = p /\ f.readsize = n /\ f.left = n /\ f.remfile = remfile
             /\ f.late = 0 /\ f.sizes = sizes
BY DEF File, FileStates

LEMMA NoThreadIs ==
  /\ NoDmx \in Dmxs /\ NoDmx.pc = "gone"
  /\ NoFile \in FileStates /\ Split(NoFile) /\ NoFile.pc = "gone"
<1>1. <<>> \in Seq(Nat)
  BY SMTT(30)
<1>2. NoDmx \in Dmxs /\ NoDmx.pc = "gone"
  BY DmxIs, SMTT(30) DEF NoDmx, DmxPcs
<1>3. /\ NoFile \in FileStates /\ NoFile.pc = "gone" /\ NoFile.sizes = <<>>
      /\ NoFile.remfile = 0 /\ NoFile.left = 0
  BY <1>1 DEF NoFile, File, FileStates, FilePcs
<1> QED BY <1>2, <1>3, SizeFacts, SMTT(30) DEF Split

(* Nobody but start_recording sets the flag to RUNNING.                    *)
LEMMA FlagFalls ==
  ASSUME NEW d, NEW f, NEW r, NEW a \in BOOLEAN, NEW b \in BOOLEAN, b => a,
         ThreadOK(d, f, r, a)
  PROVE  ThreadOK(d, f, r, b)
BY DEF ThreadOK, Room

LEMMA DmxGoto ==
  ASSUME NEW d \in Dmxs, NEW p \in DmxPcs
  PROVE  /\ [d EXCEPT !.pc = p] \in Dmxs
         /\ [d EXCEPT !.pc = p].pc = p
         /\ [d EXCEPT !.pc = p].todo = d.todo
         /\ [d EXCEPT !.pc = p].tmp = d.tmp
         /\ [d EXCEPT !.pc = p].of = d.of
         /\ [d EXCEPT !.pc = p].received = d.received
BY DEF Dmxs

LEMMA FileGoto ==
  ASSUME NEW f \in FileStates, NEW p \in FilePcs
  PROVE  /\ [f EXCEPT !.pc = p] \in FileStates
         /\ [f EXCEPT !.pc = p].pc = p
         /\ [f EXCEPT !.pc = p].readsize = f.readsize
         /\ [f EXCEPT !.pc = p].left = f.left
         /\ [f EXCEPT !.pc = p].remfile = f.remfile
         /\ [f EXCEPT !.pc = p].late = f.late
         /\ [f EXCEPT !.pc = p].sizes = f.sizes
BY DEF FileStates

LEMMA FileLate ==
  ASSUME NEW f \in FileStates, NEW n \in Nat
  PROVE  /\ [f EXCEPT !.late = n] \in FileStates
         /\ [f EXCEPT !.late = n].pc = f.pc
         /\ [f EXCEPT !.late = n].readsize = f.readsize
         /\ [f EXCEPT !.late = n].left = f.left
         /\ [f EXCEPT !.late = n].remfile = f.remfile
         /\ [f EXCEPT !.late = n].late = n
         /\ [f EXCEPT !.late = n].sizes = f.sizes
BY DEF FileStates

-----------------------------------------------------------------------------
(***************************************************************************)
(* What each step does to one DMXThread d with its FileThread f and r      *)
(* bytes in the ring; a and b tell whether the flag is RUNNING before and  *)
(* after it.                                                               *)
(***************************************************************************)
LEMMA DmxMoves ==
  ASSUME NEW d \in Dmxs, NEW f \in FileStates, NEW r \in Nat,
         NEW a \in BOOLEAN, NEW b \in BOOLEAN, b => a, ThreadOK(d, f, r, a),
         NEW q \in DmxPcs \ Idling, d.pc \notin Idling,
         q \in {"sync", "syncpoll", "first"} => d.pc \in {"sync", "syncpoll", "first"},
         q \in {"vector", "space", "read", "poll"} =>
           d.pc \in {"vector", "space", "read", "poll"},
         q = "poll" \/ (q = "read" /\ b) => d.todo <= RingSize - 1 - r,
         q \in {"close", "join"} => ~b
  PROVE  ThreadOK([d EXCEPT !.pc = q], f, r, b)
<1> DEFINE e == [d EXCEPT !.pc = q]
<1>1. q \in DmxPcs /\ q \notin Idling
  OBVIOUS
<1>2. e \in Dmxs /\ e.pc = q /\ e.todo = d.todo /\ e.received = d.received
  BY <1>1, DmxGoto
<1> HIDE DEF e
<1>3. Split(f)
  BY DEF ThreadOK
<1>4. Flow(e, f, r)
  BY <1>1, <1>2 DEF ThreadOK, Flow, Idling
<1>5. Room(e, r, b)
  BY <1>1, <1>2 DEF ThreadOK, Room, Idling
<1> QED BY <1>3, <1>4, <1>5 DEF ThreadOK, e

LEMMA Receives ==
  ASSUME NEW d \in Dmxs, NEW f \in FileStates, NEW r \in Nat,
         NEW a \in BOOLEAN, NEW b \in BOOLEAN, b => a, ThreadOK(d, f, r, a),
         d.pc \notin Idling, NEW n \in Nat, r + n < RingSize,
         NEW e \in Dmxs, e.pc \in {"vector", "read"}, e.received = d.received + n,
         e.todo \in 1 .. InSize, e.pc = "read" => e.todo <= RingSize - 1 - (r + n)
  PROVE  ThreadOK(e, [f EXCEPT !.late = f.late + n], r + n, b)
<1> DEFINE g == [f EXCEPT !.late = f.late + n]
<1>1. f.late \in Nat /\ f.left \in Nat /\ f.late + n \in Nat
  BY SMTT(30) DEF FileStates
<1>2. /\ g \in FileStates /\ g.pc = f.pc /\ g.readsize = f.readsize /\ g.left = f.left
      /\ g.remfile = f.remfile /\ g.late = f.late + n /\ g.sizes = f.sizes
  BY <1>1, FileLate
<1> HIDE DEF g
<1>3. Split(g)
  BY <1>2 DEF ThreadOK, Split
<1>4. Vectors(f, r) /\ d.received = Filed(f) + r
  BY DEF ThreadOK, Flow
<1>5. Vectors(g, r + n)
  BY <1>1, <1>2, <1>4, SMTT(30) DEF Vectors
<1>6. Filed(g) = Filed(f) /\ Filed(f) \in Int
  <2>1. f.sizes \in Seq(Nat) /\ SplitSize \in Nat
    BY SizeFacts DEF FileStates
  <2>2. ASSUME f.sizes # <<>> PROVE Len(f.sizes) \in Nat /\ f.sizes[Len(f.sizes)] \in Nat
    BY <2>1, <2>2, SMTT(30)
  <2> QED BY <1>2, <2>1, <2>2, SMTT(30) DEF Filed
<1>7. e.received = Filed(g) + (r + n)
  BY <1>4, <1>6, SMTT(30)
<1>8. Flow(e, g, r + n)
  BY <1>5, <1>7 DEF Flow, Idling
<1>9. Room(e, r + n, b)
  BY DEF Room
<1> QED BY <1>3, <1>8, <1>9 DEF ThreadOK, g

LEMMA Creates ==
  ASSUME NEW d \in Dmxs, NEW f \in FileStates, NEW r \in Nat, NEW a \in BOOLEAN,
         ThreadOK(d, f, r, a), d.pc = "gone", NEW of \in Nat
  PROVE  ThreadOK(Dmx("start", of, 0, 0), f, r, a)
<1> DEFINE e == Dmx("start", of, 0, 0)
<1>1. e.pc = "start" /\ e.received = 0
  BY DEF Dmx
<1> HIDE DEF e
<1>2. Flow(e, f, r) /\ Room(e, r, a)
  BY <1>1 DEF ThreadOK, Flow, Room, Idling
<1> QED BY <1>2 DEF ThreadOK, e

LEMMA Starts ==
  ASSUME NEW d \in Dmxs, NEW f \in FileStates, NEW r \in Nat,
         NEW a \in BOOLEAN, NEW b \in BOOLEAN, ThreadOK(d, f, r, a), d.pc = "start",
         NEW q \in {"sync", "first"}, NEW p \in {"loop", "failed"}
  PROVE  ThreadOK([d EXCEPT !.pc = q], File(p, 0, 0, <<>>), 0, b)
<1> DEFINE e == [d EXCEPT !.pc = q]
           g == File(p, 0, 0, <<>>)
<1>1. e.pc = q /\ e.received = d.received /\ d.received = 0
  <2>1. q \in DmxPcs
    BY DEF DmxPcs
  <2> QED BY <2>1, DmxGoto DEF ThreadOK, Flow
<1>2. /\ g.pc = p /\ g.readsize = 0 /\ g.left = 0 /\ g.remfile = 0 /\ g.late = 0
      /\ g.sizes = <<>>
  BY DEF File
<1> HIDE DEF e, g
<1>3. Split(g)
  BY <1>2, SizeFacts, SMTT(30) DEF Split
<1>4. Vectors(g, 0) /\ Filed(g) = 0
  BY <1>2, SMTT(30) DEF Vectors, Filed
<1>5. Flow(e, g, 0) /\ Room(e, 0, b)
  BY <1>1, <1>2, <1>4, SizeFacts, SMTT(30) DEF Flow, Room, Idling
<1> QED BY <1>3, <1>5 DEF ThreadOK, e, g

LEMMA Joins ==
  ASSUME NEW d \in Dmxs, NEW f \in FileStates, NEW r \in Nat, NEW a \in BOOLEAN,
         ThreadOK(d, f, r, a), d.pc = "join", f.pc \in {"done", "failed"}
  PROVE  ThreadOK([d EXCEPT !.pc = "load"], f, 0, a)
<1> DEFINE e == [d EXCEPT !.pc = "load"]
<1>1. e.pc = "load"
  BY DmxGoto DEF DmxPcs
<1> HIDE DEF e
<1>2. Flow(e, f, 0) /\ Room(e, 0, a)
  BY <1>1, SizeFacts, SMTT(30) DEF ThreadOK, Flow, Room, Idling
<1> QED BY <1>2 DEF ThreadOK, e

LEMMA Loads ==
  ASSUME NEW d \in Dmxs, NEW f \in FileStates, NEW r \in Nat, NEW a \in BOOLEAN,
         ThreadOK(d, f, r, a), d.pc = "load", NEW e \in Dmxs, e.pc = "store"
  PROVE  ThreadOK(e, f, r, a)
BY DEF ThreadOK, Flow, Room, Idling

LEMMA Ends ==
  ASSUME NEW d \in Dmxs, NEW f \in FileStates, NEW r \in Nat, NEW a \in BOOLEAN,
         ThreadOK(d, f, r, a)
  PROVE  ThreadOK(NoDmx, NoFile, r, a)
BY NoThreadIs DEF ThreadOK, Flow, Room, Idling

(* The FileThread moves only between its creation and its join.            *)
LEMMA FileRuns ==
  ASSUME NEW d \in Dmxs, NEW f \in FileStates, NEW r \in Nat, NEW a \in BOOLEAN,
         ThreadOK(d, f, r, a), f.pc \in {"loop", "empty", "open", "write"}
  PROVE  d.pc \notin Idling /\ Vectors(f, r) /\ d.received = Filed(f) + r
BY DEF ThreadOK, Flow

(* The FileThread changes to g, and s bytes are left in the ring.          *)
LEMMA FileMoves ==
  ASSUME NEW d \in Dmxs, NEW f \in FileStates, NEW r \in Nat,
         NEW a \in BOOLEAN, NEW b \in BOOLEAN, b => a, ThreadOK(d, f, r, a),
         f.pc \in {"loop", "empty", "open", "write"},
         NEW g, NEW s \in Nat, s <= r, Split(g), Vectors(g, s),
         Filed(g) + s = Filed(f) + r,
         r = 0 => g.sizes = f.sizes
  PROVE  ThreadOK(d, g, s, b)
<1>1. d.pc \notin Idling /\ d.received = Filed(g) + s
  BY FileRuns
<1>2. Flow(d, g, s)
  BY <1>1, SMTT(30) DEF ThreadOK, Flow, Idling
<1>3. Room(d, s, b)
  BY SizeFacts, SMTT(30) DEF ThreadOK, Room, Dmxs
<1> QED BY <1>2, <1>3 DEF ThreadOK

LEMMA FiledIs ==
  ASSUME NEW f \in FileStates
  PROVE  /\ Len(f.sizes) \in Nat
         /\ f.sizes # <<>> => Len(f.sizes) > 0 /\ f.sizes[Len(f.sizes)] \in Nat
         /\ Filed(f) \in Nat
<1>1. f.sizes \in Seq(Nat) /\ SplitSize \in Nat
  BY SizeFacts DEF FileStates
<1>2. f.sizes # <<>> => Len(f.sizes) \in Nat \ {0} /\ f.sizes[Len(f.sizes)] \in Nat
  BY <1>1, SMTT(30)
<1>3. f.sizes # <<>> => (Len(f.sizes) - 1) * SplitSize \in Nat
  BY <1>1, <1>2, OneMore, SMTT(30)
<1> QED BY <1>1, <1>2, <1>3, SMTT(30) DEF Filed

(* A step of the FileThread that changes only its place or its vector      *)
LEMMA SameFiles ==
  ASSUME NEW d \in Dmxs, NEW f \in FileStates, NEW r \in Nat,
         NEW a \in BOOLEAN, NEW b \in BOOLEAN, b => a, ThreadOK(d, f, r, a),
         f.pc \in {"loop", "empty", "open", "write"},
         NEW g, g.sizes = f.sizes, g.remfile = f.remfile, Vectors(g, r), Split(g)
  PROVE  ThreadOK(d, g, r, b)
<1>1. Filed(g) + r = Filed(f) + r
  BY DEF Filed
<1> QED BY <1>1, FileMoves, SMTT(30)

LEMMA FileFails ==
  ASSUME NEW d \in Dmxs, NEW f \in FileStates, NEW r \in Nat,
         NEW a \in BOOLEAN, NEW b \in BOOLEAN, b => a, ThreadOK(d, f, r, a),
         f.pc \in {"open", "write"}
  PROVE  ThreadOK(d, [f EXCEPT !.pc = "failed"], r, b)
<1> DEFINE g == [f EXCEPT !.pc = "failed"]
<1>1. /\ g.pc = "failed" /\ g.readsize = f.readsize /\ g.left = f.left
      /\ g.remfile = f.remfile /\ g.late = f.late /\ g.sizes = f.sizes
  BY FileGoto DEF FilePcs
<1> HIDE DEF g
<1>2. Split(g) /\ Vectors(g, r)
  BY <1>1, FileRuns, SMTT(30) DEF ThreadOK, Split, Vectors
<1> QED BY <1>1, <1>2, SameFiles DEF g

LEMMA FileEmpty ==
  ASSUME NEW d \in Dmxs, NEW f \in FileStates, NEW r \in Nat,
         NEW a \in BOOLEAN, ThreadOK(d, f, r, a), f.pc = "empty",
         NEW q \in {"loop", "done"}
  PROVE  ThreadOK(d, [f EXCEPT !.pc = q], r, a)
<1> DEFINE g == [f EXCEPT !.pc = q]
<1>1. /\ g.pc = q /\ g.readsize = f.readsize /\ g.left = f.left
      /\ g.remfile = f.remfile /\ g.late = f.late /\ g.sizes = f.sizes
  BY FileGoto, SMTT(30) DEF FilePcs
<1> HIDE DEF g
<1>2. Split(g) /\ Vectors(g, r)
  BY <1>1, FileRuns DEF ThreadOK, Split, Vectors
<1> QED BY <1>1, <1>2, SameFiles DEF g

(* GetVector: the vector is cut to what the file may take.                 *)
LEMMA GetsVector ==
  ASSUME NEW d \in Dmxs, NEW f \in FileStates, NEW r \in Nat,
         NEW a \in BOOLEAN, ThreadOK(d, f, r, a), f.pc = "loop"
  PROVE  LET p == IF r = 0 THEN "empty" ELSE IF f.remfile = 0 THEN "open" ELSE "write"
             g == File(p, Smaller(r, f.remfile), f.remfile, f.sizes)
         IN  g \in FileStates /\ ThreadOK(d, g, r, a)
<1> DEFINE p == IF r = 0 THEN "empty" ELSE IF f.remfile = 0 THEN "open" ELSE "write"
           n == Smaller(r, f.remfile)
           g == File(p, n, f.remfile, f.sizes)
<1>1. f.remfile \in Nat /\ f.sizes \in Seq(Nat)
  BY DEF FileStates
<1>2. n \in Nat /\ n <= r /\ n <= f.remfile /\ (r # 0 /\ f.remfile # 0 => n > 0)
  BY <1>1, SMTT(30) DEF Smaller
<1>3. p \in FilePcs
  BY DEF FilePcs
<1> HIDE DEF n
<1>4. /\ g.pc = p /\ g.readsize = n /\ g.left = n /\ g.remfile = f.remfile
      /\ g.late = 0 /\ g.sizes = f.sizes
  BY DEF File
<1>5. g \in FileStates
  BY <1>1, <1>2, <1>3, FileIs, SMTT(30)
<1> HIDE DEF g
<1>6. f.left = 0 /\ Split(f)
  BY FileRuns DEF Vectors, ThreadOK
<1>7. Split(g)
  BY <1>1, <1>2, <1>4, <1>6, SMTT(30) DEF Split
<1>8. Vectors(g, r)
  BY <1>1, <1>2, <1>4, SMTT(30) DEF Vectors
<1>9. ThreadOK(d, g, r, a)
  BY <1>4, <1>7, <1>8, SameFiles
<1> QED BY <1>5, <1>9 DEF g, n

(* Open: the last file is full, and a new one begins.                      *)
LEMMA Opens ==
  ASSUME NEW d \in Dmxs, NEW f \in FileStates, NEW r \in Nat,
         NEW a \in BOOLEAN, ThreadOK(d, f, r, a), f.pc = "open"
  PROVE  LET g == Opened(f, Smaller(r - f.late, SplitSize))
         IN  g \in FileStates /\ ThreadOK(d, g, r, a)
<1> DEFINE n == Smaller(r - f.late, SplitSize)
           g == Opened(f, n)
<1>1. /\ f.late \in Nat /\ f.sizes \in Seq(Nat) /\ Append(f.sizes, 0) \in Seq(Nat)
      /\ f.readsize \in Nat /\ f.left \in Nat
  BY SMTT(30) DEF FileStates
<1>2. f.late < r /\ f.left = 0 /\ f.remfile = 0 /\ Split(f)
  BY FileRuns DEF Vectors, ThreadOK
<1>3. n \in Nat /\ n > 0 /\ n <= r - f.late /\ n <= SplitSize
  BY <1>1, <1>2, SizeFacts, SMTT(30) DEF Smaller
<1> HIDE DEF n
<1>4. /\ g.pc = "write" /\ g.readsize = n /\ g.left = n /\ g.remfile = SplitSize
      /\ g.late = f.late /\ g.sizes = Append(f.sizes, 0)
  BY DEF Opened
<1>5. g \in FileStates
  BY <1>1, <1>3, SizeFacts DEF Opened, FileStates, FilePcs
<1> HIDE DEF g
<1>6. /\ Len(g.sizes) = Len(f.sizes) + 1 /\ g.sizes # <<>> /\ Len(f.sizes) \in Nat
      /\ g.sizes[Len(g.sizes)] = 0
      /\ \A i \in 1 .. Len(f.sizes) : g.sizes[i] = f.sizes[i]
  BY <1>1, <1>4, SMTT(30)
<1>7. f.sizes # <<>> => Len(f.sizes) > 0 /\ f.sizes[Len(f.sizes)] = SplitSize
  BY <1>2, FiledIs, SizeFacts, SMTT(30) DEF Split
<1>8. \A i \in 1 .. Len(f.sizes) : f.sizes[i] = SplitSize
  <2> SUFFICES ASSUME NEW i \in 1 .. Len(f.sizes) PROVE f.sizes[i] = SplitSize
    OBVIOUS
  <2>1. f.sizes # <<>>
    BY <1>1, SMTT(30)
  <2>2. i \in 1 .. Len(f.sizes) - 1 \/ i = Len(f.sizes)
    BY <1>6, SMTT(30)
  <2> QED BY <1>2, <1>7, <2>1, <2>2 DEF Split
<1>9. Split(g)
  <2>1. \A i \in 1 .. Len(g.sizes) - 1 : g.sizes[i] = SplitSize
    BY <1>6, <1>8, SMTT(30)
  <2> QED BY <1>3, <1>4, <1>6, <2>1, SizeFacts, SMTT(30) DEF Split
<1>10. Vectors(g, r)
  BY <1>1, <1>2, <1>3, <1>4, SMTT(30) DEF Vectors
<1>11. Filed(g) = Filed(f)
  <2>1. Filed(g) = Len(f.sizes) * SplitSize
    BY <1>6, SizeFacts, SMTT(30) DEF Filed
  <2>2. CASE f.sizes = <<>>
    BY <2>1, <2>2, SizeFacts, SMTT(30) DEF Filed
  <2>3. CASE f.sizes # <<>>
    <3>1. Len(f.sizes) - 1 \in Nat /\ SplitSize \in Nat
      BY <1>6, <1>7, <2>3, SizeFacts, SMTT(30)
    <3>2. ((Len(f.sizes) - 1) + 1) * SplitSize = (Len(f.sizes) - 1) * SplitSize + SplitSize
      BY <3>1, OneMore
    <3>3. (Len(f.sizes) - 1) + 1 = Len(f.sizes)
      BY <1>6, SMTT(30)
    <3> QED BY <1>7, <2>1, <2>3, <3>2, <3>3 DEF Filed
  <2> QED BY <2>2, <2>3
<1>12. Filed(g) + r = Filed(f) + r /\ r # 0
  BY <1>1, <1>2, <1>11, SMTT(30)
<1>13. ThreadOK(d, g, r, a)
  BY <1>9, <1>10, <1>12, FileMoves, SMTT(30)
<1> QED BY <1>5, <1>13 DEF g, n

LEMMA LastRaised ==
  ASSUME NEW q \in Seq(Nat), q # <<>>, NEW n \in Nat,
         NEW s, s = [q EXCEPT ![Len(q)] = q[Len(q)] + n]
  PROVE  /\ s \in Seq(Nat) /\ Len(s) = Len(q) /\ s # <<>>
         /\ s[Len(q)] = q[Len(q)] + n
         /\ \A i \in 1 .. Len(q) - 1 : s[i] = q[i]
<1> DEFINE l == Len(q)
<1>1. l \in 1 .. Len(q) /\ l \in Nat /\ q[l] + n \in Nat
  BY SMTT(30)
<1>2. /\ s \in Seq(Nat) /\ Len(s) = Len(q)
      /\ \A i \in 1 .. Len(q) : s[i] = IF i = l THEN q[l] + n ELSE q[i]
  BY <1>1, SMTT(30)
<1>3. s # <<>>
  BY <1>1, <1>2, SMTT(30)
<1>4. s[l] = q[l] + n
  BY <1>1, <1>2
<1>5. \A i \in 1 .. l - 1 : i \in 1 .. l /\ i # l
  BY <1>1, SMTT(30)
<1>6. \A i \in 1 .. l - 1 : s[i] = q[i]
  BY <1>2, <1>5
<1> QED BY <1>2, <1>3, <1>4, <1>6

(* Write: n bytes go from the ring to the file.                            *)
LEMMA Writes ==
  ASSUME NEW d \in Dmxs, NEW f \in FileStates, NEW r \in Nat,
         NEW a \in BOOLEAN, ThreadOK(d, f, r, a), f.pc = "write", NEW n \in 1 .. f.left
  PROVE  /\ r - n \in Nat /\ Written(f, n) \in FileStates
         /\ ThreadOK(d, Written(f, n), r - n, a)
<1> DEFINE g == Written(f, n)
           l == Len(f.sizes)
<1>1. /\ f.late \in Nat /\ f.sizes \in Seq(Nat) /\ f.readsize \in Nat /\ f.left \in Nat
      /\ f.remfile \in Nat /\ n \in Nat /\ n > 0 /\ n <= f.left
  BY SMTT(30) DEF FileStates
<1>2. /\ f.left > 0 /\ f.left <= r - f.late /\ f.late <= r /\ Split(f)
      /\ f.left <= f.readsize /\ f.readsize <= f.remfile
  BY FileRuns DEF Vectors, ThreadOK, Split
<1>3. f.sizes # <<>> /\ l \in Nat /\ l > 0 /\ f.sizes[l] \in Nat
  BY <1>1, <1>2, FiledIs, SMTT(30) DEF Split
<1>4. /\ g.pc = (IF n = f.left THEN "loop" ELSE "write") /\ g.readsize = f.readsize
      /\ g.left = f.left - n
      /\ g.remfile = (IF n = f.left THEN f.remfile - f.readsize ELSE f.remfile)
      /\ g.late = f.late
  BY DEF Written
<1>5. /\ g.sizes \in Seq(Nat) /\ Len(g.sizes) = l /\ g.sizes # <<>>
      /\ g.sizes[l] = f.sizes[l] + n
      /\ \A i \in 1 .. l - 1 : g.sizes[i] = f.sizes[i]
  <2>1. g.sizes = [f.sizes EXCEPT ![l] = f.sizes[l] + n]
    BY DEF Written
  <2> HIDE DEF g
  <2>2. n \in Nat /\ f.sizes \in Seq(Nat) /\ f.sizes # <<>>
    BY <1>1, <1>3
  <2> QED BY <2>1, <2>2, LastRaised, SMTT(30)
<1>6. r - n \in Nat /\ g.remfile \in Nat /\ g.left \in Nat
  BY <1>1, <1>2, <1>4, SMTT(30)
<1>7. g \in FileStates
  <2>1. g = [pc |-> g.pc, readsize |-> g.readsize, left |-> g.left, remfile |-> g.remfile,
             late |-> g.late, sizes |-> g.sizes]
    BY DEF Written
  <2> HIDE DEF g
  <2>2. g.pc \in FilePcs
    BY <1>4 DEF FilePcs
  <2> QED BY <1>1, <1>4, <1>5, <1>6, <2>1, <2>2 DEF FileStates
<1> HIDE DEF g
<1>8. f.sizes[l] + f.remfile = SplitSize + (f.readsize - f.left)
  BY <1>2, <1>3 DEF Split
<1>9. g.sizes[l] + g.remfile =
        SplitSize + (IF g.left > 0 THEN g.readsize - g.left ELSE 0)
  <2> DEFINE last == f.sizes[l]
  <2>1. /\ last \in Nat /\ g.sizes[l] = last + n
        /\ last + f.remfile = SplitSize + (f.readsize - f.left)
    BY <1>3, <1>5, <1>8
  <2>2. g.left = f.left - n /\ g.readsize = f.readsize
    BY <1>4
  <2> HIDE DEF last, l
  <2>5. /\ f.readsize \in Nat /\ f.left \in Nat /\ f.remfile \in Nat /\ n \in Nat
        /\ SplitSize \in Nat /\ last \in Nat
        /\ last + f.remfile = SplitSize + (f.readsize - f.left)
    BY <1>1, <2>1, SizeFacts
  <2>3. CASE n = f.left
    <3>1. g.remfile = f.remfile - f.readsize /\ g.left = 0
      BY <1>1, <1>4, <2>3, SMTT(30)
    <3>2. (last + n) + (f.remfile - f.readsize) = SplitSize + 0
      BY <2>3, <2>5, SMTT(30)
    <3>3. (IF g.left > 0 THEN g.readsize - g.left ELSE 0) = 0
      BY <3>1, SMTT(30)
    <3> QED BY <2>1, <3>1, <3>2, <3>3
  <2>4. CASE n # f.left
    <3>1. g.remfile = f.remfile /\ g.left > 0
      BY <1>1, <1>4, <2>4, SMTT(30)
    <3>2. (last + n) + f.remfile = SplitSize + (f.readsize - (f.left - n))
      BY <2>5, SMTT(30)
    <3>3. (IF g.left > 0 THEN g.readsize - g.left ELSE 0) = f.readsize - (f.left - n)
      BY <2>2, <3>1
    <3> QED BY <2>1, <3>1, <3>2, <3>3
  <2> QED BY <2>3, <2>4
<1>10. Split(g)
  <2>1. \A i \in 1 .. Len(g.sizes) - 1 : g.sizes[i] = SplitSize
    BY <1>2, <1>3, <1>5 DEF Split
  <2>2. g.remfile <= SplitSize
    BY <1>1, <1>2, <1>4, SizeFacts, SMTT(30) DEF Split
  <2>3. g.left > 0 => g.left <= g.readsize /\ g.readsize <= g.remfile
    BY <1>1, <1>2, <1>4, SMTT(30)
  <2> QED BY <1>5, <1>9, <2>1, <2>2, <2>3 DEF Split
<1>11. Vectors(g, r - n)
  BY <1>1, <1>2, <1>4, SMTT(30) DEF Vectors
<1>12. Filed(g) = Filed(f) + n
  <2>1. l - 1 \in Nat /\ SplitSize \in Nat /\ (l - 1) * SplitSize \in Nat
    BY <1>3, SizeFacts, OneMore, SMTT(30)
  <2> QED BY <1>1, <1>3, <1>5, <2>1, SMTT(30) DEF Filed
<1>13. Filed(g) + (r - n) = Filed(f) + r /\ r # 0 /\ r - n <= r
  BY <1>1, <1>2, <1>12, FiledIs, SMTT(30)
<1>14. ThreadOK(d, g, r - n, a)
  BY <1>6, <1>10, <1>11, <1>13, FileMoves
<1> QED BY <1>6, <1>7, <1>14 DEF g

-----------------------------------------------------------------------------
(***************************************************************************)
(* The steps of the threads                                                *)
(***************************************************************************)
LEMMA MoveOK ==
  ASSUME ThreadTypes, ThreadsOK, NEW t \in Threads,
         NEW d \in Dmxs, NEW f \in FileStates, NEW r \in Nat,
         dmx' = [dmx EXCEPT ![t] = d], file' = [file EXCEPT ![t] = f],
         ring' = [ring EXCEPT ![t] = r], Running' => Running, ThreadOK(d, f, r, Running')
  PROVE  ThreadTypes' /\ ThreadsOK'
<1>1. ThreadTypes'
  BY DEF ThreadTypes
<1>2. ASSUME NEW s \in Threads
      PROVE  ThreadOK(dmx'[s], file'[s], ring'[s], Running')
  <2>1. CASE s = t
    <3>1. dmx'[s] = d /\ file'[s] = f /\ ring'[s] = r
      BY <2>1 DEF ThreadTypes
    <3> QED BY <3>1
  <2>2. CASE s # t
    <3>1. dmx'[s] = dmx[s] /\ file'[s] = file[s] /\ ring'[s] = ring[s]
      BY <2>2 DEF ThreadTypes
    <3>2. ThreadOK(dmx[s], file[s], ring[s], Running)
      BY DEF ThreadsOK
    <3>3. Running \in BOOLEAN /\ Running' \in BOOLEAN
      BY DEF Running
    <3>4. ThreadOK(dmx[s], file[s], ring[s], Running')
      BY <3>2, <3>3, FlagFalls
    <3> QED BY <3>1, <3>4
  <2> QED BY <2>1, <2>2
<1> QED BY <1>1, <1>2 DEF ThreadsOK

LEMMA ThreadIs ==
  ASSUME ThreadTypes, ThreadsOK, NEW t \in Threads
  PROVE  /\ dmx[t] \in Dmxs /\ file[t] \in FileStates /\ ring[t] \in Nat
         /\ Running \in BOOLEAN /\ Running' \in BOOLEAN
         /\ ThreadOK(dmx[t], file[t], ring[t], Running)
         /\ file = [file EXCEPT ![t] = file[t]]
         /\ ring = [ring EXCEPT ![t] = ring[t]]
         /\ dmx = [dmx EXCEPT ![t] = dmx[t]]
         /\ \A p : DmxTo(t, p) <=> dmx' = [dmx EXCEPT ![t] = [dmx[t] EXCEPT !.pc = p]]
BY DEF ThreadTypes, ThreadsOK, Running, DmxTo

LEMMA StartOK ==
  ASSUME ThreadTypes, ThreadsOK, NEW t \in Threads, DmxStart(t)
  PROVE  (Running' => Running) /\ ThreadTypes' /\ ThreadsOK'
<1>1. Running' => Running
  BY DEF DmxStart, Running
<1>2. PICK q \in {"sync", "first"} : dmx' = [dmx EXCEPT ![t] = [dmx[t] EXCEPT !.pc = q]]
  BY ThreadIs DEF DmxStart
<1>3. PICK p \in {"loop", "failed"} : file' = [file EXCEPT ![t] = File(p, 0, 0, <<>>)]
  BY DEF DmxStart
<1> DEFINE d == [dmx[t] EXCEPT !.pc = q]
           f == File(p, 0, 0, <<>>)
<1>4. dmx[t].pc = "start" /\ ring' = [ring EXCEPT ![t] = 0]
  BY DEF DmxStart
<1>5. ThreadOK(d, f, 0, Running')
  <2>1. /\ dmx[t] \in Dmxs /\ file[t] \in FileStates /\ ring[t] \in Nat
        /\ Running \in BOOLEAN /\ Running' \in BOOLEAN
        /\ ThreadOK(dmx[t], file[t], ring[t], Running)
    BY ThreadIs
  <2> QED BY <1>4, <2>1, Starts
<1>6. d \in Dmxs
  <2>1. q \in DmxPcs
    BY DEF DmxPcs
  <2> QED BY <2>1, ThreadIs, DmxGoto
<1>7. f \in FileStates
  <2>1. p \in FilePcs /\ <<>> \in Seq(Nat)
    BY SMTT(30) DEF FilePcs
  <2> QED BY <2>1, FileIs
<1> HIDE DEF d, f
<1>8. dmx' = [dmx EXCEPT ![t] = d] /\ file' = [file EXCEPT ![t] = f]
  BY <1>2, <1>3 DEF d, f
<1> QED BY <1>1, <1>4, <1>5, <1>6, <1>7, <1>8, MoveOK

(* A step that takes a DMXThread to another place and moves no bytes       *)
LEMMA GotoOK ==
  ASSUME ThreadTypes, ThreadsOK, NEW t \in Threads, NEW q \in DmxPcs \ Idling,
         DmxTo(t, q), UNCHANGED <<file, ring>>, Running' => Running,
         dmx[t].pc \notin Idling,
         q \in {"sync", "syncpoll", "first"} => dmx[t].pc \in {"sync", "syncpoll", "first"},
         q \in {"vector", "space", "read", "poll"} =>
           dmx[t].pc \in {"vector", "space", "read", "poll"},
         q = "poll" \/ (q = "read" /\ Running') => dmx[t].todo <= RingSize - 1 - ring[t],
         q \in {"close", "join"} => ~Running'
  PROVE  (Running' => Running) /\ ThreadTypes' /\ ThreadsOK'
<1> DEFINE d == [dmx[t] EXCEPT !.pc = q]
           f == file[t]
           r == ring[t]
<1>1. d \in Dmxs /\ f \in FileStates /\ r \in Nat
  BY ThreadIs, DmxGoto
<1>2. dmx' = [dmx EXCEPT ![t] = d]
  BY ThreadIs
<1>3. file' = [file EXCEPT ![t] = f] /\ ring' = [ring EXCEPT ![t] = r]
  BY ThreadIs
<1>4. ThreadOK(d, f, r, Running')
  <2>1. /\ dmx[t] \in Dmxs /\ Running \in BOOLEAN /\ Running' \in BOOLEAN
        /\ ThreadOK(dmx[t], file[t], ring[t], Running)
    BY ThreadIs
  <2> QED BY <1>1, <2>1, DmxMoves, SMTT(30)
<1> HIDE DEF d, f, r
<1> QED BY <1>1, <1>2, <1>3, <1>4, MoveOK

LEMMA WalksOK ==
  ASSUME ThreadTypes, ThreadsOK, NEW t \in Threads,
         Sync(t) \/ SyncPoll(t) \/ Vector(t) \/ Space(t) \/ Read(t) \/ Close(t)
  PROVE  (Running' => Running) /\ ThreadTypes' /\ ThreadsOK'
<1>1. Room(dmx[t], ring[t], Running) /\ dmx[t] \in Dmxs /\ ring[t] \in Nat
  BY ThreadIs DEF ThreadOK
<1>2. CASE Sync(t)
  <2>1. DmxTo(t, "syncpoll") \/ (DmxTo(t, "close") /\ ~Running')
    BY <1>2 DEF Sync, flags, Running
  <2>2. /\ (Running' => Running) /\ UNCHANGED <<file, ring>> /\ dmx[t].pc = "sync"
    BY <1>2 DEF Sync, flags, Running
  <2> QED BY <2>1, <2>2, GotoOK DEF DmxPcs, Idling
<1>3. CASE SyncPoll(t)
  <2>1. DmxTo(t, "sync") \/ DmxTo(t, "first")
    BY <1>3 DEF SyncPoll
  <2>2. (Running' => Running) /\ UNCHANGED <<file, ring>> /\ dmx[t].pc = "syncpoll"
    BY <1>3 DEF SyncPoll, Running
  <2> QED BY <2>1, <2>2, GotoOK DEF DmxPcs, Idling
<1>4. CASE Vector(t)
  <2>1. DmxTo(t, "space") \/ (DmxTo(t, "close") /\ ~Running')
    BY <1>4 DEF Vector, flags, Running
  <2>2. /\ (Running' => Running) /\ UNCHANGED <<file, ring>> /\ dmx[t].pc = "vector"
    BY <1>4 DEF Vector, flags, Running
  <2> QED BY <2>1, <2>2, GotoOK DEF DmxPcs, Idling
<1>5. CASE Space(t)
  <2>1. DmxTo(t, "read") /\ (Running' => dmx[t].todo <= RingSize - 1 - ring[t])
    BY <1>1, <1>5, SizeFacts, SMTT(30) DEF Space, Running, Dmxs
  <2>2. (Running' => Running) /\ UNCHANGED <<file, ring>> /\ dmx[t].pc = "space"
    BY <1>5 DEF Space, Running
  <2> QED BY <2>1, <2>2, GotoOK DEF DmxPcs, Idling
<1>6. CASE Read(t)
  <2>1. (DmxTo(t, "poll") /\ Running) \/ (DmxTo(t, "close") /\ ~Running')
    BY <1>6 DEF Read, flags, Running
  <2>2. (Running' => Running) /\ UNCHANGED <<file, ring>> /\ dmx[t].pc = "read"
    BY <1>6 DEF Read, flags, Running
  <2>3. Running => dmx[t].todo <= RingSize - 1 - ring[t]
    BY <1>1, <2>2 DEF Room
  <2> QED BY <2>1, <2>2, <2>3, GotoOK DEF DmxPcs, Idling
<1>7. CASE Close(t)
  <2>1. DmxTo(t, "join") /\ UNCHANGED <<exit_flag, file, ring>> /\ dmx[t].pc = "close"
    BY <1>7 DEF Close, flags
  <2>2. ~Running /\ ~Running'
    BY <1>1, <2>1 DEF Room, Running
  <2> QED BY <2>1, <2>2, GotoOK DEF DmxPcs, Idling
<1> QED BY <1>2, <1>3, <1>4, <1>5, <1>6, <1>7

LEMMA ReceiveOK ==
  ASSUME ThreadTypes, ThreadsOK, NEW t \in Threads, NEW n \in Nat, Receive(t, n),
         Running' => Running, dmx[t].pc \notin Idling, ring[t] + n < RingSize,
         NEW p \in {"vector", "read"}, NEW of \in Nat, NEW todo \in 1 .. InSize,
         dmx' = [dmx EXCEPT ![t] = Dmx(p, of, todo, dmx[t].received + n)],
         p = "read" => todo <= RingSize - 1 - (ring[t] + n)
  PROVE  (Running' => Running) /\ ThreadTypes' /\ ThreadsOK'
<1> DEFINE e == Dmx(p, of, todo, dmx[t].received + n)
           f == [file[t] EXCEPT !.late = file[t].late + n]
           r == ring[t] + n
<1>1. /\ dmx[t] \in Dmxs /\ file[t] \in FileStates /\ ring[t] \in Nat
      /\ Running \in BOOLEAN /\ Running' \in BOOLEAN
      /\ ThreadOK(dmx[t], file[t], ring[t], Running)
  BY ThreadIs
<1>2. dmx[t].received + n \in Nat /\ file[t].late + n \in Nat /\ r \in Nat
  <2>1. dmx[t].received \in Nat
    BY <1>1 DEF Dmxs
  <2>2. file[t].late \in Nat
    BY <1>1 DEF FileStates
  <2> QED BY <1>1, <2>1, <2>2, SMTT(30)
<1>3. p \in DmxPcs /\ todo \in Nat
  BY SizeFacts, SMTT(30) DEF DmxPcs
<1>4. e \in Dmxs /\ e.pc = p /\ e.received = dmx[t].received + n /\ e.todo = todo
  <2> DEFINE x == dmx[t].received + n
  <2>1. x \in Nat
    BY <1>2
  <2> HIDE DEF x
  <2>2. Dmx(p, of, todo, x) \in Dmxs
    BY <1>3, <2>1, DmxIs
  <2>3. /\ Dmx(p, of, todo, x).pc = p /\ Dmx(p, of, todo, x).received = x
        /\ Dmx(p, of, todo, x).todo = todo
    BY DEF Dmx
  <2> QED BY <2>2, <2>3 DEF x
<1>5. f \in FileStates
  BY <1>1, <1>2, FileLate
<1>6. dmx' = [dmx EXCEPT ![t] = e]
  OBVIOUS
<1>7. file' = [file EXCEPT ![t] = f] /\ ring' = [ring EXCEPT ![t] = r]
  <2>1. /\ ring' = [ring EXCEPT ![t] = ring[t] + n]
        /\ file' = [file EXCEPT ![t].late = file[t].late + n]
    BY DEF Receive
  <2> QED BY <2>1 DEF ThreadTypes
<1> HIDE DEF e
<1>8. ThreadOK(e, f, r, Running')
  BY <1>1, <1>4, Receives, SMTT(30)
<1> HIDE DEF f, r
<1> QED BY <1>2, <1>4, <1>5, <1>6, <1>7, <1>8, MoveOK

LEMMA FirstOK ==
  ASSUME ThreadTypes, ThreadsOK, NEW t \in Threads, First(t)
  PROVE  (Running' => Running) /\ ThreadTypes' /\ ThreadsOK'
<1>1. UNCHANGED exit_flag /\ (Running' <=> Running) /\ dmx[t].pc = "first"
  BY DEF First, flags, Running
<1>2. /\ dmx[t] \in Dmxs /\ Flow(dmx[t], file[t], ring[t])
      /\ file[t] \in FileStates /\ ring[t] \in Nat
  BY ThreadIs DEF ThreadOK
<1>3. dmx[t].of \in Nat
  BY <1>2 DEF Dmxs
<1>4. dmx[t].received = 0 /\ ring[t] = 0
  <2>1. file[t].sizes = <<>> /\ ring[t] = 0 /\ dmx[t].received = Filed(file[t]) + ring[t]
    BY <1>1, <1>2 DEF Flow, Idling
  <2>2. Filed(file[t]) = 0
    BY <2>1 DEF Filed
  <2> QED BY <2>1, <2>2, SMTT(30)
<1>5. CASE Running
  <2>1. PICK n \in IF t = Dvr THEN 1 .. TsSize ELSE {0} :
          /\ Receive(t, n)
          /\ dmx' = [dmx EXCEPT ![t] = Dmx("vector", dmx[t].of, InSize - n, n)]
    BY <1>5 DEF First
  <2>2. n \in Nat /\ n <= TsSize
    BY SizeFacts, SMTT(30)
  <2>3. InSize - n \in 1 .. InSize /\ ring[t] + n < RingSize
    BY <1>4, <2>2, SizeFacts, SMTT(30)
  <2>4. dmx[t].received + n = n
    BY <1>4, <2>2, SMTT(30)
  <2>5. dmx' = [dmx EXCEPT ![t] = Dmx("vector", dmx[t].of, InSize - n, dmx[t].received + n)]
    BY <2>1, <2>4
  <2>6. dmx[t].pc \notin Idling
    BY <1>1 DEF Idling
  <2> QED BY <1>1, <1>3, <2>1, <2>2, <2>3, <2>5, <2>6, ReceiveOK
<1>6. CASE ~Running
  <2>1. DmxTo(t, "close") /\ UNCHANGED <<ring, file>>
    BY <1>6 DEF First
  <2> QED BY <1>1, <1>6, <2>1, GotoOK DEF DmxPcs, Idling
<1> QED BY <1>5, <1>6

LEMMA PollOK ==
  ASSUME ThreadTypes, ThreadsOK, NEW t \in Threads, Poll(t)
  PROVE  (Running' => Running) /\ ThreadTypes' /\ ThreadsOK'
<1>1. (Running' => Running) /\ dmx[t].pc = "poll"
  BY DEF Poll, Running
<1>2. /\ dmx[t] \in Dmxs /\ ring[t] \in Nat /\ Room(dmx[t], ring[t], Running)
  BY ThreadIs DEF ThreadOK
<1>3. dmx[t].of \in Nat /\ dmx[t].todo \in Nat
  BY <1>2 DEF Dmxs
<1>4. dmx[t].todo \in 1 .. InSize /\ dmx[t].todo <= RingSize - 1 - ring[t]
  BY <1>1, <1>2 DEF Room
<1>5. ASSUME NEW n \in 1 .. dmx[t].todo, Receive(t, n),
             dmx' = [dmx EXCEPT ![t] =
               Dmx(IF n = dmx[t].todo THEN "vector" ELSE "read", dmx[t].of,
                   IF n = dmx[t].todo THEN InSize ELSE dmx[t].todo - n,
                   dmx[t].received + n)]
      PROVE  (Running' => Running) /\ ThreadTypes' /\ ThreadsOK'
  <2> DEFINE p == IF n = dmx[t].todo THEN "vector" ELSE "read"
             todo == IF n = dmx[t].todo THEN InSize ELSE dmx[t].todo - n
  <2>1. n \in Nat /\ p \in {"vector", "read"} /\ todo \in 1 .. InSize
    BY <1>3, <1>4, SizeFacts, SMTT(30)
  <2>2. ring[t] + n < RingSize /\ (p = "read" => todo <= RingSize - 1 - (ring[t] + n))
    BY <1>2, <1>3, <1>4, SizeFacts, SMTT(30)
  <2>3. dmx' = [dmx EXCEPT ![t] = Dmx(p, dmx[t].of, todo, dmx[t].received + n)]
    BY <1>5
  <2>4. dmx[t].pc \notin Idling
    BY <1>1 DEF Idling
  <2>5. Receive(t, n) /\ dmx[t].of \in Nat
    BY <1>3, <1>5
  <2> HIDE DEF p, todo
  <2> QED BY <1>1, <2>5, <2>1, <2>2, <2>3, <2>4, ReceiveOK
<1>6. ASSUME DmxTo(t, "read"), UNCHANGED <<ring, file>>
      PROVE  (Running' => Running) /\ ThreadTypes' /\ ThreadsOK'
  BY <1>1, <1>4, <1>6, GotoOK DEF DmxPcs, Idling
<1> QED BY <1>5, <1>6 DEF Poll

LEMMA JoinOK ==
  ASSUME ThreadTypes, ThreadsOK, NEW t \in Threads, Join(t)
  PROVE  (Running' => Running) /\ ThreadTypes' /\ ThreadsOK'
<1> DEFINE d == [dmx[t] EXCEPT !.pc = "load"]
<1>1. /\ dmx[t] \in Dmxs /\ file[t] \in FileStates /\ ring[t] \in Nat
      /\ Running \in BOOLEAN /\ ThreadOK(dmx[t], file[t], ring[t], Running)
      /\ file = [file EXCEPT ![t] = file[t]]
  BY ThreadIs
<1>2. /\ dmx[t].pc = "join" /\ file[t].pc \in {"done", "failed"} /\ DmxTo(t, "load")
      /\ ring' = [ring EXCEPT ![t] = 0] /\ UNCHANGED <<exit_flag, file>>
  BY DEF Join, flags
<1>3. Running' <=> Running
  BY <1>2 DEF Running
<1>4. d \in Dmxs
  BY <1>1, DmxGoto DEF DmxPcs
<1>5. ThreadOK(d, file[t], 0, Running')
  BY <1>1, <1>2, <1>3, Joins
<1>6. dmx' = [dmx EXCEPT ![t] = d] /\ file' = [file EXCEPT ![t] = file[t]]
  BY <1>1, <1>2, ThreadIs
<1> HIDE DEF d
<1> QED BY <1>1, <1>2, <1>3, <1>4, <1>5, <1>6, MoveOK

LEMMA DecOK ==
  ASSUME ThreadTypes, ThreadsOK, busy_count \in Bytes, NEW t \in Threads,
         DecLoad(t) \/ DecStore(t)
  PROVE  (Running' => Running) /\ ThreadTypes' /\ ThreadsOK'
<1>1. /\ dmx[t] \in Dmxs /\ file[t] \in FileStates /\ ring[t] \in Nat
      /\ Running \in BOOLEAN /\ ThreadOK(dmx[t], file[t], ring[t], Running)
      /\ file = [file EXCEPT ![t] = file[t]] /\ ring = [ring EXCEPT ![t] = ring[t]]
  BY ThreadIs
<1>2. UNCHANGED <<exit_flag, ring>> /\ Running' = Running
  BY DEF DecLoad, DecStore, flags, Running
<1>3. CASE DecLoad(t)
  <2> DEFINE e == [pc |-> "store", todo |-> dmx[t].todo, tmp |-> busy_count,
                   of |-> dmx[t].of, received |-> dmx[t].received]
  <2>1. /\ dmx[t].pc = "load" /\ dmx' = [dmx EXCEPT ![t] = e]
        /\ file' = [file EXCEPT ![t] = file[t]] /\ ring' = [ring EXCEPT ![t] = ring[t]]
    BY <1>1, <1>2, <1>3 DEF DecLoad
  <2>2. e \in Dmxs /\ e.pc = "store"
    BY <1>1 DEF Dmxs, DmxPcs
  <2> HIDE DEF e
  <2>3. ThreadOK(e, file[t], ring[t], Running)
    BY <1>1, <2>1, <2>2, Loads, SMTT(30)
  <2>4. ThreadOK(e, file[t], ring[t], Running')
    BY <1>2, <2>3
  <2> QED BY <1>1, <1>2, <2>1, <2>2, <2>4, MoveOK
<1>4. CASE DecStore(t)
  <2>1. /\ dmx' = [dmx EXCEPT ![t] = NoDmx] /\ file' = [file EXCEPT ![t] = NoFile]
        /\ ring' = [ring EXCEPT ![t] = ring[t]]
    BY <1>1, <1>2, <1>4 DEF DecStore
  <2>2. ThreadOK(NoDmx, NoFile, ring[t], Running')
    BY <1>1, <1>2, Ends
  <2> QED BY <1>1, <1>2, <2>1, <2>2, NoThreadIs, MoveOK
<1> QED BY <1>3, <1>4

LEMMA DmxOK ==
  ASSUME ThreadTypes, ThreadsOK, busy_count \in Bytes, NEW t \in Threads, DmxNext(t)
  PROVE  (Running' => Running) /\ ThreadTypes' /\ ThreadsOK'
BY StartOK, WalksOK, FirstOK, PollOK, JoinOK, DecOK DEF DmxNext

(* A step of a FileThread                                                  *)
LEMMA FileOK ==
  ASSUME ThreadTypes, ThreadsOK, NEW t \in Threads, FileNext(t)
  PROVE  (Running' => Running) /\ ThreadTypes' /\ ThreadsOK'
<1>1. /\ dmx[t] \in Dmxs /\ file[t] \in FileStates /\ ring[t] \in Nat
      /\ Running \in BOOLEAN /\ Running' \in BOOLEAN
      /\ ThreadOK(dmx[t], file[t], ring[t], Running)
      /\ dmx = [dmx EXCEPT ![t] = dmx[t]] /\ ring = [ring EXCEPT ![t] = ring[t]]
  BY ThreadIs
<1>2. dmx' = [dmx EXCEPT ![t] = dmx[t]]
  BY <1>1 DEF FileNext, GetVector, Open, Write, Empty, filerest
<1>3. Running' => Running
  BY DEF FileNext, GetVector, Open, Write, Empty, Running
<1>4. ASSUME NEW f \in FileStates, file' = [file EXCEPT ![t] = f], UNCHANGED ring,
             ThreadOK(dmx[t], f, ring[t], Running')
      PROVE  ThreadTypes' /\ ThreadsOK'
  <2>1. ring' = [ring EXCEPT ![t] = ring[t]]
    BY <1>1, <1>4
  <2> QED BY <1>1, <1>2, <1>3, <1>4, <2>1, MoveOK
<1>5. ASSUME file[t].pc \in {"open", "write"}, UNCHANGED ring,
             file' = [file EXCEPT ![t].pc = "failed"]
      PROVE  ThreadTypes' /\ ThreadsOK'
  <2> DEFINE f == [file[t] EXCEPT !.pc = "failed"]
  <2>1. f \in FileStates
    BY <1>1, FileGoto DEF FilePcs
  <2>2. ThreadOK(dmx[t], f, ring[t], Running')
    BY <1>1, <1>3, <1>5, FileFails, SMTT(30)
  <2>3. file' = [file EXCEPT ![t] = f]
    BY <1>5 DEF ThreadTypes
  <2> HIDE DEF f
  <2> QED BY <1>4, <1>5, <2>1, <2>2, <2>3
<1>6. CASE GetVector(t)
  <2> DEFINE p == IF ring[t] = 0 THEN "empty"
                  ELSE IF file[t].remfile = 0 THEN "open" ELSE "write"
             g == File(p, Smaller(ring[t], file[t].remfile), file[t].remfile, file[t].sizes)
  <2>1. /\ file' = [file EXCEPT ![t] = g] /\ file[t].pc = "loop"
        /\ UNCHANGED <<exit_flag, ring>> /\ (Running' <=> Running)
    BY <1>6 DEF GetVector, Running
  <2>2. g \in FileStates /\ ThreadOK(dmx[t], g, ring[t], Running)
    BY <1>1, <2>1, GetsVector, SMTT(30)
  <2> HIDE DEF g
  <2> QED BY <1>4, <1>3, <2>1, <2>2
<1>7. CASE Open(t)
  <2> DEFINE g == Opened(file[t], Smaller(ring[t] - file[t].late, SplitSize))
  <2>1. file[t].pc = "open" /\ UNCHANGED ring
    BY <1>7 DEF Open
  <2>2. ASSUME file' = [file EXCEPT ![t] = g], UNCHANGED exit_flag
        PROVE  ThreadTypes' /\ ThreadsOK'
    <3>1. g \in FileStates /\ ThreadOK(dmx[t], g, ring[t], Running)
      BY <1>1, <2>1, Opens, SMTT(30)
    <3>2. Running' <=> Running
      BY <2>2 DEF Running
    <3> HIDE DEF g
    <3> QED BY <1>4, <2>1, <2>2, <3>1, <3>2
  <2> QED BY <1>3, <1>5, <1>7, <2>1, <2>2 DEF Open
<1>8. CASE Write(t)
  <2>1. file[t].pc = "write"
    BY <1>8 DEF Write
  <2>2. ASSUME NEW n \in 1 .. file[t].left, ring' = [ring EXCEPT ![t] = ring[t] - n],
               file' = [file EXCEPT ![t] = Written(file[t], n)], UNCHANGED exit_flag
        PROVE  ThreadTypes' /\ ThreadsOK'
    <3>1. Running' <=> Running
      BY <2>2 DEF Running
    <3>2. /\ ring[t] - n \in Nat /\ Written(file[t], n) \in FileStates
          /\ ThreadOK(dmx[t], Written(file[t], n), ring[t] - n, Running')
      BY <1>1, <2>1, <3>1, Writes, SMTT(30)
    <3> QED BY <1>1, <1>2, <2>2, <3>1, <3>2, MoveOK
  <2> QED BY <1>3, <1>5, <1>8, <2>1, <2>2 DEF Write
<1>9. CASE Empty(t)
  <2>1. /\ file' = [file EXCEPT ![t] =
                      [file[t] EXCEPT !.pc = IF Running THEN "loop" ELSE "done"]]
        /\ file[t].pc = "empty" /\ UNCHANGED <<exit_flag, ring>>
    BY <1>9 DEF Empty, ThreadTypes
  <2>2. PICK q \in {"loop", "done"} : file' = [file EXCEPT ![t] = [file[t] EXCEPT !.pc = q]]
    BY <2>1
  <2> DEFINE g == [file[t] EXCEPT !.pc = q]
  <2>3. g \in FileStates
    BY <1>1, FileGoto DEF FilePcs
  <2>4. ThreadOK(dmx[t], g, ring[t], Running)
    <3>1. /\ dmx[t] \in Dmxs /\ file[t] \in FileStates /\ ring[t] \in Nat
          /\ Running \in BOOLEAN /\ ThreadOK(dmx[t], file[t], ring[t], Running)
          /\ file[t].pc = "empty"
      BY <1>1, <2>1
    <3> QED BY <3>1, FileEmpty
  <2> HIDE DEF g
  <2>5. ThreadOK(dmx[t], g, ring[t], Running')
    BY <2>1, <2>4 DEF Running
  <2> QED BY <1>3, <1>4, <2>1, <2>2, <2>3, <2>5 DEF g
<1> QED BY <1>3, <1>6, <1>7, <1>8, <1>9 DEF FileNext

-----------------------------------------------------------------------------
(***************************************************************************)
(* The types of what the threads share                                     *)
(***************************************************************************)
LEMMA GoesTo ==
  ASSUME main \in Mains, NEW p \in MainPcs
  PROVE  /\ [main EXCEPT !.pc = p] \in Mains
         /\ [main EXCEPT !.pc = p].pc = p
         /\ [main EXCEPT !.pc = p].tmp = main.tmp
         /\ [main EXCEPT !.pc = p].add = main.add
         /\ [main EXCEPT !.pc = p].then = main.then
         /\ [main EXCEPT !.pc = p].next = main.next
BY DEF Mains

LEMMA CountsTo ==
  ASSUME main \in Mains, NEW add \in {-1, 1}, NEW p \in MainPcs, Count(add, p)
  PROVE  /\ main' \in Mains
         /\ main'.pc = "load" /\ main'.add = add /\ main'.then = p /\ main'.next = main.next
<1>1. "load" \in MainPcs
  BY DEF MainPcs
<1> QED BY <1>1 DEF Count, Mains

LEMMA MainTypesStep ==
  ASSUME MainTypes, MainNext, UNCHANGED write_ts
  PROVE  MainTypes'
<1>0. main \in Mains /\ main.then \in MainPcs /\ main.tmp \in Bytes /\ main.next \in Nat
      /\ main.add \in {-1, 0, 1}
  BY DEF MainTypes, Mains
<1> USE DEF MainPcs
<1>1. CASE MainLoad
  <2>1. main' \in Mains
    BY <1>0, <1>1 DEF MainLoad, Mains, MainTypes
  <2> QED BY <1>1, <2>1 DEF MainLoad, MainTypes, flags, fds
<1>2. CASE MainStore
  <2>1. main' \in Mains
    BY <1>0, <1>2, GoesTo DEF MainStore
  <2>2. busy_count' \in Bytes
    <3>1. main.tmp + main.add \in Int
      BY <1>0, SMTT(30) DEF Bytes
    <3> QED BY <1>2, <3>1, CountedFacts DEF MainStore
  <2> QED BY <1>2, <2>1, <2>2 DEF MainStore, MainTypes, fds
<1>3. CASE StartRecording \/ Attempt2 \/ SetupFails \/ Release \/ CreateFails
  <2>1. \/ \E add \in {-1, 1}, p \in MainPcs : Count(add, p)
        \/ \E p \in MainPcs : main' = [main EXCEPT !.pc = p]
    BY <1>3 DEF StartRecording, Attempt2, SetupFails, Release, CreateFails
  <2>2. main' \in Mains
    BY <1>0, <2>1, CountsTo, GoesTo, SMTT(30)
  <2> QED
    BY <1>3, <2>2 DEF StartRecording, Attempt2, SetupFails, Release, CreateFails,
                      MainTypes, flags, fds
<1>4. CASE SetFilename
  <2>1. main' \in Mains
    BY <1>0, <1>4, GoesTo DEF SetFilename
  <2> QED BY <1>4, <2>1, SMTT(30) DEF SetFilename, MainTypes, flags, fds
<1>5. CASE Setup
  <2>1. main' \in Mains
    BY <1>0, <1>5 DEF Setup, Mains
  <2>2. demuxfd' \subseteq Pids /\ demuxfd_count' \in 0 .. NumPids
    BY <1>5, SizeFacts, SMTT(30) DEF Setup
  <2>3. exit_flag' \in Flags
    BY <1>5 DEF Setup, Flags
  <2> QED BY <1>5, <2>1, <2>2, <2>3 DEF Setup, MainTypes
<1>6. CASE CreateThread
  <2>1. main' \in Mains
    <3>1. CASE write_ts
      BY <1>0, <1>6, <3>1, GoesTo DEF CreateThread
    <3>2. CASE ~write_ts
      BY <1>0, <1>6, <3>2, SMTT(30) DEF CreateThread, Mains
    <3> QED BY <3>1, <3>2
  <2> QED BY <1>6, <2>1 DEF CreateThread, MainTypes, flags, fds
<1>7. CASE CreateFailed
  <2>1. main' \in Mains
    BY <1>0, <1>7, GoesTo DEF CreateFailed
  <2>2. demuxfd' \subseteq Pids /\ demuxfd_count' \in 0 .. NumPids
    BY <1>7, SizeFacts, SMTT(30) DEF CreateFailed, MainTypes, fds
  <2>3. exit_flag' \in Flags
    BY <1>7 DEF CreateFailed, Flags, Failures
  <2> QED BY <1>7, <2>1, <2>2, <2>3 DEF CreateFailed, MainTypes
<1>8. CASE Started \/ StopRecording \/ StopDone
  <2>1. main' \in Mains
    BY <1>0, <1>8, GoesTo DEF Started, StopRecording, StopDone
  <2>2. record_start_time' \in BOOLEAN /\ exit_flag' \in Flags
    BY <1>8 DEF Started, StopRecording, StopDone, Flags, flags, MainTypes
  <2> QED BY <1>8, <2>1, <2>2 DEF Started, StopRecording, StopDone, MainTypes, flags, fds
<1> QED
  BY <1>1, <1>2, <1>3, <1>4, <1>5, <1>6, <1>7, <1>8 DEF MainNext

LEMMA CountKeeps ==
  ASSUME NEW t \in Threads, DmxNext(t)
  PROVE  UNCHANGED busy_count \/ busy_count' = Counted(dmx[t].tmp - 1)
<1>1. CASE DmxStart(t) \/ Sync(t) \/ SyncPoll(t) \/ First(t) \/ Vector(t) \/ Space(t)
  BY <1>1 DEF DmxStart, Sync, SyncPoll, First, Vector, Space, flags
<1>2. CASE ~(DmxStart(t) \/ Sync(t) \/ SyncPoll(t) \/ First(t) \/ Vector(t) \/ Space(t))
  BY <1>2 DEF DmxNext, Read, Poll, Close, Join, DecLoad, DecStore, flags
<1> QED BY <1>1, <1>2

LEMMA CountTyped ==
  ASSUME ThreadTypes, NEW t \in Threads
  PROVE  dmx[t].tmp - 1 \in Int
<1>1. dmx[t] \in Dmxs
  BY DEF ThreadTypes
<1> QED BY <1>1, SMTT(30) DEF Dmxs, Bytes

LEMMA ThreadKeepsTypes ==
  ASSUME MainTypes, ThreadTypes, NEW t \in Threads, DmxNext(t) \/ FileNext(t),
         UNCHANGED write_ts
  PROVE  MainTypes'
<1>1. UNCHANGED mainvars
  BY DEF DmxNext, DmxStart, Sync, SyncPoll, First, Vector, Space, Read, Poll, Close,
         Join, DecLoad, DecStore, FileNext, GetVector, Open, Write, Empty, filerest
<1>2. exit_flag' \in Flags
  BY DEF DmxNext, DmxStart, Sync, SyncPoll, First, Vector, Space, Read, Poll, Close,
         Join, DecLoad, DecStore, FileNext, GetVector, Open, Write, Empty, filerest,
         flags, MainTypes, Flags, Failures
<1>3. busy_count' \in Bytes
  <2>1. dmx[t].tmp - 1 \in Int
    BY CountTyped
  <2>2. UNCHANGED busy_count \/ busy_count' = Counted(dmx[t].tmp - 1)
    <3>1. CASE DmxNext(t)
      BY <3>1, CountKeeps
    <3>2. CASE FileNext(t)
      BY <3>2 DEF FileNext, GetVector, Open, Write, Empty, filerest, flags
    <3> QED BY <3>1, <3>2
  <2> QED BY <2>1, <2>2, CountedFacts DEF MainTypes
<1>4. demuxfd' \subseteq demuxfd /\ demuxfd_count' \in 0 .. NumPids
  BY SizeFacts, SMTT(30)
     DEF DmxNext, DmxStart, Sync, SyncPoll, First, Vector, Space, Read, Poll, Close,
         Join, DecLoad, DecStore, FileNext, GetVector, Open, Write, Empty, filerest,
         fds, MainTypes
<1> QED BY <1>1, <1>2, <1>3, <1>4 DEF MainTypes, mainvars

(***************************************************************************)
(* The main thread                                                         *)
(***************************************************************************)
LEMMA ThreadToCreate ==
  ASSUME Types, MainOK, PidsOK, StreamOK, main.pc = "create"
  PROVE  Creating \in Threads /\ ~Live(Creating) /\ (~write_ts => Creating \in Pids)
<1>1. CASE write_ts
  BY <1>1, ThreadFacts DEF StreamOK, Preparing, Creating
<1>2. CASE ~write_ts
  <2>1. main.next \in Nat /\ main.next < NumPids
    BY <1>2 DEF PidsOK, Types, MainTypes, Mains
  <2>2. main.next \in Pids
    BY <2>1, SizeFacts, SMTT(30) DEF Pids
  <2> QED BY <1>2, <2>1, <2>2, SMTT(30) DEF PidsOK, Creating, Threads
<1> QED BY <1>1, <1>2

LEMMA GoneOK ==
  ASSUME NEW d \in Dmxs, NEW f \in FileStates, NEW r \in Nat, NEW a \in BOOLEAN,
         NEW b \in BOOLEAN, ThreadOK(d, f, r, a), d.pc = "gone"
  PROVE  ThreadOK(d, f, r, b)
BY DEF ThreadOK, Room

LEMMA MainThreads ==
  ASSUME Types, ThreadsOK, MainOK, PidsOK, StreamOK, MainNext
  PROVE  ThreadTypes' /\ ThreadsOK'
<1>1. CASE Setup
  <2>1. UNCHANGED <<dmx, file, ring>>
    BY <1>1 DEF Setup
  <2>2. ASSUME NEW t \in Threads PROVE ThreadOK(dmx[t], file[t], ring[t], Running')
    <3>1. dmx[t].pc = "gone"
      BY <1>1 DEF Setup, MainOK, Claiming, Live
    <3> QED BY <3>1, ThreadIs, GoneOK, SMTT(30) DEF Types
  <2> QED BY <2>1, <2>2 DEF Types, ThreadTypes, ThreadsOK
<1>2. CASE CreateThread
  <2> DEFINE t == Creating
             d == Dmx("start", myfilename.of, 0, 0)
  <2>1. t \in Threads /\ dmx[t].pc = "gone"
    BY <1>2, ThreadToCreate DEF CreateThread, Live
  <2>2. dmx' = [dmx EXCEPT ![t] = d] /\ UNCHANGED <<exit_flag, file, ring>>
    BY <1>2 DEF CreateThread, flags
  <2>3. myfilename.of \in Nat
    BY DEF Types, MainTypes
  <2>4. d \in Dmxs
    BY <2>3, DmxIs DEF DmxPcs
  <2> HIDE DEF t
  <2>5. /\ dmx[t] \in Dmxs /\ file[t] \in FileStates /\ ring[t] \in Nat
        /\ Running \in BOOLEAN /\ ThreadOK(dmx[t], file[t], ring[t], Running)
        /\ file = [file EXCEPT ![t] = file[t]] /\ ring = [ring EXCEPT ![t] = ring[t]]
    BY <2>1, ThreadIs DEF Types
  <2>6. ThreadOK(d, file[t], ring[t], Running)
    BY <2>1, <2>3, <2>5, Creates
  <2> HIDE DEF d
  <2>7. ThreadOK(d, file[t], ring[t], Running') /\ (Running' => Running)
    BY <2>2, <2>6 DEF Running
  <2>8. file' = [file EXCEPT ![t] = file[t]] /\ ring' = [ring EXCEPT ![t] = ring[t]]
    BY <2>2, <2>5
  <2>9. ThreadTypes
    BY DEF Types
  <2> QED BY <2>1, <2>2, <2>4, <2>5, <2>7, <2>8, <2>9, MoveOK
<1>3. CASE ~Setup /\ ~CreateThread
  <2>1. UNCHANGED <<dmx, file, ring>> /\ (Running' => Running)
    BY <1>3 DEF MainNext, MainLoad, MainStore, StartRecording, Attempt2, SetFilename,
                SetupFails, Release, CreateFails, CreateFailed, Started, StopRecording,
                StopDone, flags, Running
  <2>2. ASSUME NEW t \in Threads PROVE ThreadOK(dmx[t], file[t], ring[t], Running')
    BY <2>1, ThreadIs, FlagFalls, SMTT(30) DEF Types
  <2> QED BY <2>1, <2>2 DEF Types, ThreadTypes, ThreadsOK
<1> QED BY <1>1, <1>2, <1>3

(* What the main thread has to keep of the recordings                      *)
RecordingsOK == MainOK /\ PidsOK /\ StreamOK

LEMMA LoadOK ==
  ASSUME Types, RecordingsOK, UNCHANGED write_ts, MainLoad
  PROVE  RecordingsOK'
<1>1. /\ main.pc = "load" /\ main'.pc = "store" /\ main'.tmp = busy_count
      /\ main'.add = main.add /\ main'.then = main.then /\ main'.next = main.next
      /\ UNCHANGED <<busy_count, myfilename, demuxfd, demuxfd_count, dmx, starts>>
  BY DEF MainLoad, flags, fds
<1>2. MainOK'
  BY <1>1 DEF RecordingsOK, MainOK, Claiming, Counting, Live
<1>3. PidsOK'
  BY <1>1 DEF RecordingsOK, PidsOK, Counting, Live
<1>4. StreamOK'
  BY <1>1 DEF RecordingsOK, StreamOK, Claiming, Preparing, Begun, Counting, Live
<1> QED BY <1>2, <1>3, <1>4 DEF RecordingsOK

LEMMA StoreOK ==
  ASSUME Types, RecordingsOK, UNCHANGED write_ts, MainStore
  PROVE  RecordingsOK'
<1>1. /\ main.pc = "store" /\ busy_count' = Counted(main.tmp + main.add)
      /\ main' = [main EXCEPT !.pc = main.then]
      /\ UNCHANGED <<myfilename, demuxfd, demuxfd_count, dmx, starts>>
  BY DEF MainStore, fds
<1>2. main \in Mains /\ main.then \in MainPcs
  BY DEF Types, MainTypes, Mains
<1>3. /\ main'.pc = main.then /\ main'.add = main.add /\ main'.then = main.then
      /\ main'.next = main.next
  BY <1>1, <1>2, GoesTo
<1>4. \/ main.add = 1 /\ main.then \in {"claimed", "create", "release"}
      \/ main.add = -1 /\ main.then \in {"idle", "failed", "created"}
  BY <1>1 DEF RecordingsOK, MainOK
<1>5. MainOK'
  BY <1>1, <1>3, <1>4 DEF RecordingsOK, MainOK, Claiming, Counting, Live
<1>6. PidsOK'
  BY <1>1, <1>3, <1>4 DEF RecordingsOK, PidsOK, Counting, Live
<1>7. ASSUME write_ts PROVE busy_count' = One(Live(Dvr)') + One(Preparing(main'))
  <2>1. /\ busy_count = One(Live(Dvr)) + One(Preparing(main)) /\ main.tmp = busy_count
        /\ main.then \in {"claimed", "idle", "failed"}
    BY <1>1, <1>7 DEF RecordingsOK, StreamOK
  <2>2. ~Live(Dvr) /\ ~Live(Dvr)'
    BY <1>1, <1>4, <1>7 DEF RecordingsOK, StreamOK, Claiming, Preparing, Counting, Live
  <2>3. CASE main.add = 1
    <3>1. ~Preparing(main) /\ Preparing(main')
      BY <1>1, <1>3, <1>4, <2>1, <2>3, SMTT(30) DEF Preparing
    <3>2. main.tmp + main.add = 1
      BY <2>1, <2>2, <2>3, <3>1, SMTT(30) DEF One
    <3> QED BY <1>1, <2>2, <3>1, <3>2, CountedFacts, SMTT(30) DEF One
  <2>4. CASE main.add = -1
    <3>1. Preparing(main) /\ ~Preparing(main')
      BY <1>1, <1>3, <1>4, <2>1, <2>4, SMTT(30) DEF Preparing
    <3>2. main.tmp + main.add = 0
      BY <2>1, <2>2, <2>4, <3>1, SMTT(30) DEF One
    <3> QED BY <1>1, <2>2, <3>1, <3>2, CountedFacts, SMTT(30) DEF One
  <2> QED BY <1>4, <2>3, <2>4
<1>8. ASSUME write_ts PROVE dmx[Dvr].pc # "store"
  BY <1>1, <1>4, <1>8 DEF RecordingsOK, StreamOK, Claiming, Preparing, Counting, Live
<1>9. StreamOK'
  BY <1>1, <1>3, <1>4, <1>7, <1>8
     DEF RecordingsOK, StreamOK, Claiming, Preparing, Begun, Counting, Live
<1> QED BY <1>5, <1>6, <1>9 DEF RecordingsOK

(* A step of the main thread that changes nothing but its place, to p, and *)
(* does not claim anything                                                 *)
LEMMA PlaceOK ==
  ASSUME Types, RecordingsOK, UNCHANGED write_ts,
         UNCHANGED <<busy_count, myfilename, demuxfd, demuxfd_count, dmx, starts>>,
         main.pc \in {"idle", "sleep", "created", "stop"},
         main'.pc \in {"idle", "sleep", "created", "stop"},
         main'.pc = "sleep" => starts < MaxStarts[write_ts]
  PROVE  RecordingsOK'
<1>1. MainOK'
  BY DEF RecordingsOK, MainOK, Claiming, Counting, Live
<1>2. PidsOK'
  BY DEF RecordingsOK, PidsOK, Counting, Live
<1>3. Preparing(main) = FALSE /\ Preparing(main') = FALSE
  BY DEF Preparing
<1>4. ~Begun(main) /\ ~Begun(main') /\ ~Claiming(main')
  BY DEF Begun, Claiming, Counting
<1>5. StreamOK'
  BY <1>3, <1>4 DEF RecordingsOK, StreamOK, Live
<1> QED BY <1>1, <1>2, <1>5 DEF RecordingsOK

(* Nobody is busy when the main thread claims the recorder.                *)
LEMMA ClaimOK ==
  ASSUME Types, RecordingsOK, UNCHANGED write_ts,
         UNCHANGED <<busy_count, myfilename, demuxfd, demuxfd_count, dmx, starts>>,
         main.pc \in {"idle", "sleep"}, busy_count = 0, Count(1, "claimed"),
         starts < MaxStarts[write_ts]
  PROVE  RecordingsOK'
<1>1. main'.pc = "load" /\ main'.add = 1 /\ main'.then = "claimed"
  BY DEF Count
<1>2. \A t \in Threads : ~Live(t)
  <2>1. CASE write_ts
    <3>1. One(Live(Dvr)) + One(Preparing(main)) = 0 /\ \A t \in Pids : ~Live(t)
      BY <2>1 DEF RecordingsOK, StreamOK
    <3>2. ~Live(Dvr)
      BY <3>1, SMTT(30) DEF One
    <3> QED BY <3>1, <3>2, ThreadFacts
  <2>2. CASE ~write_ts
    <3>1. starts = 0
      BY <2>2, BoundFacts, SMTT(30) DEF Types, MainTypes
    <3> QED BY <2>2, <3>1 DEF RecordingsOK, PidsOK
  <2> QED BY <2>1, <2>2
<1>3. MainOK'
  BY <1>1, <1>2 DEF RecordingsOK, MainOK, Claiming, Counting, Live
<1>4. PidsOK'
  BY <1>1 DEF RecordingsOK, PidsOK, Counting, Live
<1>5. Preparing(main) = FALSE /\ Preparing(main') = FALSE
  BY <1>1, SMTT(30) DEF Preparing
<1>6. ~Begun(main) /\ ~Begun(main')
  BY <1>1 DEF Begun, Counting
<1>7. StreamOK'
  BY <1>1, <1>2, <1>5, <1>6, ThreadFacts DEF RecordingsOK, StreamOK, Live
<1> QED BY <1>3, <1>4, <1>7 DEF RecordingsOK

LEMMA SetFilenameOK ==
  ASSUME Types, RecordingsOK, UNCHANGED write_ts, SetFilename
  PROVE  RecordingsOK'
<1>1. /\ main.pc = "claimed" /\ main' = [main EXCEPT !.pc = "setup"]
      /\ starts' = starts + 1 /\ myfilename' = [of |-> starts + 1, cut |-> FALSE]
      /\ UNCHANGED <<busy_count, demuxfd, demuxfd_count, dmx>>
  BY DEF SetFilename, flags, fds
<1>2. main'.pc = "setup" /\ main'.add = main.add /\ main'.next = main.next
  BY <1>1, GoesTo DEF Types, MainTypes, MainPcs
<1>3. starts \in Nat /\ starts < MaxStarts[write_ts] /\ MaxStarts[write_ts] \in Nat
  BY <1>1, BoundFacts DEF RecordingsOK, MainOK, Types, MainTypes
<1>4. \A t \in Threads : ~Live(t) /\ ~Live(t)'
  BY <1>1 DEF RecordingsOK, MainOK, Claiming, Live
<1>5. starts' > 0 /\ starts' <= MaxStarts[write_ts] /\ myfilename'.of = starts'
  BY <1>1, <1>3, SMTT(30)
<1>6. MainOK'
  BY <1>2, <1>4, <1>5 DEF MainOK, Claiming, Counting
<1>7. PidsOK'
  BY <1>2, <1>4, ThreadFacts DEF PidsOK, Counting
<1>8. Preparing(main) = TRUE /\ Preparing(main') = TRUE /\ ~Begun(main) /\ ~Begun(main')
  BY <1>1, <1>2 DEF Preparing, Begun, Counting
<1>9. dmx[Dvr].pc = "gone" /\ ~Live(Dvr) /\ ~Live(Dvr)' /\ \A t \in Pids : ~Live(t)'
  BY <1>4, ThreadFacts DEF Live, Threads
<1>10. StreamOK'
  BY <1>1, <1>2, <1>5, <1>8, <1>9 DEF RecordingsOK, StreamOK, One
<1> QED BY <1>6, <1>7, <1>10 DEF RecordingsOK

(* start_recording gives up: before the filters are set, or when a thread  *)
(* cannot be created.                                                      *)
LEMMA GivesUpOK ==
  ASSUME Types, RecordingsOK, UNCHANGED write_ts, SetupFails \/ CreateFails
  PROVE  RecordingsOK'
<1>1. /\ main.pc \in {"setup", "create"} /\ main'.pc = "load" /\ main'.add = -1
      /\ main'.then = IF main.pc = "setup" THEN "idle" ELSE "failed"
      /\ UNCHANGED <<busy_count, myfilename, demuxfd, demuxfd_count, dmx, starts>>
  BY SMTT(30) DEF SetupFails, CreateFails, Count, flags, fds
<1>2. MainOK'
  BY <1>1 DEF RecordingsOK, MainOK, Claiming, Counting, Live
<1>3. PidsOK'
  BY <1>1 DEF RecordingsOK, PidsOK, Counting, Live
<1>4. Preparing(main) = TRUE /\ Preparing(main') = TRUE /\ (Begun(main') <=> Begun(main))
  BY <1>1 DEF Preparing, Begun, Counting
<1>5. StreamOK'
  BY <1>1, <1>4 DEF RecordingsOK, StreamOK, Live
<1> QED BY <1>2, <1>3, <1>5 DEF RecordingsOK

LEMMA SetupOK ==
  ASSUME Types, RecordingsOK, UNCHANGED write_ts, Setup
  PROVE  RecordingsOK'
<1>1. /\ main.pc = "setup" /\ main'.pc = "create" /\ main'.next = 0
      /\ demuxfd' = Pids /\ demuxfd_count' = NumPids
      /\ UNCHANGED <<busy_count, myfilename, dmx, starts>>
  BY DEF Setup
<1>2. \A t \in Threads : ~Live(t) /\ ~Live(t)'
  BY <1>1 DEF RecordingsOK, MainOK, Claiming, Live
<1>3. MainOK'
  BY <1>1 DEF RecordingsOK, MainOK, Claiming, Counting
<1>4. PidsOK'
  BY <1>1, <1>2, ThreadFacts, SizeFacts DEF PidsOK, Counting, Threads
<1>5. Preparing(main) = TRUE /\ Preparing(main') = TRUE /\ Begun(main')
  BY <1>1 DEF Preparing, Begun
<1>6. dmx[Dvr].pc = "gone" /\ ~Live(Dvr) /\ ~Live(Dvr)' /\ \A t \in Pids : ~Live(t)'
  BY <1>2, ThreadFacts DEF Live, Threads
<1>7. demuxfd' \subseteq 0 .. demuxfd_count' - 1
  BY <1>1, SizeFacts DEF Pids
<1>8. StreamOK'
  BY <1>1, <1>5, <1>6, <1>7 DEF RecordingsOK, StreamOK, One
<1> QED BY <1>3, <1>4, <1>8 DEF RecordingsOK

LEMMA CreateFailedOK ==
  ASSUME Types, RecordingsOK, UNCHANGED write_ts, CreateFailed
  PROVE  RecordingsOK'
<1>1. /\ main.pc = "failed" /\ main' = [main EXCEPT !.pc = "idle"]
      /\ UNCHANGED <<busy_count, myfilename, dmx, starts>>
      /\ write_ts => demuxfd' = {} /\ demuxfd_count' = 0
  BY DEF CreateFailed
<1>2. main'.pc = "idle"
  BY <1>1, GoesTo DEF Types, MainTypes, MainPcs
<1>3. MainOK'
  BY <1>1, <1>2 DEF RecordingsOK, MainOK, Claiming, Counting, Live
<1>4. PidsOK'
  BY <1>1, <1>2 DEF RecordingsOK, PidsOK, Counting, Live
<1>5. Preparing(main) = FALSE /\ Preparing(main') = FALSE /\ ~Begun(main') /\ ~Claiming(main')
  BY <1>1, <1>2 DEF Preparing, Begun, Counting, Claiming
<1>6. StreamOK'
  BY <1>1, <1>2, <1>5 DEF RecordingsOK, StreamOK, Live
<1> QED BY <1>3, <1>4, <1>6 DEF RecordingsOK

LEMMA ReleaseOK ==
  ASSUME Types, RecordingsOK, UNCHANGED write_ts, Release
  PROVE  RecordingsOK'
<1>1. /\ main.pc = "release" /\ main'.pc = "load" /\ main'.add = -1
      /\ main'.then = "created"
      /\ UNCHANGED <<busy_count, myfilename, demuxfd, demuxfd_count, dmx, starts>>
  BY DEF Release, Count, flags, fds
<1>2. ~write_ts
  BY <1>1 DEF RecordingsOK, StreamOK
<1>3. MainOK'
  BY <1>1 DEF RecordingsOK, MainOK, Claiming, Counting, Live
<1>4. PidsOK'
  BY <1>1 DEF RecordingsOK, PidsOK, Counting, Live
<1> QED BY <1>2, <1>3, <1>4 DEF RecordingsOK, StreamOK

LEMMA CreateThreadOK ==
  ASSUME Types, RecordingsOK, UNCHANGED write_ts, CreateThread
  PROVE  RecordingsOK'
<1> DEFINE d == Dmx("start", myfilename.of, 0, 0)
<1>1. /\ main.pc = "create" /\ dmx' = [dmx EXCEPT ![Creating] = d]
      /\ UNCHANGED <<busy_count, myfilename, demuxfd, demuxfd_count, starts>>
  BY DEF CreateThread, flags, fds
<1>2. d.pc = "start" /\ d.of = myfilename.of
  BY DEF Dmx
<1> HIDE DEF d
<1>3. Creating \in Threads /\ ~Live(Creating) /\ (~write_ts => Creating \in Pids)
  BY <1>1, ThreadToCreate DEF RecordingsOK
<1>4. /\ dmx'[Creating] = d
      /\ \A t \in Threads : t # Creating => dmx'[t] = dmx[t]
  BY <1>1, <1>3 DEF Types, ThreadTypes
<1>5. CASE write_ts
  <2>1. main' = [main EXCEPT !.pc = "created"] /\ Creating = Dvr
    BY <1>5 DEF CreateThread, Creating
  <2>2. main'.pc = "created"
    BY <2>1, GoesTo DEF Types, MainTypes, MainPcs
  <2>3. MainOK' /\ PidsOK'
    BY <1>1, <1>5, <2>2 DEF RecordingsOK, MainOK, PidsOK, Claiming, Counting
  <2>4. Preparing(main) = TRUE /\ Preparing(main') = FALSE /\ ~Begun(main') /\ ~Claiming(main')
    BY <1>1, <2>2 DEF Preparing, Begun, Counting, Claiming
  <2>5. /\ dmx'[Dvr].pc = "start" /\ dmx'[Dvr].of = myfilename.of
        /\ Live(Dvr) = FALSE /\ Live(Dvr)' = TRUE
    BY <1>2, <1>3, <1>4, <2>1 DEF Live
  <2>6. \A t \in Pids : ~Live(t)'
    BY <1>4, <1>5, <2>1, ThreadFacts DEF RecordingsOK, StreamOK, Live, Threads
  <2>7. busy_count = One(FALSE) + One(TRUE)
    BY <1>5, <2>4, <2>5 DEF RecordingsOK, StreamOK
  <2>8. busy_count' = One(Live(Dvr)') + One(Preparing(main'))
    BY <1>1, <2>4, <2>5, <2>7, SMTT(30) DEF One
  <2>9. dmx'[Dvr].of = starts' /\ starts' > 0
    BY <1>1, <1>5, <2>5 DEF RecordingsOK, StreamOK, MainOK
  <2>10. StreamOK'
    BY <1>1, <1>5, <2>2, <2>4, <2>5, <2>6, <2>8, <2>9 DEF RecordingsOK, StreamOK
  <2> QED BY <2>3, <2>10 DEF RecordingsOK
<1>6. CASE ~write_ts
  <2>1. /\ main'.pc = "load" /\ main'.add = 1 /\ main'.next = main.next + 1
        /\ main'.then = IF main.next + 1 < NumPids THEN "create" ELSE "release"
        /\ Creating = main.next /\ main.next \in Nat
    BY <1>6, SMTT(30) DEF CreateThread, Creating, Types, MainTypes, Mains
  <2>2. MainOK'
    BY <1>1, <2>1 DEF RecordingsOK, MainOK, Claiming, Counting
  <2>3. starts \in Nat /\ starts > 0
    BY <1>1 DEF RecordingsOK, MainOK, Types, MainTypes
  <2>4. ~Live(Dvr)'
    BY <1>3, <1>4, <1>6, ThreadFacts DEF RecordingsOK, PidsOK, Live
  <2>5. main'.next < NumPids => \A t \in Pids : main'.next <= t => ~Live(t)'
    BY <1>1, <1>4, <1>6, <2>1, ThreadFacts, SizeFacts, SMTT(30)
       DEF RecordingsOK, PidsOK, Live, Threads
  <2>6. PidsOK'
    BY <1>1, <2>1, <2>3, <2>4, <2>5, SMTT(30) DEF PidsOK, Counting
  <2> QED BY <1>6, <2>2, <2>6 DEF RecordingsOK, StreamOK
<1> QED BY <1>5, <1>6

LEMMA MainStepOK ==
  ASSUME Types, RecordingsOK, UNCHANGED write_ts, MainNext
  PROVE  RecordingsOK'
<1>1. main \in Mains /\ "sleep" \in MainPcs /\ "idle" \in MainPcs /\ "stop" \in MainPcs
  BY DEF Types, MainTypes, MainPcs
<1>2. CASE StartRecording
  <2>1. /\ main.pc = "idle" /\ starts < MaxStarts[write_ts]
        /\ UNCHANGED <<busy_count, myfilename, demuxfd, demuxfd_count, dmx, starts>>
    BY <1>2 DEF StartRecording, flags, fds
  <2>2. CASE main' = [main EXCEPT !.pc = "sleep"]
    <3>1. main'.pc = "sleep"
      BY <1>1, <2>2, GoesTo
    <3> QED BY <2>1, <3>1, PlaceOK
  <2>3. CASE busy_count = 0 /\ Count(1, "claimed")
    BY <2>1, <2>3, ClaimOK
  <2> QED BY <1>2, <2>2, <2>3 DEF StartRecording
<1>3. CASE Attempt2
  <2>1. /\ main.pc = "sleep" /\ starts < MaxStarts[write_ts]
        /\ UNCHANGED <<busy_count, myfilename, demuxfd, demuxfd_count, dmx, starts>>
    BY <1>3 DEF Attempt2, flags, fds, RecordingsOK, MainOK
  <2>2. CASE main' = [main EXCEPT !.pc = "idle"]
    <3>1. main'.pc = "idle"
      BY <1>1, <2>2, GoesTo
    <3> QED BY <2>1, <3>1, PlaceOK
  <2>3. CASE busy_count = 0 /\ Count(1, "claimed")
    BY <2>1, <2>3, ClaimOK
  <2> QED BY <1>3, <2>2, <2>3 DEF Attempt2
<1>4. CASE Started \/ StopRecording \/ StopDone
  <2>1. /\ main.pc \in {"idle", "created", "stop"}
        /\ \/ main' = main \/ main' = [main EXCEPT !.pc = "idle"]
           \/ main' = [main EXCEPT !.pc = "stop"]
        /\ UNCHANGED <<busy_count, myfilename, demuxfd, demuxfd_count, dmx, starts>>
    BY <1>4 DEF Started, StopRecording, StopDone, flags, fds
  <2>2. main'.pc \in {"idle", "created", "stop"}
    BY <1>1, <2>1, GoesTo
  <2> QED BY <2>1, <2>2, PlaceOK
<1> QED
  BY <1>2, <1>3, <1>4, LoadOK, StoreOK, SetFilenameOK, GivesUpOK, SetupOK, CreateThreadOK,
     ReleaseOK, CreateFailedOK DEF MainNext

-----------------------------------------------------------------------------
(***************************************************************************)
(* What the threads do to the recordings                                   *)
(***************************************************************************)
LEMMA NobodyBorn ==
  ASSUME Types, RecordingsOK, UNCHANGED <<write_ts, main, starts>>,
         myfilename'.of = myfilename.of,
         \A t \in Threads : Live(t)' => Live(t)
  PROVE  MainOK' /\ PidsOK'
<1>1. MainOK'
  BY DEF RecordingsOK, MainOK
<1>2. PidsOK'
  BY ThreadFacts DEF RecordingsOK, PidsOK, Threads
<1> QED BY <1>1, <1>2

LEMMA FileKeeps ==
  ASSUME Types, RecordingsOK, UNCHANGED write_ts, NEW t \in Threads, FileNext(t)
  PROVE  RecordingsOK'
<1>1. UNCHANGED <<busy_count, demuxfd, demuxfd_count, dmx, myfilename, main, starts>>
  BY DEF FileNext, GetVector, Open, Write, Empty, filerest, fds, mainvars
<1>2. \A s \in Threads : Live(s)' <=> Live(s)
  BY <1>1 DEF Live
<1>3. StreamOK'
  BY <1>1 DEF RecordingsOK, StreamOK, Live
<1> QED BY <1>1, <1>2, <1>3, NobodyBorn DEF RecordingsOK

LEMMA ReportKeeps ==
  ASSUME Types, RecordingsOK, UNCHANGED write_ts, NEW r \in reports, Report(r)
  PROVE  RecordingsOK' /\ Types' /\ (ThreadsOK => ThreadsOK')
<1>1. /\ UNCHANGED <<exit_flag, busy_count, demuxfd, demuxfd_count, record_start_time>>
      /\ UNCHANGED <<dmx, file, ring, main, starts>>
  BY DEF Report, ReportStatus, ReportSend, fds, flags, mainvars
<1>2. myfilename' \in [of : Nat, cut : BOOLEAN] /\ myfilename'.of = myfilename.of
  BY DEF Report, ReportStatus, ReportSend, mainvars, Types, MainTypes
<1>3. \A s \in Threads : Live(s)' <=> Live(s)
  BY <1>1 DEF Live
<1>4. StreamOK'
  BY <1>1 DEF RecordingsOK, StreamOK, Live
<1>5. RecordingsOK'
  BY <1>1, <1>2, <1>3, <1>4, NobodyBorn DEF RecordingsOK
<1>6. Types'
  BY <1>1, <1>2 DEF Types, MainTypes, ThreadTypes
<1>7. ThreadsOK => ThreadsOK'
  BY <1>1 DEF ThreadsOK, Running
<1> QED BY <1>5, <1>6, <1>7

Walking == DmxPcs \ Idling

LEMMA WalkTo ==
  ASSUME ThreadTypes, NEW t \in Threads, NEW q \in DmxPcs, DmxTo(t, q)
  PROVE  /\ dmx'[t].pc = q /\ dmx'[t].of = dmx[t].of
         /\ \A s \in Threads : s # t => dmx'[s] = dmx[s]
BY DEF ThreadTypes, Dmxs, DmxTo

LEMMA RestartTo ==
  ASSUME ThreadTypes, NEW t \in Threads, NEW q \in Walking, NEW todo, NEW n,
         dmx' = [dmx EXCEPT ![t] = Dmx(q, dmx[t].of, todo, n)]
  PROVE  /\ dmx'[t].pc \in Walking /\ dmx'[t].of = dmx[t].of
         /\ \A s \in Threads : s # t => dmx'[s] = dmx[s]
<1>1. dmx'[t] = Dmx(q, dmx[t].of, todo, n) /\ \A s \in Threads : s # t => dmx'[s] = dmx[s]
  BY DEF ThreadTypes
<1>2. Dmx(q, dmx[t].of, todo, n).pc = q /\ Dmx(q, dmx[t].of, todo, n).of = dmx[t].of
  BY DEF Dmx
<1> QED BY <1>1, <1>2

(* What the steps between the creation of the FileThread and its join do   *)
(* to what the threads share                                               *)
LEMMA Walks ==
  ASSUME Types, NEW t \in Threads, DmxNext(t), ~Join(t), ~DecLoad(t), ~DecStore(t)
  PROVE  /\ dmx[t].pc \in Walking \cup {"start"} /\ dmx'[t].pc \in Walking
         /\ dmx'[t].of = dmx[t].of
         /\ \A s \in Threads : s # t => dmx'[s] = dmx[s]
         /\ UNCHANGED <<busy_count, demuxfd_count>> /\ demuxfd' \subseteq demuxfd
<1>1. ThreadTypes
  BY DEF Types
<1>2. CASE DmxStart(t) \/ Sync(t) \/ SyncPoll(t) \/ Vector(t) \/ Space(t) \/ Read(t) \/ Close(t)
  <2>1. /\ dmx[t].pc \in Walking \cup {"start"} /\ \E q \in Walking : DmxTo(t, q)
        /\ UNCHANGED <<busy_count, demuxfd_count>> /\ demuxfd' \subseteq demuxfd
    BY <1>2 DEF DmxStart, Sync, SyncPoll, Vector, Space, Read, Close, Walking, DmxPcs,
                Idling, flags, fds
  <2>2. Walking \subseteq DmxPcs
    BY DEF Walking
  <2> QED BY <1>1, <2>1, <2>2, WalkTo
<1>3. CASE First(t)
  <2>1. /\ dmx[t].pc \in Walking /\ UNCHANGED <<busy_count, demuxfd_count, demuxfd>>
        /\ "vector" \in Walking /\ "close" \in Walking /\ "close" \in DmxPcs
    BY <1>3 DEF First, Walking, DmxPcs, Idling, flags, fds
  <2>2. \/ \E n \in Int : dmx' = [dmx EXCEPT ![t] = Dmx("vector", dmx[t].of, InSize - n, n)]
        \/ DmxTo(t, "close")
    BY <1>3, SizeFacts, SMTT(30) DEF First
  <2>3. CASE DmxTo(t, "close")
    BY <1>1, <2>1, <2>3, WalkTo
  <2>4. CASE \E n \in Int : dmx' = [dmx EXCEPT ![t] = Dmx("vector", dmx[t].of, InSize - n, n)]
    <3>1. PICK n \in Int : dmx' = [dmx EXCEPT ![t] = Dmx("vector", dmx[t].of, InSize - n, n)]
      BY <2>4
    <3> QED BY <1>1, <2>1, <3>1, RestartTo
  <2> QED BY <2>2, <2>3, <2>4
<1>4. CASE Poll(t)
  <2>1. /\ dmx[t].pc \in Walking /\ UNCHANGED <<busy_count, demuxfd_count, demuxfd>>
        /\ "vector" \in Walking /\ "read" \in Walking /\ "read" \in DmxPcs
    BY <1>4 DEF Poll, Walking, DmxPcs, Idling, flags, fds
  <2>2. ASSUME NEW n \in 1 .. dmx[t].todo,
          dmx' = [dmx EXCEPT ![t] =
               Dmx(IF n = dmx[t].todo THEN "vector" ELSE "read", dmx[t].of,
                   IF n = dmx[t].todo THEN InSize ELSE dmx[t].todo - n,
                   dmx[t].received + n)]
        PROVE  /\ dmx'[t].pc \in Walking /\ dmx'[t].of = dmx[t].of
               /\ \A s \in Threads : s # t => dmx'[s] = dmx[s]
    <3>1. (IF n = dmx[t].todo THEN "vector" ELSE "read") \in Walking
      BY <2>1
    <3> QED BY <1>1, <2>2, <3>1, RestartTo
  <2>3. CASE DmxTo(t, "read")
    BY <1>1, <2>1, <2>3, WalkTo
  <2> QED BY <1>4, <2>1, <2>2, <2>3 DEF Poll
<1> QED BY <1>2, <1>3, <1>4 DEF DmxNext

LEMMA DmxLive ==
  ASSUME NEW t \in Threads, DmxNext(t)
  PROVE  Live(t)
BY DEF DmxNext, DmxStart, Sync, SyncPoll, First, Vector, Space, Read, Poll, Close,
       Join, DecLoad, DecStore, Live

(* A step of the only thread of a transport stream that does not end it    *)
LEMMA StreamGoesOn ==
  ASSUME StreamOK, write_ts, Live(Dvr), Live(Dvr)',
         UNCHANGED <<write_ts, main, starts, busy_count>>,
         \A s \in Pids : Live(s)' => Live(s),
         dmx'[Dvr].of = dmx[Dvr].of,
         dmx'[Dvr].pc = "store" => dmx'[Dvr].tmp = busy_count,
         demuxfd' \subseteq 0 .. demuxfd_count' - 1,
         demuxfd' # {} => dmx'[Dvr].pc \notin {"load", "store"}
  PROVE  StreamOK'
<1>1. main' = main /\ starts' = starts /\ busy_count' = busy_count /\ write_ts'
  OBVIOUS
<1>2. busy_count' = (One(Live(Dvr)) + One(Preparing(main)))'
  BY <1>1 DEF StreamOK, One
<1>3. ~(Claiming(main) \/ Preparing(main) \/ Begun(main))'
  BY <1>1 DEF StreamOK
<1>4. (main.pc = "store" => main.tmp = busy_count)' /\ (main.pc # "release")'
      /\ (main.pc \in {"load", "store"} => main.then \in {"claimed", "idle", "failed"})'
  BY <1>1 DEF StreamOK
<1>5. (\A t \in Pids : ~Live(t))' /\ starts' > 0 /\ dmx'[Dvr].of = starts'
  BY <1>1 DEF StreamOK, Pids
<1> QED BY <1>1, <1>2, <1>3, <1>4, <1>5 DEF StreamOK

LEMMA JoinKeeps ==
  ASSUME Types, StreamOK, write_ts, UNCHANGED write_ts, Join(Dvr)
  PROVE  StreamOK'
<1>1. /\ UNCHANGED <<write_ts, main, starts, busy_count>>
      /\ DmxTo(Dvr, "load") /\ dmx[Dvr].pc = "join"
      /\ demuxfd' = demuxfd \ (0 .. demuxfd_count - 1)
  BY DEF Join, flags, mainvars
<1>2. /\ dmx'[Dvr].pc = "load" /\ dmx'[Dvr].of = dmx[Dvr].of
      /\ \A s \in Threads : s # Dvr => dmx'[s] = dmx[s]
  <2>1. "load" \in DmxPcs
    BY DEF DmxPcs
  <2> QED BY <1>1, <2>1, ThreadFacts, WalkTo DEF Types
<1>3. demuxfd' = {}
  BY <1>1 DEF StreamOK
<1>4. Live(Dvr) /\ Live(Dvr)' /\ \A s \in Pids : Live(s)' => Live(s)
  BY <1>1, <1>2, ThreadFacts DEF Live, Threads
<1> QED BY <1>1, <1>2, <1>3, <1>4, StreamGoesOn

LEMMA DecLoadKeeps ==
  ASSUME Types, StreamOK, write_ts, UNCHANGED write_ts, DecLoad(Dvr)
  PROVE  StreamOK'
<1>1. /\ UNCHANGED <<write_ts, main, starts, busy_count, demuxfd, demuxfd_count>>
      /\ dmx[Dvr].pc = "load"
  BY DEF DecLoad, flags, fds, mainvars
<1>2. /\ dmx'[Dvr].pc = "store" /\ dmx'[Dvr].of = dmx[Dvr].of /\ dmx'[Dvr].tmp = busy_count
      /\ \A s \in Threads : s # Dvr => dmx'[s] = dmx[s]
  BY ThreadFacts DEF DecLoad, Types, ThreadTypes
<1>3. Live(Dvr) /\ Live(Dvr)' /\ \A s \in Pids : Live(s)' => Live(s)
  BY <1>1, <1>2, ThreadFacts DEF Live, Threads
<1>4. demuxfd' = {}
  BY <1>1, <1>3 DEF StreamOK
<1> QED BY <1>1, <1>2, <1>3, <1>4, StreamGoesOn

LEMMA DecStoreKeeps ==
  ASSUME Types, MainOK, StreamOK, write_ts, UNCHANGED write_ts, DecStore(Dvr)
  PROVE  StreamOK'
<1>1. /\ main' = main /\ starts' = starts /\ demuxfd' = demuxfd
      /\ demuxfd_count' = demuxfd_count
      /\ dmx[Dvr].pc = "store" /\ busy_count' = Counted(dmx[Dvr].tmp - 1)
  BY DEF DecStore, fds, mainvars
<1>2. dmx'[Dvr].pc = "gone" /\ \A s \in Threads : s # Dvr => dmx'[s] = dmx[s]
  BY ThreadFacts, NoThreadIs DEF DecStore, Types, ThreadTypes
<1>3. Live(Dvr) /\ ~Live(Dvr)' /\ (\A s \in Pids : ~Live(s))'
  BY <1>1, <1>2, ThreadFacts DEF Live, Threads, StreamOK, Pids
<1>4. ~(Claiming(main) \/ Preparing(main) \/ Begun(main)) /\ demuxfd = {}
  BY <1>1, <1>3 DEF StreamOK
<1>5. dmx[Dvr].tmp = 1
  BY <1>1, <1>3, <1>4, SMTT(30) DEF StreamOK, One
<1>6. busy_count' = 0
  BY <1>1, <1>5, CountedFacts, SMTT(30)
<1>7. main.pc # "store" /\ main.pc # "release"
      /\ (main.pc \in {"load", "store"} => main.then \in {"claimed", "idle", "failed"})
  BY <1>4 DEF MainOK, StreamOK, Claiming, Counting, Preparing
<1>8. (busy_count = One(Live(Dvr)) + One(Preparing(main)))'
  BY <1>1, <1>3, <1>4, <1>6, SMTT(30) DEF One
<1> QED BY <1>1, <1>2, <1>3, <1>4, <1>7, <1>8 DEF StreamOK

LEMMA DmxKeeps ==
  ASSUME Types, RecordingsOK, UNCHANGED write_ts, NEW t \in Threads, DmxNext(t)
  PROVE  RecordingsOK'
<1>1. Live(t)
  BY DmxLive
<1>2. \A s \in Threads : s # t => dmx'[s] = dmx[s]
  <2>1. CASE Join(t)
    <3>1. "load" \in DmxPcs /\ DmxTo(t, "load")
      BY <2>1 DEF Join, DmxPcs
    <3> QED BY <3>1, WalkTo DEF Types
  <2>2. CASE DecLoad(t) \/ DecStore(t)
    BY <2>2 DEF DecLoad, DecStore, Types, ThreadTypes
  <2>3. CASE ~Join(t) /\ ~DecLoad(t) /\ ~DecStore(t)
    BY <2>3, Walks
  <2> QED BY <2>1, <2>2, <2>3
<1>3. \A s \in Threads : Live(s)' => Live(s)
  BY <1>1, <1>2 DEF Live
<1>4. UNCHANGED <<myfilename, main, starts>>
  BY DEF DmxNext, DmxStart, Sync, SyncPoll, First, Vector, Space, Read, Poll, Close,
         Join, DecLoad, DecStore, mainvars
<1>5. ASSUME write_ts PROVE StreamOK'
  <2>1. t = Dvr
    BY <1>1, <1>5, ThreadFacts DEF RecordingsOK, StreamOK
  <2>2. CASE ~Join(t) /\ ~DecLoad(t) /\ ~DecStore(t)
    <3>1. /\ dmx'[Dvr].pc \in Walking /\ dmx'[Dvr].of = dmx[Dvr].of
          /\ UNCHANGED <<busy_count, demuxfd_count>> /\ demuxfd' \subseteq demuxfd
      BY <2>1, <2>2, Walks
    <3>2. Live(Dvr)' /\ dmx'[Dvr].pc \notin {"load", "store"}
      BY <3>1 DEF Live, Walking, Idling
    <3>3. demuxfd' \subseteq 0 .. demuxfd_count' - 1
      BY <1>5, <3>1 DEF RecordingsOK, StreamOK
    <3>4. \A s \in Pids : Live(s)' => Live(s)
      BY <1>3 DEF Threads
    <3> QED BY <1>1, <1>4, <1>5, <2>1, <3>1, <3>2, <3>3, <3>4, StreamGoesOn
               DEF RecordingsOK
  <2>3. CASE Join(t)
    BY <1>5, <2>1, <2>3, JoinKeeps DEF RecordingsOK
  <2>4. CASE DecLoad(t)
    BY <1>5, <2>1, <2>4, DecLoadKeeps DEF RecordingsOK
  <2>5. CASE DecStore(t)
    BY <1>5, <2>1, <2>5, DecStoreKeeps DEF RecordingsOK
  <2> QED BY <2>2, <2>3, <2>4, <2>5
<1>6. StreamOK'
  <2>1. CASE write_ts
    BY <1>5, <2>1
  <2>2. CASE ~write_ts
    BY <2>2 DEF StreamOK
  <2> QED BY <2>1, <2>2
<1> QED BY <1>3, <1>4, <1>6, NobodyBorn DEF RecordingsOK

-----------------------------------------------------------------------------
(***************************************************************************)
(* The invariant is inductive                                              *)
(***************************************************************************)
LEMMA InitInv == Init => RecorderInv
<1> SUFFICES ASSUME Init PROVE RecorderInv
  OBVIOUS
<1>1. ThreadTypes
  BY NoThreadIs DEF Init, ThreadTypes
<1>2. MainTypes
  <2>1. write_ts \in BOOLEAN /\ record_start_time \in BOOLEAN
    BY DEF Init
  <2>2. /\ exit_flag \in Flags /\ busy_count \in Bytes /\ starts \in Nat
        /\ demuxfd \subseteq Pids /\ demuxfd_count \in 0 .. NumPids
    BY SizeFacts, SMTT(30) DEF Init, Flags, Bytes
  <2>3. myfilename \in [of : Nat, cut : BOOLEAN]
    BY DEF Init
  <2>4. main \in Mains
    BY SMTT(30) DEF Init, Mains, MainPcs, Bytes
  <2> QED BY <2>1, <2>2, <2>3, <2>4 DEF MainTypes
<1>3. \A t \in Threads : ~Live(t) /\ dmx[t] = NoDmx /\ file[t] = NoFile /\ ring[t] = 0
  BY NoThreadIs DEF Init, Live
<1>4. ThreadsOK
  <2>1. ThreadOK(NoDmx, NoFile, 0, Running)
    BY NoThreadIs, SizeFacts, SMTT(30) DEF ThreadOK, Flow, Room, Idling
  <2> QED BY <1>3, <2>1 DEF ThreadsOK
<1>5. main.pc = "idle" /\ starts = 0 /\ myfilename.of = 0 /\ busy_count = 0 /\ demuxfd = {}
  BY DEF Init
<1>6. MainOK
  BY <1>2, <1>3, <1>5, BoundFacts, SMTT(30) DEF MainTypes, MainOK, Claiming, Counting
<1>7. PidsOK
  BY <1>3, <1>5, ThreadFacts DEF PidsOK, Counting
<1>8. StreamOK
  <2>1. dmx[Dvr].pc = "gone" /\ ~Live(Dvr) /\ \A t \in Pids : ~Live(t)
    BY <1>3, ThreadFacts, NoThreadIs DEF Threads
  <2>2. One(Live(Dvr)) = 0 /\ One(Preparing(main)) = 0
    BY <1>5, <2>1 DEF One, Preparing
  <2> QED BY <1>5, <2>1, <2>2, SMTT(30) DEF StreamOK
<1> QED BY <1>1, <1>2, <1>4, <1>6, <1>7, <1>8 DEF RecorderInv, Types

LEMMA StutterInv ==
  ASSUME RecorderInv, UNCHANGED vars
  PROVE  RecorderInv'
BY SMTT(30) DEF vars, flags, fds, RecorderInv, Types, MainTypes, ThreadTypes, ThreadsOK, Running,
       MainOK, PidsOK, StreamOK, Live

LEMMA StepInv ==
  ASSUME RecorderInv, [Next]_vars
  PROVE  RecorderInv'
<1>1. /\ Types /\ MainTypes /\ ThreadTypes /\ ThreadsOK /\ MainOK /\ PidsOK /\ StreamOK
      /\ RecordingsOK
  BY DEF RecorderInv, RecordingsOK, Types
<1>2. Types' /\ ThreadsOK' /\ RecordingsOK' => RecorderInv'
  BY DEF RecorderInv, RecordingsOK
<1>3. CASE UNCHANGED vars
  BY <1>3, StutterInv
<1>4. CASE Next
  <2>1. UNCHANGED write_ts
    BY <1>4 DEF Next
  <2>2. CASE MainNext
    <3>1. MainTypes'
      BY <1>1, <2>1, <2>2, MainTypesStep
    <3>2. ThreadTypes' /\ ThreadsOK'
      BY <1>1, <2>2, MainThreads
    <3>3. RecordingsOK'
      BY <1>1, <2>1, <2>2, MainStepOK
    <3> QED BY <1>2, <3>1, <3>2, <3>3 DEF Types
  <2>3. ASSUME NEW t \in Threads, DmxNext(t) \/ FileNext(t) PROVE RecorderInv'
    <3>1. MainTypes'
      BY <1>1, <2>1, <2>3, ThreadKeepsTypes
    <3>2. busy_count \in Bytes
      BY <1>1 DEF MainTypes
    <3>3. ThreadTypes' /\ ThreadsOK'
      BY <1>1, <2>3, <3>2, DmxOK, FileOK
    <3>4. RecordingsOK'
      BY <1>1, <2>1, <2>3, DmxKeeps, FileKeeps
    <3> QED BY <1>2, <3>1, <3>3, <3>4 DEF Types
  <2>4. ASSUME NEW r \in reports, Report(r) PROVE RecorderInv'
    BY <1>1, <1>2, <2>1, <2>4, ReportKeeps
  <2> QED BY <1>4, <2>2, <2>3, <2>4 DEF Next
<1> QED BY <1>3, <1>4

(* Every reachable state of the recorder satisfies the inductive           *)
(* invariant, for every size of ring, read and file.                       *)
THEOREM RecorderInvariant == Spec => []RecorderInv
<1>1. RecorderInv /\ [Next]_vars => RecorderInv'
  BY StepInv
<1> QED BY <1>1, InitInv, PTL DEF Spec

-----------------------------------------------------------------------------
(***************************************************************************)
(* What the invariant says                                                 *)
(***************************************************************************)
LEMMA InvTypes == RecorderInv => TypeOK
<1> SUFFICES ASSUME RecorderInv PROVE TypeOK
  OBVIOUS
<1>1. /\ exit_flag \in Flags /\ busy_count \in Bytes
      /\ demuxfd \subseteq Pids /\ demuxfd_count \in 0 .. NumPids
      /\ record_start_time \in BOOLEAN
  BY DEF RecorderInv, Types, MainTypes
<1>2. myfilename \in [of : 0 .. MaxStarts[write_ts], cut : BOOLEAN]
  <2>1. myfilename \in [of : Nat, cut : BOOLEAN] /\ write_ts \in BOOLEAN
    BY DEF RecorderInv, Types, MainTypes
  <2>2. myfilename.of <= MaxStarts[write_ts] /\ MaxStarts[write_ts] \in Nat
    BY <2>1, BoundFacts DEF RecorderInv, MainOK
  <2> QED BY <2>1, <2>2, SMTT(30)
<1>3. ASSUME NEW t \in Threads
      PROVE  /\ dmx[t].pc \in {"vector", "space", "read", "poll"} => dmx[t].todo \in 1 .. InSize
             /\ file[t].pc = "write" => file[t].left \in 1 .. file[t].readsize
             /\ file[t].remfile \in 0 .. SplitSize
             /\ ring[t] \in 0 .. RingSize - 1
  <2>1. /\ Split(file[t]) /\ Flow(dmx[t], file[t], ring[t]) /\ Room(dmx[t], ring[t], Running)
        /\ dmx[t].pc \in DmxPcs /\ file[t] \in FileStates /\ ring[t] \in Nat
    BY DEF RecorderInv, ThreadsOK, ThreadOK, Types, ThreadTypes, Dmxs
  <2>2. file[t].left \in Nat /\ file[t].remfile \in Nat /\ file[t].readsize \in Nat
    BY <2>1 DEF FileStates
  <2>3. file[t].pc = "write" => file[t].left > 0
    BY <2>1 DEF Flow, Vectors
  <2>4. file[t].remfile <= SplitSize /\ (file[t].left > 0 => file[t].left <= file[t].readsize)
    BY <2>1 DEF Split
  <2>5. ring[t] < RingSize /\
        (dmx[t].pc \in {"vector", "space", "read", "poll"} => dmx[t].todo \in 1 .. InSize)
    BY <2>1 DEF Room
  <2> QED BY <2>1, <2>2, <2>3, <2>4, <2>5, SizeFacts, SMTT(30)
<1> QED BY <1>1, <1>2, <1>3 DEF TypeOK, Flags, Bytes

LEMMA InvOneRecording == RecorderInv => OneRecording
<1> SUFFICES ASSUME RecorderInv, write_ts, NEW t \in Threads, Live(t)
             PROVE  dmx[t].of = myfilename.of /\ main.pc \notin {"claimed", "setup", "create"}
  BY DEF OneRecording
<1>1. t = Dvr
  BY ThreadFacts DEF RecorderInv, StreamOK
<1> QED BY <1>1 DEF RecorderInv, StreamOK, MainOK, Preparing

(* The cardinalities that GivenBack needs.                                 *)
LEMMA CardSmall ==
  ASSUME NEW x
  PROVE  Cardinality({}) = 0 /\ Cardinality({x}) = 1
<1> DEFINE Body(S, f) == [T \in SUBSET S |-> IF T = {} THEN 0
                                  ELSE 1 + f[T \ {CHOOSE y : y \in T}]]
<1>1. \A S : Cardinality(S) = (CHOOSE f : f = Body(S, f))[S]
  BY DEF Cardinality
<1>2. Cardinality({}) = 0
  <2>1. \E f : f = Body({}, f)
    <3> DEFINE g == [T \in SUBSET {} |-> 0]
    <3>1. g = Body({}, g)
      OBVIOUS
    <3> QED BY <3>1
  <2>2. PICK f : f = Body({}, f) /\ Cardinality({}) = f[{}]
    BY <1>1, <2>1
  <2> QED BY <2>2
<1>3. Cardinality({x}) = 1
  <2>0. (CHOOSE y : y \in {x}) = x
    OBVIOUS
  <2>1. \E f : f = Body({x}, f)
    <3> DEFINE g == [T \in SUBSET {x} |-> IF T = {} THEN 0 ELSE 1]
    <3>1. g = Body({x}, g)
      <4>1. ASSUME NEW T \in SUBSET {x}, T # {} PROVE T \ {CHOOSE y : y \in T} = {}
        <5>1. T = {x}
          BY <4>1
        <5> QED BY <5>1, <2>0
      <4> QED BY <4>1, SMTT(30)
    <3> QED BY <3>1
  <2>2. PICK f : f = Body({x}, f) /\ Cardinality({x}) = f[{x}]
    BY <1>1, <2>1
  <2>3. f[{}] = 0
    BY <2>2
  <2>4. f[{x}] = 1 + f[{x} \ {CHOOSE y : y \in {x}}]
    BY <2>2
  <2>5. {x} \ {CHOOSE y : y \in {x}} = {}
    BY <2>0
  <2> QED BY <2>2, <2>3, <2>4, <2>5, SMTT(30)
<1> QED BY <1>2, <1>3

LEMMA InvGivenBack == RecorderInv => GivenBack
<1> SUFFICES ASSUME RecorderInv, write_ts
             PROVE  /\ busy_count = Cardinality({t \in Threads : Live(t)}) + One(Preparing(main))
                    /\ busy_count = 0 /\ main.pc = "idle" => demuxfd = {}
  BY DEF GivenBack, BusyExact, FiltersReleased, One, Preparing
<1>1. /\ busy_count = One(Live(Dvr)) + One(Preparing(main)) /\ \A t \in Pids : ~Live(t)
      /\ demuxfd # {} => Live(Dvr) \/ Begun(main)
  BY DEF RecorderInv, StreamOK
<1>2. Cardinality({t \in Threads : Live(t)}) = One(Live(Dvr))
  <2>1. CASE Live(Dvr)
    <3>1. {t \in Threads : Live(t)} = {Dvr}
      BY <1>1, <2>1, ThreadFacts
    <3> QED BY <2>1, <3>1, CardSmall DEF One
  <2>2. CASE ~Live(Dvr)
    <3>1. {t \in Threads : Live(t)} = {}
      BY <1>1, <2>2, ThreadFacts
    <3> QED BY <2>2, <3>1, CardSmall DEF One
  <2> QED BY <2>1, <2>2
<1>3. busy_count = 0 => ~Live(Dvr)
  BY <1>1, SMTT(30) DEF One
<1>4. main.pc = "idle" => ~Begun(main)
  BY DEF Begun, Counting
<1> QED BY <1>1, <1>2, <1>3, <1>4

LEMMA InvNeverOverrun == RecorderInv => NeverOverrun
BY DEF RecorderInv, ThreadsOK, ThreadOK, Room, NeverOverrun

LEMMA LastFits ==
  ASSUME NEW f \in FileStates, Split(f), f.sizes # <<>>
  PROVE  f.sizes[Len(f.sizes)] <= SplitSize
<1>1. PICK last \in Nat : last = f.sizes[Len(f.sizes)]
  BY SMTT(30) DEF FileStates
<1>2. f.left \in Nat /\ f.remfile \in Nat /\ f.readsize \in Nat
  BY DEF FileStates
<1>3. /\ last + f.remfile = SplitSize + (IF f.left > 0 THEN f.readsize - f.left ELSE 0)
      /\ f.left > 0 => f.readsize <= f.remfile
  BY <1>1 DEF Split
<1>4. last <= SplitSize
  BY <1>2, <1>3, SizeFacts, SMTT(30)
<1> QED BY <1>1, <1>4

LEMMA InvSplitExact == RecorderInv => SplitExact
<1> SUFFICES ASSUME RecorderInv, NEW t \in Threads, NEW q, q = file[t].sizes
             PROVE  /\ \A i \in 1 .. Len(q) : q[i] <= SplitSize
                    /\ \A i \in 1 .. Len(q) - 1 : q[i] = SplitSize
                    /\ q # <<>> => q[Len(q)] + file[t].remfile = SplitSize + Partial(t)
  BY DEF SplitExact
<1>1. Split(file[t]) /\ file[t] \in FileStates /\ q \in Seq(Nat)
  BY DEF RecorderInv, ThreadsOK, ThreadOK, Types, ThreadTypes, FileStates
<1>2. \A i \in 1 .. Len(q) - 1 : q[i] = SplitSize
  BY <1>1 DEF Split
<1>3. q # <<>> => q[Len(q)] + file[t].remfile = SplitSize + Partial(t)
  BY <1>1 DEF Split, Partial
<1>4. ASSUME NEW i \in 1 .. Len(q) PROVE q[i] <= SplitSize
  <2>1. CASE i = Len(q)
    <3>1. q # <<>>
      BY <1>1, <2>1, SMTT(30)
    <3>2. q[Len(q)] <= SplitSize
      BY <1>1, <3>1, LastFits
    <3> QED BY <2>1, <3>2
  <2>2. CASE i # Len(q)
    <3>1. i \in 1 .. Len(q) - 1
      BY <1>1, <2>2, SMTT(30)
    <3> QED BY <1>2, <3>1, SizeFacts, SMTT(30)
  <2> QED BY <2>1, <2>2
<1> QED BY <1>2, <1>3, <1>4

LEMMA InvDrained == RecorderInv => Drained
<1> SUFFICES ASSUME RecorderInv, NEW t \in Threads, dmx[t].pc \notin Idling
             PROVE  /\ dmx[t].received = StreamBytes(t) + ring[t]
                    /\ file[t].pc = "done" => ring[t] = file[t].late
  BY DEF Drained, Idling
<1>1. Flow(dmx[t], file[t], ring[t])
  BY DEF RecorderInv, ThreadsOK, ThreadOK
<1>2. Vectors(file[t], ring[t]) /\ dmx[t].received = Filed(file[t]) + ring[t]
  BY <1>1 DEF Flow
<1>3. StreamBytes(t) = Filed(file[t])
  BY DEF StreamBytes, Filed
<1> QED BY <1>2, <1>3 DEF Vectors

(***************************************************************************)
(* Theorems                                                                *)
(***************************************************************************)
(* The variables of stream2file.cpp keep their types and DMXThread its     *)
(* remark that todo stays positive while bytes are wanted.                 *)
THEOREM RecorderTypeCorrect == Spec => []TypeOK
BY RecorderInvariant, InvTypes, PTL

(* start_recording begins a transport stream recording only when no thread *)
(* of an earlier one is left.                                              *)
THEOREM RecordingsDoNotOverlap == Spec => []OneRecording
BY RecorderInvariant, InvOneRecording, PTL

(* busy_count counts the DMXThreads exactly, and nobody busy means no      *)
(* demux filter open, however a transport stream recording ended.          *)
THEOREM EverythingGivenBack == Spec => []GivenBack
BY RecorderInvariant, InvGivenBack, PTL

(* The read in DMXThread never asks for more than the ring buffer has room *)
(* for.                                                                    *)
THEOREM RingNeverOverrun == Spec => []NeverOverrun
BY RecorderInvariant, InvNeverOverrun, PTL

(* FileThread splits at exactly splitsize bytes.                           *)
THEOREM SplitsAreExact == Spec => []SplitExact
BY RecorderInvariant, InvSplitExact, PTL

(* Every received byte is in a file or in the ring buffer, and FileThread  *)
(* ends only when it has written what it saw.                              *)
THEOREM NothingLost == Spec => []Drained
BY RecorderInvariant, InvDrained, PTL

-----------------------------------------------------------------------------
(***************************************************************************)
(* Refinement                                                              *)
(***************************************************************************)
(* The refinement mapping, as the instance in Stream2File has it.          *)
TheFlag == IF write_ts THEN exit_flag ELSE "IDLE"
TheLive == IF write_ts /\ Live(Dvr) THEN dmx[Dvr].of ELSE 0
TheCall == IF ~write_ts THEN "none"
           ELSE IF \/ main.pc \in {"create", "failed"}
                   \/ main.pc \in {"load", "store"} /\ main.then = "failed"
                THEN "begun"
           ELSE IF main.pc = "stop" THEN "stopping" ELSE "none"
TheReports == IF write_ts THEN reports ELSE {}
mapped == <<TheFlag, TheLive, TheCall, TheReports>>

(***************************************************************************)
(* The steps of Recorder, in terms of the mapping                          *)
(***************************************************************************)
LEMMA Quiet ==
  ASSUME UNCHANGED mapped
  PROVE  UNCHANGED Promised!recvars
BY DEF mapped, TheFlag, TheLive, TheCall, TheReports, Promised!recvars

LEMMA IsBegin ==
  ASSUME TheCall = "none", TheLive = 0, TheFlag' = "RUNNING", TheCall' = "begun",
         UNCHANGED <<TheLive, TheReports>>
  PROVE  Promised!RecNext
BY DEF TheFlag, TheLive, TheCall, TheReports, Promised!RecNext, Promised!Begin

LEMMA IsLaunch ==
  ASSUME NEW n \in 1 .. MaxStarts[TRUE], TheCall = "begun", TheLive' = n, TheCall' = "none",
         UNCHANGED <<TheFlag, TheReports>>
  PROVE  Promised!RecNext
<1>1. Promised!Launch(n)
  BY DEF TheFlag, TheLive, TheCall, TheReports, Promised!Launch
<1> QED BY <1>1 DEF Promised!RecNext

LEMMA IsLaunchFails ==
  ASSUME TheCall = "begun", TheFlag' = "RECORDING_THREADS_FAILED", TheCall' = "none",
         UNCHANGED <<TheLive, TheReports>>
  PROVE  Promised!RecNext
BY DEF TheFlag, TheLive, TheCall, TheReports, Promised!RecNext, Promised!LaunchFails

LEMMA IsStopRunning ==
  ASSUME TheCall = "none", TheFlag = "RUNNING", TheCall' = "stopping",
         UNCHANGED <<TheFlag, TheLive, TheReports>>
  PROVE  Promised!RecNext
BY DEF TheFlag, TheLive, TheCall, TheReports, Promised!RecNext, Promised!StopRunning

LEMMA IsStopDone ==
  ASSUME TheCall = "stopping", TheFlag' = "IDLE", TheCall' = "none",
         UNCHANGED <<TheLive, TheReports>>
  PROVE  Promised!RecNext
BY DEF TheFlag, TheLive, TheCall, TheReports, Promised!RecNext, Promised!StopDone

LEMMA IsFail ==
  ASSUME TheLive # 0, TheFlag' \in Failures, UNCHANGED <<TheLive, TheCall, TheReports>>
  PROVE  Promised!RecNext
BY DEF TheFlag, TheLive, TheCall, TheReports, Promised!RecNext, Promised!Fail

LEMMA IsEnd ==
  ASSUME TheLive # 0, TheFlag # "RUNNING", TheLive' = 0,
         TheReports' = TheReports \cup {[of |-> TheLive, status |-> "none"]},
         UNCHANGED <<TheFlag, TheCall>>
  PROVE  Promised!RecNext
BY DEF TheFlag, TheLive, TheCall, TheReports, Promised!RecNext, Promised!End

LEMMA IsReadStatus ==
  ASSUME NEW r \in TheReports, r.status = "none",
         TheReports' = (TheReports \ {r}) \cup {[r EXCEPT !.status = TheFlag]},
         UNCHANGED <<TheFlag, TheLive, TheCall>>
  PROVE  Promised!RecNext
<1>1. Promised!ReadStatus(r)
  BY DEF TheFlag, TheLive, TheCall, TheReports, Promised!ReadStatus
<1> QED BY <1>1 DEF TheReports, Promised!RecNext

LEMMA IsSend ==
  ASSUME NEW r \in TheReports, r.status # "none", TheReports' = TheReports \ {r},
         UNCHANGED <<TheFlag, TheLive, TheCall>>
  PROVE  Promised!RecNext
<1>1. Promised!Send(r)
  BY DEF TheFlag, TheLive, TheCall, TheReports, Promised!Send
<1> QED BY <1>1 DEF TheReports, Promised!RecNext

(***************************************************************************)
(* The steps of Stream2File in transport stream mode                       *)
(***************************************************************************)
Refined == Promised!RecNext \/ UNCHANGED Promised!recvars

LEMMA Mapping ==
  ASSUME write_ts, UNCHANGED write_ts
  PROVE  /\ TheFlag = exit_flag /\ TheFlag' = exit_flag'
         /\ TheReports = reports /\ TheReports' = reports'
         /\ dmx' = dmx => TheLive' = TheLive
         /\ main' = main => TheCall' = TheCall
BY DEF TheFlag, TheReports, TheLive, Live, TheCall

(* Where the main thread is in start_ or stop_recording                    *)
LEMMA Calls ==
  ASSUME write_ts, UNCHANGED write_ts
  PROVE  /\ main.pc \in {"create", "failed"} \/ Counting(main, "failed") => TheCall = "begun"
         /\ main'.pc \in {"create", "failed"} \/ Counting(main', "failed") => TheCall' = "begun"
         /\ main.pc = "stop" => TheCall = "stopping"
         /\ main'.pc = "stop" => TheCall' = "stopping"
         /\ main.pc \notin {"create", "failed", "stop"} /\ ~Counting(main, "failed") =>
              TheCall = "none"
         /\ main'.pc \notin {"create", "failed", "stop"} /\ ~Counting(main', "failed") =>
              TheCall' = "none"
BY DEF TheCall, Counting

LEMMA MainQuiet ==
  ASSUME write_ts, UNCHANGED <<write_ts, exit_flag, dmx, reports>>, TheCall' = TheCall
  PROVE  Refined
BY Mapping, Quiet DEF Refined, mapped

(* Steps of the main thread within start_recording that Recorder does not  *)
(* see                                                                     *)
LEMMA CountRefines ==
  ASSUME Types, MainOK, StreamOK, write_ts, UNCHANGED write_ts, MainLoad \/ MainStore
  PROVE  Refined
<1>1. /\ main \in Mains /\ main.then \in {"claimed", "idle", "failed"}
      /\ UNCHANGED <<exit_flag, dmx, reports>>
  BY DEF Types, MainTypes, StreamOK, MainLoad, MainStore, flags
<1>2. /\ main'.then = main.then /\ main.pc \in {"load", "store"}
      /\ main'.pc = "store" \/ main'.pc = main.then
  BY <1>1, SMTT(30) DEF MainLoad, MainStore, Mains
<1>3. TheCall' = TheCall
  BY <1>1, <1>2, Calls DEF Counting
<1> QED BY <1>1, <1>3, MainQuiet

LEMMA UnseenRefines ==
  ASSUME Types, MainOK, StreamOK, write_ts, UNCHANGED write_ts,
         StartRecording \/ Attempt2 \/ SetFilename \/ SetupFails \/ Release \/ Started
  PROVE  Refined
<1>1. /\ main \in Mains /\ main.pc \in {"idle", "sleep", "claimed", "setup", "created"}
      /\ UNCHANGED <<exit_flag, dmx, reports>>
  BY DEF Types, MainTypes, StreamOK, StartRecording, Attempt2, SetFilename, SetupFails,
         Release, Started, flags
<1>2. \/ main'.pc \in {"sleep", "idle", "setup"}
      \/ main'.pc = "load" /\ main'.then \in {"claimed", "idle"}
  <2>1. main.pc # "release"
    BY <1>1
  <2>2. \/ \E p \in {"sleep", "idle", "setup"} : main' = [main EXCEPT !.pc = p]
        \/ Count(1, "claimed") \/ Count(-1, "idle")
    BY <2>1
       DEF StartRecording, Attempt2, SetFilename, SetupFails, Release, Started
  <2> QED BY <1>1, <2>2, SMTT(30) DEF Count, Mains
<1>3. TheCall = "none" /\ TheCall' = "none"
  BY <1>1, <1>2, Calls DEF Counting
<1> QED BY <1>1, <1>3, MainQuiet

LEMMA BeginRefines ==
  ASSUME StreamOK, write_ts, UNCHANGED write_ts, Setup
  PROVE  Refined
<1>1. /\ main.pc = "setup" /\ main'.pc = "create" /\ exit_flag' = "RUNNING"
      /\ dmx' = dmx /\ reports' = reports
  BY DEF Setup
<1>2. TheCall = "none" /\ TheCall' = "begun"
  BY <1>1, Calls DEF Counting
<1>3. TheLive = 0
  BY <1>1 DEF StreamOK, Claiming, TheLive
<1> QED BY <1>1, <1>2, <1>3, Mapping, IsBegin DEF Refined

LEMMA LaunchRefines ==
  ASSUME Types, MainOK, write_ts, UNCHANGED write_ts, CreateThread
  PROVE  Refined
<1>1. /\ main \in Mains /\ dmx \in [Threads -> Dmxs] /\ starts \in Nat
      /\ MaxStarts[TRUE] \in Nat
  BY BoundFacts DEF Types, MainTypes, ThreadTypes
<1>2. /\ main.pc = "create" /\ main'.pc = "created"
      /\ UNCHANGED <<exit_flag, reports>>
      /\ dmx' = [dmx EXCEPT ![Dvr] = Dmx("start", starts, 0, 0)]
  BY <1>1 DEF CreateThread, Creating, MainOK, Mains, flags
<1>3. TheCall = "begun" /\ TheCall' = "none"
  BY <1>2, Calls DEF Counting
<1>4. TheLive' = starts
  BY <1>1, <1>2, ThreadFacts DEF TheLive, Live, Dmx
<1>5. starts \in 1 .. MaxStarts[TRUE]
  <2>1. write_ts = TRUE
    BY DEF Types, MainTypes
  <2>2. PICK n \in Nat : n = MaxStarts[write_ts]
    BY <1>1, <2>1
  <2>3. starts <= n
    BY <2>2 DEF MainOK
  <2>4. starts \in Nat /\ starts > 0
    BY <1>1, <1>2 DEF MainOK
  <2>5. starts \in 1 .. n
    BY <2>3, <2>4, SMTT(30)
  <2> QED BY <2>1, <2>2, <2>5
<1>6. UNCHANGED <<TheFlag, TheReports>>
  BY <1>2, Mapping
<1> QED BY <1>3, <1>4, <1>5, <1>6, IsLaunch DEF Refined

LEMMA LaunchFailsRefines ==
  ASSUME Types, write_ts, UNCHANGED write_ts, CreateFails \/ CreateFailed
  PROVE  Refined
<1>1. main \in Mains /\ UNCHANGED <<dmx, reports>>
  BY DEF Types, MainTypes, CreateFails, CreateFailed
<1>2. CASE CreateFails
  <2>1. /\ main.pc = "create" /\ main'.pc = "load" /\ main'.then = "failed"
        /\ UNCHANGED exit_flag
    BY <1>2 DEF CreateFails, Count, flags
  <2>2. TheCall = "begun" /\ TheCall' = "begun"
    BY <2>1, Calls DEF Counting
  <2> QED BY <1>1, <2>1, <2>2, MainQuiet
<1>3. CASE CreateFailed
  <2>1. /\ main.pc = "failed" /\ main'.pc = "idle"
        /\ exit_flag' = "RECORDING_THREADS_FAILED"
    BY <1>1, <1>3 DEF CreateFailed, Mains
  <2>2. TheCall = "begun" /\ TheCall' = "none"
    BY <2>1, Calls DEF Counting
  <2> QED BY <1>1, <2>1, <2>2, Mapping, IsLaunchFails DEF Refined
<1> QED BY <1>2, <1>3

LEMMA StopRefines ==
  ASSUME Types, write_ts, UNCHANGED write_ts, StopRecording \/ StopDone
  PROVE  Refined
<1>1. main \in Mains /\ UNCHANGED <<dmx, reports>>
  BY DEF Types, MainTypes, StopRecording, StopDone
<1>2. CASE StopRecording /\ ~Running
  BY <1>1, <1>2, Mapping, MainQuiet DEF StopRecording, flags
<1>3. CASE StopRecording /\ Running
  <2>1. main.pc = "idle" /\ main'.pc = "stop" /\ exit_flag = "RUNNING" /\ UNCHANGED exit_flag
    BY <1>1, <1>3 DEF StopRecording, Running, flags, Mains
  <2>2. TheCall = "none" /\ TheCall' = "stopping"
    BY <2>1, Calls DEF Counting
  <2> QED BY <1>1, <2>1, <2>2, Mapping, IsStopRunning DEF Refined
<1>4. CASE StopDone
  <2>1. main.pc = "stop" /\ main'.pc = "idle" /\ exit_flag' = "IDLE"
    BY <1>1, <1>4 DEF StopDone, Mains
  <2>2. TheCall = "stopping" /\ TheCall' = "none"
    BY <2>1, Calls DEF Counting
  <2> QED BY <1>1, <2>1, <2>2, Mapping, IsStopDone DEF Refined
<1> QED BY <1>2, <1>3, <1>4

LEMMA MainRefines ==
  ASSUME RecorderInv, write_ts, UNCHANGED write_ts, MainNext
  PROVE  Refined
<1>1. Types /\ MainOK /\ StreamOK
  BY DEF RecorderInv
<1> QED
  BY <1>1, CountRefines, UnseenRefines, BeginRefines, LaunchRefines, LaunchFailsRefines,
     StopRefines DEF MainNext

(* The flag a thread leaves: as it was, or a failure                       *)
LEMMA FailRefines ==
  ASSUME write_ts, UNCHANGED <<write_ts, main, reports>>, TheLive' = TheLive, TheLive # 0,
         exit_flag' \in Failures \cup {exit_flag}
  PROVE  Refined
<1>1. TheCall' = TheCall /\ TheFlag = exit_flag /\ TheFlag' = exit_flag'
      /\ TheReports' = TheReports
  BY Mapping
<1>2. CASE exit_flag' = exit_flag
  BY <1>1, <1>2, Quiet DEF Refined, mapped
<1>3. CASE exit_flag' \in Failures
  BY <1>1, <1>3, IsFail DEF Refined
<1> QED BY <1>2, <1>3

LEMMA LiveIs ==
  ASSUME Types, StreamOK, write_ts, Live(Dvr)
  PROVE  TheLive = dmx[Dvr].of /\ TheLive # 0
<1>1. dmx[Dvr].of = starts /\ starts > 0 /\ TheLive = dmx[Dvr].of
  BY DEF StreamOK, TheLive
<1>2. starts \in Nat
  BY DEF Types, MainTypes
<1> QED BY <1>1, <1>2, SMTT(30)

LEMMA DmxRefines ==
  ASSUME RecorderInv, write_ts, UNCHANGED write_ts, NEW t \in Threads, DmxNext(t)
  PROVE  Refined
<1>1. Types /\ ThreadTypes /\ StreamOK /\ ThreadsOK
  BY DEF RecorderInv, Types
<1>2. t = Dvr /\ Live(Dvr)
  BY <1>1, DmxLive, ThreadFacts DEF StreamOK
<1>3. TheLive = dmx[Dvr].of /\ TheLive # 0
  BY <1>1, <1>2, LiveIs
<1>4. main' = main
  BY DEF DmxNext, DmxStart, Sync, SyncPoll, First, Vector, Space, Read, Poll, Close,
         Join, DecLoad, DecStore, mainvars
<1>5. CASE DecStore(Dvr)
  <2>1. /\ dmx[Dvr].pc = "store" /\ dmx' = [dmx EXCEPT ![Dvr] = NoDmx]
        /\ reports' = reports \cup {[of |-> dmx[Dvr].of, status |-> "none"]}
        /\ exit_flag' = exit_flag
    BY <1>5 DEF DecStore, Reporter
  <2>2. exit_flag # "RUNNING"
    BY <1>1, <2>1, ThreadFacts DEF ThreadsOK, ThreadOK, Room, Running
  <2>3. TheLive' = 0
    BY <1>1, <2>1, ThreadFacts, NoThreadIs DEF TheLive, Live, ThreadTypes
  <2> QED BY <1>3, <1>4, <2>1, <2>2, <2>3, Mapping, IsEnd DEF Refined
<1>6. CASE ~DecStore(Dvr)
  <2>1. dmx'[Dvr].pc # "gone" /\ dmx'[Dvr].of = dmx[Dvr].of
    <3>1. CASE Join(Dvr)
      <4>1. "load" \in DmxPcs /\ DmxTo(Dvr, "load")
        BY <3>1 DEF Join, DmxPcs
      <4> QED BY <1>1, <4>1, ThreadFacts, WalkTo
    <3>2. CASE DecLoad(Dvr)
      BY <1>1, <3>2, ThreadFacts DEF DecLoad, ThreadTypes
    <3>3. CASE ~Join(Dvr) /\ ~DecLoad(Dvr)
      BY <1>1, <1>2, <1>6, <3>3, Walks DEF Walking, Idling
    <3> QED BY <3>1, <3>2, <3>3
  <2>2. TheLive' = TheLive
    BY <1>2, <2>1 DEF TheLive, Live
  <2>3. exit_flag' \in Failures \cup {exit_flag} /\ reports' = reports
    BY <1>2, <1>6
       DEF DmxNext, DmxStart, Sync, SyncPoll, First, Vector, Space, Read, Poll,
                      Close, Join, DecLoad, flags, Failures
  <2> QED BY <1>3, <1>4, <2>2, <2>3, FailRefines
<1> QED BY <1>5, <1>6

LEMMA FileRefines ==
  ASSUME RecorderInv, write_ts, UNCHANGED write_ts, NEW t \in Threads, FileNext(t)
  PROVE  Refined
<1>1. UNCHANGED <<dmx, main, reports>>
  BY DEF FileNext, GetVector, Open, Write, Empty, filerest, mainvars
<1>2. exit_flag' \in Failures \cup {exit_flag}
  BY DEF FileNext, GetVector, Open, Write, Empty, Failures
<1>3. Live(t)
  <2>1. file[t].pc \in {"loop", "open", "write", "empty"} /\ Flow(dmx[t], file[t], ring[t])
    BY DEF FileNext, GetVector, Open, Write, Empty, RecorderInv, ThreadsOK, ThreadOK
  <2> QED BY <2>1 DEF Flow, Idling, Live
<1>4. TheLive # 0
  BY <1>3, LiveIs, ThreadFacts DEF RecorderInv, StreamOK
<1>5. TheLive' = TheLive
  BY <1>1, Mapping
<1> QED BY <1>1, <1>2, <1>4, <1>5, FailRefines

LEMMA ReportRefines ==
  ASSUME write_ts, UNCHANGED write_ts, NEW r \in reports, Report(r)
  PROVE  Refined
<1>1. UNCHANGED <<dmx, main, exit_flag>>
  BY DEF Report, ReportStatus, ReportSend, mainvars, flags
<1>2. UNCHANGED <<TheFlag, TheLive, TheCall>> /\ TheFlag = exit_flag
      /\ TheReports = reports /\ TheReports' = reports'
  BY <1>1, Mapping
<1>3. CASE ReportStatus(r)
  BY <1>2, <1>3, IsReadStatus DEF ReportStatus, Refined
<1>4. CASE ReportSend(r)
  BY <1>2, <1>4, IsSend DEF ReportSend, Refined
<1> QED BY <1>3, <1>4 DEF Report

(***************************************************************************)
(* The refinement                                                          *)
(***************************************************************************)
LEMMA StepRefines ==
  ASSUME RecorderInv, [Next]_vars
  PROVE  Refined
<1>1. CASE UNCHANGED vars
  <2>1. UNCHANGED <<write_ts, exit_flag, dmx, main, reports>>
    BY <1>1 DEF vars, flags
  <2> QED BY <2>1, Quiet DEF Refined, mapped, TheFlag, TheLive, TheCall, TheReports, Live
<1>2. CASE Next /\ ~write_ts
  <2>1. ~write_ts /\ ~write_ts'
    BY <1>2 DEF Next
  <2> QED BY <2>1, Quiet DEF Refined, mapped, TheFlag, TheLive, TheCall, TheReports
<1>3. CASE Next /\ write_ts
  <2>1. UNCHANGED write_ts
    BY <1>3 DEF Next
  <2> QED
    BY <1>3, <2>1, MainRefines, DmxRefines, FileRefines, ReportRefines DEF Next
<1> QED BY <1>1, <1>2, <1>3

(* In transport stream mode stream2file.cpp does what Recorder promises:   *)
(* recordings do not overlap, none ends while its flag is RUNNING, and     *)
(* each reports once.                                                      *)
THEOREM RecorderRefined == Spec => ImplementsRecorder
<1>1. Init => Promised!RecInit
  BY ThreadFacts, NoThreadIs, SMTT(30) DEF Init, Promised!RecInit, Live
<1>2. RecorderInv /\ [Next]_vars => [Promised!RecNext]_(Promised!recvars)
  BY StepRefines DEF Refined
<1> QED
  BY <1>1, <1>2, RecorderInvariant, PTL DEF Spec, ImplementsRecorder, Promised!RecSpec

=============================================================================
