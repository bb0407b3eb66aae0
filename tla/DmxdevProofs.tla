---------------------------- MODULE DmxdevProofs ----------------------------
(***************************************************************************)
(* Proofs about Dmxdev, third part: the theorems.                          *)
(***************************************************************************)
EXTENDS DmxdevSteps, WellFoundedInduction

(* The loops over feeds and entries in dvb_demux.c stop at the first one   *)
(* that is free, if there is one.                                          *)
LEMMA LowestIn ==
  ASSUME NEW S \in SUBSET Nat, S # {}
  PROVE  Lowest(S) \in S
<1> DEFINE R == OpToRel(<, Nat)
<1>1. IsWellFoundedOn(R, Nat)
  BY NatLessThanWellFounded, Zenon
<1> HIDE DEF R
<1>2. PICK x \in S : \A y \in S : ~(<<y, x>> \in R)
  BY <1>1, WFMin, Zenon
<1>3. \A y \in S : x <= y
  <2> SUFFICES ASSUME NEW y \in S PROVE x <= y
    OBVIOUS
  <2>1. ~(<<y, x>> \in R)
    BY <1>2
  <2> QED BY <2>1 DEF R, OpToRel
<1> QED BY <1>3, Zenon DEF Lowest

(* DeviceInv holds always.                                                 *)
THEOREM DeviceInvariant == Spec => []DeviceInv
<1>1. Init => DeviceInv
  BY DeviceInit
<1>2. DeviceInv /\ [Next]_vars => DeviceInv'
  BY LowestIn, DeviceNext DEF WellOrdered
<1> QED BY <1>1, <1>2, PTL DEF Spec

(* Whatever is called, delivered and read, the fields of filters, feeds    *)
(* and entries keep their types: pread and pwrite stay in the ring, and    *)
(* todo between a header begun and a body not yet read (dmxdev.c).         *)
THEOREM DeviceTypeCorrect == Spec => []TypeOK
<1>1. DeviceInv => TypeOK
  <2> SUFFICES ASSUME DeviceInv PROVE TypeOK
    OBVIOUS
  <2>1. \A f \in Filters : dmx.filter[f] \in FilterRecs
    BY InvFacts
  <2>2. \A e \in Feeds : dmx.feed[e].state \in {"FREE", "READY", "GO"}
    BY InvFacts, DevIs DEF FeedRecs
  <2>3. dmx.priv \in [Entries -> Filters \cup {None}] /\ call \in Filters \cup {None}
    BY InvFacts, DevIs
  <2>4. ASSUME NEW x \in FilterRecs
        PROVE  /\ x.state \in Active \cup {"FREE", "ALLOCATED", "SET"}
               /\ x.par \in Params \cup {NoParams}
               /\ x.feed \in Feeds \cup {None} /\ x.entry \in Entries \cup {None}
               /\ x.todo \in 1 - Header .. Length - Header
               /\ x.pread \in 0 .. Size - 1 /\ x.pwrite \in 0 .. Size - 1
               /\ x.error \in {"none", "OVERFLOW", "TIMEDOUT"}
    BY DEF FilterRecs, Requests
  <2> QED BY <2>1, <2>2, <2>3, <2>4, Zenon DEF TypeOK
<1> QED BY <1>1, DeviceInvariant, PTL

(* However many filters share feeds and however calls on them interleave,  *)
(* every running filter has an entry of its own on its feed, the feed runs *)
(* unless the hardware refused it, and filters share a feed exactly when   *)
(* they have the same pid (dvb_dmxdev_filter_start, feed_restart,          *)
(* dmx_section_feed_release_filter).                                       *)
THEOREM FeedsServe == Spec => []FeedServes
<1>1. DeviceInv => FeedServes
  <2> DEFINE Served(f, x) ==
        /\ x.feed # None /\ x.entry \in Listed(x.feed) /\ dmx.priv[x.entry] = f
        /\ dmx.feed[x.feed].state = "GO" \/ x.feed \in dmx.stuck
        /\ \A g \in Running :
             x.feed = dmx.filter[g].feed <=> x.par.pid = dmx.filter[g].par.pid
  <2> SUFFICES ASSUME DeviceInv, NEW f \in Running PROVE Served(f, dmx.filter[f])
    BY DEF FeedServes
  <2> PICK x : x = dmx.filter[f]
    OBVIOUS
  <2>1. dmx \in Devices /\ Serves(dmx, Running) /\ Goes(dmx, Running, None)
    BY InvFacts DEF Device
  <2>2. /\ x.feed \in Feeds /\ x.entry \in Entries
        /\ Linked(dmx, x.feed, x.entry) /\ dmx.priv[x.entry] = f
    BY <2>1 DEF Serves, OnFeed
  <2>3. x.feed # None
    BY <2>2, SizeFacts
  <2>4. x.entry \in Listed(x.feed)
    <3>1. dmx.feed[x.feed].list \in Seq(Entries)
      BY <2>1, <2>2, DevIs DEF FeedRecs
    <3>2. DOMAIN dmx.feed[x.feed].list = 1 .. Len(dmx.feed[x.feed].list)
      BY <3>1
    <3> QED BY <2>2, <3>2, ZenonT(30) DEF Linked, Listed
  <2>5. dmx.feed[x.feed].state = "GO" \/ x.feed \in dmx.stuck
    BY <2>1, <2>3 DEF Goes
  <2>6. \A g \in Running :
          x.feed = dmx.filter[g].feed <=> x.par.pid = dmx.filter[g].par.pid
    BY <2>1 DEF Serves
  <2> QED BY <2>2, <2>3, <2>4, <2>5, <2>6
<1> QED BY <1>1, DeviceInvariant, PTL

(* After any sequence of starts, stops and closes, a feed or an entry that *)
(* is in use belongs to a running filter, except after a start the         *)
(* hardware refused (dvb_dmxdev_filter_stop, feed_restart and the error    *)
(* paths of dvb_dmxdev_filter_start).                                      *)
THEOREM NothingLeaks == Spec => []NoLeak
<1>1. DeviceInv => NoLeak
  <2> SUFFICES ASSUME DeviceInv PROVE NoLeak
    OBVIOUS
  <2>1. Owned(dmx, Running, None) /\ Feeds \ {None} = Feeds
    BY InvFacts, SizeFacts DEF Device
  <2> QED BY <2>1 DEF Owned, NoLeak
<1> QED BY <1>1, DeviceInvariant, PTL

(* No timer outlives the run of its filter, so none fires on the next file *)
(* in the slot (dvb_dmxdev_feed_stop, section_callback, filter_timer).     *)
THEOREM TimersOwned == Spec => []TimerOwned
<1>1. DeviceInv => TimerOwned
  BY InvFacts DEF Device, Owned, TimerOwned
<1> QED BY <1>1, DeviceInvariant, PTL

(* For every ring and section size and every interleaving of interrupts    *)
(* with the steps of a read, a program gets the bytes of its sections in   *)
(* order, each once, and after a loss an error and then the beginning of a *)
(* section (dvb_dmxdev_buffer_write, buffer_read, section_callback).       *)
THEOREM BytesInSequence == Spec => []InSequence
<1>1. DeviceInv => InSequence
  BY DEF DeviceInv, InSequence
<1> QED BY <1>1, DeviceInvariant, PTL

(* Whatever counts a program asks for, between its calls todo tells where  *)
(* in a section it is, unless an error waits or tore a section             *)
(* (dvb_dmxdev_read_sec).                                                  *)
THEOREM ReadsFramed == Spec => []Framed
<1>1. DeviceInv => Framed
  <2> SUFFICES ASSUME DeviceInv, NEW f \in load.readers \ torn,
                      dmx.filter[f].state \in Active, dmx.filter[f].error = "none",
                      rd[f].pc = "idle", NEW pos, pos = last[f].pos % Length
               PROVE  dmx.filter[f].todo =
                        IF pos = 0 THEN 0 ELSE IF pos < Header THEN -pos ELSE Length - pos
    BY Zenon DEF Framed
  <2>1. f \in Filters
    BY InvFacts, DmxdevAssumption DEF Filters
  <2>2. f \in Running
    BY <2>1, StateOf
  <2>3. FrameOK(dmx.filter[f], rd[f], last[f])
    BY <2>1, <2>2, InvFacts DEF FileOK
  <2>4. PICK p : last[f].pos = p
    OBVIOUS
  <2>5. p \in 0 .. Length /\ Length \in Nat /\ Length # 0
    BY <2>1, <2>4, InvFacts, SizeFacts DEF Cells
  <2>6. pos = IF p = Length THEN 0 ELSE p
    <3>1. CASE p = Length
      BY <2>4, <2>5, <3>1
    <3>2. CASE p # Length
      BY <2>4, <2>5, <3>2, SmallMod
    <3> QED BY <3>1, <3>2
  <2>7. pos = Place(last[f])
    BY <2>4, <2>6 DEF Place
  <2> QED BY <2>3, <2>7 DEF FrameOK
<1> QED BY <1>1, DeviceInvariant, PTL
=============================================================================
