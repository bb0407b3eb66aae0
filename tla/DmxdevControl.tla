--------------------------- MODULE DmxdevControl ----------------------------
(***************************************************************************)
(* Proofs about Dmxdev, first part: the inductive invariant, and what the  *)
(* operators that work on the device as a value make of it (feeds, stop,   *)
(* start).  Everything holds for any number of filters, feeds and entries, *)
(* any requests and counts, and any sizes of a section and of the ring.    *)
(*                                                                         *)
(* The invariants of Dmxdev are not inductive.  DeviceInv adds             *)
(*   - of the feeds (Device): an entry is in one list at most and once,    *)
(*     so that release_filter finds and unlinks the right one; filters on  *)
(*     a feed are the ones that run, from the start of a filter until it   *)
(*     is stopped, and a feed in use serves one of them, unless the        *)
(*     hardware refused it;                                                *)
(*   - of the ring of a filter (RingOK): without an error, the bytes from  *)
(*     pread to pwrite go on from the last byte read, up to the end of the *)
(*     last section given.  What a read has decided to copy goes on from   *)
(*     the last byte read even when the interrupt has emptied the ring     *)
(*     since: buffer_write does not write again before the error is read;  *)
(*   - of a read (CallOK, FrameOK): it asks for no more than is left of    *)
(*     the header or of the body, and todo with what it has copied is the  *)
(*     place in the section.                                               *)
(***************************************************************************)
EXTENDS Dmxdev, TLAPS

USE ZenonT(30)

(***************************************************************************)
(* The inductive invariant                                                 *)
(***************************************************************************)
Cells == [n : Nat, pos : 0 .. Length]
Requests == Params \cup {NoParams}
FilterRecs ==
  [state : Active \cup {"FREE", "ALLOCATED", "SET"}, par : Requests,
   feed : Feeds \cup {None}, entry : Entries \cup {None}, timer : BOOLEAN,
   todo : 1 - Header .. Length - Header, data : BOOLEAN,
   ring : [0 .. Size - 1 -> Cells], pread : 0 .. Size - 1, pwrite : 0 .. Size - 1,
   error : {"none", "OVERFLOW", "TIMEDOUT"}]
FeedRecs == [state : {"FREE", "READY", "GO"}, list : Seq(Entries)]
Devices ==
  [filter : [Filters -> FilterRecs], feed : [Feeds -> FeedRecs],
   priv : [Entries -> Filters \cup {None}], stuck : SUBSET Feeds, lost : SUBSET Entries]
ReadCalls ==
  [pc : {"idle", "enter", "loop", "copy"}, stage : {"none", "head", "body"},
   block : BOOLEAN, count : Nat, want : Nat, todo : Nat, n : Nat]

(* The filters of d that are active.                                       *)
Acts(d) == {f \in Filters : d.filter[f].state \in Active}

(* An entry is in one list at most, there once, and has an owner.          *)
Lists(d) ==
  \A e \in Feeds : \A i \in 1 .. Len(d.feed[e].list) :
    /\ d.priv[d.feed[e].list[i]] # None
    /\ \A k \in Feeds : \A j \in 1 .. Len(d.feed[k].list) :
         d.feed[e].list[i] = d.feed[k].list[j] => e = k /\ i = j

(* Entry s is in the list of feed e.                                       *)
Linked(d, e, s) == \E i \in 1 .. Len(d.feed[e].list) : d.feed[e].list[i] = s

(* A filter has an entry of its own in the list of its feed.               *)
OnFeed(d, f) ==
  LET x == d.filter[f]
  IN  /\ x.feed \in Feeds /\ x.entry \in Entries
      /\ Linked(d, x.feed, x.entry) /\ d.priv[x.entry] = f
      /\ d.feed[x.feed].state # "FREE"

(* The filters of R are on their feeds, and share them by pid.             *)
Serves(d, R) ==
  /\ \A f \in R : OnFeed(d, f)
  /\ \A f, g \in R :
       d.filter[f].feed = d.filter[g].feed <=> d.filter[f].par.pid = d.filter[g].par.pid

(* The feeds of the filters of R other than feed k run, or were refused.   *)
Goes(d, R, k) ==
  \A f \in R : d.filter[f].feed # k =>
    d.feed[d.filter[f].feed].state = "GO" \/ d.filter[f].feed \in d.stuck

(* Feeds other than k, entries and timers in use belong to filters of R.   *)
Owned(d, R, k) ==
  /\ \A e \in Feeds \ {k} : d.feed[e].state # "FREE" =>
       e \in d.stuck \/ \E f \in R : d.filter[f].feed = e
  /\ \A s \in Entries : d.priv[s] # None =>
       s \in d.lost \/ (d.priv[s] \in R /\ d.filter[d.priv[s]].entry = s)
  /\ \A f \in Filters : d.filter[f].timer => f \in R

Device(d, R) ==
  d \in Devices /\ Lists(d) /\ Serves(d, R) /\ Goes(d, R, None) /\ Owned(d, R, None)

(* The cell k places after pread, and the number of cells up to pwrite.    *)
Cell(x, k) == x.ring[(x.pread + k) % Size]
Used(x) == (x.pwrite - x.pread) % Size

(* The first m cells go on from byte a: each follows the one before, and   *)
(* what follows up to the end of its section is that section.              *)
Stream(x, a, m) ==
  /\ \A k \in 0 .. m - 1 : Follows(Cell(x, k), IF k = 0 THEN a ELSE Cell(x, k - 1))
  /\ \A j, k \in 0 .. m - 1 :
       j <= k /\ Cell(x, j).pos + (k - j) <= Length =>
         Cell(x, k) = [n |-> Cell(x, j).n, pos |-> Cell(x, j).pos + (k - j)]

(* The section number g ends the stream, or there is nothing in it and a   *)
(* is at the end of a section.                                             *)
Ends(x, g, a, u) ==
  /\ u = 0 => a \in {NoByte, [n |-> g, pos |-> Length]}
  /\ u > 0 => Cell(x, u - 1) = [n |-> g, pos |-> Length]

(* Filter x, read call c, g sections given, a the last byte read.          *)
RingOK(x, c, g, a) ==
  /\ x.error = "none" =>
       /\ Stream(x, a, Used(x)) /\ Ends(x, g, a, Used(x))
       /\ c.pc = "copy" => c.n <= Used(x)
  /\ c.pc = "copy" => Stream(x, a, c.n) /\ c.n < Size

(* A call asks for no more than is left of the header or of the body.      *)
CallOK(x, c) ==
  c.pc # "idle" =>
    /\ c.stage \in {"head", "body"} /\ c.want \in 1 .. c.count /\ c.todo \in 0 .. c.want
    /\ c.stage = "head" => x.todo <= 0 /\ c.want <= Header + x.todo
    /\ c.stage = "body" => x.todo > 0 /\ c.want <= x.todo
    /\ c.pc = "enter" => c.todo = c.want
    /\ c.pc = "copy" => c.n \in 1 .. c.todo

(* todo, with what the call has copied, is the place in the section.       *)
Place(a) == IF a.pos = Length THEN 0 ELSE a.pos
FrameOK(x, c, a) ==
  IF c.pc = "idle"
  THEN x.todo = IF Place(a) = 0 THEN 0
                ELSE IF Place(a) < Header THEN -Place(a) ELSE Length - Place(a)
  ELSE /\ c.stage = "head" => Place(a) = Copied(c) - x.todo
       /\ c.stage = "body" => a.pos = Length - x.todo + Copied(c)

(* Filter f is x; R are the filters that run, T those torn.                *)
FileOK(f, x, c, g, a, R, T) ==
  /\ CallOK(x, c)
  /\ f \notin R => x.pread = x.pwrite /\ c.pc # "copy"
  /\ f \in R => /\ RingOK(x, c, g, a)
                /\ x.error = "none" /\ f \notin T => FrameOK(x, c, a)

ReadTypes ==
  /\ call \in Filters \cup {None} /\ rd \in [Filters -> ReadCalls]
  /\ given \in [Filters -> Nat] /\ last \in [Filters -> Cells]
  /\ broken \subseteq Filters /\ torn \subseteq Filters
  /\ arrived \in Nat /\ load \in Workloads

Reading ==
  \A f \in Filters : FileOK(f, dmx.filter[f], rd[f], given[f], last[f], Running, torn)

Starting == call # None => dmx.filter[call].state \in {"SET", "TIMEDOUT"} /\ rd[call].pc = "idle"

DeviceInv ==
  ReadTypes /\ Device(dmx, Running) /\ Starting /\ Reading /\ broken = {}

-----------------------------------------------------------------------------

(***************************************************************************)
(* Sets and lists                                                          *)
(***************************************************************************)
(* A set of feeds or of entries that is not empty has a lowest member.     *)
(* DmxdevProofs shows it; here it is a hypothesis.                         *)
WellOrdered == \A S \in SUBSET Nat : S # {} => Lowest(S) \in S

LEMMA SizeFacts ==
  /\ NFilters \in Nat /\ NFeeds \in Nat /\ NEntries \in Nat
  /\ Filters \subseteq Nat \ {0} /\ Feeds \subseteq Nat \ {0}
  /\ Entries \subseteq Nat \ {0} /\ None \notin Feeds /\ None \notin Entries
  /\ None \notin Filters
  /\ Header \in Nat /\ Length \in Nat /\ Size \in Nat
  /\ Header >= 1 /\ Header < Length /\ Length < Size
<1>1. /\ {NFilters, NFeeds, NEntries} \subseteq Nat \ {0}
      /\ Length \in Nat /\ Header \in 1 .. Length - 1
      /\ Size \in Nat /\ Size > Length
  BY DmxdevAssumption, SMTT(30)
<1>2. NFilters \in Nat /\ NFeeds \in Nat /\ NEntries \in Nat
  BY <1>1
<1>3. Header \in Nat /\ Length \in Nat /\ Header >= 1 /\ Header < Length
  BY <1>1, SMTT(30)
<1> QED BY <1>1, <1>2, <1>3, SMTT(30) DEF Filters, Feeds, Entries, None

(* Unlinking takes out the one place where the entry is.                   *)
LEMMA UnlinkFacts ==
  ASSUME NEW list \in Seq(Entries), NEW i \in 1 .. Len(list), NEW s, list[i] = s,
         \A j \in 1 .. Len(list) : list[j] = s => j = i
  PROVE  /\ Unlink(list, s) \in Seq(Entries)
         /\ Len(Unlink(list, s)) = Len(list) - 1
         /\ \A k \in 1 .. Len(list) - 1 :
              Unlink(list, s)[k] = list[IF k < i THEN k ELSE k + 1]
<1>1. Len(list) \in Nat /\ DOMAIN list = 1 .. Len(list)
  BY SMTT(30)
<1>2. {k \in DOMAIN list : list[k] = s} = {i}
  BY <1>1
<1>3. Lowest({i}) = i
  BY <1>1, SMTT(30) DEF Lowest
<1> DEFINE u == [k \in 1 .. Len(list) - 1 |-> list[IF k < i THEN k ELSE k + 1]]
<1>4. Unlink(list, s) = u
  BY <1>2, <1>3 DEF Unlink
<1>5. \A k \in 1 .. Len(list) - 1 : (IF k < i THEN k ELSE k + 1) \in 1 .. Len(list)
  BY <1>1, SMTT(30)
<1>6. Len(list) - 1 \in Nat
  BY <1>1, SMTT(30)
<1>7. u \in [1 .. Len(list) - 1 -> Entries]
  BY <1>5, SMTT(30)
<1>8. u \in Seq(Entries) /\ Len(u) = Len(list) - 1
  BY <1>6, <1>7, SMTT(30)
<1> QED BY <1>4, <1>8

LEMMA LinkFacts ==
  ASSUME NEW list \in Seq(Entries), NEW s \in Entries
  PROVE  /\ <<s>> \o list \in Seq(Entries) /\ <<s>> \o list # <<>>
         /\ Len(<<s>> \o list) = Len(list) + 1
         /\ (<<s>> \o list)[1] = s
         /\ \A k \in 2 .. Len(list) + 1 : (<<s>> \o list)[k] = list[k - 1]
BY SMTT(30)

(***************************************************************************)
(* The operations on the state of the drivers, field by field              *)
(***************************************************************************)
Dev(filter, feed, priv, stuck, lost) ==
  [filter |-> filter, feed |-> feed, priv |-> priv, stuck |-> stuck, lost |-> lost]

LEMMA DevIs ==
  ASSUME NEW d \in Devices
  PROVE  /\ d = Dev(d.filter, d.feed, d.priv, d.stuck, d.lost)
         /\ d.filter \in [Filters -> FilterRecs] /\ d.feed \in [Feeds -> FeedRecs]
         /\ d.priv \in [Entries -> Filters \cup {None}]
         /\ d.stuck \subseteq Feeds /\ d.lost \subseteq Entries
BY DEF Devices, Dev

LEMMA DevType ==
  ASSUME NEW F \in [Filters -> FilterRecs], NEW E \in [Feeds -> FeedRecs],
         NEW P \in [Entries -> Filters \cup {None}],
         NEW S \in SUBSET Feeds, NEW L \in SUBSET Entries
  PROVE  /\ Dev(F, E, P, S, L) \in Devices
         /\ Dev(F, E, P, S, L).filter = F /\ Dev(F, E, P, S, L).feed = E
         /\ Dev(F, E, P, S, L).priv = P /\ Dev(F, E, P, S, L).stuck = S
         /\ Dev(F, E, P, S, L).lost = L
BY DEF Devices, Dev

LEMMA DevExcept ==
  ASSUME NEW d \in Devices, NEW X
  PROVE  /\ [d EXCEPT !.filter = X] = Dev(X, d.feed, d.priv, d.stuck, d.lost)
         /\ [d EXCEPT !.stuck = X] = Dev(d.filter, d.feed, d.priv, X, d.lost)
         /\ [d EXCEPT !.lost = X] = Dev(d.filter, d.feed, d.priv, d.stuck, X)
BY SMTT(30) DEF Devices, Dev

LEMMA DevPriv ==
  ASSUME NEW d \in Devices, NEW s \in Entries, NEW X
  PROVE  [d EXCEPT !.priv[s] = X]
         = Dev(d.filter, d.feed, [d.priv EXCEPT ![s] = X], d.stuck, d.lost)
BY SMTT(30) DEF Devices, Dev

Stopped(x) == [x EXCEPT !.state = "SET", !.timer = FALSE]
Idle(x) == [x EXCEPT !.feed = None, !.pread = 0, !.pwrite = 0]
Ready(list) == [state |-> "READY", list |-> list]

LEMMA StoppedFacts ==
  ASSUME NEW x \in FilterRecs
  PROVE  /\ Stopped(x) \in FilterRecs
         /\ Stopped(x).state = "SET" /\ ~Stopped(x).timer
         /\ Stopped(x).par = x.par /\ Stopped(x).feed = x.feed
         /\ Stopped(x).entry = x.entry /\ Stopped(x).todo = x.todo
         /\ Stopped(x).pread = x.pread /\ Stopped(x).pwrite = x.pwrite
BY DEF FilterRecs, Stopped

LEMMA IdleFacts ==
  ASSUME NEW x \in FilterRecs
  PROVE  /\ Idle(x) \in FilterRecs
         /\ Idle(x).state = x.state /\ Idle(x).timer = x.timer
         /\ Idle(x).par = x.par /\ Idle(x).entry = x.entry /\ Idle(x).todo = x.todo
         /\ Idle(x).pread = 0 /\ Idle(x).pwrite = 0
<1>1. 0 \in 0 .. Size - 1 /\ None \in Feeds \cup {None}
  BY SizeFacts, SMTT(30)
<1> QED BY <1>1 DEF FilterRecs, Idle

(* What each operation does to each place of the state.                    *)
FeedStopped(d, f, e, r) ==
  /\ r \in Devices /\ r.priv = d.priv /\ r.stuck = d.stuck /\ r.lost = d.lost
  /\ r.filter[f] = Stopped(d.filter[f])
  /\ \A g \in Filters : g # f => r.filter[g] = d.filter[g]
  /\ r.feed[e] = Ready(d.feed[e].list)
  /\ \A k \in Feeds : k # e => r.feed[k] = d.feed[k]

EntryReleased(d, e, s, r) ==
  /\ r \in Devices /\ r.filter = d.filter /\ r.stuck = d.stuck /\ r.lost = d.lost
  /\ r.priv[s] = None /\ \A t \in Entries : t # s => r.priv[t] = d.priv[t]
  /\ r.feed[e].state = d.feed[e].state /\ r.feed[e].list = Unlink(d.feed[e].list, s)
  /\ \A k \in Feeds : k # e => r.feed[k] = d.feed[k]

FeedReleasedTo(d, e, r) ==
  /\ r \in Devices /\ r.filter = d.filter /\ r.priv = d.priv /\ r.lost = d.lost
  /\ r.stuck = d.stuck \ {e}
  /\ r.feed[e] = NoFeed /\ \A k \in Feeds : k # e => r.feed[k] = d.feed[k]

FilteringStarted(d, e, o) ==
  /\ o = [d |-> o.d, ok |-> o.ok] /\ o.ok \in BOOLEAN /\ o.d \in Devices
  /\ o.d.filter = d.filter /\ o.d.priv = d.priv /\ o.d.lost = d.lost
  /\ \/ /\ d.feed[e].state = "GO" \/ d.feed[e].list = <<>>
        /\ o.d = d /\ ~o.ok
     \/ /\ d.feed[e].state # "GO" /\ d.feed[e].list # <<>>
        /\ o.d.feed = d.feed /\ o.d.stuck = d.stuck \cup {e} /\ ~o.ok
     \/ /\ d.feed[e].state # "GO" /\ d.feed[e].list # <<>>
        /\ o.d.feed[e].state = "GO" /\ o.d.feed[e].list = d.feed[e].list
        /\ \A k \in Feeds : k # e => o.d.feed[k] = d.feed[k]
        /\ o.d.stuck = d.stuck \ {e} /\ o.ok

LEMMA FeedStopIs ==
  ASSUME NEW d \in Devices, NEW f \in Filters, NEW e \in Feeds, d.filter[f].feed = e
  PROVE  FeedStopped(d, f, e, FeedStop(d, f))
<1> DEFINE F == [d.filter EXCEPT ![f] = Stopped(d.filter[f])]
           E == [d.feed EXCEPT ![e] = Ready(d.feed[e].list)]
           d1 == Dev(F, d.feed, d.priv, d.stuck, d.lost)
<1>1. d.filter[f] \in FilterRecs /\ d.feed[e] \in FeedRecs
  BY DevIs
<1>2. [d.feed[e] EXCEPT !.state = "READY"] = Ready(d.feed[e].list)
      /\ Ready(d.feed[e].list) \in FeedRecs
  BY <1>1, SMTT(30) DEF FeedRecs, Ready
<1>3. F \in [Filters -> FilterRecs] /\ E \in [Feeds -> FeedRecs]
  BY <1>1, <1>2, StoppedFacts, DevIs
<1>4. [d EXCEPT !.filter[f].state = "SET", !.filter[f].timer = FALSE]
      = [d EXCEPT !.filter = F]
  BY DEF Devices, Stopped
<1> HIDE DEF F
<1>5. [d EXCEPT !.filter = F] = d1
  BY DevExcept
<1>6. d1 \in Devices /\ d1.filter = F /\ d1.feed = d.feed /\ d1.priv = d.priv
      /\ d1.stuck = d.stuck /\ d1.lost = d.lost
  BY <1>3, DevIs, DevType, SMTT(30)
<1> HIDE DEF d1
<1>7. [d1 EXCEPT !.feed[e].state = "READY"] = Dev(F, E, d.priv, d.stuck, d.lost)
  <2>1. [d1 EXCEPT !.feed[e].state = "READY"]
        = Dev(d1.filter, [d1.feed EXCEPT ![e] = [d1.feed[e] EXCEPT !.state = "READY"]],
              d1.priv, d1.stuck, d1.lost)
    BY <1>6, SMTT(30) DEF Devices, Dev
  <2> QED BY <1>2, <1>6, <2>1
<1>8. FeedStop(d, f) = Dev(F, E, d.priv, d.stuck, d.lost)
  BY <1>4, <1>5, <1>7 DEF FeedStop, StopFiltering, FeedState
<1> HIDE DEF E
<1>9. /\ FeedStop(d, f) \in Devices /\ FeedStop(d, f).filter = F
      /\ FeedStop(d, f).feed = E /\ FeedStop(d, f).priv = d.priv
      /\ FeedStop(d, f).stuck = d.stuck /\ FeedStop(d, f).lost = d.lost
  BY <1>3, <1>8, DevIs, DevType, SMTT(30)
<1>10. /\ F[f] = Stopped(d.filter[f]) /\ \A g \in Filters : g # f => F[g] = d.filter[g]
       /\ E[e] = Ready(d.feed[e].list) /\ \A k \in Feeds : k # e => E[k] = d.feed[k]
  BY DevIs DEF F, E
<1> QED BY <1>9, <1>10 DEF FeedStopped

LEMMA ReleaseEntryIs ==
  ASSUME NEW d \in Devices, NEW e \in Feeds, NEW s \in Entries,
         Unlink(d.feed[e].list, s) \in Seq(Entries)
  PROVE  EntryReleased(d, e, s, ReleaseEntry(d, e, s))
<1> DEFINE u == Unlink(d.feed[e].list, s)
           E == [d.feed EXCEPT ![e] = [d.feed[e] EXCEPT !.list = u]]
           P == [d.priv EXCEPT ![s] = None]
           d1 == Dev(d.filter, d.feed, P, d.stuck, d.lost)
<1>1. d.feed[e] \in FeedRecs
  BY DevIs
<1>2. [d.feed[e] EXCEPT !.list = u] \in FeedRecs
  BY <1>1 DEF FeedRecs
<1>3. E \in [Feeds -> FeedRecs] /\ P \in [Entries -> Filters \cup {None}]
  BY <1>2, DevIs
<1>4. [d EXCEPT !.priv[s] = None] = d1
  BY DevPriv
<1>5. d1 \in Devices /\ d1.filter = d.filter /\ d1.feed = d.feed /\ d1.priv = P
      /\ d1.stuck = d.stuck /\ d1.lost = d.lost
  <2>1. /\ d.filter \in [Filters -> FilterRecs] /\ d.feed \in [Feeds -> FeedRecs]
        /\ d.stuck \in SUBSET Feeds /\ d.lost \in SUBSET Entries
    BY DevIs
  <2> HIDE DEF P
  <2> QED BY <1>3, <2>1, DevType, SMTT(30)
<1> HIDE DEF d1, P
<1>6. [d1 EXCEPT !.feed[e].list = u] = Dev(d.filter, E, P, d.stuck, d.lost)
  <2>1. [d1 EXCEPT !.feed[e].list = u]
        = Dev(d1.filter, [d1.feed EXCEPT ![e] = [d1.feed[e] EXCEPT !.list = u]],
              d1.priv, d1.stuck, d1.lost)
    BY <1>5, SMTT(30) DEF Devices, Dev
  <2> QED BY <1>5, <2>1
<1>7. ReleaseEntry(d, e, s) = Dev(d.filter, E, P, d.stuck, d.lost)
  BY <1>4, <1>5, <1>6 DEF ReleaseEntry
<1> HIDE DEF E
<1>8. /\ ReleaseEntry(d, e, s) \in Devices /\ ReleaseEntry(d, e, s).filter = d.filter
      /\ ReleaseEntry(d, e, s).feed = E /\ ReleaseEntry(d, e, s).priv = P
      /\ ReleaseEntry(d, e, s).stuck = d.stuck /\ ReleaseEntry(d, e, s).lost = d.lost
  BY <1>3, <1>7, DevIs, DevType, SMTT(30)
<1>9. /\ P[s] = None /\ \A t \in Entries : t # s => P[t] = d.priv[t]
      /\ E[e] = [d.feed[e] EXCEPT !.list = u] /\ \A k \in Feeds : k # e => E[k] = d.feed[k]
  BY DevIs, SMTT(30) DEF E, P
<1>10. E[e].state = d.feed[e].state /\ E[e].list = u
  BY <1>1, <1>9 DEF FeedRecs
<1> QED BY <1>8, <1>9, <1>10 DEF EntryReleased

LEMMA StartFilteringIs ==
  ASSUME NEW d \in Devices, NEW e \in Feeds, NEW o \in StartFiltering(d, e)
  PROVE  FilteringStarted(d, e, o)
<1> DEFINE E == [d.feed EXCEPT ![e] = [d.feed[e] EXCEPT !.state = "GO"]]
           d1 == Dev(d.filter, E, d.priv, d.stuck, d.lost)
           d2 == Dev(d.filter, E, d.priv, d.stuck \ {e}, d.lost)
           d3 == Dev(d.filter, d.feed, d.priv, d.stuck \cup {e}, d.lost)
<1>1. E \in [Feeds -> FeedRecs]
  <2>1. d.feed[e] \in FeedRecs
    BY DevIs
  <2>2. [d.feed[e] EXCEPT !.state = "GO"] \in FeedRecs
    BY <2>1 DEF FeedRecs
  <2> QED BY <2>2, DevIs
<1>2. FeedState(d, e, "GO") = d1
  BY SMTT(30) DEF FeedState, Devices, Dev
<1> HIDE DEF E
<1>3. d1 \in Devices /\ d1.filter = d.filter /\ d1.feed = E /\ d1.priv = d.priv
      /\ d1.stuck = d.stuck /\ d1.lost = d.lost
  BY <1>1, DevIs, DevType, SMTT(30)
<1> HIDE DEF d1
<1>4. [FeedState(d, e, "GO") EXCEPT !.stuck = @ \ {e}] = d2
  <2>1. [d1 EXCEPT !.stuck = d1.stuck \ {e}]
        = Dev(d1.filter, d1.feed, d1.priv, d1.stuck \ {e}, d1.lost)
    BY <1>3, DevExcept
  <2> QED BY <1>2, <1>3, <2>1
<1>5. [d EXCEPT !.stuck = @ \cup {e}] = d3
  BY DevExcept
<1>6. /\ d2 \in Devices /\ d2.filter = d.filter /\ d2.feed = E /\ d2.priv = d.priv
      /\ d2.stuck = d.stuck \ {e} /\ d2.lost = d.lost
      /\ d3 \in Devices /\ d3.filter = d.filter /\ d3.feed = d.feed /\ d3.priv = d.priv
      /\ d3.stuck = d.stuck \cup {e} /\ d3.lost = d.lost
  BY <1>1, DevIs, DevType, SMTT(30)
<1> HIDE DEF d2, d3
<1>7. CASE d.feed[e].state = "GO" \/ d.feed[e].list = <<>>
  <2>1. o = [d |-> d, ok |-> FALSE]
    BY <1>7 DEF StartFiltering
  <2> QED BY <1>7, <2>1 DEF FilteringStarted
<1>8. CASE ~(d.feed[e].state = "GO" \/ d.feed[e].list = <<>>)
  <2>1. o \in {[d |-> d2, ok |-> TRUE], [d |-> d3, ok |-> FALSE]}
    BY <1>4, <1>5, <1>8 DEF StartFiltering
  <2>2. CASE o = [d |-> d2, ok |-> TRUE]
    <3>1. d.feed[e] \in FeedRecs /\ d.feed \in [Feeds -> FeedRecs]
      BY DevIs
    <3>2. /\ E[e].state = "GO" /\ E[e].list = d.feed[e].list
          /\ \A k \in Feeds : k # e => E[k] = d.feed[k]
      BY <3>1 DEF E, FeedRecs
    <3> QED BY <1>6, <1>8, <2>2, <3>2 DEF FilteringStarted
  <2>3. CASE o = [d |-> d3, ok |-> FALSE]
    BY <1>6, <1>8, <2>3 DEF FilteringStarted
  <2> QED BY <2>1, <2>2, <2>3
<1> QED BY <1>7, <1>8

LEMMA ReleaseFeedIs ==
  ASSUME NEW d \in Devices, NEW e \in Feeds
  PROVE  FeedReleasedTo(d, e, ReleaseFeed(d, e))
<1> DEFINE E == [d.feed EXCEPT ![e] = NoFeed]
<1>1. NoFeed \in FeedRecs
  BY SMTT(30) DEF NoFeed, FeedRecs
<1>2. E \in [Feeds -> FeedRecs]
  BY <1>1, DevIs
<1>3. ReleaseFeed(d, e) = Dev(d.filter, E, d.priv, d.stuck \ {e}, d.lost)
  <2> DEFINE d1 == Dev(d.filter, E, d.priv, d.stuck, d.lost)
  <2>1. [d EXCEPT !.feed[e] = NoFeed] = d1
    BY SMTT(30) DEF Devices, Dev
  <2> HIDE DEF E
  <2>2. d1 \in Devices /\ d1.filter = d.filter /\ d1.feed = E /\ d1.priv = d.priv
        /\ d1.stuck = d.stuck /\ d1.lost = d.lost
    BY <1>2, DevIs, DevType, SMTT(30)
  <2> HIDE DEF d1
  <2>3. [d1 EXCEPT !.stuck = d1.stuck \ {e}]
        = Dev(d1.filter, d1.feed, d1.priv, d1.stuck \ {e}, d1.lost)
    BY <2>2, DevExcept
  <2> QED BY <2>1, <2>2, <2>3 DEF ReleaseFeed
<1> HIDE DEF E
<1>4. /\ ReleaseFeed(d, e) \in Devices /\ ReleaseFeed(d, e).filter = d.filter
      /\ ReleaseFeed(d, e).feed = E
      /\ ReleaseFeed(d, e).priv = d.priv /\ ReleaseFeed(d, e).lost = d.lost
      /\ ReleaseFeed(d, e).stuck = d.stuck \ {e}
  BY <1>2, <1>3, DevIs, DevType, SMTT(30)
<1>5. E[e] = NoFeed /\ \A k \in Feeds : k # e => E[k] = d.feed[k]
  BY DevIs DEF E
<1> QED BY <1>4, <1>5 DEF FeedReleasedTo

(* Filter f, not among the filters R that are active, has feed e, which is *)
(* stopped; all else is as it should be.                                   *)
Between(d, R, f, e) ==
  /\ d \in Devices /\ f \in Filters /\ e \in Feeds
  /\ R = Acts(d) /\ f \notin R
  /\ d.filter[f].feed = e /\ d.feed[e].state = "READY"
  /\ Lists(d) /\ Serves(d, R) /\ Goes(d, R, e) /\ Owned(d, R, e)
  /\ \A g \in R : d.filter[g].feed = e <=> d.filter[g].par.pid = d.filter[f].par.pid

(* Of the filters only f is marked as stopped.                             *)
Leaves(d, f, r) ==
  /\ r.filter[f] = Stopped(d.filter[f])
  /\ \A g \in Filters : g # f => r.filter[g] = d.filter[g]

(* dvb_dmxdev_feed_stop and release_filter on an active filter, which is   *)
(* the i-th of its feed.                                                   *)
FilterStopped(d, f, e, s, i, r) ==
  /\ r \in Devices /\ r.stuck = d.stuck /\ r.lost = d.lost
  /\ r.filter[f] = Stopped(d.filter[f])
  /\ \A g \in Filters : g # f => r.filter[g] = d.filter[g]
  /\ r.priv[s] = None /\ \A t \in Entries : t # s => r.priv[t] = d.priv[t]
  /\ \A k \in Feeds : k # e => r.feed[k] = d.feed[k]
  /\ r.feed[e].state = "READY" /\ Len(r.feed[e].list) = Len(d.feed[e].list) - 1
  /\ \A k \in 1 .. Len(d.feed[e].list) - 1 :
       r.feed[e].list[k] = d.feed[e].list[IF k < i THEN k ELSE k + 1]

LEMMA StopIs ==
  ASSUME NEW d, Device(d, Acts(d)), NEW f \in Acts(d), NEW e \in Feeds, NEW s \in Entries,
         d.filter[f].feed = e, d.filter[f].entry = s,
         NEW i \in 1 .. Len(d.feed[e].list), d.feed[e].list[i] = s
  PROVE  FilterStopped(d, f, e, s, i, ReleaseEntry(FeedStop(d, f), e, s))
<1>0. PICK list, d1, r : /\ d.feed[e].list = list /\ FeedStop(d, f) = d1
                         /\ ReleaseEntry(d1, e, s) = r
  OBVIOUS
<1>1. d \in Devices /\ f \in Filters
  BY DEF Device, Acts
<1>2. list \in Seq(Entries) /\ Len(list) \in Nat
  BY <1>0, <1>1, DevIs, SMTT(30) DEF FeedRecs
<1>3. i \in 1 .. Len(list) /\ list[i] = s
  BY <1>0
<1>4. \A j \in 1 .. Len(list) : list[j] = s => j = i
  BY <1>0, <1>1, <1>3, SMTT(30) DEF Device, Lists
<1>5. /\ Unlink(list, s) \in Seq(Entries) /\ Len(Unlink(list, s)) = Len(list) - 1
      /\ \A k \in 1 .. Len(list) - 1 :
           Unlink(list, s)[k] = list[IF k < i THEN k ELSE k + 1]
  BY <1>2, <1>3, <1>4, UnlinkFacts
<1>6. FeedStopped(d, f, e, d1)
  BY <1>0, <1>1, FeedStopIs
<1>7. d1 \in Devices /\ d1.feed[e].list = list /\ d1.feed[e].state = "READY"
  BY <1>0, <1>6, SMTT(30) DEF FeedStopped, Ready
<1>8. EntryReleased(d1, e, s, r)
  BY <1>0, <1>5, <1>7, ReleaseEntryIs
<1>9. r.feed[e].list = Unlink(list, s) /\ r.feed[e].state = "READY"
  BY <1>7, <1>8 DEF EntryReleased
<1>10. /\ r \in Devices /\ r.stuck = d.stuck /\ r.lost = d.lost
       /\ r.filter[f] = Stopped(d.filter[f])
       /\ \A g \in Filters : g # f => r.filter[g] = d.filter[g]
       /\ r.priv[s] = None /\ \A t \in Entries : t # s => r.priv[t] = d.priv[t]
       /\ \A k \in Feeds : k # e => r.feed[k] = d.feed[k]
  BY <1>6, <1>8 DEF EntryReleased, FeedStopped
<1>11. /\ Len(r.feed[e].list) = Len(d.feed[e].list) - 1
       /\ \A k \in 1 .. Len(d.feed[e].list) - 1 :
            r.feed[e].list[k] = d.feed[e].list[IF k < i THEN k ELSE k + 1]
  BY <1>0, <1>5, <1>9
<1>12. FilterStopped(d, f, e, s, i, r)
  BY <1>9, <1>10, <1>11 DEF FilterStopped
<1> QED BY <1>0, <1>12

LEMMA ListTypes ==
  ASSUME NEW d \in Devices, NEW k \in Feeds
  PROVE  /\ d.feed[k].list \in Seq(Entries) /\ Len(d.feed[k].list) \in Nat
         /\ \A i \in 1 .. Len(d.feed[k].list) : d.feed[k].list[i] \in Entries
<1>1. d.feed[k] \in FeedRecs
  BY DevIs
<1>2. d.feed[k].list \in Seq(Entries)
  BY <1>1 DEF FeedRecs
<1> QED BY <1>2, SMTT(30)

(* The lists are in order, and only entry s has left them.                 *)
Shortened(d, s, r) ==
  /\ Lists(r)
  /\ \A k \in Feeds : \A t \in Entries : t # s /\ Linked(d, k, t) => Linked(r, k, t)

LEMMA StopLists ==
  ASSUME NEW d \in Devices, Lists(d), NEW f, NEW e \in Feeds, NEW s \in Entries,
         NEW i \in 1 .. Len(d.feed[e].list), d.feed[e].list[i] = s,
         NEW r, FilterStopped(d, f, e, s, i, r)
  PROVE  Shortened(d, s, r)
<1> DEFINE Ix(k, j) == IF k # e \/ j < i THEN j ELSE j + 1
<1>1. /\ r \in Devices
      /\ r.priv[s] = None /\ \A t \in Entries : t # s => r.priv[t] = d.priv[t]
      /\ \A k \in Feeds : k # e => r.feed[k] = d.feed[k]
      /\ Len(r.feed[e].list) = Len(d.feed[e].list) - 1
      /\ \A k \in 1 .. Len(d.feed[e].list) - 1 :
           r.feed[e].list[k] = d.feed[e].list[IF k < i THEN k ELSE k + 1]
  BY DEF FilterStopped
<1>2. \A k \in Feeds : Len(d.feed[k].list) \in Nat /\ Len(r.feed[k].list) \in Nat
  BY <1>1, ListTypes
<1>3. \A k \in Feeds : \A j \in 1 .. Len(r.feed[k].list) :
        /\ Ix(k, j) \in 1 .. Len(d.feed[k].list)
        /\ r.feed[k].list[j] = d.feed[k].list[Ix(k, j)]
        /\ k = e => Ix(k, j) # i
  <2> SUFFICES ASSUME NEW k \in Feeds, NEW j \in 1 .. Len(r.feed[k].list)
               PROVE  /\ Ix(k, j) \in 1 .. Len(d.feed[k].list)
                      /\ r.feed[k].list[j] = d.feed[k].list[Ix(k, j)]
                      /\ k = e => Ix(k, j) # i
    OBVIOUS
  <2>1. CASE k # e
    BY <2>1, <1>1
  <2>2. CASE k = e
    BY <2>2, <1>1, <1>2, SMTT(30)
  <2> QED BY <2>1, <2>2
<1>4. \A k \in Feeds : \A j, l \in Nat : Ix(k, j) = Ix(k, l) => j = l
  BY <1>1, <1>2, SMTT(30)
<1>5. ASSUME NEW k \in Feeds, NEW t \in Entries, t # s, Linked(d, k, t)
      PROVE  Linked(r, k, t)
  <2>1. PICK j \in 1 .. Len(d.feed[k].list) : d.feed[k].list[j] = t
    BY <1>5 DEF Linked
  <2>2. CASE k # e
    BY <2>1, <2>2, <1>1 DEF Linked
  <2>3. CASE k = e
    <3>1. j # i
      BY <2>1, <2>3, <1>5
    <3> DEFINE l == IF j < i THEN j ELSE j - 1
    <3>2. l \in 1 .. Len(d.feed[e].list) - 1 /\ (IF l < i THEN l ELSE l + 1) = j
      BY <2>3, <3>1, <1>2, SMTT(30)
    <3> HIDE DEF l
    <3>3. l \in 1 .. Len(r.feed[e].list) /\ r.feed[e].list[l] = t
      BY <3>2, <1>1, <2>1, <2>3
    <3> QED BY <3>3, <2>3 DEF Linked
  <2> QED BY <2>2, <2>3
<1> HIDE DEF Ix
<1>6. ASSUME NEW k \in Feeds, NEW j \in 1 .. Len(r.feed[k].list)
      PROVE  r.priv[r.feed[k].list[j]] # None
  <2>1. /\ r.feed[k].list[j] = d.feed[k].list[Ix(k, j)]
        /\ k = e => Ix(k, j) # i
        /\ Ix(k, j) \in 1 .. Len(d.feed[k].list)
    BY <1>3
  <2>2. d.feed[k].list[Ix(k, j)] # s /\ d.priv[d.feed[k].list[Ix(k, j)]] # None
    BY <2>1, <1>3, SMTT(30) DEF Lists
  <2>3. r.feed[k].list[j] \in Entries
    BY <1>1, ListTypes
  <2> QED BY <2>1, <2>2, <2>3, <1>1
<1>7. ASSUME NEW k \in Feeds, NEW j \in 1 .. Len(r.feed[k].list),
             NEW m \in Feeds, NEW l \in 1 .. Len(r.feed[m].list),
             r.feed[k].list[j] = r.feed[m].list[l]
      PROVE  k = m /\ j = l
  <2>1. d.feed[k].list[Ix(k, j)] = d.feed[m].list[Ix(m, l)]
    BY <1>7, <1>3
  <2>2. Ix(k, j) \in 1 .. Len(d.feed[k].list) /\ Ix(m, l) \in 1 .. Len(d.feed[m].list)
    BY <1>3
  <2>3. k = m /\ Ix(k, j) = Ix(m, l)
    BY <2>1, <2>2 DEF Lists
  <2>4. j \in Nat /\ l \in Nat
    BY <1>2, SMTT(30)
  <2> QED BY <2>3, <2>4, <1>4
<1>8. Lists(r)
  BY <1>6, <1>7 DEF Lists
<1> QED BY <1>5, <1>8 DEF Shortened

(* After dvb_dmxdev_feed_stop and release_filter.                          *)
LEMMA StopBetween ==
  ASSUME NEW d, Device(d, Acts(d)), NEW f \in Acts(d), NEW e, NEW s,
         d.filter[f].feed = e, d.filter[f].entry = s
  PROVE  /\ Between(ReleaseEntry(FeedStop(d, f), e, s), Acts(d) \ {f}, f, e)
         /\ Leaves(d, f, ReleaseEntry(FeedStop(d, f), e, s))
<1>0. PICK r, R : ReleaseEntry(FeedStop(d, f), e, s) = r /\ R = Acts(d)
  OBVIOUS
<1>1. /\ d \in Devices /\ f \in Filters /\ f \in R /\ R \subseteq Filters
      /\ d.filter \in [Filters -> FilterRecs] /\ d.priv \in [Entries -> Filters \cup {None}]
      /\ Lists(d) /\ Serves(d, R) /\ Goes(d, R, None) /\ Owned(d, R, None)
  BY <1>0, DevIs DEF Device, Acts
<1>2. OnFeed(d, f)
  BY <1>1 DEF Serves
<1>3. e \in Feeds /\ s \in Entries /\ Linked(d, e, s) /\ d.priv[s] = f
  BY <1>2 DEF OnFeed
<1>4. PICK i \in 1 .. Len(d.feed[e].list) : d.feed[e].list[i] = s
  BY <1>3 DEF Linked
<1>5. FilterStopped(d, f, e, s, i, r)
  BY <1>0, <1>3, <1>4, StopIs
<1>17. Shortened(d, s, r)
  BY <1>1, <1>3, <1>4, <1>5, StopLists
<1>6. /\ Lists(r)
      /\ \A k \in Feeds : \A t \in Entries : t # s /\ Linked(d, k, t) => Linked(r, k, t)
  BY <1>17 DEF Shortened
<1>7. /\ r \in Devices /\ r.stuck = d.stuck /\ r.lost = d.lost
      /\ \A g \in Filters : g # f => r.filter[g] = d.filter[g]
      /\ r.filter[f] = Stopped(d.filter[f]) /\ d.filter[f] \in FilterRecs
      /\ r.priv[s] = None /\ \A t \in Entries : t # s => r.priv[t] = d.priv[t]
      /\ \A k \in Feeds : k # e => r.feed[k] = d.feed[k]
      /\ r.feed[e].state = "READY"
  BY <1>1, <1>5 DEF FilterStopped
<1>8. /\ r.filter[f].state = "SET" /\ r.filter[f].feed = e /\ ~r.filter[f].timer
      /\ r.filter[f].par = d.filter[f].par
  BY <1>7, StoppedFacts, SMTT(30)
<1>9. Acts(r) = R \ {f}
  BY <1>0, <1>1, <1>7, <1>8 DEF Acts, Active
<1>10. ASSUME NEW g \in R \ {f}
       PROVE  OnFeed(r, g) /\ r.filter[g] = d.filter[g]
  <2>1. OnFeed(d, g) /\ r.filter[g] = d.filter[g]
    BY <1>1, <1>7 DEF Serves
  <2>2. PICK k, t : d.filter[g].feed = k /\ d.filter[g].entry = t
    OBVIOUS
  <2>3. k \in Feeds /\ t \in Entries /\ Linked(d, k, t) /\ d.priv[t] = g
        /\ d.feed[k].state # "FREE"
    BY <2>1, <2>2 DEF OnFeed
  <2>4. t # s
    BY <2>3, <1>3
  <2>5. Linked(r, k, t) /\ r.priv[t] = g /\ r.feed[k].state # "FREE"
    BY <2>3, <2>4, <1>6, <1>7
  <2> QED BY <2>1, <2>2, <2>3, <2>5 DEF OnFeed
<1>11. Serves(r, R \ {f})
  BY <1>1, <1>10, SMTT(30) DEF Serves
<1>12. Goes(r, R \ {f}, e)
  <2> SUFFICES ASSUME NEW g \in R \ {f}, r.filter[g].feed # e
               PROVE  r.feed[r.filter[g].feed].state = "GO" \/ r.filter[g].feed \in r.stuck
    BY DEF Goes
  <2>1. PICK k : d.filter[g].feed = k
    OBVIOUS
  <2>2. r.filter[g].feed = k /\ k \in Feeds /\ k # e /\ k # None
    BY <1>10, <2>1, SizeFacts, SMTT(30) DEF OnFeed
  <2>3. d.feed[k].state = "GO" \/ k \in d.stuck
    BY <2>1, <2>2, <1>1 DEF Goes
  <2> QED BY <2>2, <2>3, <1>7
<1>13. Owned(r, R \ {f}, e)
  <2>1. ASSUME NEW k \in Feeds \ {e}, r.feed[k].state # "FREE"
        PROVE  k \in r.stuck \/ \E g \in R \ {f} : r.filter[g].feed = k
    <3>1. k \in d.stuck \/ \E g \in R : d.filter[g].feed = k
      BY <2>1, <1>1, <1>7, SizeFacts DEF Owned
    <3> QED BY <3>1, <1>7, <1>10
  <2>2. ASSUME NEW t \in Entries, r.priv[t] # None
        PROVE  t \in r.lost \/ (r.priv[t] \in R \ {f} /\ r.filter[r.priv[t]].entry = t)
    <3>1. t # s /\ r.priv[t] = d.priv[t]
      BY <2>2, <1>7
    <3>2. t \in d.lost \/ (d.priv[t] \in R /\ d.filter[d.priv[t]].entry = t)
      BY <2>2, <3>1, <1>1 DEF Owned
    <3>3. d.priv[t] = f => d.filter[d.priv[t]].entry = s
      OBVIOUS
    <3> QED BY <3>1, <3>2, <3>3, <1>7, <1>10
  <2>3. \A g \in Filters : r.filter[g].timer => g \in R \ {f}
    BY <1>1, <1>7, <1>8 DEF Owned
  <2> QED BY <2>1, <2>2, <2>3 DEF Owned
<1>14. \A g \in R \ {f} : r.filter[g].feed = e <=> r.filter[g].par.pid = r.filter[f].par.pid
  BY <1>1, <1>8, <1>10, SMTT(30) DEF Serves
<1>15. Between(r, R \ {f}, f, e)
  BY <1>1, <1>3, <1>6, <1>7, <1>8, <1>9, <1>11, <1>12, <1>13, <1>14 DEF Between
<1>16. Leaves(d, f, r)
  BY <1>7 DEF Leaves
<1> QED BY <1>0, <1>15, <1>16

(***************************************************************************)
(* Changes that leave the feeds served                                     *)
(***************************************************************************)
Alike(x, y) == y.feed = x.feed /\ y.entry = x.entry /\ y.par.pid = x.par.pid

(* Lists stay as they are or are emptied.                                  *)
LEMMA ListsKeep ==
  ASSUME NEW d \in Devices, Lists(d), NEW r, r.priv = d.priv,
         \A k \in Feeds : r.feed[k].list = d.feed[k].list \/ r.feed[k].list = <<>>
  PROVE  Lists(r)
<1>1. ASSUME NEW k \in Feeds, NEW j \in 1 .. Len(r.feed[k].list)
      PROVE  r.feed[k].list = d.feed[k].list
  <2>1. Len(<<>>) = 0
    OBVIOUS
  <2> QED BY <2>1, SMTT(30)
<1> QED BY <1>1, SMTT(30) DEF Lists

LEMMA ServesKeep ==
  ASSUME NEW d, NEW R, Serves(d, R), NEW r,
         \A g \in R : Alike(d.filter[g], r.filter[g]),
         \A g \in R : /\ r.feed[d.filter[g].feed].list = d.feed[d.filter[g].feed].list
                      /\ r.feed[d.filter[g].feed].state # "FREE"
                      /\ r.priv[d.filter[g].entry] = d.priv[d.filter[g].entry]
  PROVE  Serves(r, R)
<1>1. ASSUME NEW g \in R
      PROVE  OnFeed(r, g)
  <2>1. OnFeed(d, g) /\ Alike(d.filter[g], r.filter[g])
    BY DEF Serves
  <2>2. r.filter[g].feed = d.filter[g].feed /\ r.filter[g].entry = d.filter[g].entry
    BY <2>1 DEF Alike
  <2>3. Linked(r, d.filter[g].feed, d.filter[g].entry)
    BY <2>1 DEF OnFeed, Linked
  <2> QED BY <2>1, <2>2, <2>3 DEF OnFeed
<1>2. \A f, g \in R :
        r.filter[f].feed = r.filter[g].feed <=> r.filter[f].par.pid = r.filter[g].par.pid
  BY SMTT(30) DEF Serves, Alike
<1> QED BY <1>1, <1>2 DEF Serves

(* The feeds, the entries and the places of the running filters stay, and  *)
(* no timer is set but for a running filter.                               *)
LEMMA DeviceKeep ==
  ASSUME NEW d, NEW R, R \subseteq Filters, Device(d, R), NEW r \in Devices,
         r.feed = d.feed, r.priv = d.priv, r.stuck = d.stuck, r.lost = d.lost,
         \A g \in R : Alike(d.filter[g], r.filter[g]),
         \A g \in Filters \ R : r.filter[g].timer => d.filter[g].timer
  PROVE  Device(r, R)
<1>1. d \in Devices /\ Lists(d) /\ Serves(d, R) /\ Goes(d, R, None) /\ Owned(d, R, None)
  BY DEF Device
<1>2. Lists(r)
  BY <1>1, SMTT(30) DEF Lists
<1>3. \A g \in R : d.feed[d.filter[g].feed].state # "FREE"
  BY <1>1 DEF Serves, OnFeed
<1>4. Serves(r, R)
  BY <1>1, <1>3, ServesKeep, SMTT(30)
<1>5. \A g \in R : r.filter[g].feed = d.filter[g].feed /\ r.filter[g].entry = d.filter[g].entry
  BY DEF Alike
<1>6. Goes(r, R, None)
  BY <1>1, <1>5 DEF Goes
<1>7. Owned(r, R, None)
  BY <1>1, <1>5, SMTT(30) DEF Owned
<1> QED BY <1>2, <1>4, <1>6, <1>7 DEF Device

(* start_filtering on the feed e of a filter g.                            *)
LEMMA StartServes ==
  ASSUME NEW d \in Devices, NEW R, R \subseteq Filters, NEW e \in Feeds,
         Lists(d), Serves(d, R), Goes(d, R, e), Owned(d, R, e),
         NEW g \in R, d.filter[g].feed = e, d.feed[e].state # "GO",
         NEW o, FilteringStarted(d, e, o)
  PROVE  Device(o.d, R) /\ (o.ok \/ e \in o.d.stuck)
<1>0. PICK r : o.d = r
  OBVIOUS
<1>1. OnFeed(d, g)
  BY DEF Serves
<1>2. d.feed[e].list # <<>>
  <2>1. PICK i \in 1 .. Len(d.feed[e].list) : TRUE
    BY <1>1 DEF OnFeed, Linked
  <2>2. Len(<<>>) = 0
    OBVIOUS
  <2> QED BY <2>1, <2>2, SMTT(30)
<1>3. /\ r \in Devices /\ r.filter = d.filter /\ r.priv = d.priv /\ r.lost = d.lost
      /\ \/ r.feed = d.feed /\ r.stuck = d.stuck \cup {e}
         \/ /\ r.feed[e].state = "GO" /\ r.feed[e].list = d.feed[e].list
            /\ \A k \in Feeds : k # e => r.feed[k] = d.feed[k]
            /\ r.stuck = d.stuck \ {e} /\ o.ok
  BY <1>0, <1>2 DEF FilteringStarted
<1>4. \A k \in Feeds : /\ r.feed[k].list = d.feed[k].list
                       /\ r.feed[k].state = d.feed[k].state \/ k = e
                       /\ k \in d.stuck => k \in r.stuck \/ k = e
  BY <1>3
<1>5. r.feed[e].state = "GO" \/ e \in r.stuck
  BY <1>3
<1>6. Lists(r)
  BY <1>3, <1>4, ListsKeep
<1>7. \A h \in R : d.filter[h].feed \in Feeds /\ d.feed[d.filter[h].feed].state # "FREE"
  BY DEF Serves, OnFeed
<1>8. Serves(r, R)
  <2>1. \A h \in R : Alike(d.filter[h], r.filter[h])
    BY <1>3 DEF Alike
  <2>2. \A h \in R : /\ r.feed[d.filter[h].feed].list = d.feed[d.filter[h].feed].list
                     /\ r.feed[d.filter[h].feed].state # "FREE"
    BY <1>3, <1>4, <1>7, SMTT(30)
  <2> QED BY <2>1, <2>2, <1>3, ServesKeep, SMTT(30)
<1>9. Goes(r, R, None)
  <2> SUFFICES ASSUME NEW h \in R
               PROVE  r.feed[r.filter[h].feed].state = "GO" \/ r.filter[h].feed \in r.stuck
    BY DEF Goes
  <2>1. PICK k \in Feeds : d.filter[h].feed = k /\ r.filter[h].feed = k
    BY <1>3, <1>7
  <2>2. k # e => d.feed[k].state = "GO" \/ k \in d.stuck
    BY <2>1 DEF Goes
  <2> QED BY <2>1, <2>2, <1>4, <1>5
<1>10. Owned(r, R, None)
  BY <1>3, <1>4, SMTT(30) DEF Owned
<1>11. o.ok \/ e \in r.stuck
  BY <1>3
<1> QED BY <1>0, <1>3, <1>6, <1>8, <1>9, <1>10, <1>11 DEF Device

(***************************************************************************)
(* dvb_dmxdev_feed_restart                                                 *)
(***************************************************************************)
Again(x) == [x EXCEPT !.state = "GO"]

(* Filter g is now y, all else is as before.                               *)
FilterSet(d, g, y, r) ==
  /\ r \in Devices /\ r.feed = d.feed /\ r.priv = d.priv /\ r.stuck = d.stuck
  /\ r.lost = d.lost /\ r.filter[g] = y
  /\ \A h \in Filters : h # g => r.filter[h] = d.filter[h]

LEMMA FilterSetIs ==
  ASSUME NEW d \in Devices, NEW g \in Filters, NEW y \in FilterRecs
  PROVE  FilterSet(d, g, y, [d EXCEPT !.filter[g] = y])
<1> DEFINE F == [d.filter EXCEPT ![g] = y]
<1>1. [d EXCEPT !.filter[g] = y] = Dev(F, d.feed, d.priv, d.stuck, d.lost)
  BY SMTT(30) DEF Devices, Dev
<1>2. /\ F \in [Filters -> FilterRecs] /\ F[g] = y
      /\ \A h \in Filters : h # g => F[h] = d.filter[h]
  BY DevIs
<1> HIDE DEF F
<1> PICK r : r = Dev(F, d.feed, d.priv, d.stuck, d.lost)
  OBVIOUS
<1>3. /\ r \in Devices /\ r.filter = F /\ r.feed = d.feed /\ r.priv = d.priv
      /\ r.stuck = d.stuck /\ r.lost = d.lost
  BY <1>2, DevIs, DevType, SMTT(30)
<1>4. FilterSet(d, g, y, r)
  BY <1>2, <1>3 DEF FilterSet
<1> QED BY <1>1, <1>4

LEMMA AgainIs ==
  ASSUME NEW d \in Devices, NEW g \in Filters
  PROVE  FilterSet(d, g, Again(d.filter[g]), [d EXCEPT !.filter[g].state = "GO"])
<1>1. d.filter[g] \in FilterRecs
  BY DevIs
<1>2. Again(d.filter[g]) \in FilterRecs
  BY <1>1 DEF FilterRecs, Again, Active
<1>3. [d EXCEPT !.filter[g].state = "GO"] = [d EXCEPT !.filter[g] = Again(d.filter[g])]
  BY DEF Devices, Again
<1> QED BY <1>2, <1>3, FilterSetIs

LEMMA AgainFacts ==
  ASSUME NEW x \in FilterRecs
  PROVE  /\ Again(x).state = "GO" /\ Alike(x, Again(x)) /\ Again(x).timer = x.timer
         /\ Again(x).par = x.par /\ Again(x).pread = x.pread /\ Again(x).pwrite = x.pwrite
         /\ Again(x).ring = x.ring /\ Again(x).error = x.error /\ Again(x).todo = x.todo
BY DEF FilterRecs, Again, Alike

(* The feed of f is left to the other filters R: it is in order again, one *)
(* of them may be in state GO again, and if the feed has entries it is the *)
(* feed of one of them.                                                    *)
Restarted(d, R, e, r) ==
  /\ Device(r, R) /\ Acts(r) = R
  /\ \A g \in Filters : \/ r.filter[g] = d.filter[g]
                        \/ g \in R /\ r.filter[g] = Again(d.filter[g])
  /\ r.feed[e].list = <<>> \/ \E g \in R : r.filter[g].feed = e

LEMMA RestartShared ==
  ASSUME NEW d, NEW R, NEW f, NEW e, Between(d, R, f, e), NEW g \in R, d.filter[g].feed = e,
         NEW o \in StartFiltering([d EXCEPT !.filter[g].state = "GO"], e)
  PROVE  Restarted(d, R, e, o.d)
<1>1. PICK d1 : [d EXCEPT !.filter[g].state = "GO"] = d1
  OBVIOUS
<1>2. /\ d \in Devices /\ f \in Filters /\ e \in Feeds /\ R = Acts(d) /\ R \subseteq Filters
      /\ d.feed[e].state = "READY"
      /\ Lists(d) /\ Serves(d, R) /\ Goes(d, R, e) /\ Owned(d, R, e)
  BY DEF Between, Acts
<1>3. \A h \in Filters : d.filter[h] \in FilterRecs
  BY <1>2, DevIs
<1>4. FilterSet(d, g, Again(d.filter[g]), d1)
  BY <1>1, <1>2, AgainIs
<1>5. /\ d1 \in Devices /\ d1.feed = d.feed /\ d1.priv = d.priv /\ d1.stuck = d.stuck
      /\ d1.lost = d.lost /\ d1.filter[g] = Again(d.filter[g])
      /\ \A h \in Filters : h # g => d1.filter[h] = d.filter[h]
  BY <1>4 DEF FilterSet
<1>6. \A h \in Filters : /\ Alike(d.filter[h], d1.filter[h])
                         /\ d1.filter[h].timer = d.filter[h].timer
                         /\ d1.filter[h].state = IF h = g THEN "GO" ELSE d.filter[h].state
  BY <1>2, <1>3, <1>5, AgainFacts, SMTT(30) DEF Alike
<1>7. /\ Lists(d1) /\ Serves(d1, R)
  <2>1. \A h \in R : d.feed[d.filter[h].feed].state # "FREE"
    BY <1>2 DEF Serves, OnFeed
  <2> QED BY <2>1, <1>2, <1>5, <1>6, ServesKeep, SMTT(30) DEF Lists
<1>8. \A h \in Filters : /\ d1.filter[h].feed = d.filter[h].feed
                         /\ d1.filter[h].entry = d.filter[h].entry
  BY <1>6 DEF Alike
<1>9. Goes(d1, R, e) /\ Owned(d1, R, e)
  BY <1>2, <1>5, <1>6, <1>8, SMTT(30) DEF Goes, Owned
<1>10. FilteringStarted(d1, e, o)
  BY <1>1, <1>2, <1>5, StartFilteringIs
<1>11. Device(o.d, R)
  BY <1>2, <1>5, <1>7, <1>8, <1>9, <1>10, StartServes
<1>12. o.d.filter = d1.filter
  BY <1>10 DEF FilteringStarted
<1>13. Acts(o.d) = R
  BY <1>2, <1>6, <1>12, SMTT(30) DEF Acts, Active
<1>14. o.d.filter[g].feed = e
  BY <1>2, <1>8, <1>12
<1> QED BY <1>5, <1>11, <1>12, <1>13, <1>14 DEF Restarted

LEMMA RestartAlone ==
  ASSUME NEW d, NEW R, NEW f, NEW e, Between(d, R, f, e), \A g \in R : d.filter[g].feed # e
  PROVE  Restarted(d, R, e, ReleaseFeed(d, e))
<1>1. PICK r : ReleaseFeed(d, e) = r
  OBVIOUS
<1>2. /\ d \in Devices /\ f \in Filters /\ e \in Feeds /\ R = Acts(d) /\ R \subseteq Filters
      /\ Lists(d) /\ Serves(d, R) /\ Goes(d, R, e) /\ Owned(d, R, e)
  BY DEF Between, Acts
<1>3. FeedReleasedTo(d, e, r)
  BY <1>1, <1>2, ReleaseFeedIs
<1>4. /\ r \in Devices /\ r.filter = d.filter /\ r.priv = d.priv /\ r.lost = d.lost
      /\ r.stuck = d.stuck \ {e} /\ r.feed[e].state = "FREE" /\ r.feed[e].list = <<>>
      /\ \A k \in Feeds : k # e => r.feed[k] = d.feed[k]
  BY <1>3, SMTT(30) DEF FeedReleasedTo, NoFeed
<1>5. Lists(r)
  BY <1>2, <1>4, ListsKeep
<1>6. \A g \in R : /\ d.filter[g].feed \in Feeds /\ d.filter[g].feed # e
                   /\ d.feed[d.filter[g].feed].state # "FREE"
                   /\ Alike(d.filter[g], r.filter[g])
  BY <1>2, <1>4 DEF Serves, OnFeed, Alike
<1>7. \A g \in R : r.feed[d.filter[g].feed] = d.feed[d.filter[g].feed]
  BY <1>4, <1>6
<1>8. Serves(r, R)
  BY <1>2, <1>4, <1>6, <1>7, ServesKeep, SMTT(30)
<1>9. Goes(r, R, None)
  BY <1>2, <1>4, <1>6, <1>7, SMTT(30) DEF Goes
<1>10. Owned(r, R, None)
  BY <1>2, <1>4, SMTT(30) DEF Owned
<1>11. Acts(r) = R
  BY <1>2, <1>4 DEF Acts
<1> QED BY <1>1, <1>4, <1>5, <1>8, <1>9, <1>10, <1>11 DEF Restarted, Device

LEMMA RestartIs ==
  ASSUME WellOrdered, NEW d, NEW R, NEW f, NEW e, Between(d, R, f, e),
         NEW r \in FeedRestart(d, f)
  PROVE  Restarted(d, R, e, r)
<1>1. /\ f \in Filters /\ R = Acts(d) /\ R \subseteq Filters /\ d.filter[f].feed = e
      /\ \A g \in R : d.filter[g].feed = e <=> d.filter[g].par.pid = d.filter[f].par.pid
  BY DEF Between, Acts
<1>2. SamePid(d, f) = {g \in R : d.filter[g].feed = e}
  BY <1>1 DEF SamePid, Acts
<1>3. CASE SamePid(d, f) # {}
  <2> PICK g : g = Lowest(SamePid(d, f))
    OBVIOUS
  <2>1. SamePid(d, f) \subseteq Nat
    BY SizeFacts DEF SamePid
  <2>2. g \in R /\ d.filter[g].feed = e
    BY <2>1, <1>2, <1>3 DEF WellOrdered
  <2>3. r \in {o.d : o \in StartFiltering([d EXCEPT !.filter[g].state = "GO"], e)}
    BY <1>3, <2>2 DEF FeedRestart
  <2>4. PICK o \in StartFiltering([d EXCEPT !.filter[g].state = "GO"], e) : r = o.d
    BY <2>3
  <2> QED BY <2>2, <2>4, RestartShared
<1>4. CASE SamePid(d, f) = {}
  <2>1. r = ReleaseFeed(d, e)
    BY <1>1, <1>4 DEF FeedRestart
  <2>2. \A g \in R : d.filter[g].feed # e
    BY <1>2, <1>4
  <2> QED BY <2>1, <2>2, RestartAlone
<1> QED BY <1>3, <1>4

(***************************************************************************)
(* dvb_dmxdev_filter_stop                                                  *)
(***************************************************************************)
(* Filter f is no longer active, and with it its feed, its ring and its    *)
(* timer; the others go on, one of them perhaps in state GO again.         *)
Left(d, f, r) ==
  /\ Device(r, Acts(r)) /\ Acts(r) = Acts(d) \ {f}
  /\ f \in Acts(d) => r.filter[f] = Idle(Stopped(d.filter[f]))
  /\ f \notin Acts(d) => r.filter[f] = d.filter[f]
  /\ \A g \in Filters : g # f => \/ r.filter[g] = d.filter[g]
                                 \/ g \in Acts(d) /\ r.filter[g] = Again(d.filter[g])

LEMMA IdleIs ==
  ASSUME NEW r \in Devices, NEW f \in Filters
  PROVE  FilterSet(r, f, Idle(r.filter[f]),
           [r EXCEPT !.filter[f].feed = None, !.filter[f].pread = 0, !.filter[f].pwrite = 0])
<1>1. r.filter[f] \in FilterRecs /\ r.filter \in [Filters -> FilterRecs]
  BY DevIs
<1>2. Idle(r.filter[f]) \in FilterRecs
  BY <1>1, IdleFacts
<1>3. [r EXCEPT !.filter[f].feed = None, !.filter[f].pread = 0, !.filter[f].pwrite = 0]
      = [r EXCEPT !.filter[f] = Idle(r.filter[f])]
  BY <1>1 DEF Devices, Idle
<1> QED BY <1>2, <1>3, FilterSetIs

LEMMA StopLeaves ==
  ASSUME WellOrdered, NEW d, Device(d, Acts(d)), NEW f \in Filters, NEW r \in FilterStop(d, f)
  PROVE  Left(d, f, r)
<1>1. d \in Devices /\ \A g \in Filters : d.filter[g] \in FilterRecs
  BY DevIs DEF Device
<1>2. CASE f \notin Acts(d)
  <2>1. r = d
    BY <1>2 DEF FilterStop, Acts
  <2> QED BY <1>2, <2>1 DEF Left
<1>3. CASE f \in Acts(d)
  <2>1. PICK e, s, R : d.filter[f].feed = e /\ d.filter[f].entry = s /\ R = Acts(d) \ {f}
    OBVIOUS
  <2>2. PICK d1 : ReleaseEntry(FeedStop(d, f), e, s) = d1
    OBVIOUS
  <2>3. Between(d1, R, f, e) /\ Leaves(d, f, d1)
    BY <1>3, <2>1, <2>2, StopBetween
  <2>4. r \in {[q EXCEPT !.filter[f].feed = None, !.filter[f].pread = 0, !.filter[f].pwrite = 0] :
                 q \in FeedRestart(d1, f)}
    BY <1>3, <2>1, <2>2 DEF FilterStop, Acts
  <2>5. PICK q \in FeedRestart(d1, f) :
          r = [q EXCEPT !.filter[f].feed = None, !.filter[f].pread = 0, !.filter[f].pwrite = 0]
    BY <2>4
  <2>6. Restarted(d1, R, e, q)
    BY <2>3, RestartIs
  <2>7. /\ Device(q, R) /\ Acts(q) = R /\ R \subseteq Filters /\ f \notin R
        /\ \A g \in Filters : \/ q.filter[g] = d1.filter[g]
                              \/ g \in R /\ q.filter[g] = Again(d1.filter[g])
    BY <2>1, <2>6 DEF Restarted, Acts
  <2>8. q \in Devices
    BY <2>7 DEF Device
  <2>9. FilterSet(q, f, Idle(q.filter[f]), r)
    BY <2>5, <2>8, IdleIs
  <2>10. /\ r \in Devices /\ r.feed = q.feed /\ r.priv = q.priv /\ r.stuck = q.stuck
         /\ r.lost = q.lost /\ r.filter[f] = Idle(q.filter[f])
         /\ \A h \in Filters : h # f => r.filter[h] = q.filter[h]
    BY <2>9 DEF FilterSet
  <2>11. /\ q.filter[f] = Stopped(d.filter[f])
         /\ \A g \in Filters : g # f => d1.filter[g] = d.filter[g]
    BY <2>3, <2>7 DEF Leaves
  <2>12. r.filter[f].state = "SET" /\ ~r.filter[f].timer
    BY <1>1, <2>10, <2>11, StoppedFacts, IdleFacts, SMTT(30)
  <2>13. Acts(r) = R
    BY <2>7, <2>10, <2>12 DEF Acts, Active
  <2>14. Device(r, R)
    <3>1. \A g \in R : Alike(q.filter[g], r.filter[g])
      BY <2>7, <2>10 DEF Alike
    <3>2. \A g \in Filters \ R : r.filter[g].timer => q.filter[g].timer
      BY <2>10, <2>12
    <3> QED BY <3>1, <3>2, <2>7, <2>10, DeviceKeep
  <2> QED BY <1>3, <2>1, <2>7, <2>10, <2>11, <2>13, <2>14 DEF Left
<1> QED BY <1>2, <1>3

(***************************************************************************)
(* dvb_dmxdev_filter_start: the feed                                       *)
(***************************************************************************)
AtRest(x) == x.state = "SET" /\ x.pread = 0 /\ x.pwrite = 0
OnlyFilter(d, f, r) == \A g \in Filters : g # f => r.filter[g] = d.filter[g]

(* The filter has a feed, stopped, or there is none for it.                *)
Fed(d, R, f, r) ==
  /\ r = d \/ \E e \in Feeds : Between(r, R, f, e)
  /\ AtRest(r.filter[f]) /\ OnlyFilter(d, f, r)

FeedAt(x, e) == [x EXCEPT !.feed = e]

LEMMA FeedAtFacts ==
  ASSUME NEW x \in FilterRecs, NEW e \in Feeds
  PROVE  /\ FeedAt(x, e) \in FilterRecs /\ FeedAt(x, e).feed = e
         /\ FeedAt(x, e).par = x.par /\ FeedAt(x, e).state = x.state
         /\ FeedAt(x, e).timer = x.timer
         /\ FeedAt(x, e).pread = x.pread /\ FeedAt(x, e).pwrite = x.pwrite
BY DEF FilterRecs, FeedAt

LEMMA FeedAtIs ==
  ASSUME NEW d \in Devices, NEW f \in Filters, NEW e \in Feeds
  PROVE  FilterSet(d, f, FeedAt(d.filter[f], e), [d EXCEPT !.filter[f].feed = e])
<1>1. FeedAt(d.filter[f], e) \in FilterRecs
  BY DevIs, FeedAtFacts
<1>2. [d EXCEPT !.filter[f].feed = e] = [d EXCEPT !.filter[f] = FeedAt(d.filter[f], e)]
  BY DEF Devices, FeedAt
<1> QED BY <1>1, <1>2, FilterSetIs

LEMMA SharedFeed ==
  ASSUME NEW d, NEW R, Device(d, R), R = Acts(d), NEW f \in Filters \ R,
         AtRest(d.filter[f]),
         NEW g \in R, d.filter[g].par.pid = d.filter[f].par.pid,
         NEW e, d.filter[g].feed = e
  PROVE  Fed(d, R, f, FeedStop([d EXCEPT !.filter[f].feed = e], f))
<1>1. PICK d1 : [d EXCEPT !.filter[f].feed = e] = d1
  OBVIOUS
<1>2. PICK r : FeedStop(d1, f) = r
  OBVIOUS
<1>3. /\ d \in Devices /\ R \subseteq Filters /\ f \in Filters /\ f \notin R
      /\ Lists(d) /\ Serves(d, R) /\ Goes(d, R, None) /\ Owned(d, R, None)
  BY DEF Device, Acts
<1>4. e \in Feeds
  BY <1>3 DEF Serves, OnFeed
<1>5. PICK y \in FilterRecs :
        /\ y.feed = e /\ y.par = d.filter[f].par /\ y.state = "SET"
        /\ y.pread = 0 /\ y.pwrite = 0 /\ FilterSet(d, f, y, d1)
  <2>1. d.filter[f] \in FilterRecs
    BY <1>3, DevIs
  <2>2. FilterSet(d, f, FeedAt(d.filter[f], e), d1)
    BY <1>1, <1>3, <1>4, FeedAtIs
  <2> QED BY <2>1, <2>2, <1>4, FeedAtFacts DEF AtRest
<1>6. /\ d1 \in Devices /\ d1.feed = d.feed /\ d1.priv = d.priv /\ d1.stuck = d.stuck
      /\ d1.lost = d.lost /\ d1.filter[f] = y
      /\ \A h \in Filters : h # f => d1.filter[h] = d.filter[h]
  BY <1>5 DEF FilterSet
<1>7. FeedStopped(d1, f, e, r)
  BY <1>2, <1>3, <1>4, <1>5, <1>6, FeedStopIs
<1>8. /\ r \in Devices /\ r.priv = d.priv /\ r.stuck = d.stuck /\ r.lost = d.lost
      /\ r.filter[f] = Stopped(y)
      /\ \A h \in Filters : h # f => r.filter[h] = d.filter[h]
      /\ r.feed[e].state = "READY" /\ r.feed[e].list = d.feed[e].list
      /\ \A k \in Feeds : k # e => r.feed[k] = d.feed[k]
  BY <1>6, <1>7, SMTT(30) DEF FeedStopped, Ready
<1>9. /\ r.filter[f].state = "SET" /\ r.filter[f].feed = e /\ ~r.filter[f].timer
      /\ r.filter[f].pread = 0 /\ r.filter[f].pwrite = 0
      /\ r.filter[f].par = d.filter[f].par
  BY <1>5, <1>8, StoppedFacts, SMTT(30)
<1>10. Acts(r) = R
  BY <1>3, <1>8, <1>9 DEF Acts, Active
<1>11. Lists(r)
  BY <1>3, <1>8, ListsKeep
<1>12. \A h \in R : d.filter[h].feed \in Feeds /\ d.feed[d.filter[h].feed].state # "FREE"
  BY <1>3 DEF Serves, OnFeed
<1>13. \A h \in R : r.filter[h] = d.filter[h]
  BY <1>3, <1>8
<1>14. Serves(r, R)
  <2>1. \A h \in R : /\ r.feed[d.filter[h].feed].list = d.feed[d.filter[h].feed].list
                     /\ r.feed[d.filter[h].feed].state # "FREE"
    BY <1>8, <1>12
  <2>2. \A h \in R : Alike(d.filter[h], r.filter[h])
    BY <1>13 DEF Alike
  <2> QED BY <2>1, <2>2, <1>3, <1>8, ServesKeep, SMTT(30)
<1>15. Goes(r, R, e)
  <2> SUFFICES ASSUME NEW h \in R, r.filter[h].feed # e
               PROVE  r.feed[r.filter[h].feed].state = "GO" \/ r.filter[h].feed \in r.stuck
    BY DEF Goes
  <2>1. PICK k \in Feeds : r.filter[h].feed = k /\ d.filter[h].feed = k /\ k # None
    BY <1>12, <1>13, SizeFacts
  <2>2. d.feed[k].state = "GO" \/ k \in d.stuck
    BY <2>1, <1>3 DEF Goes
  <2> QED BY <2>1, <2>2, <1>8
<1>16. Owned(r, R, e)
  <2>1. ASSUME NEW k \in Feeds \ {e}, r.feed[k].state # "FREE"
        PROVE  k \in r.stuck \/ \E h \in R : r.filter[h].feed = k
    BY <2>1, <1>3, <1>8, <1>13, SizeFacts, SMTT(30) DEF Owned
  <2>2. \A t \in Entries : r.priv[t] # None =>
          t \in r.lost \/ (r.priv[t] \in R /\ r.filter[r.priv[t]].entry = t)
    BY <1>3, <1>8, <1>13, SMTT(30) DEF Owned
  <2>3. \A h \in Filters : r.filter[h].timer => h \in R
    BY <1>3, <1>8, <1>9 DEF Owned
  <2> QED BY <2>1, <2>2, <2>3 DEF Owned
<1>17. \A h \in R : r.filter[h].feed = e <=> r.filter[h].par.pid = r.filter[f].par.pid
  BY <1>3, <1>9, <1>13, SMTT(30) DEF Serves
<1>18. Between(r, R, f, e)
  BY <1>3, <1>4, <1>8, <1>9, <1>10, <1>11, <1>14, <1>15, <1>16, <1>17 DEF Between
<1>19. AtRest(r.filter[f]) /\ OnlyFilter(d, f, r)
  BY <1>8, <1>9 DEF AtRest, OnlyFilter
<1> QED BY <1>1, <1>2, <1>4, <1>18, <1>19 DEF Fed

TakesFeed(d, f, e) ==
  [d EXCEPT !.filter[f].feed = e, !.feed[e] = [state |-> "READY", list |-> <<>>]]

FeedTaken(d, f, e, r) ==
  /\ r \in Devices /\ r.priv = d.priv /\ r.stuck = d.stuck /\ r.lost = d.lost
  /\ r.filter[f] = FeedAt(d.filter[f], e)
  /\ \A h \in Filters : h # f => r.filter[h] = d.filter[h]
  /\ r.feed[e].state = "READY" /\ r.feed[e].list = <<>>
  /\ \A k \in Feeds : k # e => r.feed[k] = d.feed[k]

LEMMA NewFeedIs ==
  ASSUME NEW d \in Devices, NEW f \in Filters, NEW e \in Feeds
  PROVE  FeedTaken(d, f, e, TakesFeed(d, f, e))
<1>1. PICK d1 : [d EXCEPT !.filter[f].feed = e] = d1
  OBVIOUS
<1>2. FilterSet(d, f, FeedAt(d.filter[f], e), d1)
  BY <1>1, FeedAtIs
<1>3. /\ d1 \in Devices /\ d1.feed = d.feed /\ d1.priv = d.priv /\ d1.stuck = d.stuck
      /\ d1.lost = d.lost /\ d1.filter[f] = FeedAt(d.filter[f], e)
      /\ \A h \in Filters : h # f => d1.filter[h] = d.filter[h]
  BY <1>2 DEF FilterSet
<1> DEFINE E == [d1.feed EXCEPT ![e] = Ready(<<>>)]
           r == Dev(d1.filter, E, d1.priv, d1.stuck, d1.lost)
<1>4. TakesFeed(d, f, e) = r
  <2>1. TakesFeed(d, f, e) = [d1 EXCEPT !.feed[e] = Ready(<<>>)]
    BY <1>1 DEF Ready, TakesFeed
  <2>2. [d1 EXCEPT !.feed[e] = Ready(<<>>)] = r
    BY <1>3, SMTT(30) DEF Devices, Dev
  <2> QED BY <2>1, <2>2
<1>5. Ready(<<>>) \in FeedRecs
  BY SMTT(30) DEF Ready, FeedRecs
<1>6. /\ E \in [Feeds -> FeedRecs] /\ E[e] = Ready(<<>>)
      /\ \A k \in Feeds : k # e => E[k] = d.feed[k]
  BY <1>3, <1>5, DevIs
<1>9. Ready(<<>>).state = "READY" /\ Ready(<<>>).list = <<>>
  BY DEF Ready
<1> HIDE DEF E
<1>7. /\ r \in Devices /\ r.filter = d1.filter /\ r.feed = E /\ r.priv = d1.priv
      /\ r.stuck = d1.stuck /\ r.lost = d1.lost
  BY <1>3, <1>6, DevIs, DevType, SMTT(30)
<1> HIDE DEF r
<1> QED BY <1>3, <1>4, <1>6, <1>7, <1>9 DEF FeedTaken

LEMMA NewFeed ==
  ASSUME NEW d, NEW R, Device(d, R), R = Acts(d), NEW f \in Filters \ R,
         AtRest(d.filter[f]),
         \A g \in R : d.filter[g].par.pid # d.filter[f].par.pid,
         NEW e \in Feeds, d.feed[e].state = "FREE"
  PROVE  Fed(d, R, f, TakesFeed(d, f, e))
<1>3. /\ d \in Devices /\ R \subseteq Filters /\ f \in Filters /\ f \notin R
      /\ Lists(d) /\ Serves(d, R) /\ Goes(d, R, None) /\ Owned(d, R, None)
  BY DEF Device, Acts
<1>1. PICK r : TakesFeed(d, f, e) = r
  OBVIOUS
<1>16. FeedTaken(d, f, e, r)
  BY <1>1, <1>3, NewFeedIs
<1>2. /\ r \in Devices /\ r.priv = d.priv /\ r.stuck = d.stuck /\ r.lost = d.lost
      /\ r.feed[e].state = "READY" /\ r.feed[e].list = <<>>
      /\ \A k \in Feeds : k # e => r.feed[k] = d.feed[k]
      /\ r.filter[f] = FeedAt(d.filter[f], e)
      /\ \A h \in Filters : h # f => r.filter[h] = d.filter[h]
  BY <1>16 DEF FeedTaken
<1>4. /\ r.filter[f].feed = e /\ AtRest(r.filter[f]) /\ r.filter[f].par = d.filter[f].par
      /\ r.filter[f].timer = d.filter[f].timer
  <2>1. d.filter[f] \in FilterRecs
    BY <1>3, DevIs
  <2> QED BY <2>1, <1>2, FeedAtFacts, SMTT(30) DEF AtRest
<1>5. Acts(r) = R
  BY <1>2, <1>3, <1>4 DEF Acts, Active, AtRest
<1>6. Lists(r)
  BY <1>2, <1>3, ListsKeep
<1>7. \A h \in R : /\ d.filter[h].feed \in Feeds /\ d.feed[d.filter[h].feed].state # "FREE"
                   /\ r.filter[h] = d.filter[h]
  BY <1>2, <1>3 DEF Serves, OnFeed
<1>8. \A h \in R : d.filter[h].feed # e /\ r.feed[d.filter[h].feed] = d.feed[d.filter[h].feed]
  BY <1>2, <1>7, SMTT(30)
<1>9. Serves(r, R)
  <2>1. \A h \in R : Alike(d.filter[h], r.filter[h])
    BY <1>7 DEF Alike
  <2> QED BY <2>1, <1>2, <1>3, <1>7, <1>8, ServesKeep, SMTT(30)
<1>10. Goes(r, R, e)
  <2>1. \A h \in R : d.filter[h].feed # None
    BY <1>7, SizeFacts
  <2> QED BY <2>1, <1>2, <1>3, <1>7, <1>8, SMTT(30) DEF Goes
<1>11. Owned(r, R, e)
  <2>1. ASSUME NEW k \in Feeds \ {e}, r.feed[k].state # "FREE"
        PROVE  k \in r.stuck \/ \E h \in R : r.filter[h].feed = k
    BY <2>1, <1>2, <1>3, <1>7, SizeFacts, SMTT(30) DEF Owned
  <2>2. \A t \in Entries : r.priv[t] # None =>
          t \in r.lost \/ (r.priv[t] \in R /\ r.filter[r.priv[t]].entry = t)
    BY <1>2, <1>3, <1>7, SMTT(30) DEF Owned
  <2>3. \A h \in Filters : r.filter[h].timer => h \in R
    BY <1>2, <1>3, <1>4 DEF Owned
  <2> QED BY <2>1, <2>2, <2>3 DEF Owned
<1>12. \A h \in R : r.filter[h].feed = e <=> r.filter[h].par.pid = r.filter[f].par.pid
  BY <1>4, <1>7, <1>8
<1>13. Between(r, R, f, e)
  BY <1>2, <1>3, <1>4, <1>5, <1>6, <1>9, <1>10, <1>11, <1>12 DEF Between
<1>14. OnlyFilter(d, f, r)
  BY <1>2 DEF OnlyFilter
<1>15. Fed(d, R, f, r)
  BY <1>4, <1>13, <1>14 DEF Fed
<1> QED BY <1>1, <1>15

LEMMA WithFeedIs ==
  ASSUME WellOrdered, NEW d, NEW R, Device(d, R), R = Acts(d), NEW f \in Filters \ R,
         AtRest(d.filter[f])
  PROVE  Fed(d, R, f, WithFeed(d, f))
<1>1. PICK shared, free : /\ shared = SamePid(d, f)
                          /\ free = {e \in Feeds : d.feed[e].state = "FREE"}
  OBVIOUS
<1>2. shared = {g \in R : d.filter[g].par.pid = d.filter[f].par.pid}
  BY <1>1 DEF SamePid, Acts
<1>3. shared \subseteq Nat /\ free \subseteq Feeds /\ free \subseteq Nat
  BY <1>1, SizeFacts DEF SamePid
<1>4. CASE shared # {}
  <2>1. PICK g : g = Lowest(shared)
    OBVIOUS
  <2>2. g \in shared
    BY <2>1, <1>3, <1>4 DEF WellOrdered
  <2>3. g \in R /\ d.filter[g].par.pid = d.filter[f].par.pid
    BY <2>2, <1>2
  <2>4. PICK e : d.filter[g].feed = e
    OBVIOUS
  <2>5. WithFeed(d, f) = FeedStop([d EXCEPT !.filter[f].feed = e], f)
    BY <1>1, <1>4, <2>1, <2>4 DEF WithFeed
  <2> QED BY <2>3, <2>4, <2>5, SharedFeed, SMTT(30)
<1>5. CASE shared = {} /\ free = {}
  <2>1. WithFeed(d, f) = d
    BY <1>1, <1>5 DEF WithFeed
  <2> QED BY <2>1 DEF Fed, OnlyFilter
<1>6. CASE shared = {} /\ free # {}
  <2>1. PICK e : e = Lowest(free)
    OBVIOUS
  <2>2. e \in free
    BY <2>1, <1>3, <1>6 DEF WellOrdered
  <2>3. e \in Feeds /\ d.feed[e].state = "FREE"
    BY <2>2, <1>1
  <2>4. WithFeed(d, f) = TakesFeed(d, f, e)
    BY <1>1, <1>6, <2>1 DEF WithFeed, TakesFeed
  <2>5. \A g \in R : d.filter[g].par.pid # d.filter[f].par.pid
    BY <1>2, <1>6
  <2> QED BY <2>3, <2>4, <2>5, NewFeed
<1> QED BY <1>4, <1>5, <1>6

(***************************************************************************)
(* dvb_dmxdev_filter_start: the entry                                      *)
(***************************************************************************)
EntryAt(x, s) == [x EXCEPT !.entry = s, !.todo = 0]
TakesEntry(d, e, f) == [AllocateEntry(d, e, f) EXCEPT !.filter[f].todo = 0]

LEMMA EntryAtFacts ==
  ASSUME NEW x \in FilterRecs, NEW s \in Entries
  PROVE  /\ EntryAt(x, s) \in FilterRecs /\ EntryAt(x, s).entry = s
         /\ EntryAt(x, s).feed = x.feed /\ EntryAt(x, s).par = x.par
         /\ EntryAt(x, s).state = x.state /\ EntryAt(x, s).timer = x.timer
         /\ EntryAt(x, s).todo = 0
         /\ EntryAt(x, s).pread = x.pread /\ EntryAt(x, s).pwrite = x.pwrite
<1>1. 0 \in 1 - Header .. Length - Header
  BY SizeFacts, SMTT(30)
<1> QED BY <1>1 DEF FilterRecs, EntryAt

EntryTaken(d, e, f, s, r) ==
  /\ r \in Devices /\ r.stuck = d.stuck /\ r.lost = d.lost
  /\ r.filter[f] = EntryAt(d.filter[f], s)
  /\ \A h \in Filters : h # f => r.filter[h] = d.filter[h]
  /\ r.priv[s] = f /\ \A t \in Entries : t # s => r.priv[t] = d.priv[t]
  /\ r.feed[e].state = d.feed[e].state /\ r.feed[e].list = <<s>> \o d.feed[e].list
  /\ \A k \in Feeds : k # e => r.feed[k] = d.feed[k]

LEMMA TakesEntryIs ==
  ASSUME NEW d \in Devices, NEW e \in Feeds, NEW f \in Filters, NEW s \in Entries,
         s = Lowest({t \in Entries : d.priv[t] = None})
  PROVE  EntryTaken(d, e, f, s, TakesEntry(d, e, f))
<1>1. PICK list : list = <<s>> \o d.feed[e].list
  OBVIOUS
<1>2. list \in Seq(Entries)
  BY <1>1, ListTypes, LinkFacts
<1> DEFINE x == [d.filter[f] EXCEPT !.entry = s]
           F == [d.filter EXCEPT ![f] = x]
           P == [d.priv EXCEPT ![s] = f]
           y == [d.feed[e] EXCEPT !.list = list]
           E == [d.feed EXCEPT ![e] = y]
           G == [F EXCEPT ![f] = EntryAt(d.filter[f], s)]
<1>3. d.filter[f] \in FilterRecs /\ d.feed[e] \in FeedRecs
  BY DevIs
<1>4. x \in FilterRecs /\ [x EXCEPT !.todo = 0] = EntryAt(d.filter[f], s)
  BY <1>3 DEF FilterRecs, EntryAt
<1>5. y \in FeedRecs /\ y.list = list /\ y.state = d.feed[e].state
  BY <1>2, <1>3 DEF FeedRecs
<1>6. AllocateEntry(d, e, f)
      = [d EXCEPT !.priv[s] = f, !.feed[e].list = list, !.filter[f].entry = s]
  BY <1>1 DEF AllocateEntry
<1>8. /\ F \in [Filters -> FilterRecs] /\ F[f] = x
      /\ E \in [Feeds -> FeedRecs] /\ P \in [Entries -> Filters \cup {None}]
      /\ E[e] = y /\ \A k \in Feeds : k # e => E[k] = d.feed[k]
      /\ P[s] = f /\ \A t \in Entries : t # s => P[t] = d.priv[t]
  BY <1>4, <1>5, DevIs
<1> DEFINE d1 == Dev(d.filter, d.feed, P, d.stuck, d.lost)
           d2 == Dev(d.filter, E, P, d.stuck, d.lost)
           d3 == Dev(F, E, P, d.stuck, d.lost)
<1>14. /\ d1 \in Devices /\ d1.filter = d.filter /\ d1.feed = d.feed /\ d1.priv = P
       /\ d1.stuck = d.stuck /\ d1.lost = d.lost
  <2> HIDE DEF F, E, P
  <2> QED BY <1>8, DevIs, DevType, SMTT(30)
<1>15. /\ d2 \in Devices /\ d2.filter = d.filter /\ d2.feed = E /\ d2.priv = P
       /\ d2.stuck = d.stuck /\ d2.lost = d.lost
  <2> HIDE DEF F, E, P
  <2> QED BY <1>8, DevIs, DevType, SMTT(30)
<1>16. /\ d3 \in Devices /\ d3.filter = F /\ d3.feed = E /\ d3.priv = P
       /\ d3.stuck = d.stuck /\ d3.lost = d.lost
  <2> HIDE DEF F, E, P
  <2> QED BY <1>8, DevIs, DevType, SMTT(30)
<1>17. [d EXCEPT !.priv[s] = f] = d1
  BY DevPriv
<1>18. [d1 EXCEPT !.feed[e].list = list] = d2
  <2> HIDE DEF d1, P
  <2>1. [d1 EXCEPT !.feed[e].list = list]
        = Dev(d1.filter, [d1.feed EXCEPT ![e] = [d1.feed[e] EXCEPT !.list = list]],
              d1.priv, d1.stuck, d1.lost)
    BY <1>14, SMTT(30) DEF Devices, Dev
  <2> QED BY <1>14, <2>1
<1>19. [d2 EXCEPT !.filter[f].entry = s] = d3
  <2> HIDE DEF d2, P, E
  <2>1. [d2 EXCEPT !.filter[f].entry = s]
        = Dev([d2.filter EXCEPT ![f] = [d2.filter[f] EXCEPT !.entry = s]],
              d2.feed, d2.priv, d2.stuck, d2.lost)
    BY <1>15, SMTT(30) DEF Devices, Dev
  <2> QED BY <1>15, <2>1
<1>7. [d EXCEPT !.priv[s] = f, !.feed[e].list = list, !.filter[f].entry = s] = d3
  <2> HIDE DEF d1, d2, d3
  <2> QED BY <1>17, <1>18, <1>19
<1>9. G \in [Filters -> FilterRecs] /\ G[f] = EntryAt(d.filter[f], s)
      /\ \A h \in Filters : h # f => G[h] = d.filter[h]
  BY <1>3, <1>4, EntryAtFacts, DevIs
<1>10. TakesEntry(d, e, f) = Dev(G, E, P, d.stuck, d.lost)
  <2>1. [d3 EXCEPT !.filter[f].todo = 0]
        = Dev([F EXCEPT ![f] = [F[f] EXCEPT !.todo = 0]], E, P, d.stuck, d.lost)
    <3> HIDE DEF d3, F, P, E
    <3>1. [d3 EXCEPT !.filter[f].todo = 0]
          = Dev([d3.filter EXCEPT ![f] = [d3.filter[f] EXCEPT !.todo = 0]],
                d3.feed, d3.priv, d3.stuck, d3.lost)
      BY <1>16, SMTT(30) DEF Devices, Dev
    <3> QED BY <1>16, <3>1
  <2>2. TakesEntry(d, e, f) = [d3 EXCEPT !.filter[f].todo = 0]
    <3> HIDE DEF d3
    <3> QED BY <1>6, <1>7 DEF TakesEntry
  <2>3. [F EXCEPT ![f] = [F[f] EXCEPT !.todo = 0]] = G
    <3> HIDE DEF F
    <3> QED BY <1>4, <1>8
  <2> HIDE DEF d3, F, G, E, P
  <2> QED BY <2>1, <2>2, <2>3
<1> HIDE DEF F, P, y, E, G, x
<1>11. PICK r : r = Dev(G, E, P, d.stuck, d.lost)
  OBVIOUS
<1>12. /\ r \in Devices /\ r.filter = G /\ r.feed = E /\ r.priv = P
       /\ r.stuck = d.stuck /\ r.lost = d.lost
  BY <1>8, <1>9, <1>11, DevIs, DevType, SMTT(30)
<1>13. EntryTaken(d, e, f, s, r)
  BY <1>1, <1>5, <1>8, <1>9, <1>12 DEF EntryTaken
<1> QED BY <1>10, <1>11, <1>13

(* The lists are in order, s is in that of e, and no entry has left.       *)
Lengthened(d, e, s, r) ==
  /\ Lists(r) /\ Linked(r, e, s)
  /\ \A k \in Feeds : \A t \in Entries : Linked(d, k, t) => Linked(r, k, t)

LEMMA TakenLists ==
  ASSUME NEW d \in Devices, Lists(d), NEW e \in Feeds, NEW f \in Filters, NEW s \in Entries,
         d.priv[s] = None, NEW r, EntryTaken(d, e, f, s, r)
  PROVE  Lengthened(d, e, s, r)
<1> DEFINE Ix(k, j) == IF k # e THEN j ELSE j - 1
<1>1. /\ r \in Devices
      /\ r.priv[s] = f /\ \A t \in Entries : t # s => r.priv[t] = d.priv[t]
      /\ \A k \in Feeds : k # e => r.feed[k] = d.feed[k]
      /\ r.feed[e].list = <<s>> \o d.feed[e].list
  BY DEF EntryTaken
<1>2. \A k \in Feeds : Len(d.feed[k].list) \in Nat /\ Len(r.feed[k].list) \in Nat
  BY <1>1, ListTypes
<1>3. /\ Len(r.feed[e].list) = Len(d.feed[e].list) + 1 /\ r.feed[e].list[1] = s
      /\ \A k \in 2 .. Len(d.feed[e].list) + 1 : r.feed[e].list[k] = d.feed[e].list[k - 1]
  <2>1. d.feed[e].list \in Seq(Entries)
    BY ListTypes
  <2> QED BY <2>1, <1>1, LinkFacts, SMTT(30)
<1>4. ASSUME NEW k \in Feeds, NEW j \in 1 .. Len(r.feed[k].list), ~(k = e /\ j = 1)
      PROVE  /\ Ix(k, j) \in 1 .. Len(d.feed[k].list)
             /\ r.feed[k].list[j] = d.feed[k].list[Ix(k, j)]
  <2>1. CASE k # e
    BY <2>1, <1>1
  <2>2. CASE k = e
    BY <2>2, <1>2, <1>3, <1>4, SMTT(30)
  <2> QED BY <2>1, <2>2
<1>5. \A k \in Feeds : \A j, l \in Nat : Ix(k, j) = Ix(k, l) => j = l
  BY SMTT(30)
<1>6. ASSUME NEW k \in Feeds, NEW t \in Entries, Linked(d, k, t)
      PROVE  Linked(r, k, t)
  <2>1. PICK j \in 1 .. Len(d.feed[k].list) : d.feed[k].list[j] = t
    BY <1>6 DEF Linked
  <2>2. CASE k # e
    BY <2>1, <2>2, <1>1 DEF Linked
  <2>3. CASE k = e
    <3>1. j + 1 \in 2 .. Len(d.feed[e].list) + 1 /\ (j + 1) - 1 = j
      BY <2>3, <1>2, SMTT(30)
    <3>2. j + 1 \in 1 .. Len(r.feed[e].list)
      BY <3>1, <1>2, <1>3, SMTT(30)
    <3>3. r.feed[e].list[j + 1] = d.feed[e].list[(j + 1) - 1]
      BY <3>1, <1>3
    <3>4. r.feed[e].list[j + 1] = t
      BY <3>1, <3>3, <2>1, <2>3
    <3> QED BY <3>2, <3>4, <2>3 DEF Linked
  <2> QED BY <2>2, <2>3
<1>7. Linked(r, e, s)
  <2>1. 1 \in 1 .. Len(r.feed[e].list)
    BY <1>2, <1>3, SMTT(30)
  <2> QED BY <2>1, <1>3 DEF Linked
<1> HIDE DEF Ix
<1>8. ASSUME NEW k \in Feeds, NEW j \in 1 .. Len(r.feed[k].list), ~(k = e /\ j = 1)
      PROVE  r.priv[r.feed[k].list[j]] # None /\ r.feed[k].list[j] # s
  <2>1. /\ r.feed[k].list[j] = d.feed[k].list[Ix(k, j)]
        /\ Ix(k, j) \in 1 .. Len(d.feed[k].list)
    BY <1>4, <1>8
  <2>2. d.priv[r.feed[k].list[j]] # None
    BY <2>1 DEF Lists
  <2>3. r.feed[k].list[j] \in Entries
    BY <1>1, ListTypes
  <2> QED BY <2>2, <2>3, <1>1, SMTT(30)
<1>9. ASSUME NEW k \in Feeds, NEW j \in 1 .. Len(r.feed[k].list),
             NEW m \in Feeds, NEW l \in 1 .. Len(r.feed[m].list),
             r.feed[k].list[j] = r.feed[m].list[l]
      PROVE  k = m /\ j = l
  <2>1. CASE k = e /\ j = 1
    BY <2>1, <1>3, <1>8, <1>9
  <2>2. CASE m = e /\ l = 1
    BY <2>2, <1>3, <1>8, <1>9
  <2>3. CASE ~(k = e /\ j = 1) /\ ~(m = e /\ l = 1)
    <3>1. d.feed[k].list[Ix(k, j)] = d.feed[m].list[Ix(m, l)]
      BY <1>9, <1>4, <2>3
    <3>2. Ix(k, j) \in 1 .. Len(d.feed[k].list) /\ Ix(m, l) \in 1 .. Len(d.feed[m].list)
      BY <1>4, <2>3
    <3>3. k = m /\ Ix(k, j) = Ix(m, l)
      BY <3>1, <3>2 DEF Lists
    <3>4. j \in Nat /\ l \in Nat
      BY <1>2, SMTT(30)
    <3> QED BY <3>3, <3>4, <1>5
  <2> QED BY <2>1, <2>2, <2>3
<1>10. \A k \in Feeds : \A j \in 1 .. Len(r.feed[k].list) : r.priv[r.feed[k].list[j]] # None
  BY <1>1, <1>3, <1>8, SizeFacts, SMTT(30)
<1>11. Lists(r)
  BY <1>9, <1>10 DEF Lists
<1> QED BY <1>6, <1>7, <1>11 DEF Lengthened

(* With an entry the filter is on its feed, which is still to be started.  *)
ToStart(r, R, e) ==
  /\ Lists(r) /\ Serves(r, R) /\ Goes(r, R, e) /\ Owned(r, R, e)
  /\ r \in Devices /\ r.feed[e].state = "READY"

LEMMA TakenServes ==
  ASSUME NEW d, NEW R, NEW f, NEW e, Between(d, R, f, e), NEW s \in Entries,
         d.priv[s] = None, NEW r, EntryTaken(d, e, f, s, r)
  PROVE  ToStart(r, R \cup {f}, e) /\ r.filter[f].feed = e
<1>1. /\ d \in Devices /\ f \in Filters /\ e \in Feeds /\ R \subseteq Filters /\ f \notin R
      /\ d.filter[f].feed = e /\ d.feed[e].state = "READY"
      /\ Lists(d) /\ Serves(d, R) /\ Goes(d, R, e) /\ Owned(d, R, e)
      /\ \A g \in R : d.filter[g].feed = e <=> d.filter[g].par.pid = d.filter[f].par.pid
  BY DEF Between, Acts
<1>2. Lengthened(d, e, s, r)
  BY <1>1, TakenLists
<1>3. /\ Lists(r) /\ Linked(r, e, s)
      /\ \A k \in Feeds : \A t \in Entries : Linked(d, k, t) => Linked(r, k, t)
  BY <1>2 DEF Lengthened
<1>4. /\ r \in Devices /\ r.stuck = d.stuck /\ r.lost = d.lost
      /\ r.filter[f] = EntryAt(d.filter[f], s)
      /\ \A h \in Filters : h # f => r.filter[h] = d.filter[h]
      /\ r.priv[s] = f /\ \A t \in Entries : t # s => r.priv[t] = d.priv[t]
      /\ r.feed[e].state = d.feed[e].state
      /\ \A k \in Feeds : k # e => r.feed[k] = d.feed[k]
  BY DEF EntryTaken
<1>5. /\ r.filter[f].feed = e /\ r.filter[f].entry = s /\ r.filter[f].par = d.filter[f].par
      /\ r.filter[f].timer = d.filter[f].timer
  BY <1>1, <1>4, DevIs, EntryAtFacts, SMTT(30)
<1>6. ASSUME NEW g \in R
      PROVE  OnFeed(r, g) /\ r.filter[g] = d.filter[g]
  <2>1. OnFeed(d, g) /\ r.filter[g] = d.filter[g]
    BY <1>1, <1>4 DEF Serves
  <2>2. PICK k, t : d.filter[g].feed = k /\ d.filter[g].entry = t
    OBVIOUS
  <2>3. k \in Feeds /\ t \in Entries /\ Linked(d, k, t) /\ d.priv[t] = g
        /\ d.feed[k].state # "FREE"
    BY <2>1, <2>2 DEF OnFeed
  <2>4. t # s
    BY <1>1, <2>3, SizeFacts
  <2>5. Linked(r, k, t) /\ r.priv[t] = g /\ r.feed[k].state # "FREE"
    BY <1>1, <2>3, <2>4, <1>3, <1>4
  <2> QED BY <2>1, <2>2, <2>3, <2>5 DEF OnFeed
<1>7. OnFeed(r, f)
  BY <1>1, <1>3, <1>4, <1>5 DEF OnFeed
<1>8. Serves(r, R \cup {f})
  <2>1. \A g, h \in R \cup {f} :
          r.filter[g].feed = r.filter[h].feed <=> r.filter[g].par.pid = r.filter[h].par.pid
    <3>1. \A g \in R : r.filter[g].feed = e <=> r.filter[g].par.pid = r.filter[f].par.pid
      BY <1>1, <1>5, <1>6
    <3>2. \A g, h \in R :
            r.filter[g].feed = r.filter[h].feed <=> r.filter[g].par.pid = r.filter[h].par.pid
      BY <1>1, <1>6, SMTT(30) DEF Serves
    <3> QED BY <1>5, <3>1, <3>2
  <2> QED BY <2>1, <1>6, <1>7 DEF Serves
<1>9. Goes(r, R \cup {f}, e)
  <2> SUFFICES ASSUME NEW h \in R \cup {f}, r.filter[h].feed # e
               PROVE  r.feed[r.filter[h].feed].state = "GO" \/ r.filter[h].feed \in r.stuck
    BY DEF Goes
  <2>1. h \in R
    BY <1>5
  <2>2. PICK k \in Feeds : r.filter[h].feed = k /\ d.filter[h].feed = k /\ k # e
    BY <2>1, <1>6 DEF OnFeed
  <2>3. d.feed[k].state = "GO" \/ k \in d.stuck
    BY <2>1, <2>2, <1>1 DEF Goes
  <2> QED BY <2>2, <2>3, <1>4
<1>10. Owned(r, R \cup {f}, e)
  <2>1. ASSUME NEW k \in Feeds \ {e}, r.feed[k].state # "FREE"
        PROVE  k \in r.stuck \/ \E h \in R \cup {f} : r.filter[h].feed = k
    BY <2>1, <1>1, <1>4, <1>6, SMTT(30) DEF Owned
  <2>2. ASSUME NEW t \in Entries, r.priv[t] # None
        PROVE  t \in r.lost \/ (r.priv[t] \in R \cup {f} /\ r.filter[r.priv[t]].entry = t)
    <3>1. CASE t = s
      BY <3>1, <1>4, <1>5
    <3>2. CASE t # s
      <4>1. r.priv[t] = d.priv[t]
        BY <3>2, <1>4
      <4>2. t \in d.lost \/ (d.priv[t] \in R /\ d.filter[d.priv[t]].entry = t)
        BY <2>2, <4>1, <1>1 DEF Owned
      <4> QED BY <4>1, <4>2, <1>4, <1>6
    <3> QED BY <3>1, <3>2
  <2>3. \A h \in Filters : r.filter[h].timer => h \in R \cup {f}
    BY <1>1, <1>4 DEF Owned
  <2> QED BY <2>1, <2>2, <2>3 DEF Owned
<1> QED BY <1>1, <1>3, <1>4, <1>5, <1>8, <1>9, <1>10 DEF ToStart

(* When the hardware refuses, the entry is lost and the feed stuck.        *)
LEMMA RefusedKeeps ==
  ASSUME NEW d, NEW R, NEW f \in Filters \ R, Device(d, R \cup {f}), ~d.filter[f].timer,
         NEW e, d.filter[f].feed = e, e \in d.stuck, NEW s \in Entries, d.filter[f].entry = s,
         NEW r, r = [d EXCEPT !.lost = @ \cup {s}]
  PROVE  Device(r, R) /\ r.filter = d.filter
<1>1. /\ d \in Devices /\ Lists(d) /\ Serves(d, R \cup {f})
      /\ Goes(d, R \cup {f}, None) /\ Owned(d, R \cup {f}, None)
  BY DEF Device
<1>2. PICK L : L = d.lost \cup {s}
  OBVIOUS
<1>4. /\ r \in Devices /\ r.filter = d.filter /\ r.feed = d.feed /\ r.priv = d.priv
      /\ r.stuck = d.stuck /\ r.lost = L
  BY <1>1, <1>2 DEF Devices
<1>5. Lists(r)
  BY <1>1, <1>4, SMTT(30) DEF Lists
<1>6. Serves(r, R)
  BY <1>1, <1>4, SMTT(30) DEF Serves, OnFeed, Linked
<1>7. Goes(r, R, None)
  BY <1>1, <1>4 DEF Goes
<1>8. Owned(r, R, None)
  <2>1. \A k \in Feeds : r.feed[k].state # "FREE" =>
          k \in r.stuck \/ \E h \in R : r.filter[h].feed = k
    BY <1>1, <1>4, SizeFacts, SMTT(30) DEF Owned
  <2>2. \A t \in Entries : r.priv[t] # None =>
          t \in r.lost \/ (r.priv[t] \in R /\ r.filter[r.priv[t]].entry = t)
    BY <1>1, <1>2, <1>4 DEF Owned
  <2>3. \A h \in Filters : r.filter[h].timer => h \in R
    BY <1>1, <1>4 DEF Owned
  <2> QED BY <2>1, <2>2, <2>3 DEF Owned
<1> QED BY <1>4, <1>5, <1>6, <1>7, <1>8 DEF Device

(***************************************************************************)
(* dvb_dmxdev_filter_start                                                 *)
(***************************************************************************)
(* The outcome of a start, with R the filters that were active: f runs as  *)
(* well, or all is as it was but for what the hardware refused.            *)
Outcome(d, R, f, o) ==
  /\ o.ok \in BOOLEAN /\ Acts(o.d) = R
  /\ o.ok => Device(o.d, R \cup {f}) /\ o.d.filter[f].todo = 0
  /\ ~o.ok => Device(o.d, R)
  /\ AtRest(o.d.filter[f])
  /\ \A g \in Filters : g # f => \/ o.d.filter[g] = d.filter[g]
                                 \/ g \in R /\ o.d.filter[g] = Again(d.filter[g])

(* There is no entry left.                                                 *)
LEMMA StartWithout ==
  ASSUME WellOrdered, NEW d, NEW R, NEW f, NEW e, Between(d, R, f, e), AtRest(d.filter[f]),
         NEW r \in FeedRestart(d, f), NEW o \in StartFiltering(r, e)
  PROVE  Outcome(d, R, f, [o EXCEPT !.ok = FALSE])
<1>1. f \in Filters /\ f \notin R /\ e \in Feeds /\ R \subseteq Filters
  BY DEF Between, Acts
<1>2. Restarted(d, R, e, r)
  BY RestartIs
<1>3. /\ Device(r, R) /\ Acts(r) = R /\ r.filter[f] = d.filter[f]
      /\ \A g \in Filters : \/ r.filter[g] = d.filter[g]
                            \/ g \in R /\ r.filter[g] = Again(d.filter[g])
      /\ r.feed[e].list = <<>> \/ \E g \in R : r.filter[g].feed = e
  BY <1>1, <1>2 DEF Restarted
<1>4. FilteringStarted(r, e, o)
  BY <1>1, <1>3, StartFilteringIs DEF Device
<1>5. o.d.filter = r.filter /\ o = [d |-> o.d, ok |-> o.ok]
  BY <1>4 DEF FilteringStarted
<1>6. Device(o.d, R)
  <2>1. CASE r.feed[e].state = "GO" \/ r.feed[e].list = <<>>
    <3>1. o.d = r
      BY <1>4, <2>1 DEF FilteringStarted
    <3> QED BY <3>1, <1>3
  <2>2. CASE r.feed[e].state # "GO" /\ r.feed[e].list # <<>>
    <3>1. PICK g \in R : r.filter[g].feed = e
      BY <1>3, <2>2
    <3>2. r \in Devices /\ Lists(r) /\ Serves(r, R) /\ Goes(r, R, None) /\ Owned(r, R, None)
      BY <1>3 DEF Device
    <3>3. \A h \in R : r.filter[h].feed # None
      BY <3>2, SizeFacts DEF Serves, OnFeed
    <3>4. Goes(r, R, e) /\ Owned(r, R, e)
      BY <3>2, <3>3, SizeFacts DEF Goes, Owned
    <3> QED BY <1>1, <1>4, <2>2, <3>1, <3>2, <3>4, StartServes
  <2> QED BY <2>1, <2>2
<1>7. Acts(o.d) = R
  BY <1>3, <1>5 DEF Acts
<1>8. PICK q : q = [o EXCEPT !.ok = FALSE]
  OBVIOUS
<1>9. q.d = o.d /\ q.ok = FALSE
  BY <1>5, <1>8
<1>10. Outcome(d, R, f, q)
  BY <1>3, <1>5, <1>6, <1>7, <1>9 DEF Outcome
<1> QED BY <1>8, <1>10

TimerAt(x, t) == [x EXCEPT !.timer = t]

LEMMA TimerAtFacts ==
  ASSUME NEW x \in FilterRecs, NEW t \in BOOLEAN
  PROVE  /\ TimerAt(x, t) \in FilterRecs /\ Alike(x, TimerAt(x, t))
         /\ TimerAt(x, t).state = x.state /\ TimerAt(x, t).todo = x.todo
         /\ TimerAt(x, t).pread = x.pread /\ TimerAt(x, t).pwrite = x.pwrite
BY DEF FilterRecs, TimerAt, Alike

(* The start with an entry succeeds: the timer may be set.                 *)
LEMMA StartTimed ==
  ASSUME NEW d, NEW R, R \subseteq Filters, NEW f \in R, Device(d, R), NEW t \in BOOLEAN,
         NEW r, r = [d EXCEPT !.filter[f].timer = t]
  PROVE  Device(r, R) /\ FilterSet(d, f, TimerAt(d.filter[f], t), r)
<1>1. d \in Devices /\ f \in Filters /\ d.filter[f] \in FilterRecs
  BY DevIs DEF Device
<1>2. TimerAt(d.filter[f], t) \in FilterRecs /\ Alike(d.filter[f], TimerAt(d.filter[f], t))
  BY <1>1, TimerAtFacts
<1>3. r = [d EXCEPT !.filter[f] = TimerAt(d.filter[f], t)]
  BY <1>1 DEF Devices, TimerAt
<1>4. FilterSet(d, f, TimerAt(d.filter[f], t), r)
  BY <1>1, <1>2, <1>3, FilterSetIs, SMTT(30)
<1>5. \A g \in R : Alike(d.filter[g], r.filter[g])
  BY <1>2, <1>4 DEF FilterSet, Alike
<1>6. Device(r, R)
  <2>1. /\ r \in Devices /\ r.feed = d.feed /\ r.priv = d.priv /\ r.stuck = d.stuck
        /\ r.lost = d.lost /\ \A g \in Filters \ R : r.filter[g] = d.filter[g]
    BY <1>4 DEF FilterSet
  <2> QED BY <2>1, <1>5, DeviceKeep
<1> QED BY <1>4, <1>6

Ending(o, f, t) ==
  IF o.ok THEN [o EXCEPT !.d.filter[f].timer = t]
  ELSE [o EXCEPT !.d.lost = @ \cup {o.d.filter[f].entry}]

LEMMA EndingIs ==
  ASSUME NEW o, o = [d |-> o.d, ok |-> o.ok], NEW f, NEW t
  PROVE  Ending(o, f, t) =
           [d |-> IF o.ok THEN [o.d EXCEPT !.filter[f].timer = t]
                  ELSE [o.d EXCEPT !.lost = @ \cup {o.d.filter[f].entry}],
            ok |-> o.ok]
BY DEF Ending

LEMMA StartWith ==
  ASSUME WellOrdered, NEW d, NEW R, NEW f, NEW e, Between(d, R, f, e), AtRest(d.filter[f]),
         \E s \in Entries : d.priv[s] = None,
         NEW o \in StartFiltering(TakesEntry(d, e, f), e), NEW t \in BOOLEAN
  PROVE  Outcome(d, R, f, Ending(o, f, t))
<1>1. /\ d \in Devices /\ f \in Filters /\ f \notin R /\ e \in Feeds /\ R = Acts(d)
      /\ R \subseteq Filters /\ d.filter[f] \in FilterRecs /\ Owned(d, R, e)
  BY DevIs DEF Between, Acts
<1>2. PICK s : s = Lowest({u \in Entries : d.priv[u] = None})
  OBVIOUS
<1>3. s \in Entries /\ d.priv[s] = None
  <2> DEFINE S == {u \in Entries : d.priv[u] = None}
  <2>1. S \in SUBSET Nat /\ S # {}
    BY SizeFacts
  <2>2. s \in S
    BY <1>2, <2>1 DEF WellOrdered
  <2> QED BY <2>2
<1>4. PICK r : TakesEntry(d, e, f) = r
  OBVIOUS
<1>5. EntryTaken(d, e, f, s, r)
  BY <1>1, <1>2, <1>3, <1>4, TakesEntryIs
<1>15. ToStart(r, R \cup {f}, e) /\ r.filter[f].feed = e
  BY <1>3, <1>5, TakenServes, SMTT(30)
<1>6. /\ Lists(r) /\ Serves(r, R \cup {f}) /\ Goes(r, R \cup {f}, e)
      /\ Owned(r, R \cup {f}, e)
      /\ r \in Devices /\ r.feed[e].state = "READY" /\ r.filter[f].feed = e
  BY <1>15 DEF ToStart
<1>7. FilteringStarted(r, e, o)
  BY <1>1, <1>4, <1>6, StartFilteringIs
<1>8. Device(o.d, R \cup {f}) /\ (o.ok \/ e \in o.d.stuck)
  <2>1. R \cup {f} \subseteq Filters /\ f \in R \cup {f} /\ r.feed[e].state # "GO"
    BY <1>1, <1>6
  <2> QED BY <2>1, <1>1, <1>6, <1>7, StartServes
<1>9. o.d.filter = r.filter /\ o = [d |-> o.d, ok |-> o.ok] /\ o.ok \in BOOLEAN
  BY <1>7 DEF FilteringStarted
<1>10. /\ r.filter[f] = EntryAt(d.filter[f], s)
       /\ \A h \in Filters : h # f => r.filter[h] = d.filter[h]
  BY <1>5 DEF EntryTaken
<1>11. /\ AtRest(o.d.filter[f]) /\ o.d.filter[f].todo = 0 /\ o.d.filter[f].feed = e
       /\ o.d.filter[f].entry = s /\ o.d.filter[f].timer = d.filter[f].timer
  BY <1>1, <1>3, <1>6, <1>9, <1>10, EntryAtFacts, SMTT(30) DEF AtRest
<1>12. PICK q : Ending(o, f, t) = q
  OBVIOUS
<1>13. CASE o.ok
  <2>1. PICK p : p = [o.d EXCEPT !.filter[f].timer = t]
    OBVIOUS
  <2>2. q = [d |-> p, ok |-> o.ok]
    BY <1>9, <1>12, <1>13, <2>1, EndingIs
  <2>3. Device(p, R \cup {f}) /\ FilterSet(o.d, f, TimerAt(o.d.filter[f], t), p)
    BY <1>1, <1>8, <2>1, StartTimed, SMTT(30)
  <2>4. /\ p.filter[f] = TimerAt(o.d.filter[f], t)
        /\ \A h \in Filters : h # f => p.filter[h] = d.filter[h]
    BY <2>3, <1>9, <1>10 DEF FilterSet
  <2>5. o.d.filter[f] \in FilterRecs
    BY <1>1, <1>8, DevIs, SMTT(30) DEF Device
  <2>6. AtRest(p.filter[f]) /\ p.filter[f].todo = 0
    BY <1>11, <2>4, <2>5, TimerAtFacts, SMTT(30) DEF AtRest
  <2>7. Acts(p) = R
    BY <1>1, <2>4, <2>6 DEF Acts, AtRest, Active
  <2>8. q.d = p /\ q.ok = TRUE
    BY <2>2, <1>9, <1>13
  <2>9. Outcome(d, R, f, q)
    BY <2>3, <2>4, <2>6, <2>7, <2>8 DEF Outcome
  <2> QED BY <2>9, <1>12
<1>14. CASE ~o.ok
  <2>1. PICK p : p = [o.d EXCEPT !.lost = @ \cup {s}]
    OBVIOUS
  <2>2. q = [d |-> p, ok |-> o.ok]
    BY <1>9, <1>11, <1>12, <1>14, <2>1, EndingIs
  <2>3. ~d.filter[f].timer
    BY <1>1 DEF Owned
  <2>4. Device(p, R) /\ p.filter = o.d.filter
    BY <1>1, <1>3, <1>8, <1>11, <1>14, <2>1, <2>3, RefusedKeeps, SMTT(30)
  <2>5. q.d = p /\ q.ok = FALSE
    BY <2>2, <1>9, <1>14
  <2>6. Acts(p) = R
    BY <1>1, <1>9, <1>10, <1>11, <2>4, SMTT(30) DEF Acts, AtRest, Active
  <2>7. Outcome(d, R, f, q)
    BY <1>9, <1>10, <1>11, <2>4, <2>5, <2>6 DEF Outcome
  <2> QED BY <2>7, <1>12
<1> QED BY <1>9, <1>13, <1>14

Cleared(x) == [x EXCEPT !.data = TRUE, !.pread = 0, !.pwrite = 0, !.feed = None, !.entry = None]
Clears(d, f) ==
  [d EXCEPT !.filter[f].data = TRUE, !.filter[f].pread = 0, !.filter[f].pwrite = 0,
            !.filter[f].feed = None, !.filter[f].entry = None]

LEMMA ClearedFacts ==
  ASSUME NEW x \in FilterRecs
  PROVE  /\ Cleared(x) \in FilterRecs /\ Cleared(x).state = x.state
         /\ Cleared(x).timer = x.timer /\ Cleared(x).pread = 0 /\ Cleared(x).pwrite = 0
         /\ Cleared(x).feed = None
<1>1. 0 \in 0 .. Size - 1
  BY SizeFacts, SMTT(30)
<1> QED BY <1>1 DEF FilterRecs, Cleared

LEMMA ClearsIs ==
  ASSUME NEW d \in Devices, NEW f \in Filters
  PROVE  FilterSet(d, f, Cleared(d.filter[f]), Clears(d, f))
<1>1. d.filter[f] \in FilterRecs /\ d.filter \in [Filters -> FilterRecs]
  BY DevIs
<1>2. Clears(d, f) = [d EXCEPT !.filter[f] = Cleared(d.filter[f])]
  <2> DEFINE x1 == [d.filter[f] EXCEPT !.data = TRUE]
             x2 == [x1 EXCEPT !.pread = 0]
             x3 == [x2 EXCEPT !.pwrite = 0]
             x4 == [x3 EXCEPT !.feed = None]
             x5 == [x4 EXCEPT !.entry = None]
             d1 == [d EXCEPT !.filter[f].data = TRUE]
             d2 == [d1 EXCEPT !.filter[f].pread = 0]
             d3 == [d2 EXCEPT !.filter[f].pwrite = 0]
             d4 == [d3 EXCEPT !.filter[f].feed = None]
             d5 == [d4 EXCEPT !.filter[f].entry = None]
  <2>1. Clears(d, f) = d5 /\ Cleared(d.filter[f]) = x5
    BY DEF Clears, Cleared
  <2>2. d1 = [d EXCEPT !.filter[f] = x1]
    BY DEF Devices
  <2> HIDE DEF d1, x1
  <2>3. d2 = [d EXCEPT !.filter[f] = x2]
    BY <2>2 DEF Devices
  <2> HIDE DEF d2, x2
  <2>4. d3 = [d EXCEPT !.filter[f] = x3]
    BY <2>3 DEF Devices
  <2> HIDE DEF d3, x3
  <2>5. d4 = [d EXCEPT !.filter[f] = x4]
    BY <2>4 DEF Devices
  <2> HIDE DEF d4, x4
  <2>6. d5 = [d EXCEPT !.filter[f] = x5]
    BY <2>5 DEF Devices
  <2> QED BY <2>1, <2>6
<1> QED BY <1>1, <1>2, ClearedFacts, FilterSetIs, SMTT(30)

LEMMA RequestTypes ==
  ASSUME NEW p \in Requests
  PROVE  p.timeout \in BOOLEAN
<1>1. CASE p \in Params
  <2>1. Params \subseteq [pid : 0 .. 8191, oneshot : BOOLEAN, timeout : BOOLEAN]
    BY DmxdevAssumption, SMTT(30)
  <2> DEFINE T == [pid : 0 .. 8191, oneshot : BOOLEAN, timeout : BOOLEAN]
  <2>2. Params \subseteq T
    BY <2>1, SMTT(30)
  <2>3. \A q \in T : q.timeout \in BOOLEAN
    BY SMTT(30)
  <2> HIDE DEF T
  <2> QED BY <1>1, <2>2, <2>3
<1>2. CASE p = NoParams
  BY <1>2, SMTT(30) DEF NoParams
<1> QED BY <1>1, <1>2 DEF Requests

LEMMA TimeoutType ==
  ASSUME NEW x \in FilterRecs
  PROVE  x.par.timeout \in BOOLEAN
<1>1. x.par \in Requests
  BY DEF FilterRecs
<1> QED BY <1>1, RequestTypes

LEMMA StartOutcome ==
  ASSUME WellOrdered, NEW d0, NEW R, Device(d0, R), R = Acts(d0), NEW f \in Filters \ R,
         d0.filter[f].state = "SET", NEW o \in StartStopped(d0, f)
  PROVE  Outcome(d0, R, f, o)
<1>1. d0 \in Devices /\ R \subseteq Filters /\ f \in Filters /\ d0.filter[f] \in FilterRecs
  BY DevIs DEF Device, Acts
<1>2. PICK c : Clears(d0, f) = c
  OBVIOUS
<1>3. FilterSet(d0, f, Cleared(d0.filter[f]), c)
  BY <1>1, <1>2, ClearsIs
<1>4. /\ c \in Devices /\ c.feed = d0.feed /\ c.priv = d0.priv /\ c.stuck = d0.stuck
      /\ c.lost = d0.lost /\ c.filter[f] = Cleared(d0.filter[f])
      /\ \A h \in Filters : h # f => c.filter[h] = d0.filter[h]
  BY <1>3 DEF FilterSet
<1>5. AtRest(c.filter[f]) /\ c.filter[f].timer = d0.filter[f].timer /\ c.filter[f].feed = None
  BY <1>1, <1>4, ClearedFacts DEF AtRest
<1>6. Acts(c) = R
  BY <1>1, <1>4, <1>5 DEF Acts, AtRest
<1>7. Device(c, R)
  <2>1. \A g \in R : Alike(d0.filter[g], c.filter[g])
    BY <1>1, <1>4 DEF Alike
  <2>2. \A g \in Filters \ R : c.filter[g].timer => d0.filter[g].timer
    BY <1>4, <1>5
  <2> QED BY <2>1, <2>2, <1>1, <1>4, DeviceKeep
<1>8. PICK d, e : WithFeed(c, f) = d /\ d.filter[f].feed = e
  OBVIOUS
<1>9. Fed(c, R, f, d)
  BY <1>5, <1>6, <1>7, <1>8, WithFeedIs
<1>10. /\ d = c \/ \E k \in Feeds : Between(d, R, f, k)
       /\ AtRest(d.filter[f]) /\ \A h \in Filters : h # f => d.filter[h] = d0.filter[h]
  BY <1>4, <1>9 DEF Fed, OnlyFilter
<1>11. CASE e = None
  <2>1. o = [d |-> d, ok |-> FALSE]
    BY <1>2, <1>8, <1>11 DEF StartStopped, Clears
  <2>2. d = c
    BY <1>8, <1>10, <1>11, SizeFacts DEF Between
  <2> QED BY <2>1, <2>2, <1>6, <1>7, <1>10 DEF Outcome
<1>12. CASE e # None
  <2>1. Between(d, R, f, e)
    BY <1>5, <1>8, <1>10, <1>12, SMTT(30) DEF Between
  <2>2. d \in Devices /\ d.filter[f] \in FilterRecs
    BY <1>1, <2>1, DevIs DEF Between
  <2>3. PICK t : d.filter[f].par.timeout = t
    OBVIOUS
  <2>4. t \in BOOLEAN
    BY <2>2, <2>3, TimeoutType
  <2>5. Outcome(d, R, f, o)
    <3>1. CASE \A s \in Entries : d.priv[s] # None
      <4>1. o \in {[p EXCEPT !.ok = FALSE] :
                     p \in UNION {StartFiltering(r, e) : r \in FeedRestart(d, f)}}
        BY <1>2, <1>8, <1>12, <3>1 DEF StartStopped, Clears
      <4>2. PICK r \in FeedRestart(d, f) : \E p \in StartFiltering(r, e) :
              o = [p EXCEPT !.ok = FALSE]
        BY <4>1
      <4>3. PICK p \in StartFiltering(r, e) : o = [p EXCEPT !.ok = FALSE]
        BY <4>2
      <4> QED BY <4>3, <2>1, <1>10, StartWithout
    <3>2. CASE \E s \in Entries : d.priv[s] = None
      <4>1. o \in {Ending(p, f, t) : p \in StartFiltering(TakesEntry(d, e, f), e)}
        BY <1>2, <1>8, <1>12, <2>3, <3>2
           DEF StartStopped, Clears, Ending, TakesEntry
      <4>2. PICK p \in StartFiltering(TakesEntry(d, e, f), e) : o = Ending(p, f, t)
        BY <4>1
      <4> QED BY <4>2, <2>1, <2>4, <3>2, <1>10, StartWith
    <3> QED BY <3>1, <3>2
  <2> QED BY <2>5, <1>10 DEF Outcome
<1> QED BY <1>11, <1>12

(* dvb_dmxdev_filter_start on any filter that is set or active.            *)
StartEnds(d, f, o) ==
  /\ Acts(o.d) = Acts(d) \ {f} /\ o.ok \in BOOLEAN
  /\ o.ok => Device(o.d, Acts(o.d) \cup {f}) /\ o.d.filter[f].todo = 0
  /\ ~o.ok => Device(o.d, Acts(o.d))
  /\ AtRest(o.d.filter[f])
  /\ \A g \in Filters : g # f => \/ o.d.filter[g] = d.filter[g]
                                 \/ g \in Acts(d) /\ o.d.filter[g] = Again(d.filter[g])

LEMMA FilterStartOutcome ==
  ASSUME WellOrdered, NEW d, Device(d, Acts(d)), NEW f \in Filters,
         d.filter[f].state \in Active \cup {"SET"},
         NEW o \in FilterStart(d, f)
  PROVE  StartEnds(d, f, o)
<1>1. PICK r \in FilterStop(d, f) : o \in StartStopped(r, f)
  BY DEF FilterStart
<1>2. Left(d, f, r)
  BY <1>1, StopLeaves
<1>3. PICK R : R = Acts(r)
  OBVIOUS
<1>4. /\ Device(r, R) /\ R = Acts(d) \ {f} /\ R \subseteq Filters
      /\ f \in Acts(d) => r.filter[f] = Idle(Stopped(d.filter[f]))
      /\ f \notin Acts(d) => r.filter[f] = d.filter[f]
      /\ \A g \in Filters : g # f => \/ r.filter[g] = d.filter[g]
                                     \/ g \in Acts(d) /\ r.filter[g] = Again(d.filter[g])
  BY <1>2, <1>3 DEF Left, Acts
<1>5. \A g \in Filters : d.filter[g] \in FilterRecs
  BY DevIs DEF Device
<1>6. r.filter[f].state = "SET"
  BY <1>4, <1>5, StoppedFacts, IdleFacts, SMTT(30) DEF Acts
<1>7. Outcome(r, R, f, o)
  BY <1>1, <1>3, <1>4, <1>6, StartOutcome
<1>8. \A x \in FilterRecs : Again(Again(x)) = Again(x)
  BY DEF Again, FilterRecs
<1>9. \A g \in Filters : g # f => \/ o.d.filter[g] = d.filter[g]
                                  \/ g \in Acts(d) /\ o.d.filter[g] = Again(d.filter[g])
  BY <1>4, <1>5, <1>7, <1>8 DEF Outcome
<1> QED BY <1>3, <1>4, <1>7, <1>9 DEF Outcome, StartEnds
=============================================================================
