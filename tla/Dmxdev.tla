------------------------------ MODULE Dmxdev -------------------------------
(***************************************************************************)
(* Section filters of the demux device (dvb-core/dmxdev.c) on the section  *)
(* feeds of dvb-core/dvb_demux.c.                                          *)
(*                                                                         *)
(* A file of the device is a filter with a ring of bytes.  All filters of  *)
(* a pid share one feed; a filter that starts or stops stops the feed,     *)
(* links or unlinks its entry in the list of the feed, and starts it       *)
(* again.  Sections arrive in a soft interrupt and are copied to the ring  *)
(* of the filter they match; read takes them out, a header first, and      *)
(* keeps in todo how far it is in the section: minus the bytes it has of   *)
(* the header, or the bytes left of the body.                              *)
(*                                                                         *)
(* ioctl, open and close hold the mutex of the device.  What they change   *)
(* before a filter is in state GO, or after it has left it, no interrupt   *)
(* looks at, so they are one step, but for the end of                      *)
(* dvb_dmxdev_filter_start (SetGo).  read holds only the mutex of its      *)
(* filter, and interrupts come between any two of its steps.               *)
(*                                                                         *)
(* Memory for rings and demux buffers is always there.  Transport stream   *)
(* filters, the dvr device and DMX_SET_BUFFER_SIZE are not modelled.       *)
(***************************************************************************)
EXTENDS Integers, Sequences, FiniteSets

CONSTANTS
  NFilters, NFeeds, NEntries, \* filters of the device; feeds, filters of the demux
  Params,      \* [pid, oneshot, timeout]: what programs ask for
  Workloads,   \* [users, readers, sections]: filters that programs use, those
               \* they read from, and the bound on the sections that arrive
  Size,        \* bytes of a ring
  Header,      \* bytes of a section header, 3 in the code
  Length,      \* bytes of a section
  Counts       \* what programs ask read for

ASSUME DmxdevAssumption ==
  /\ {NFilters, NFeeds, NEntries} \subseteq Nat \ {0}
  /\ Params \subseteq [pid : 0 .. 8191, oneshot : BOOLEAN, timeout : BOOLEAN]
  /\ \A w \in Workloads : w.readers \subseteq w.users /\ w.users \subseteq 1 .. NFilters
                          /\ w.sections \in Nat
  /\ Counts \subseteq Nat \ {0}
  /\ Length \in Nat /\ Header \in 1 .. Length - 1 /\ Size \in Nat /\ Size > Length

Filters == 1 .. NFilters
Feeds == 1 .. NFeeds
Entries == 1 .. NEntries
None == 0

VARIABLES
  dmx,   \* the state of both drivers, see Init
  call,  \* the filter whose start has still to set the state to GO
  rd,    \* the read calls
  load,  \* the workload, chosen at the start
  \* for the properties: sections that arrived; of each filter the sections
  \* it was given and the last byte a read took (none: at the start of a
  \* section); filters that skipped or repeated a byte; filters that got an
  \* error in the middle of a section
  arrived, given, last, broken, torn

ghosts == <<given, last, broken, torn>>
vars == <<dmx, call, rd, load, arrived, ghosts>>

NoByte == [n |-> 0, pos |-> 0]
EmptyRing == [c \in 0 .. Size - 1 |-> NoByte]
NoParams == [pid |-> 65535, oneshot |-> FALSE, timeout |-> FALSE]
NoFilter == [state |-> "FREE", par |-> NoParams, feed |-> None, entry |-> None,
             timer |-> FALSE, todo |-> 0, data |-> FALSE, ring |-> EmptyRing,
             pread |-> 0, pwrite |-> 0, error |-> "none"]
NoFeed == [state |-> "FREE", list |-> <<>>]
NoCall == [pc |-> "idle", stage |-> "none", block |-> FALSE, count |-> 0, want |-> 0,
           todo |-> 0, n |-> 0]

(* stuck: feeds the driver could not start; lost: entries left in a list   *)
(* by a start that failed.                                                 *)
Init ==
  /\ dmx = [filter |-> [f \in Filters |-> NoFilter],
            feed |-> [e \in Feeds |-> NoFeed],
            priv |-> [s \in Entries |-> None],
            stuck |-> {}, lost |-> {}]
  /\ call = None
  /\ load \in Workloads
  /\ rd = [f \in Filters |-> NoCall]
  /\ arrived = 0
  /\ given = [f \in Filters |-> 0] /\ last = [f \in Filters |-> NoByte]
  /\ broken = {} /\ torn = {}

Active == {"GO", "DONE", "TIMEDOUT"}   \* state >= DMXDEV_STATE_GO
Lowest(S) == CHOOSE x \in S : \A y \in S : x <= y

(***************************************************************************)
(* The section feeds of dvb_demux.c, as functions of the state             *)
(***************************************************************************)
FeedState(d, e, state) == [d EXCEPT !.feed[e].state = state]

(* start_filtering: the states it may leave, with its success.  It refuses *)
(* a feed that runs or has no entries; the hardware may have no queue.     *)
StartFiltering(d, e) ==
  IF d.feed[e].state = "GO" \/ d.feed[e].list = <<>> THEN {[d |-> d, ok |-> FALSE]}
  ELSE { [d |-> [FeedState(d, e, "GO") EXCEPT !.stuck = @ \ {e}], ok |-> TRUE],
         [d |-> [d EXCEPT !.stuck = @ \cup {e}], ok |-> FALSE] }

StopFiltering(d, e) == FeedState(d, e, "READY")

AllocateEntry(d, e, f) ==
  LET s == Lowest({t \in Entries : d.priv[t] = None})
  IN  [d EXCEPT !.priv[s] = f, !.feed[e].list = <<s>> \o @, !.filter[f].entry = s]

(* release_filter walks the list up to the entry and unlinks it.           *)
Unlink(list, s) ==
  LET i == Lowest({k \in DOMAIN list : list[k] = s})
  IN  [k \in 1 .. Len(list) - 1 |-> list[IF k < i THEN k ELSE k + 1]]

ReleaseEntry(d, e, s) ==
  [d EXCEPT !.priv[s] = None, !.feed[e].list = Unlink(@, s)]

ReleaseFeed(d, e) == [d EXCEPT !.feed[e] = NoFeed, !.stuck = @ \ {e}]

(***************************************************************************)
(* dmxdev.c: starting and stopping a filter                                *)
(***************************************************************************)
SamePid(d, f) ==
  {g \in Filters : /\ d.filter[g].state \in Active
                   /\ d.filter[g].par.pid = d.filter[f].par.pid}

\* Mutant: the timer is left running.
FeedStopKeepsTimer(d, f) ==
  StopFiltering([d EXCEPT !.filter[f].state = "SET"], d.filter[f].feed)

(* The feed is stopped, of the filters only f is marked.                   *)
FeedStop(d, f) ==
  StopFiltering([d EXCEPT !.filter[f].state = "SET", !.filter[f].timer = FALSE],
                d.filter[f].feed)

\* Mutant: the feed is released with the filter that used it.
FeedReleased(d, f) == {ReleaseFeed(d, d.filter[f].feed)}

FeedRestart(d, f) ==
  IF SamePid(d, f) # {}
  THEN LET g == Lowest(SamePid(d, f))
       IN  {o.d : o \in StartFiltering([d EXCEPT !.filter[g].state = "GO"], d.filter[g].feed)}
  ELSE {ReleaseFeed(d, d.filter[f].feed)}

\* Mutant: the entry stays in the list of the feed.
FilterStopKeepsEntry(d, f) ==
  IF d.filter[f].state \notin Active THEN {d}
  ELSE {[r EXCEPT !.filter[f].feed = None, !.filter[f].pread = 0, !.filter[f].pwrite = 0] :
          r \in FeedRestart(FeedStop(d, f), f)}

FilterStop(d, f) ==
  IF d.filter[f].state \notin Active THEN {d}
  ELSE LET x == d.filter[f]
           released == ReleaseEntry(FeedStop(d, f), x.feed, x.entry)
       IN  {[r EXCEPT !.filter[f].feed = None, !.filter[f].pread = 0, !.filter[f].pwrite = 0] :
              r \in FeedRestart(released, f)}

(* A filter with its feed: the one of its pid, stopped, or a new one, or   *)
(* none if there is no feed left.                                          *)
WithFeed(d, f) ==
  LET free == {e \in Feeds : d.feed[e].state = "FREE"}
      shared == SamePid(d, f)
  IN  IF shared # {}
      THEN FeedStop([d EXCEPT !.filter[f].feed = d.filter[Lowest(shared)].feed], f)
      ELSE IF free = {} THEN d
      ELSE [d EXCEPT !.filter[f].feed = Lowest(free),
                     !.feed[Lowest(free)] = [state |-> "READY", list |-> <<>>]]

(* dvb_dmxdev_filter_start on a filter that is stopped.  On success the    *)
(* timer runs and the state is still to be set.  Where it fails it leaves  *)
(* what it has: with no entry left it starts the feed of the others again; *)
(* when the hardware refuses, the new entry stays in the list.             *)
StartStopped(d0, f) ==
  LET cleared == [d0 EXCEPT !.filter[f].data = TRUE, !.filter[f].pread = 0,
                            !.filter[f].pwrite = 0, !.filter[f].feed = None,
                            !.filter[f].entry = None]
      d == WithFeed(cleared, f)
      e == d.filter[f].feed
  IN  IF e = None THEN {[d |-> d, ok |-> FALSE]}
      ELSE IF \A s \in Entries : d.priv[s] # None
      THEN {[o EXCEPT !.ok = FALSE] :
              o \in UNION {StartFiltering(r, e) : r \in FeedRestart(d, f)}}
      ELSE {IF o.ok
            THEN [o EXCEPT !.d.filter[f].timer = d.filter[f].par.timeout]
            ELSE [o EXCEPT !.d.lost = @ \cup {o.d.filter[f].entry}] :
              o \in StartFiltering([AllocateEntry(d, e, f) EXCEPT !.filter[f].todo = 0], e)}

FilterStart(d, f) == UNION {StartStopped(r, f) : r \in FilterStop(d, f)}

(***************************************************************************)
(* System calls.  The mutex of the device is free when no start is under   *)
(* way, the mutex of a filter when nobody reads from it.                   *)
(***************************************************************************)
Calls(f) == call = None /\ rd[f].pc = "idle" /\ UNCHANGED <<rd, arrived>>

Started(d, f) ==
  /\ \E o \in FilterStart(d, f) : dmx' = o.d /\ call' = IF o.ok THEN f ELSE None
  /\ given' = [given EXCEPT ![f] = 0] /\ last' = [last EXCEPT ![f] = NoByte]
  /\ torn' = torn \ {f}
  /\ UNCHANGED broken

(* dvb_demux_open                                                          *)
Open(f) ==
  /\ Calls(f)
  /\ dmx.filter[f].state = "FREE"
  /\ \A g \in 1 .. f - 1 : dmx.filter[g].state # "FREE"
  /\ dmx' = [dmx EXCEPT !.filter[f] =
               [NoFilter EXCEPT !.state = "ALLOCATED", !.todo = dmx.filter[f].todo]]
  /\ UNCHANGED <<call, ghosts>>

(* DMX_SET_FILTER, with or without DMX_IMMEDIATE_START                     *)
SetFilter(f, par, immediate) ==
  /\ Calls(f) /\ dmx.filter[f].state # "FREE"
  /\ \E r \in FilterStop(dmx, f) :
       LET d == [r EXCEPT !.filter[f].par = par, !.filter[f].state = "SET"]
       IN  IF immediate THEN Started(d, f)
           ELSE dmx' = d /\ UNCHANGED <<call, ghosts>>

(* DMX_START                                                               *)
Start(f) ==
  /\ Calls(f) /\ dmx.filter[f].state \in Active \cup {"SET"}
  /\ Started(dmx, f)

(* The last statement of dvb_dmxdev_filter_start                           *)
SetGo ==
  /\ call # None
  /\ dmx' = [dmx EXCEPT !.filter[call].state = "GO"]
  /\ call' = None
  /\ UNCHANGED <<rd, arrived, ghosts>>

(* DMX_STOP                                                                *)
Stop(f) ==
  /\ Calls(f) /\ dmx.filter[f].state \in Active
  /\ dmx' \in FilterStop(dmx, f)
  /\ UNCHANGED <<call, ghosts>>

(* dvb_dmxdev_filter_free.  The next open sets what is forgotten here.     *)
Close(f) ==
  /\ Calls(f) /\ dmx.filter[f].state # "FREE"
  /\ \E r \in FilterStop(dmx, f) :
       dmx' = [r EXCEPT !.filter[f] = [NoFilter EXCEPT !.timer = r.filter[f].timer,
                                                       !.todo = r.filter[f].todo]]
  /\ UNCHANGED <<call, ghosts>>

(***************************************************************************)
(* Interrupts                                                              *)
(***************************************************************************)
(* dvb_dmxdev_buffer_write: a ring with size - 1 bytes is full.            *)
Free(x) == LET free == x.pread - x.pwrite IN IF free <= 0 THEN free + Size ELSE free

\* Mutant: a section may fill the ring, which then looks empty.
WrittenFull(x, n) ==
  IF Length > Free(x)
  THEN [x EXCEPT !.pwrite = x.pread, !.error = "OVERFLOW"]
  ELSE [x EXCEPT !.pwrite = (@ + Length) % Size,
                 !.ring = [c \in DOMAIN @ |->
                             LET pos == ((c - x.pwrite) % Size) + 1
                             IN  IF pos <= Length THEN [n |-> n, pos |-> pos] ELSE @[c]]]

Written(x, n) ==
  IF Length >= Free(x)
  THEN [x EXCEPT !.pwrite = x.pread, !.error = "OVERFLOW"]
  ELSE [x EXCEPT !.pwrite = (@ + Length) % Size,
                 !.ring = [c \in DOMAIN @ |->
                             LET pos == ((c - x.pwrite) % Size) + 1
                             IN  IF pos <= Length THEN [n |-> n, pos |-> pos] ELSE @[c]]]

(* A section on feed e that matches entry s.  dvb_dmxdev_section_callback  *)
(* drops it while an error waits to be read and when the filter is not in  *)
(* state GO.                                                               *)
Section(e, s) ==
  /\ arrived < load.sections /\ arrived' = arrived + 1
  /\ dmx.feed[e].state = "GO" /\ \E i \in DOMAIN dmx.feed[e].list : dmx.feed[e].list[i] = s
  /\ LET f == dmx.priv[s]
         x == dmx.filter[f]
     IN  /\ dmx' = IF x.error # "none" \/ x.state # "GO" THEN dmx
                   ELSE [dmx EXCEPT !.filter[f] =
                           [Written([x EXCEPT !.timer = FALSE], given[f] + 1) EXCEPT
                              !.state = IF x.par.oneshot THEN "DONE" ELSE @]]
         /\ given' = IF x.state = "GO" THEN [given EXCEPT ![f] = @ + 1] ELSE given
  /\ UNCHANGED <<call, rd, last, broken, torn>>

(* dvb_dmxdev_filter_timeout                                               *)
Timeout(f) ==
  /\ dmx.filter[f].timer
  /\ dmx' = [dmx EXCEPT !.filter[f] =
               [@ EXCEPT !.timer = FALSE, !.error = "TIMEDOUT", !.state = "TIMEDOUT"]]
  /\ UNCHANGED <<call, rd, arrived, ghosts>>

(***************************************************************************)
(* read: dvb_dmxdev_read_sec calls dvb_dmxdev_buffer_read for the header   *)
(* (stage head) and for the body.  In rd, count is what the program still  *)
(* asks for, want what buffer_read was called for, todo what it has not    *)
(* copied yet and n what it is about to copy.                              *)
(***************************************************************************)
Smaller(a, b) == IF a < b THEN a ELSE b

(* buffer_read is entered: the next state of the call                      *)
Enter(c, stage, want) == [c EXCEPT !.pc = "enter", !.stage = stage, !.want = want, !.todo = want]

Read(f, count, block) ==
  /\ rd[f].pc = "idle" /\ call # f
  /\ dmx.filter[f].state # "FREE" /\ dmx.filter[f].par # NoParams
  /\ LET todo == dmx.filter[f].todo
         c == [NoCall EXCEPT !.count = count, !.block = block]
     IN  rd' = [rd EXCEPT ![f] = IF todo <= 0 THEN Enter(c, "head", Smaller(Header + todo, count))
                                 ELSE Enter(c, "body", Smaller(count, todo))]
  /\ UNCHANGED <<dmx, call, arrived, ghosts>>

SetTodo(f, todo) == [dmx EXCEPT !.filter[f].todo = todo]

\* Mutant: the length of the body is not taken from the header.
ReturnsHeader(f, n) ==
  /\ dmx' = SetTodo(f, dmx.filter[f].todo - n)
  /\ rd' = [rd EXCEPT ![f] = NoCall]
  /\ UNCHANGED <<call, arrived, ghosts>>

(* buffer_read returns n >= 0 bytes.  With the whole header the length of  *)
(* the body is known, and read goes on with it.                            *)
Returns(f, n) ==
  LET c == rd[f]
      todo == dmx.filter[f].todo - n
      whole == c.stage = "head" /\ todo <= -Header
      body == Length - Header
  IN  /\ dmx' = SetTodo(f, IF whole THEN body ELSE todo)
      /\ rd' = [rd EXCEPT ![f] = IF whole /\ c.count > n
                                 THEN Enter([c EXCEPT !.count = @ - n], "body",
                                            Smaller(c.count - n, body))
                                 ELSE NoCall]
      /\ UNCHANGED <<call, arrived, ghosts>>

\* Mutant: an error leaves todo in the header too.
ErrorKeepsTodo(f) ==
  LET x == dmx.filter[f]
  IN  /\ dmx' = [dmx EXCEPT !.filter[f] = [x EXCEPT !.pwrite = x.pread, !.error = "none"]]
      /\ rd' = [rd EXCEPT ![f] = NoCall]
      /\ last' = [last EXCEPT ![f] = NoByte]
      /\ torn' = IF rd[f].stage = "body" THEN torn \cup {f} ELSE torn
      /\ UNCHANGED <<call, arrived, given, broken>>

(* The error is reported and the ring emptied.  In the body todo stays.    *)
ReturnsError(f) ==
  LET x == dmx.filter[f]
  IN  /\ dmx' = [dmx EXCEPT !.filter[f] =
                   [x EXCEPT !.pwrite = x.pread, !.error = "none",
                             !.todo = IF rd[f].stage = "head" THEN 0 ELSE @]]
      /\ rd' = [rd EXCEPT ![f] = NoCall]
      /\ last' = [last EXCEPT ![f] = NoByte]
      /\ torn' = IF rd[f].stage = "body" THEN torn \cup {f} ELSE torn
      /\ UNCHANGED <<call, arrived, given, broken>>

(* EWOULDBLOCK                                                             *)
ReturnsEmpty(f) ==
  /\ dmx' = IF rd[f].stage = "head" THEN SetTodo(f, 0) ELSE dmx
  /\ rd' = [rd EXCEPT ![f] = NoCall]
  /\ UNCHANGED <<call, arrived, ghosts>>

Empty(x) == x.pread = x.pwrite
Copied(c) == c.want - c.todo

ReadEnter(f) ==
  LET x == dmx.filter[f]
  IN  /\ rd[f].pc = "enter"
      /\ IF ~x.data THEN Returns(f, 0)
         ELSE IF x.error # "none" THEN ReturnsError(f)
         ELSE IF ~rd[f].block /\ Empty(x) THEN ReturnsEmpty(f)
         ELSE /\ rd' = [rd EXCEPT ![f].pc = "loop"]
              /\ UNCHANGED <<dmx, call, arrived, ghosts>>

(* One turn of the loop up to the copy.  A call that blocks waits for a    *)
(* byte or an error.                                                       *)
ReadLoop(f) ==
  LET x == dmx.filter[f]
      c == rd[f]
      avail == (x.pwrite - x.pread) % Size
  IN  /\ c.pc = "loop"
      /\ IF c.todo = 0 THEN Returns(f, c.want)
         ELSE IF ~c.block /\ Empty(x)
         THEN IF Copied(c) > 0 THEN Returns(f, Copied(c)) ELSE ReturnsEmpty(f)
         ELSE /\ ~Empty(x) \/ x.error # "none"
              /\ IF x.error # "none" THEN ReturnsError(f)
                 ELSE /\ rd' = [rd EXCEPT ![f].pc = "copy", ![f].n = Smaller(avail, c.todo)]
                      /\ UNCHANGED <<dmx, call, arrived, ghosts>>

(* A signal while it waits                                                 *)
ReadSignal(f) ==
  /\ rd[f].pc = "loop" /\ rd[f].todo > 0 /\ rd[f].block
  /\ Empty(dmx.filter[f]) /\ dmx.filter[f].error = "none"
  /\ Returns(f, Copied(rd[f]))

Follows(b, a) ==
  IF a = NoByte THEN b.pos = 1
  ELSE b = IF a.pos < Length THEN [a EXCEPT !.pos = @ + 1] ELSE [n |-> a.n + 1, pos |-> 1]

(* copy_to_user up to the end of the ring; pread goes on.                  *)
ReadCopy(f) ==
  LET x == dmx.filter[f]
      m == Smaller(rd[f].n, Size - x.pread)
      bytes == [k \in 1 .. m |-> x.ring[x.pread + k - 1]]
  IN  /\ rd[f].pc = "copy"
      /\ dmx' = [dmx EXCEPT !.filter[f].pread = (@ + m) % Size]
      /\ rd' = [rd EXCEPT ![f].todo = @ - m, ![f].n = @ - m,
                          ![f].pc = IF m = rd[f].n THEN "loop" ELSE "copy"]
      /\ last' = [last EXCEPT ![f] = bytes[m]]
      /\ broken' = IF \A k \in 1 .. m : Follows(bytes[k], IF k = 1 THEN last[f] ELSE bytes[k - 1])
                   THEN broken ELSE broken \cup {f}
      /\ UNCHANGED <<call, arrived, given, torn>>

Control(f) ==
  \/ Open(f) \/ Start(f) \/ Stop(f) \/ Close(f)
  \/ \E par \in Params, immediate \in BOOLEAN : SetFilter(f, par, immediate)
Interrupt == (\E e \in Feeds, s \in Entries : Section(e, s)) \/ (\E f \in Filters : Timeout(f))
Reads(f) ==
  \/ \E count \in Counts, block \in BOOLEAN : Read(f, count, block)
  \/ ReadEnter(f) \/ ReadLoop(f) \/ ReadSignal(f) \/ ReadCopy(f)

Next ==
  /\ \/ \E f \in load.users : Control(f)
     \/ SetGo
     \/ Interrupt
     \/ \E f \in load.readers : Reads(f)
  /\ UNCHANGED load

Spec == Init /\ [][Next]_vars

(***************************************************************************)
(* Properties                                                              *)
(***************************************************************************)
TypeOK ==
  /\ \A f \in Filters :
       LET x == dmx.filter[f]
       IN  /\ x.state \in Active \cup {"FREE", "ALLOCATED", "SET"}
           /\ x.par \in Params \cup {NoParams}
           /\ x.feed \in Feeds \cup {None} /\ x.entry \in Entries \cup {None}
           /\ x.todo \in 1 - Header .. Length - Header
           /\ x.pread \in 0 .. Size - 1 /\ x.pwrite \in 0 .. Size - 1
           /\ x.error \in {"none", "OVERFLOW", "TIMEDOUT"}
  /\ \A e \in Feeds : dmx.feed[e].state \in {"FREE", "READY", "GO"}
  /\ dmx.priv \in [Entries -> Filters \cup {None}]
  /\ call \in Filters \cup {None}

Running == {f \in Filters : dmx.filter[f].state \in Active} \cup ({call} \ {None})
Listed(e) == {dmx.feed[e].list[i] : i \in DOMAIN dmx.feed[e].list}

(* However filters of the same and of other pids are started and stopped,  *)
(* each running filter has an entry of its own in the list of its feed,    *)
(* the feed runs unless the hardware refused to start it, and filters have *)
(* the same feed exactly when they have the same pid (filter_start,        *)
(* feed_restart, release_filter, which walks the list up to the entry).    *)
FeedServes ==
  \A f \in Running :
    LET x == dmx.filter[f]
    IN  /\ x.feed # None /\ x.entry \in Listed(x.feed) /\ dmx.priv[x.entry] = f
        /\ dmx.feed[x.feed].state = "GO" \/ x.feed \in dmx.stuck
        /\ \A g \in Running :
             x.feed = dmx.filter[g].feed <=> x.par.pid = dmx.filter[g].par.pid

(* Feeds and entries are given back: one that is in use belongs to a       *)
(* running filter, except after a start that the hardware refused          *)
(* (filter_stop, feed_restart, the error paths of filter_start).           *)
NoLeak ==
  /\ \A e \in Feeds : dmx.feed[e].state # "FREE" =>
       e \in dmx.stuck \/ \E f \in Running : dmx.filter[f].feed = e
  /\ \A s \in Entries : dmx.priv[s] # None =>
       s \in dmx.lost \/ (dmx.priv[s] \in Running /\ dmx.filter[dmx.priv[s]].entry = s)

(* The timer of a filter runs only while the filter does: a timer that     *)
(* outlives its file would set the state of the next file in the slot      *)
(* (feed_stop, section_callback, filter_timer).                            *)
TimerOwned ==
  \A f \in Filters : dmx.filter[f].timer => f \in Running

(* A program gets the bytes of its sections in order, each once.  After    *)
(* sections were dropped it gets an error before the next byte, and that   *)
(* byte begins a section, although the interrupt empties the ring while a  *)
(* read copies from it (buffer_write, buffer_read, section_callback).      *)
InSequence == broken = {}

(* Between calls todo says where in a section the program is, whatever it  *)
(* asks for, unless an error waits to be read, or was read in the middle   *)
(* of a section and the filter not started again (read_sec).               *)
Framed ==
  \A f \in load.readers \ torn :
    dmx.filter[f].state \in Active /\ dmx.filter[f].error = "none" /\ rd[f].pc = "idle" =>
      LET pos == last[f].pos % Length
      IN  dmx.filter[f].todo =
            IF pos = 0 THEN 0 ELSE IF pos < Header THEN -pos ELSE Length - pos
=============================================================================
