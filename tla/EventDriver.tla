---------------------------- MODULE EventDriver ----------------------------
(***************************************************************************)
(* The global event driver (driver/event/event.c), two of the drivers that *)
(* write to it and the thread of controld that reads from it.              *)
(*                                                                         *)
(* Each open file has a filter and a ring of Size events.  The front       *)
(* processor's task (dbox2_fp_core.c) writes a VCR event when the level of *)
(* the scart pin changes; the timer of avia_av_event.c writes AV events.   *)
(* The watchdog thread (eventwatchdog.cpp) reads VCR events and then asks  *)
(* for the level.  Readers are other programs with the device open.        *)
(*                                                                         *)
(* The boxes have one CPU and a kernel that does not preempt its own code: *)
(* a system call runs until it sleeps, and only the timer, a soft          *)
(* interrupt, may come in between.  event_read disables interrupts for its *)
(* critical section.  event_write_message takes a plain spin lock, which   *)
(* is nothing on one CPU, so the timer can write while the task does: that *)
(* is a data race, noted in clash.                                         *)
(***************************************************************************)
EXTENDS Integers, Sequences, FiniteSets

CONSTANTS
  Readers, Watchdog, NoFile,
  Other,     \* the file of a program that may have the device open and never reads
  Levels,    \* levels of the scart pin, among them 0
  Filters,   \* the filters readers set
  MaxOpen,   \* MAX_EVENT_OPEN
  Size,      \* EVENTBUFFERSIZE
  MaxWrites  \* bound: events written

(* event_free is a u16.                                                    *)
U16 == 65536

ASSUME DriverAssumption ==
  /\ Watchdog # Other /\ {Watchdog, Other} \cap Readers = {}
  /\ NoFile \notin Readers \cup {Watchdog, Other}
  /\ 0 \in Levels
  /\ Filters \subseteq SUBSET {"VCR", "AV"}
  /\ MaxOpen \in Nat \ {0} /\ Size \in 1 .. U16 - 1 /\ MaxWrites \in Nat

VARIABLES
  open_handle,
  event_private,  \* the file in each slot
  data,           \* the filter and the ring of each open file
  pc,             \* where the program with the file is
  runnable,       \* is its task state TASK_RUNNING?
  writer,         \* the front processor's task
  fpVCR,          \* the level
  VCRMode, newVCRMode, \* in the watchdog: the level it knows, the one it got
  \* for the properties: events accepted and not yet read of each file, files
  \* whose ring two writers have changed at a time, has the watchdog been sent
  \* a change?
  owed, clash, changed,
  writes

drv == <<open_handle, event_private, data>>
wdvars == <<VCRMode, newVCRMode>>
ghosts == <<owed, clash, changed>>
vars == <<drv, pc, runnable, writer, fpVCR, wdvars, ghosts, writes>>

Files == Readers \cup {Watchdog, Other}
Slots == 0 .. MaxOpen - 1
Kinds == {"VCR", "AV"}
NoEvent == [kind |-> "none", n |-> 0]

Fresh == [filter |-> Kinds, free |-> Size, ptr |-> 0, read_ptr |-> 0,
          event |-> [c \in 0 .. Size - 1 |-> NoEvent]]
At(p, i) == [pc |-> p, i |-> i, free |-> 0, ptr |-> 0]
Idle == At("idle", 0)

Init ==
  /\ \E f \in {NoFile, Other} :
       /\ event_private = [i \in Slots |-> IF i = 0 THEN f ELSE NoFile]
       /\ open_handle = IF f = Other THEN 1 ELSE 0
  /\ data = [f \in Files |-> Fresh]
  /\ pc = [f \in Files |-> IF f = Other THEN "other" ELSE "closed"]
  /\ runnable = [f \in Files |-> TRUE]
  /\ writer = Idle
  /\ fpVCR = 0 /\ VCRMode = 0 /\ newVCRMode = 0
  /\ owed = [f \in Files |-> <<>>]
  /\ clash = {} /\ changed = FALSE
  /\ writes = 0

(***************************************************************************)
(* event_write_message                                                     *)
(***************************************************************************)
After(p) == IF p + 1 = Size THEN 0 ELSE p + 1

\* Mutant: a full ring takes events.
AcceptsFull(f, kind) == kind \in data[f].filter

Accepts(f, kind) == data[f].free > 0 /\ kind \in data[f].filter

(* The ring of a file with event e written at p, n places free before.     *)
Put(d, e, n, p) ==
  [filter |-> d.filter, free |-> (n - 1) % U16, ptr |-> After(p),
   read_ptr |-> d.read_ptr, event |-> [d.event EXCEPT ![p] = e]]

(* wake_up_interruptible                                                   *)
Wake ==
  /\ runnable' = [f \in Files |-> TRUE]
  /\ pc' = [f \in Files |-> IF pc[f] = "asleep" THEN "reading" ELSE pc[f]]

(* The timer of avia_av_event writes to all files at once.                 *)
TimerWrites ==
  /\ writes < MaxWrites /\ writes' = writes + 1
  /\ LET to == {f \in Files : /\ Accepts(f, "AV")
                              /\ \E i \in Slots : event_private[i] = f}
         e == [kind |-> "AV", n |-> writes + 1]
     IN  /\ data' = [f \in Files |->
              IF f \in to THEN Put(data[f], e, data[f].free, data[f].ptr) ELSE data[f]]
         /\ owed' = [f \in Files |-> IF f \in to THEN Append(owed[f], e) ELSE owed[f]]
         /\ clash' = clash \cup
              {f \in to : writer.pc = "put" /\ event_private[writer.i] = f}
  /\ Wake
  /\ UNCHANGED <<open_handle, event_private, writer, fpVCR, wdvars, changed>>

\* Mutant: no event is written when the level goes back to 0.
LevelOffSilent(v) ==
  /\ writer.pc = "idle" /\ v # fpVCR
  /\ writes < MaxWrites /\ writes' = writes + 1
  /\ fpVCR' = v
  /\ writer' = IF v = 0 THEN Idle ELSE At("test", 0)
  /\ UNCHANGED <<drv, pc, runnable, wdvars, ghosts>>

(* fp_check_queues finds another level.                                    *)
LevelChanges(v) ==
  /\ writer.pc = "idle" /\ v # fpVCR
  /\ writes < MaxWrites /\ writes' = writes + 1
  /\ fpVCR' = v
  /\ writer' = At("test", 0)
  /\ UNCHANGED <<drv, pc, runnable, wdvars, ghosts>>

NextSlot == IF writer.i + 1 = MaxOpen THEN At("wake", 0) ELSE At("test", writer.i + 1)

TaskTest ==
  /\ writer.pc = "test"
  /\ LET f == event_private[writer.i]
     IN  writer' = IF f # NoFile /\ Accepts(f, "VCR")
                   THEN [pc |-> "put", i |-> writer.i, free |-> data[f].free, ptr |-> data[f].ptr]
                   ELSE NextSlot
  /\ UNCHANGED <<drv, pc, runnable, fpVCR, wdvars, ghosts, writes>>

\* Mutant: event_ptr is not set back at the end of the ring.
PutNoWrap ==
  /\ writer.pc = "put"
  /\ LET f == event_private[writer.i]
         e == [kind |-> "VCR", n |-> writes]
     IN  /\ data' = [data EXCEPT ![f] = [Put(@, e, @.free, @.ptr) EXCEPT
                                           !.ptr = IF After(@) = 0 THEN @ ELSE After(@)]]
         /\ owed' = [owed EXCEPT ![f] = Append(@, e)]
         /\ changed' = (changed \/ f = Watchdog)
  /\ writer' = NextSlot
  /\ UNCHANGED <<open_handle, event_private, pc, runnable, fpVCR, wdvars, clash, writes>>

(* The count and the pointer used are those loaded before or after a timer *)
(* that came in between.                                                   *)
TaskPut ==
  /\ writer.pc = "put"
  /\ LET f == event_private[writer.i]
         e == [kind |-> "VCR", n |-> writes]
     IN  /\ \E n \in {writer.free, data[f].free}, p \in {writer.ptr, data[f].ptr} :
              data' = [data EXCEPT ![f] = Put(@, e, n, p)]
         /\ owed' = [owed EXCEPT ![f] = Append(@, e)]
         /\ changed' = (changed \/ f = Watchdog)
  /\ writer' = NextSlot
  /\ UNCHANGED <<open_handle, event_private, pc, runnable, fpVCR, wdvars, clash, writes>>

\* Mutant: event_write_message does not wake its readers.
TaskNoWake ==
  /\ writer.pc = "wake"
  /\ writer' = Idle
  /\ UNCHANGED <<drv, pc, runnable, fpVCR, wdvars, ghosts, writes>>

TaskWakes ==
  /\ writer.pc = "wake"
  /\ Wake
  /\ writer' = Idle
  /\ UNCHANGED <<drv, fpVCR, wdvars, ghosts, writes>>

(***************************************************************************)
(* The system calls.  They run while the task does not.                    *)
(***************************************************************************)
Call == writer.pc = "idle" /\ UNCHANGED <<writer, fpVCR, writes>>
Goto(f, p) == pc' = [pc EXCEPT ![f] = p]

(* event_open counts the file and then allocates, which may sleep.  With   *)
(* no handle left the watchdog thread ends.                                *)
BeginOpen(f) ==
  /\ Call /\ pc[f] = "closed"
  /\ \/ /\ open_handle = MaxOpen
        /\ f = Watchdog /\ Goto(f, "exited")
        /\ UNCHANGED open_handle
     \/ /\ open_handle # MaxOpen
        /\ open_handle' = open_handle + 1
        /\ Goto(f, "opening")
  /\ UNCHANGED <<event_private, data, runnable, wdvars, ghosts>>

FreeSlots == {i \in Slots : event_private[i] = NoFile}

(* With all slots taken event_private[MAX_EVENT_OPEN] would be written.    *)
EndOpen(f) ==
  /\ Call /\ pc[f] = "opening"
  /\ \E i \in FreeSlots :
       /\ \A j \in FreeSlots : i <= j
       /\ event_private' = [event_private EXCEPT ![i] = f]
  /\ data' = [data EXCEPT ![f] = Fresh]
  /\ UNCHANGED ghosts
  /\ Goto(f, IF f = Watchdog THEN "filter" ELSE "open")
  /\ UNCHANGED <<open_handle, runnable, wdvars>>

(* The ring is freed.                                                      *)
Forget(f) ==
  /\ data' = [data EXCEPT ![f] = Fresh]
  /\ owed' = [owed EXCEPT ![f] = <<>>]
  /\ clash' = clash \ {f}
  /\ changed' = (changed /\ f # Watchdog)

\* Mutant: event_release does not clear the slot.
ReleaseKeepsSlot(f) ==
  /\ open_handle' = open_handle - 1
  /\ UNCHANGED event_private
  /\ Forget(f)

(* event_release                                                           *)
Release(f) ==
  /\ open_handle' = open_handle - 1
  /\ event_private' = [i \in Slots |-> IF event_private[i] = f THEN NoFile ELSE event_private[i]]
  /\ Forget(f)

(* event_ioctl                                                             *)
SetFilter(f, kinds) ==
  /\ data' = [data EXCEPT ![f].filter = kinds]
  /\ UNCHANGED <<open_handle, event_private, ghosts>>

HasData(f) == data[f].free # Size

(* The ring after an event has been read.                                  *)
Taken(d) ==
  [filter |-> d.filter, free |-> (d.free + 1) % U16, ptr |-> d.ptr,
   read_ptr |-> After(d.read_ptr), event |-> d.event]

(* The critical section of event_read, with an event in the ring           *)
Consume(f) ==
  /\ data' = [data EXCEPT ![f] = Taken(@)]
  /\ owed' = [owed EXCEPT ![f] = IF @ = <<>> THEN @ ELSE Tail(@)]
  /\ UNCHANGED <<open_handle, event_private, clash, changed>>

(***************************************************************************)
(* A program that reads and waits.  It closes the file or sets a filter    *)
(* when it likes.                                                          *)
(***************************************************************************)
ReaderCloses(r) ==
  /\ Call /\ pc[r] = "open" /\ Release(r) /\ Goto(r, "closed")
  /\ UNCHANGED <<runnable, wdvars>>

ReaderFilters(r, kinds) ==
  /\ Call /\ pc[r] = "open" /\ kinds # data[r].filter /\ SetFilter(r, kinds)
  /\ UNCHANGED <<pc, runnable, wdvars>>

(* The task state is set once, before the loop.                            *)
BeginRead(r) ==
  /\ Call /\ pc[r] = "open" /\ Goto(r, "reading")
  /\ runnable' = [runnable EXCEPT ![r] = FALSE]
  /\ UNCHANGED <<drv, wdvars, ghosts>>

CheckRing(r) ==
  /\ Call /\ pc[r] = "reading"
  /\ \/ /\ HasData(r) /\ Consume(r) /\ Goto(r, "open")
        /\ runnable' = [runnable EXCEPT ![r] = TRUE]
     \/ /\ ~HasData(r) /\ Goto(r, "empty")
        /\ UNCHANGED <<drv, runnable, ghosts>>
  /\ UNCHANGED wdvars

\* Mutant: the task state is set after the ring has been looked at.
ScheduleLate(r) ==
  /\ Call /\ pc[r] = "empty"
  /\ Goto(r, "asleep")
  /\ runnable' = [runnable EXCEPT ![r] = FALSE]
  /\ UNCHANGED <<drv, wdvars, ghosts>>

(* schedule: a task made runnable in the meantime does not sleep.          *)
Schedule(r) ==
  /\ Call /\ pc[r] = "empty"
  /\ Goto(r, IF runnable[r] THEN "reading" ELSE "asleep")
  /\ UNCHANGED <<drv, runnable, wdvars, ghosts>>

(* A signal ends the read with ERESTARTSYS.                                *)
Signal(r) ==
  /\ Call /\ pc[r] \in {"empty", "asleep"} /\ Goto(r, "open")
  /\ runnable' = [runnable EXCEPT ![r] = TRUE]
  /\ UNCHANGED <<drv, wdvars, ghosts>>

(***************************************************************************)
(* watchdogThread                                                          *)
(***************************************************************************)
WdFilters ==
  /\ Call /\ pc[Watchdog] = "filter"
  /\ SetFilter(Watchdog, {"VCR"}) /\ Goto(Watchdog, "video")
  /\ UNCHANGED <<runnable, wdvars>>

(* It opens the video device, or ends when it cannot.                      *)
WdVideo ==
  /\ Call /\ pc[Watchdog] = "video"
  /\ \/ Goto(Watchdog, "poll") /\ UNCHANGED <<drv, ghosts>>
     \/ Goto(Watchdog, "exited") /\ Release(Watchdog)
  /\ UNCHANGED <<runnable, wdvars>>

(* poll returns when there is an event, or fails; then both devices are    *)
(* closed and opened again a second later.                                 *)
WdPolls ==
  /\ Call /\ pc[Watchdog] = "poll"
  /\ HasData(Watchdog) /\ Goto(Watchdog, "read")
  /\ UNCHANGED <<drv, runnable, wdvars, ghosts>>

WdPollFails ==
  /\ Call /\ pc[Watchdog] = "poll"
  /\ Release(Watchdog) /\ Goto(Watchdog, "closed")
  /\ UNCHANGED <<runnable, wdvars>>

(* The file is open with O_NONBLOCK.                                       *)
WdReads ==
  /\ Call /\ pc[Watchdog] = "read"
  /\ IF HasData(Watchdog)
     THEN /\ Consume(Watchdog)
          /\ LET d == data[Watchdog]
             IN  Goto(Watchdog, IF d.event[d.read_ptr].kind = "VCR" THEN "sample" ELSE "read")
     ELSE UNCHANGED <<drv, ghosts>> /\ Goto(Watchdog, "poll")
  /\ UNCHANGED <<runnable, wdvars>>

(* getVCRMode: FP_IOCTL_GET_VCR                                            *)
WdSamples ==
  /\ Call /\ pc[Watchdog] = "sample"
  /\ newVCRMode' = fpVCR /\ Goto(Watchdog, "store")
  /\ UNCHANGED <<drv, runnable, VCRMode, ghosts>>

\* Mutant: only a recorder that is switched on is noted.
WdStoresOn ==
  /\ Call /\ pc[Watchdog] = "store"
  /\ VCRMode' = (IF newVCRMode > VCRMode THEN newVCRMode ELSE VCRMode)
  /\ newVCRMode' = 0 /\ Goto(Watchdog, "read")
  /\ UNCHANGED <<drv, runnable, ghosts>>

(* vcrModeChanged tells the clients when the level is another.             *)
WdStores ==
  /\ Call /\ pc[Watchdog] = "store"
  /\ VCRMode' = newVCRMode /\ newVCRMode' = 0 /\ Goto(Watchdog, "read")
  /\ UNCHANGED <<drv, runnable, ghosts>>

TaskNext == TaskTest \/ TaskPut \/ TaskWakes
WatchdogNext ==
  \/ BeginOpen(Watchdog) \/ EndOpen(Watchdog)
  \/ WdFilters \/ WdVideo \/ WdPolls
  \/ WdReads \/ WdSamples \/ WdStores
ReadNext(r) == CheckRing(r) \/ Schedule(r)
ReaderNext(r) ==
  \/ BeginOpen(r) \/ EndOpen(r) \/ ReaderCloses(r)
  \/ \E kinds \in Filters : ReaderFilters(r, kinds)
  \/ BeginRead(r) \/ ReadNext(r) \/ Signal(r)

Next ==
  \/ TimerWrites
  \/ \E v \in Levels : LevelChanges(v)
  \/ TaskNext
  \/ WatchdogNext \/ WdPollFails
  \/ \E r \in Readers : ReaderNext(r)

Spec == Init /\ [][Next]_vars

(* The task goes on, the watchdog thread is scheduled, and so is a program *)
(* inside read.  poll need not fail.                                       *)
Fairness ==
  /\ WF_vars(TaskNext) /\ WF_vars(WatchdogNext)
  /\ \A r \in Readers : WF_vars(ReadNext(r))

LiveSpec == Spec /\ Fairness

(***************************************************************************)
(* Properties                                                              *)
(***************************************************************************)
IsOpen(f) == \E i \in Slots : event_private[i] = f

(* What a read would return one after the other                            *)
Contents(f) ==
  [k \in 1 .. Size - data[f].free |-> data[f].event[(data[f].read_ptr + k - 1) % Size]]

(* Types.  A file that no two writers have met in has a free count within  *)
(* its ring (event_free of event_data_t).                                  *)
TypeOK ==
  /\ open_handle \in 0 .. MaxOpen
  /\ event_private \in [Slots -> Files \cup {NoFile}]
  /\ \A f \in Files :
       /\ data[f].filter \subseteq Kinds
       /\ data[f].free \in 0 .. (IF f \in clash THEN U16 - 1 ELSE Size)
       /\ data[f].ptr \in 0 .. Size - 1 /\ data[f].read_ptr \in 0 .. Size - 1
  /\ pc \in [Files -> {"closed", "opening", "open", "reading", "empty", "asleep", "filter",
                      "video", "poll", "read", "sample", "store", "exited", "other"}]
  /\ writer.pc \in {"idle", "test", "put", "wake"} /\ writer.i \in Slots
  /\ fpVCR \in Levels /\ VCRMode \in Levels /\ newVCRMode \in Levels

(* An open that passed the count finds a free slot, however many files are *)
(* opened and closed while it allocates (event_open, event_release).       *)
OpenFindsSlot ==
  \A f \in Files : pc[f] = "opening" => FreeSlots # {}

(* Each file gets the events accepted for it once and in the order they    *)
(* were written, with filters set and rings filled in between, unless the  *)
(* timer came into a write of the task to the same ring                    *)
(* (event_write_message, event_read).                                      *)
InOrder ==
  \A f \in Files : IsOpen(f) /\ f \notin clash => Contents(f) = owed[f]

(* No program sleeps in event_read with an event in its ring, except until *)
(* the writer has reached its wake_up (event_read sets the task state      *)
(* before it looks).                                                       *)
NoLostWakeup ==
  \A r \in Readers : pc[r] = "asleep" /\ HasData(r) => writer.pc # "idle"

(* Events may be dropped and the level is read later than it changed, yet  *)
(* while the watchdog has been sent a change and knows another level than  *)
(* the scart pin has, there is an event left or it is about to ask         *)
(* (watchdogThread, fp_handle_vcr).                                        *)
ChangeKnown ==
  changed /\ IsOpen(Watchdog) /\ Watchdog \notin clash /\ VCRMode # fpVCR =>
    \/ writer.pc # "idle"
    \/ \E k \in DOMAIN Contents(Watchdog) : Contents(Watchdog)[k].kind = "VCR"
    \/ pc[Watchdog] = "sample"
    \/ pc[Watchdog] = "store" /\ newVCRMode = fpVCR

(* Once the level stays, the watchdog comes to know it (watchdogThread).   *)
LevelReported ==
  <>[](changed /\ IsOpen(Watchdog) /\ Watchdog \notin clash => VCRMode = fpVCR)

(* A read with an event in the ring returns (event_read).                  *)
ReadReturns ==
  \A r \in Readers :
    pc[r] \in {"reading", "empty", "asleep"} /\ HasData(r) ~> pc[r] = "open"
=============================================================================
