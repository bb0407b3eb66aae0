---------------------------- MODULE TimerManager ----------------------------
(***************************************************************************)
(* timerd, the timer daemon of Neutrino (daemons/timerd): CTimerManager,   *)
(* its timer thread, the command thread that serves the clients, the       *)
(* configuration file both write, and the box around them: the clock, the  *)
(* power, and the front processor (FP) that wakes the box from deep        *)
(* standby.                                                                *)
(*                                                                         *)
(* One step is what the code does without giving another thread a chance   *)
(* to change what it reads: a critical section of tm_eventsMutex that does *)
(* no file I/O is one step, the pass of the timer thread is one step per   *)
(* event, and saving is two (truncate the file, write it) because a        *)
(* cancellation, a power failure or an unlocked write of m_extraTime can   *)
(* fall between them.  One unit of time is a minute.                       *)
(***************************************************************************)
EXTENDS Integers, FiniteSets

CONSTANTS
  Infos,          \* payloads (channel, EPG id, text): each added timer has its own
  Period,         \* [periodic repeat -> minutes]: DAILY, WEEKLY, ..., day masks
  NewTimers,      \* what clients ask for in CMD_ADDTIMER and CMD_MODIFYTIMER
  Extras,         \* safety times [pre, post, zap] that clients may set
  Deltas,         \* shifts of CMD_RESCHEDULETIMER
  WakeupLead,     \* wake 3 minutes before the next announcement
  NearFuture,     \* the 600 seconds of shutdownOnWakeup
  ShutdownDelay,  \* the 120 seconds until the automatic shutdown is announced
  PowerFails,     \* whether the power may fail
  MaxTime,        \* bound: the clock stops here
  MaxCmds         \* bound: client commands in a behaviour

ASSUME PeriodAssumption ==
  /\ "ONCE" \notin DOMAIN Period
  /\ "WEEKDAYS" \notin DOMAIN Period
  /\ \A r \in DOMAIN Period : Period[r] \in Nat \ {0}

ASSUME DurationAssumption ==
  /\ WakeupLead \in Nat
  /\ NearFuture \in Nat
  /\ ShutdownDelay \in Nat
  /\ MaxTime \in Nat
  /\ MaxCmds \in Nat
  /\ PowerFails \in BOOLEAN
  /\ Deltas \subseteq Nat

\* TIMERREPEAT_WEEKDAYS (0x100) with no day bit set; addEvent and modifyEvent
\* turn it into TIMERREPEAT_ONCE.
Repeats == {"ONCE", "WEEKDAYS"} \cup DOMAIN Period
States == {"SCHEDULED", "PREANNOUNCE", "ISRUNNING", "HASFINISHED", "TERMINATED"}
Types == {"SHUTDOWN", "ZAPTO", "STANDBY", "RECORD", "REMIND", "SLEEPTIMER",
          "EXEC_PLUGIN"}
\* TIMER_IMMEDIATE_RECORD exists only in the request; the timer is a RECORD.
RequestTypes == Types \cup {"IMMEDIATE_RECORD"}

NoInfo == "none"
ExtraTimes == [pre : Nat, post : Nat, zap : Nat]

ASSUME InputAssumption ==
  /\ NoInfo \notin Infos
  /\ Extras \subseteq ExtraTimes
  /\ NewTimers \subseteq
       [eventType : RequestTypes, announceTime : Nat, alarmTime : Nat,
        stopTime : Nat, eventRepeat : Repeats, repeatCount : Nat,
        safety : BOOLEAN]
  \* Every client in the repository gives a recording an end.
  /\ \A t \in NewTimers :
       t.eventType \in {"RECORD", "IMMEDIATE_RECORD"} => t.stopTime > 0

VARIABLES
  events,       \* CTimerManager::events, id -> event
  eventID,      \* last id given out
  m_saveEvents,
  m_isTimeSet,
  timer_wakeup, \* the box was woken by a timer
  extra,        \* m_extraTimeStart, m_extraTimeEnd, m_zaptoExtraTimeStart
  image,        \* the extra times in the CConfigFile that is being saved
  lock,         \* owner of tm_eventsMutex: "timer", "main" or "none"
  pc,           \* where the timer thread is; the last two: cancelled, in its wait
                \* or in loadEventsFromConfig
  pos,          \* its iterator, 0 at the end
  tnow,         \* its local variable now
  mpc,          \* where the command thread is; the last three: no power, after a
                \* shutdown ("unset": one before the timers were loaded) or without
  config,       \* timerd.conf
  fp,           \* when the FP will switch the box on, 0 for never
  now,          \* time(NULL)
  recording,    \* ids whose recording the clients have running
  unused,       \* payloads no client has used yet
  ended,        \* payloads whose timer a client has removed or stopped
  cmds          \* client commands left

timerVars == <<pc, pos, tnow>>
boxVars == <<config, image, fp>>
ghostVars == <<unused, ended, cmds>>
vars == <<events, eventID, m_saveEvents, m_isTimeSet, timer_wakeup, extra, image,
          lock, pc, pos, tnow, mpc, config, fp, now, recording,
          unused, ended, cmds>>

Event == [eventType : Types, eventState : States, announceTime : Int,
          alarmTime : Int, stopTime : Int, eventRepeat : Repeats \ {"WEEKDAYS"},
          repeatCount : Nat, info : Infos \cup {NoInfo}]

NoExtra == [pre |-> 0, post |-> 0, zap |-> 0]
NoEvents == [i \in {} |-> 0]

Up == mpc \notin {"off", "unset", "dead"}
Serving == mpc = "run"
\* The timers of timerd.conf are in memory.
Loaded == m_isTimeSet /\ pc \notin {"load", "lost"}

-----------------------------------------------------------------------------
(* Helpers *)

Least(S) == CHOOSE x \in S : \A y \in S : x <= y

\* The iterator of a std::map: the least key above i, or end().
After(f, i) ==
  LET rest == {j \in DOMAIN f : j > i} IN IF rest = {} THEN 0 ELSE Least(rest)

Put(f, i, e) == [j \in DOMAIN f \cup {i} |-> IF j = i THEN e ELSE f[j]]
Drop(f, i) == [j \in DOMAIN f \ {i} |-> f[j]]

\* Before sectionsd has set the clock, time(NULL) may still count from 1970.
ClockReadings == IF m_isTimeSet THEN {now} ELSE {0, now}

Normalised(r) == IF r = "WEEKDAYS" THEN "ONCE" ELSE r

\* The loop over events shared by shutdown() and shutdownOnWakeup(): the
\* announce time it ends with, 0 if there is none.
NextAnnounceTime(evs, states, except) ==
  LET wanted(i) == /\ i \in DOMAIN evs \ {except}
                   /\ evs[i].eventType \in {"RECORD", "ZAPTO"}
                   /\ evs[i].eventState \in states
      next[i \in 0..eventID] ==
        IF i = 0 THEN 0
        ELSE IF wanted(i) /\ (evs[i].announceTime < next[i-1] \/ next[i-1] = 0)
             THEN evs[i].announceTime
             ELSE next[i-1]
  IN  next[eventID]

\* shutdownOnWakeup(): does it add a shutdown timer?
ShutdownWanted(evs, id, clock, wakeup) ==
  LET next == NextAnnounceTime(evs, {"SCHEDULED", "PREANNOUNCE", "ISRUNNING"}, id)
  IN  wakeup /\ (next - clock > NearFuture \/ next = 0)

AutoShutdown(clock) ==
  [eventType |-> "SHUTDOWN", eventState |-> "SCHEDULED",
   announceTime |-> clock + ShutdownDelay, alarmTime |-> clock + ShutdownDelay + 1,
   stopTime |-> 0, eventRepeat |-> "ONCE", repeatCount |-> 1, info |-> NoInfo]

\* CTimerEvent::Reschedule(): by whole periods, until the alarm is ahead.
Reschedule(e, clock) ==
  LET p == Period[e.eventRepeat]
      diff == IF e.alarmTime > clock THEN 0
              ELSE p * ((clock - e.alarmTime) \div p + 1)
  IN  [e EXCEPT !.alarmTime = @ + diff,
                !.announceTime = IF @ > 0 THEN @ + diff ELSE @,
                !.stopTime = IF @ > 0 THEN @ + diff ELSE @,
                !.eventState = "SCHEDULED",
                !.repeatCount = IF @ > 0 THEN @ - 1 ELSE @]

-----------------------------------------------------------------------------
(* The command thread: parse_command, one request at a time *)

\* A request that enters the critical section of tm_eventsMutex.
Command ==
  /\ Serving
  /\ lock = "none"
  /\ cmds > 0
  /\ cmds' = cmds - 1
  /\ UNCHANGED <<m_isTimeSet, timer_wakeup, extra, lock, timerVars, mpc, boxVars, now>>

\* Mutant: the constructor keeps the type of the request.
NewEventKeepsType(t, info) ==
  [eventType |-> t.eventType, eventState |-> "SCHEDULED",
   announceTime |-> t.announceTime, alarmTime |-> t.alarmTime,
   stopTime |-> t.stopTime, eventRepeat |-> Normalised(t.eventRepeat),
   repeatCount |-> t.repeatCount, info |-> info]

\* CMD_ADDTIMER: the event that the constructor for its type builds.
NewEvent(t, info) ==
  LET pre == IF ~t.safety THEN 0
             ELSE CASE t.eventType = "RECORD" -> extra.pre
                    [] t.eventType = "ZAPTO"  -> extra.zap
                    [] OTHER -> 0
      post == IF t.safety /\ t.eventType = "RECORD" THEN extra.post ELSE 0
      immediate == t.eventType = "IMMEDIATE_RECORD"
  IN  [eventType |-> IF immediate THEN "RECORD" ELSE t.eventType,
       eventState |-> IF immediate THEN "ISRUNNING" ELSE "SCHEDULED",
       announceTime |-> t.announceTime - pre,
       alarmTime |-> t.alarmTime - pre,
       stopTime |-> IF t.eventType \in {"RECORD", "IMMEDIATE_RECORD"}
                    THEN t.stopTime + post ELSE 0,
       eventRepeat |-> Normalised(t.eventRepeat),
       repeatCount |-> t.repeatCount,
       info |-> info]

\* addEvent from CMD_ADDTIMER.  The client that asks for an immediate
\* recording is already recording.
AddEvent(t, info) ==
  /\ Command
  /\ info \in unused
  /\ unused' = unused \ {info}
  /\ UNCHANGED ended
  /\ eventID' = eventID + 1
  /\ events' = Put(events, eventID + 1, NewEvent(t, info))
  /\ m_saveEvents' = TRUE
  /\ recording' = IF t.eventType = "IMMEDIATE_RECORD"
                  THEN recording \cup {eventID + 1} ELSE recording

\* Mutant: a running event is not stopped.
EndEventSilently(id, state) ==
  /\ Command
  /\ id \in DOMAIN events
  /\ events' = [events EXCEPT ![id].eventState = state]
  /\ ended' = ended \cup {<<events[id].info, state>>}
  /\ UNCHANGED <<unused, recording, eventID, m_saveEvents>>

\* What removeEvent and stopEvent share: a running event with an end is
\* stopped, which for a recording tells the clients and may add a shutdown
\* timer; then its state is set.  Only addEvent sets m_saveEvents.
EndEvent(id, state) ==
  /\ Command
  /\ id \in DOMAIN events
  /\ \E clock \in ClockReadings :
       LET stops == /\ events[id].eventState = "ISRUNNING"
                    /\ events[id].stopTime > 0
                    /\ events[id].eventType = "RECORD"
           auto == stops /\ ShutdownWanted(events, id, clock, timer_wakeup)
           marked == [events EXCEPT ![id].eventState = state]
       IN  /\ recording' = IF stops THEN recording \ {id} ELSE recording
           /\ eventID' = IF auto THEN eventID + 1 ELSE eventID
           /\ events' = IF auto THEN Put(marked, eventID + 1, AutoShutdown(clock))
                        ELSE marked
           /\ m_saveEvents' = (m_saveEvents \/ auto)
  /\ ended' = ended \cup {<<events[id].info, state>>}
  /\ UNCHANGED unused

RemoveEvent(id) == EndEvent(id, "TERMINATED")
StopEvent(id) == EndEvent(id, "HASFINISHED")

\* The event with the times and the repetition of request t.
Modified(e, t) ==
  [eventType |-> e.eventType,
   eventState |-> IF e.eventState = "PREANNOUNCE" THEN "SCHEDULED" ELSE e.eventState,
   announceTime |-> t.announceTime,
   alarmTime |-> t.alarmTime,
   stopTime |-> t.stopTime,
   eventRepeat |-> Normalised(t.eventRepeat),
   repeatCount |-> t.repeatCount,
   info |-> e.info]

\* Mutant: the change is not marked to be saved.
ModifyEventUnsaved(id, t) ==
  /\ Command
  /\ id \in DOMAIN events
  /\ t.eventType = events[id].eventType
  /\ events' = [events EXCEPT ![id] = Modified(events[id], t)]
  /\ UNCHANGED <<m_saveEvents, eventID, recording, unused, ended>>

\* Mutant: whatever its state, the event starts over.
ModifyEventRestarts(id, t) ==
  /\ Command
  /\ id \in DOMAIN events
  /\ t.eventType = events[id].eventType
  /\ events' = [events EXCEPT ![id] = [Modified(events[id], t)
                                         EXCEPT !.eventState = "SCHEDULED"]]
  /\ m_saveEvents' = TRUE
  /\ UNCHANGED <<eventID, recording, unused, ended>>

\* modifyEvent for CMD_MODIFYTIMER.  Clients give a timer of a type the times
\* that this type has.
ModifyEvent(id, t) ==
  /\ Command
  /\ id \in DOMAIN events
  /\ t.eventType = events[id].eventType
  /\ events' = [events EXCEPT ![id] = Modified(events[id], t)]
  /\ m_saveEvents' = TRUE
  /\ UNCHANGED <<eventID, recording, unused, ended>>

\* modifyEvent for CMD_SETAPID changes the payload of a recording or a zap.
SetApids(id) ==
  /\ Command
  /\ id \in DOMAIN events
  /\ events[id].eventType \in {"RECORD", "ZAPTO"}
  /\ m_saveEvents' = TRUE
  /\ UNCHANGED <<events, eventID, recording, unused, ended>>

\* The event with its times shifted by d.
Shifted(e, d) ==
  LET later(t) == IF t > 0 THEN t + d ELSE t
  IN  [eventType |-> e.eventType, eventState |-> "SCHEDULED",
       announceTime |-> later(e.announceTime), alarmTime |-> later(e.alarmTime),
       stopTime |-> later(e.stopTime), eventRepeat |-> e.eventRepeat,
       repeatCount |-> e.repeatCount, info |-> e.info]

\* Mutant: the change is not marked to be saved.
RescheduleEventUnsaved(id, d) ==
  /\ Command
  /\ id \in DOMAIN events
  /\ events' = [events EXCEPT ![id] = Shifted(events[id], d)]
  /\ UNCHANGED <<m_saveEvents, eventID, recording, unused, ended>>

\* rescheduleEvent for CMD_RESCHEDULETIMER.
RescheduleEvent(id, d) ==
  /\ Command
  /\ id \in DOMAIN events
  /\ events' = [events EXCEPT ![id] = Shifted(events[id], d)]
  /\ m_saveEvents' = TRUE
  /\ UNCHANGED <<eventID, recording, unused, ended>>

\* setRecordingSafety and setZaptoSafety take no lock.
SetExtra(x) ==
  /\ Serving
  /\ cmds > 0
  /\ cmds' = cmds - 1
  /\ extra' = x
  /\ m_saveEvents' = TRUE
  /\ UNCHANGED <<events, eventID, m_isTimeSet, timer_wakeup, lock, timerVars, mpc,
                 boxVars, now, recording, unused, ended>>

SetRecordingSafety(x) == SetExtra([extra EXCEPT !.pre = x.pre, !.post = x.post])
SetZaptoSafety(x) == SetExtra([extra EXCEPT !.zap = x.zap])

-----------------------------------------------------------------------------
(* saveEventsToConfig, in the timer thread or at shutdown *)

\* Take the lock, collect the values, open the file: it is empty now.
OpenConfig(self) ==
  /\ lock = "none"
  /\ lock' = self
  /\ image' = extra
  /\ config' = [file |-> TRUE, events |-> NoEvents, extra |-> NoExtra]

\* Mutant: m_saveEvents stays set.
WriteConfigKeepsFlag(self) ==
  /\ lock = self
  /\ lock' = "none"
  /\ config' = [file |-> TRUE, events |-> events, extra |-> image]
  /\ m_saveEvents' = m_saveEvents
  /\ image' = NoExtra

\* Write the file, clear m_saveEvents, release the lock.
WriteConfig(self) ==
  /\ lock = self
  /\ lock' = "none"
  /\ config' = [file |-> TRUE, events |-> events, extra |-> image]
  /\ m_saveEvents' = FALSE
  /\ image' = NoExtra

-----------------------------------------------------------------------------
(* The timer thread *)

\* What the timer thread leaves to others.
TimerOnly == UNCHANGED <<extra, mpc, fp, now, ghostVars>>

\* sectionsd says that the time is set: loadEventsFromConfig reads the file.
\* A thread that is being cancelled dies in its wait instead.
BeginLoad ==
  /\ pc = "wait"
  /\ ~m_isTimeSet
  /\ Serving
  /\ m_isTimeSet' = TRUE
  /\ pos' = After(config.events, 0)
  /\ pc' = "load"
  /\ UNCHANGED <<events, eventID, m_saveEvents, timer_wakeup, lock, tnow, config,
                 image, recording>>
  /\ TimerOnly

\* One saved timer: still ahead or running, kept; old but periodic, marked to
\* be rescheduled; otherwise dropped.  It gets a new id.
LoadEvent ==
  /\ pc = "load"
  /\ pos # 0
  /\ lock = "none"
  /\ LET e == config.events[pos]
         ahead == e.alarmTime >= now \/ e.stopTime > now
         kept == ahead \/ e.eventRepeat # "ONCE"
     IN  /\ eventID' = IF kept THEN eventID + 1 ELSE eventID
         /\ events' = IF ~kept THEN events
                      ELSE Put(events, eventID + 1,
                               IF ahead THEN e
                               ELSE [e EXCEPT !.eventState = "HASFINISHED"])
  /\ pos' = After(config.events, pos)
  /\ UNCHANGED <<m_saveEvents, m_isTimeSet, timer_wakeup, lock, pc, tnow, config,
                 image, recording>>
  /\ TimerOnly

\* The pass: now is read before the lock is taken.
BeginPass ==
  /\ pc = "wait"
  /\ m_isTimeSet
  /\ Serving
  /\ tnow' = now
  /\ pc' = "pass"
  /\ UNCHANGED <<events, eventID, m_saveEvents, m_isTimeSet, timer_wakeup, lock, pos,
                 config, image, recording>>
  /\ TimerOnly

LockPass ==
  /\ pc = "pass"
  /\ lock = "none"
  /\ lock' = "timer"
  /\ pos' = After(events, 0)
  /\ pc' = "scan"
  /\ UNCHANGED <<events, eventID, m_saveEvents, m_isTimeSet, timer_wakeup, tnow,
                 config, image, recording>>
  /\ TimerOnly

\* The four checks of the loop body, and what each makes of the event.
Announces(e) ==
  e.announceTime > 0 /\ e.eventState = "SCHEDULED" /\ e.announceTime <= tnow
Announced(e) == IF Announces(e) THEN [e EXCEPT !.eventState = "PREANNOUNCE"] ELSE e

\* Mutant: the alarm is seen only in its own minute.
FiresOnTime(e) ==
  e.eventState \in {"SCHEDULED", "PREANNOUNCE"} /\ e.alarmTime = tnow

Fires(e) ==
  /\ e.alarmTime > 0
  /\ e.eventState \in {"SCHEDULED", "PREANNOUNCE"}
  /\ e.alarmTime <= tnow
Fired(e) ==
  IF ~Fires(e) THEN e
  ELSE [e EXCEPT !.eventState = IF e.stopTime = 0 THEN "HASFINISHED" ELSE "ISRUNNING"]

\* Mutant: the end is seen only in its own minute.
StopsOnTime(e) ==
  e.eventState = "ISRUNNING" /\ e.stopTime = tnow

Stops(e) ==
  e.stopTime > 0 /\ e.eventState = "ISRUNNING" /\ e.stopTime <= tnow
Stopped(e) == IF Stops(e) THEN [e EXCEPT !.eventState = "HASFINISHED"] ELSE e

Finished(e) ==
  IF e.eventState # "HASFINISHED" THEN e
  ELSE IF e.eventRepeat # "ONCE" /\ e.repeatCount # 1 THEN Reschedule(e, now)
  ELSE [e EXCEPT !.eventState = "TERMINATED"]

\* Where the iterator goes: erase(pos) leaves it dangling and pos++ then reads
\* the freed node, whose links lead to some event that is left or to end().
NextPos(evs, i) ==
  IF i \in DOMAIN evs THEN {After(evs, i)} ELSE DOMAIN evs \cup {0}

\* The loop body for one event; each check sees what the one before it left.
ScanEvent ==
  /\ pc = "scan"
  /\ pos # 0
  /\ LET e == events[pos]
         e1 == Announced(e)
         fires == Fires(e1)
         e2 == Fired(e1)
         stops == Stops(e2)
         e3 == Stopped(e2)
         e4 == Finished(e3)
         \* CTimerEvent_Zapto::fireEvent clears the wakeup flag
         wakeup == timer_wakeup /\ ~(fires /\ e.eventType = "ZAPTO")
         \* CTimerEvent_Record::stopEvent calls shutdownOnWakeup
         auto == /\ stops
                 /\ e.eventType = "RECORD"
                 /\ ShutdownWanted(events, pos, now, wakeup)
         kept == IF e4.eventState = "TERMINATED" THEN Drop(events, pos)
                 ELSE Put(events, pos, e4)
         started == IF fires /\ e.eventType = "RECORD" THEN {pos} ELSE {}
         stopped == IF stops /\ e.eventType = "RECORD" THEN {pos} ELSE {}
     IN  /\ events' = IF auto THEN Put(kept, eventID + 1, AutoShutdown(now)) ELSE kept
         /\ eventID' = IF auto THEN eventID + 1 ELSE eventID
         /\ m_saveEvents' = \/ m_saveEvents \/ Announces(e) \/ fires \/ stops
                            \/ e3.eventState \in {"HASFINISHED", "TERMINATED"}
         /\ timer_wakeup' = wakeup
         /\ recording' = (recording \cup started) \ stopped
         /\ pos' \in NextPos(events', pos)
  /\ UNCHANGED <<m_isTimeSet, lock, pc, tnow, config, image>>
  /\ TimerOnly

UnlockPass ==
  /\ pc = "scan"
  /\ pos = 0
  /\ lock' = "none"
  /\ pc' = "save"
  /\ UNCHANGED <<events, eventID, m_saveEvents, m_isTimeSet, timer_wakeup, pos, tnow,
                 config, image, recording>>
  /\ TimerOnly

\* After the pass: nothing to save.
SkipSave ==
  /\ pc = "save"
  /\ ~m_saveEvents
  /\ pc' = "wait"
  /\ UNCHANGED <<events, eventID, m_saveEvents, m_isTimeSet, timer_wakeup, lock, pos,
                 tnow, config, image, recording>>
  /\ TimerOnly

\* saveEventsToConfig after a pass that found m_saveEvents set, or, whatever
\* the flag says, at the end of loadEventsFromConfig.
BeginSave ==
  /\ \/ /\ pc = "save"
        /\ m_saveEvents
        /\ pc' = "write"
     \/ /\ pc = "load"
        /\ pos = 0
        /\ pc' = "loadwrite"
  /\ OpenConfig("timer")
  /\ UNCHANGED <<events, eventID, m_saveEvents, m_isTimeSet, timer_wakeup, pos, tnow,
                 recording>>
  /\ TimerOnly

EndSave ==
  /\ pc = "write"
  /\ WriteConfig("timer")
  /\ pc' = "wait"
  /\ UNCHANGED <<events, eventID, m_isTimeSet, timer_wakeup, pos, tnow, recording>>
  /\ TimerOnly

\* After loading, the thread makes its first pass without waiting.
EndLoad ==
  /\ pc = "loadwrite"
  /\ WriteConfig("timer")
  /\ tnow' = now
  /\ pc' = "pass"
  /\ UNCHANGED <<events, eventID, m_isTimeSet, timer_wakeup, pos, recording>>
  /\ TimerOnly

-----------------------------------------------------------------------------
(* shutdown(): CMD_SHUTDOWN or a signal, in the command thread *)

ShutdownOnly ==
  UNCHANGED <<events, eventID, m_isTimeSet, timer_wakeup, extra, now, recording,
              ghostVars, pos, tnow, fp>>

\* pthread_cancel; pthread_join waits for CancelTimer.
BeginShutdown ==
  /\ Serving
  /\ mpc' = "join"
  /\ UNCHANGED <<m_saveEvents, image, lock, pc, config>>
  /\ ShutdownOnly

\* Mutant: cancellation is not enabled again after a pass.
CancelTimerDisabled ==
  /\ mpc = "join"
  /\ pc = "wait"
  /\ ~m_isTimeSet
  /\ pc' = "gone"
  /\ UNCHANGED <<m_saveEvents, image, mpc, lock, config>>
  /\ ShutdownOnly

\* The timer thread dies at a cancellation point: its wait or, because
\* loadEventsFromConfig runs with cancellation enabled, the read of the file,
\* before the first event is added, or the open and the writes of
\* saveEventsToConfig, with tm_eventsMutex held and the file not yet opened,
\* still empty or already whole.
CancelTimer ==
  /\ mpc = "join"
  /\ \/ /\ pc = "wait"
        /\ pc' = "gone"
        /\ UNCHANGED <<lock, config>>
     \/ /\ pc = "load"
        /\ pos = After(config.events, 0)
        /\ pc' = "lost"
        /\ UNCHANGED <<lock, config>>
     \/ /\ pc = "load"
        /\ pos = 0
        /\ lock = "none"
        /\ lock' = "timer"
        /\ pc' = "lost"
        /\ UNCHANGED config
     \/ /\ pc = "loadwrite"
        /\ config' \in {config, [file |-> TRUE, events |-> events, extra |-> image]}
        /\ pc' = "lost"
        /\ UNCHANGED lock
  /\ UNCHANGED <<m_saveEvents, image, mpc>>
  /\ ShutdownOnly

BeginShutdownSave ==
  /\ mpc = "join"
  /\ pc \in {"gone", "lost"}
  /\ m_saveEvents
  /\ OpenConfig("main")
  /\ mpc' = "write"
  /\ UNCHANGED <<m_saveEvents, pc>>
  /\ ShutdownOnly

EndShutdownSave ==
  /\ mpc = "write"
  /\ WriteConfig("main")
  /\ mpc' = "program"
  /\ UNCHANGED pc
  /\ ShutdownOnly

SkipShutdownSave ==
  /\ mpc = "join"
  /\ pc \in {"gone", "lost"}
  /\ ~m_saveEvents
  /\ mpc' = "program"
  /\ UNCHANGED <<m_saveEvents, image, lock, pc, config>>
  /\ ShutdownOnly

\* What is lost without power.
Halt(how) ==
  /\ mpc' = how
  /\ events' = NoEvents
  /\ eventID' = 0
  /\ m_saveEvents' = FALSE
  /\ m_isTimeSet' = FALSE
  /\ timer_wakeup' = FALSE
  /\ extra' = NoExtra
  /\ image' = NoExtra
  /\ lock' = "none"
  /\ pc' = "gone"
  /\ pos' = 0
  /\ tnow' = 0
  /\ recording' = {}
  /\ UNCHANGED <<config, now, ghostVars>>

\* Mutant: the 3 minutes are forgotten.
WakeupTimeNoLead(next, clock) ==
  LET minutes == next - clock
  IN  now + (IF minutes < 1 THEN 1 ELSE minutes)

\* When the FP is told to wake the box for announcement next.
WakeupTime(next, clock) ==
  LET minutes == next - clock - WakeupLead
  IN  now + (IF minutes < 1 THEN 1 ELSE minutes)

\* The end of shutdown(): program the FP, unless the mutex is still locked.
ProgramWakeup ==
  /\ mpc = "program"
  /\ \/ /\ lock # "none"
        /\ Halt("dead")
        /\ UNCHANGED fp
     \/ /\ lock = "none"
        /\ Halt(IF Loaded THEN "off" ELSE "unset")
        /\ \E clock \in ClockReadings,
             next \in {0} \cup {events[i].announceTime : i \in DOMAIN events} :
             /\ next = NextAnnounceTime(events, {"SCHEDULED"}, 0)
             /\ fp' = IF next = 0 THEN fp ELSE WakeupTime(next, clock)

-----------------------------------------------------------------------------
(* The box *)

\* The power fails, or someone pulls the plug.
PowerLoss ==
  /\ PowerFails
  /\ Up
  /\ Halt("dead")
  /\ UNCHANGED fp

\* CTimerManager(): the safety times come from the file; without one they
\* keep whatever the memory held.
Boot(wakeup) ==
  /\ ~Up
  /\ mpc' = "run"
  /\ pc' = "wait"
  /\ timer_wakeup' = wakeup
  /\ extra' \in IF config.file THEN {config.extra} ELSE Extras \cup {NoExtra}
  /\ fp' = 0
  /\ UNCHANGED <<events, eventID, m_saveEvents, m_isTimeSet, image, lock, pos, tnow,
                 config, now, recording, ghostVars>>

UserBoot == Boot(FALSE)
TimerBoot == fp # 0 /\ now >= fp /\ Boot(TRUE)

Tick ==
  /\ now < MaxTime
  /\ now' = now + 1
  /\ UNCHANGED <<events, eventID, m_saveEvents, m_isTimeSet, timer_wakeup, extra,
                 lock, timerVars, mpc, boxVars, recording, ghostVars>>

-----------------------------------------------------------------------------

\* The box as delivered: switched off, with or without a timerd.conf.
Init ==
  /\ events = NoEvents
  /\ eventID = 0
  /\ m_saveEvents = FALSE
  /\ m_isTimeSet = FALSE
  /\ timer_wakeup = FALSE
  /\ extra = NoExtra
  /\ image = NoExtra
  /\ lock = "none"
  /\ pc = "gone"
  /\ pos = 0
  /\ tnow = 0
  /\ mpc = "dead"
  /\ config \in [file : BOOLEAN, events : {NoEvents}, extra : {NoExtra}]
  /\ fp = 0
  /\ now = 1
  /\ recording = {}
  /\ unused = Infos
  /\ ended = {}
  /\ cmds = MaxCmds

Commands ==
  \/ \E t \in NewTimers, info \in Infos : AddEvent(t, info)
  \/ \E id \in DOMAIN events :
       \/ RemoveEvent(id)
       \/ StopEvent(id)
       \/ SetApids(id)
       \/ \E t \in NewTimers : ModifyEvent(id, t)
       \/ \E d \in Deltas : RescheduleEvent(id, d)
  \/ \E x \in Extras : SetRecordingSafety(x) \/ SetZaptoSafety(x)

TimerThread ==
  \/ LoadEvent \/ EndLoad
  \/ BeginPass \/ LockPass \/ ScanEvent \/ UnlockPass
  \/ SkipSave \/ BeginSave \/ EndSave

Shutdown ==
  \/ CancelTimer
  \/ BeginShutdownSave \/ EndShutdownSave \/ SkipShutdownSave
  \/ ProgramWakeup

Box == PowerLoss \/ UserBoot \/ TimerBoot

Next == Commands \/ BeginLoad \/ TimerThread \/ BeginShutdown \/ Shutdown \/ Box \/ Tick

Spec == Init /\ [][Next]_vars

\* The scheduler runs both threads and the clock advances.  Nothing makes
\* sectionsd report the time, clients send commands or anyone press a button.
Fairness == WF_vars(TimerThread) /\ WF_vars(Shutdown) /\ WF_vars(Tick)

FairSpec == Spec /\ Fairness

-----------------------------------------------------------------------------
(* Properties *)

EventMaps(evs, last) ==
  DOMAIN evs \subseteq 1..last /\ \A i \in DOMAIN evs : evs[i] \in Event

ConfigOK ==
  /\ config.file \in BOOLEAN
  /\ config.extra \in ExtraTimes
  /\ DOMAIN config.events \subseteq Nat \ {0}
  /\ \A i \in DOMAIN config.events : config.events[i] \in Event

PlainVarsOK ==
  /\ eventID \in Nat
  /\ m_saveEvents \in BOOLEAN
  /\ m_isTimeSet \in BOOLEAN
  /\ timer_wakeup \in BOOLEAN
  /\ extra \in ExtraTimes
  /\ image \in ExtraTimes
  /\ lock \in {"none", "timer", "main"}
  /\ pc \in {"wait", "load", "loadwrite", "pass", "scan", "save", "write", "gone",
              "lost"}
  /\ pos \in Nat
  /\ tnow \in Nat
  /\ mpc \in {"run", "join", "write", "program", "off", "unset", "dead"}
  /\ fp \in Int
  /\ now \in Nat
  /\ recording \subseteq Nat
  /\ unused \subseteq Infos
  /\ ended \subseteq (Infos \cup {NoInfo}) \X States
  /\ cmds \in 0..MaxCmds

\* Every variable has its type.  In particular no event of the manager repeats
\* on an empty set of weekdays: Reschedule() would never leave its loop, with
\* tm_eventsMutex held.
TypeOK == EventMaps(events, eventID) /\ ConfigOK /\ PlainVarsOK

\* A recording that the clients have running belongs to a timer that is still
\* in the list, still running and has an end: no interleaving of commands,
\* passes and reloads forgets to send EVT_RECORD_STOP, and none sends a second
\* EVT_RECORD_START for it.  (Needs clients that do not send
\* CMD_RESCHEDULETIMER: rescheduleEvent resets a running timer silently.)
RecordingOwned ==
  \A i \in recording :
    /\ i \in DOMAIN events
    /\ events[i].eventType = "RECORD"
    /\ events[i].eventState = "ISRUNNING"
    /\ events[i].stopTime > 0

\* Whenever nothing is waiting to be saved, timerd.conf holds exactly the
\* timers in memory, apart from those a command has just ended and the timer
\* thread has still to deal with.
ConfigCurrent ==
  Up /\ Loaded /\ ~m_saveEvents /\ lock = "none" =>
    /\ DOMAIN config.events = DOMAIN events
    /\ \A i \in DOMAIN events :
         \/ events[i] = config.events[i]
         \/ /\ events[i].eventState \in {"HASFINISHED", "TERMINATED"}
            /\ <<events[i].info, events[i].eventState>> \in ended
            /\ events[i] = [config.events[i] EXCEPT !.eventState = events[i].eventState]

Pending(e) == e.eventType \in {"RECORD", "ZAPTO"} /\ ~\E st \in States : <<e.info, st>> \in ended

\* In time for announcement a: 3 minutes before it, or at once.
WakesBy(a) == fp # 0 /\ (fp <= a - WakeupLead \/ fp <= now + 1)

\* After an orderly shutdown the FP wakes the box in time for every recording
\* and zap that timerd.conf holds as scheduled.
WakeInTime ==
  mpc = "off" =>
    \A i \in DOMAIN config.events :
      LET e == config.events[i]
      IN  Pending(e) /\ e.eventState = "SCHEDULED" => WakesBy(e.announceTime)

GoesBack(e, f) ==
  /\ e.eventRepeat = "ONCE"
  /\ e.eventState \in {"ISRUNNING", "HASFINISHED", "TERMINATED"}
  /\ f.eventState \in {"SCHEDULED", "PREANNOUNCE"}

\* A timer that is to run once never goes back to waiting after it has run or
\* was ended: it cannot fire a second time.  (The same clients as above.)
OnceRunsOnce ==
  [][\A i \in DOMAIN events \cap DOMAIN events' : ~GoesBack(events[i], events'[i])]_vars

\* Where the threads are while tm_eventsMutex is held.  A timer thread that was
\* cancelled in loadEventsFromConfig may have died with it.
LockHeld ==
  /\ lock = "timer" => pc \in {"scan", "write", "loadwrite", "lost"}
  /\ lock = "main" => mpc = "write"
  /\ pc \in {"scan", "write", "loadwrite"} => lock = "timer"
  /\ mpc = "write" => pc \in {"gone", "lost"}
  /\ ~Up => pc = "gone" /\ lock = "none"

\* The iterators of a pass and of a load are at an event or at the end.
IteratorsValid ==
  /\ pc = "scan" => pos \in DOMAIN events \cup {0}
  /\ pc = "load" => pos \in DOMAIN config.events \cup {0}

\* Every recording has an end, in memory and in timerd.conf.
RecordingsEnd ==
  /\ \A i \in DOMAIN events :
       events[i].eventType = "RECORD" => events[i].stopTime > 0
  /\ \A i \in DOMAIN config.events :
       config.events[i].eventType = "RECORD" => config.events[i].stopTime > 0

\* The inductive invariant behind TypeOK and RecordingOwned.
TimerInv == TypeOK /\ LockHeld /\ IteratorsValid /\ RecordingsEnd

-----------------------------------------------------------------------------
(* Liveness, under FairSpec *)

Due(x) ==
  /\ Serving
  /\ Loaded
  /\ \E i \in DOMAIN events :
       /\ events[i].info = x
       /\ events[i].alarmTime \in 1..now
       /\ events[i].eventState \in {"SCHEDULED", "PREANNOUNCE"}

\* A timer whose alarm time has come fires (or is ended, moved or switched off
\* with the box): the dangling iterator may skip it in a pass, but not forever.
DueFires == \A x \in Infos : Due(x) ~> ~Due(x)

Recorded(x) ==
  /\ Serving
  /\ m_isTimeSet
  /\ \E i \in recording : events[i].info = x /\ events[i].stopTime <= MaxTime

\* A running recording is stopped, as long as timerd runs and knows the time
\* (and the clock, which the bound stops, gets that far).
RecordingStops == \A x \in Infos : Recorded(x) ~> ~Recorded(x)

\* A change that asks to be saved is saved while timerd runs.
SaveHappens == (m_saveEvents /\ Serving /\ m_isTimeSet) ~> (~m_saveEvents \/ ~Serving)

\* A shutdown that does not meet the timer thread inside loadEventsFromConfig
\* comes to its end.
ShutdownCompletes ==
  (mpc = "join" /\ pc \notin {"load", "loadwrite", "lost"}) ~> ~Up

=============================================================================
