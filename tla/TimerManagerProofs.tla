------------------------- MODULE TimerManagerProofs -------------------------
(***************************************************************************)
(* What holds of timerd for every set of payloads, requests, safety times, *)
(* periods and bounds: type correctness, that no recording the clients     *)
(* have running is forgotten, that a single timer runs once, and that      *)
(* timerd.conf keeps up with the timers in memory.                         *)
(***************************************************************************)
EXTENDS TimerManager, WellFoundedInduction, TLAPS

USE ZenonT(30)

\* Least picks a least element of a nonempty set of natural numbers.
LEMMA LeastOfNat ==
  ASSUME NEW S \in SUBSET Nat, S # {}
  PROVE  Least(S) \in S
<1> DEFINE R == OpToRel(<, Nat)
<1>1. IsWellFoundedOn(R, Nat)
  BY NatLessThanWellFounded
<1> HIDE DEF R
<1>2. PICK x \in S : \A y \in S : ~(<<y, x>> \in R)
  BY <1>1, WFMin
<1>3. \A y \in S : x <= y
  <2> SUFFICES ASSUME NEW y \in S PROVE x <= y
    OBVIOUS
  <2>1. ~(<<y, x>> \in R)
    BY <1>2
  <2>2. ~(y < x)
    BY <2>1 DEF R, OpToRel
  <2> QED  BY <2>2, SMTT(30)
<1> QED  BY <1>3 DEF Least

\* The iterator of a pass or of a load is at an element or at the end.
LEMMA AfterInDomain ==
  ASSUME NEW f, DOMAIN f \subseteq Nat, NEW i \in Nat
  PROVE  After(f, i) \in DOMAIN f \cup {0}
<1> DEFINE rest == {j \in DOMAIN f : j > i}
<1>1. rest # {} => Least(rest) \in rest
  BY LeastOfNat
<1> QED  BY <1>1 DEF After

-----------------------------------------------------------------------------
(* What the operations make of an event *)

\* An event of its type; a recording has an end.
GoodEvent == {e \in Event : e.eventType = "RECORD" => e.stopTime > 0}

\* A map of such events under ids up to last.
GoodEvents(evs, last) ==
  /\ DOMAIN evs \subseteq 1..last
  /\ \A i \in DOMAIN evs : evs[i] \in GoodEvent

\* Setting the state of an event leaves the rest alone.
LEMMA StateSet ==
  ASSUME NEW e \in GoodEvent, NEW st \in States
  PROVE  LET r == [e EXCEPT !.eventState = st]
         IN  /\ r \in GoodEvent
             /\ r.eventState = st
             /\ r.eventType = e.eventType
             /\ r.eventRepeat = e.eventRepeat
             /\ r.stopTime = e.stopTime
BY DEF GoodEvent, Event

\* CMD_ADDTIMER builds an event of its type; a request to record has an end,
\* and the safety time moves it later.
LEMMA NewEventGood ==
  ASSUME NEW t \in NewTimers, NEW info \in Infos, extra \in ExtraTimes
  PROVE  NewEvent(t, info) \in GoodEvent
<1>1. /\ t.eventType \in RequestTypes /\ t.announceTime \in Nat /\ t.alarmTime \in Nat
      /\ t.stopTime \in Nat /\ t.eventRepeat \in Repeats /\ t.repeatCount \in Nat
      /\ t.eventType \in {"RECORD", "IMMEDIATE_RECORD"} => t.stopTime > 0
  BY InputAssumption
<1>2. Normalised(t.eventRepeat) \in Repeats \ {"WEEKDAYS"}
  BY <1>1 DEF Normalised, Repeats
<1>3. extra.pre \in Nat /\ extra.post \in Nat /\ extra.zap \in Nat
  BY DEF ExtraTimes
<1> QED
  BY <1>1, <1>2, <1>3, SMTT(30)
  DEF NewEvent, GoodEvent, Event, RequestTypes, Types, States

\* CMD_MODIFYTIMER keeps an event of its type.
LEMMA ModifiedGood ==
  ASSUME NEW e \in GoodEvent, NEW t \in NewTimers, t.eventType = e.eventType
  PROVE  Modified(e, t) \in GoodEvent
<1>1. /\ t.announceTime \in Nat /\ t.alarmTime \in Nat /\ t.stopTime \in Nat
      /\ t.eventRepeat \in Repeats /\ t.repeatCount \in Nat
      /\ t.eventType \in {"RECORD", "IMMEDIATE_RECORD"} => t.stopTime > 0
  BY InputAssumption
<1>2. Normalised(t.eventRepeat) \in Repeats \ {"WEEKDAYS"}
  BY <1>1 DEF Normalised, Repeats
<1>3. e \in Event
  BY DEF GoodEvent
<1> QED
  BY <1>1, <1>2, <1>3, SMTT(30) DEF Modified, GoodEvent, Event, States

\* The shutdown timer that shutdownOnWakeup adds.
LEMMA AutoShutdownGood ==
  ASSUME NEW clock \in Nat
  PROVE  AutoShutdown(clock) \in GoodEvent /\ AutoShutdown(clock).eventType = "SHUTDOWN"
<1>1. "ONCE" \in Repeats \ {"WEEKDAYS"}
  BY DEF Repeats
<1> QED
  BY <1>1, DurationAssumption, SMTT(30) DEF AutoShutdown, GoodEvent, Event, Types, States, NoInfo

\* A multiple of a natural number by a natural number is one.
LEMMA ProductNat ==
  ASSUME NEW m \in Nat, NEW n \in Nat
  PROVE  m * n \in Nat
BY SMTT(30)

\* Reschedule moves a repeating event by a nonnegative number of minutes.
LEMMA RescheduleGood ==
  ASSUME NEW e \in GoodEvent, e.eventRepeat # "ONCE", NEW clock \in Nat
  PROVE  /\ Reschedule(e, clock) \in GoodEvent
         /\ Reschedule(e, clock).eventState = "SCHEDULED"
         /\ Reschedule(e, clock).eventType = e.eventType
         /\ Reschedule(e, clock).eventRepeat = e.eventRepeat
<1> DEFINE p == Period[e.eventRepeat]
           diff == IF e.alarmTime > clock THEN 0
                   ELSE p * ((clock - e.alarmTime) \div p + 1)
<1>1. e \in Event /\ (e.eventType = "RECORD" => e.stopTime > 0)
  BY DEF GoodEvent
<1>2. p \in Nat /\ p > 0
  BY <1>1, PeriodAssumption, SMTT(30) DEF Event, Repeats
<1>3. diff \in Nat
  <2>1. CASE e.alarmTime > clock
    BY <2>1
  <2>2. CASE ~(e.alarmTime > clock)
    <3> DEFINE n == (clock - e.alarmTime) \div p + 1
    <3>1. e.alarmTime \in Int
      BY <1>1 DEF Event
    <3>2. clock - e.alarmTime \in Nat
      BY <3>1, <2>2, SMTT(30)
    <3>3. n \in Nat
      BY <3>2, <1>2, SMTT(30)
    <3>4. p * n \in Nat
      BY <3>3, <1>2, ProductNat
    <3> QED  BY <3>4, <2>2
  <2> QED  BY <2>1, <2>2
<1> HIDE DEF diff
<1>4. Reschedule(e, clock) =
        [e EXCEPT !.alarmTime = @ + diff,
                  !.announceTime = IF @ > 0 THEN @ + diff ELSE @,
                  !.stopTime = IF @ > 0 THEN @ + diff ELSE @,
                  !.eventState = "SCHEDULED",
                  !.repeatCount = IF @ > 0 THEN @ - 1 ELSE @]
  BY DEF Reschedule, diff
<1> DEFINE r == Reschedule(e, clock)
<1>5. e.announceTime \in Int /\ e.alarmTime \in Int /\ e.stopTime \in Int /\ e.repeatCount \in Nat
  BY <1>1 DEF Event
<1>6. /\ r.eventType = e.eventType /\ r.eventState = "SCHEDULED"
      /\ r.eventRepeat = e.eventRepeat /\ r.info = e.info
      /\ r.announceTime = IF e.announceTime > 0 THEN e.announceTime + diff ELSE e.announceTime
      /\ r.alarmTime = e.alarmTime + diff
      /\ r.stopTime = IF e.stopTime > 0 THEN e.stopTime + diff ELSE e.stopTime
      /\ r.repeatCount = IF e.repeatCount > 0 THEN e.repeatCount - 1 ELSE e.repeatCount
  BY <1>1, <1>4 DEF Event
<1>7. r = [eventType |-> r.eventType, eventState |-> r.eventState,
           announceTime |-> r.announceTime, alarmTime |-> r.alarmTime,
           stopTime |-> r.stopTime, eventRepeat |-> r.eventRepeat,
           repeatCount |-> r.repeatCount, info |-> r.info]
  BY <1>1, <1>4 DEF Event
<1> HIDE DEF r
<1>8. /\ r.announceTime \in Int /\ r.alarmTime \in Int /\ r.stopTime \in Int
      /\ r.repeatCount \in Nat /\ (r.eventType = "RECORD" => r.stopTime > 0)
  BY <1>1, <1>3, <1>5, <1>6, SMTT(30)
<1>9. r \in Event
  BY <1>1, <1>6, <1>7, <1>8 DEF Event, States
<1> QED
  BY <1>6, <1>8, <1>9 DEF GoodEvent, r

\* The body of the pass: the event keeps its type; a recording that runs or
\* fires, and does not stop, runs afterwards; a single event that has run or
\* was ended does not go back to waiting.
LEMMA PassedEvent ==
  ASSUME NEW e \in GoodEvent, now \in Nat, tnow \in Nat
  PROVE  LET e1 == Announced(e)
             e2 == Fired(e1)
             e3 == Stopped(e2)
             e4 == Finished(e3)
         IN  /\ e4 \in GoodEvent
             /\ e4.eventType = e.eventType
             /\ /\ e.eventType = "RECORD"
                /\ e.eventState = "ISRUNNING" \/ Fires(e1)
                /\ ~Stops(e2)
                => e4.eventState = "ISRUNNING"
             /\ /\ e.eventRepeat = "ONCE"
                /\ e.eventState \in {"ISRUNNING", "HASFINISHED", "TERMINATED"}
                => e4.eventState \notin {"SCHEDULED", "PREANNOUNCE"}
<1> DEFINE e1 == Announced(e)
           e2 == Fired(e1)
           e3 == Stopped(e2)
           e4 == Finished(e3)
<1>1. /\ e1 \in GoodEvent /\ e1.eventType = e.eventType
      /\ e1.eventRepeat = e.eventRepeat
      /\ e.eventState # "SCHEDULED" => e1 = e
  BY StateSet DEF Announced, Announces, States
<1> HIDE DEF e1
<1>2. /\ e2 \in GoodEvent /\ e2.eventType = e.eventType
      /\ e2.eventRepeat = e.eventRepeat
      /\ ~Fires(e1) => e2 = e1
      /\ Fires(e1) /\ e.eventType = "RECORD" => e2.eventState = "ISRUNNING"
      /\ e1.eventState \notin {"SCHEDULED", "PREANNOUNCE"} => e2 = e1
  <2>1. e1.eventType = "RECORD" => e1.stopTime # 0
    BY <1>1, SMTT(30) DEF GoodEvent, Event
  <2> DEFINE st == IF e1.stopTime = 0 THEN "HASFINISHED" ELSE "ISRUNNING"
             r == [e1 EXCEPT !.eventState = st]
  <2>2. st \in States
    BY DEF States
  <2>3. /\ r \in GoodEvent /\ r.eventState = st
        /\ r.eventType = e1.eventType /\ r.eventRepeat = e1.eventRepeat
    BY <1>1, <2>2, StateSet
  <2>4. e2 = IF Fires(e1) THEN r ELSE e1
    BY DEF Fired
  <2>5. Fires(e1) => e1.eventState \in {"SCHEDULED", "PREANNOUNCE"}
    BY DEF Fires
  <2> HIDE DEF r
  <2> QED
    BY <1>1, <2>1, <2>3, <2>4, <2>5
<1> HIDE DEF e2
<1>3. /\ e3 \in GoodEvent /\ e3.eventType = e.eventType
      /\ e3.eventRepeat = e.eventRepeat
      /\ ~Stops(e2) => e3 = e2
      /\ e3 # e2 => e3.eventState = "HASFINISHED"
  <2> DEFINE r == [e2 EXCEPT !.eventState = "HASFINISHED"]
  <2>1. /\ r \in GoodEvent /\ r.eventState = "HASFINISHED"
        /\ r.eventType = e2.eventType /\ r.eventRepeat = e2.eventRepeat
    BY <1>2, StateSet DEF States
  <2>2. e3 = IF Stops(e2) THEN r ELSE e2
    BY DEF Stopped
  <2> QED
    BY <1>2, <2>1, <2>2
<1> HIDE DEF e3
<1>4. /\ e4 \in GoodEvent /\ e4.eventType = e.eventType
      /\ e3.eventState # "HASFINISHED" => e4 = e3
      /\ e3.eventState = "HASFINISHED" /\ e3.eventRepeat = "ONCE"
           => e4.eventState = "TERMINATED"
  <2> DEFINE r == [e3 EXCEPT !.eventState = "TERMINATED"]
  <2>1. /\ r \in GoodEvent /\ r.eventState = "TERMINATED" /\ r.eventType = e3.eventType
    BY <1>3, StateSet DEF States
  <2>2. e3.eventRepeat # "ONCE" =>
          /\ Reschedule(e3, now) \in GoodEvent
          /\ Reschedule(e3, now).eventType = e3.eventType
    BY <1>3, RescheduleGood
  <2> QED
    BY <1>3, <2>1, <2>2 DEF Finished
<1> HIDE DEF e4
<1>5. ASSUME e.eventType = "RECORD", e.eventState = "ISRUNNING" \/ Fires(e1), ~Stops(e2)
      PROVE  e4.eventState = "ISRUNNING"
  BY <1>1, <1>2, <1>3, <1>4, <1>5
<1>6. ASSUME e.eventRepeat = "ONCE",
             e.eventState \in {"ISRUNNING", "HASFINISHED", "TERMINATED"}
      PROVE  e4.eventState \notin {"SCHEDULED", "PREANNOUNCE"}
  BY <1>1, <1>2, <1>3, <1>4, <1>6
<1> QED
  BY <1>4, <1>5, <1>6 DEF e1, e2, e3, e4

-----------------------------------------------------------------------------
(* Maps of events *)

\* Inserting an event under an id up to m.
LEMMA PutGood ==
  ASSUME NEW evs, NEW n \in Nat, NEW m \in Nat, n <= m, GoodEvents(evs, n),
         NEW i \in 1..m, NEW e \in GoodEvent
  PROVE  GoodEvents(Put(evs, i, e), m)
BY SMTT(30) DEF GoodEvents, Put

\* Erasing an event.
LEMMA DropGood ==
  ASSUME NEW evs, NEW n \in Nat, GoodEvents(evs, n), NEW i
  PROVE  GoodEvents(Drop(evs, i), n)
BY DEF GoodEvents, Drop

\* Replacing an event.
LEMMA ReplaceGood ==
  ASSUME NEW evs, NEW n \in Nat, GoodEvents(evs, n), NEW i \in DOMAIN evs,
         NEW e \in GoodEvent
  PROVE  GoodEvents([evs EXCEPT ![i] = e], n)
BY DEF GoodEvents

-----------------------------------------------------------------------------
(* The inductive invariant *)

GoodConfig ==
  /\ config.file \in BOOLEAN
  /\ config.extra \in ExtraTimes
  /\ DOMAIN config.events \subseteq Nat \ {0}
  /\ \A i \in DOMAIN config.events : config.events[i] \in GoodEvent

\* TimerInv with the parts about events put together.
Ind == /\ PlainVarsOK /\ GoodEvents(events, eventID) /\ GoodConfig
       /\ LockHeld /\ IteratorsValid

LEMMA IndIsTimerInv == Ind <=> TimerInv
BY DEF Ind, TimerInv, TypeOK, EventMaps, ConfigOK, GoodEvents, GoodConfig, GoodEvent,
       RecordingsEnd

\* A command keeps the invariant if it keeps the variables it may change typed.
LEMMA CommandStep ==
  ASSUME Ind, Command, eventID' \in Nat, GoodEvents(events', eventID'),
         m_saveEvents' \in BOOLEAN, recording' \subseteq Nat, unused' \subseteq Infos,
         ended' \subseteq (Infos \cup {NoInfo}) \X States
  PROVE  Ind'
<1> USE DEF Ind, Command, timerVars, boxVars
<1>1. PlainVarsOK'
  BY DurationAssumption, SMTT(30) DEF PlainVarsOK
<1>2. GoodConfig'
  BY DEF GoodConfig
<1>3. LockHeld'
  BY DEF LockHeld, Up
<1>4. IteratorsValid'
  BY DEF IteratorsValid, LockHeld
<1> QED  BY <1>1, <1>2, <1>3, <1>4

LEMMA AddEventStep ==
  ASSUME Ind, NEW t \in NewTimers, NEW info \in Infos, AddEvent(t, info)
  PROVE  Ind'
<1>1. extra \in ExtraTimes /\ eventID \in Nat /\ recording \subseteq Nat /\ unused \subseteq Infos
  BY DEF Ind, PlainVarsOK
<1>2. NewEvent(t, info) \in GoodEvent
  BY <1>1, NewEventGood
<1>3. GoodEvents(events', eventID')
  BY <1>1, <1>2, PutGood, SMTT(30) DEF AddEvent, Ind
<1>4. m_saveEvents' \in BOOLEAN /\ recording' \subseteq Nat /\ unused' \subseteq Infos
      /\ eventID' \in Nat
  BY <1>1, SMTT(30) DEF AddEvent
<1>5. ended' \subseteq (Infos \cup {NoInfo}) \X States
  BY DEF AddEvent, Ind, PlainVarsOK
<1> QED  BY <1>3, <1>4, <1>5, CommandStep DEF AddEvent

LEMMA EndEventStep ==
  ASSUME Ind, NEW id \in DOMAIN events, NEW state \in States, EndEvent(id, state)
  PROVE  Ind'
<1> DEFINE marked == [events EXCEPT ![id].eventState = state]
<1>1. eventID \in Nat /\ recording \subseteq Nat /\ now \in Nat /\ m_saveEvents \in BOOLEAN
  BY DEF Ind, PlainVarsOK
<1>2. GoodEvents(events, eventID) /\ events[id] \in GoodEvent
  BY DEF Ind, GoodEvents
<1>3. GoodEvents(marked, eventID)
  <2>1. [events[id] EXCEPT !.eventState = state] \in GoodEvent
    BY <1>2, StateSet
  <2>2. marked = [events EXCEPT ![id] = [events[id] EXCEPT !.eventState = state]]
    OBVIOUS
  <2> QED  BY <1>1, <1>2, <2>1, <2>2, ReplaceGood
<1> DEFINE stops == /\ events[id].eventState = "ISRUNNING"
                    /\ events[id].stopTime > 0
                    /\ events[id].eventType = "RECORD"
<1>4. PICK clock \in ClockReadings :
        LET auto == stops /\ ShutdownWanted(events, id, clock, timer_wakeup)
        IN  /\ recording' = IF stops THEN recording \ {id} ELSE recording
            /\ eventID' = IF auto THEN eventID + 1 ELSE eventID
            /\ events' = IF auto THEN Put(marked, eventID + 1, AutoShutdown(clock))
                         ELSE marked
            /\ m_saveEvents' = (m_saveEvents \/ auto)
  BY DEF EndEvent
<1> HIDE DEF marked
<1>5. clock \in Nat
  BY <1>1, SMTT(30) DEF ClockReadings
<1>6. AutoShutdown(clock) \in GoodEvent
  BY <1>5, AutoShutdownGood
<1>7. GoodEvents(Put(marked, eventID + 1, AutoShutdown(clock)), eventID + 1)
  BY <1>1, <1>3, <1>6, PutGood, SMTT(30)
<1>8. GoodEvents(events', eventID') /\ eventID' \in Nat
  BY <1>1, <1>3, <1>4, <1>7, SMTT(30)
<1>9. recording' \subseteq Nat /\ m_saveEvents' \in BOOLEAN
  BY <1>1, <1>4
<1>10. ended' \subseteq (Infos \cup {NoInfo}) \X States /\ unused' \subseteq Infos
  BY <1>2, SMTT(30) DEF EndEvent, Ind, PlainVarsOK, GoodEvent, Event
<1> QED  BY <1>8, <1>9, <1>10, CommandStep DEF EndEvent

LEMMA ModifyEventStep ==
  ASSUME Ind, NEW id \in DOMAIN events, NEW t \in NewTimers, ModifyEvent(id, t)
  PROVE  Ind'
<1>1. eventID \in Nat /\ GoodEvents(events, eventID) /\ events[id] \in GoodEvent
  BY DEF Ind, PlainVarsOK, GoodEvents
<1>2. Modified(events[id], t) \in GoodEvent
  BY <1>1, ModifiedGood DEF ModifyEvent
<1>3. GoodEvents(events', eventID')
  BY <1>1, <1>2, ReplaceGood DEF ModifyEvent
<1> QED  BY <1>1, <1>3, CommandStep DEF ModifyEvent, Ind, PlainVarsOK

LEMMA SetApidsStep ==
  ASSUME Ind, NEW id \in DOMAIN events, SetApids(id)
  PROVE  Ind'
BY CommandStep DEF SetApids, Ind, PlainVarsOK

LEMMA RescheduleEventStep ==
  ASSUME Ind, NEW id \in DOMAIN events, NEW d \in Deltas, RescheduleEvent(id, d)
  PROVE  Ind'
<1>1. /\ eventID \in Nat /\ GoodEvents(events, eventID)
      /\ events[id] \in GoodEvent /\ events[id] \in Event
  BY DEF Ind, PlainVarsOK, GoodEvents, GoodEvent
<1>2. d \in Nat
  BY DurationAssumption
<1>3. Shifted(events[id], d) \in GoodEvent
  BY <1>1, <1>2, SMTT(30) DEF Shifted, GoodEvent, Event, States
<1>4. GoodEvents(events', eventID')
  BY <1>1, <1>3, ReplaceGood DEF RescheduleEvent
<1> QED  BY <1>1, <1>4, CommandStep DEF RescheduleEvent, Ind, PlainVarsOK

LEMMA SetExtraStep ==
  ASSUME Ind, NEW x \in ExtraTimes, SetExtra(x)
  PROVE  Ind'
<1> USE DEF Ind, SetExtra, timerVars, boxVars
<1>1. PlainVarsOK'
  BY DurationAssumption, SMTT(30) DEF PlainVarsOK
<1>2. GoodEvents(events', eventID') /\ GoodConfig'
  BY DEF GoodEvents, GoodConfig
<1>3. LockHeld' /\ IteratorsValid'
  BY DEF LockHeld, IteratorsValid, Up
<1> QED  BY <1>1, <1>2, <1>3

\* The body of a pass for one event.
LEMMA ScanEventStep ==
  ASSUME Ind, ScanEvent
  PROVE  Ind'
<1> DEFINE e == events[pos]
           e1 == Announced(e)
           e2 == Fired(e1)
           e3 == Stopped(e2)
           e4 == Finished(e3)
           wakeup == timer_wakeup /\ ~(Fires(e1) /\ e.eventType = "ZAPTO")
           auto == /\ Stops(e2)
                   /\ e.eventType = "RECORD"
                   /\ ShutdownWanted(events, pos, now, wakeup)
           kept == IF e4.eventState = "TERMINATED" THEN Drop(events, pos)
                   ELSE Put(events, pos, e4)
           started == IF Fires(e1) /\ e.eventType = "RECORD" THEN {pos} ELSE {}
           stopped == IF Stops(e2) /\ e.eventType = "RECORD" THEN {pos} ELSE {}
<1>1. /\ eventID \in Nat /\ now \in Nat /\ tnow \in Nat /\ pos \in Nat /\ pos # 0
      /\ m_saveEvents \in BOOLEAN /\ timer_wakeup \in BOOLEAN /\ recording \subseteq Nat
  BY DEF Ind, PlainVarsOK, ScanEvent
<1>2. pos \in DOMAIN events /\ GoodEvents(events, eventID) /\ pc = "scan"
  BY DEF Ind, IteratorsValid, ScanEvent
<1>3. e \in GoodEvent /\ pos \in 1..eventID
  BY <1>2 DEF GoodEvents
<1>4. e4 \in GoodEvent
  BY <1>1, <1>3, PassedEvent
<1>5. /\ events' = IF auto THEN Put(kept, eventID + 1, AutoShutdown(now)) ELSE kept
      /\ eventID' = IF auto THEN eventID + 1 ELSE eventID
      /\ timer_wakeup' = wakeup
      /\ recording' = (recording \cup started) \ stopped
      /\ pos' \in NextPos(events', pos)
      /\ m_saveEvents' \in BOOLEAN
  BY <1>1 DEF ScanEvent
<1> HIDE DEF e4
<1>6. GoodEvents(kept, eventID)
  <2>1. GoodEvents(Put(events, pos, e4), eventID)
    BY <1>1, <1>2, <1>3, <1>4, PutGood, SMTT(30)
  <2>2. GoodEvents(Drop(events, pos), eventID)
    BY <1>1, <1>2, DropGood
  <2> QED  BY <2>1, <2>2
<1> HIDE DEF kept, auto
<1>7. GoodEvents(Put(kept, eventID + 1, AutoShutdown(now)), eventID + 1)
  BY <1>1, <1>6, PutGood, AutoShutdownGood, SMTT(30)
<1>8. GoodEvents(events', eventID') /\ eventID' \in Nat
  BY <1>1, <1>5, <1>6, <1>7, SMTT(30)
<1>9. pos' \in DOMAIN events' \cup {0} /\ pos' \in Nat
  <2>1. DOMAIN events' \subseteq Nat
    BY <1>8, SMTT(30) DEF GoodEvents
  <2>2. After(events', pos) \in DOMAIN events' \cup {0}
    BY <2>1, <1>1, AfterInDomain
  <2> QED  BY <2>1, <2>2, <1>5, SMTT(30) DEF NextPos
<1>10. PlainVarsOK'
  BY <1>1, <1>5, <1>8, <1>9 DEF Ind, PlainVarsOK, ScanEvent, TimerOnly, ghostVars
<1>11. GoodConfig' /\ LockHeld'
  BY DEF Ind, GoodConfig, LockHeld, Up, ScanEvent, TimerOnly
<1>12. IteratorsValid'
  BY <1>2, <1>9 DEF IteratorsValid, ScanEvent
<1> QED  BY <1>8, <1>10, <1>11, <1>12 DEF Ind

\* One timer of the file is loaded under a new id.
LEMMA LoadEventStep ==
  ASSUME Ind, LoadEvent
  PROVE  Ind'
<1> DEFINE e == config.events[pos]
           old == [e EXCEPT !.eventState = "HASFINISHED"]
<1>1. eventID \in Nat /\ pos \in Nat /\ pos # 0 /\ pos \in DOMAIN config.events
  BY DEF Ind, PlainVarsOK, IteratorsValid, LoadEvent
<1>2. e \in GoodEvent /\ old \in GoodEvent
  BY <1>1, StateSet DEF Ind, GoodConfig, States
<1>3. GoodEvents(Put(events, eventID + 1, e), eventID + 1)
  BY <1>1, <1>2, PutGood, SMTT(30) DEF Ind
<1>4. GoodEvents(Put(events, eventID + 1, old), eventID + 1)
  BY <1>1, <1>2, PutGood, SMTT(30) DEF Ind
<1>5. /\ \/ events' = events /\ eventID' = eventID
         \/ events' = Put(events, eventID + 1, e) /\ eventID' = eventID + 1
         \/ events' = Put(events, eventID + 1, old) /\ eventID' = eventID + 1
      /\ pos' = After(config.events, pos)
  BY DEF LoadEvent
<1>6. GoodEvents(events', eventID') /\ eventID' \in Nat
  BY <1>1, <1>3, <1>4, <1>5, SMTT(30) DEF Ind
<1>7. pos' \in DOMAIN config.events \cup {0} /\ pos' \in Nat
  BY <1>1, <1>5, AfterInDomain, SMTT(30) DEF Ind, GoodConfig
<1>8. PlainVarsOK'
  BY <1>6, <1>7 DEF Ind, PlainVarsOK, LoadEvent, TimerOnly, ghostVars
<1>9. GoodConfig' /\ LockHeld' /\ IteratorsValid'
  BY <1>7 DEF Ind, GoodConfig, LockHeld, IteratorsValid, Up, LoadEvent, TimerOnly
<1> QED  BY <1>6, <1>8, <1>9 DEF Ind

\* No step that cancels, halts or boots leaves an event without its type.
LEMMA HaltStep ==
  ASSUME Ind, NEW how \in {"off", "unset", "dead"}, Halt(how), fp' \in Int
  PROVE  Ind'
<1> USE DEF Halt
<1>1. NoExtra \in ExtraTimes
  BY DEF NoExtra, ExtraTimes
<1>2. PlainVarsOK'
  BY <1>1 DEF Ind, PlainVarsOK, ghostVars
<1>3. GoodEvents(events', eventID')
  BY DEF GoodEvents, NoEvents
<1>4. GoodConfig' /\ LockHeld' /\ IteratorsValid'
  BY DEF Ind, GoodConfig, LockHeld, IteratorsValid, Up
<1> QED  BY <1>2, <1>3, <1>4 DEF Ind

LEMMA ProgramWakeupStep ==
  ASSUME Ind, ProgramWakeup
  PROVE  Ind'
<1>1. CASE lock # "none" /\ Halt("dead") /\ UNCHANGED fp
  BY <1>1, HaltStep DEF Ind, PlainVarsOK
<1>2. CASE /\ Halt(IF Loaded THEN "off" ELSE "unset")
           /\ \E clock \in ClockReadings,
                next \in {0} \cup {events[i].announceTime : i \in DOMAIN events} :
                fp' = IF next = 0 THEN fp ELSE WakeupTime(next, clock)
  <2>1. PICK clock \in ClockReadings,
             next \in {0} \cup {events[i].announceTime : i \in DOMAIN events} :
               fp' = IF next = 0 THEN fp ELSE WakeupTime(next, clock)
    BY <1>2
  <2>2. now \in Nat /\ fp \in Int
    BY DEF Ind, PlainVarsOK
  <2>3. clock \in Nat
    BY <2>2, SMTT(30) DEF ClockReadings
  <2>4. next \in Int
    BY SMTT(30) DEF Ind, GoodEvents, GoodEvent, Event
  <2>5. fp' \in Int
    BY <2>1, <2>2, <2>3, <2>4, DurationAssumption, SMTT(30) DEF WakeupTime
  <2> QED  BY <1>2, <2>5, HaltStep
<1> QED  BY <1>1, <1>2 DEF ProgramWakeup

LEMMA BootStep ==
  ASSUME Ind, NEW wakeup \in BOOLEAN, Boot(wakeup)
  PROVE  Ind'
<1>1. extra' \in ExtraTimes
  BY InputAssumption, SMTT(30) DEF Ind, GoodConfig, Boot, NoExtra, ExtraTimes
<1>2. PlainVarsOK'
  BY <1>1, SMTT(30) DEF Ind, PlainVarsOK, Boot, ghostVars
<1>3. GoodEvents(events', eventID') /\ GoodConfig'
  BY DEF Ind, Boot, GoodEvents, GoodConfig
<1>4. LockHeld' /\ IteratorsValid'
  BY DEF Ind, LockHeld, IteratorsValid, Up, Boot
<1> QED  BY <1>2, <1>3, <1>4 DEF Ind

\* The steps of the timer thread that touch no event.
LEMMA QuietTimerStep ==
  ASSUME Ind,
         BeginLoad \/ BeginPass \/ LockPass \/ UnlockPass \/ SkipSave
  PROVE  Ind'
<1>1. After(config.events, 0) \in DOMAIN config.events \cup {0}
  BY AfterInDomain DEF Ind, GoodConfig
<1>2. After(events, 0) \in DOMAIN events \cup {0} /\ DOMAIN events \subseteq Nat
  BY AfterInDomain, SMTT(30) DEF Ind, GoodEvents
<1>3. GoodEvents(events', eventID') /\ GoodConfig'
  BY DEF Ind, GoodEvents, GoodConfig, BeginLoad, BeginPass, LockPass, UnlockPass, SkipSave
<1>4. PlainVarsOK'
  <2> USE DEF Ind, PlainVarsOK, TimerOnly, ghostVars
  <2>1. CASE BeginLoad
    BY <1>1, <2>1, SMTT(30) DEF BeginLoad, GoodConfig
  <2>2. CASE BeginPass
    BY <2>2 DEF BeginPass
  <2>3. CASE LockPass
    BY <1>2, <2>3, SMTT(30) DEF LockPass
  <2>4. CASE UnlockPass
    BY <2>4 DEF UnlockPass
  <2>5. CASE SkipSave
    BY <2>5 DEF SkipSave
  <2> QED  BY <2>1, <2>2, <2>3, <2>4, <2>5
<1>5. LockHeld'
  BY DEF Ind, LockHeld, Up, Serving, BeginLoad, BeginPass, LockPass, UnlockPass, SkipSave,
         TimerOnly
<1>6. IteratorsValid'
  BY <1>1, <1>2 DEF Ind, IteratorsValid, BeginLoad, BeginPass, LockPass, UnlockPass,
                    SkipSave
<1> QED  BY <1>3, <1>4, <1>5, <1>6 DEF Ind

\* The steps that write timerd.conf, or die while writing it.
LEMMA SaveStep ==
  ASSUME Ind,
         \/ BeginSave \/ EndSave \/ EndLoad
         \/ BeginShutdownSave \/ EndShutdownSave \/ CancelTimer
  PROVE  Ind'
<1> USE DEF BeginSave, EndSave, EndLoad, BeginShutdownSave, EndShutdownSave, CancelTimer,
            OpenConfig, WriteConfig, TimerOnly, ShutdownOnly, ghostVars
<1>1. NoExtra \in ExtraTimes
  BY DEF NoExtra, ExtraTimes
<1>2. PlainVarsOK'
  BY <1>1 DEF Ind, PlainVarsOK
<1>3. GoodEvents(events', eventID')
  BY DEF Ind, GoodEvents
<1>4. GoodConfig'
  <2>1. \/ config' = config
        \/ config' = [file |-> TRUE, events |-> NoEvents, extra |-> NoExtra]
        \/ config' = [file |-> TRUE, events |-> events, extra |-> image]
    OBVIOUS
  <2>2. image \in ExtraTimes
    BY DEF Ind, PlainVarsOK
  <2>3. CASE config' = config
    BY <2>3 DEF Ind, GoodConfig
  <2>4. CASE config' = [file |-> TRUE, events |-> NoEvents, extra |-> NoExtra]
    BY <1>1, <2>4 DEF GoodConfig, NoEvents
  <2>5. CASE config' = [file |-> TRUE, events |-> events, extra |-> image]
    BY <2>2, <2>5, SMTT(20) DEF Ind, GoodConfig, GoodEvents
  <2> QED  BY <2>1, <2>3, <2>4, <2>5
<1>5. LockHeld'
  BY DEF Ind, PlainVarsOK, LockHeld, Up
<1>6. IteratorsValid'
  BY DEF Ind, IteratorsValid, LockHeld
<1> QED  BY <1>2, <1>3, <1>4, <1>5, <1>6 DEF Ind

\* The other steps: the first of a shutdown, its end without a save, the clock.
LEMMA OtherStep ==
  ASSUME Ind, BeginShutdown \/ SkipShutdownSave \/ Tick
  PROVE  Ind'
<1> USE DEF BeginShutdown, SkipShutdownSave, Tick, ShutdownOnly, ghostVars, timerVars,
            boxVars
<1>1. PlainVarsOK'
  <2>1. CASE BeginShutdown
    BY <2>1 DEF Ind, PlainVarsOK
  <2>2. CASE SkipShutdownSave
    BY <2>2 DEF Ind, PlainVarsOK
  <2>3. CASE Tick
    BY <2>3, SMTT(30) DEF Ind, PlainVarsOK
  <2> QED  BY <2>1, <2>2, <2>3
<1>2. GoodEvents(events', eventID') /\ GoodConfig'
  BY DEF Ind, GoodEvents, GoodConfig
<1>3. LockHeld' /\ IteratorsValid'
  BY DEF Ind, LockHeld, IteratorsValid, Up, Serving
<1> QED  BY <1>1, <1>2, <1>3 DEF Ind

\* Every step of timerd, its clients and the box keeps the invariant.
LEMMA IndStep == Ind /\ [Next]_vars => Ind'
<1> SUFFICES ASSUME Ind, [Next]_vars PROVE Ind'
  OBVIOUS
<1>1. CASE Commands
  <2>1. ASSUME NEW t \in NewTimers, NEW info \in Infos, AddEvent(t, info) PROVE Ind'
    BY <2>1, AddEventStep
  <2>2. ASSUME NEW id \in DOMAIN events, RemoveEvent(id) \/ StopEvent(id) PROVE Ind'
    BY <2>2, EndEventStep DEF RemoveEvent, StopEvent, States
  <2>3. ASSUME NEW id \in DOMAIN events, SetApids(id) PROVE Ind'
    BY <2>3, SetApidsStep
  <2>4. ASSUME NEW id \in DOMAIN events, NEW t \in NewTimers, ModifyEvent(id, t) PROVE Ind'
    BY <2>4, ModifyEventStep
  <2>5. ASSUME NEW id \in DOMAIN events, NEW d \in Deltas, RescheduleEvent(id, d) PROVE Ind'
    BY <2>5, RescheduleEventStep
  <2>6. ASSUME NEW x \in Extras, SetRecordingSafety(x) \/ SetZaptoSafety(x) PROVE Ind'
    <3>1. x \in ExtraTimes /\ extra \in ExtraTimes
      BY InputAssumption DEF Ind, PlainVarsOK
    <3>2. /\ [extra EXCEPT !.pre = x.pre, !.post = x.post] \in ExtraTimes
          /\ [extra EXCEPT !.zap = x.zap] \in ExtraTimes
      BY <3>1 DEF ExtraTimes
    <3> QED  BY <2>6, <3>2, SetExtraStep DEF SetRecordingSafety, SetZaptoSafety
  <2> QED  BY <1>1, <2>1, <2>2, <2>3, <2>4, <2>5, <2>6 DEF Commands
<1>2. CASE BeginLoad \/ TimerThread
  BY <1>2, LoadEventStep, ScanEventStep, QuietTimerStep, SaveStep DEF TimerThread
<1>3. CASE Shutdown
  BY <1>3, SaveStep, OtherStep, ProgramWakeupStep DEF Shutdown
<1>4. CASE BeginShutdown \/ Tick
  BY <1>4, OtherStep
<1>5. CASE Box
  <2>1. PowerLoss => Ind'
    BY HaltStep DEF PowerLoss, Ind, PlainVarsOK
  <2> QED  BY <1>5, <2>1, BootStep DEF Box, UserBoot, TimerBoot
<1>6. CASE UNCHANGED vars
  <2>1. PlainVarsOK'
    BY <1>6, SMTT(30) DEF Ind, vars, PlainVarsOK
  <2>2. GoodEvents(events', eventID') /\ GoodConfig'
    BY <1>6 DEF Ind, vars, GoodEvents, GoodConfig
  <2>3. LockHeld' /\ IteratorsValid'
    BY <1>6 DEF Ind, vars, LockHeld, IteratorsValid, Up
  <2> QED  BY <2>1, <2>2, <2>3 DEF Ind
<1> QED  BY <1>1, <1>2, <1>3, <1>4, <1>5, <1>6 DEF Next

LEMMA IndInit == Init => Ind
<1> SUFFICES ASSUME Init PROVE Ind
  OBVIOUS
<1>1. NoExtra \in ExtraTimes
  BY DEF NoExtra, ExtraTimes
<1>2. PlainVarsOK
  <2>1. cmds \in 0..MaxCmds /\ eventID \in Nat /\ pos \in Nat /\ tnow \in Nat /\ now \in Nat
        /\ fp \in Int
    BY DurationAssumption, SMTT(30) DEF Init
  <2>2. recording \subseteq Nat /\ unused \subseteq Infos
        /\ ended \subseteq (Infos \cup {NoInfo}) \X States
    BY DEF Init
  <2> QED  BY <1>1, <2>1, <2>2 DEF Init, PlainVarsOK
<1>3. GoodEvents(events, eventID)
  BY DEF Init, GoodEvents, NoEvents
<1>4. GoodConfig
  <2>1. /\ config.file \in BOOLEAN /\ config.events = NoEvents /\ config.extra = NoExtra
    BY DEF Init
  <2>2. DOMAIN NoEvents = {}
    BY DEF NoEvents
  <2> QED  BY <1>1, <2>1, <2>2 DEF GoodConfig
<1>5. LockHeld /\ IteratorsValid
  BY DEF Init, LockHeld, IteratorsValid, Up
<1> QED  BY <1>2, <1>3, <1>4, <1>5 DEF Ind

\* Ids, the mutex and the iterators of the timer thread stay consistent, and
\* every recording keeps its end, in memory and on file, whatever the clients,
\* the power and the scheduler do.
THEOREM TimerInvariant == Spec => []TimerInv
<1>1. Spec => []Ind
  BY IndInit, IndStep, PTL DEF Spec
<1> QED  BY <1>1, IndIsTimerInv, PTL

\* The variables of the manager, its file and the box always have their types.
THEOREM TypeCorrect == Spec => []TypeOK
<1>1. TimerInv => TypeOK
  BY DEF TimerInv
<1> QED  BY <1>1, TimerInvariant, PTL

-----------------------------------------------------------------------------
(* Running recordings *)

Running(e) == e.eventType = "RECORD" /\ e.eventState = "ISRUNNING" /\ e.stopTime > 0

LEMMA OwnedAdd ==
  ASSUME Ind, RecordingOwned, NEW t \in NewTimers, NEW info \in Infos, AddEvent(t, info)
  PROVE  RecordingOwned'
<1>1. eventID \in Nat /\ GoodEvents(events, eventID) /\ extra \in ExtraTimes
  BY DEF Ind, PlainVarsOK
<1>2. ASSUME t.eventType = "IMMEDIATE_RECORD"
      PROVE  Running(NewEvent(t, info))
  <2>1. NewEvent(t, info) \in GoodEvent
    BY <1>1, NewEventGood
  <2>2. NewEvent(t, info).eventType = "RECORD" /\ NewEvent(t, info).eventState = "ISRUNNING"
    BY <1>2 DEF NewEvent
  <2> QED  BY <2>1, <2>2 DEF Running, GoodEvent
<1>3. events' = Put(events, eventID + 1, NewEvent(t, info))
  BY DEF AddEvent
<1>4. recording' = IF t.eventType = "IMMEDIATE_RECORD"
                   THEN recording \cup {eventID + 1} ELSE recording
  BY DEF AddEvent
<1>5. /\ eventID + 1 \in DOMAIN events' /\ events'[eventID + 1] = NewEvent(t, info)
      /\ \A i \in DOMAIN events : i \in DOMAIN events' /\ events'[i] = events[i]
  BY <1>1, <1>3, SMTT(30) DEF Put, GoodEvents
<1> QED  BY <1>2, <1>4, <1>5 DEF RecordingOwned, Running

\* removeEvent and stopEvent stop what they end: afterwards the clients do not
\* have it running.
LEMMA OwnedEnd ==
  ASSUME Ind, RecordingOwned, NEW id \in DOMAIN events, NEW state \in States,
         EndEvent(id, state)
  PROVE  RecordingOwned'
<1> DEFINE marked == [events EXCEPT ![id].eventState = state]
           stops == /\ events[id].eventState = "ISRUNNING"
                    /\ events[id].stopTime > 0
                    /\ events[id].eventType = "RECORD"
<1>1. eventID \in Nat /\ GoodEvents(events, eventID) /\ now \in Nat
  BY DEF Ind, PlainVarsOK
<1>2. id \in recording => stops
  BY DEF RecordingOwned
<1>3. PICK clock \in ClockReadings :
        LET auto == stops /\ ShutdownWanted(events, id, clock, timer_wakeup)
        IN  /\ recording' = IF stops THEN recording \ {id} ELSE recording
            /\ events' = IF auto THEN Put(marked, eventID + 1, AutoShutdown(clock))
                         ELSE marked
  BY DEF EndEvent
<1>4. \A i \in recording' : i \in recording /\ i # id
  BY <1>2, <1>3
<1>5. DOMAIN marked = DOMAIN events /\ \A i \in DOMAIN events \ {id} : marked[i] = events[i]
  OBVIOUS
<1>6. \A i \in DOMAIN events : i \in 1..eventID
  BY <1>1 DEF GoodEvents
<1>7. \A i \in DOMAIN events \ {id} : i \in DOMAIN events' /\ events'[i] = events[i]
  <2> HIDE DEF marked
  <2> QED  BY <1>1, <1>3, <1>5, <1>6, SMTT(30) DEF Put
<1> QED  BY <1>4, <1>7 DEF RecordingOwned

LEMMA OwnedModify ==
  ASSUME Ind, RecordingOwned, NEW id \in DOMAIN events, NEW t \in NewTimers,
         ModifyEvent(id, t)
  PROVE  RecordingOwned'
<1>1. events[id] \in GoodEvent
  BY DEF Ind, GoodEvents
<1>2. Modified(events[id], t) \in GoodEvent
  BY <1>1, ModifiedGood DEF ModifyEvent
<1>3. Running(events[id]) => Running(Modified(events[id], t))
  BY <1>2 DEF Running, Modified, GoodEvent
<1>4. events' = [events EXCEPT ![id] = Modified(events[id], t)] /\ recording' = recording
  BY DEF ModifyEvent
<1> QED  BY <1>3, <1>4 DEF RecordingOwned, Running

LEMMA OwnedLoad ==
  ASSUME Ind, RecordingOwned, LoadEvent
  PROVE  RecordingOwned'
<1>1. eventID \in Nat /\ GoodEvents(events, eventID)
  BY DEF Ind, PlainVarsOK
<1>2. recording' = recording
  BY DEF LoadEvent
<1>3. events' = events \/ \E e : events' = Put(events, eventID + 1, e)
  BY DEF LoadEvent
<1>4. \A i \in DOMAIN events : i \in DOMAIN events' /\ events'[i] = events[i]
  <2>1. ASSUME NEW e, events' = Put(events, eventID + 1, e)
        PROVE  \A i \in DOMAIN events : i \in DOMAIN events' /\ events'[i] = events[i]
    BY <1>1, <2>1, SMTT(30) DEF Put, GoodEvents
  <2> QED  BY <1>3, <2>1
<1> QED  BY <1>2, <1>4 DEF RecordingOwned

\* The pass adds a recording that it fires and that then runs, and takes out
\* one that it stops.
LEMMA OwnedScan ==
  ASSUME Ind, RecordingOwned, ScanEvent
  PROVE  RecordingOwned'
<1> DEFINE e == events[pos]
           e1 == Announced(e)
           e2 == Fired(e1)
           e4 == Finished(Stopped(e2))
           record == e.eventType = "RECORD"
           kept == IF e4.eventState = "TERMINATED" THEN Drop(events, pos)
                   ELSE Put(events, pos, e4)
<1>1. eventID \in Nat /\ now \in Nat /\ tnow \in Nat /\ GoodEvents(events, eventID)
  BY DEF Ind, PlainVarsOK
<1>2. pos \in DOMAIN events /\ e \in GoodEvent
  BY <1>1 DEF Ind, IteratorsValid, ScanEvent, GoodEvents
<1>3. /\ e4 \in GoodEvent /\ e4.eventType = e.eventType
      /\ record /\ (e.eventState = "ISRUNNING" \/ Fires(e1)) /\ ~Stops(e2)
           => e4.eventState = "ISRUNNING"
  BY <1>1, <1>2, PassedEvent
<1>4. /\ \/ events' = kept
         \/ events' = Put(kept, eventID + 1, AutoShutdown(now))
      /\ recording' = (recording \cup (IF Fires(e1) /\ record THEN {pos} ELSE {}))
                        \ (IF Stops(e2) /\ record THEN {pos} ELSE {})
  BY DEF ScanEvent
<1>5. pos \in recording => record /\ e.eventState = "ISRUNNING"
  BY DEF RecordingOwned
<1> HIDE DEF e1, e2, e4
<1>6. pos \in recording' => Running(e4)
  <2>1. pos \in recording' => /\ pos \in recording \/ (Fires(e1) /\ record)
                              /\ ~(Stops(e2) /\ record)
    BY <1>4
  <2> QED  BY <1>3, <1>5, <2>1 DEF Running, GoodEvent
<1>7. \A i \in recording' : i # pos => i \in recording
  BY <1>4
<1>8. \A i \in recording' : i \in DOMAIN kept /\ Running(kept[i])
  <2> SUFFICES ASSUME NEW i \in recording' PROVE i \in DOMAIN kept /\ Running(kept[i])
    OBVIOUS
  <2>1. CASE i = pos
    BY <1>6, <2>1 DEF Running, Put
  <2>2. CASE i # pos
    BY <1>7, <2>2 DEF RecordingOwned, Running, Put, Drop
  <2> QED  BY <2>1, <2>2
<1>9. GoodEvents(kept, eventID)
  <2>1. GoodEvents(Put(events, pos, e4), eventID)
    BY <1>1, <1>2, <1>3, PutGood, SMTT(30) DEF GoodEvents
  <2>2. GoodEvents(Drop(events, pos), eventID)
    BY <1>1, DropGood
  <2> QED  BY <2>1, <2>2
<1> HIDE DEF kept
<1>10. \A i \in DOMAIN kept : i \in DOMAIN events' /\ events'[i] = kept[i]
  BY <1>1, <1>4, <1>9, SMTT(30) DEF Put, GoodEvents
<1> QED  BY <1>8, <1>10 DEF RecordingOwned, Running

LEMMA OwnedStep ==
  ASSUME Deltas = {}, Ind, RecordingOwned, [Next]_vars
  PROVE  RecordingOwned'
<1>1. CASE Commands
  <2>1. ASSUME NEW t \in NewTimers, NEW info \in Infos, AddEvent(t, info)
        PROVE  RecordingOwned'
    BY <2>1, OwnedAdd
  <2>2. ASSUME NEW id \in DOMAIN events, RemoveEvent(id) \/ StopEvent(id)
        PROVE  RecordingOwned'
    BY <2>2, OwnedEnd DEF RemoveEvent, StopEvent, States
  <2>3. ASSUME NEW id \in DOMAIN events, SetApids(id) PROVE RecordingOwned'
    BY <2>3 DEF SetApids, RecordingOwned
  <2>4. ASSUME NEW id \in DOMAIN events, NEW t \in NewTimers, ModifyEvent(id, t)
        PROVE  RecordingOwned'
    BY <2>4, OwnedModify
  <2>5. ASSUME NEW x \in Extras, SetRecordingSafety(x) \/ SetZaptoSafety(x)
        PROVE  RecordingOwned'
    BY <2>5 DEF SetRecordingSafety, SetZaptoSafety, SetExtra, RecordingOwned
  <2> QED  BY <1>1, <2>1, <2>2, <2>3, <2>4, <2>5 DEF Commands
<1>2. CASE LoadEvent
  BY <1>2, OwnedLoad
<1>3. CASE ScanEvent
  BY <1>3, OwnedScan
<1>4. CASE ProgramWakeup \/ PowerLoss
  BY <1>4 DEF ProgramWakeup, PowerLoss, Halt, RecordingOwned
<1>5. CASE events' = events /\ recording' = recording
  BY <1>5 DEF RecordingOwned
<1>6. CASE BeginLoad \/ EndLoad \/ BeginPass \/ LockPass \/ UnlockPass \/ SkipSave
           \/ BeginSave \/ EndSave
  BY <1>5, <1>6 DEF BeginLoad, EndLoad, BeginPass, LockPass, UnlockPass, SkipSave, BeginSave,
                    EndSave
<1>7. CASE BeginShutdown \/ CancelTimer \/ BeginShutdownSave \/ EndShutdownSave
           \/ SkipShutdownSave
  BY <1>5, <1>7 DEF BeginShutdown, CancelTimer, BeginShutdownSave, EndShutdownSave,
                    SkipShutdownSave, ShutdownOnly
<1>8. CASE UserBoot \/ TimerBoot \/ Tick \/ UNCHANGED vars
  BY <1>5, <1>8 DEF UserBoot, TimerBoot, Boot, Tick, vars
<1> QED
  BY <1>1, <1>2, <1>3, <1>4, <1>6, <1>7, <1>8 DEF Next, TimerThread, Shutdown, Box

\* For every set of clients that do not send CMD_RESCHEDULETIMER: whatever the
\* clients have running belongs to a timer in the list that is running and
\* will be stopped.
THEOREM RecordingsOwned ==
  ASSUME Deltas = {}
  PROVE  Spec => []RecordingOwned
<1>1. Init => RecordingOwned
  BY DEF Init, RecordingOwned
<1>2. Ind /\ RecordingOwned /\ [Next]_vars => RecordingOwned'
  BY OwnedStep
<1> QED
  BY <1>1, <1>2, IndInit, IndStep, PTL DEF Spec

-----------------------------------------------------------------------------
(* Single timers *)

NoneGoesBack == \A i \in DOMAIN events \cap DOMAIN events' : ~GoesBack(events[i], events'[i])

\* Only the end of an event, a change of it and the pass touch the state of an
\* event that is in the list before and after.
LEMMA OnceStep ==
  ASSUME Deltas = {}, Ind, Next
  PROVE  NoneGoesBack
<1>1. /\ eventID \in Nat /\ now \in Nat /\ tnow \in Nat
      /\ GoodEvents(events, eventID)
  BY DEF Ind, PlainVarsOK
<1>2. ASSUME events' = events PROVE NoneGoesBack
  BY <1>2 DEF NoneGoesBack, GoesBack
<1>3. ASSUME NEW e, events' = Put(events, eventID + 1, e) PROVE NoneGoesBack
  BY <1>1, <1>3, SMTT(30) DEF NoneGoesBack, GoesBack, Put, GoodEvents
<1>4. CASE Commands
  <2>1. ASSUME NEW t \in NewTimers, NEW info \in Infos, AddEvent(t, info)
        PROVE  NoneGoesBack
    BY <1>3, <2>1 DEF AddEvent
  <2>2. ASSUME NEW id \in DOMAIN events, NEW state \in {"TERMINATED", "HASFINISHED"},
               EndEvent(id, state)
        PROVE  NoneGoesBack
    <3> DEFINE marked == [events EXCEPT ![id].eventState = state]
    <3>1. \/ events' = marked
          \/ \E clock : events' = Put(marked, eventID + 1, AutoShutdown(clock))
      BY <2>2 DEF EndEvent
    <3>2. events[id] \in GoodEvent
      BY <1>1 DEF GoodEvents
    <3>3. [events[id] EXCEPT !.eventState = state].eventState = state
      BY <3>2 DEF GoodEvent, Event
    <3>4. /\ DOMAIN marked = DOMAIN events
          /\ marked[id].eventState = state
          /\ \A i \in DOMAIN events : i # id => marked[i] = events[i]
      BY <3>3
    <3>5. \A i \in DOMAIN events : ~GoesBack(events[i], marked[i])
      BY <3>4 DEF GoesBack
    <3> HIDE DEF marked
    <3>6. \A i \in DOMAIN events \cap DOMAIN events' : events'[i] = marked[i]
      BY <1>1, <3>1, <3>4, SMTT(30) DEF Put, GoodEvents
    <3> QED  BY <3>5, <3>6 DEF NoneGoesBack
  <2>3. ASSUME NEW id \in DOMAIN events, NEW t \in NewTimers, ModifyEvent(id, t)
        PROVE  NoneGoesBack
    <3>1. ~GoesBack(events[id], Modified(events[id], t))
      BY DEF GoesBack, Modified
    <3>2. \A i \in DOMAIN events : i # id => ~GoesBack(events[i], events[i])
      BY DEF GoesBack
    <3>3. events' = [events EXCEPT ![id] = Modified(events[id], t)]
      BY <2>3 DEF ModifyEvent
    <3> QED  BY <3>1, <3>2, <3>3 DEF NoneGoesBack
  <2>4. ASSUME NEW id \in DOMAIN events, SetApids(id) PROVE NoneGoesBack
    BY <1>2, <2>4 DEF SetApids
  <2>5. ASSUME NEW x \in Extras, SetRecordingSafety(x) \/ SetZaptoSafety(x)
        PROVE  NoneGoesBack
    BY <1>2, <2>5 DEF SetRecordingSafety, SetZaptoSafety, SetExtra
  <2> QED
    BY <1>4, <2>1, <2>2, <2>3, <2>4, <2>5 DEF Commands, RemoveEvent, StopEvent
<1>5. CASE LoadEvent
  <2>1. events' = events \/ \E e : events' = Put(events, eventID + 1, e)
    BY <1>5 DEF LoadEvent
  <2> QED  BY <1>2, <1>3, <2>1
<1>6. CASE ScanEvent
  <2> DEFINE e4 == Finished(Stopped(Fired(Announced(events[pos]))))
             kept == IF e4.eventState = "TERMINATED" THEN Drop(events, pos)
                     ELSE Put(events, pos, e4)
  <2>1. pos \in DOMAIN events /\ events[pos] \in GoodEvent
    BY <1>1, <1>6 DEF Ind, IteratorsValid, ScanEvent, GoodEvents
  <2>2. ~GoesBack(events[pos], e4)
    BY <1>1, <2>1, PassedEvent DEF GoesBack
  <2>3. events' = kept \/ events' = Put(kept, eventID + 1, AutoShutdown(now))
    BY <1>6 DEF ScanEvent
  <2> HIDE DEF e4
  <2>4. /\ DOMAIN kept \subseteq DOMAIN events
        /\ \A i \in DOMAIN kept : kept[i] = IF i = pos THEN e4 ELSE events[i]
    BY <2>1 DEF Put, Drop
  <2>5. \A i \in DOMAIN events \cap DOMAIN events' : i \in DOMAIN kept /\ events'[i] = kept[i]
    <3> HIDE DEF kept
    <3> QED  BY <1>1, <2>3, <2>4, SMTT(30) DEF Put, GoodEvents
  <2>6. \A i \in DOMAIN events : ~GoesBack(events[i], events[i])
    BY DEF GoesBack
  <2> HIDE DEF kept
  <2> QED  BY <2>2, <2>4, <2>5, <2>6 DEF NoneGoesBack
<1>7. CASE ProgramWakeup \/ PowerLoss
  BY <1>7 DEF ProgramWakeup, PowerLoss, Halt, NoEvents, NoneGoesBack
<1>8. CASE BeginLoad \/ EndLoad \/ BeginPass \/ LockPass \/ UnlockPass \/ SkipSave
           \/ BeginSave \/ EndSave
  BY <1>2, <1>8 DEF BeginLoad, EndLoad, BeginPass, LockPass, UnlockPass, SkipSave, BeginSave,
                    EndSave
<1>9. CASE BeginShutdown \/ CancelTimer \/ BeginShutdownSave \/ EndShutdownSave
           \/ SkipShutdownSave
  BY <1>2, <1>9 DEF BeginShutdown, CancelTimer, BeginShutdownSave, EndShutdownSave,
                    SkipShutdownSave, ShutdownOnly
<1>10. CASE UserBoot \/ TimerBoot \/ Tick
  BY <1>2, <1>10 DEF UserBoot, TimerBoot, Boot, Tick
<1> QED
  BY <1>4, <1>5, <1>6, <1>7, <1>8, <1>9, <1>10 DEF Next, TimerThread, Shutdown, Box

\* For the same clients: a timer that is to run once does not wait again after
\* it has run or was ended, so neither a pass nor a command makes it run twice.
THEOREM SingleTimersRunOnce ==
  ASSUME Deltas = {}
  PROVE  Spec => OnceRunsOnce
<1>1. Ind /\ [Next]_vars => [NoneGoesBack]_vars
  BY OnceStep
<1> QED
  BY <1>1, IndInit, IndStep, PTL DEF Spec, OnceRunsOnce, NoneGoesBack

-----------------------------------------------------------------------------
(* What timerd.conf holds *)

\* Event f in memory is c in the file, or a command has ended it since.
SameEvent(f, c) ==
  \/ f = c
  \/ /\ f.eventState \in {"HASFINISHED", "TERMINATED"}
     /\ <<f.info, f.eventState>> \in ended
     /\ f = [c EXCEPT !.eventState = f.eventState]

Current ==
  /\ DOMAIN config.events = DOMAIN events
  /\ \A i \in DOMAIN events : SameEvent(events[i], config.events[i])

\* Nothing waits to be saved and nothing is being saved.
Saved ==
  /\ Up
  /\ Loaded
  /\ ~m_saveEvents
  /\ pc \notin {"write", "loadwrite"}
  /\ mpc # "write"

\* The inductive invariant behind ConfigCurrent: the file is current during a
\* pass too, when the timer thread holds the mutex, because whatever a pass
\* changes sets m_saveEvents at once; a box that was just switched on has
\* loaded nothing; and the save of a shutdown holds the mutex.
ConfigInd ==
  /\ ~Up => ~m_isTimeSet
  /\ mpc = "write" => lock = "main"
  /\ Saved => Current

LEMMA ConfigIndCurrent ==
  ASSUME Ind, ConfigInd
  PROVE  ConfigCurrent
<1>1. lock = "none" => pc \notin {"write", "loadwrite"} /\ mpc # "write"
  BY DEF Ind, LockHeld, ConfigInd
<1> QED  BY <1>1 DEF ConfigInd, Saved, Current, SameEvent, ConfigCurrent

LEMMA CurrentKept ==
  ASSUME Current, UNCHANGED <<events, config, ended>>
  PROVE  Current'
BY DEF Current, SameEvent

\* Ending an event twice leaves what ending it once with the last state does.
LEMMA EndedSame ==
  ASSUME NEW c \in Event, NEW f \in Event, NEW st \in {"HASFINISHED", "TERMINATED"},
         f = c \/ f = [c EXCEPT !.eventState = f.eventState]
  PROVE  LET g == [f EXCEPT !.eventState = st]
         IN  g = [c EXCEPT !.eventState = st] /\ g.eventState = st /\ g.info = f.info
BY DEF Event

\* removeEvent and stopEvent set a state without m_saveEvents: the one
\* difference to the file that ConfigCurrent allows.
LEMMA ConfigEnd ==
  ASSUME Ind, Current, NEW id \in DOMAIN events,
         NEW state \in {"HASFINISHED", "TERMINATED"}, EndEvent(id, state), ~m_saveEvents'
  PROVE  Current'
<1> DEFINE g == [events[id] EXCEPT !.eventState = state]
<1>1. /\ events' = [events EXCEPT ![id].eventState = state]
      /\ config' = config
      /\ ended' = ended \cup {<<events[id].info, state>>}
  BY DEF EndEvent, Command, boxVars
<1>2. /\ DOMAIN events' = DOMAIN events
      /\ events'[id] = g
      /\ \A i \in DOMAIN events \ {id} : events'[i] = events[i]
  BY <1>1
<1>3. events[id] \in Event /\ config.events[id] \in Event
  BY DEF Ind, GoodEvents, GoodConfig, GoodEvent, Current
<1>4. /\ g = [config.events[id] EXCEPT !.eventState = state]
      /\ g.eventState = state
      /\ g.info = events[id].info
  <2> DEFINE f == events[id]
             c == config.events[id]
  <2>1. f = c \/ f = [c EXCEPT !.eventState = f.eventState]
    BY DEF Current, SameEvent
  <2>2. f \in Event /\ c \in Event
    BY <1>3
  <2> HIDE DEF f, c
  <2>3. LET h == [f EXCEPT !.eventState = state]
        IN  h = [c EXCEPT !.eventState = state] /\ h.eventState = state /\ h.info = f.info
    BY <2>1, <2>2, EndedSame, SMTT(30)
  <2> QED  BY <2>3 DEF f, c
<1> HIDE DEF g
<1>5. SameEvent(events[id], config.events[id])'
  <2>1. g = [config.events[id] EXCEPT !.eventState = g.eventState]
    BY <1>4
  <2>2. <<g.info, g.eventState>> \in ended'
    BY <1>1, <1>4, SMTT(30)
  <2>3. events'[id] = g /\ config'.events[id] = config.events[id]
    BY <1>1, <1>2
  <2> QED  BY <1>4, <2>1, <2>2, <2>3 DEF SameEvent
<1>6. \A i \in DOMAIN events \ {id} : SameEvent(events[i], config.events[i])'
  BY <1>1, <1>2 DEF Current, SameEvent
<1> QED  BY <1>1, <1>2, <1>5, <1>6 DEF Current

\* A pass that does not set m_saveEvents has left the event as it was.
LEMMA ConfigScan ==
  ASSUME Ind, Current, ScanEvent, ~m_saveEvents'
  PROVE  Current'
<1> DEFINE e == events[pos]
<1>1. pos \in DOMAIN events
  BY DEF Ind, IteratorsValid, ScanEvent
<1>2. /\ ~Announces(e)
      /\ ~Fires(Announced(e))
      /\ ~Stops(Fired(Announced(e)))
      /\ Stopped(Fired(Announced(e))).eventState \notin {"HASFINISHED", "TERMINATED"}
  BY DEF ScanEvent
<1>3. Announced(e) = e /\ Fired(e) = e /\ Stopped(e) = e
  BY <1>2 DEF Announced, Fired, Stopped
<1>4. Finished(e) = e /\ e.eventState # "TERMINATED"
  BY <1>2, <1>3 DEF Finished
<1>5. events' = Put(events, pos, e)
  BY <1>2, <1>3, <1>4 DEF ScanEvent
<1>6. DOMAIN events' = DOMAIN events /\ \A i \in DOMAIN events : events'[i] = events[i]
  BY <1>1, <1>5 DEF Put
<1>7. config' = config /\ ended' = ended
  BY DEF ScanEvent, TimerOnly, ghostVars
<1> QED  BY <1>6, <1>7 DEF Current, SameEvent

\* A save writes the events it has in memory.
LEMMA ConfigWritten ==
  ASSUME config'.events = events, events' = events
  PROVE  Current'
BY DEF Current, SameEvent

LEMMA ConfigStep ==
  ASSUME Ind, ConfigInd, [Next]_vars
  PROVE  ConfigInd'
<1>1. CASE Commands
  <2>1. ASSUME NEW t \in NewTimers, NEW info \in Infos, AddEvent(t, info)
        PROVE  ConfigInd'
    BY <2>1 DEF AddEvent, Command, ConfigInd, Serving, Up, Saved
  <2>2. ASSUME NEW id \in DOMAIN events, RemoveEvent(id) \/ StopEvent(id)
        PROVE  ConfigInd'
    <3>1. PICK state \in {"HASFINISHED", "TERMINATED"} : EndEvent(id, state)
      BY <2>2 DEF RemoveEvent, StopEvent
    <3>2. ~m_saveEvents' => ~m_saveEvents
      BY <3>1 DEF EndEvent
    <3>3. UNCHANGED <<m_isTimeSet, lock, pc, mpc>>
      BY <3>1 DEF EndEvent, Command, timerVars
    <3>4. Saved' => Saved
      BY <3>2, <3>3 DEF Saved, Up, Loaded
    <3>5. Saved' => Current'
      BY <3>1, <3>4, ConfigEnd DEF ConfigInd, Saved
    <3> QED  BY <3>3, <3>5 DEF ConfigInd, Up
  <2>3. ASSUME NEW id \in DOMAIN events,
               \/ SetApids(id)
               \/ \E t \in NewTimers : ModifyEvent(id, t)
               \/ \E d \in Deltas : RescheduleEvent(id, d)
        PROVE  ConfigInd'
    BY <2>3 DEF SetApids, ModifyEvent, RescheduleEvent, Command, ConfigInd, Serving, Up, Saved
  <2>4. ASSUME NEW x \in Extras, SetRecordingSafety(x) \/ SetZaptoSafety(x)
        PROVE  ConfigInd'
    BY <2>4 DEF SetRecordingSafety, SetZaptoSafety, SetExtra, ConfigInd, Serving, Up, Saved
  <2> QED  BY <1>1, <2>1, <2>2, <2>3, <2>4 DEF Commands
<1>2. CASE BeginLoad \/ LoadEvent
  BY <1>2 DEF BeginLoad, LoadEvent, TimerOnly, Ind, LockHeld, ConfigInd, Serving, Up, Saved,
              Loaded
<1>3. CASE ScanEvent
  <2>1. UNCHANGED <<m_isTimeSet, lock, pc, mpc>> /\ (~m_saveEvents' => ~m_saveEvents)
    BY <1>3 DEF ScanEvent, TimerOnly
  <2>2. Saved' => Saved
    BY <2>1 DEF Saved, Up, Loaded
  <2>3. Saved' => Current'
    BY <1>3, <2>2, ConfigScan DEF ConfigInd, Saved
  <2> QED  BY <2>1, <2>3 DEF ConfigInd, Up
<1>4. CASE BeginPass \/ LockPass \/ UnlockPass \/ SkipSave
  <2>1. /\ UNCHANGED <<m_isTimeSet, m_saveEvents, mpc, events, config, ended>>
        /\ pc \in {"wait", "pass", "scan", "save"}
        /\ pc' \in {"wait", "pass", "scan", "save"}
    BY <1>4 DEF BeginPass, LockPass, UnlockPass, SkipSave, TimerOnly, ghostVars
  <2>2. mpc' # "write"
    BY <2>1 DEF Ind, LockHeld
  <2>3. Saved' => Saved
    BY <2>1 DEF Saved, Up, Loaded
  <2> QED  BY <2>1, <2>2, <2>3, CurrentKept DEF ConfigInd, Up
<1>5. CASE BeginSave
  BY <1>5 DEF BeginSave, TimerOnly, Ind, LockHeld, ConfigInd, Up, Saved
<1>6. CASE EndSave \/ EndLoad \/ EndShutdownSave
  <2>1. config'.events = events /\ events' = events
    BY <1>6, SMTT(30) DEF EndSave, EndLoad, EndShutdownSave, WriteConfig, ShutdownOnly
  <2>2. m_isTimeSet' = m_isTimeSet /\ Up /\ Up' /\ mpc' # "write"
    BY <1>6 DEF EndSave, EndLoad, EndShutdownSave, ShutdownOnly, TimerOnly, Ind, LockHeld, Up
  <2> QED  BY <2>1, <2>2, ConfigWritten DEF ConfigInd
<1>7. CASE BeginShutdown \/ SkipShutdownSave
  <2>1. /\ UNCHANGED <<m_isTimeSet, m_saveEvents, pc, events, config, ended>>
        /\ mpc \in {"run", "join"} /\ mpc' \in {"join", "program"}
    BY <1>7 DEF BeginShutdown, SkipShutdownSave, ShutdownOnly, ghostVars, Serving
  <2>2. Saved' => Saved
    BY <2>1 DEF Saved, Up, Loaded
  <2> QED  BY <2>1, <2>2, CurrentKept DEF ConfigInd, Up
<1>8. CASE CancelTimer
  <2>1. /\ UNCHANGED <<m_isTimeSet, m_saveEvents, mpc, events, ended>>
        /\ mpc = "join"
        /\ pc' = "lost" \/ (pc = "wait" /\ pc' = "gone" /\ config' = config)
    BY <1>8 DEF CancelTimer, ShutdownOnly, ghostVars
  <2>2. Saved' => Saved /\ config' = config
    BY <2>1 DEF Saved, Up, Loaded
  <2> QED  BY <2>1, <2>2, CurrentKept DEF ConfigInd, Up
<1>9. CASE BeginShutdownSave
  BY <1>9 DEF BeginShutdownSave, OpenConfig, ShutdownOnly, ConfigInd, Up, Saved
<1>10. CASE ProgramWakeup \/ PowerLoss
  <2>1. m_isTimeSet' = FALSE /\ mpc' # "write"
    BY <1>10 DEF ProgramWakeup, PowerLoss, Halt
  <2> QED  BY <2>1 DEF ConfigInd, Saved, Loaded
<1>11. CASE UserBoot \/ TimerBoot
  <2>1. m_isTimeSet' = FALSE /\ mpc' = "run"
    BY <1>11 DEF UserBoot, TimerBoot, Boot, ConfigInd, Ind, PlainVarsOK
  <2> QED  BY <2>1 DEF ConfigInd, Saved, Loaded
<1>12. CASE Tick \/ UNCHANGED vars
  <2>1. UNCHANGED <<m_isTimeSet, m_saveEvents, lock, pc, mpc, events, config, ended>>
    BY <1>12 DEF Tick, vars, timerVars, boxVars, ghostVars
  <2>2. Saved' => Saved
    BY <2>1 DEF Saved, Up, Loaded
  <2> QED  BY <2>1, <2>2, CurrentKept DEF ConfigInd, Up
<1> QED
  BY <1>1, <1>2, <1>3, <1>4, <1>5, <1>6, <1>7, <1>8, <1>9, <1>10, <1>11, <1>12
     DEF Next, TimerThread, Shutdown, Box

\* For every set of clients: whenever m_saveEvents is clear and the mutex is
\* free, timerd.conf holds exactly the timers in memory, apart from those a
\* command has ended; no interleaving of commands, passes, saves, shutdowns
\* and power losses loses a change.
THEOREM ConfigStaysCurrent == Spec => []ConfigCurrent
<1>1. Init => ConfigInd
  BY DEF Init, ConfigInd, Saved, Up
<1>2. Ind /\ ConfigInd /\ [Next]_vars => ConfigInd'
  BY ConfigStep
<1>3. Ind /\ ConfigInd => ConfigCurrent
  BY ConfigIndCurrent
<1> QED
  BY <1>1, <1>2, <1>3, IndInit, IndStep, PTL DEF Spec
=============================================================================
