--------------------------- MODULE MCTimerManager ---------------------------
(* Instances of TimerManager for TLC. *)
EXTENDS TimerClaims

MCPeriod == [r \in {"DAILY"} |-> 2]

Timer(type, announce, alarm, stop, repeat, count, safety) ==
  [eventType |-> type, announceTime |-> announce, alarmTime |-> alarm,
   stopTime |-> stop, eventRepeat |-> repeat, repeatCount |-> count,
   safety |-> safety]

\* A single recording, a daily one that overlaps it, and one that a client has
\* already started.
MCRecordings ==
  {Timer("RECORD", 3, 4, 4, "ONCE", 0, TRUE), Timer("RECORD", 2, 3, 4, "DAILY", 2, FALSE),
   Timer("IMMEDIATE_RECORD", 0, 1, 3, "ONCE", 0, FALSE)}

\* One recording, or one that a client has already started.
MCImmediate ==
  {Timer("RECORD", 3, 4, 5, "ONCE", 0, FALSE),
   Timer("IMMEDIATE_RECORD", 0, 1, 6, "ONCE", 0, FALSE)}

\* A zap without a weekday and a reminder that repeats.
MCKinds ==
  {Timer("ZAPTO", 2, 3, 0, "WEEKDAYS", 0, TRUE), Timer("REMIND", 0, 3, 0, "DAILY", 0, FALSE)}

MCAll == MCKinds \cup MCRecordings

\* The same without the single recording, for a run that is long otherwise.
MCLive == {x \in MCAll : x.eventType = "RECORD" => x.eventRepeat # "ONCE"}

MCSingle == {Timer("RECORD", 2, 4, 5, "ONCE", 0, FALSE)}

MCExtras == {[pre |-> 1, post |-> 1, zap |-> 1]}
=============================================================================
