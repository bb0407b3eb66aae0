--------------------------- MODULE RecordControl ---------------------------
(***************************************************************************)
(* The control of recordings in Neutrino's main thread (neutrino.cpp and   *)
(* CFileDevice of vcrcontrol.cpp), between timerd, zapit and the recorder. *)
(*                                                                         *)
(* timerd, zapit and the recorder's threads send their messages to one     *)
(* socket; the main thread takes them in the order they came.  While it    *)
(* shows a message box it goes on handling messages inside the handler     *)
(* that shows it, so handlers nest: boxes is the stack of open boxes, each *)
(* with what its handler still has to do.  The recorder is module Recorder.*)
(*                                                                         *)
(* Recordings go to files (RECORDING_FILE), standby saves power, and the   *)
(* directory of a recording is not asked for and not mounted.              *)
(***************************************************************************)
EXTENDS Recorder, Integers, Sequences, FiniteSets

CONSTANTS
  Timers,      \* record timers in timerd
  Immediates,  \* ids for the timers of recordings the user starts
  NoTimer,
  MaxEvents    \* bound: timers fired, keys pressed and failures

ASSUME TimersAssumption ==
  /\ NoTimer \notin Timers \cup Immediates
  /\ Timers \cap Immediates = {}
  /\ MaxEvents \in Nat

VARIABLES
  recordingstatus,
  recording_id,
  nextRecordingInfo,  \* the timer it is about
  deviceState,
  standbyAfterRecord,
  standby,            \* mode = mode_standby, and zapit's standby
  recordMode,         \* RECORD_MODE of zapit's currentMode
  timer,              \* the state of each timer in timerd
  queue,              \* messages on the way to the main thread
  pc, caller,         \* where the main thread is; who called Record
  boxes,
  trouble,            \* has the recorder failed, refused or reported late?
  events, runs        \* counters

appvars == <<recordingstatus, recording_id, nextRecordingInfo>>
modes == <<standbyAfterRecord, standby>>
bounds == <<events, runs>>
vars == <<recvars, appvars, deviceState, modes, recordMode, timer, queue, pc,
          caller, boxes, trouble, bounds>>

Ids == Timers \cup Immediates
Callers == {"none", "user", "restart", "start", "stop", "guistop"}

(* The constructor leaves recording_id uninitialized.                      *)
Init ==
  /\ RecInit
  /\ recordingstatus = 0
  /\ recording_id \in Ids \cup {NoTimer}
  /\ nextRecordingInfo = NoTimer
  /\ deviceState = "STOP"
  /\ standbyAfterRecord = FALSE /\ standby = FALSE
  /\ recordMode = FALSE
  /\ timer = [t \in Ids |-> "waiting"]
  /\ queue = <<>> /\ boxes = <<>>
  /\ pc = "loop" /\ caller = "none"
  /\ trouble = FALSE
  /\ events = 0 /\ runs = 0

RecordStart(t) == [msg |-> "RECORD_START", id |-> t]
RecordStop(t) == [msg |-> "RECORD_STOP", id |-> t]
RecordModeMsg(on) == [msg |-> "EVT_RECORDMODE", data |-> on]
RecordingEnded(s) == [msg |-> "EVT_RECORDING_ENDED", status |-> s]

Event == events < MaxEvents /\ events' = events + 1

Post(m) == queue' = Append(queue, m)

(***************************************************************************)
(* timerd, as TimerManager has it: a timer fires once and stops once.      *)
(***************************************************************************)
TimerFires(t) ==
  /\ Event
  /\ t \in Timers /\ timer[t] = "waiting"
  /\ timer' = [timer EXCEPT ![t] = "running"]
  /\ Post(RecordStart(t))
  /\ UNCHANGED <<recvars, appvars, deviceState, modes, recordMode, pc, caller,
                 boxes, trouble, runs>>

(* Its time is over, or a client stops or removes it.                      *)
TimerEnds(t) ==
  /\ timer[t] = "running"
  /\ timer' = [timer EXCEPT ![t] = "over"]
  /\ Post(RecordStop(t))
  /\ UNCHANGED <<recvars, appvars, deviceState, modes, recordMode, pc, caller,
                 boxes, trouble, bounds>>

(* stopTimerEvent(t), with q the messages that are left                    *)
StopTimerEvent(t, q) ==
  IF t \in Ids /\ timer[t] = "running"
  THEN /\ timer' = [timer EXCEPT ![t] = "over"]
       /\ queue' = Append(q, RecordStop(t))
  ELSE UNCHANGED timer /\ queue' = q

(***************************************************************************)
(* The main thread                                                         *)
(***************************************************************************)
(* Back to the loop that called the handler.  RECORD_START returns         *)
(* cancel_all, which closes a box around it.                               *)
Return(by) == pc' = IF by = "start" /\ boxes' # <<>> THEN "close" ELSE "loop"

Call(by) == pc' = "record" /\ caller' = by

(* startNextRecording with the values of its two variables                 *)
StartNextRecording(status, next, by) ==
  IF status = 0 /\ next # NoTimer
  THEN recording_id' = next /\ Call(by)
  ELSE Return(by) /\ UNCHANGED <<recording_id, caller>>

Handling(m) == pc = "loop" /\ queue # <<>> /\ Head(queue).msg = m

HandleRecordStart ==
  /\ Handling("RECORD_START")
  /\ queue' = Tail(queue)
  /\ standby' = FALSE
  /\ standbyAfterRecord' = (standbyAfterRecord \/ standby)
  /\ nextRecordingInfo' = Head(queue).id
  /\ UNCHANGED boxes
  /\ StartNextRecording(recordingstatus, Head(queue).id, "start")
  /\ UNCHANGED <<recvars, recordingstatus, deviceState, recordMode, timer,
                 trouble, bounds>>

\* Mutant: RECORD_STOP asks recordingstatus, not the device.
StopByStatus ==
  /\ Handling("RECORD_STOP")
  /\ queue' = Tail(queue)
  /\ LET id == Head(queue).id IN
       \/ /\ id = recording_id /\ recordingstatus = 1
          /\ IF exit_flag = "RUNNING" THEN StopRunning ELSE UNCHANGED recvars
          /\ pc' = "stopping"
          /\ UNCHANGED <<recording_id, nextRecordingInfo, caller>>
       \/ /\ id = recording_id /\ recordingstatus = 0
          /\ StartNextRecording(recordingstatus, nextRecordingInfo, "stop")
          /\ UNCHANGED <<nextRecordingInfo, recvars>>
       \/ /\ id # recording_id
          /\ nextRecordingInfo' = IF nextRecordingInfo = id THEN NoTimer ELSE nextRecordingInfo
          /\ UNCHANGED <<recording_id, pc, caller, recvars>>
  /\ UNCHANGED <<recordingstatus, deviceState, modes, recordMode, timer, boxes,
                 trouble, bounds>>

(* RECORD_STOP.  The recording is stopped when the message is about the    *)
(* timer in recording_id and the device records; a pending recording with  *)
(* that timer is dropped.                                                  *)
HandleRecordStop ==
  /\ Handling("RECORD_STOP")
  /\ queue' = Tail(queue)
  /\ LET id == Head(queue).id IN
       \/ /\ id = recording_id /\ deviceState = "RECORD"
          /\ IF exit_flag = "RUNNING" THEN StopRunning ELSE UNCHANGED recvars
          /\ pc' = "stopping"
          /\ UNCHANGED <<recording_id, nextRecordingInfo, caller>>
       \/ /\ id = recording_id /\ deviceState # "RECORD"
          /\ StartNextRecording(recordingstatus, nextRecordingInfo, "stop")
          /\ UNCHANGED <<nextRecordingInfo, recvars>>
       \/ /\ id # recording_id
          /\ nextRecordingInfo' = IF nextRecordingInfo = id THEN NoTimer ELSE nextRecordingInfo
          /\ UNCHANGED <<recording_id, pc, caller, recvars>>
  /\ UNCHANGED <<recordingstatus, deviceState, modes, recordMode, timer, boxes,
                 trouble, bounds>>

(* The rest of stop_recording, RestoreNeutrino and of the handler.         *)
Stop ==
  /\ pc = "stopping"
  /\ IF call = "stopping" THEN StopDone ELSE UNCHANGED recvars
  /\ recordMode' = FALSE
  /\ Post(RecordModeMsg(0))
  /\ deviceState' = "STOP"
  /\ recordingstatus' = 0
  /\ UNCHANGED boxes
  /\ StartNextRecording(0, nextRecordingInfo, "stop")
  /\ UNCHANGED <<nextRecordingInfo, modes, timer, trouble, bounds>>

\* Mutant: only EVT_RECORDMODE on is taken over.
RecordModeOn ==
  /\ Handling("EVT_RECORDMODE")
  /\ queue' = Tail(queue)
  /\ recordingstatus' = IF Head(queue).data = 1 THEN 1 ELSE recordingstatus
  /\ LET back == Head(queue).data = 0 /\ standbyAfterRecord
     IN  /\ standby' = (standby \/ back)
         /\ standbyAfterRecord' = (standbyAfterRecord /\ ~back)
  /\ UNCHANGED <<recvars, recording_id, nextRecordingInfo, deviceState,
                 recordMode, timer, pc, caller, boxes, trouble, bounds>>

(* EVT_RECORDMODE from zapit                                               *)
HandleRecordMode ==
  /\ Handling("EVT_RECORDMODE")
  /\ queue' = Tail(queue)
  /\ recordingstatus' = Head(queue).data
  /\ LET back == Head(queue).data = 0 /\ standbyAfterRecord
     IN  /\ standby' = (standby \/ back)
         /\ standbyAfterRecord' = (standbyAfterRecord /\ ~back)
  /\ UNCHANGED <<recvars, recording_id, nextRecordingInfo, deviceState,
                 recordMode, timer, pc, caller, boxes, trouble, bounds>>

(* EVT_RECORDING_ENDED shows a box for five seconds, but for statuses that *)
(* have no text.                                                           *)
Silent == {"RUNNING", "READ_FAILURE"}

HandleRecordingEnded ==
  /\ Handling("EVT_RECORDING_ENDED")
  /\ queue' = Tail(queue)
  /\ boxes' = Append(boxes, [kind |-> "ended", status |-> Head(queue).status])
  /\ pc' = IF Head(queue).status \in Silent THEN "close" ELSE "loop"
  /\ UNCHANGED <<recvars, appvars, deviceState, modes, recordMode, timer, caller,
                 trouble, bounds>>

Top == boxes[Len(boxes)]
Closing(kind) ==
  /\ pc \in {"loop", "close"} /\ boxes # <<>> /\ Top.kind = kind
  /\ boxes' = SubSeq(boxes, 1, Len(boxes) - 1)

(* The box of EVT_RECORDING_ENDED closes.  After an error doGuiRecord is   *)
(* called, which starts or stops a recording as recordingstatus says.      *)
EndedClosed ==
  /\ Closing("ended")
  /\ \/ /\ Top.status \in {"IDLE", "RECORDING_THREADS_FAILED"}
        /\ pc' = "loop"
        /\ UNCHANGED <<recording_id, timer, queue, caller>>
     \/ /\ Top.status \notin {"IDLE", "RECORDING_THREADS_FAILED"}
        /\ \/ /\ recordingstatus = 1
              /\ Call("restart")
              /\ UNCHANGED <<recording_id, timer, queue>>
           \/ /\ recordingstatus = 0
              /\ StopTimerEvent(recording_id, queue)
              /\ StartNextRecording(0, nextRecordingInfo, "guistop")
  /\ UNCHANGED <<recvars, recordingstatus, nextRecordingInfo, deviceState, modes,
                 recordMode, trouble, bounds>>

(* The error message of Record closes and Record returns false to doGui-   *)
(* Record or to startNextRecording.  The latter deletes nextRecordingInfo. *)
FailedClosed ==
  /\ Closing("failed")
  /\ recordingstatus' = 0
  /\ nextRecordingInfo' = IF Top.by \in {"user", "restart"} THEN nextRecordingInfo ELSE NoTimer
  /\ Return(Top.by)
  /\ UNCHANGED <<recvars, recording_id, deviceState, modes, recordMode, timer,
                 queue, caller, trouble, bounds>>

(***************************************************************************)
(* CFileDevice::Record                                                     *)
(***************************************************************************)
(* CutBackNeutrino, and start_recording up to its look at busy_count.      *)
CutBackNeutrino ==
  /\ pc = "record"
  /\ recordMode' = TRUE
  /\ Post(RecordModeMsg(1))
  /\ pc' = IF live = NoRecording THEN "setup"
           ELSE IF exit_flag = "RUNNING" THEN "failed" ELSE "sleep"
  /\ UNCHANGED <<recvars, appvars, deviceState, modes, timer, caller, boxes,
                 trouble, bounds>>

(* After a second: attempt 2, or STREAM2FILE_BUSY.                         *)
Attempt2 ==
  /\ pc = "sleep"
  /\ pc' = IF live = NoRecording THEN "setup" ELSE "failed"
  /\ UNCHANGED <<recvars, appvars, deviceState, modes, recordMode, timer, queue,
                 caller, boxes, trouble, bounds>>

(* The directory, a filter or the dvr device is refused.                   *)
Refused ==
  /\ pc = "setup" /\ Event
  /\ pc' = "failed"
  /\ UNCHANGED <<recvars, appvars, deviceState, modes, recordMode, timer, queue,
                 caller, boxes, trouble, runs>>

\* Mutant: start_recording goes on waiting after a failed pthread_create.
NoThreadStays ==
  /\ pc = "create" /\ Event
  /\ LaunchFails
  /\ UNCHANGED <<appvars, deviceState, modes, recordMode, timer, queue, caller,
                 pc, boxes, trouble, runs>>

Setup ==
  /\ pc = "setup"
  /\ Begin
  /\ pc' = "create"
  /\ UNCHANGED <<appvars, deviceState, modes, recordMode, timer, queue, caller,
                 boxes, trouble, bounds>>

NoThread ==
  /\ pc = "create" /\ Event
  /\ LaunchFails
  /\ pc' = "failed"
  /\ UNCHANGED <<appvars, deviceState, modes, recordMode, timer, queue, caller,
                 boxes, trouble, runs>>

\* Mutant: the id of the timer doGuiRecord adds is not kept.
RecordingNoId ==
  /\ pc = "create" /\ runs + 1 \in Recordings
  /\ Launch(runs + 1)
  /\ runs' = runs + 1
  /\ deviceState' = "RECORD"
  /\ UNCHANGED boxes
  /\ \/ /\ caller = "user"
        /\ \E i \in Immediates :
             /\ timer[i] = "waiting"
             /\ timer' = [timer EXCEPT ![i] = "running"]
        /\ pc' = "loop"
        /\ UNCHANGED appvars
     \/ /\ caller = "restart"
        /\ pc' = "loop"
        /\ UNCHANGED <<appvars, timer>>
     \/ /\ caller \notin {"user", "restart"}
        /\ recordingstatus' = 1
        /\ nextRecordingInfo' = NoTimer
        /\ Return(caller)
        /\ UNCHANGED <<recording_id, timer>>
  /\ caller' = "none"
  /\ UNCHANGED <<modes, recordMode, queue, trouble, events>>

(* start_recording succeeds, and Record returns true: doGuiRecord adds a   *)
(* timer for a recording of the user, startNextRecording is done with      *)
(* nextRecordingInfo.                                                      *)
Recording ==
  /\ pc = "create" /\ runs + 1 \in Recordings
  /\ Launch(runs + 1)
  /\ runs' = runs + 1
  /\ deviceState' = "RECORD"
  /\ UNCHANGED boxes
  /\ \/ /\ caller = "user"
        /\ \E i \in Immediates :
             /\ timer[i] = "waiting"
             /\ timer' = [timer EXCEPT ![i] = "running"]
             /\ recording_id' = i
        /\ pc' = "loop"
        /\ UNCHANGED <<recordingstatus, nextRecordingInfo>>
     \/ /\ caller = "restart"
        /\ pc' = "loop"
        /\ UNCHANGED <<appvars, timer>>
     \/ /\ caller \notin {"user", "restart"}
        /\ recordingstatus' = 1
        /\ nextRecordingInfo' = NoTimer
        /\ Return(caller)
        /\ UNCHANGED <<recording_id, timer>>
  /\ caller' = "none"
  /\ UNCHANGED <<modes, recordMode, queue, trouble, events>>

\* Mutant: a failed start resets the state of the device.
RecordFailsStops ==
  /\ pc = "failed"
  /\ recordMode' = FALSE
  /\ Post(RecordModeMsg(0))
  /\ boxes' = Append(boxes, [kind |-> "failed", by |-> caller])
  /\ trouble' = TRUE
  /\ deviceState' = "STOP"
  /\ pc' = "loop" /\ caller' = "none"
  /\ UNCHANGED <<recvars, appvars, modes, timer, bounds>>

(* RestoreNeutrino and the error message                                   *)
RecordFails ==
  /\ pc = "failed"
  /\ recordMode' = FALSE
  /\ Post(RecordModeMsg(0))
  /\ boxes' = Append(boxes, [kind |-> "failed", by |-> caller])
  /\ trouble' = TRUE
  /\ pc' = "loop" /\ caller' = "none"
  /\ UNCHANGED <<recvars, appvars, deviceState, modes, timer, bounds>>

(***************************************************************************)
(* The user                                                                *)
(***************************************************************************)
Key == pc = "loop" /\ Event

(* The menu item "recording": CMenuOptionChooser flips recordingstatus and *)
(* calls doGuiRecord.                                                      *)
Toggle ==
  /\ Key /\ boxes = <<>> /\ ~standby
  /\ recordingstatus' = 1 - recordingstatus
  /\ \/ /\ recordingstatus = 0
        /\ \E i \in Immediates : timer[i] = "waiting"
        /\ Call("user")
        /\ UNCHANGED <<recording_id, timer, queue, boxes>>
     \/ /\ recordingstatus = 1
        /\ UNCHANGED boxes
        /\ StopTimerEvent(recording_id, queue)
        /\ StartNextRecording(0, nextRecordingInfo, "guistop")
  /\ UNCHANGED <<recvars, nextRecordingInfo, deviceState, modes, recordMode,
                 trouble, runs>>

(* STANDBY_ON: during a recording a message tells that standby will follow *)
(* it, and standbyAfterRecord is set when the message closes.              *)
StandbyOn ==
  /\ Key
  /\ \/ /\ recordingstatus # 0
        /\ boxes' = Append(boxes, [kind |-> "standby"])
        /\ UNCHANGED modes
     \/ /\ recordingstatus = 0 /\ ~standby
        /\ standby' = TRUE /\ standbyAfterRecord' = FALSE
        /\ UNCHANGED boxes
  /\ UNCHANGED <<recvars, appvars, deviceState, recordMode, timer, queue, pc,
                 caller, trouble, runs>>

StandbyClosed ==
  /\ Closing("standby")
  /\ standbyAfterRecord' = TRUE
  /\ pc' = "loop"
  /\ UNCHANGED <<recvars, appvars, deviceState, standby, recordMode, timer, queue,
                 caller, trouble, bounds>>

StandbyOff ==
  /\ Key /\ standby
  /\ standby' = FALSE
  /\ UNCHANGED <<recvars, appvars, deviceState, standbyAfterRecord, recordMode,
                 timer, queue, pc, caller, boxes, trouble, runs>>

(***************************************************************************)
(* The recorder's threads                                                  *)
(***************************************************************************)
others == <<appvars, deviceState, modes, recordMode, timer, pc, caller, boxes>>

RecorderFails ==
  /\ Event /\ Fail
  /\ trouble' = TRUE
  /\ UNCHANGED <<others, queue, runs>>

RecorderEnds == End /\ UNCHANGED <<others, trouble, queue, bounds>>

Reports(r) ==
  /\ ReadStatus(r)
  /\ trouble' = (trouble \/ exit_flag = "RUNNING")
  /\ UNCHANGED <<others, queue, bounds>>

Sends(r) ==
  /\ Send(r)
  /\ Post(RecordingEnded(r.status))
  /\ UNCHANGED <<others, trouble, bounds>>

Timerd == \E t \in Ids : TimerFires(t) \/ TimerEnds(t)

Handler ==
  \/ HandleRecordStart \/ HandleRecordStop \/ HandleRecordMode
  \/ HandleRecordingEnded \/ Stop
  \/ CutBackNeutrino \/ Attempt2 \/ Refused \/ Setup \/ NoThread \/ Recording
  \/ RecordFails

CloseBox == EndedClosed \/ FailedClosed \/ StandbyClosed

User == Toggle \/ StandbyOn \/ StandbyOff

RecorderEnding == RecorderEnds \/ \E r \in reports : Reports(r) \/ Sends(r)

Next == Timerd \/ Handler \/ CloseBox \/ User \/ RecorderFails \/ RecorderEnding

Spec == Init /\ [][Next]_vars

(* Timers end, messages are handled, boxes close after their time, and the *)
(* threads of the recorder are scheduled.                                  *)
Fairness ==
  /\ \A t \in Ids : WF_vars(TimerEnds(t))
  /\ WF_vars(Handler) /\ WF_vars(CloseBox) /\ WF_vars(RecorderEnding)
LiveSpec == Spec /\ Fairness

-----------------------------------------------------------------------------
Statuses == {"IDLE", "RUNNING", "RECORDING_THREADS_FAILED"} \cup Failures
Quiet == pc = "loop" /\ boxes = <<>> /\ queue = <<>>

Messages ==
  [msg : {"RECORD_START", "RECORD_STOP"}, id : Ids]
    \cup [msg : {"EVT_RECORDMODE"}, data : {0, 1}]
    \cup [msg : {"EVT_RECORDING_ENDED"}, status : Statuses]

Boxes ==
  [kind : {"ended"}, status : Statuses] \cup [kind : {"failed"}, by : Callers]
    \cup [kind : {"standby"}]

(* The types, with where the main thread can be inside the recorder.       *)
TypeOK ==
  /\ exit_flag \in Statuses
  /\ live \in Recordings \cup {NoRecording}
  /\ reports \subseteq [of : Recordings, status : Statuses \cup {"none"}]
  /\ recordingstatus \in {0, 1}
  /\ {recording_id, nextRecordingInfo} \subseteq Ids \cup {NoTimer}
  /\ deviceState \in {"STOP", "RECORD"}
  /\ {standbyAfterRecord, standby, recordMode, trouble} \subseteq BOOLEAN
  /\ timer \in [Ids -> {"waiting", "running", "over"}]
  /\ queue \in Seq(Messages) /\ boxes \in Seq(Boxes)
  /\ caller \in Callers
  /\ pc \in {"loop", "close", "record", "sleep", "setup", "create", "failed", "stopping"}
  /\ call \in {"none", "begun", "stopping"}
  /\ call = "begun" <=> pc = "create"
  /\ call = "stopping" => pc = "stopping"

(* RECORD_STOP finds the device recording whenever a recording runs, after *)
(* failed starts, restarts and late reports as well: its answer "falscher  *)
(* state" never leaves a recording going.                                  *)
Stoppable ==
  exit_flag = "RUNNING" /\ call = "none" => deviceState = "RECORD"

(* recordingstatus is set by the handlers, by the menu and by zapit's      *)
(* EVT_RECORDMODE, which comes late.  Once all messages are handled it is  *)
(* what zapit's record mode says, unless there was trouble.                *)
StatusMatches == Quiet /\ ~trouble => (recordingstatus = 1 <=> recordMode)

(* A recording that runs has a timer that will stop it: the one in         *)
(* recording_id runs, or its RECORD_STOP is on the way.  Holds until the   *)
(* recorder fails, refuses a start or reports late.                        *)
HasTimer ==
  exit_flag = "RUNNING" /\ ~trouble /\ pc = "loop" =>
    \/ recording_id \in Ids /\ timer[recording_id] = "running"
    \/ \E k \in 1 .. Len(queue) : queue[k] = RecordStop(recording_id)

(* A recording ends, whatever the user toggles and whatever timers overlap *)
(* with its own, unless there was trouble.                                 *)
RecordingEnds == (exit_flag = "RUNNING") ~> (exit_flag # "RUNNING" \/ trouble)

(* "if we came from standby to recording => back into standby": when       *)
(* EVT_RECORDMODE off is about to switch the box to standby, no recording  *)
(* runs whose timer has not ended.                                         *)
BackIntoStandby ==
  /\ Handling("EVT_RECORDMODE") /\ Head(queue).data = 0
  /\ standbyAfterRecord /\ ~trouble
  => exit_flag # "RUNNING" \/ timer[recording_id] # "running"
=============================================================================
