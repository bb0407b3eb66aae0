------------------------------ MODULE Recorder ------------------------------
(***************************************************************************)
(* What the recorder promises to the rest of Neutrino: at most one         *)
(* recording has threads, a recording ends after its flag has left RUNNING *)
(* and then reports the status it finds.  Stream2File implements this in   *)
(* transport stream mode; RecordControl builds on it.                      *)
(***************************************************************************)
CONSTANTS
  Recordings,  \* names of recordings
  NoRecording, \* none of them
  Failures     \* statuses a thread can put into the flag

ASSUME RecordingsAssumption ==
  /\ NoRecording \notin Recordings
  /\ {"IDLE", "RUNNING", "none"} \cap Failures = {}

VARIABLES
  exit_flag,  \* STREAM2FILE_STATUS_...
  live,       \* the recording whose threads exist, or NoRecording
  call,       \* how far the main thread is in start_ or stop_recording
  reports     \* recordings without threads that still have to report

recvars == <<exit_flag, live, call, reports>>

RecInit ==
  /\ exit_flag = "IDLE" /\ live = NoRecording
  /\ call = "none" /\ reports = {}

(* start_recording: the flag is set before the thread is created.          *)
Begin ==
  /\ call = "none" /\ live = NoRecording
  /\ exit_flag' = "RUNNING" /\ call' = "begun"
  /\ UNCHANGED <<live, reports>>

Launch(n) ==
  /\ call = "begun"
  /\ live' = n /\ call' = "none"
  /\ UNCHANGED <<exit_flag, reports>>

LaunchFails ==
  /\ call = "begun"
  /\ exit_flag' = "RECORDING_THREADS_FAILED" /\ call' = "none"
  /\ UNCHANGED <<live, reports>>

(* stop_recording: the flag is tested, then set.                           *)
StopRunning ==
  /\ call = "none" /\ exit_flag = "RUNNING"
  /\ call' = "stopping"
  /\ UNCHANGED <<exit_flag, live, reports>>

StopDone ==
  /\ call = "stopping"
  /\ exit_flag' = "IDLE" /\ call' = "none"
  /\ UNCHANGED <<live, reports>>

Fail ==
  /\ live # NoRecording
  /\ exit_flag' \in Failures
  /\ UNCHANGED <<live, call, reports>>

(* The last thread gives up busy_count.                                    *)
End ==
  /\ live # NoRecording /\ exit_flag # "RUNNING"
  /\ live' = NoRecording
  /\ reports' = reports \cup {[of |-> live, status |-> "none"]}
  /\ UNCHANGED <<exit_flag, call>>

(* The status sent is the flag as it is by now.                            *)
ReadStatus(r) ==
  /\ r \in reports /\ r.status = "none"
  /\ reports' = (reports \ {r}) \cup {[r EXCEPT !.status = exit_flag]}
  /\ UNCHANGED <<exit_flag, live, call>>

Send(r) ==
  /\ r \in reports /\ r.status # "none"
  /\ reports' = reports \ {r}
  /\ UNCHANGED <<exit_flag, live, call>>

RecNext ==
  \/ Begin \/ LaunchFails \/ StopRunning \/ StopDone \/ Fail \/ End
  \/ \E n \in Recordings : Launch(n)
  \/ \E r \in reports : ReadStatus(r) \/ Send(r)

RecSpec == RecInit /\ [][RecNext]_recvars
=============================================================================
