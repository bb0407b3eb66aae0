---------------------------- MODULE Stream2File ----------------------------
(***************************************************************************)
(* The recorder of Neutrino, neutrino/src/driver/stream2file.cpp.          *)
(*                                                                         *)
(* start_recording and stop_recording are called by Neutrino's main        *)
(* thread.  A recording in transport stream mode (write_ts) has one        *)
(* DMXThread, for the dvr device; otherwise it has one for each pid.       *)
(* Each DMXThread reads the stream into a ring buffer that its FileThread  *)
(* writes to files of at most SplitSize bytes.  All threads share          *)
(* exit_flag, busy_count and myfilename without any lock.  A global that   *)
(* is tested in one statement and set in another, and each `busy_count++'  *)
(* or `busy_count--' (a load and a store), is two steps.                   *)
(*                                                                         *)
(* The ring buffer is the bounded queue that RingBuffer is shown to        *)
(* implement; only the number of its bytes matters here.                   *)
(***************************************************************************)
EXTENDS Integers, Sequences, FiniteSets

CONSTANTS
  NumPids,    \* the number of pids
  RingSize,   \* ringbuffersize: the ring holds RingSize - 1 bytes
  InSize,     \* IN_SIZE: the room needed before the next bytes are read
  TsSize,     \* TS_SIZE: the bytes looked at to find the first sync byte
  SplitSize,  \* limit, in whole TS packets
  MaxBytes,   \* bound: bytes received per thread, by mode
  MaxStarts   \* bound: recordings, by mode (one of single pids: its count is not
              \* exact, and threads of two such recordings would share a slot of dmx)

ASSUME SizesAssumption ==
  /\ NumPids \in Nat \ {0}
  /\ {RingSize, InSize, TsSize, SplitSize} \subseteq Nat \ {0}
  /\ TsSize < InSize /\ InSize < RingSize
  /\ SplitSize % TsSize = 0
  /\ {MaxBytes, MaxStarts} \subseteq [BOOLEAN -> Nat]
  /\ MaxStarts[FALSE] <= 1

VARIABLES
  write_ts,        \* record a transport stream (one dvr device) or single pids
  exit_flag,
  busy_count,
  myfilename,      \* the recording it names, and whether dirname() has cut it
  demuxfd,         \* the pids whose demux filter is open
  demuxfd_count,
  record_start_time, \* is it set?
  main,            \* the main thread: where it is, its busy_count register
  dmx,             \* the DMXThreads
  file,            \* their FileThreads
  ring,            \* bytes in each ring buffer
  starts,          \* recordings begun
  reports,         \* threads past DEC_BUSY_COUNT that still have to report
  events           \* EVT_RECORDING_ENDED messages sent

flags == <<exit_flag, busy_count>>
fds == <<demuxfd, demuxfd_count>>
vars == <<write_ts, flags, myfilename, fds, record_start_time, main, dmx, file, ring,
          starts, reports, events>>

Pids == 0 .. (NumPids - 1)
Dvr == NumPids
Threads == Pids \cup {Dvr}

(* The thread that sends EVT_RECORDING_ENDED: &dvrfd or &demuxfd[0].       *)
Reporter == IF write_ts THEN Dvr ELSE 0

Failures == {"BUFFER_OVERFLOW", "WRITE_OPEN_FAILURE", "WRITE_FAILURE",
             "READ_FAILURE", "RECORDING_THREADS_FAILED"}
Running == exit_flag = "RUNNING"

Dmx(pc, of, todo, received) ==
  [pc |-> pc, todo |-> todo, tmp |-> 0, of |-> of, received |-> received]
File(pc, n, remfile, sizes) ==
  [pc |-> pc, readsize |-> n, left |-> n, remfile |-> remfile, late |-> 0, sizes |-> sizes]
NoDmx == Dmx("gone", 0, 0, 0)
NoFile == File("gone", 0, 0, <<>>)

(* All recordings have the mode of the user's settings (stream type).      *)
Init ==
  /\ write_ts \in BOOLEAN
  /\ exit_flag = "IDLE"
  /\ busy_count = 0
  /\ myfilename = [of |-> 0, cut |-> FALSE]
  /\ demuxfd = {}
  /\ demuxfd_count = 0
  /\ record_start_time = FALSE
  /\ main = [pc |-> "idle", tmp |-> 0, add |-> 0, then |-> "idle", next |-> 0]
  /\ dmx = [t \in Threads |-> NoDmx]
  /\ file = [t \in Threads |-> NoFile]
  /\ ring = [t \in Threads |-> 0]
  /\ starts = 0
  /\ reports = {}
  /\ events = <<>>

(***************************************************************************)
(* The main thread                                                         *)
(***************************************************************************)
(* busy_count is an unsigned char.                                         *)
Counted(n) == n % 256

(* INC_BUSY_COUNT (add = 1) or DEC_BUSY_COUNT (add = -1), then go on at pc *)
Count(add, pc) ==
  main' = [pc |-> "load", tmp |-> main.tmp, add |-> add, then |-> pc, next |-> main.next]

MainLoad ==
  /\ main.pc = "load"
  /\ main' = [pc |-> "store", tmp |-> busy_count, add |-> main.add, then |-> main.then,
              next |-> main.next]
  /\ UNCHANGED <<flags, myfilename, fds, record_start_time, dmx, file, ring,
                 starts, reports, events>>

MainStore ==
  /\ main.pc = "store"
  /\ busy_count' = Counted(main.tmp + main.add)
  /\ main' = [main EXCEPT !.pc = main.then]
  /\ UNCHANGED <<exit_flag, myfilename, fds, record_start_time, dmx, file, ring,
                 starts, reports, events>>

(* start_recording up to the wait for the threads of the last recording.   *)
(* While one is RUNNING it returns STREAM2FILE_BUSY.                       *)
StartRecording ==
  /\ main.pc = "idle" /\ starts < MaxStarts[write_ts]
  /\ \/ busy_count = 0 /\ Count(1, "claimed")
     \/ /\ busy_count # 0 /\ ~Running
        /\ main' = [main EXCEPT !.pc = "sleep"]
  /\ UNCHANGED <<flags, myfilename, fds, record_start_time, dmx, file, ring,
                 starts, reports, events>>

\* Mutant: the second attempt does not look at busy_count again.
Attempt2NoRecheck ==
  /\ main.pc = "sleep"
  /\ Count(1, "claimed")
  /\ UNCHANGED <<flags, myfilename, fds, record_start_time, dmx, file, ring,
                 starts, reports, events>>

(* After sleep(1): attempt 2, or STREAM2FILE_BUSY.                         *)
Attempt2 ==
  /\ main.pc = "sleep"
  /\ IF busy_count = 0 THEN Count(1, "claimed")
     ELSE main' = [main EXCEPT !.pc = "idle"]
  /\ UNCHANGED <<flags, myfilename, fds, record_start_time, dmx, file, ring,
                 starts, reports, events>>

SetFilename ==
  /\ main.pc = "claimed"
  /\ starts' = starts + 1
  /\ myfilename' = [of |-> starts + 1, cut |-> FALSE]
  /\ main' = [main EXCEPT !.pc = "setup"]
  /\ UNCHANGED <<flags, fds, record_start_time, dmx, file, ring, reports, events>>

\* Mutant: an early return without DEC_BUSY_COUNT.
SetupFailsStaysBusy ==
  /\ main.pc = "setup"
  /\ main' = [main EXCEPT !.pc = "idle"]
  /\ UNCHANGED <<flags, myfilename, fds, record_start_time, dmx, file, ring,
                 starts, reports, events>>

(* The .xml file, a filter or the dvr device is refused; the filters set   *)
(* so far are closed again.  (STREAM2FILE_INVALID_PID is left out: the     *)
(* pids come from 13-bit fields of the PMT.)                               *)
SetupFails ==
  /\ main.pc = "setup"
  /\ Count(-1, "idle")
  /\ UNCHANGED <<flags, myfilename, fds, record_start_time, dmx, file, ring,
                 starts, reports, events>>

Setup ==
  /\ main.pc = "setup"
  /\ demuxfd' = Pids
  /\ demuxfd_count' = NumPids
  /\ exit_flag' = "RUNNING"
  /\ main' = [pc |-> "create", tmp |-> main.tmp, add |-> main.add, then |-> main.then,
              next |-> 0]
  /\ UNCHANGED <<busy_count, myfilename, record_start_time, dmx, file, ring,
                 starts, reports, events>>

(* The thread to create next: the only one, or the one of the next pid.    *)
Creating == IF write_ts THEN Dvr ELSE main.next

(* pthread_create of a DMXThread.  In pid mode busy_count is incremented   *)
(* for each thread after it was created and decremented once at the end.   *)
CreateThread ==
  /\ main.pc = "create"
  /\ dmx' = [dmx EXCEPT ![Creating] = Dmx("start", myfilename.of, 0, 0)]
  /\ IF write_ts THEN main' = [main EXCEPT !.pc = "created"]
     ELSE main' = [pc |-> "load", tmp |-> main.tmp, add |-> 1, next |-> main.next + 1,
                   then |-> IF main.next + 1 < NumPids THEN "create" ELSE "release"]
  /\ UNCHANGED <<flags, myfilename, fds, record_start_time, file, ring, starts,
                 reports, events>>

Release ==
  /\ main.pc = "release"
  /\ Count(-1, "created")
  /\ UNCHANGED <<flags, myfilename, fds, record_start_time, dmx, file, ring,
                 starts, reports, events>>

(* pthread_create fails.                                                   *)
CreateFails ==
  /\ main.pc = "create"
  /\ Count(-1, "failed")
  /\ UNCHANGED <<flags, myfilename, fds, record_start_time, dmx, file, ring,
                 starts, reports, events>>

\* Mutant: the flag stays RUNNING.
CreateFailedRunning ==
  /\ main.pc = "failed"
  /\ IF write_ts THEN demuxfd' = {} /\ demuxfd_count' = 0 ELSE UNCHANGED fds
  /\ main' = [main EXCEPT !.pc = "idle"]
  /\ UNCHANGED <<flags, myfilename, record_start_time, dmx, file, ring, starts,
                 reports, events>>

(* In pid mode the filters stay open.                                      *)
CreateFailed ==
  /\ main.pc = "failed"
  /\ exit_flag' = "RECORDING_THREADS_FAILED"
  /\ IF write_ts THEN demuxfd' = {} /\ demuxfd_count' = 0 ELSE UNCHANGED fds
  /\ main' = [main EXCEPT !.pc = "idle"]
  /\ UNCHANGED <<busy_count, myfilename, record_start_time, dmx, file, ring,
                 starts, reports, events>>

Started ==
  /\ main.pc = "created"
  /\ record_start_time' = TRUE
  /\ main' = [main EXCEPT !.pc = "idle"]
  /\ UNCHANGED <<flags, myfilename, fds, dmx, file, ring, starts, reports, events>>

(* stop_recording: the flag is tested before the movie information is      *)
(* loaded and saved, and set after that.                                   *)
StopRecording ==
  /\ main.pc = "idle"
  /\ IF Running
     THEN main' = [main EXCEPT !.pc = "stop"] /\ UNCHANGED record_start_time
     ELSE record_start_time' = FALSE /\ UNCHANGED main
  /\ UNCHANGED <<flags, myfilename, fds, dmx, file, ring, starts, reports, events>>

StopDone ==
  /\ main.pc = "stop"
  /\ exit_flag' = "IDLE"
  /\ record_start_time' = FALSE
  /\ main' = [main EXCEPT !.pc = "idle"]
  /\ UNCHANGED <<busy_count, myfilename, fds, dmx, file, ring, starts, reports,
                 events>>

MainNext ==
  \/ MainLoad \/ MainStore \/ StartRecording \/ Attempt2 \/ SetFilename
  \/ SetupFails \/ Setup \/ CreateThread \/ Release \/ CreateFails
  \/ CreateFailed \/ Started \/ StopRecording \/ StopDone

(***************************************************************************)
(* DMXThread                                                               *)
(***************************************************************************)
mainvars == <<myfilename, record_start_time, main, starts>>
DmxTo(t, pc) == dmx' = [dmx EXCEPT ![t].pc = pc]

(* The ring buffer and the FileThread are created.  When the FileThread    *)
(* cannot be, the thread goes on to join an unset pthread_t, which is      *)
(* taken to return at once.                                                *)
DmxStart(t) ==
  /\ dmx[t].pc = "start"
  /\ DmxTo(t, IF t = Dvr THEN "sync" ELSE "first")
  /\ ring' = [ring EXCEPT ![t] = 0]
  /\ \/ /\ file' = [file EXCEPT ![t] = File("loop", 0, 0, <<>>)]
        /\ UNCHANGED exit_flag
     \/ /\ file' = [file EXCEPT ![t] = File("failed", 0, 0, <<>>)]
        /\ exit_flag' = "RECORDING_THREADS_FAILED"
  /\ UNCHANGED <<busy_count, fds, reports, events, mainvars>>

(* The loop that looks for the first sync byte, until something is read.   *)
Sync(t) ==
  /\ dmx[t].pc = "sync"
  /\ DmxTo(t, IF Running THEN "syncpoll" ELSE "close")
  /\ UNCHANGED <<flags, fds, file, ring, reports, events, mainvars>>

(* Data without a sync byte, a timeout or an interrupted poll go back to   *)
(* the test of the flag; so does a poll error, unless its read finds one.  *)
SyncPoll(t) ==
  /\ dmx[t].pc = "syncpoll"
  /\ exit_flag' \in {exit_flag, "READ_FAILURE"}
  /\ \E pc \in {"sync", "first"} : DmxTo(t, pc)
  /\ UNCHANGED <<busy_count, fds, file, ring, reports, events, mainvars>>

(* n bytes enter the ring buffer.                                          *)
Receive(t, n) ==
  /\ ring' = [ring EXCEPT ![t] = ring[t] + n]
  /\ file' = [file EXCEPT ![t].late = file[t].late + n]

(* The bytes from the sync byte on are the first ones; without a sync loop *)
(* there are none.                                                         *)
First(t) ==
  /\ dmx[t].pc = "first"
  /\ IF Running
     THEN \E n \in IF t = Dvr THEN 1 .. TsSize ELSE {0} :
            /\ Receive(t, n)
            /\ dmx' = [dmx EXCEPT ![t] = Dmx("vector", dmx[t].of, InSize - n, n)]
     ELSE DmxTo(t, "close") /\ UNCHANGED <<ring, file>>
  /\ UNCHANGED <<flags, fds, reports, events, mainvars>>

Vector(t) ==
  /\ dmx[t].pc = "vector"
  /\ DmxTo(t, IF Running THEN "space" ELSE "close")
  /\ UNCHANGED <<flags, fds, file, ring, reports, events, mainvars>>

\* Mutant: the byte that tells a full buffer from an empty one is used.
SpaceOneMore(t) ==
  /\ dmx[t].pc = "space"
  /\ DmxTo(t, "read")
  /\ exit_flag' = IF dmx[t].todo > RingSize - ring[t]
                  THEN "BUFFER_OVERFLOW" ELSE exit_flag
  /\ UNCHANGED <<busy_count, fds, file, ring, reports, events, mainvars>>

(* ringbuffer_get_write_vector and the test that todo bytes fit.           *)
Space(t) ==
  /\ dmx[t].pc = "space"
  /\ DmxTo(t, "read")
  /\ exit_flag' = IF dmx[t].todo > RingSize - 1 - ring[t]
                  THEN "BUFFER_OVERFLOW" ELSE exit_flag
  /\ UNCHANGED <<busy_count, fds, file, ring, reports, events, mainvars>>

Read(t) ==
  /\ dmx[t].pc = "read"
  /\ DmxTo(t, IF Running THEN "poll" ELSE "close")
  /\ UNCHANGED <<flags, fds, file, ring, reports, events, mainvars>>

\* Mutant: todo is not set to IN_SIZE for the next round.
PollNoReset(t) ==
  /\ dmx[t].pc = "poll"
  /\ exit_flag' \in {exit_flag, "READ_FAILURE"}
  /\ \/ \E n \in 1 .. dmx[t].todo :
          /\ dmx[t].received + n <= MaxBytes[write_ts]
          /\ Receive(t, n)
          /\ dmx' = [dmx EXCEPT ![t] =
               Dmx(IF n = dmx[t].todo THEN "vector" ELSE "read", dmx[t].of,
                   dmx[t].todo - n, dmx[t].received + n)]
     \/ DmxTo(t, "read") /\ UNCHANGED <<ring, file>>
  /\ UNCHANGED <<busy_count, fds, reports, events, mainvars>>

(* poll and read: some of the todo bytes, with or without a poll error; no *)
(* bytes; or a timeout.                                                    *)
Poll(t) ==
  /\ dmx[t].pc = "poll"
  /\ exit_flag' \in {exit_flag, "READ_FAILURE"}
  /\ \/ \E n \in 1 .. dmx[t].todo :
          /\ dmx[t].received + n <= MaxBytes[write_ts]
          /\ Receive(t, n)
          /\ dmx' = [dmx EXCEPT ![t] =
               Dmx(IF n = dmx[t].todo THEN "vector" ELSE "read", dmx[t].of,
                   IF n = dmx[t].todo THEN InSize ELSE dmx[t].todo - n,
                   dmx[t].received + n)]
     \/ DmxTo(t, "read") /\ UNCHANGED <<ring, file>>
  /\ UNCHANGED <<busy_count, fds, reports, events, mainvars>>

Close(t) ==
  /\ dmx[t].pc = "close"
  /\ DmxTo(t, "join")
  /\ demuxfd' = demuxfd \ {t}
  /\ UNCHANGED <<flags, demuxfd_count, file, ring, reports, events, mainvars>>

\* Mutant: the filters of the pids are left open.
JoinKeepsFilters(t) ==
  /\ dmx[t].pc = "join" /\ file[t].pc \in {"done", "failed"}
  /\ DmxTo(t, "load")
  /\ ring' = [ring EXCEPT ![t] = 0]
  /\ UNCHANGED <<flags, fds, file, reports, events, mainvars>>

(* pthread_join of the FileThread, ringbuffer_free, and in transport       *)
(* stream mode the filters of all pids.                                    *)
Join(t) ==
  /\ dmx[t].pc = "join" /\ file[t].pc \in {"done", "failed"}
  /\ DmxTo(t, "load")
  /\ ring' = [ring EXCEPT ![t] = 0]
  /\ IF t = Dvr
     THEN demuxfd' = demuxfd \ (0 .. demuxfd_count - 1) /\ demuxfd_count' = 0
     ELSE UNCHANGED fds
  /\ UNCHANGED <<flags, file, reports, events, mainvars>>

(* DEC_BUSY_COUNT                                                          *)
DecLoad(t) ==
  /\ dmx[t].pc = "load"
  /\ dmx' = [dmx EXCEPT ![t] = [pc |-> "store", todo |-> dmx[t].todo, tmp |-> busy_count,
                                of |-> dmx[t].of, received |-> dmx[t].received]]
  /\ UNCHANGED <<flags, fds, file, ring, reports, events, mainvars>>

\* Mutant: only a regular end is reported.
DecStoreOnlyIdle(t) ==
  /\ dmx[t].pc = "store"
  /\ busy_count' = Counted(dmx[t].tmp - 1)
  /\ dmx' = [dmx EXCEPT ![t] = NoDmx]
  /\ file' = [file EXCEPT ![t] = NoFile]
  /\ reports' = IF t = Reporter /\ exit_flag = "IDLE"
                THEN reports \cup {[of |-> dmx[t].of, status |-> "none"]}
                ELSE reports
  /\ UNCHANGED <<exit_flag, fds, ring, events, mainvars>>

DecStore(t) ==
  /\ dmx[t].pc = "store"
  /\ busy_count' = Counted(dmx[t].tmp - 1)
  /\ dmx' = [dmx EXCEPT ![t] = NoDmx]
  /\ file' = [file EXCEPT ![t] = NoFile]
  /\ reports' = IF t = Reporter
                THEN reports \cup {[of |-> dmx[t].of, status |-> "none"]}
                ELSE reports
  /\ UNCHANGED <<exit_flag, fds, ring, events, mainvars>>

ReportStatus(r) ==
  /\ r.status = "none"
  /\ reports' = (reports \ {r}) \cup {[r EXCEPT !.status = exit_flag]}
  /\ UNCHANGED <<flags, fds, dmx, file, ring, events, mainvars>>

(* basename and dirname of myfilename, and the message.  dirname cuts      *)
(* myfilename in place.                                                    *)
ReportSend(r) ==
  /\ r.status # "none"
  /\ reports' = reports \ {r}
  /\ events' = Append(events, [of |-> r.of, status |-> r.status,
                               name |-> myfilename])
  /\ myfilename' = [myfilename EXCEPT !.cut = TRUE]
  /\ UNCHANGED <<flags, fds, record_start_time, main, dmx, file, ring, starts>>

DmxNext(t) ==
  \/ DmxStart(t) \/ Sync(t) \/ SyncPoll(t) \/ First(t) \/ Vector(t)
  \/ Space(t) \/ Read(t) \/ Poll(t) \/ Close(t) \/ Join(t)
  \/ DecLoad(t) \/ DecStore(t)

(***************************************************************************)
(* FileThread                                                              *)
(***************************************************************************)
filerest == <<busy_count, fds, dmx, reports, events, mainvars>>
Smaller(a, b) == IF a < b THEN a ELSE b

\* Mutant: the flag is looked at before the buffer is empty.
GetVectorStops(t) ==
  /\ file[t].pc = "loop"
  /\ LET n == Smaller(ring[t], file[t].remfile)
     IN  file' = [file EXCEPT ![t] =
           File(IF ~Running THEN "done" ELSE IF ring[t] = 0 THEN "empty"
                ELSE IF file[t].remfile = 0 THEN "open" ELSE "write",
                n, file[t].remfile, file[t].sizes)]
  /\ UNCHANGED <<exit_flag, ring, filerest>>

(* ringbuffer_get_read_vector, and the limit to what the file may take.    *)
GetVector(t) ==
  /\ file[t].pc = "loop"
  /\ LET n == Smaller(ring[t], file[t].remfile)
     IN  file' = [file EXCEPT ![t] =
           File(IF ring[t] = 0 THEN "empty"
                ELSE IF file[t].remfile = 0 THEN "open" ELSE "write",
                n, file[t].remfile, file[t].sizes)]
  /\ UNCHANGED <<exit_flag, ring, filerest>>

(* A vector of n bytes goes to a new file.                                 *)
Opened(f, n) ==
  [pc |-> "write", readsize |-> n, left |-> n, remfile |-> SplitSize, late |-> f.late,
   sizes |-> Append(f.sizes, 0)]

\* Mutant: the vector is not cut to the size of the new file.
OpenNoLimit(t) ==
  /\ file[t].pc = "open"
  /\ file' = [file EXCEPT ![t] = Opened(file[t], ring[t] - file[t].late)]
  /\ UNCHANGED <<exit_flag, ring, filerest>>

(* The next file.  Only this thread takes bytes out of the ring buffer, so *)
(* the vector holds what is in it now but what came since.  Sizes count    *)
(* the bytes of the stream, as remfile does, and not what genpsi puts at   *)
(* the head of a .ts file.                                                 *)
Open(t) ==
  /\ file[t].pc = "open"
  /\ LET n == Smaller(ring[t] - file[t].late, SplitSize)
     IN  \/ /\ file' = [file EXCEPT ![t] = Opened(file[t], n)]
            /\ UNCHANGED exit_flag
         \/ /\ file' = [file EXCEPT ![t].pc = "failed"]
            /\ exit_flag' = "WRITE_OPEN_FAILURE"
  /\ UNCHANGED <<ring, filerest>>

(* n bytes of the vector are written; at its end remfile is reduced.       *)
Written(f, n) ==
  [pc |-> IF n = f.left THEN "loop" ELSE "write",
   readsize |-> f.readsize, left |-> f.left - n,
   remfile |-> IF n = f.left THEN f.remfile - f.readsize ELSE f.remfile,
   late |-> f.late,
   sizes |-> [f.sizes EXCEPT ![Len(f.sizes)] = f.sizes[Len(f.sizes)] + n]]

(* write takes some of the bytes and read_advance drops them, or it fails; *)
(* EAGAIN tries again.                                                     *)
Write(t) ==
  /\ file[t].pc = "write"
  /\ \/ \E n \in 1 .. file[t].left :
          /\ ring' = [ring EXCEPT ![t] = ring[t] - n]
          /\ file' = [file EXCEPT ![t] = Written(file[t], n)]
          /\ UNCHANGED exit_flag
     \/ /\ file' = [file EXCEPT ![t].pc = "failed"]
        /\ exit_flag' = "WRITE_FAILURE"
        /\ UNCHANGED ring
  /\ UNCHANGED filerest

\* Mutant: the thread does not look at the flag.
EmptyLoops(t) ==
  /\ file[t].pc = "empty"
  /\ file' = [file EXCEPT ![t].pc = "loop"]
  /\ UNCHANGED <<exit_flag, ring, filerest>>

(* The buffer was empty: the thread ends unless the recording is RUNNING.  *)
Empty(t) ==
  /\ file[t].pc = "empty"
  /\ file' = [file EXCEPT ![t].pc = IF Running THEN "loop" ELSE "done"]
  /\ UNCHANGED <<exit_flag, ring, filerest>>

FileNext(t) == GetVector(t) \/ Open(t) \/ Write(t) \/ Empty(t)
Report(r) == ReportStatus(r) \/ ReportSend(r)

Next ==
  /\ \/ MainNext
     \/ \E t \in Threads : DmxNext(t) \/ FileNext(t)
     \/ \E r \in reports : Report(r)
  /\ UNCHANGED write_ts

Spec == Init /\ [][Next]_vars

(* Every thread is scheduled, a poll returns (it has a timeout) and a      *)
(* write ends or fails (EAGAIN does not go on for ever).  Nothing is       *)
(* assumed about the main thread.                                          *)
Fairness ==
  /\ \A t \in Threads :
       /\ WF_vars(DmxNext(t) /\ UNCHANGED write_ts)
       /\ WF_vars(FileNext(t) /\ UNCHANGED write_ts)
  /\ WF_vars((\E r \in reports : Report(r)) /\ UNCHANGED write_ts)
LiveSpec == Spec /\ Fairness

-----------------------------------------------------------------------------
Live(t) == dmx[t].pc # "gone"

(* The bytes of the stream in the files of t, all but the last one full.   *)
StreamBytes(t) ==
  LET q == file[t].sizes
  IN  IF q = <<>> THEN 0 ELSE (Len(q) - 1) * SplitSize + q[Len(q)]

(* The bytes of the vector in hand that are in the file already.           *)
Partial(t) == IF file[t].left > 0 THEN file[t].readsize - file[t].left ELSE 0

(* The types, with the remark of DMXThread that todo stays positive while  *)
(* bytes are wanted ("IN_SIZE > TS_SIZE => todo > 0").                     *)
TypeOK ==
  /\ exit_flag \in {"IDLE", "RUNNING"} \cup Failures
  /\ busy_count \in 0 .. 255
  /\ myfilename \in [of : 0 .. MaxStarts[write_ts], cut : BOOLEAN]
  /\ demuxfd \subseteq Pids /\ demuxfd_count \in 0 .. NumPids
  /\ record_start_time \in BOOLEAN
  /\ \A t \in Threads :
       /\ dmx[t].pc \in {"vector", "space", "read", "poll"} => dmx[t].todo \in 1 .. InSize
       /\ file[t].pc = "write" => file[t].left \in 1 .. file[t].readsize
       /\ file[t].remfile \in 0 .. SplitSize
       /\ ring[t] \in 0 .. RingSize - 1

(* start_recording touches the name, the filters and the flag of a         *)
(* recording only when no thread of an earlier one is left: every thread   *)
(* that still counts works for the recording myfilename names, and a slot  *)
(* about to be filled by pthread_create is free (transport stream mode).   *)
OneRecording ==
  write_ts => \A t \in Threads :
    /\ Live(t) => dmx[t].of = myfilename.of
    /\ Live(t) => main.pc \notin {"claimed", "setup", "create"}

(* busy_count is the number of DMXThreads, plus one while start_recording  *)
(* prepares them (transport stream mode).                                  *)
BusyExact ==
  write_ts => busy_count = Cardinality({t \in Threads : Live(t)}) +
    (IF \/ main.pc \in {"claimed", "setup", "create"}
        \/ main.pc \in {"load", "store"} /\ main.add = -1
     THEN 1 ELSE 0)

(* Once nobody is busy no demux filter is left open (transport stream      *)
(* mode), however the recording ended.                                     *)
FiltersReleased ==
  write_ts /\ busy_count = 0 /\ main.pc = "idle" => demuxfd = {}

(* Every way through start_recording and the threads gives back what it    *)
(* took, both the busy count and the filters.                              *)
GivenBack == BusyExact /\ FiltersReleased

(* DMXThread reads into the free space it saw at get_write_vector: what it *)
(* still wants always fits beside what FileThread has not taken yet.       *)
NeverOverrun ==
  \A t \in Threads :
    dmx[t].pc = "poll" => dmx[t].todo <= RingSize - 1 - ring[t]

(* Splitting: each file but the last holds exactly splitsize bytes of the  *)
(* stream, in whole packets, and what remains of the last is remfile.      *)
SplitExact ==
  \A t \in Threads : LET q == file[t].sizes IN
    /\ \A i \in 1 .. Len(q) : q[i] <= SplitSize
    /\ \A i \in 1 .. Len(q) - 1 : q[i] = SplitSize
    /\ q # <<>> =>
         q[Len(q)] + file[t].remfile = SplitSize + Partial(t)

(* No byte is lost or written twice: the files and the ring buffer hold    *)
(* what was received, and a FileThread that ended without an error left    *)
(* only bytes that came after its last look at the buffer.                 *)
Drained ==
  \A t \in Threads :
    dmx[t].pc \notin {"gone", "start", "load", "store"} =>
      /\ dmx[t].received = StreamBytes(t) + ring[t]
      /\ file[t].pc = "done" => ring[t] = file[t].late

(* In transport stream mode the recorder is what Recorder describes, the   *)
(* only thing RecordControl knows of it: recordings do not overlap, none   *)
(* ends while its flag is RUNNING, and each reports once.                  *)
Promised == INSTANCE Recorder WITH
  Recordings <- 1 .. MaxStarts[TRUE],
  NoRecording <- 0,
  exit_flag <- IF write_ts THEN exit_flag ELSE "IDLE",
  live <- IF write_ts /\ Live(Dvr) THEN dmx[Dvr].of ELSE 0,
  call <- IF ~write_ts THEN "none"
          ELSE IF \/ main.pc \in {"create", "failed"}
                  \/ main.pc \in {"load", "store"} /\ main.then = "failed"
               THEN "begun"
          ELSE IF main.pc = "stop" THEN "stopping" ELSE "none",
  reports <- IF write_ts THEN reports ELSE {}

ImplementsRecorder == Promised!RecSpec

(* Once the flag of a recording is no longer RUNNING all its threads end,  *)
(* those that were just about to be created too.                           *)
ThreadsEnd == ((\E t \in Threads : Live(t)) /\ ~Running) ~> (\A t \in Threads : ~Live(t))

(* ... and Neutrino is told exactly that this recording ended.             *)
EndReported ==
  \A n \in 1 .. MaxStarts[TRUE] :
    (Live(Reporter) /\ dmx[Reporter].of = n /\ ~Running)
      ~> \E i \in 1 .. Len(events) : events[i].of = n
=============================================================================
