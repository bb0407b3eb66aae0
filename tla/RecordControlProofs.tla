------------------------ MODULE RecordControlProofs ------------------------
(***************************************************************************)
(* Proofs about RecordControl for any timers, any number of recordings and *)
(* of events.                                                              *)
(***************************************************************************)
EXTENDS RecordControl, TLAPS

USE ZenonT(30)

(* Message m is in the queue q.                                            *)
Has(q, m) == \E k \in 1 .. Len(q) : q[k] = m

(* RECORD_START of timer t comes once, and if the timer is over then its   *)
(* RECORD_STOP comes behind it.                                            *)
StartInOrder(q, t, over) ==
  \A j \in 1 .. Len(q) : q[j] = RecordStart(t) =>
    /\ \A k \in 1 .. Len(q) : q[k] = RecordStart(t) => k = j
    /\ over => \E k \in 1 .. Len(q) : k > j /\ q[k] = RecordStop(t)

NoMode(q) == \A k \in 1 .. Len(q) : q[k].msg # "EVT_RECORDMODE"

(* The last EVT_RECORDMODE in q says on.                                   *)
LastMode(q, on) ==
  \E k \in 1 .. Len(q) :
    /\ q[k] = RecordModeMsg(on)
    /\ \A j \in 1 .. Len(q) : j > k => q[j].msg # "EVT_RECORDMODE"

Starting == {"record", "sleep", "setup", "create", "failed"}

(* Where the main thread is, the recorder and the device                   *)
Control ==
  /\ runs \in Nat
  /\ pc = "stopping" =>
       deviceState = "RECORD" /\ (call = "stopping" \/ exit_flag # "RUNNING")
  /\ deviceState = "RECORD" => runs # 0
  /\ exit_flag = "RUNNING" /\ call # "begun" => live # NoRecording
  /\ call = "begun" => exit_flag = "RUNNING" /\ live = NoRecording
  /\ Stoppable

(* Without trouble nothing reports an error, so nothing is restarted.      *)
Harmless == {"none", "IDLE", "RECORDING_THREADS_FAILED"}
HarmlessQueue(q) ==
  \A k \in 1 .. Len(q) : q[k].msg = "EVT_RECORDING_ENDED" => q[k].status \in Harmless
HarmlessBoxes(s) ==
  \A k \in 1 .. Len(s) : /\ s[k].kind # "failed"
                         /\ s[k].kind = "ended" => s[k].status \in Harmless
NoErrors ==
  /\ exit_flag \in {"IDLE", "RUNNING", "RECORDING_THREADS_FAILED"}
  /\ exit_flag = "RECORDING_THREADS_FAILED" => pc = "failed"
  /\ caller # "restart"
  /\ \A r \in reports : r.status \in Harmless
  /\ HarmlessQueue(queue) /\ HarmlessBoxes(boxes)

(* Timer t runs or its RECORD_STOP is on the way.                          *)
Serving(tm, q, t) == t \in Ids /\ (tm[t] = "running" \/ Has(q, RecordStop(t)))

(* The recording that runs, the one that is being started and the pending  *)
(* one have timers of their own.                                           *)
RunningServed ==
  exit_flag = "RUNNING" /\ pc \in {"loop", "close"} => Serving(timer, queue, recording_id)

StartingServed ==
  pc \in Starting /\ caller # "user" =>
    Serving(timer, queue, recording_id) /\ nextRecordingInfo = recording_id

PendingServed ==
  nextRecordingInfo \in Ids =>
    /\ Serving(timer, queue, nextRecordingInfo)
    /\ timer[nextRecordingInfo] # "waiting"
    /\ pc \in {"loop", "close", "stopping"} => nextRecordingInfo # recording_id

(* A timer whose RECORD_START is on the way is not known yet.              *)
StartsServed ==
  \A t \in Ids :
    /\ StartInOrder(queue, t, timer[t] # "running")
    /\ Has(queue, RecordStart(t)) =>
         /\ t \in Timers /\ timer[t] # "waiting"
         /\ nextRecordingInfo # t
         /\ recording_id # t \/ runs = 0

(* recording_id is uninitialized until the first recording.                *)
FirstRecording ==
  /\ runs # 0 => recording_id \in Ids /\ timer[recording_id] # "waiting"
  /\ runs = 0 /\ pc \in {"loop", "close"} =>
       recordingstatus = 0 /\ nextRecordingInfo = NoTimer /\ NoMode(queue)

TimersServe ==
  RunningServed /\ StartingServed /\ PendingServed /\ StartsServed /\ FirstRecording

On(b) == IF b THEN 1 ELSE 0

(* zapit's record mode is on while a recording runs; recordingstatus is    *)
(* the same, or a message that will set it, or the one that will end the   *)
(* recording, is on the way.                                               *)
ModesAgree ==
  /\ pc \in {"loop", "close"} =>
       /\ recordMode <=> exit_flag = "RUNNING"
       /\ \/ LastMode(queue, On(recordMode))
          \/ NoMode(queue) /\ recordingstatus = On(recordMode)
          \/ /\ NoMode(queue) /\ recordingstatus = 0
             /\ recordMode /\ Has(queue, RecordStop(recording_id))
  /\ pc \in {"sleep", "setup", "create"} => recordMode /\ LastMode(queue, 1)

ControlInv ==
  /\ TypeOK /\ Control
  /\ ~trouble => NoErrors /\ TimersServe /\ ModesAgree

-----------------------------------------------------------------------------
(***************************************************************************)
(* Queues                                                                  *)
(***************************************************************************)
LEMMA EmptyIsSeq == \A S : <<>> \in Seq(S)
BY SMTT(30)

(* What the socket has after a message came.                               *)
LEMMA AppendFacts ==
  ASSUME NEW S, NEW q \in Seq(S), NEW e \in S
  PROVE  /\ Append(q, e) \in Seq(S)
         /\ Len(q) \in Nat
         /\ Len(Append(q, e)) = Len(q) + 1
         /\ \A k \in 1 .. Len(q) : Append(q, e)[k] = q[k]
         /\ Append(q, e)[Len(q) + 1] = e
BY SMTT(30)

(* What it has after the main thread took the first one.                   *)
LEMMA TailFacts ==
  ASSUME NEW S, NEW q \in Seq(S), q # <<>>
  PROVE  /\ Head(q) \in S /\ Head(q) = q[1]
         /\ Tail(q) \in Seq(S)
         /\ Len(q) \in Nat /\ Len(q) # 0
         /\ Len(Tail(q)) = Len(q) - 1
         /\ \A k \in 1 .. Len(q) - 1 : Tail(q)[k] = q[k + 1]
BY SMTT(30)

(* Messages stay in the queue and nothing comes but what is posted.        *)
LEMMA HasAppend ==
  ASSUME NEW S, NEW q \in Seq(S), NEW e \in S, NEW m
  PROVE  Has(Append(q, e), m) <=> Has(q, m) \/ m = e
<1> DEFINE p == Append(q, e)
<1>1. /\ Len(q) \in Nat
      /\ Len(p) = Len(q) + 1
      /\ \A k \in 1 .. Len(q) : p[k] = q[k]
      /\ p[Len(q) + 1] = e
  BY AppendFacts, SMTT(30)
<1> HIDE DEF p
<1>2. ASSUME Has(p, m) PROVE Has(q, m) \/ m = e
  <2>1. PICK k \in 1 .. Len(p) : p[k] = m
    BY <1>2 DEF Has
  <2>2. k \in 1 .. Len(q) \/ k = Len(q) + 1
    BY <1>1, SMTT(30)
  <2> QED BY <2>1, <2>2, <1>1 DEF Has
<1>3. ASSUME Has(q, m) PROVE Has(p, m)
  <2>1. PICK k \in 1 .. Len(q) : q[k] = m
    BY <1>3 DEF Has
  <2>2. k \in 1 .. Len(p) /\ p[k] = m
    BY <2>1, <1>1, SMTT(30)
  <2> QED BY <2>2 DEF Has
<1>4. ASSUME m = e PROVE Has(p, m)
  <2>1. Len(q) + 1 \in 1 .. Len(p) /\ p[Len(q) + 1] = m
    BY <1>4, <1>1, SMTT(30)
  <2> QED BY <2>1 DEF Has
<1> QED BY <1>2, <1>3, <1>4 DEF p

(* Only the first message goes.                                            *)
LEMMA HasTail ==
  ASSUME NEW S, NEW q \in Seq(S), q # <<>>, NEW m
  PROVE  /\ Has(q, m) => m = Head(q) \/ Has(Tail(q), m)
         /\ Has(Tail(q), m) => Has(q, m)
         /\ Has(q, Head(q))
<1> DEFINE p == Tail(q)
<1>1. /\ Head(q) = q[1]
      /\ Len(q) \in Nat /\ Len(q) # 0
      /\ Len(p) = Len(q) - 1
      /\ \A k \in 1 .. Len(q) - 1 : p[k] = q[k + 1]
  BY TailFacts
<1> HIDE DEF p
<1>2. ASSUME Has(q, m) PROVE m = Head(q) \/ Has(p, m)
  <2>1. PICK k \in 1 .. Len(q) : q[k] = m
    BY <1>2 DEF Has
  <2>2. k = 1 \/ (k - 1 \in 1 .. Len(p) /\ p[k - 1] = m)
    BY <2>1, <1>1, SMTT(30)
  <2> QED BY <2>1, <2>2, <1>1 DEF Has
<1>3. ASSUME Has(p, m) PROVE Has(q, m)
  <2>1. PICK k \in 1 .. Len(p) : p[k] = m
    BY <1>3 DEF Has
  <2>2. k + 1 \in 1 .. Len(q) /\ q[k + 1] = m
    BY <2>1, <1>1, SMTT(30)
  <2> QED BY <2>2 DEF Has
<1>4. Has(q, Head(q))
  BY <1>1, SMTT(30) DEF Has
<1> QED BY <1>2, <1>3, <1>4 DEF p

(* RECORD_START and RECORD_STOP of a timer come in order, whatever else    *)
(* comes between them.                                                     *)
LEMMA StartAppend ==
  ASSUME NEW S, NEW q \in Seq(S), NEW e \in S, NEW t
  PROVE  /\ \A o \in BOOLEAN : e # RecordStart(t) /\ StartInOrder(q, t, o)
              => StartInOrder(Append(q, e), t, o)
         /\ e = RecordStop(t) /\ StartInOrder(q, t, FALSE)
              => StartInOrder(Append(q, e), t, TRUE)
         /\ e = RecordStart(t) /\ ~Has(q, e) => StartInOrder(Append(q, e), t, FALSE)
<1> DEFINE p == Append(q, e)
<1>1. /\ Len(q) \in Nat
      /\ Len(p) = Len(q) + 1
      /\ \A k \in 1 .. Len(q) : p[k] = q[k]
      /\ p[Len(q) + 1] = e
  BY AppendFacts, SMTT(30)
<1>2. RecordStart(t) # RecordStop(t)
  BY DEF RecordStart, RecordStop
<1> HIDE DEF p
<1>3. ASSUME NEW o \in BOOLEAN, e # RecordStart(t), StartInOrder(q, t, o)
      PROVE  StartInOrder(p, t, o)
  BY <1>1, <1>3, SMTT(30) DEF StartInOrder
<1>4. ASSUME e = RecordStop(t), StartInOrder(q, t, FALSE)
      PROVE  StartInOrder(p, t, TRUE)
  BY <1>1, <1>2, <1>4, SMTT(30) DEF StartInOrder
<1>5. ASSUME e = RecordStart(t), ~Has(q, e)
      PROVE  StartInOrder(p, t, FALSE)
  BY <1>1, <1>5, SMTT(30) DEF StartInOrder, Has
<1> QED BY <1>3, <1>4, <1>5 DEF p

LEMMA StartTail ==
  ASSUME NEW S, NEW q \in Seq(S), q # <<>>, NEW t, NEW o \in BOOLEAN,
         StartInOrder(q, t, o)
  PROVE  /\ StartInOrder(Tail(q), t, o)
         /\ Head(q) = RecordStart(t) =>
              /\ ~Has(Tail(q), RecordStart(t))
              /\ o => Has(Tail(q), RecordStop(t))
<1> DEFINE p == Tail(q)
<1>1. /\ Head(q) = q[1]
      /\ Len(q) \in Nat /\ Len(q) # 0
      /\ Len(p) = Len(q) - 1
      /\ \A k \in 1 .. Len(q) - 1 : p[k] = q[k + 1]
  BY TailFacts
<1> HIDE DEF p
<1>2. ASSUME NEW j \in 1 .. Len(p), p[j] = RecordStart(t)
      PROVE  /\ \A k \in 1 .. Len(p) : p[k] = RecordStart(t) => k = j
             /\ o => \E k \in 1 .. Len(p) : k > j /\ p[k] = RecordStop(t)
  <2>1. j + 1 \in 1 .. Len(q) /\ q[j + 1] = RecordStart(t)
    BY <1>1, <1>2, SMTT(30)
  <2>2. /\ \A k \in 1 .. Len(q) : q[k] = RecordStart(t) => k = j + 1
        /\ o => \E k \in 1 .. Len(q) : k > j + 1 /\ q[k] = RecordStop(t)
    BY <2>1 DEF StartInOrder
  <2>3. \A k \in 1 .. Len(p) : p[k] = RecordStart(t) => k = j
    <3> SUFFICES ASSUME NEW k \in 1 .. Len(p), p[k] = RecordStart(t)
                 PROVE  k = j
      OBVIOUS
    <3>1. k + 1 \in 1 .. Len(q) /\ q[k + 1] = RecordStart(t)
      BY <1>1, SMTT(30)
    <3> QED BY <2>2, <3>1, SMTT(30)
  <2>4. ASSUME o PROVE \E k \in 1 .. Len(p) : k > j /\ p[k] = RecordStop(t)
    <3>1. PICK k \in 1 .. Len(q) : k > j + 1 /\ q[k] = RecordStop(t)
      BY <2>2, <2>4
    <3>2. k - 1 \in 1 .. Len(p) /\ k - 1 > j /\ p[k - 1] = RecordStop(t)
      BY <3>1, <1>1, SMTT(30)
    <3> QED BY <3>2
  <2> QED BY <2>3, <2>4
<1>3. StartInOrder(p, t, o)
  BY <1>2 DEF StartInOrder
<1>4. ASSUME Head(q) = RecordStart(t)
      PROVE  ~Has(p, RecordStart(t)) /\ (o => Has(p, RecordStop(t)))
  <2>1. 1 \in 1 .. Len(q) /\ q[1] = RecordStart(t)
    BY <1>1, <1>4, SMTT(30)
  <2>2. /\ \A k \in 1 .. Len(q) : q[k] = RecordStart(t) => k = 1
        /\ o => \E k \in 1 .. Len(q) : k > 1 /\ q[k] = RecordStop(t)
    BY <2>1 DEF StartInOrder
  <2>3. ~Has(p, RecordStart(t))
    <3> SUFFICES ASSUME NEW k \in 1 .. Len(p), p[k] = RecordStart(t)
                 PROVE  FALSE
      BY DEF Has
    <3>1. k + 1 \in 1 .. Len(q) /\ q[k + 1] = RecordStart(t)
      BY <1>1, SMTT(30)
    <3> QED BY <2>2, <3>1, SMTT(30)
  <2>4. ASSUME o PROVE Has(p, RecordStop(t))
    <3>1. PICK k \in 1 .. Len(q) : k > 1 /\ q[k] = RecordStop(t)
      BY <2>2, <2>4
    <3>2. k - 1 \in 1 .. Len(p) /\ p[k - 1] = RecordStop(t)
      BY <3>1, <1>1, SMTT(30)
    <3> QED BY <3>2 DEF Has
  <2> QED BY <2>3, <2>4
<1> QED BY <1>3, <1>4 DEF p

(* What zapit's EVT_RECORDMODEs add up to.                                 *)
LEMMA ModeAppend ==
  ASSUME NEW S, NEW q \in Seq(S), NEW e \in S, NEW on
  PROVE  /\ e.msg # "EVT_RECORDMODE" /\ NoMode(q) => NoMode(Append(q, e))
         /\ e.msg # "EVT_RECORDMODE" /\ LastMode(q, on) => LastMode(Append(q, e), on)
         /\ e = RecordModeMsg(on) => LastMode(Append(q, e), on)
<1> DEFINE p == Append(q, e)
<1>1. /\ Len(q) \in Nat
      /\ Len(p) = Len(q) + 1
      /\ \A k \in 1 .. Len(q) : p[k] = q[k]
      /\ p[Len(q) + 1] = e
  BY AppendFacts, SMTT(30)
<1> HIDE DEF p
<1>2. ASSUME e.msg # "EVT_RECORDMODE", NoMode(q) PROVE NoMode(p)
  BY <1>1, <1>2, SMTT(30) DEF NoMode
<1>3. ASSUME e.msg # "EVT_RECORDMODE", LastMode(q, on) PROVE LastMode(p, on)
  <2>1. PICK k \in 1 .. Len(q) :
          /\ q[k] = RecordModeMsg(on)
          /\ \A j \in 1 .. Len(q) : j > k => q[j].msg # "EVT_RECORDMODE"
    BY <1>3 DEF LastMode
  <2>2. k \in 1 .. Len(p) /\ p[k] = RecordModeMsg(on)
    BY <2>1, <1>1, SMTT(30)
  <2>3. \A j \in 1 .. Len(p) : j > k => p[j].msg # "EVT_RECORDMODE"
    BY <2>1, <1>1, <1>3, SMTT(30)
  <2> QED BY <2>2, <2>3 DEF LastMode
<1>4. ASSUME e = RecordModeMsg(on) PROVE LastMode(p, on)
  <2>1. Len(q) + 1 \in 1 .. Len(p) /\ p[Len(q) + 1] = RecordModeMsg(on)
    BY <1>1, <1>4, SMTT(30)
  <2>2. \A j \in 1 .. Len(p) : ~(j > Len(q) + 1)
    BY <1>1, SMTT(30)
  <2> QED BY <2>1, <2>2 DEF LastMode
<1> QED BY <1>2, <1>3, <1>4 DEF p

LEMMA ModeTail ==
  ASSUME NEW S, NEW q \in Seq(S), q # <<>>, NEW on
  PROVE  /\ NoMode(q) => NoMode(Tail(q)) /\ Head(q).msg # "EVT_RECORDMODE"
         /\ LastMode(q, on) =>
              \/ LastMode(Tail(q), on)
              \/ NoMode(Tail(q)) /\ Head(q) = RecordModeMsg(on)
<1> DEFINE p == Tail(q)
<1>1. /\ Head(q) = q[1]
      /\ Len(q) \in Nat /\ Len(q) # 0
      /\ Len(p) = Len(q) - 1
      /\ \A k \in 1 .. Len(q) - 1 : p[k] = q[k + 1]
  BY TailFacts
<1> HIDE DEF p
<1>2. ASSUME NoMode(q) PROVE NoMode(p) /\ Head(q).msg # "EVT_RECORDMODE"
  <2>1. \A k \in 1 .. Len(p) : k + 1 \in 1 .. Len(q) /\ p[k] = q[k + 1]
    BY <1>1, SMTT(30)
  <2> QED BY <2>1, <1>1, <1>2, SMTT(30) DEF NoMode
<1>3. ASSUME LastMode(q, on)
      PROVE  LastMode(p, on) \/ (NoMode(p) /\ Head(q) = RecordModeMsg(on))
  <2>1. PICK k \in 1 .. Len(q) :
          /\ q[k] = RecordModeMsg(on)
          /\ \A j \in 1 .. Len(q) : j > k => q[j].msg # "EVT_RECORDMODE"
    BY <1>3 DEF LastMode
  <2>2. \A j \in 1 .. Len(p) : j + 1 > k => p[j].msg # "EVT_RECORDMODE"
    <3> SUFFICES ASSUME NEW j \in 1 .. Len(p), j + 1 > k
                 PROVE  p[j].msg # "EVT_RECORDMODE"
      OBVIOUS
    <3>1. j + 1 \in 1 .. Len(q) /\ p[j] = q[j + 1]
      BY <1>1, SMTT(30)
    <3> QED BY <2>1, <3>1
  <2>3. CASE k = 1
    BY <2>1, <2>2, <2>3, <1>1, SMTT(30) DEF NoMode
  <2>4. CASE k # 1
    <3>1. k - 1 \in 1 .. Len(p) /\ p[k - 1] = RecordModeMsg(on)
      BY <2>1, <2>4, <1>1, SMTT(30)
    <3>2. \A j \in 1 .. Len(p) : j > k - 1 => p[j].msg # "EVT_RECORDMODE"
      BY <2>2, SMTT(30)
    <3> QED BY <3>1, <3>2 DEF LastMode
  <2> QED BY <2>3, <2>4
<1> QED BY <1>2, <1>3 DEF p

(* The four messages, and what a message with a given name is.             *)
LEMMA MessageFacts ==
  /\ \A t \in Ids : RecordStart(t) \in Messages /\ RecordStop(t) \in Messages
  /\ RecordModeMsg(0) \in Messages /\ RecordModeMsg(1) \in Messages
  /\ \A s \in Statuses : RecordingEnded(s) \in Messages
BY DEF Messages, RecordStart, RecordStop, RecordModeMsg, RecordingEnded

LEMMA MessageKinds ==
  ASSUME NEW m \in Messages
  PROVE  /\ m.msg = "RECORD_START" => m.id \in Ids /\ m = RecordStart(m.id)
         /\ m.msg = "RECORD_STOP" => m.id \in Ids /\ m = RecordStop(m.id)
         /\ m.msg = "EVT_RECORDMODE" => m.data \in {0, 1} /\ m = RecordModeMsg(m.data)
         /\ m.msg = "EVT_RECORDING_ENDED" =>
              m.status \in Statuses /\ m = RecordingEnded(m.status)
<1>1. CASE m \in [msg : {"RECORD_START", "RECORD_STOP"}, id : Ids]
  BY <1>1 DEF RecordStart, RecordStop
<1>2. CASE m \in [msg : {"EVT_RECORDMODE"}, data : {0, 1}]
  BY <1>2 DEF RecordModeMsg
<1>3. CASE m \in [msg : {"EVT_RECORDING_ENDED"}, status : Statuses]
  BY <1>3 DEF RecordingEnded
<1> QED BY <1>1, <1>2, <1>3 DEF Messages

(* The messages of different kinds and of different timers differ.         *)
LEMMA MessagesDiffer ==
  /\ \A t, u : RecordStart(t) # RecordStop(u)
  /\ \A t, u : RecordStart(t) = RecordStart(u) => t = u
  /\ \A t, u : RecordStop(t) = RecordStop(u) => t = u
  /\ \A t, d : RecordStart(t) # RecordModeMsg(d) /\ RecordStop(t) # RecordModeMsg(d)
  /\ \A d, e : RecordModeMsg(d) = RecordModeMsg(e) => d = e
  /\ \A t, s : RecordStart(t) # RecordingEnded(s) /\ RecordStop(t) # RecordingEnded(s)
  /\ \A t : RecordStart(t).msg = "RECORD_START" /\ RecordStop(t).msg = "RECORD_STOP"
  /\ \A d : RecordModeMsg(d).msg = "EVT_RECORDMODE" /\ RecordModeMsg(d).data = d
  /\ \A s : RecordingEnded(s).msg = "EVT_RECORDING_ENDED" /\ RecordingEnded(s).status = s
BY DEF RecordStart, RecordStop, RecordModeMsg, RecordingEnded

(* A box is put on the stack, and the top one is taken off.                *)
LEMMA BoxFacts ==
  /\ \A s \in Statuses : [kind |-> "ended", status |-> s] \in Boxes
  /\ \A c \in Callers : [kind |-> "failed", by |-> c] \in Boxes
  /\ [kind |-> "standby"] \in Boxes
BY DEF Boxes

LEMMA TopFacts ==
  ASSUME NEW S, NEW q \in Seq(S), q # <<>>
  PROVE  /\ q[Len(q)] \in S
         /\ SubSeq(q, 1, Len(q) - 1) \in Seq(S)
         /\ Len(q) \in Nat /\ Len(q) # 0
         /\ Len(SubSeq(q, 1, Len(q) - 1)) = Len(q) - 1
         /\ \A k \in 1 .. Len(q) - 1 : SubSeq(q, 1, Len(q) - 1)[k] = q[k]
<1>1. Len(q) \in Nat /\ Len(q) # 0
  BY SMTT(30)
<1>2. \A k \in 1 .. Len(q) - 1 : q[k] \in S
  BY <1>1, SMTT(30)
<1>3. q[Len(q)] \in S
  BY <1>1, SMTT(30)
<1> DEFINE n == Len(q) - 1
           p == SubSeq(q, 1, n)
<1>4. n \in Int /\ \A k \in 1 .. n : q[k] \in S
  BY <1>1, <1>2, SMTT(30)
<1> HIDE DEF n
<1>5. /\ p \in Seq(S)
      /\ Len(p) = IF 1 <= n THEN n - 1 + 1 ELSE 0
      /\ \A i \in 1 .. n - 1 + 1 : p[i] = q[1 + i - 1]
  BY <1>4, SMTT(30)
<1> HIDE DEF p
<1>6. n \in Nat
  BY <1>1, SMTT(30) DEF n
<1>7. Len(p) = n /\ \A i \in 1 .. n : p[i] = q[i]
  BY <1>5, <1>6, SMTT(30)
<1> QED BY <1>1, <1>3, <1>5, <1>7 DEF p, n

-----------------------------------------------------------------------------
(***************************************************************************)
(* Types and control                                                       *)
(***************************************************************************)
LEMMA InitType == Init => TypeOK
BY EmptyIsSeq DEF Init, RecInit, TypeOK, Statuses, Callers

(* What a closing box leaves.                                              *)
LEMMA ClosingFacts ==
  ASSUME TypeOK, NEW kind, Closing(kind)
  PROVE  boxes' \in Seq(Boxes) /\ Top \in Boxes /\ Top.kind = kind
BY TopFacts DEF TypeOK, Closing, Top

LEMMA BoxKinds ==
  ASSUME NEW b \in Boxes
  PROVE  /\ b.kind \in {"ended", "failed", "standby"}
         /\ b.kind = "ended" => b.status \in Statuses
         /\ b.kind = "failed" => b.by \in Callers
<1>1. CASE b \in [kind : {"ended"}, status : Statuses]
  BY <1>1
<1>2. CASE b \in [kind : {"failed"}, by : Callers]
  BY <1>2
<1>3. CASE b \in [kind : {"standby"}]
  BY <1>3
<1> QED BY <1>1, <1>2, <1>3 DEF Boxes

(* StopTimerEvent and StartNextRecording, as far as the types go.          *)
LEMMA StopTimerType ==
  ASSUME TypeOK, NEW t, StopTimerEvent(t, queue)
  PROVE  queue' \in Seq(Messages) /\ timer' \in [Ids -> {"waiting", "running", "over"}]
<1>1. CASE t \in Ids /\ timer[t] = "running"
  <2>1. RecordStop(t) \in Messages
    BY <1>1, MessageFacts
  <2>2. Append(queue, RecordStop(t)) \in Seq(Messages)
    BY <2>1, AppendFacts DEF TypeOK
  <2>3. queue' = Append(queue, RecordStop(t)) /\ timer' = [timer EXCEPT ![t] = "over"]
    BY <1>1 DEF StopTimerEvent
  <2>4. timer \in [Ids -> {"waiting", "running", "over"}]
    BY DEF TypeOK
  <2> QED BY <1>1, <2>2, <2>3, <2>4
<1>2. CASE ~(t \in Ids /\ timer[t] = "running")
  BY <1>2 DEF TypeOK, StopTimerEvent
<1> QED BY <1>1, <1>2

LEMMA StartNextType ==
  ASSUME TypeOK, NEW status, NEW next \in Ids \cup {NoTimer}, NEW by \in Callers,
         StartNextRecording(status, next, by)
  PROVE  /\ recording_id' \in Ids \cup {NoTimer}
         /\ caller' \in Callers
         /\ pc' \in {"loop", "close", "record"}
BY DEF TypeOK, StartNextRecording, Return, Call

LEMMA HandlingFacts ==
  ASSUME TypeOK, NEW m, Handling(m)
  PROVE  /\ pc = "loop" /\ queue # <<>> /\ Head(queue) \in Messages
         /\ Head(queue).msg = m
         /\ Tail(queue) \in Seq(Messages)
BY TailFacts DEF TypeOK, Handling

(* A message comes in.                                                     *)
LEMMA PostFacts ==
  ASSUME TypeOK, NEW m \in Messages, Post(m)
  PROVE  queue' = Append(queue, m) /\ queue' \in Seq(Messages)
BY AppendFacts DEF TypeOK, Post

LEMMA TypeStep == TypeOK /\ [Next]_vars => TypeOK'
<1> SUFFICES ASSUME TypeOK, [Next]_vars PROVE TypeOK'
  OBVIOUS
<1> USE DEF vars, recvars, appvars, modes, bounds, others
<1>1. ASSUME NEW t \in Ids, TimerFires(t) PROVE TypeOK'
  <2>1. queue' \in Seq(Messages)
    BY <1>1, MessageFacts, PostFacts DEF TimerFires
  <2> QED BY <1>1, <2>1 DEF TypeOK, TimerFires
<1>2. ASSUME NEW t \in Ids, TimerEnds(t) PROVE TypeOK'
  <2>1. queue' \in Seq(Messages)
    BY <1>2, MessageFacts, PostFacts DEF TimerEnds
  <2> QED BY <1>2, <2>1 DEF TypeOK, TimerEnds
<1>3. CASE HandleRecordStart
  <2>1. /\ Head(queue).id \in Ids /\ Tail(queue) \in Seq(Messages)
        /\ pc = "loop"
    BY <1>3, HandlingFacts, MessageKinds DEF HandleRecordStart
  <2>2. /\ recording_id' \in Ids \cup {NoTimer}
        /\ caller' \in Callers
        /\ pc' \in {"loop", "close", "record"}
    BY <1>3, <2>1, StartNextType DEF HandleRecordStart, Callers
  <2> QED BY <1>3, <2>1, <2>2 DEF TypeOK, HandleRecordStart
<1>4. CASE HandleRecordStop
  <2>1. Tail(queue) \in Seq(Messages) /\ pc = "loop"
    BY <1>4, HandlingFacts DEF HandleRecordStop
  <2>2. CASE StartNextRecording(recordingstatus, nextRecordingInfo, "stop")
             /\ UNCHANGED <<nextRecordingInfo, recvars>>
    <3>1. /\ recording_id' \in Ids \cup {NoTimer}
          /\ caller' \in Callers
          /\ pc' \in {"loop", "close", "record"}
      BY <2>2, StartNextType DEF TypeOK, Callers
    <3> QED BY <1>4, <2>1, <2>2, <3>1 DEF TypeOK, HandleRecordStop
  <2>3. CASE /\ IF exit_flag = "RUNNING" THEN StopRunning ELSE UNCHANGED recvars
             /\ pc' = "stopping"
             /\ UNCHANGED <<recording_id, nextRecordingInfo, caller>>
    BY <1>4, <2>1, <2>3 DEF TypeOK, HandleRecordStop, StopRunning
  <2>4. CASE /\ nextRecordingInfo' \in {NoTimer, nextRecordingInfo}
             /\ UNCHANGED <<recording_id, pc, caller, recvars>>
    BY <1>4, <2>1, <2>4 DEF TypeOK, HandleRecordStop
  <2> QED BY <1>4, <2>2, <2>3, <2>4 DEF HandleRecordStop
<1>5. CASE HandleRecordMode
  <2>1. /\ Head(queue).data \in {0, 1} /\ Tail(queue) \in Seq(Messages)
        /\ pc = "loop"
    BY <1>5, HandlingFacts, MessageKinds DEF HandleRecordMode
  <2> QED BY <1>5, <2>1 DEF TypeOK, HandleRecordMode
<1>6. CASE HandleRecordingEnded
  <2>1. /\ Head(queue).status \in Statuses /\ Tail(queue) \in Seq(Messages)
        /\ pc = "loop"
    BY <1>6, HandlingFacts, MessageKinds DEF HandleRecordingEnded
  <2>2. boxes' \in Seq(Boxes)
    BY <1>6, <2>1, BoxFacts, AppendFacts DEF HandleRecordingEnded, TypeOK
  <2> QED BY <1>6, <2>1, <2>2 DEF TypeOK, HandleRecordingEnded
<1>7. CASE Stop
  <2>1. queue' \in Seq(Messages)
    BY <1>7, MessageFacts, PostFacts DEF Stop
  <2>2. /\ recording_id' \in Ids \cup {NoTimer}
        /\ caller' \in Callers
        /\ pc' \in {"loop", "close", "record"}
    BY <1>7, StartNextType DEF Stop, TypeOK, Callers
  <2> QED BY <1>7, <2>1, <2>2 DEF TypeOK, Stop, StopDone, Statuses
<1>8. CASE CutBackNeutrino
  <2>1. queue' \in Seq(Messages)
    BY <1>8, MessageFacts, PostFacts DEF CutBackNeutrino
  <2> QED BY <1>8, <2>1 DEF TypeOK, CutBackNeutrino
<1>9. CASE Attempt2
  BY <1>9 DEF TypeOK, Attempt2
<1>10. CASE Refused
  BY <1>10 DEF TypeOK, Refused
<1>11. CASE Setup
  BY <1>11 DEF TypeOK, Setup, Begin, Statuses
<1>12. CASE NoThread
  BY <1>12 DEF TypeOK, NoThread, LaunchFails, Statuses
<1>13. CASE Recording
  <2>1. /\ {recording_id, nextRecordingInfo}' \subseteq Ids \cup {NoTimer}
        /\ pc' \in {"loop", "close"} /\ caller' \in Callers
        /\ recordingstatus' \in {0, 1}
        /\ timer' \in [Ids -> {"waiting", "running", "over"}]
    BY <1>13 DEF TypeOK, Recording, Return, Ids, Callers
  <2> QED BY <1>13, <2>1 DEF TypeOK, Recording, Launch
<1>14. CASE RecordFails
  <2>1. queue' \in Seq(Messages)
    BY <1>14, MessageFacts, PostFacts DEF RecordFails
  <2>2. boxes' \in Seq(Boxes)
    BY <1>14, BoxFacts, AppendFacts DEF RecordFails, TypeOK
  <2> QED BY <1>14, <2>1, <2>2 DEF TypeOK, RecordFails, Callers
<1>15. CASE EndedClosed
  <2>1. boxes' \in Seq(Boxes) /\ pc \in {"loop", "close"}
    BY <1>15, ClosingFacts DEF EndedClosed, Closing
  <2>2. CASE pc' = "loop" /\ UNCHANGED <<recording_id, timer, queue, caller>>
    BY <1>15, <2>1, <2>2 DEF TypeOK, EndedClosed
  <2>3. CASE Call("restart") /\ UNCHANGED <<recording_id, timer, queue>>
    BY <1>15, <2>1, <2>3 DEF TypeOK, EndedClosed, Call, Callers
  <2>4. CASE /\ StopTimerEvent(recording_id, queue)
             /\ StartNextRecording(0, nextRecordingInfo, "guistop")
    <3>1. /\ recording_id' \in Ids \cup {NoTimer}
          /\ caller' \in Callers
          /\ pc' \in {"loop", "close", "record"}
      BY <2>4, StartNextType DEF TypeOK, Callers
    <3>2. queue' \in Seq(Messages) /\ timer' \in [Ids -> {"waiting", "running", "over"}]
      BY <2>4, StopTimerType
    <3> QED BY <1>15, <2>1, <3>1, <3>2 DEF TypeOK, EndedClosed
  <2> QED BY <1>15, <2>2, <2>3, <2>4 DEF EndedClosed
<1>16. CASE FailedClosed
  <2>1. boxes' \in Seq(Boxes) /\ pc \in {"loop", "close"}
    BY <1>16, ClosingFacts DEF FailedClosed, Closing
  <2>2. pc' \in {"loop", "close"}
    BY <1>16 DEF FailedClosed, Return
  <2> QED BY <1>16, <2>1, <2>2 DEF TypeOK, FailedClosed
<1>17. CASE StandbyClosed
  <2>1. boxes' \in Seq(Boxes) /\ pc \in {"loop", "close"}
    BY <1>17, ClosingFacts DEF StandbyClosed, Closing
  <2> QED BY <1>17, <2>1 DEF TypeOK, StandbyClosed
<1>18. CASE Toggle
  <2>0. recordingstatus' \in {0, 1}
    <3>1. recordingstatus \in {0, 1} /\ recordingstatus' = 1 - recordingstatus
      BY <1>18 DEF TypeOK, Toggle
    <3> QED BY <3>1, SMTT(30)
  <2>1. recordingstatus' \in {0, 1} /\ pc = "loop" /\ boxes' \in Seq(Boxes)
    <3>1. pc = "loop" /\ boxes' = boxes
      BY <1>18 DEF Toggle, Key
    <3> QED BY <2>0, <3>1 DEF TypeOK
  <2>2. CASE Call("user") /\ UNCHANGED <<recording_id, timer, queue, boxes>>
    BY <1>18, <2>1, <2>2 DEF TypeOK, Toggle, Call, Callers
  <2>3. CASE /\ StopTimerEvent(recording_id, queue)
             /\ StartNextRecording(0, nextRecordingInfo, "guistop")
    <3>1. /\ recording_id' \in Ids \cup {NoTimer}
          /\ caller' \in Callers
          /\ pc' \in {"loop", "close", "record"}
      BY <2>3, StartNextType DEF TypeOK, Callers
    <3>2. queue' \in Seq(Messages) /\ timer' \in [Ids -> {"waiting", "running", "over"}]
      BY <2>3, StopTimerType
    <3> QED BY <1>18, <2>1, <3>1, <3>2 DEF TypeOK, Toggle
  <2> QED BY <1>18, <2>2, <2>3 DEF Toggle
<1>19. CASE StandbyOn
  <2>1. boxes' \in Seq(Boxes)
    BY <1>19, BoxFacts, AppendFacts, SMTT(30) DEF StandbyOn, TypeOK
  <2> QED BY <1>19, <2>1 DEF TypeOK, StandbyOn
<1>20. CASE StandbyOff
  BY <1>20 DEF TypeOK, StandbyOff
<1>21. CASE RecorderFails
  BY <1>21 DEF TypeOK, RecorderFails, Fail, Statuses
<1>22. CASE RecorderEnds
  <2>1. reports' \subseteq [of : Recordings, status : Statuses \cup {"none"}]
    BY <1>22, SMTT(30) DEF TypeOK, RecorderEnds, End
  <2> QED BY <1>22, <2>1 DEF TypeOK, RecorderEnds, End
<1>23. ASSUME NEW r \in reports, Reports(r) PROVE TypeOK'
  <2>1. reports' \subseteq [of : Recordings, status : Statuses \cup {"none"}]
    BY <1>23 DEF TypeOK, Reports, ReadStatus
  <2>2. trouble' \in BOOLEAN
    BY <1>23 DEF Reports
  <2> QED BY <1>23, <2>1, <2>2 DEF TypeOK, Reports, ReadStatus
<1>24. ASSUME NEW r \in reports, Sends(r) PROVE TypeOK'
  <2>1. r.status \in Statuses
    BY <1>24 DEF TypeOK, Sends, Send
  <2>2. queue' \in Seq(Messages)
    BY <1>24, <2>1, MessageFacts, PostFacts DEF Sends
  <2> QED BY <1>24, <2>2 DEF TypeOK, Sends, Send
<1>25. CASE UNCHANGED vars
  BY <1>25 DEF TypeOK
<1> QED
  BY <1>1, <1>2, <1>3, <1>4, <1>5, <1>6, <1>7, <1>8, <1>9, <1>10, <1>11, <1>12,
     <1>13, <1>14, <1>15, <1>16, <1>17, <1>18, <1>19, <1>20, <1>21, <1>22, <1>23,
     <1>24, <1>25
  DEF Next, Timerd, Handler, CloseBox, User, RecorderEnding

(* Neutrino uses the recorder the way Recorder allows: it starts one only  *)
(* after the last one has given up its threads, sets the flag to RUNNING   *)
(* before it creates a thread, and calls stop_recording while it runs.     *)
THEOREM UsesRecorder == Spec => RecSpec
<1> USE DEF recvars
<1>1. Init => RecInit
  BY DEF Init
<1>2. [Next]_vars => [RecNext]_recvars
  <2> SUFFICES ASSUME [Next]_vars PROVE RecNext \/ UNCHANGED recvars
    OBVIOUS
  <2>1. CASE Timerd
    BY <2>1 DEF Timerd, TimerFires, TimerEnds
  <2>2. CASE Handler
    <3>1. CASE HandleRecordStop
      BY <3>1 DEF HandleRecordStop, RecNext
    <3>2. CASE Stop
      BY <3>2 DEF Stop, RecNext
    <3>3. CASE Recording
      BY <3>3 DEF Recording, RecNext
    <3>4. CASE Setup \/ NoThread
      BY <3>4 DEF Setup, NoThread, RecNext
    <3>5. CASE \/ HandleRecordStart \/ HandleRecordMode \/ HandleRecordingEnded
               \/ CutBackNeutrino \/ Attempt2 \/ Refused \/ RecordFails
      BY <3>5 DEF HandleRecordStart, HandleRecordMode, HandleRecordingEnded,
                  CutBackNeutrino, Attempt2, Refused, RecordFails
    <3> QED BY <2>2, <3>1, <3>2, <3>3, <3>4, <3>5 DEF Handler
  <2>3. CASE CloseBox
    BY <2>3 DEF CloseBox, EndedClosed, FailedClosed, StandbyClosed
  <2>4. CASE User
    BY <2>4 DEF User, Toggle, StandbyOn, StandbyOff
  <2>5. CASE RecorderFails \/ RecorderEnding
    BY <2>5 DEF RecorderFails, RecorderEnding, RecorderEnds, Reports, Sends, RecNext
  <2>6. CASE UNCHANGED vars
    BY <2>6 DEF vars
  <2> QED BY <2>1, <2>2, <2>3, <2>4, <2>5, <2>6 DEF Next
<1> QED BY <1>1, <1>2, PTL DEF Spec, RecSpec

LEMMA InitControl == Init => Control
BY SMTT(30) DEF Init, RecInit, Control, Stoppable

LEMMA ControlStep == TypeOK /\ Control /\ [Next]_vars => Control'
<1> SUFFICES ASSUME TypeOK, Control, [Next]_vars PROVE Control'
  OBVIOUS
<1> USE DEF vars, recvars, appvars, modes, bounds, others, Control, Stoppable, TypeOK
<1>1. CASE Timerd
  BY <1>1 DEF Timerd, TimerFires, TimerEnds
<1>2. CASE HandleRecordStart
  BY <1>2 DEF HandleRecordStart, StartNextRecording, Return, Call, Handling
<1>3. CASE HandleRecordStop
  BY <1>3
     DEF HandleRecordStop, StartNextRecording, Return, Call, StopRunning, Handling
<1>4. CASE HandleRecordMode
  BY <1>4 DEF HandleRecordMode, Handling
<1>5. CASE HandleRecordingEnded
  BY <1>5 DEF HandleRecordingEnded, Handling
<1>6. CASE Stop
  BY <1>6 DEF Stop, StopDone, StartNextRecording, Return, Call
<1>7. CASE CutBackNeutrino \/ Attempt2 \/ Refused
  BY <1>7 DEF CutBackNeutrino, Attempt2, Refused
<1>8. CASE Setup \/ NoThread
  BY <1>8 DEF Setup, NoThread, Begin, LaunchFails
<1>9. CASE Recording
  BY <1>9, RecordingsAssumption, SMTT(30) DEF Recording, Launch, Return
<1>10. CASE RecordFails
  BY <1>10 DEF RecordFails
<1>11. CASE EndedClosed
  BY <1>11 DEF EndedClosed, Closing, StartNextRecording, Return, Call
<1>12. CASE FailedClosed \/ StandbyClosed
  BY <1>12 DEF FailedClosed, StandbyClosed, Closing, Return
<1>13. CASE Toggle
  BY <1>13 DEF Toggle, Key, StartNextRecording, Return, Call
<1>14. CASE StandbyOn \/ StandbyOff
  BY <1>14 DEF StandbyOn, StandbyOff
<1>15. CASE RecorderFails
  BY <1>15, RecordingsAssumption DEF RecorderFails, Fail
<1>16. CASE RecorderEnding
  BY <1>16
     DEF RecorderEnding, RecorderEnds, Reports, Sends, End, ReadStatus, Send
<1>17. CASE UNCHANGED vars
  BY <1>17
<1> QED
  BY <1>1, <1>2, <1>3, <1>4, <1>5, <1>6, <1>7, <1>8, <1>9, <1>10, <1>11, <1>12,
     <1>13, <1>14, <1>15, <1>16, <1>17
  DEF Next, Handler, CloseBox, User

-----------------------------------------------------------------------------
(***************************************************************************)
(* Without trouble: reports                                                *)
(***************************************************************************)
LEMMA HarmlessAppend ==
  ASSUME NEW S, NEW q \in Seq(S), NEW e \in S, HarmlessQueue(q),
         e.msg = "EVT_RECORDING_ENDED" => e.status \in Harmless
  PROVE  HarmlessQueue(Append(q, e))
<1> DEFINE p == Append(q, e)
<1>1. /\ Len(q) \in Nat
      /\ Len(p) = Len(q) + 1
      /\ \A k \in 1 .. Len(q) : p[k] = q[k]
      /\ p[Len(q) + 1] = e
  BY AppendFacts, SMTT(30)
<1> HIDE DEF p
<1>2. HarmlessQueue(p)
  BY <1>1, SMTT(30) DEF HarmlessQueue
<1> QED BY <1>2 DEF p

LEMMA HarmlessTail ==
  ASSUME NEW S, NEW q \in Seq(S), q # <<>>, HarmlessQueue(q)
  PROVE  /\ HarmlessQueue(Tail(q))
         /\ Head(q).msg = "EVT_RECORDING_ENDED" => Head(q).status \in Harmless
<1> DEFINE p == Tail(q)
<1>1. /\ Head(q) = q[1]
      /\ Len(q) \in Nat /\ Len(q) # 0
      /\ Len(p) = Len(q) - 1
      /\ \A k \in 1 .. Len(q) - 1 : p[k] = q[k + 1]
  BY TailFacts
<1> HIDE DEF p
<1>2. \A k \in 1 .. Len(p) : k + 1 \in 1 .. Len(q) /\ p[k] = q[k + 1]
  BY <1>1, SMTT(30)
<1>3. HarmlessQueue(p)
  BY <1>2 DEF HarmlessQueue
<1> QED BY <1>1, <1>3, SMTT(30) DEF p, HarmlessQueue

LEMMA HarmlessPush ==
  ASSUME NEW S, NEW q \in Seq(S), NEW e \in S, HarmlessBoxes(q),
         e.kind # "failed", e.kind = "ended" => e.status \in Harmless
  PROVE  HarmlessBoxes(Append(q, e))
<1> DEFINE p == Append(q, e)
<1>1. /\ Len(q) \in Nat
      /\ Len(p) = Len(q) + 1
      /\ \A k \in 1 .. Len(q) : p[k] = q[k]
      /\ p[Len(q) + 1] = e
  BY AppendFacts, SMTT(30)
<1> HIDE DEF p
<1>2. HarmlessBoxes(p)
  BY <1>1, SMTT(30) DEF HarmlessBoxes
<1> QED BY <1>2 DEF p

(* The box that closes is harmless, and so are the ones below it.          *)
LEMMA HarmlessClosing ==
  ASSUME TypeOK, HarmlessBoxes(boxes), NEW kind, Closing(kind)
  PROVE  /\ HarmlessBoxes(boxes')
         /\ kind # "failed"
         /\ kind = "ended" => Top.status \in Harmless
<1> DEFINE p == SubSeq(boxes, 1, Len(boxes) - 1)
<1>1. /\ Len(boxes) \in Nat /\ Len(boxes) # 0
      /\ Len(p) = Len(boxes) - 1
      /\ \A k \in 1 .. Len(boxes) - 1 : p[k] = boxes[k]
  BY TopFacts DEF TypeOK, Closing
<1> HIDE DEF p
<1>2. \A k \in 1 .. Len(p) : k \in 1 .. Len(boxes) /\ p[k] = boxes[k]
  BY <1>1, SMTT(30)
<1>3. HarmlessBoxes(p)
  BY <1>2 DEF HarmlessBoxes
<1>4. boxes' = p /\ Top = boxes[Len(boxes)] /\ Top.kind = kind
  BY DEF Closing, Top, p
<1> QED BY <1>1, <1>3, <1>4, SMTT(30) DEF HarmlessBoxes

LEMMA InitNoErrors == Init => NoErrors
BY SMTT(30) DEF Init, RecInit, NoErrors, HarmlessQueue, HarmlessBoxes

LEMMA NoErrorsStep ==
  TypeOK /\ Control /\ ~trouble /\ NoErrors /\ [Next]_vars /\ ~trouble' => NoErrors'
<1> SUFFICES ASSUME TypeOK, Control, ~trouble, NoErrors, [Next]_vars, ~trouble'
             PROVE  NoErrors'
  OBVIOUS
<1> USE DEF vars, recvars, appvars, modes, bounds, others
<1>1. ASSUME NEW m \in Messages, Post(m),
             m.msg = "EVT_RECORDING_ENDED" => m.status \in Harmless
      PROVE  HarmlessQueue(queue')
  BY <1>1, HarmlessAppend DEF TypeOK, Post, NoErrors
<1>2. ASSUME NEW t \in Ids, TimerFires(t) \/ TimerEnds(t) PROVE NoErrors'
  <2>1. HarmlessQueue(queue')
    BY <1>1, <1>2, MessageFacts, MessagesDiffer DEF TimerFires, TimerEnds
  <2> QED BY <1>2, <2>1 DEF TimerFires, TimerEnds, NoErrors
<1>3. ASSUME NEW m, Handling(m), queue' = Tail(queue)
      PROVE  /\ HarmlessQueue(queue')
             /\ m = "EVT_RECORDING_ENDED" => Head(queue).status \in Harmless
             /\ pc = "loop"
  BY <1>3, HarmlessTail DEF TypeOK, Handling, NoErrors
<1>4. CASE HandleRecordStart
  <2>1. HarmlessQueue(queue') /\ pc = "loop"
    BY <1>3, <1>4 DEF HandleRecordStart
  <2> QED BY <1>4, <2>1 DEF HandleRecordStart, StartNextRecording, Return, Call, NoErrors
<1>5. CASE HandleRecordStop
  <2>1. HarmlessQueue(queue') /\ pc = "loop"
    BY <1>3, <1>5 DEF HandleRecordStop
  <2>2. exit_flag' = exit_flag /\ reports' = reports /\ boxes' = boxes
    BY <1>5 DEF HandleRecordStop, StopRunning
  <2>3. caller' # "restart"
    BY <1>5 DEF HandleRecordStop, StartNextRecording, Call, NoErrors
  <2> QED BY <2>1, <2>2, <2>3 DEF NoErrors
<1>6. CASE HandleRecordMode
  <2>1. HarmlessQueue(queue') /\ pc = "loop"
    BY <1>3, <1>6 DEF HandleRecordMode
  <2> QED BY <1>6, <2>1 DEF HandleRecordMode, NoErrors
<1>7. CASE HandleRecordingEnded
  <2>1. /\ HarmlessQueue(queue') /\ pc = "loop"
        /\ Head(queue).status \in Harmless
    BY <1>3, <1>7 DEF HandleRecordingEnded
  <2>2. [kind |-> "ended", status |-> Head(queue).status] \in Boxes
    BY <1>7, HandlingFacts, MessageKinds, BoxFacts DEF HandleRecordingEnded
  <2>3. HarmlessBoxes(boxes')
    BY <1>7, <2>1, <2>2, HarmlessPush DEF HandleRecordingEnded, TypeOK, NoErrors
  <2> QED BY <1>7, <2>1, <2>3 DEF HandleRecordingEnded, NoErrors
<1>8. CASE Stop
  <2>1. HarmlessQueue(queue')
    BY <1>1, <1>8, MessageFacts, MessagesDiffer DEF Stop
  <2> QED BY <1>8, <2>1 DEF Stop, StopDone, StartNextRecording, Call, NoErrors
<1>9. CASE CutBackNeutrino
  <2>1. HarmlessQueue(queue')
    BY <1>1, <1>9, MessageFacts, MessagesDiffer DEF CutBackNeutrino
  <2> QED BY <1>9, <2>1 DEF CutBackNeutrino, NoErrors
<1>10. CASE Attempt2 \/ Refused \/ Setup \/ NoThread
  BY <1>10 DEF Attempt2, Refused, Setup, NoThread, Begin, LaunchFails, NoErrors
<1>11. CASE Recording
  BY <1>11 DEF Recording, Launch, NoErrors
<1>12. CASE RecordFails
  BY <1>12 DEF RecordFails
<1>13. CASE EndedClosed
  <2>1. HarmlessBoxes(boxes') /\ Top.status \in Harmless
    BY <1>13, HarmlessClosing DEF EndedClosed, NoErrors
  <2>2. Top.status \in Statuses
    BY <1>13, ClosingFacts, BoxKinds DEF EndedClosed
  <2>3. Top.status \in {"IDLE", "RECORDING_THREADS_FAILED"}
    BY <2>1, <2>2, RecordingsAssumption DEF Harmless, Statuses
  <2> QED BY <1>13, <2>1, <2>3 DEF EndedClosed, Closing, NoErrors
<1>14. CASE FailedClosed \/ StandbyClosed
  <2>1. StandbyClosed /\ HarmlessBoxes(boxes')
    BY <1>14, HarmlessClosing DEF FailedClosed, StandbyClosed, NoErrors
  <2> QED BY <2>1 DEF StandbyClosed, Closing, NoErrors
<1>15. CASE Toggle
  <2>1. HarmlessQueue(queue')
    <3>1. CASE queue' = queue
      BY <3>1 DEF NoErrors
    <3>2. CASE /\ recording_id \in Ids
               /\ queue' = Append(queue, RecordStop(recording_id))
      BY <1>1, <3>2, MessageFacts, MessagesDiffer DEF Post
    <3> QED BY <1>15, <3>1, <3>2 DEF Toggle, StopTimerEvent
  <2>2. exit_flag' = exit_flag /\ reports' = reports /\ boxes' = boxes /\ pc = "loop"
    BY <1>15 DEF Toggle, Key
  <2>3. caller' # "restart"
    BY <1>15 DEF Toggle, StartNextRecording, Call, NoErrors
  <2> QED BY <2>1, <2>2, <2>3 DEF NoErrors
<1>16. CASE StandbyOn \/ StandbyOff
  <2>1. HarmlessBoxes(boxes')
    BY <1>16, HarmlessPush, BoxFacts DEF StandbyOn, StandbyOff, TypeOK, NoErrors
  <2> QED BY <1>16, <2>1 DEF StandbyOn, StandbyOff, NoErrors
<1>17. CASE RecorderFails
  BY <1>17 DEF RecorderFails
<1>18. CASE RecorderEnds
  BY <1>18, SMTT(30) DEF RecorderEnds, End, Harmless, NoErrors
<1>19. ASSUME NEW r \in reports, Reports(r) PROVE NoErrors'
  <2>1. exit_flag # "RUNNING"
    BY <1>19 DEF Reports
  <2>2. [r EXCEPT !.status = exit_flag].status = exit_flag
    BY <1>19 DEF TypeOK
  <2>3. \A s \in reports' : s.status \in Harmless
    BY <1>19, <2>1, <2>2 DEF Reports, ReadStatus, Harmless, NoErrors
  <2> QED BY <1>19, <2>3 DEF Reports, ReadStatus, NoErrors
<1>20. ASSUME NEW r \in reports, Sends(r) PROVE NoErrors'
  <2>1. r.status \in Statuses
    BY <1>20 DEF TypeOK, Sends, Send
  <2>2. HarmlessQueue(queue')
    BY <1>1, <1>20, <2>1, MessageFacts, MessagesDiffer DEF Sends, NoErrors
  <2> QED BY <1>20, <2>2 DEF Sends, Send, NoErrors
<1>21. CASE UNCHANGED vars
  BY <1>21 DEF NoErrors
<1> QED
  BY <1>2, <1>4, <1>5, <1>6, <1>7, <1>8, <1>9, <1>10, <1>11, <1>12,
     <1>13, <1>14, <1>15, <1>16, <1>17, <1>18, <1>19, <1>20, <1>21
  DEF Next, Timerd, Handler, CloseBox, User, RecorderEnding

-----------------------------------------------------------------------------
(***************************************************************************)
(* Without trouble: every recording has a timer                            *)
(***************************************************************************)
(* What a message that starts no recording does to the timers' messages.   *)
LEMMA PostOther ==
  ASSUME TypeOK, StartsServed, NEW m \in Messages, queue' = Append(queue, m),
         \A u : m # RecordStart(u), timer' = timer
  PROVE  /\ \A u : Serving(timer, queue, u) => Serving(timer', queue', u)
         /\ \A u : Has(queue', RecordStart(u)) <=> Has(queue, RecordStart(u))
         /\ \A u \in Ids : StartInOrder(queue', u, timer'[u] # "running")
<1>1. queue \in Seq(Messages)
  BY DEF TypeOK
<1>2. \A x : Has(queue', x) <=> Has(queue, x) \/ x = m
  BY <1>1, HasAppend
<1>3. ASSUME NEW u \in Ids PROVE StartInOrder(queue', u, timer'[u] # "running")
  <2>1. StartInOrder(queue, u, timer[u] # "running") /\ m # RecordStart(u)
    BY DEF StartsServed
  <2>2. (timer[u] # "running") \in BOOLEAN
    OBVIOUS
  <2>3. StartInOrder(Append(queue, m), u, timer[u] # "running")
    BY <1>1, <2>1, <2>2, StartAppend
  <2> QED BY <2>3
<1> QED BY <1>2, <1>3 DEF Serving

(* What taking a message does to them.                                     *)
LEMMA TakeOther ==
  ASSUME TypeOK, StartsServed, queue # <<>>, queue' = Tail(queue), timer' = timer
  PROVE  /\ \A u : RecordStop(u) # Head(queue) /\ Serving(timer, queue, u)
                   => Serving(timer', queue', u)
         /\ \A u : Has(queue', RecordStart(u)) => Has(queue, RecordStart(u))
         /\ \A u \in Ids : StartInOrder(queue', u, timer'[u] # "running")
         /\ Has(queue, Head(queue))
         /\ NoMode(queue) => NoMode(queue') /\ Head(queue).msg # "EVT_RECORDMODE"
         /\ Head(queue) \in Messages
<1>1. queue \in Seq(Messages)
  BY DEF TypeOK
<1>2. \A x : /\ Has(queue, x) => x = Head(queue) \/ Has(queue', x)
             /\ Has(queue', x) => Has(queue, x)
             /\ Has(queue, Head(queue))
  BY <1>1, HasTail
<1>3. ASSUME NEW u \in Ids PROVE StartInOrder(queue', u, timer'[u] # "running")
  <2>1. StartInOrder(queue, u, timer[u] # "running")
    BY DEF StartsServed
  <2>2. (timer[u] # "running") \in BOOLEAN
    OBVIOUS
  <2>3. StartInOrder(Tail(queue), u, timer[u] # "running")
    BY <1>1, <2>1, <2>2, StartTail
  <2> QED BY <2>3
<1>4. NoMode(queue) => NoMode(queue') /\ Head(queue).msg # "EVT_RECORDMODE"
  BY <1>1, ModeTail
<1>5. Head(queue) \in Messages
  BY <1>1, TailFacts
<1> QED BY <1>2, <1>3, <1>4, <1>5 DEF Serving

(* What the end of a timer does to them.                                   *)
LEMMA TimerOver ==
  ASSUME TypeOK, StartsServed, NEW t \in Ids, timer[t] = "running",
         timer' = [timer EXCEPT ![t] = "over"],
         queue' = Append(queue, RecordStop(t))
  PROVE  /\ \A u : Serving(timer, queue, u) => Serving(timer', queue', u)
         /\ \A u : Has(queue', RecordStart(u)) <=> Has(queue, RecordStart(u))
         /\ \A u \in Ids : StartInOrder(queue', u, timer'[u] # "running")
         /\ \A u \in Ids : timer'[u] = "waiting" <=> timer[u] = "waiting"
         /\ NoMode(queue) => NoMode(queue')
<1>1. queue \in Seq(Messages) /\ RecordStop(t) \in Messages
  BY MessageFacts DEF TypeOK
<1>2. \A x : Has(queue', x) <=> Has(queue, x) \/ x = RecordStop(t)
  BY <1>1, HasAppend, SMTT(30)
<1>3. \A u \in Ids : timer'[u] = IF u = t THEN "over" ELSE timer[u]
  BY DEF TypeOK
<1>4. ASSUME NEW u \in Ids PROVE StartInOrder(queue', u, timer'[u] # "running")
  <2>1. StartInOrder(queue, u, timer[u] # "running") /\ RecordStop(t) # RecordStart(u)
    BY MessagesDiffer DEF StartsServed
  <2>2. CASE u = t
    <3>1. StartInOrder(queue, t, FALSE)
      <4>1. (timer[t] # "running") = FALSE
        OBVIOUS
      <4> QED BY <2>1, <2>2, <4>1
    <3>2. StartInOrder(queue', t, TRUE)
      BY <1>1, <3>1, StartAppend
    <3>3. (timer'[t] # "running") = TRUE
      BY <1>3, SMTT(30)
    <3> QED BY <2>2, <3>2, <3>3
  <2>3. CASE u # t
    <3>1. (timer[u] # "running") \in BOOLEAN
      OBVIOUS
    <3>2. StartInOrder(Append(queue, RecordStop(t)), u, timer[u] # "running")
      BY <1>1, <2>1, <3>1, StartAppend
    <3>3. timer'[u] = timer[u]
      BY <1>3, <2>3
    <3> QED BY <3>2, <3>3
  <2> QED BY <2>2, <2>3
<1>5. \A u : Serving(timer, queue, u) => Serving(timer', queue', u)
  BY <1>2, <1>3 DEF Serving
<1>6. \A u : Has(queue', RecordStart(u)) <=> Has(queue, RecordStart(u))
  BY <1>2, MessagesDiffer
<1>7. NoMode(queue) => NoMode(queue')
  BY <1>1, ModeAppend, MessagesDiffer
<1>8. \A u \in Ids : timer'[u] = "waiting" <=> timer[u] = "waiting"
  BY <1>3, SMTT(30)
<1> QED BY <1>4, <1>5, <1>6, <1>7, <1>8

(* A timer fires.                                                          *)
LEMMA TimerFired ==
  ASSUME TypeOK, StartsServed, NEW t \in Ids, timer[t] = "waiting",
         timer' = [timer EXCEPT ![t] = "running"],
         queue' = Append(queue, RecordStart(t))
  PROVE  /\ \A u : Serving(timer, queue, u) => Serving(timer', queue', u)
         /\ \A u : Has(queue', RecordStart(u)) => Has(queue, RecordStart(u)) \/ u = t
         /\ \A u \in Ids : StartInOrder(queue', u, timer'[u] # "running")
         /\ \A u \in Ids : timer'[u] = IF u = t THEN "running" ELSE timer[u]
         /\ NoMode(queue) => NoMode(queue')
<1>1. queue \in Seq(Messages) /\ RecordStart(t) \in Messages
  BY MessageFacts DEF TypeOK
<1>2. \A x : Has(queue', x) <=> Has(queue, x) \/ x = RecordStart(t)
  BY <1>1, HasAppend, SMTT(30)
<1>3. \A u \in Ids : timer'[u] = IF u = t THEN "running" ELSE timer[u]
  BY DEF TypeOK
<1>4. ASSUME NEW u \in Ids PROVE StartInOrder(queue', u, timer'[u] # "running")
  <2>1. CASE u = t
    <3>1. ~Has(queue, RecordStart(t))
      BY DEF StartsServed
    <3>2. StartInOrder(queue', t, FALSE)
      BY <1>1, <3>1, StartAppend
    <3>3. (timer'[t] # "running") = FALSE
      BY <1>3
    <3> QED BY <2>1, <3>2, <3>3
  <2>2. CASE u # t
    <3>1. (timer[u] # "running") \in BOOLEAN
      OBVIOUS
    <3>2. StartInOrder(queue, u, timer[u] # "running") /\ RecordStart(t) # RecordStart(u)
      BY <2>2, MessagesDiffer DEF StartsServed
    <3>3. StartInOrder(Append(queue, RecordStart(t)), u, timer[u] # "running")
      BY <1>1, <3>1, <3>2, StartAppend
    <3>4. timer'[u] = timer[u]
      BY <1>3, <2>2
    <3> QED BY <3>3, <3>4
  <2> QED BY <2>1, <2>2
<1>5. \A u : Serving(timer, queue, u) => Serving(timer', queue', u)
  BY <1>2, <1>3 DEF Serving
<1>6. \A u : Has(queue', RecordStart(u)) => Has(queue, RecordStart(u)) \/ u = t
  BY <1>2, MessagesDiffer
<1>7. NoMode(queue) => NoMode(queue')
  BY <1>1, ModeAppend, MessagesDiffer
<1> QED BY <1>3, <1>4, <1>5, <1>6, <1>7

(* stopTimerEvent, which does nothing for a timer that is over.            *)
LEMMA StopTimerFacts ==
  ASSUME TypeOK, StartsServed, NEW t \in Ids \cup {NoTimer}, StopTimerEvent(t, queue)
  PROVE  /\ \A u : Serving(timer, queue, u) => Serving(timer', queue', u)
         /\ \A u : Has(queue', RecordStart(u)) <=> Has(queue, RecordStart(u))
         /\ \A u \in Ids : StartInOrder(queue', u, timer'[u] # "running")
         /\ \A u \in Ids : timer'[u] = "waiting" <=> timer[u] = "waiting"
         /\ NoMode(queue) => NoMode(queue')
<1>1. CASE t \in Ids /\ timer[t] = "running"
  <2>1. /\ timer' = [timer EXCEPT ![t] = "over"]
        /\ queue' = Append(queue, RecordStop(t))
    BY <1>1 DEF StopTimerEvent
  <2> QED BY <1>1, <2>1, TimerOver
<1>2. CASE ~(t \in Ids /\ timer[t] = "running")
  <2>1. timer' = timer /\ queue' = queue
    BY <1>2 DEF StopTimerEvent
  <2> QED BY <2>1 DEF StartsServed
<1> QED BY <1>1, <1>2

(* Without trouble the box of EVT_RECORDING_ENDED closes without a restart *)
(* and no box shows a failed start.                                        *)
LEMMA EndedHarmless ==
  ASSUME TypeOK, NoErrors, EndedClosed \/ FailedClosed
  PROVE  /\ EndedClosed /\ pc \in {"loop", "close"} /\ pc' = "loop"
         /\ UNCHANGED <<recording_id, timer, queue, caller>>
<1>1. EndedClosed
  BY HarmlessClosing DEF FailedClosed, NoErrors
<1>2. Top.status \in Harmless /\ Top.status \in Statuses
  BY <1>1, HarmlessClosing, ClosingFacts, BoxKinds DEF EndedClosed, NoErrors
<1>3. Top.status \in {"IDLE", "RECORDING_THREADS_FAILED"}
  BY <1>2, RecordingsAssumption DEF Harmless, Statuses
<1> QED BY <1>1, <1>3 DEF EndedClosed, Closing

LEMMA InitTimersServe == Init => TimersServe
<1> SUFFICES ASSUME Init PROVE TimersServe
  OBVIOUS
<1>1. queue = <<>> /\ Len(queue) = 0
  BY DEF Init
<1>2. \A t \in Ids : StartInOrder(queue, t, timer[t] # "running")
  BY <1>1, SMTT(30) DEF StartInOrder
<1>3. \A m : ~Has(queue, m)
  BY <1>1, SMTT(30) DEF Has
<1>4. NoMode(queue)
  BY <1>1, SMTT(30) DEF NoMode
<1> QED BY <1>2, <1>3, <1>4, TimersAssumption DEF Init, RecInit, TimersServe,
    RunningServed, StartingServed, PendingServed, StartsServed, FirstRecording,
    Starting, Ids

LEMMA TimersStep ==
  TypeOK /\ Control /\ ~trouble /\ NoErrors /\ TimersServe /\ [Next]_vars /\ ~trouble'
    => TimersServe'
<1> SUFFICES ASSUME TypeOK, Control, ~trouble, NoErrors, TimersServe, [Next]_vars,
                    ~trouble'
             PROVE  TimersServe'
  OBVIOUS
<1> USE DEF vars, recvars, appvars, modes, bounds, others, Starting
<1>0. /\ RunningServed /\ StartingServed /\ PendingServed /\ StartsServed
      /\ FirstRecording
      /\ caller # "restart"
      /\ NoTimer \notin Ids
      /\ {recording_id, nextRecordingInfo} \subseteq Ids \cup {NoTimer}
      /\ recordingstatus \in {0, 1}
  BY TimersAssumption DEF TimersServe, NoErrors, Ids, TypeOK
<1> DEFINE Parts == RunningServed /\ StartingServed /\ PendingServed /\ StartsServed
                    /\ FirstRecording
<1> SUFFICES Parts'
  BY DEF TimersServe
<1>1. ASSUME NEW t \in Ids, TimerFires(t) PROVE Parts'
  <2>1. /\ timer[t] = "waiting" /\ t \in Timers
        /\ timer' = [timer EXCEPT ![t] = "running"]
        /\ queue' = Append(queue, RecordStart(t))
        /\ UNCHANGED <<exit_flag, pc, caller, recording_id, nextRecordingInfo, runs,
                       recordingstatus>>
    BY <1>1 DEF TimerFires, Post
  <2>2. /\ \A u : Serving(timer, queue, u) => Serving(timer', queue', u)
        /\ \A u : Has(queue', RecordStart(u)) => Has(queue, RecordStart(u)) \/ u = t
        /\ \A u \in Ids : StartInOrder(queue', u, timer'[u] # "running")
        /\ \A u \in Ids : timer'[u] = IF u = t THEN "running" ELSE timer[u]
        /\ NoMode(queue) => NoMode(queue')
    BY <2>1, <1>0, TimerFired
  <2>3. RunningServed' /\ StartingServed' /\ FirstRecording'
    BY <2>1, <2>2, <1>0 DEF RunningServed, StartingServed, FirstRecording
  <2>4. PendingServed'
    BY <2>1, <2>2, <1>0 DEF PendingServed
  <2>5. StartsServed'
    BY <2>1, <2>2, <1>0
       DEF RunningServed, PendingServed, StartsServed, FirstRecording
  <2> QED BY <2>3, <2>4, <2>5
<1>2. ASSUME NEW t \in Ids, TimerEnds(t) PROVE Parts'
  <2>1. /\ timer[t] = "running"
        /\ timer' = [timer EXCEPT ![t] = "over"]
        /\ queue' = Append(queue, RecordStop(t))
        /\ UNCHANGED <<exit_flag, pc, caller, recording_id, nextRecordingInfo, runs,
                       recordingstatus>>
    BY <1>2 DEF TimerEnds, Post
  <2>2. /\ \A u : Serving(timer, queue, u) => Serving(timer', queue', u)
        /\ \A u : Has(queue', RecordStart(u)) <=> Has(queue, RecordStart(u))
        /\ \A u \in Ids : StartInOrder(queue', u, timer'[u] # "running")
        /\ \A u \in Ids : timer'[u] = "waiting" <=> timer[u] = "waiting"
        /\ NoMode(queue) => NoMode(queue')
    BY <2>1, <1>0, TimerOver
  <2> QED BY <2>1, <2>2, <1>0
             DEF RunningServed, StartingServed, PendingServed, StartsServed,
                 FirstRecording
<1>3. CASE HandleRecordStart
  <2> DEFINE t == Head(queue).id
  <2>1. /\ queue # <<>> /\ queue' = Tail(queue) /\ timer' = timer
        /\ Head(queue).msg = "RECORD_START" /\ pc = "loop"
        /\ nextRecordingInfo' = t
        /\ UNCHANGED <<exit_flag, runs, recordingstatus>>
    BY <1>3 DEF HandleRecordStart, Handling
  <2>2. /\ \A u : RecordStop(u) # Head(queue) /\ Serving(timer, queue, u)
                   => Serving(timer', queue', u)
        /\ \A u : Has(queue', RecordStart(u)) => Has(queue, RecordStart(u))
        /\ \A u \in Ids : StartInOrder(queue', u, timer'[u] # "running")
        /\ Has(queue, Head(queue))
        /\ NoMode(queue) => NoMode(queue')
        /\ Head(queue) \in Messages
    BY <2>1, <1>0, TakeOther
  <2>3. t \in Ids /\ Head(queue) = RecordStart(t)
    BY <2>1, <2>2, MessageKinds
  <2> HIDE DEF t
  <2>4. /\ ~Has(queue', RecordStart(t))
        /\ timer[t] # "running" => Has(queue', RecordStop(t))
    <3>1. StartInOrder(queue, t, timer[t] # "running") /\ queue \in Seq(Messages)
          /\ (timer[t] # "running") \in BOOLEAN
      BY <1>0, <2>3 DEF TypeOK, StartsServed
    <3> QED BY <3>1, <2>1, <2>3, StartTail
  <2>5. Serving(timer', queue', t)
    BY <2>1, <2>3, <2>4 DEF Serving
  <2>6. \A u : Serving(timer, queue, u) => Serving(timer', queue', u)
    BY <2>2, <2>3, MessagesDiffer
  <2>7. timer[t] # "waiting" /\ (recording_id # t \/ runs = 0)
    BY <1>0, <2>2, <2>3 DEF StartsServed
  <2>8. CASE recordingstatus = 0
    <3>1. recording_id' = t /\ pc' = "record" /\ caller' = "start"
      BY <1>3, <2>3, <2>8, <1>0
         DEF HandleRecordStart, StartNextRecording, Call, t
    <3> QED BY <3>1, <2>1, <2>2, <2>3, <2>4, <2>5, <2>7, <1>0
               DEF RunningServed, StartingServed, PendingServed, StartsServed,
                   FirstRecording
  <2>9. CASE recordingstatus = 1
    <3>1. /\ UNCHANGED <<recording_id, caller>> /\ pc' \in {"loop", "close"}
      BY <1>3, <2>9, SMTT(30) DEF HandleRecordStart, StartNextRecording, Return
    <3>2. runs # 0
      BY <2>1, <2>9, <1>0, SMTT(30) DEF FirstRecording
    <3> QED BY <3>1, <3>2, <2>1, <2>2, <2>3, <2>4, <2>5, <2>6, <2>7, <1>0
               DEF RunningServed, StartingServed, PendingServed, StartsServed,
                   FirstRecording
  <2> QED BY <2>8, <2>9, <1>0
<1>4. CASE HandleRecordStop
  <2> DEFINE id == Head(queue).id
  <2>1. /\ queue # <<>> /\ queue' = Tail(queue) /\ timer' = timer
        /\ Head(queue).msg = "RECORD_STOP" /\ pc = "loop"
        /\ exit_flag' = exit_flag
        /\ UNCHANGED <<runs, recordingstatus>>
    BY <1>4 DEF HandleRecordStop, Handling, StopRunning
  <2>2. /\ \A u : RecordStop(u) # Head(queue) /\ Serving(timer, queue, u)
                   => Serving(timer', queue', u)
        /\ \A u : Has(queue', RecordStart(u)) => Has(queue, RecordStart(u))
        /\ \A u \in Ids : StartInOrder(queue', u, timer'[u] # "running")
        /\ NoMode(queue) => NoMode(queue')
        /\ Head(queue) \in Messages
    BY <2>1, <1>0, TakeOther
  <2>3. id \in Ids /\ Head(queue) = RecordStop(id)
    BY <2>1, <2>2, MessageKinds
  <2> HIDE DEF id
  <2>4. \A u : u # id /\ Serving(timer, queue, u) => Serving(timer', queue', u)
    BY <2>2, <2>3, MessagesDiffer
  <2>5. CASE id = recording_id /\ deviceState = "RECORD"
    <3>1. pc' = "stopping" /\ UNCHANGED <<recording_id, nextRecordingInfo, caller>>
      BY <1>4, <2>5 DEF HandleRecordStop, id
    <3> QED BY <3>1, <2>1, <2>2, <2>4, <2>5, <1>0
               DEF RunningServed, StartingServed, PendingServed, StartsServed,
                   FirstRecording
  <2>6. CASE id = recording_id /\ deviceState # "RECORD"
    <3>1. exit_flag # "RUNNING"
      BY <2>1, <2>6 DEF Control, Stoppable, TypeOK
    <3>2. /\ StartNextRecording(recordingstatus, nextRecordingInfo, "stop")
          /\ UNCHANGED nextRecordingInfo
      BY <1>4, <2>6 DEF HandleRecordStop, id
    <3>3. CASE recordingstatus = 0 /\ nextRecordingInfo # NoTimer
      <4>1. recording_id' = nextRecordingInfo /\ pc' = "record" /\ caller' = "stop"
        BY <3>2, <3>3 DEF StartNextRecording, Call
      <4> QED BY <4>1, <3>1, <3>2, <3>3, <2>1, <2>2, <2>4, <2>6, <1>0
                 DEF RunningServed, StartingServed, PendingServed, StartsServed,
                     FirstRecording
    <3>4. CASE ~(recordingstatus = 0 /\ nextRecordingInfo # NoTimer)
      <4>1. pc' = "loop" /\ UNCHANGED <<recording_id, caller>>
        BY <3>2, <3>4 DEF StartNextRecording, Return
      <4> QED BY <4>1, <3>1, <3>2, <2>1, <2>2, <2>4, <2>6, <1>0
                 DEF RunningServed, StartingServed, PendingServed, StartsServed,
                     FirstRecording
    <3> QED BY <3>3, <3>4
  <2>7. CASE id # recording_id
    <3>1. /\ nextRecordingInfo' = IF nextRecordingInfo = id THEN NoTimer
                                                         ELSE nextRecordingInfo
          /\ UNCHANGED <<recording_id, pc, caller>>
      BY <1>4, <2>7 DEF HandleRecordStop, id
    <3> QED BY <3>1, <2>1, <2>2, <2>4, <2>7, <1>0
               DEF RunningServed, StartingServed, PendingServed, StartsServed,
                   FirstRecording
  <2> QED BY <2>5, <2>6, <2>7
<1>5. CASE HandleRecordMode \/ HandleRecordingEnded
  <2>1. /\ queue # <<>> /\ queue' = Tail(queue) /\ timer' = timer
        /\ pc = "loop" /\ pc' \in {"loop", "close"}
        /\ UNCHANGED <<exit_flag, recording_id, nextRecordingInfo, caller, runs>>
        /\ Head(queue).msg = "EVT_RECORDMODE" \/ recordingstatus' = recordingstatus
        /\ Head(queue).msg \in {"EVT_RECORDMODE", "EVT_RECORDING_ENDED"}
    BY <1>5 DEF HandleRecordMode, HandleRecordingEnded, Handling
  <2>2. /\ \A u : RecordStop(u) # Head(queue) /\ Serving(timer, queue, u)
                   => Serving(timer', queue', u)
        /\ \A u : Has(queue', RecordStart(u)) => Has(queue, RecordStart(u))
        /\ \A u \in Ids : StartInOrder(queue', u, timer'[u] # "running")
        /\ NoMode(queue) => NoMode(queue') /\ Head(queue).msg # "EVT_RECORDMODE"
    BY <2>1, <1>0, TakeOther
  <2>3. \A u : Serving(timer, queue, u) => Serving(timer', queue', u)
    BY <2>1, <2>2, MessagesDiffer
  <2> QED BY <2>1, <2>2, <2>3, <1>0
             DEF RunningServed, StartingServed, PendingServed, StartsServed,
                 FirstRecording
<1>6. CASE Stop
  <2>1. /\ queue' = Append(queue, RecordModeMsg(0)) /\ timer' = timer
        /\ pc = "stopping" /\ nextRecordingInfo' = nextRecordingInfo
        /\ runs' = runs /\ runs # 0
        /\ exit_flag' # "RUNNING"
    BY <1>6 DEF Stop, Post, StopDone, Control
  <2>2. /\ \A u : Serving(timer, queue, u) => Serving(timer', queue', u)
        /\ \A u : Has(queue', RecordStart(u)) <=> Has(queue, RecordStart(u))
        /\ \A u \in Ids : StartInOrder(queue', u, timer'[u] # "running")
    <3>1. /\ RecordModeMsg(0) \in Messages
          /\ \A u : RecordModeMsg(0) # RecordStart(u)
      BY MessageFacts, MessagesDiffer
    <3> QED BY <2>1, <1>0, <3>1, PostOther
  <2>3. CASE nextRecordingInfo # NoTimer
    <3>1. recording_id' = nextRecordingInfo /\ pc' = "record" /\ caller' = "stop"
      BY <1>6, <2>3 DEF Stop, StartNextRecording, Call
    <3> QED BY <3>1, <2>1, <2>2, <2>3, <1>0
               DEF RunningServed, StartingServed, PendingServed, StartsServed,
                   FirstRecording
  <2>4. CASE nextRecordingInfo = NoTimer
    <3>1. pc' = "loop" /\ UNCHANGED <<recording_id, caller>>
      BY <1>6, <2>4 DEF Stop, StartNextRecording, Return
    <3> QED BY <3>1, <2>1, <2>2, <2>4, <1>0
               DEF RunningServed, StartingServed, PendingServed, StartsServed,
                   FirstRecording
  <2> QED BY <2>3, <2>4
<1>7. CASE CutBackNeutrino
  <2>1. /\ queue' = Append(queue, RecordModeMsg(1)) /\ timer' = timer
        /\ pc \in Starting /\ pc' \in Starting
        /\ UNCHANGED <<recording_id, nextRecordingInfo, caller, runs>>
    BY <1>7 DEF CutBackNeutrino, Post
  <2>2. /\ \A u : Serving(timer, queue, u) => Serving(timer', queue', u)
        /\ \A u : Has(queue', RecordStart(u)) <=> Has(queue, RecordStart(u))
        /\ \A u \in Ids : StartInOrder(queue', u, timer'[u] # "running")
    <3>1. /\ RecordModeMsg(1) \in Messages
          /\ \A u : RecordModeMsg(1) # RecordStart(u)
      BY MessageFacts, MessagesDiffer
    <3> QED BY <2>1, <1>0, <3>1, PostOther
  <2> QED BY <2>1, <2>2, <1>0
             DEF RunningServed, StartingServed, PendingServed, StartsServed,
                 FirstRecording
<1>8. CASE Attempt2 \/ Refused \/ Setup \/ NoThread
  <2>1. /\ pc \in Starting /\ pc' \in Starting
        /\ UNCHANGED <<timer, queue, recording_id, nextRecordingInfo, caller, runs>>
    BY <1>8 DEF Attempt2, Refused, Setup, NoThread
  <2> QED BY <2>1, <1>0
             DEF RunningServed, StartingServed, PendingServed, StartsServed,
                 FirstRecording
<1>9. CASE Recording
  <2>1. /\ pc = "create" /\ pc' \in {"loop", "close"} /\ queue' = queue
        /\ runs' = runs + 1 /\ runs' # 0
    BY <1>9, SMTT(30) DEF Recording, Control, Return
  <2>2. ASSUME caller = "user" PROVE Parts'
    <3>1. PICK i \in Immediates : /\ timer[i] = "waiting"
                                  /\ timer' = [timer EXCEPT ![i] = "running"]
                                  /\ recording_id' = i
      BY <1>9, <2>2 DEF Recording
    <3>2. nextRecordingInfo' = nextRecordingInfo /\ i \in Ids
      BY <1>9, <2>2 DEF Recording, Ids
    <3>3. \A u \in Ids : timer'[u] = IF u = i THEN "running" ELSE timer[u]
      BY <3>1, <3>2 DEF TypeOK
    <3>4. \A u : Serving(timer, queue, u) => Serving(timer', queue', u)
      BY <2>1, <3>3 DEF Serving
    <3>5. Serving(timer', queue', i)
      BY <3>2, <3>3 DEF Serving
    <3>6. \A u \in Ids : StartInOrder(queue', u, timer'[u] # "running")
      <4> SUFFICES ASSUME NEW u \in Ids
                   PROVE  StartInOrder(queue', u, timer'[u] # "running")
        OBVIOUS
      <4>1. CASE u = i
        <5>1. ~Has(queue, RecordStart(i))
          BY <1>0, <3>1, <3>2
             DEF RunningServed, StartingServed, PendingServed, StartsServed,
                 FirstRecording
        <5> QED BY <4>1, <5>1, <2>1 DEF StartInOrder, Has
      <4>2. CASE u # i
        BY <4>2, <3>3, <2>1, <1>0 DEF StartsServed
      <4> QED BY <4>1, <4>2
    <3>7. RunningServed' /\ StartingServed' /\ FirstRecording'
      BY <2>1, <3>1, <3>2, <3>3, <3>5, SMTT(30)
         DEF RunningServed, StartingServed, FirstRecording
    <3>8. PendingServed'
      BY <1>0, <3>1, <3>2, <3>3, <3>4 DEF PendingServed
    <3>9. StartsServed'
      BY <1>0, <2>1, <3>1, <3>2, <3>3, <3>6 DEF StartsServed
    <3> QED BY <3>7, <3>8, <3>9
  <2>3. ASSUME caller # "user" PROVE Parts'
    <3>1. /\ nextRecordingInfo' = NoTimer
          /\ UNCHANGED <<recording_id, timer>>
      BY <1>9, <2>3, <1>0 DEF Recording
    <3>2. Serving(timer, queue, recording_id) /\ nextRecordingInfo = recording_id
      BY <1>0, <2>1, <2>3 DEF StartingServed
    <3>3. recording_id \in Ids
      BY <3>2 DEF Serving
    <3> QED BY <3>1, <3>2, <3>3, <2>1, <1>0
               DEF RunningServed, StartingServed, PendingServed, StartsServed,
                   FirstRecording
  <2> QED BY <2>2, <2>3
<1>10. CASE RecordFails \/ RecorderFails
  BY <1>10 DEF RecordFails, RecorderFails
<1>11. CASE EndedClosed \/ FailedClosed
  <2>1. /\ pc \in {"loop", "close"} /\ pc' = "loop"
        /\ UNCHANGED <<recording_id, timer, queue, caller>>
        /\ UNCHANGED <<exit_flag, recordingstatus, nextRecordingInfo, runs>>
    BY <1>11, EndedHarmless DEF EndedClosed
  <2> QED BY <2>1, <1>0
             DEF RunningServed, StartingServed, PendingServed, StartsServed,
                 FirstRecording
<1>12. CASE StandbyClosed \/ StandbyOn \/ StandbyOff
  <2>1. /\ pc \in {"loop", "close"} /\ pc' \in {"loop", "close"}
        /\ UNCHANGED <<recording_id, timer, queue, caller>>
        /\ UNCHANGED <<exit_flag, recordingstatus, nextRecordingInfo, runs>>
    BY <1>12 DEF StandbyClosed, StandbyOn, StandbyOff, Closing, Key
  <2> QED BY <2>1, <1>0
             DEF RunningServed, StartingServed, PendingServed, StartsServed,
                 FirstRecording
<1>13. CASE Toggle
  <2>1. /\ pc = "loop" /\ UNCHANGED <<exit_flag, nextRecordingInfo, runs>>
    BY <1>13 DEF Toggle, Key
  <2>2. CASE recordingstatus = 0
    <3>1. pc' = "record" /\ caller' = "user" /\ UNCHANGED <<recording_id, timer, queue>>
      BY <1>13, <2>2, SMTT(30) DEF Toggle, Call
    <3> QED BY <3>1, <2>1, <1>0
               DEF RunningServed, StartingServed, PendingServed, StartsServed,
                   FirstRecording
  <2>3. CASE recordingstatus = 1
    <3>1. /\ StopTimerEvent(recording_id, queue)
          /\ StartNextRecording(0, nextRecordingInfo, "guistop")
      BY <1>13, <2>3, SMTT(30) DEF Toggle
    <3>2. /\ \A u : Serving(timer, queue, u) => Serving(timer', queue', u)
          /\ \A u : Has(queue', RecordStart(u)) <=> Has(queue, RecordStart(u))
          /\ \A u \in Ids : StartInOrder(queue', u, timer'[u] # "running")
          /\ \A u \in Ids : timer'[u] = "waiting" <=> timer[u] = "waiting"
      BY <3>1, <1>0, StopTimerFacts
    <3>3. runs # 0
      BY <2>1, <2>3, <1>0, SMTT(30) DEF FirstRecording
    <3>4. CASE nextRecordingInfo # NoTimer
      <4>1. recording_id' = nextRecordingInfo /\ pc' = "record" /\ caller' = "guistop"
        BY <3>1, <3>4 DEF StartNextRecording, Call
      <4> QED BY <4>1, <3>2, <3>3, <3>4, <2>1, <1>0
                 DEF RunningServed, StartingServed, PendingServed, StartsServed,
                     FirstRecording
    <3>5. CASE nextRecordingInfo = NoTimer
      <4>1. pc' = "loop" /\ UNCHANGED <<recording_id, caller>>
        BY <3>1, <3>5 DEF StartNextRecording, Return
      <4> QED BY <4>1, <3>2, <3>3, <3>5, <2>1, <1>0
                 DEF RunningServed, StartingServed, PendingServed, StartsServed,
                     FirstRecording
    <3> QED BY <3>4, <3>5
  <2> QED BY <2>2, <2>3, <1>0
<1>14. CASE RecorderEnds \/ \E r \in reports : Reports(r)
  <2>1. /\ UNCHANGED <<recording_id, timer, queue, caller, pc>>
        /\ UNCHANGED <<exit_flag, recordingstatus, nextRecordingInfo, runs>>
    BY <1>14 DEF RecorderEnds, End, Reports, ReadStatus
  <2> QED BY <2>1, <1>0
             DEF RunningServed, StartingServed, PendingServed, StartsServed,
                 FirstRecording
<1>15. ASSUME NEW r \in reports, Sends(r) PROVE Parts'
  <2>1. /\ queue' = Append(queue, RecordingEnded(r.status)) /\ timer' = timer
        /\ UNCHANGED <<recording_id, nextRecordingInfo, caller, runs, pc, exit_flag,
                       recordingstatus>>
        /\ r.status \in Statuses
    BY <1>15 DEF Sends, Send, Post, TypeOK
  <2>2. /\ \A u : Serving(timer, queue, u) => Serving(timer', queue', u)
        /\ \A u : Has(queue', RecordStart(u)) <=> Has(queue, RecordStart(u))
        /\ \A u \in Ids : StartInOrder(queue', u, timer'[u] # "running")
    <3>1. /\ RecordingEnded(r.status) \in Messages
          /\ \A u : RecordingEnded(r.status) # RecordStart(u)
      BY <2>1, MessageFacts, MessagesDiffer
    <3> QED BY <2>1, <1>0, <3>1, PostOther
  <2>3. NoMode(queue) => NoMode(queue')
    BY <2>1, ModeAppend, MessageFacts, MessagesDiffer DEF TypeOK
  <2> QED BY <2>1, <2>2, <2>3, <1>0
             DEF RunningServed, StartingServed, PendingServed, StartsServed,
                 FirstRecording
<1>16. CASE UNCHANGED vars
  BY <1>16, <1>0
     DEF RunningServed, StartingServed, PendingServed, StartsServed, FirstRecording
<1> QED
  BY <1>1, <1>2, <1>3, <1>4, <1>5, <1>6, <1>7, <1>8, <1>9, <1>10, <1>11, <1>12,
     <1>13, <1>14, <1>15, <1>16
  DEF Next, Timerd, Handler, CloseBox, User, RecorderEnding

-----------------------------------------------------------------------------
(***************************************************************************)
(* Without trouble: recordingstatus follows zapit's record mode            *)
(***************************************************************************)
LEMMA PostModes ==
  ASSUME TypeOK, NEW m \in Messages, queue' = Append(queue, m),
         m.msg # "EVT_RECORDMODE"
  PROVE  /\ \A on : LastMode(queue, on) => LastMode(queue', on)
         /\ NoMode(queue) => NoMode(queue')
         /\ \A x : Has(queue, x) => Has(queue', x)
         /\ Has(queue', m)
<1>1. queue \in Seq(Messages)
  BY DEF TypeOK
<1> QED BY <1>1, ModeAppend, HasAppend

LEMMA TakeModes ==
  ASSUME TypeOK, queue # <<>>, queue' = Tail(queue)
  PROVE  /\ \A on : LastMode(queue, on) =>
              LastMode(queue', on) \/ (NoMode(queue') /\ Head(queue) = RecordModeMsg(on))
         /\ NoMode(queue) => NoMode(queue') /\ Head(queue).msg # "EVT_RECORDMODE"
         /\ \A x : Has(queue, x) => x = Head(queue) \/ Has(queue', x)
         /\ Head(queue) \in Messages
<1>1. queue \in Seq(Messages)
  BY DEF TypeOK
<1>2. Head(queue) \in Messages
  BY <1>1, TailFacts
<1> QED BY <1>1, <1>2, ModeTail, HasTail

LEMMA InitModes == Init => ModesAgree
<1> SUFFICES ASSUME Init PROVE ModesAgree
  OBVIOUS
<1>1. NoMode(queue)
  BY SMTT(30) DEF Init, NoMode
<1> QED BY <1>1 DEF Init, RecInit, ModesAgree, On

LEMMA ModesStep ==
  /\ TypeOK /\ Control /\ ~trouble /\ NoErrors /\ TimersServe /\ ModesAgree
  /\ [Next]_vars /\ ~trouble'
  => ModesAgree'
<1> SUFFICES ASSUME TypeOK, Control, ~trouble, NoErrors, TimersServe, ModesAgree,
                    [Next]_vars, ~trouble'
             PROVE  ModesAgree'
  OBVIOUS
<1> USE DEF vars, recvars, appvars, modes, bounds, others
<1>0. recordingstatus \in {0, 1} /\ recordMode \in BOOLEAN
  BY DEF TypeOK
<1>1. ASSUME NEW t \in Ids, TimerFires(t) \/ TimerEnds(t) PROVE ModesAgree'
  <2>1. PICK m \in Messages : queue' = Append(queue, m) /\ m.msg # "EVT_RECORDMODE"
    BY <1>1, MessageFacts, MessagesDiffer DEF TimerFires, TimerEnds, Post
  <2>2. /\ \A on : LastMode(queue, on) => LastMode(queue', on)
        /\ NoMode(queue) => NoMode(queue')
        /\ \A x : Has(queue, x) => Has(queue', x)
    BY <2>1, PostModes
  <2>3. UNCHANGED <<exit_flag, recording_id, recordingstatus, recordMode, pc>>
    BY <1>1 DEF TimerFires, TimerEnds
  <2> QED BY <2>2, <2>3 DEF ModesAgree, On
<1>2. CASE HandleRecordStart
  <2>1. /\ queue # <<>> /\ queue' = Tail(queue) /\ Head(queue).msg = "RECORD_START"
        /\ pc = "loop" /\ UNCHANGED <<exit_flag, recordingstatus, recordMode>>
    BY <1>2 DEF HandleRecordStart, Handling
  <2>2. /\ \A on : LastMode(queue, on) => LastMode(queue', on)
        /\ NoMode(queue) => NoMode(queue')
        /\ \A t : Has(queue, RecordStop(t)) => Has(queue', RecordStop(t))
    BY <2>1, TakeModes, MessagesDiffer
  <2>3. pc' = "record" \/ (pc' \in {"loop", "close"} /\ recording_id' = recording_id)
    BY <1>2 DEF HandleRecordStart, StartNextRecording, Call, Return
  <2> QED BY <2>1, <2>2, <2>3 DEF ModesAgree, On
<1>3. CASE HandleRecordStop
  <2> DEFINE id == Head(queue).id
  <2>1. /\ queue # <<>> /\ queue' = Tail(queue) /\ Head(queue).msg = "RECORD_STOP"
        /\ pc = "loop" /\ UNCHANGED <<recordingstatus, recordMode>>
        /\ exit_flag' = exit_flag
    BY <1>3 DEF HandleRecordStop, Handling, StopRunning
  <2>2. /\ \A on : LastMode(queue, on) =>
             LastMode(queue', on) \/ (NoMode(queue') /\ Head(queue) = RecordModeMsg(on))
        /\ NoMode(queue) => NoMode(queue') /\ Head(queue).msg # "EVT_RECORDMODE"
        /\ \A x : Has(queue, x) => x = Head(queue) \/ Has(queue', x)
        /\ Head(queue) \in Messages
    BY <2>1, TakeModes
  <2>3. Head(queue) = RecordStop(id)
    BY <2>1, <2>2, MessageKinds
  <2> HIDE DEF id
  <2>4. \A on : LastMode(queue, on) => LastMode(queue', on)
    BY <2>2, <2>3, MessagesDiffer
  <2>5. \A t : t # id /\ Has(queue, RecordStop(t)) => Has(queue', RecordStop(t))
    BY <2>2, <2>3, MessagesDiffer
  <2>6. CASE id = recording_id /\ deviceState = "RECORD"
    <3>1. pc' = "stopping"
      BY <1>3, <2>6 DEF HandleRecordStop, id
    <3> QED BY <3>1 DEF ModesAgree, On
  <2>7. CASE id = recording_id /\ deviceState # "RECORD"
    <3>1. exit_flag # "RUNNING"
      BY <2>1, <2>7 DEF Control, Stoppable, TypeOK
    <3>2. pc' = "record" \/ (pc' \in {"loop", "close"} /\ recording_id' = recording_id)
      BY <1>3, <2>7 DEF HandleRecordStop, StartNextRecording, Call, Return, id
    <3> QED BY <3>1, <3>2, <2>1, <2>2, <2>4 DEF ModesAgree, On
  <2>8. CASE id # recording_id
    <3>1. pc' = pc /\ recording_id' = recording_id
      BY <1>3, <2>8 DEF HandleRecordStop, id
    <3> QED BY <3>1, <2>1, <2>2, <2>4, <2>5, <2>8 DEF ModesAgree, On
  <2> QED BY <2>6, <2>7, <2>8
<1>4. CASE HandleRecordMode
  <2>1. /\ queue # <<>> /\ queue' = Tail(queue) /\ Head(queue).msg = "EVT_RECORDMODE"
        /\ pc = "loop" /\ pc' = pc /\ recordingstatus' = Head(queue).data
        /\ UNCHANGED <<exit_flag, recordMode>>
    BY <1>4 DEF HandleRecordMode, Handling
  <2>2. /\ \A on : LastMode(queue, on) =>
             LastMode(queue', on) \/ (NoMode(queue') /\ Head(queue) = RecordModeMsg(on))
        /\ ~NoMode(queue)
    BY <2>1, TakeModes
  <2>3. LastMode(queue, On(recordMode))
    BY <2>1, <2>2 DEF ModesAgree, On
  <2>4. \/ LastMode(queue', On(recordMode))
        \/ NoMode(queue') /\ recordingstatus' = On(recordMode)
    BY <2>1, <2>2, <2>3, MessagesDiffer
  <2> QED BY <2>1, <2>4 DEF ModesAgree, On
<1>5. CASE HandleRecordingEnded
  <2>1. /\ queue # <<>> /\ queue' = Tail(queue)
        /\ Head(queue).msg = "EVT_RECORDING_ENDED"
        /\ pc = "loop" /\ pc' \in {"loop", "close"}
        /\ UNCHANGED <<exit_flag, recording_id, recordingstatus, recordMode>>
    BY <1>5 DEF HandleRecordingEnded, Handling
  <2>2. /\ \A on : LastMode(queue, on) => LastMode(queue', on)
        /\ NoMode(queue) => NoMode(queue')
        /\ \A t : Has(queue, RecordStop(t)) => Has(queue', RecordStop(t))
    BY <2>1, TakeModes, MessagesDiffer
  <2> QED BY <2>1, <2>2 DEF ModesAgree, On
<1>6. CASE Stop
  <2>1. /\ queue' = Append(queue, RecordModeMsg(0)) /\ recordMode' = FALSE
        /\ exit_flag' # "RUNNING"
    BY <1>6 DEF Stop, Post, StopDone, Control
  <2>2. LastMode(queue', 0)
    BY <2>1, ModeAppend, MessageFacts DEF TypeOK
  <2>3. pc' \in {"loop", "record"}
    BY <1>6 DEF Stop, StartNextRecording, Call, Return
  <2> QED BY <2>1, <2>2, <2>3 DEF ModesAgree, On
<1>7. CASE CutBackNeutrino
  <2>1. queue' = Append(queue, RecordModeMsg(1)) /\ recordMode' = TRUE
    BY <1>7 DEF CutBackNeutrino, Post
  <2>2. LastMode(queue', 1)
    BY <2>1, ModeAppend, MessageFacts DEF TypeOK
  <2>3. pc' \in {"setup", "failed", "sleep"}
    BY <1>7 DEF CutBackNeutrino
  <2> QED BY <2>1, <2>2, <2>3 DEF ModesAgree, On
<1>8. CASE Attempt2 \/ Refused \/ Setup \/ NoThread
  <2>1. /\ pc \in {"sleep", "setup", "create"} /\ pc' \in {"setup", "create", "failed"}
        /\ UNCHANGED <<queue, recordMode>>
    BY <1>8 DEF Attempt2, Refused, Setup, NoThread
  <2> QED BY <2>1 DEF ModesAgree, On
<1>9. CASE Recording
  <2>1. /\ pc = "create" /\ pc' \in {"loop", "close"}
        /\ UNCHANGED <<queue, recordMode, exit_flag>>
    BY <1>9 DEF Recording, Return, Launch
  <2>2. exit_flag = "RUNNING"
    BY <2>1 DEF TypeOK, Control
  <2> QED BY <2>1, <2>2 DEF ModesAgree, On
<1>10. CASE RecordFails \/ RecorderFails
  BY <1>10 DEF RecordFails, RecorderFails
<1>11. CASE EndedClosed \/ FailedClosed
  <2>1. /\ pc \in {"loop", "close"} /\ pc' = "loop"
        /\ UNCHANGED <<recording_id, queue, exit_flag, recordingstatus, recordMode>>
    BY <1>11, EndedHarmless DEF EndedClosed
  <2> QED BY <2>1 DEF ModesAgree, On
<1>12. CASE StandbyClosed \/ StandbyOn \/ StandbyOff
  <2>1. /\ pc \in {"loop", "close"} /\ pc' \in {"loop", "close"}
        /\ UNCHANGED <<recording_id, queue, exit_flag, recordingstatus, recordMode>>
    BY <1>12 DEF StandbyClosed, StandbyOn, StandbyOff, Closing, Key
  <2> QED BY <2>1 DEF ModesAgree, On
<1>13. CASE Toggle
  <2>1. pc = "loop" /\ UNCHANGED <<exit_flag, recordMode>>
    BY <1>13 DEF Toggle, Key
  <2>2. CASE recordingstatus = 0
    <3>1. pc' = "record"
      BY <1>13, <2>2, SMTT(30) DEF Toggle, Call
    <3> QED BY <3>1 DEF ModesAgree, On
  <2>3. CASE recordingstatus = 1
    <3>1. /\ StopTimerEvent(recording_id, queue) /\ recordingstatus' = 0
          /\ StartNextRecording(0, nextRecordingInfo, "guistop")
      BY <1>13, <2>3, SMTT(30) DEF Toggle
    <3>2. pc' = "record" \/ (pc' = "loop" /\ recording_id' = recording_id)
      BY <3>1 DEF StartNextRecording, Call, Return
    <3>3. /\ \A on : LastMode(queue, on) => LastMode(queue', on)
          /\ NoMode(queue) => NoMode(queue')
          /\ Serving(timer, queue, recording_id) => Has(queue', RecordStop(recording_id))
      <4>1. CASE recording_id \in Ids /\ timer[recording_id] = "running"
        <5>1. /\ queue' = Append(queue, RecordStop(recording_id))
              /\ RecordStop(recording_id) \in Messages
              /\ RecordStop(recording_id).msg # "EVT_RECORDMODE"
          BY <3>1, <4>1, MessageFacts, MessagesDiffer DEF StopTimerEvent
        <5> QED BY <5>1, PostModes
      <4>2. CASE ~(recording_id \in Ids /\ timer[recording_id] = "running")
        BY <3>1, <4>2 DEF StopTimerEvent, Serving
      <4> QED BY <4>1, <4>2
    <3>4. recordMode => Serving(timer, queue, recording_id)
      BY <2>1 DEF TimersServe, RunningServed, ModesAgree, On
    <3> QED BY <2>1, <2>3, <3>1, <3>2, <3>3, <3>4, <1>0 DEF ModesAgree, On
  <2> QED BY <2>2, <2>3, <1>0
<1>14. CASE RecorderEnds \/ \E r \in reports : Reports(r)
  <2>1. UNCHANGED <<exit_flag, recording_id, queue, pc, recordingstatus, recordMode>>
    BY <1>14 DEF RecorderEnds, End, Reports, ReadStatus
  <2> QED BY <2>1 DEF ModesAgree, On
<1>15. ASSUME NEW r \in reports, Sends(r) PROVE ModesAgree'
  <2>1. /\ queue' = Append(queue, RecordingEnded(r.status))
        /\ UNCHANGED <<exit_flag, recording_id, pc, recordingstatus, recordMode>>
        /\ r.status \in Statuses
    BY <1>15 DEF Sends, Send, Post, TypeOK
  <2>2. /\ RecordingEnded(r.status) \in Messages
        /\ RecordingEnded(r.status).msg # "EVT_RECORDMODE"
    BY <2>1, MessageFacts, MessagesDiffer
  <2>3. /\ \A on : LastMode(queue, on) => LastMode(queue', on)
        /\ NoMode(queue) => NoMode(queue')
        /\ \A x : Has(queue, x) => Has(queue', x)
    BY <2>1, <2>2, PostModes
  <2> QED BY <2>1, <2>3 DEF ModesAgree, On
<1>16. CASE UNCHANGED vars
  BY <1>16 DEF ModesAgree, On
<1> QED
  BY <1>1, <1>2, <1>3, <1>4, <1>5, <1>6, <1>7, <1>8, <1>9, <1>10, <1>11, <1>12,
     <1>13, <1>14, <1>15, <1>16
  DEF Next, Timerd, Handler, CloseBox, User, RecorderEnding

-----------------------------------------------------------------------------
(***************************************************************************)
(* The theorems                                                            *)
(***************************************************************************)
LEMMA ControlInvariant == Spec => []ControlInv
<1>1. Init => ControlInv
  BY InitType, InitControl, InitNoErrors, InitTimersServe, InitModes DEF ControlInv
<1>2. ControlInv /\ [Next]_vars => ControlInv'
  <2> SUFFICES ASSUME ControlInv, [Next]_vars PROVE ControlInv'
    OBVIOUS
  <2>1. TypeOK' /\ Control'
    BY TypeStep, ControlStep DEF ControlInv
  <2>2. ASSUME ~trouble' PROVE ~trouble
    <3>1. trouble => trouble'
      BY DEF vars, Next, Timerd, TimerFires, TimerEnds, Handler, HandleRecordStart,
         HandleRecordStop, HandleRecordMode, HandleRecordingEnded, Stop,
         CutBackNeutrino, Attempt2, Refused, Setup, NoThread, Recording,
         RecordFails, CloseBox, EndedClosed, FailedClosed, StandbyClosed, User,
         Toggle, StandbyOn, StandbyOff, RecorderFails, RecorderEnding,
         RecorderEnds, Reports, Sends
    <3> QED BY <2>2, <3>1
  <2>3. ASSUME ~trouble' PROVE NoErrors' /\ TimersServe' /\ ModesAgree'
    BY <2>2, <2>3, NoErrorsStep, TimersStep, ModesStep DEF ControlInv
  <2> QED BY <2>1, <2>3 DEF ControlInv
<1> QED BY <1>1, <1>2, PTL DEF Spec

(* The types of the main thread's state, and that it is inside the         *)
(* recorder exactly where CFileDevice calls it.                            *)
THEOREM ControlTypeCorrect == Spec => []TypeOK
<1>1. ControlInv => TypeOK
  BY DEF ControlInv
<1> QED BY <1>1, ControlInvariant, PTL

(* RECORD_STOP finds the device recording whenever a recording runs.       *)
THEOREM RunningIsStoppable == Spec => []Stoppable
<1>1. ControlInv => Stoppable
  BY DEF ControlInv, Control
<1> QED BY <1>1, ControlInvariant, PTL

(* Until there is trouble, the timer of a recording that runs is running   *)
(* in timerd or its RECORD_STOP is on the way.                             *)
THEOREM RunningHasTimer == Spec => []HasTimer
<1>1. ControlInv => HasTimer
  BY DEF ControlInv, TimersServe, RunningServed, Serving, Has, HasTimer
<1> QED BY <1>1, ControlInvariant, PTL

(* Until there is trouble, recordingstatus is what zapit's record mode     *)
(* says once all messages are handled.                                     *)
THEOREM StatusFollowsMode == Spec => []StatusMatches
<1>1. ControlInv => StatusMatches
  <2> SUFFICES ASSUME ControlInv, Quiet, ~trouble
               PROVE  recordingstatus = 1 <=> recordMode
    BY DEF StatusMatches
  <2>1. Len(queue) = 0 /\ pc = "loop" /\ ModesAgree /\ recordMode \in BOOLEAN
    BY DEF Quiet, ControlInv, TypeOK
  <2>2. ~LastMode(queue, On(recordMode)) /\ ~Has(queue, RecordStop(recording_id))
    BY <2>1, SMTT(30) DEF LastMode, Has
  <2> QED BY <2>1, <2>2, SMTT(30) DEF ModesAgree, On
<1> QED BY <1>1, ControlInvariant, PTL
=============================================================================
