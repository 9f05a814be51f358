------------------------- MODULE CameraProxy_proofs -------------------------
(***************************************************************************)
(* What holds of the proxy for any HTTP callers, streams and object types: *)
(* ids are fresh, a session leaves nothing behind, no pipeline is          *)
(* forgotten, the controller is told of events as EventLog says, and       *)
(* sessions and requests come to an end if their tasks are scheduled.      *)
(* For the filter, what ClockSync_proofs shows holds of every stream.      *)
(***************************************************************************)
EXTENDS CameraProxy, ClockSync_proofs, FiniteSetTheorems, TLAPS

\* A stop was sent only under ids up to the current one, and under the current one only
\* while its event counts as open.
Ids ==
    /\ \A id \in stopped : id \in Nat /\ id <= eventId
    /\ eventId \in stopped => started

\* Who may be suspended: the adapter's own tasks, and Core while it closes the camera.
Quiet ==
    /\ at[Core] = IF phase = "closing" THEN "stop" ELSE "idle"
    /\ \A t \in Tasks \ {Core} : at[t] # "idle" =>
           (program = "rtsp" /\ t \in Callers) \/ (program = "dahua" /\ t = Watcher)
    /\ (phase = "closing" /\ retry) => at[Watcher] = "idle"
    /\ phase = "connecting" => ~serving /\ \A t \in Tasks : at[t] = "idle"
    /\ (phase = "cleanup" /\ retry) => ~serving
    /\ phase = "cleanup" \/ serving => program = "rtsp"

\* A pipeline is started only where none runs, and none once its session is over.
Pipelines ==
    /\ \A k \in Streams : spawning = k => handle[k] # "running"
    /\ (phase \in {"connecting", "exited"} \/ (phase = "cleanup" /\ retry))
           => \A k \in Streams : handle[k] # "running"

Inv == TypeOK /\ Ids /\ Quiet /\ Pipelines

-----------------------------------------------------------------------------

\* The tasks of the adapters are neither Core nor each other's.
LEMMA TasksDiffer ==
  /\ Core \in Tasks /\ Watcher \in Tasks /\ Watcher # Core /\ Watcher \in Children
  /\ Core \notin Children /\ Callers \subseteq Tasks /\ Core \notin Callers
  /\ Watcher \notin Callers
  /\ NoStream \notin Streams
BY MotionAssumption, CoreAssumption, RtspAssumption, DahuaAssumption, StreamAssumption

\* Where no task begins to send a stop, the ids of the stops stay.
LEMMA NoStop ==
  ASSUME History, \A t \in Tasks : at'[t] = "stop" => at[t] = "stop"
  PROVE  /\ stopped' = stopped /\ overlapped' \in BOOLEAN
         /\ UNCHANGED <<program, clockSync>>
BY DEF History, Sending

\* At most the current id is added to them.
LEMMA AStop ==
  ASSUME History
  PROVE  /\ stopped' \in {stopped, stopped \cup {eventId}} /\ overlapped' \in BOOLEAN
         /\ UNCHANGED <<program, clockSync>>
BY DEF History

\* Nothing is open, suspended or running when the process starts.
LEMMA InitInv == Init => Inv
<1> SUFFICES ASSUME Init PROVE Inv
  OBVIOUS
<1> USE TasksDiffer, MotionAssumption DEF Init, MotionInit, CoreInit, StreamsInit
<1>1. TypeOK
  BY DEF TypeOK, StreamsTypeOK, CoreTypeOK, MotionTypeOK, Types, Nothing, Keep, Cams
<1>2. Ids /\ Quiet /\ Pipelines
  BY DEF Ids, Quiet, Pipelines
<1> QED
  BY <1>1, <1>2 DEF Inv

\* What a stopped stream leaves.
LEMMA KillStops ==
  ASSUME TypeOK, NEW ks \in SUBSET Streams, Kill(ks)
  PROVE  /\ handle' \in [Streams -> {"none", "running", "killed", "ended"}]
         /\ loose' \in [Streams -> BOOLEAN]
         /\ \A k \in Streams : handle'[k] = "running" => handle[k] = "running" /\ k \notin ks
BY DEF Kill, TypeOK, StreamsTypeOK, CoreTypeOK, MotionTypeOK, Types

\* What the operations of a motion event do to its variables.
LEMMA MotionTyped ==
  ASSUME MotionTypeOK, NEW t \in Tasks,
         \/ \E type \in Types : BeginStart(t, type)
         \/ BeginStop(t) \/ StartSent(t) \/ SnapshotCaptured(t) \/ StopSent(t)
         \/ OperationRaises(t) \/ UNCHANGED motion
  PROVE  MotionTypeOK'
<1> USE DEF MotionTypeOK, Types, Suspend
<1>1. ASSUME NEW type \in Types, BeginStart(t, type) PROVE MotionTypeOK'
  BY <1>1 DEF BeginStart, SendEvent
<1>2. CASE BeginStop(t)
  BY <1>2 DEF BeginStop, SendEvent
<1>3. CASE StartSent(t)
  BY <1>3 DEF StartSent
<1>4. CASE SnapshotCaptured(t)
  BY <1>4 DEF SnapshotCaptured
<1>5. CASE StopSent(t)
  <2> eventId' \in Nat /\ objectType' \in Types
    BY <1>5 DEF StopSent
  <2> QED
    BY <1>5 DEF StopSent
<1>6. CASE OperationRaises(t)
  BY <1>6 DEF OperationRaises, SendRaises, CaptureRaises
<1>7. CASE UNCHANGED motion
  BY <1>7 DEF motion
<1> QED
  BY <1>1, <1>2, <1>3, <1>4, <1>5, <1>6, <1>7

\* The types, when those of the motion event are known.
LEMMA AllTyped ==
  ASSUME TypeOK, MotionTypeOK', History,
         phase' \in {"connecting", "running", "ending", "closing", "cleanup", "exited"},
         receiver' \in {"hello", "recv", "reply", "ended"}, retry' \in BOOLEAN,
         clean' \in BOOLEAN,
         handle' \in [Streams -> {"none", "running", "killed", "ended"}],
         loose' \in [Streams -> BOOLEAN], todo' \in [Streams -> {"keep", "off", "on"}],
         spawning' \in Streams \cup {NoStream}, probing' \in BOOLEAN, serving' \in BOOLEAN,
         watching' \in BOOLEAN, eventId \in Nat
  PROVE  TypeOK'
<1>1. stopped' \subseteq Nat /\ overlapped' \in BOOLEAN /\ program' = program
  BY AStop DEF TypeOK
<1> QED
  BY <1>1 DEF TypeOK, StreamsTypeOK, CoreTypeOK

\* A connection is made, refused or lost.
LEMMA ConnectionInv ==
  ASSUME Inv, History,
         \/ Connect /\ watching' = (program = "dahua") /\ UNCHANGED <<streams, serving>>
         \/ ConnectRaises /\ Kill(Streams) /\ UNCHANGED <<todo, spawning, probing, serving, watching>>
         \/ ConnectionLost /\ UNCHANGED <<streams, serving, watching>>
  PROVE  Inv'
<1> USE TasksDiffer
   DEF Inv, TypeOK, StreamsTypeOK, CoreTypeOK, MotionTypeOK, Types, streams
<1>1. CASE Connect /\ watching' = (program = "dahua") /\ UNCHANGED <<streams, serving>>
  <2> stopped' = stopped /\ overlapped' \in BOOLEAN /\ UNCHANGED program
    BY <1>1, NoStop DEF Connect
  <2> USE <1>1 DEF Connect
  <2>1. TypeOK'
    OBVIOUS
  <2>2. Ids'
    BY DEF Ids
  <2>3. Quiet'
    BY DEF Quiet
  <2>4. Pipelines'
    BY DEF Quiet, Pipelines
  <2> QED
    BY <2>1, <2>2, <2>3, <2>4
<1>2. CASE ConnectRaises /\ Kill(Streams) /\ UNCHANGED <<todo, spawning, probing, serving, watching>>
  <2> stopped' = stopped /\ overlapped' \in BOOLEAN /\ UNCHANGED program
    BY <1>2, NoStop DEF ConnectRaises, motion
  <2> HIDE DEF Kill
  <2> USE KillStops
  <2> USE <1>2 DEF ConnectRaises, motion
  <2>1. TypeOK'
    OBVIOUS
  <2>2. Ids'
    BY DEF Ids
  <2>3. Quiet'
    BY DEF Quiet
  <2>4. Pipelines'
    BY DEF Quiet, Pipelines
  <2> QED
    BY <2>1, <2>2, <2>3, <2>4
<1>3. CASE ConnectionLost /\ UNCHANGED <<streams, serving, watching>>
  <2> stopped' = stopped /\ overlapped' \in BOOLEAN /\ UNCHANGED program
    BY <1>3, NoStop DEF ConnectionLost
  <2> USE <1>3 DEF ConnectionLost
  <2>1. TypeOK'
    OBVIOUS
  <2>2. Ids'
    BY DEF Ids
  <2>3. Quiet'
    BY DEF Quiet
  <2>4. Pipelines'
    BY DEF Quiet, Pipelines
  <2> QED
    BY <2>1, <2>2, <2>3, <2>4
<1> QED
  BY <1>1, <1>2, <1>3

\* What the receiver and the pipelines do changes no motion event.
LEMMA ReceiverInv ==
  ASSUME Inv, History, UNCHANGED <<motion, serving, watching>>,
         \/ UNCHANGED <<phase, retry>>
         \/ phase = "running" /\ phase' = "ending" /\ retry' \in BOOLEAN,
         receiver' \in {"hello", "recv", "reply", "ended"}, clean' = clean,
         handle' \in [Streams -> {"none", "running", "killed", "ended"}],
         loose' \in [Streams -> BOOLEAN], todo' \in [Streams -> {"keep", "off", "on"}],
         spawning' \in Streams \cup {NoStream}, probing' \in BOOLEAN,
         \A k \in Streams : spawning' = k => handle'[k] # "running",
         \/ AdapterLives
         \/ \A k \in Streams : handle'[k] = "running" => handle[k] = "running"
  PROVE  Inv'
<1> USE TasksDiffer
   DEF Inv, TypeOK, StreamsTypeOK, CoreTypeOK, MotionTypeOK, Types, motion, AdapterLives
<1> stopped' = stopped /\ overlapped' \in BOOLEAN /\ UNCHANGED program
  BY NoStop
<1>1. TypeOK'
  OBVIOUS
<1>2. Ids'
  BY DEF Ids
<1>3. Quiet'
  BY DEF Quiet
<1>4. Pipelines'
  BY DEF Pipelines
<1> QED
  BY <1>1, <1>2, <1>3, <1>4

\* The receiver, one await after the other.
LEMMA StreamReceiverInv ==
  ASSUME Inv, History, StreamReceiver, UNCHANGED <<serving, watching>> PROVE Inv'
<1> USE TasksDiffer DEF streams, AdapterLives
<1>1. AdapterLives
  BY DEF StreamReceiver, Answer
<1>2. TypeOK /\ Pipelines
  BY DEF Inv
<1>3. CASE (Hello \/ ReceiveRequest \/ ForceReconnect \/ ReceiveClosed) /\ UNCHANGED streams
  BY <1>1, <1>2, <1>3, ReceiverInv DEF Hello, ReceiveRequest, ForceReconnect,
     ReceiveClosed, ReceiverRaises, Raises, Pipelines, TypeOK, StreamsTypeOK, CoreTypeOK,
     MotionTypeOK, Types
<1>4. CASE ReceiveSettings
  BY <1>1, <1>2, <1>4, ReceiverInv DEF ReceiveSettings, ReceiveRequest, Pipelines, TypeOK,
     StreamsTypeOK, CoreTypeOK, MotionTypeOK, Types
<1>5. CASE RequestRaises(FALSE)
  BY <1>1, <1>2, <1>5, ReceiverInv DEF RequestRaises, ReceiverRaises, Raises, Keep,
     Pipelines, TypeOK, StreamsTypeOK, CoreTypeOK, MotionTypeOK, Types
<1>6. ASSUME NEW k \in Streams, StopAsked(k) PROVE Inv'
  <2>1. {k} \in SUBSET Streams /\ Kill({k})
    BY <1>6 DEF StopAsked
  <2> QED
    BY <1>1, <1>2, <1>6, <2>1, KillStops, ReceiverInv DEF StopAsked, Done, Processing,
       core, Pipelines, TypeOK, StreamsTypeOK, CoreTypeOK, MotionTypeOK, Types
<1>7. ASSUME NEW k \in Streams, StartAsked(k) PROVE Inv'
  BY <1>1, <1>2, <1>7, ReceiverInv DEF StartAsked, Done, Processing, core, Pipelines,
     TypeOK, StreamsTypeOK, CoreTypeOK, MotionTypeOK, Types
<1>8. ASSUME NEW k \in Streams, Spawned(k) PROVE Inv'
  BY <1>1, <1>2, <1>8, ReceiverInv
     DEF Spawned, core, Pipelines, TypeOK, StreamsTypeOK, CoreTypeOK, MotionTypeOK, Types
<1>9. CASE StreamReply
  BY <1>1, <1>2, <1>9, ReceiverInv DEF StreamReply, Reply, Pipelines, TypeOK,
     StreamsTypeOK, CoreTypeOK, MotionTypeOK, Types
<1> QED
  BY <1>3, <1>4, <1>5, <1>6, <1>7, <1>8, <1>9 DEF StreamReceiver, Answer

\* Pipelines end by themselves, and so does an ffprobe.
LEMMA PipelineEndsInv ==
  ASSUME Inv, History, UNCHANGED <<serving, watching>>,
         ProbeEnds \/ \E k \in Streams : ShellEnds(k) \/ LooseEnd(k)
  PROVE  Inv'
<1> USE TasksDiffer
<1>1. TypeOK /\ Pipelines
  BY DEF Inv
<1>2. ASSUME NEW k \in Streams, ShellEnds(k) PROVE Inv'
  BY <1>1, <1>2, ReceiverInv
     DEF ShellEnds, core, Pipelines, TypeOK, StreamsTypeOK, CoreTypeOK, MotionTypeOK, Types
<1>3. ASSUME NEW k \in Streams, LooseEnd(k) PROVE Inv'
  BY <1>1, <1>3, ReceiverInv
     DEF LooseEnd, core, Pipelines, TypeOK, StreamsTypeOK, CoreTypeOK, MotionTypeOK, Types
<1>4. CASE ProbeEnds
  BY <1>1, <1>4, ReceiverInv
     DEF ProbeEnds, core, Pipelines, TypeOK, StreamsTypeOK, CoreTypeOK, MotionTypeOK, Types
<1> QED
  BY <1>2, <1>3, <1>4

\* The HTTP server starts, or its port is taken.
LEMMA ServerInv ==
  ASSUME Inv, History, program = "rtsp", ServerStarts \/ ServerFails, UNCHANGED watching
  PROVE  Inv'
<1> USE TasksDiffer DEF Inv, TypeOK, StreamsTypeOK, CoreTypeOK, MotionTypeOK, Types,
   motion, core, streams, AdapterLives
<1> stopped' = stopped /\ overlapped' \in BOOLEAN /\ UNCHANGED program
  BY NoStop DEF ServerStarts, ServerFails
<1>1. CASE ServerStarts
  <2> USE <1>1 DEF ServerStarts
  <2>1. TypeOK'
    OBVIOUS
  <2>2. Ids'
    BY DEF Ids
  <2>3. Quiet'
    BY DEF Quiet
  <2>4. Pipelines'
    BY DEF Quiet, Pipelines
  <2> QED
    BY <2>1, <2>2, <2>3, <2>4
<1>2. CASE ServerFails
  <2>0. TypeOK'
    <3>1. MotionTypeOK'
      BY <1>2 DEF ServerFails
    <3> QED
      BY <1>2, <3>1, AllTyped DEF ServerFails, Raises
  <2> USE <1>2 DEF ServerFails, Raises
  <2>1. Ids'
    BY DEF Ids
  <2>2. Quiet'
    BY DEF Quiet
  <2>3. Pipelines'
    BY DEF Quiet, Pipelines
  <2> QED
    BY <2>0, <2>1, <2>2, <2>3
<1> QED
  BY <1>1, <1>2

\* A task of the adapter begins or goes on with an operation.
LEMMA CallInv ==
  ASSUME Inv, History, UNCHANGED <<receiver, clean, streams, serving>>, watching' \in BOOLEAN,
         NEW t \in Tasks \ {Core}, phase # "connecting", phase # "exited",
         \/ UNCHANGED <<phase, retry>>
         \/ phase = "running" /\ phase' = "ending" /\ retry' = FALSE,
         \/ program = "rtsp" /\ t \in Callers
         \/ program = "dahua" /\ t = Watcher /\ AdapterLives,
         \/ \E type \in Types : at[t] = "idle" /\ BeginStart(t, type)
         \/ at[t] = "idle" /\ BeginStop(t)
         \/ StartSent(t) \/ SnapshotCaptured(t) \/ StopSent(t) \/ OperationRaises(t)
         \/ UNCHANGED motion
  PROVE  Inv'
<1>0. TypeOK'
  <2>1. MotionTypeOK'
    BY MotionTyped DEF Inv, TypeOK, StreamsTypeOK, CoreTypeOK
  <2> QED
    BY <2>1, AllTyped
       DEF Inv, TypeOK, StreamsTypeOK, CoreTypeOK, MotionTypeOK, Types, streams
<1> USE TasksDiffer DEF Inv, TypeOK, StreamsTypeOK, CoreTypeOK, MotionTypeOK, Types,
   streams, AdapterLives, Suspend
<1>1. ASSUME NEW type \in Types, at[t] = "idle", BeginStart(t, type) PROVE Inv'
  <2> stopped' = stopped /\ overlapped' \in BOOLEAN /\ UNCHANGED program
    BY <1>1, NoStop DEF BeginStart
  <2> USE <1>1 DEF BeginStart, SendEvent
  <2>1. Ids'
    BY DEF Ids
  <2>2. Quiet'
    BY DEF Quiet
  <2>3. Pipelines'
    BY DEF Quiet, Pipelines
  <2> QED
    BY <1>0, <2>1, <2>2, <2>3
<1>2. CASE at[t] = "idle" /\ BeginStop(t)
  <2> stopped' \in {stopped, stopped \cup {eventId}} /\ overlapped' \in BOOLEAN /\ UNCHANGED program
    BY AStop
  <2> USE <1>2 DEF BeginStop, SendEvent
  <2>1. Ids'
    BY DEF Ids
  <2>2. Quiet'
    BY DEF Quiet
  <2>3. Pipelines'
    BY DEF Quiet, Pipelines
  <2> QED
    BY <1>0, <2>1, <2>2, <2>3
<1>3. CASE StartSent(t)
  <2> stopped' = stopped /\ overlapped' \in BOOLEAN /\ UNCHANGED program
    BY <1>3, NoStop DEF StartSent
  <2> USE <1>3 DEF StartSent
  <2>1. Ids'
    BY DEF Ids
  <2>2. Quiet'
    BY DEF Quiet
  <2>3. Pipelines'
    BY DEF Quiet, Pipelines
  <2> QED
    BY <1>0, <2>1, <2>2, <2>3
<1>4. CASE SnapshotCaptured(t)
  <2> stopped' = stopped /\ overlapped' \in BOOLEAN /\ UNCHANGED program
    BY <1>4, NoStop DEF SnapshotCaptured
  <2> USE <1>4 DEF SnapshotCaptured
  <2>1. Ids'
    BY DEF Ids
  <2>2. Quiet'
    BY DEF Quiet
  <2>3. Pipelines'
    BY DEF Quiet, Pipelines
  <2> QED
    BY <1>0, <2>1, <2>2, <2>3
<1>5. CASE StopSent(t)
  <2> stopped' = stopped /\ overlapped' \in BOOLEAN /\ UNCHANGED program
    BY <1>5, NoStop DEF StopSent
  <2> USE <1>5 DEF StopSent
  <2>1. Ids'
    BY DEF Ids
  <2>2. Quiet'
    BY DEF Quiet
  <2>3. Pipelines'
    BY DEF Quiet, Pipelines
  <2> QED
    BY <1>0, <2>1, <2>2, <2>3
<1>6. CASE OperationRaises(t)
  <2> stopped' = stopped /\ overlapped' \in BOOLEAN /\ UNCHANGED program
    BY <1>6, NoStop DEF OperationRaises, SendRaises, CaptureRaises
  <2> USE <1>6 DEF OperationRaises, SendRaises, CaptureRaises
  <2>1. Ids'
    BY DEF Ids
  <2>2. Quiet'
    BY DEF Quiet
  <2>3. Pipelines'
    BY DEF Quiet, Pipelines
  <2> QED
    BY <1>0, <2>1, <2>2, <2>3
<1>7. CASE UNCHANGED motion
  <2> stopped' = stopped /\ overlapped' \in BOOLEAN /\ UNCHANGED program
    BY <1>7, NoStop DEF motion
  <2> USE <1>7 DEF motion
  <2>1. Ids'
    BY DEF Ids
  <2>2. Quiet'
    BY DEF Quiet
  <2>3. Pipelines'
    BY DEF Quiet, Pipelines
  <2> QED
    BY <1>0, <2>1, <2>2, <2>3
<1> QED
  BY <1>1, <1>2, <1>3, <1>4, <1>5, <1>6, <1>7

\* The end of a session up to the adapter's own cleanup, or to the next session.
LEMMA CloseStreamsInv ==
  ASSUME Inv, History, NEW next \in {"cleanup", "connecting", "exited"}, CloseStreams(next),
         \/ /\ program = "rtsp" /\ next = "cleanup"
            /\ serving' = (serving /\ phase' # "cleanup") /\ watching' = watching
         \/ program = "dahua" /\ next = Closed /\ serving' = serving /\ watching' \in BOOLEAN
  PROVE  Inv'
<1>1. /\ retry' = retry /\ clean' = clean /\ receiver' \in {"hello", "recv", "reply", "ended"}
      /\ todo' \in [Streams -> {"keep", "off", "on"}] /\ spawning' \in {spawning, NoStream}
      /\ probing' \in BOOLEAN
  BY DEF CloseStreams, Closing, EndSession, CloseEnds, CloseRaises, Keep, Inv, TypeOK,
     StreamsTypeOK, CoreTypeOK, MotionTypeOK, Types
<1>2. /\ handle' \in [Streams -> {"none", "running", "killed", "ended"}]
      /\ loose' \in [Streams -> BOOLEAN]
      /\ \A k \in Streams : handle'[k] = "running" => handle[k] = "running" /\ phase' = "closing"
  <2>1. CASE phase' = "closing"
    BY <2>1 DEF CloseStreams, Inv, TypeOK, StreamsTypeOK, CoreTypeOK, MotionTypeOK, Types
  <2>2. CASE phase' # "closing"
    BY <2>2, KillStops DEF CloseStreams, Inv
  <2> QED
    BY <2>1, <2>2
<1>3. Pipelines'
  BY <1>1, <1>2, TasksDiffer DEF Inv, Pipelines
<1>4. /\ Cancelled \in [Tasks -> {"idle", "start", "capture", "stop", "snapshot"}]
      /\ \A t \in Tasks : Cancelled[t] = IF retry /\ t \in Children THEN "idle" ELSE at[t]
  BY DEF Cancelled, Inv, TypeOK, StreamsTypeOK, CoreTypeOK, MotionTypeOK, Types
<1>5. ASSUME MotionTypeOK', phase' \in {next, "closing", "exited"} PROVE TypeOK'
  <2>1. serving' \in BOOLEAN /\ watching' \in BOOLEAN
    BY DEF Inv, TypeOK
  <2> QED
    BY <1>1, <1>2, <1>5, <2>1, AllTyped
       DEF Inv, TypeOK, StreamsTypeOK, CoreTypeOK, MotionTypeOK, Types
<1>6. ASSUME UNCHANGED <<stopped, eventId, started>> PROVE Ids'
  BY <1>6 DEF Inv, Ids
<1>7. CASE phase = "ending" /\ ~started /\ phase' = next /\ at' = Cancelled
           /\ UNCHANGED <<ws, eventId, started, objectType, snapshot, wanted, sent, starts>>
  <2>1. stopped' = stopped /\ program' = program
    BY <1>7, <1>4, NoStop
  <2>2. TypeOK'
    <3>1. MotionTypeOK'
      BY <1>7, <1>4 DEF Inv, TypeOK, StreamsTypeOK, CoreTypeOK, MotionTypeOK, Types
    <3>2. phase' \in {next, "closing", "exited"}
      BY <1>7
    <3> QED
      BY <1>5, <3>1, <3>2 DEF TypeOK, StreamsTypeOK, CoreTypeOK
  <2>3. Quiet'
    <3>1. \A t \in Tasks : at'[t] # "idle" => ~retry \/ t \notin Children
      BY <1>7, <1>4
    <3>2. \A t \in Tasks : at'[t] # "idle" => at[t] # "idle"
      BY <1>7, <1>4
    <3>3. at[Core] = "idle" /\ at'[Core] = "idle"
      BY <1>7, <3>2, TasksDiffer DEF Inv, Quiet
    <3>4. \A t \in Tasks \ {Core} : at'[t] # "idle" =>
              (program' = "rtsp" /\ t \in Callers) \/ (program' = "dahua" /\ t = Watcher)
      BY <3>2, <2>1 DEF Inv, Quiet
    <3>5. phase' # "closing" /\ phase' = next
      BY <1>7, <1>1 DEF Closed
    <3>6. ASSUME phase' = "connecting"
          PROVE  ~serving' /\ \A t \in Tasks : at'[t] = "idle"
      <4>1. program = "dahua" /\ retry
        BY <3>5, <3>6 DEF Closed
      <4>2. ~serving'
        BY <4>1 DEF Inv, Quiet
      <4> QED
        BY <4>1, <4>2, <2>1, <3>1, <3>3, <3>4, TasksDiffer
    <3>7. (phase' = "cleanup" /\ retry') => ~serving'
      BY <1>1, <3>5, <3>6 DEF Closed
    <3>8. phase' = "cleanup" \/ serving' => program' = "rtsp"
      BY <2>1, <3>5 DEF Inv, Quiet, Closed
    <3> QED
      BY <3>3, <3>4, <3>5, <3>6, <3>7, <3>8 DEF Quiet
  <2> QED
    BY <1>3, <1>6, <1>7, <2>1, <2>2, <2>3 DEF Inv
<1>8. CASE /\ phase = "ending" /\ started /\ phase' = "closing" /\ SendEvent("stop", objectType)
           /\ at' = [Cancelled EXCEPT ![Core] = "stop"]
           /\ UNCHANGED <<ws, eventId, started, objectType, snapshot, wanted>>
  <2>1. stopped' \in {stopped, stopped \cup {eventId}} /\ program' = program
    BY AStop
  <2>2. TypeOK'
    BY <1>8, <1>4, <1>5
       DEF Inv, TypeOK, StreamsTypeOK, CoreTypeOK, MotionTypeOK, Types, SendEvent
  <2>3. Ids'
    BY <1>8, <2>1 DEF Inv, Ids, TypeOK, StreamsTypeOK, CoreTypeOK, MotionTypeOK, Types
  <2>4. Quiet'
    BY <1>8, <1>4, <1>1, <2>1, TasksDiffer
       DEF Inv, Quiet, TypeOK, StreamsTypeOK, CoreTypeOK, MotionTypeOK, Types
  <2> QED
    BY <1>3, <2>2, <2>3, <2>4 DEF Inv
<1>9. CASE phase' = "exited" /\ UNCHANGED motion /\ phase = "ending"
  <2>1. stopped' = stopped /\ program' = program
    BY <1>9, NoStop DEF motion
  <2>2. TypeOK'
    BY <1>9, <1>5 DEF Inv, TypeOK, StreamsTypeOK, CoreTypeOK, MotionTypeOK, Types, motion
  <2>3. Quiet'
    BY <1>9, <1>1, <2>1, TasksDiffer DEF Inv, Quiet, motion
  <2> QED
    BY <1>3, <1>6, <1>9, <2>1, <2>2, <2>3 DEF Inv, motion
<1>10. CASE CloseEnds(next)
  <2>1. stopped' = stopped /\ program' = program
    BY <1>10, NoStop, TasksDiffer DEF CloseEnds, StopSent, Suspend, Inv, TypeOK,
       StreamsTypeOK, CoreTypeOK, MotionTypeOK, Types
  <2>2. TypeOK'
    BY <1>10, <1>5, MotionTyped, TasksDiffer
       DEF CloseEnds, Inv, TypeOK, StreamsTypeOK, CoreTypeOK
  <2>3. Ids'
    <3>1. eventId \in Nat /\ eventId' = eventId + 1
      BY <1>10 DEF CloseEnds, StopSent, Inv, TypeOK, StreamsTypeOK, CoreTypeOK,
         MotionTypeOK, Types
    <3>2. Ids
      BY DEF Inv
    <3>3. \A id \in stopped : id \in Nat /\ id < eventId'
      BY <3>1, <3>2 DEF Ids
    <3>4. started' = FALSE
      BY <1>10 DEF CloseEnds, StopSent
    <3> QED
      BY <2>1, <3>1, <3>3, <3>4 DEF Ids
  <2>4. Quiet'
    <3>1. at \in [Tasks -> {"idle", "start", "capture", "stop", "snapshot"}]
      BY DEF Inv, TypeOK, StreamsTypeOK, CoreTypeOK, MotionTypeOK
    <3>2. /\ phase = "closing" /\ phase' = next
          /\ at' = [at EXCEPT ![Core] = "idle"]
      BY <1>10 DEF CloseEnds, StopSent, Suspend
    <3>3. at'[Core] = "idle" /\ \A t \in Tasks \ {Core} : at'[t] = at[t]
      BY <3>1, <3>2, TasksDiffer
    <3>4. \A t \in Tasks \ {Core} : at'[t] # "idle" =>
              (program' = "rtsp" /\ t \in Callers) \/ (program' = "dahua" /\ t = Watcher)
      BY <3>3, <2>1 DEF Inv, Quiet
    <3>5. phase' # "closing"
      BY <3>2 DEF Closed
    <3>6. ASSUME phase' = "connecting"
          PROVE  ~serving' /\ \A t \in Tasks : at'[t] = "idle"
      <4>1. program = "dahua" /\ retry
        BY <3>2, <3>6 DEF Closed
      <4>2. ~serving' /\ at[Watcher] = "idle"
        BY <4>1, <3>2 DEF Inv, Quiet
      <4> QED
        BY <4>1, <4>2, <2>1, <3>3, <3>4, TasksDiffer
    <3>7. (phase' = "cleanup" /\ retry') => ~serving'
      BY <1>1, <3>2 DEF Closed
    <3>8. phase' = "cleanup" \/ serving' => program' = "rtsp"
      BY <2>1, <3>2 DEF Inv, Quiet, Closed
    <3> QED
      BY <3>3, <3>4, <3>5, <3>6, <3>7, <3>8 DEF Quiet
  <2> QED
    BY <1>3, <2>2, <2>3, <2>4 DEF Inv
<1>11. CASE CloseRaises
  <2>1. stopped' = stopped /\ program' = program
    BY <1>11, NoStop, TasksDiffer DEF CloseRaises, SendRaises, Suspend, Inv, TypeOK,
       StreamsTypeOK, CoreTypeOK, MotionTypeOK, Types
  <2>2. TypeOK'
    BY <1>11, <1>5, MotionTyped, TasksDiffer
       DEF CloseRaises, OperationRaises, Inv, TypeOK, StreamsTypeOK, CoreTypeOK
  <2>3. Ids'
    BY <1>11, <1>6, <2>1 DEF CloseRaises, SendRaises
  <2>4. Quiet'
    BY <1>11, <1>1, <2>1, TasksDiffer DEF CloseRaises, SendRaises, Suspend, Inv, Quiet,
       TypeOK, StreamsTypeOK, CoreTypeOK, MotionTypeOK, Types
  <2> QED
    BY <1>3, <2>2, <2>3, <2>4 DEF Inv
<1> QED
  BY <1>7, <1>8, <1>9, <1>10, <1>11
     DEF CloseStreams, Closing, EndSession, CloseCamera, MotionToStop

\* The end of runner.cleanup().
LEMMA CleanupInv ==
  ASSUME Inv, History, program = "rtsp", CleanupEnds, watching' = watching
  PROVE  Inv'
<1> USE TasksDiffer DEF CleanupEnds
<1>1. stopped' = stopped /\ program' = program
  BY NoStop DEF Inv, TypeOK, StreamsTypeOK, CoreTypeOK, MotionTypeOK, Types
<1>2. /\ handle' \in [Streams -> {"none", "running", "killed", "ended"}]
      /\ loose' \in [Streams -> BOOLEAN]
      /\ \A k \in Streams : handle'[k] = "running" => handle[k] = "running" /\ retry
  BY KillStops DEF Inv, TypeOK, StreamsTypeOK, CoreTypeOK, MotionTypeOK, Types
<1>3. TypeOK'
  <2>1. MotionTypeOK'
    BY DEF Inv, TypeOK, StreamsTypeOK, CoreTypeOK, MotionTypeOK, Types
  <2> QED
    BY <1>2, <2>1, AllTyped
       DEF Closed, Inv, TypeOK, StreamsTypeOK, CoreTypeOK, MotionTypeOK, Types
<1>4. Ids'
  BY <1>1 DEF Inv, Ids
<1>5. Quiet'
  BY <1>1 DEF Inv, Quiet, Closed, TypeOK, StreamsTypeOK, CoreTypeOK, MotionTypeOK, Types
<1>6. Pipelines'
  BY <1>2 DEF Inv, Pipelines, Closed
<1> QED
  BY <1>3, <1>4, <1>5, <1>6 DEF Inv

\* The HTTP server and its requests.
LEMMA RtspInv == ASSUME Inv, History, Rtsp PROVE Inv'
<1> USE TasksDiffer DEF Rtsp
<1>1. ASSUME NEW c \in Callers, StartMotion(c) \/ StopMotion(c) \/ CallResumes(c) PROVE Inv'
  <2>1. phase # "connecting"
    BY <1>1 DEF StartMotion, StopMotion, CallResumes, StartSent, SnapshotCaptured,
       StopSent, OperationRaises, SendRaises, CaptureRaises, Inv, Quiet
  <2>2. NoType \in Types /\ c \in Tasks \ {Core} /\ watching' \in BOOLEAN
    BY DEF Types, Inv, TypeOK
  <2> QED
    BY <1>1, <2>1, <2>2, CallInv DEF StartMotion, StopMotion, CallResumes, core
<1>2. CASE ServerStarts \/ ServerFails
  BY <1>2, ServerInv
<1> QED
  BY <1>1, <1>2

\* The Dahua adapter's loop, and a source that it cannot tell.
LEMMA DahuaInv == ASSUME Inv, History, Dahua PROVE Inv'
<1> USE TasksDiffer DEF Dahua
<1>1. CASE (\E type \in Types : CameraStarts(type)) \/ CameraStops \/ WatcherResumes \/ EventRaises
  <2>1. phase # "connecting" /\ phase # "exited" /\ AdapterLives /\ Watcher \in Tasks \ {Core}
    BY <1>1 DEF CameraStarts, CameraStops, WatcherResumes, EventRaises, AtEvent, AdapterLives
  <2>2. watching' \in BOOLEAN /\ UNCHANGED <<receiver, clean>>
    BY <1>1
       DEF CameraStarts, CameraStops, WatcherResumes, EventRaises, WatcherRaises, core, Inv, TypeOK
  <2>3. \/ UNCHANGED <<phase, retry>>
        \/ phase = "running" /\ phase' = "ending" /\ retry' = FALSE
    BY <1>1 DEF CameraStarts, CameraStops, WatcherResumes, EventRaises, WatcherRaises, Raises, core
  <2>4. \/ \E type \in Types : at[Watcher] = "idle" /\ BeginStart(Watcher, type)
        \/ at[Watcher] = "idle" /\ BeginStop(Watcher)
        \/ StartSent(Watcher) \/ SnapshotCaptured(Watcher) \/ StopSent(Watcher)
        \/ OperationRaises(Watcher) \/ UNCHANGED motion
    BY <1>1 DEF CameraStarts, CameraStops, WatcherResumes, EventRaises, AtEvent, NoEvent
  <2>5. UNCHANGED <<streams, serving>>
    BY <1>1 DEF CameraStarts, CameraStops, WatcherResumes, EventRaises
  <2> QED
    BY <2>1, <2>2, <2>3, <2>4, <2>5, CallInv
<1>2. CASE SourceRaises
  BY <1>2, ReceiverInv DEF SourceRaises, RequestRaises, ReceiverRaises, Raises, Keep, Inv,
     Pipelines, TypeOK, StreamsTypeOK, CoreTypeOK, MotionTypeOK, Types
<1> QED
  BY <1>1, <1>2

\* No step breaks the invariant.
LEMMA StepInv == Inv /\ [Next]_vars => Inv'
<1> SUFFICES ASSUME Inv, [Next]_vars PROVE Inv'
  OBVIOUS
<1>1. CASE UNCHANGED vars
  BY <1>1 DEF vars, motion, core, streams, Inv, TypeOK, StreamsTypeOK, CoreTypeOK,
     MotionTypeOK, Types, Ids, Quiet, Pipelines
<1>2. CASE (Session \/ Outside) /\ History
  <2> USE DEF Session, Outside
  <2>1. CASE StreamReceiver /\ UNCHANGED <<serving, watching>>
    BY <1>2, <2>1, StreamReceiverInv
  <2>2. CASE /\ ProbeEnds \/ \E k \in Streams : ShellEnds(k) \/ LooseEnd(k)
             /\ UNCHANGED <<serving, watching>>
    BY <1>2, <2>2, PipelineEndsInv
  <2> QED
    BY <1>2, <2>1, <2>2, ConnectionInv
<1>3. CASE (Rtsp \/ Dahua) /\ History
  BY <1>3, RtspInv, DahuaInv
<1>4. CASE Closes /\ History
  <2>1. CASE program = "rtsp" /\ RtspClose /\ UNCHANGED watching
    BY <1>4, <2>1, CloseStreamsInv DEF RtspClose
  <2>2. CASE program = "dahua" /\ DahuaClose /\ UNCHANGED serving
    <3>1. Closed \in {"cleanup", "connecting", "exited"} /\ watching' \in BOOLEAN
      BY <2>2 DEF Closed, DahuaClose
    <3> QED
      BY <1>4, <2>2, <3>1, CloseStreamsInv DEF DahuaClose
  <2> QED
    BY <1>4, <2>1, <2>2, CleanupInv DEF Closes
<1>5. CASE Filter
  BY <1>5 DEF Filter, motion, core, streams, Inv, TypeOK, StreamsTypeOK, CoreTypeOK,
     MotionTypeOK, Types, Ids, Quiet, Pipelines
<1> QED
  BY <1>1, <1>2, <1>3, <1>4, <1>5 DEF Next, Loop

\* Every reachable state of the proxy satisfies the invariant.
THEOREM Invariance == Spec => []Inv
<1> QED
  BY InitInv, StepInv, PTL DEF Spec

\* The types of the session, the motion events, the streams and the adapters.
THEOREM TypeCorrect == Spec => []TypeOK
<1>1. Inv => TypeOK
  BY DEF Inv
<1> QED
  BY <1>1, Invariance, PTL

\* Between sessions no call is suspended, and neither then nor after the last does a
\* pipeline run with a shell that was not killed.
THEOREM SessionsEndCompletely == Spec => []NothingOutlivesItsSession
<1>1. Inv => NothingOutlivesItsSession
  BY DEF Inv, Quiet, Pipelines, NothingOutlivesItsSession
<1> QED
  BY <1>1, Invariance, PTL

\* No motion event is started under an id that was sent a stop: however many HTTP
\* requests overlap.
THEOREM IdsStayFresh == Spec => IdsAreFresh
<1> DEFINE Step == (sent' # sent /\ sent'.edge = "start") => sent'.id \notin stopped
<1>1. ASSUME Inv, [Next]_vars PROVE [Step]_vars
  <2> SUFFICES ASSUME Next, sent' # sent, sent'.edge = "start" PROVE sent'.id \notin stopped
    BY <1>1
  <2>1. ~started /\ sent'.id = eventId
    <3>1. \/ \E t \in Tasks, type \in Types : BeginStart(t, type)
          \/ \E t \in Tasks : BeginStop(t)
          \/ SendEvent("stop", objectType)
      <4>1. CASE Session \/ Outside
        BY <4>1 DEF Session, Outside, Connect, ConnectRaises, ConnectionLost, StreamReceiver,
           Hello, ReceiveRequest, ForceReconnect, ReceiveClosed, ReceiverRaises,
           ReceiveSettings, RequestRaises, Answer, StopAsked, StartAsked, Spawned,
           StreamReply, Reply, ShellEnds, LooseEnd, ProbeEnds, motion
      <4>2. CASE Rtsp
        BY <4>2, TasksDiffer DEF Rtsp, ServerStarts, ServerFails, StartMotion, StopMotion,
           CallResumes, StartSent, SnapshotCaptured, StopSent, OperationRaises, SendRaises,
           CaptureRaises, Types, motion
      <4>3. CASE Dahua
        BY <4>3, TasksDiffer DEF Dahua, CameraStarts, CameraStops, WatcherResumes,
           EventRaises, SourceRaises, StartSent, SnapshotCaptured, StopSent, OperationRaises,
           SendRaises, CaptureRaises, RequestRaises, ReceiverRaises, NoEvent, motion
      <4>4. CASE Closes
        BY <4>4 DEF Closes, RtspClose, CleanupEnds, DahuaClose, CloseStreams, Closing,
           EndSession, CloseCamera, CloseEnds, CloseRaises, StopSent, SendRaises, motion
      <4>5. CASE Filter
        BY <4>5 DEF Filter, motion
      <4> QED
        BY <4>1, <4>2, <4>3, <4>4, <4>5 DEF Next, Loop
    <3> QED
      BY <3>1 DEF BeginStart, BeginStop, SendEvent
  <2> QED
    BY <1>1, <2>1 DEF Inv, Ids
<1> QED
  BY <1>1, Invariance, PTL DEF Spec, IdsAreFresh

\* A process loses its shell only when its stream is stopped.
THEOREM PipelinesAreRemembered == Spec => NoPipelineIsForgotten
<1> DEFINE Step == \A k \in Streams : (loose'[k] /\ ~loose[k]) =>
                      (handle[k] = "running" /\ handle'[k] = "killed")
<1>1. ASSUME Inv, [Next]_vars PROVE [Step]_vars
  <2> SUFFICES ASSUME Next PROVE Step
    BY <1>1
  <2>1. handle \in [Streams -> {"none", "running", "killed", "ended"}] /\ loose \in [Streams -> BOOLEAN]
    BY <1>1 DEF Inv, TypeOK, StreamsTypeOK
  <2>2. ASSUME NEW ks \in SUBSET Streams, Kill(ks) PROVE Step
    BY <2>1, <2>2 DEF Kill
  <2>3. CASE loose' = loose
    BY <2>3
  <2>4. ASSUME NEW k \in Streams, Spawned(k) PROVE Step
    BY <1>1, <2>1, <2>4 DEF Spawned, Inv, Pipelines
  <2>5. ASSUME NEW k \in Streams, LooseEnd(k) PROVE Step
    BY <2>1, <2>5 DEF LooseEnd
  <2>6. \/ loose' = loose \/ (\E ks \in SUBSET Streams : Kill(ks))
        \/ \E k \in Streams : Spawned(k) \/ LooseEnd(k)
    <3>1. CASE Session \/ Outside
      <4>1. ASSUME NEW k \in Streams, StopAsked(k) PROVE \E ks \in SUBSET Streams : Kill(ks)
        <5>1. {k} \in SUBSET Streams /\ Kill({k})
          BY <4>1 DEF StopAsked
        <5> QED
          BY <5>1
      <4> QED
        BY <3>1, <4>1 DEF Session, Outside, Connect, StreamReceiver, ReceiveSettings,
           RequestRaises, Answer, StartAsked, StreamReply, ShellEnds, ProbeEnds, streams
    <3>2. CASE Rtsp
      BY <3>2
         DEF Rtsp, ServerStarts, ServerFails, StartMotion, StopMotion, CallResumes, streams
    <3>3. CASE Dahua
      BY <3>3 DEF Dahua, CameraStarts, CameraStops, WatcherResumes, EventRaises, SourceRaises,
         RequestRaises, streams
    <3>4. CASE Closes
      BY <3>4 DEF Closes, RtspClose, CleanupEnds, DahuaClose, CloseStreams
    <3>5. CASE Filter
      BY <3>5 DEF Filter, streams
    <3> QED
      BY <3>1, <3>2, <3>3, <3>4, <3>5 DEF Next, Loop
  <2> HIDE DEF Step
  <2> QED
    BY <2>2, <2>3, <2>4, <2>5, <2>6
<1> QED
  BY <1>1, Invariance, PTL DEF Spec, NoPipelineIsForgotten

-----------------------------------------------------------------------------

\* As long as no two events were being sent at once: at most one is, and the event that
\* is open, or whose start is being sent, was announced under its id and type.
Announced ==
    ~overlapped =>
        /\ \A t, u \in Tasks : Sending(t) /\ Sending(u) => t = u
        /\ \A t \in Tasks : at[t] = "start" => <<eventId, wanted[t]>> \in starts
        /\ started => <<eventId, objectType>> \in starts

\* A step that sends nothing leaves at most fewer tasks that are sending.
Silent ==
    /\ UNCHANGED <<eventId, started, objectType, wanted, sent, starts>>
    /\ \A t \in Tasks : at'[t] = at[t] \/ at'[t] \notin {"start", "stop"}

\* What Core does when it closes a camera whose motion event is open.
CoreStops ==
    /\ started /\ SendEvent("stop", objectType)
    /\ UNCHANGED <<eventId, started, objectType, wanted>>
    /\ at[Core] = "idle" /\ at'[Core] = "stop"
    /\ \A t \in Tasks \ {Core} : at'[t] = at[t] \/ at'[t] \notin {"start", "stop"}

\* A step begins or ends the sending of an event, or leaves it alone.
LEMMA StepsOfMotion ==
  ASSUME Inv, Next
  PROVE  \/ Silent \/ CoreStops
         \/ \E t \in Tasks : \/ \E type \in Types : BeginStart(t, type)
                             \/ BeginStop(t) \/ StartSent(t) \/ StopSent(t)
<1>1. /\ at \in [Tasks -> {"idle", "start", "capture", "stop", "snapshot"}]
      /\ phase = "ending" => at[Core] = "idle"
  BY DEF Inv, TypeOK, StreamsTypeOK, CoreTypeOK, MotionTypeOK, Quiet
<1>2. UNCHANGED motion => Silent
  BY DEF motion, Silent
<1>3. ASSUME NEW t \in Tasks, SnapshotCaptured(t) \/ OperationRaises(t) PROVE Silent
  BY <1>1, <1>3 DEF SnapshotCaptured, OperationRaises, SendRaises, CaptureRaises, Suspend, Silent
<1>4. ASSUME NEW next, EndSession(next) PROVE Silent \/ CoreStops
  <2>1. \A t \in Tasks : Cancelled[t] = at[t] \/ Cancelled[t] = "idle"
    BY DEF Cancelled
  <2>2. Cancelled \in [Tasks -> {"idle", "start", "capture", "stop", "snapshot"}]
    BY <1>1 DEF Cancelled
  <2>3. phase = "ending"
    BY <1>4 DEF EndSession
  <2>4. CASE /\ at' = Cancelled
             /\ UNCHANGED <<ws, eventId, started, objectType, snapshot, wanted, sent, starts>>
    BY <2>1, <2>4 DEF Silent
  <2>5. CASE /\ started /\ SendEvent("stop", objectType)
             /\ at' = [Cancelled EXCEPT ![Core] = "stop"]
             /\ UNCHANGED <<ws, eventId, started, objectType, snapshot, wanted>>
    BY <1>1, <2>1, <2>2, <2>3, <2>5, TasksDiffer DEF CoreStops
  <2> QED
    BY <1>2, <1>4, <2>4, <2>5 DEF EndSession, CloseCamera, MotionToStop
<1>5. CASE Session \/ Outside
  <2>1. CASE Connect \/ ConnectionLost
    BY <2>1 DEF Connect, ConnectionLost, Silent
  <2>2. CASE ~(Connect \/ ConnectionLost)
    <3>1. UNCHANGED motion
      BY <1>5, <2>2 DEF Session, Outside, ProbeEnds, ConnectRaises, StreamReceiver, Hello, ReceiveRequest,
         ForceReconnect, ReceiveClosed, ReceiverRaises, ReceiveSettings, RequestRaises, Answer,
         StopAsked, StartAsked, Spawned, StreamReply, Reply, ShellEnds, LooseEnd, motion
    <3> QED
      BY <1>2, <3>1
  <2> QED
    BY <2>1, <2>2
<1>6. CASE Rtsp
  <2>1. CASE ServerStarts \/ ServerFails
    BY <1>2, <2>1 DEF ServerStarts, ServerFails
  <2>2. ASSUME NEW c \in Callers, StartMotion(c) \/ StopMotion(c) \/ CallResumes(c)
        PROVE  \/ Silent
               \/ \E t \in Tasks : \/ \E type \in Types : BeginStart(t, type)
                                   \/ BeginStop(t) \/ StartSent(t) \/ StopSent(t)
    <3>1. c \in Tasks /\ NoType \in Types
      BY TasksDiffer DEF Types
    <3> QED
      BY <1>3, <2>2, <3>1 DEF StartMotion, StopMotion, CallResumes
  <2> QED
    BY <1>6, <2>1, <2>2 DEF Rtsp
<1>7. CASE Dahua
  <2>1. Watcher \in Tasks
    BY TasksDiffer
  <2>2. CASE SourceRaises
    BY <1>2, <2>2 DEF SourceRaises, RequestRaises, ReceiverRaises
  <2>3. CASE ~SourceRaises
    BY <1>2, <1>3, <1>7, <2>1, <2>3 DEF Dahua, CameraStarts, CameraStops, WatcherResumes,
       EventRaises, NoEvent
  <2> QED
    BY <2>2, <2>3
<1>8. CASE Closes
  <2>1. CASE CleanupEnds
    BY <1>1, <2>1 DEF CleanupEnds, Silent
  <2>2. ASSUME NEW next, Closing(next) PROVE Silent \/ CoreStops \/ StopSent(Core)
    BY <1>3, <1>4, <2>2, TasksDiffer DEF Closing, CloseEnds, CloseRaises, OperationRaises
  <2> QED
    BY <1>8, <2>1, <2>2, TasksDiffer DEF Closes, RtspClose, DahuaClose, CloseStreams
<1>9. CASE Filter
  BY <1>2, <1>9 DEF Filter
<1> QED
  BY <1>5, <1>6, <1>7, <1>8, <1>9 DEF Next, Loop

\* What History makes of a task that begins to send.
LEMMA Overlaps ==
  ASSUME Inv, Next, ~overlapped',
         NEW t \in Tasks, at'[t] \in {"start", "stop"}, at[t] \notin {"start", "stop"}
  PROVE  ~overlapped /\ \A u \in Tasks : at[u] \notin {"start", "stop"}
<1>1. CASE Filter
  BY <1>1 DEF Filter, motion
<1>2. CASE History
  BY <1>2 DEF History, Sending
<1> QED
  BY <1>1, <1>2 DEF Next

LEMMA AnnouncedStays == Inv /\ Announced /\ [Next]_vars => Announced'
<1> SUFFICES ASSUME Inv, Announced, [Next]_vars, ~overlapped' PROVE Announced'
  BY DEF Announced
<1>1. CASE UNCHANGED vars
  BY <1>1 DEF vars, motion, Announced, Sending
<1>2. CASE Next
  <2>1. ~overlapped
    BY <1>2 DEF Next, History, Filter
  <2>2. /\ \A t, u \in Tasks : Sending(t) /\ Sending(u) => t = u
        /\ \A t \in Tasks : at[t] = "start" => <<eventId, wanted[t]>> \in starts
        /\ started => <<eventId, objectType>> \in starts
        /\ at \in [Tasks -> {"idle", "start", "capture", "stop", "snapshot"}]
        /\ wanted \in [Tasks -> Types]
    BY <2>1 DEF Announced, Inv, TypeOK, StreamsTypeOK, CoreTypeOK, MotionTypeOK
  <2>3. CASE Silent
    BY <2>2, <2>3 DEF Silent, Announced, Sending
  <2>4. CASE CoreStops
    <3>1. \A u \in Tasks : at[u] \notin {"start", "stop"}
      BY <1>2, <2>4, Overlaps, TasksDiffer DEF CoreStops
    <3> QED
      BY <2>2, <2>4, <3>1 DEF CoreStops, SendEvent, Announced, Sending
  <2>5. ASSUME NEW t \in Tasks, NEW type \in Types, BeginStart(t, type) PROVE Announced'
    <3>1. /\ at' = [at EXCEPT ![t] = "start"] /\ wanted' = [wanted EXCEPT ![t] = type]
          /\ starts' = starts \cup {<<eventId, type>>} /\ ~started
          /\ UNCHANGED <<eventId, started, objectType>>
      BY <2>5 DEF BeginStart, SendEvent, Suspend
    <3>2. \A u \in Tasks \ {t} : at[u] \notin {"start", "stop"}
      BY <1>2, <2>2, <3>1, Overlaps DEF Sending
    <3> QED
      BY <2>2, <3>1, <3>2 DEF Announced, Sending
  <2>6. ASSUME NEW t \in Tasks, BeginStop(t) PROVE Announced'
    <3>1. /\ at' = [at EXCEPT ![t] = "stop"] /\ starts' = starts
          /\ UNCHANGED <<eventId, started, objectType, wanted>>
      BY <2>6 DEF BeginStop, SendEvent, Suspend
    <3>2. \A u \in Tasks \ {t} : at[u] \notin {"start", "stop"}
      BY <1>2, <2>2, <3>1, Overlaps DEF Sending
    <3> QED
      BY <2>2, <3>1, <3>2 DEF Announced, Sending
  <2>7. ASSUME NEW t \in Tasks, StartSent(t) PROVE Announced'
    BY <2>2, <2>7 DEF StartSent, Suspend, Announced, Sending
  <2>8. ASSUME NEW t \in Tasks, StopSent(t) PROVE Announced'
    <3>1. \A u \in Tasks \ {t} : at[u] \notin {"start", "stop"}
      BY <2>2, <2>8 DEF StopSent, Sending
    <3> QED
      BY <2>2, <2>8, <3>1 DEF StopSent, Suspend, Announced, Sending
  <2> QED
    BY <1>2, <2>3, <2>4, <2>5, <2>6, <2>7, <2>8, StepsOfMotion
<1> QED
  BY <1>1, <1>2

\* As long as no two events were being sent at once, a stop is sent only for an event
\* that was started under its id and object type.
THEOREM StopsFollowStarts == Spec => StopsHaveStarts
<1> DEFINE Step == (sent' # sent /\ sent'.edge = "stop" /\ ~overlapped')
                      => <<sent'.id, sent'.type>> \in starts
<1>1. Init => Announced
  BY DEF Init, MotionInit, Announced, Sending
<1>2. ASSUME Inv, Announced, [Next]_vars PROVE [Step]_vars
  <2> SUFFICES ASSUME Next, sent' # sent, sent'.edge = "stop", ~overlapped'
               PROVE  <<sent'.id, sent'.type>> \in starts
    BY <1>2
  <2>1. ~overlapped
    BY DEF Next, History, Filter
  <2>2. started /\ sent' = [edge |-> "stop", id |-> eventId, type |-> objectType]
    <3>1. ASSUME NEW t \in Tasks, NEW type \in Types, BeginStart(t, type) PROVE FALSE
      <4>1. sent' = [edge |-> "start", id |-> eventId, type |-> type]
        BY <3>1 DEF BeginStart, SendEvent
      <4> QED
        BY <4>1
    <3>2. CASE CoreStops
      BY <3>2 DEF CoreStops, SendEvent
    <3>3. ASSUME NEW t \in Tasks, BeginStop(t)
          PROVE  started /\ sent' = [edge |-> "stop", id |-> eventId, type |-> objectType]
      BY <3>3 DEF BeginStop, SendEvent
    <3> QED
      BY <1>2, <3>1, <3>2, <3>3, StepsOfMotion DEF Silent, StartSent, StopSent
  <2> QED
    BY <1>2, <2>1, <2>2 DEF Announced
<1> QED
  BY <1>1, <1>2, AnnouncedStays, Invariance, PTL DEF Spec, StopsHaveStarts

-----------------------------------------------------------------------------
(* The log of the controller.                                               *)

\* As long as no two events were being sent at once, what was told last is the start of
\* the event that is open or is being started, or its stop, or the start of an event
\* whose send failed and whose id the next one takes.
Logged ==
    ~overlapped =>
        /\ started => sent.edge # "none" /\ sent.id = eventId /\ sent.type = objectType
        /\ (~started /\ sent.edge = "start") => sent.id = eventId
        /\ \A t \in Tasks : at[t] = "start" =>
               ~started /\ sent = [edge |-> "start", id |-> eventId, type |-> wanted[t]]
        /\ \A t \in Tasks : at[t] = "stop" => sent.edge = "stop"

\* Two calls that have crossed stay crossed.
LEMMA CarelessStays ==
  Inv /\ [Next]_vars => overlapped' \in BOOLEAN /\ (overlapped => overlapped')
BY DEF Inv, TypeOK, Next, History, Filter, vars

\* What was told last is known after every step.
LEMMA LoggedStays == Inv /\ Announced /\ Logged /\ [Next]_vars => Logged'
<1> SUFFICES ASSUME Inv, Announced, Logged, [Next]_vars, ~overlapped' PROVE Logged'
  BY DEF Logged
<1>1. CASE UNCHANGED vars
  BY <1>1 DEF vars, motion, Logged
<1>2. CASE Next
  <2>1. ~overlapped
    BY CarelessStays
  <2>2. /\ \A t, u \in Tasks : Sending(t) /\ Sending(u) => t = u
        /\ started => sent.edge # "none" /\ sent.id = eventId /\ sent.type = objectType
        /\ (~started /\ sent.edge = "start") => sent.id = eventId
        /\ \A t \in Tasks : at[t] = "start" =>
               ~started /\ sent = [edge |-> "start", id |-> eventId, type |-> wanted[t]]
        /\ \A t \in Tasks : at[t] = "stop" => sent.edge = "stop"
        /\ at \in [Tasks -> {"idle", "start", "capture", "stop", "snapshot"}]
        /\ wanted \in [Tasks -> Types] /\ eventId \in Nat
    BY <2>1 DEF Announced, Logged, Inv, TypeOK, StreamsTypeOK, CoreTypeOK, MotionTypeOK
  <2>3. CASE Silent
    BY <2>2, <2>3 DEF Silent, Logged
  <2>4. CASE CoreStops
    <3>1. \A u \in Tasks : at[u] \notin {"start", "stop"}
      BY <1>2, <2>4, Overlaps, TasksDiffer DEF CoreStops
    <3>2. \A u \in Tasks : at'[u] # "start"
      BY <2>4, <3>1, TasksDiffer DEF CoreStops
    <3>3. /\ sent' = [edge |-> "stop", id |-> eventId, type |-> objectType] /\ started
          /\ UNCHANGED <<eventId, started, objectType>>
      BY <2>4 DEF CoreStops, SendEvent
    <3> QED
      BY <3>2, <3>3 DEF Logged
  <2>5. ASSUME NEW t \in Tasks, NEW type \in Types, BeginStart(t, type) PROVE Logged'
    <3>1. /\ at' = [at EXCEPT ![t] = "start"] /\ wanted' = [wanted EXCEPT ![t] = type]
          /\ sent' = [edge |-> "start", id |-> eventId, type |-> type] /\ ~started
          /\ UNCHANGED <<eventId, started, objectType>>
      BY <2>5 DEF BeginStart, SendEvent, Suspend
    <3>2. \A u \in Tasks \ {t} : at[u] \notin {"start", "stop"}
      BY <1>2, <2>2, <3>1, Overlaps DEF Sending
    <3>3. \A u \in Tasks : at'[u] # "stop" /\ (at'[u] = "start" => u = t)
      BY <2>2, <3>1, <3>2
    <3>4. wanted'[t] = type
      BY <2>2, <3>1
    <3> QED
      BY <3>1, <3>3, <3>4 DEF Logged
  <2>6. ASSUME NEW t \in Tasks, BeginStop(t) PROVE Logged'
    <3>1. /\ at' = [at EXCEPT ![t] = "stop"] /\ started
          /\ sent' = [edge |-> "stop", id |-> eventId, type |-> objectType]
          /\ UNCHANGED <<eventId, started, objectType, wanted>>
      BY <2>6 DEF BeginStop, SendEvent, Suspend
    <3>2. \A u \in Tasks \ {t} : at[u] \notin {"start", "stop"}
      BY <1>2, <2>2, <3>1, Overlaps DEF Sending
    <3>3. \A u \in Tasks : at'[u] # "start"
      BY <2>2, <3>1, <3>2
    <3> QED
      BY <3>1, <3>3 DEF Logged
  <2>7. ASSUME NEW t \in Tasks, StartSent(t) PROVE Logged'
    <3>1. /\ at[t] = "start" /\ started' /\ objectType' = wanted[t]
          /\ at' = [at EXCEPT ![t] = "capture"] /\ UNCHANGED <<eventId, wanted, sent>>
      BY <2>7 DEF StartSent, Suspend
    <3>2. \A u \in Tasks : at'[u] \notin {"start", "stop"}
      BY <2>2, <3>1 DEF Sending
    <3>3. sent = [edge |-> "start", id |-> eventId, type |-> wanted[t]]
      BY <2>2, <3>1
    <3> QED
      BY <3>1, <3>2, <3>3 DEF Logged
  <2>8. ASSUME NEW t \in Tasks, StopSent(t) PROVE Logged'
    <3>1. /\ at[t] = "stop" /\ ~started' /\ at' = [at EXCEPT ![t] = "idle"] /\ sent' = sent
      BY <2>8 DEF StopSent, Suspend
    <3>2. \A u \in Tasks : at'[u] \notin {"start", "stop"}
      BY <2>2, <3>1 DEF Sending
    <3>3. sent.edge = "stop"
      BY <2>2, <3>1
    <3> QED
      BY <3>1, <3>2, <3>3 DEF Logged
  <2> QED
    BY <1>2, <2>3, <2>4, <2>5, <2>6, <2>7, <2>8, StepsOfMotion
<1> QED
  BY <1>1, <1>2

\* What a step does to the log: the beginning of an event, its end, or the end of the
\* call that tells of the beginning, which uses up the id.
LEMMA LogSteps ==
  ASSUME Inv, Logged, Next
  PROVE  \/ \E type \in Types : Log!Start(type) \/ Log!Stop(type)
         \/ Log!Begun
         \/ UNCHANGED <<sent, NextId>>
<1>1. eventId \in Nat /\ started \in BOOLEAN /\ objectType \in Types
  BY DEF Inv, TypeOK, StreamsTypeOK, CoreTypeOK, MotionTypeOK
<1>2. ~overlapped' => ~overlapped
  BY CarelessStays
<1>3. CASE Silent
  BY <1>3 DEF Silent, NextId
<1>4. ASSUME NEW t \in Tasks, NEW type \in Types, BeginStart(t, type) PROVE Log!Start(type)
  <2>1. /\ ~started /\ sent' = [edge |-> "start", id |-> eventId, type |-> type]
        /\ UNCHANGED <<eventId, started>>
    BY <1>4 DEF BeginStart, SendEvent
  <2>2. NextId = eventId /\ NextId' = NextId
    BY <2>1 DEF NextId
  <2>3. overlapped' \/ sent.edge # "start" \/ sent.id = eventId
    BY <1>2, <2>1 DEF Logged
  <2> QED
    BY <2>1, <2>2, <2>3 DEF Log!Start
<1>5. ASSUME started, SendEvent("stop", objectType), UNCHANGED <<eventId, started>>
      PROVE  Log!Stop(objectType)
  <2>1. sent' = [edge |-> "stop", id |-> eventId, type |-> objectType]
    BY <1>5 DEF SendEvent
  <2>2. NextId = eventId + 1 /\ NextId' = NextId
    BY <1>5 DEF NextId
  <2>3. NextId > 0 /\ NextId - 1 = eventId
    BY <1>1, <2>2
  <2>4. overlapped' \/ (sent.edge # "none" /\ sent.id = eventId /\ sent.type = objectType)
    BY <1>2, <1>5 DEF Logged
  <2> QED
    BY <2>1, <2>2, <2>3, <2>4 DEF Log!Stop
<1>6. ASSUME NEW t \in Tasks, StartSent(t) PROVE Log!Begun \/ UNCHANGED <<sent, NextId>>
  <2>1. started' = TRUE /\ UNCHANGED <<eventId, sent>>
    BY <1>6 DEF StartSent
  <2>2. NextId' = eventId + 1
    BY <2>1 DEF NextId
  <2> QED
    BY <2>1, <2>2 DEF NextId, Log!Begun
<1>7. ASSUME NEW t \in Tasks, StopSent(t) PROVE Log!Begun \/ UNCHANGED <<sent, NextId>>
  <2>1. started' = FALSE /\ eventId' = eventId + 1 /\ sent' = sent
    BY <1>7 DEF StopSent
  <2>2. NextId' = eventId + 1
    BY <2>1 DEF NextId
  <2> QED
    BY <2>1, <2>2 DEF NextId, Log!Begun
<1>8. CASE CoreStops
  BY <1>1, <1>5, <1>8 DEF CoreStops
<1>9. ASSUME NEW t \in Tasks, BeginStop(t) PROVE Log!Stop(objectType)
  BY <1>5, <1>9 DEF BeginStop
<1> QED
  BY <1>1, <1>3, <1>4, <1>6, <1>7, <1>8, <1>9, StepsOfMotion

\* However requests overlap, sessions end and calls are cancelled, the events that the
\* controller is told of are those of EventLog, of which a behaviour in which two events
\* were sent at once is the careless one.
THEOREM ProxyKeepsTheLog == Spec => KeepsTheLog
<1>1. Init => Announced /\ Logged /\ Log!Init
  BY DEF Init, MotionInit, Nothing, Announced, Sending, Logged, Log!Init, NextId
<1>2. ASSUME Inv, Logged, [Next]_vars PROVE [Log!Next]_(Log!vars)
  <2>1. CASE Next
    <3>1. overlapped' \in BOOLEAN /\ (overlapped => overlapped')
      BY <1>2, CarelessStays
    <3> QED
      BY <1>2, <2>1, <3>1, LogSteps DEF Log!Next
  <2>2. CASE UNCHANGED vars
    BY <2>2 DEF vars, motion, NextId, Log!vars
  <2> QED
    BY <1>2, <2>1, <2>2
<1> QED
  BY <1>1, <1>2, AnnouncedStays, LoggedStays, Invariance, PTL DEF Spec, KeepsTheLog, Log!Spec

-----------------------------------------------------------------------------
(* The filter.                                                              *)

\* Its invariant is that of ClockSync_proofs: the rest of the proxy never touches it.
LEMMA FilterInitInv == Init => FilterInv
<1> SUFFICES ASSUME Init PROVE FilterInv
  OBVIOUS
<1>1. StartTime \in Int
  BY ProxyAssumption, ClockSyncAssumption
<1>2. CASE program = "clock_sync"
  BY <1>1, <1>2, FilterStartsInv DEF Init
<1>3. CASE program # "clock_sync"
  BY <1>1, <1>3, NoFilterInv DEF Init, NoFilter
<1> QED
  BY <1>2, <1>3

LEMMA FilterNextInv == FilterInv /\ [Next]_vars => FilterInv'
<1> SUFFICES ASSUME FilterInv, [Next]_vars PROVE FilterInv'
  OBVIOUS
<1>1. FilterStep \/ UNCHANGED clockSync
  BY DEF Next, Filter, History, vars
<1> QED
  BY <1>1, FilterStepInv

THEOREM FilterInvariance == Spec => []FilterInv
<1> QED
  BY FilterInitInv, FilterNextInv, PTL DEF Spec

\* For every stream, with any payloads and cut at any byte, and every clock, nc gets the
\* bytes that were read, once each and in order.
THEOREM StreamIsCopied == Spec => []CopiesWhatItReads
<1> QED
  BY FilterInvIsEnough, FilterInvariance, PTL

\* For every stream the trailers stand where a tag and its size are complete, or at the
\* end of the input, and tell whether the tag is video.
THEOREM TrailersAreInPlace == Spec => []TrailersFollowTags
<1> QED
  BY FilterInvIsEnough, FilterInvariance, PTL

\* The filter stops before the end of its input only when the time since its start does
\* not fit a trailer, and that trailer is the last thing it writes.
THEOREM OnlyTheClockStopsIt == Spec => []DiesOnlyOfItsClock
<1> QED
  BY FilterInvIsEnough, FilterInvariance, PTL

-----------------------------------------------------------------------------
(* What SessionsEnd and RequestsAreAnswered need besides fairness.          *)

\* How many steps a session that has ended is from the next, or from the end of the
\* process, at most.
StepsToClose ==
    [running |-> 0, ending |-> 3, closing |-> 2, cleanup |-> 1, connecting |-> 0,
     exited |-> 0][phase]

\* Core has its part of gather back, a stop to wait for or a server to clean up.
CoreCanGoOn ==
    \/ phase = "ending"
    \/ phase = "closing" /\ at[Core] = "stop"
    \/ phase = "cleanup" /\ program = "rtsp"

\* A session that has ended is closed after at most three steps of Core, which waits
\* for nothing that no task will give it: each of its steps leaves it fewer, and no
\* request, event of the camera or pipeline gives it more to do.  This is SessionsEnd
\* but for the fairness of the event loop, which an ffprobe may hold up for ever
\* (core.py, base.py:1029-1036, rtsp.py:113-116).
SessionsAdvance ==
    /\ [](StepsToClose # 0 => CoreCanGoOn)
    /\ [][StepsToClose # 0 => /\ StepsToClose' <= StepsToClose
                              /\ Closes => StepsToClose' < StepsToClose]_vars

LEMMA SessionAdvances ==
  ASSUME Inv, Next, StepsToClose # 0
  PROVE  /\ StepsToClose' <= StepsToClose
         /\ Closes => StepsToClose' < StepsToClose
<1>1. phase \in {"ending", "closing", "cleanup"}
  BY DEF Inv, TypeOK, StreamsTypeOK, CoreTypeOK, StepsToClose
<1>2. CASE Closes
  <2>1. CASE RtspClose \/ DahuaClose
    <3>1. \/ phase = "ending" /\ phase' \in {"closing", "cleanup", "connecting", "exited"}
          \/ phase = "closing" /\ phase' \in {"cleanup", "connecting", "exited"}
      BY <2>1 DEF RtspClose, DahuaClose, CloseStreams, Closing, EndSession, CloseCamera,
         CloseEnds, CloseRaises, Closed
    <3> QED
      BY <3>1 DEF StepsToClose
  <2>2. CASE CleanupEnds
    BY <2>2 DEF CleanupEnds, Closed, StepsToClose
  <2> QED
    BY <1>2, <2>1, <2>2 DEF Closes
<1>3. CASE ~Closes
  <2>1. phase' = phase
    BY <1>1, <1>3
       DEF Next, Loop, Outside, ProbeEnds, Session, Connect, ConnectRaises, ConnectionLost,
           StreamReceiver, Hello,
           ReceiveRequest, ForceReconnect, ReceiveClosed, ReceiveSettings, RequestRaises,
           ReceiverRaises, Raises, Answer, StopAsked, StartAsked, Spawned, StreamReply, Reply,
           ShellEnds, LooseEnd, Rtsp, ServerStarts, ServerFails, StartMotion, StopMotion,
           CallResumes, Dahua, CameraStarts, CameraStops, WatcherResumes, WatcherRaises,
           EventRaises, SourceRaises, Filter, core
  <2> QED
    BY <1>1, <1>3, <2>1 DEF StepsToClose
<1> QED
  BY <1>2, <1>3

\* A session that has ended is closed if Core is scheduled.
THEOREM SessionsComeToAnEnd == Spec => SessionsAdvance
<1> DEFINE Step == StepsToClose # 0 => /\ StepsToClose' <= StepsToClose
                                       /\ Closes => StepsToClose' < StepsToClose
<1>1. Inv => (StepsToClose # 0 => CoreCanGoOn)
  BY DEF Inv, TypeOK, StreamsTypeOK, CoreTypeOK, Quiet, StepsToClose, CoreCanGoOn
<1>2. Inv /\ [Next]_vars => [Step]_vars
  BY SessionAdvances
<1> QED
  BY <1>1, <1>2, Invariance, PTL DEF Spec, SessionsAdvance

-----------------------------------------------------------------------------

\* The streams that a request still has to go through.
ToDo == { k \in Streams : todo[k] # "keep" }

\* How many steps a request is from its reply at most: two for a stream that is started,
\* the second when its source is known, and one for the reply.
StepsToReply ==
    IF receiver = "reply"
    THEN 1 + 2 * Cardinality(ToDo) + (IF spawning = NoStream THEN 0 ELSE 1)
    ELSE 0

\* The receiver of a session that was given up has no request.
Deaf ==
    (phase = "connecting" \/ (phase \in {"closing", "cleanup"} /\ retry))
        => receiver = "ended"

\* What the steps other than those of a request do to it.
LEMMA OthersLeaveRequests ==
  ASSUME Inv, Deaf, Next, ~Answer
  PROVE  \/ UNCHANGED <<receiver, todo, spawning>>
         \/ receiver' # "reply"
         \/ receiver = "recv"
<1>1. CASE Session \/ Outside
  <2>1. CASE Connect \/ ConnectRaises \/ ConnectionLost \/ ProbeEnds
             \/ \E k \in Streams : ShellEnds(k) \/ LooseEnd(k)
    BY <1>1, <2>1 DEF Session, Outside, ProbeEnds, Connect, ConnectRaises, ConnectionLost, ShellEnds, LooseEnd,
       Hello, ReceiveRequest, ForceReconnect, ReceiveClosed, ReceiverRaises, StreamReceiver,
       ReceiveSettings, RequestRaises, streams, core
  <2>2. CASE StreamReceiver
    BY <2>2 DEF StreamReceiver, Hello, ReceiveRequest, ForceReconnect, ReceiveClosed,
       ReceiverRaises, ReceiveSettings, RequestRaises, streams
  <2> QED
    BY <1>1, <2>1, <2>2 DEF Session, Outside
<1>2. CASE Rtsp
  BY <1>2 DEF Rtsp, ServerStarts, ServerFails, StartMotion, StopMotion, CallResumes, streams, core
<1>3. CASE Dahua
  BY <1>3 DEF Dahua, CameraStarts, CameraStops, WatcherResumes, WatcherRaises, EventRaises,
     SourceRaises, RequestRaises, ReceiverRaises, streams, core
<1>4. CASE Closes
  <2>1. CASE RtspClose \/ DahuaClose
    BY <2>1 DEF RtspClose, DahuaClose, CloseStreams, Closing, EndSession, CloseEnds,
       CloseRaises, Deaf
  <2>2. CASE CleanupEnds
    BY <2>2 DEF CleanupEnds
  <2> QED
    BY <1>4, <2>1, <2>2 DEF Closes
<1>5. CASE Filter
  BY <1>5 DEF Filter, streams, core
<1> QED
  BY <1>1, <1>2, <1>3, <1>4, <1>5 DEF Next, Loop

LEMMA DeafStays == Inv /\ Deaf /\ [Next]_vars => Deaf'
<1> SUFFICES ASSUME Inv, Deaf, Next PROVE Deaf'
  BY DEF Deaf, vars, core
<1> USE DEF Deaf, Inv, TypeOK, StreamsTypeOK, CoreTypeOK
<1>1. CASE Session \/ Outside
  BY <1>1 DEF Session, Outside, ProbeEnds, Connect, ConnectRaises, ConnectionLost, ShellEnds,
     LooseEnd, AdapterLives,
     StreamReceiver, Hello, ReceiveRequest, ForceReconnect, ReceiveClosed, ReceiverRaises,
     Raises, ReceiveSettings, RequestRaises, Answer, StopAsked, StartAsked, Spawned,
     StreamReply, Reply, core
<1>2. CASE Rtsp
  BY <1>2 DEF Rtsp, ServerStarts, ServerFails, Raises, StartMotion, StopMotion, CallResumes, core
<1>3. CASE Dahua
  BY <1>3 DEF Dahua, CameraStarts, CameraStops, WatcherResumes, WatcherRaises, EventRaises,
     SourceRaises, RequestRaises, ReceiverRaises, Raises, core
<1>4. CASE Closes
  <2>1. CASE RtspClose \/ DahuaClose
    <3>1. retry' = retry /\ phase \in {"ending", "closing"}
      BY <2>1 DEF RtspClose, DahuaClose, CloseStreams, Closing, EndSession, CloseEnds, CloseRaises
    <3>2. IF phase = "ending" /\ retry THEN receiver' = "ended" ELSE receiver' = receiver
      BY <2>1 DEF RtspClose, DahuaClose, CloseStreams, Closing, EndSession, CloseEnds, CloseRaises
    <3>3. phase' = "connecting" => retry
      BY <2>1 DEF RtspClose, DahuaClose, CloseStreams, Closing, EndSession, CloseCamera,
         CloseEnds, CloseRaises, Closed
    <3> QED
      BY <3>1, <3>2, <3>3
  <2>2. CASE CleanupEnds
    BY <2>2 DEF CleanupEnds, Closed
  <2> QED
    BY <1>4, <2>1, <2>2 DEF Closes
<1>5. CASE Filter
  BY <1>5 DEF Filter, core
<1> QED
  BY <1>1, <1>2, <1>3, <1>4, <1>5 DEF Next, Loop

\* Each step of a request leaves it fewer.
LEMMA AnswerAdvances ==
  ASSUME IsFiniteSet(Streams), Inv, Answer
  PROVE  StepsToReply' \in Nat /\ StepsToReply' < StepsToReply
<1> DEFINE n == Cardinality(ToDo)
<1> USE TasksDiffer DEF Inv, TypeOK, StreamsTypeOK
<1>1. IsFiniteSet(ToDo) /\ n \in Nat
  BY FS_Subset, FS_CardinalityType DEF ToDo
<1>2. receiver = "reply"
  BY DEF Answer, StopAsked, StartAsked, Spawned, StreamReply, Processing, Reply
<1>3. StepsToReply = 1 + 2 * n + (IF spawning = NoStream THEN 0 ELSE 1)
  BY <1>2 DEF StepsToReply
<1>4. ASSUME NEW k \in Streams, StopAsked(k) \/ StartAsked(k)
      PROVE  StepsToReply' \in Nat /\ StepsToReply' < StepsToReply
  <2>1. /\ k \in ToDo /\ ToDo' = ToDo \ {k} /\ spawning = NoStream /\ receiver' = "reply"
    BY <1>2, <1>4 DEF StopAsked, StartAsked, Processing, Done, ToDo, core
  <2>2. Cardinality(ToDo \ {k}) = n - 1 /\ n - 1 \in Nat
    <3>1. IsFiniteSet(ToDo \ {k}) /\ Cardinality(ToDo \ {k}) = n - 1
      BY ONLY <1>1, <2>1, FS_RemoveElement
    <3>2. Cardinality(ToDo \ {k}) \in Nat
      BY ONLY <3>1, FS_CardinalityType
    <3> QED
      BY ONLY <3>1, <3>2
  <2>3. Cardinality(ToDo') = n - 1
    BY <2>1, <2>2
  <2> HIDE DEF n
  <2>4. StepsToReply' = 1 + 2 * (n - 1) + (IF spawning' = NoStream THEN 0 ELSE 1)
    BY <2>1, <2>3 DEF StepsToReply
  <2> QED
    BY <1>1, <1>3, <2>1, <2>2, <2>4
<1>5. ASSUME NEW k \in Streams, Spawned(k)
      PROVE  StepsToReply' \in Nat /\ StepsToReply' < StepsToReply
  <2>1. ToDo' = ToDo /\ spawning # NoStream /\ spawning' = NoStream /\ receiver' = "reply"
    BY <1>5 DEF Spawned, ToDo, core
  <2>2. Cardinality(ToDo') = n
    BY <2>1
  <2> HIDE DEF n
  <2>3. StepsToReply' = 1 + 2 * n
    BY <1>1, <2>1, <2>2 DEF StepsToReply
  <2> QED
    BY <1>1, <1>3, <2>1, <2>3
<1>6. CASE StreamReply
  <2>1. StepsToReply' = 0
    BY <1>6 DEF StreamReply, Reply, StepsToReply
  <2> HIDE DEF n
  <2> QED
    BY <1>1, <1>3, <2>1
<1> QED
  BY <1>4, <1>5, <1>6 DEF Answer

\* A request of the controller is answered after finitely many steps of the receiver: each
\* of its steps leaves it fewer, no stream that ends, no other task and no end of the
\* session leaves it more, and the receiver lives until then, unless the session is about
\* to cancel it or the process has ended.  This is RequestsAreAnswered but for the
\* fairness of the event loop, which an ffprobe may hold up for ever (base.py:384-417,
\* 995-1027).
RequestsAdvance ==
    /\ [](receiver = "reply" => AdapterLives \/ (phase = "ending" /\ retry) \/ phase = "exited")
    /\ [][receiver = "reply" => /\ StepsToReply \in Nat /\ StepsToReply' <= StepsToReply
                                /\ Answer => StepsToReply' < StepsToReply]_vars

\* A request is answered if the receiver is scheduled, for any finite number of streams.
THEOREM RequestsComeToAReply ==
  ASSUME IsFiniteSet(Streams)
  PROVE  Spec => RequestsAdvance
<1> DEFINE Step == receiver = "reply" => /\ StepsToReply \in Nat /\ StepsToReply' <= StepsToReply
                                         /\ Answer => StepsToReply' < StepsToReply
<1>1. Init => Deaf
  BY DEF Init, CoreInit, Deaf
<1>2. Inv /\ Deaf =>
          (receiver = "reply" => AdapterLives \/ (phase = "ending" /\ retry) \/ phase = "exited")
  BY DEF Inv, TypeOK, StreamsTypeOK, CoreTypeOK, Deaf, AdapterLives
<1>3. ASSUME Inv, Deaf, [Next]_vars PROVE [Step]_vars
  <2> SUFFICES ASSUME Next, receiver = "reply"
               PROVE  /\ StepsToReply \in Nat /\ StepsToReply' <= StepsToReply
                      /\ Answer => StepsToReply' < StepsToReply
    BY <1>3
  <2>1. IsFiniteSet(ToDo) /\ Cardinality(ToDo) \in Nat
    BY FS_Subset, FS_CardinalityType DEF ToDo
  <2>2. StepsToReply \in Nat
    BY <2>1 DEF StepsToReply
  <2>3. CASE Answer
    BY <1>3, <2>2, <2>3, AnswerAdvances
  <2>4. CASE ~Answer
    <3>1. CASE UNCHANGED <<receiver, todo, spawning>>
      BY <2>2, <2>4, <3>1 DEF StepsToReply, ToDo
    <3>2. CASE receiver' # "reply"
      BY <2>2, <2>4, <3>2 DEF StepsToReply
    <3> QED
      BY <1>3, <2>4, <3>1, <3>2, OthersLeaveRequests
  <2> QED
    BY <2>3, <2>4
<1> QED
  BY <1>1, <1>2, <1>3, DeafStays, Invariance, PTL DEF Spec, RequestsAdvance
=============================================================================
