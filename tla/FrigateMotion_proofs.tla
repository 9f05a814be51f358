------------------------ MODULE FrigateMotion_proofs ------------------------
(***************************************************************************)
(* What holds of the Frigate adapter for any detections, labels, handlers  *)
(* and any bound on the event ids.                                         *)
(***************************************************************************)
EXTENDS FrigateMotion, FiniteSetTheorems, TLAPS

Ending == {"snapshot", "stop"}

\* A handler that ends a detection is the only one, and the detection is the current one.
Enders ==
    \A t \in Handlers : at[t] \in Ending =>
        /\ current # NoDetection /\ detection[current] = "over"
        /\ \A u \in Handlers : at[u] \in Ending => u = t

\* Core is suspended while it closes the camera.  A session that is to be followed by
\* another one leaves no handler.
Suspended ==
    /\ at[Core] = IF phase = "closing" THEN "stop" ELSE "idle"
    /\ (phase = "connecting" \/ (phase = "closing" /\ retry)) =>
           mqtt = "ended" /\ \A t \in Handlers : at[t] = "idle"

\* As long as no end has overtaken a start, a start that is being sent is the only one,
\* nothing is open or being stopped, and its detection is current; an event that is open
\* has a current detection, and both were announced.
Starters ==
    ~overtaken =>
        /\ \A t \in Handlers : at[t] = "start" =>
               /\ ~started /\ current # NoDetection
               /\ \A u \in Handlers : at[u] \in {"start", "stop"} => u = t
               /\ phase # "exited" => <<eventId, wanted[t]>> \in starts
        /\ started =>
               /\ current # NoDetection
               /\ phase # "exited" => <<eventId, objectType>> \in starts

Inv == TypeOK /\ Enders /\ Suspended /\ Starters /\ CurrentIsNotOver

-----------------------------------------------------------------------------

\* Core is not one of the handlers, which are what a session starts.
LEMMA HandlersAreTasks ==
  /\ Core \in Tasks /\ Core \notin Handlers /\ Handlers \subseteq Tasks
  /\ Tasks = Handlers \cup {Core} /\ Children = Handlers
  /\ \A d \in Detections : TypeOf[LabelOf[d]] \in Types
  /\ NoDetection \notin Detections
BY MotionAssumption, CoreAssumption, FrigateAssumption DEF Handlers

\* Nothing is open or suspended when the process starts.
LEMMA InitInv == Init => Inv
<1> SUFFICES ASSUME Init PROVE Inv
  OBVIOUS
<1> USE HandlersAreTasks, MotionAssumption DEF Init, MotionInit, CoreInit
<1>1. TypeOK
  BY DEF TypeOK, CoreTypeOK, MotionTypeOK, Types, Nothing
<1>2. Enders /\ Suspended /\ Starters /\ CurrentIsNotOver
  BY DEF Enders, Ending, Suspended, Starters, CurrentIsNotOver, IsOver
<1> QED
  BY <1>1, <1>2 DEF Inv

\* run() ends or connects again: its handlers are gone, and nobody listens.
LEMMA GroupRaisesInv ==
  ASSUME Inv, GroupRaises, AdapterLives, UNCHANGED <<ready, overtaken>>,
         detection' \in [Detections -> {"unseen", "active", "over"}],
         current' \in Detections \cup {NoDetection}, current # NoDetection => current' = current
  PROVE  Inv'
<1> USE HandlersAreTasks DEF Inv, TypeOK, CoreTypeOK, MotionTypeOK
<1>0. HandlersCancelled
  BY DEF GroupRaises, RunRaises, RunRetries
<1>1. /\ at' \in [Tasks -> {"idle", "start", "capture", "stop", "snapshot"}]
      /\ at'[Core] = at[Core] /\ \A t \in Handlers : at'[t] = "idle"
  BY <1>0 DEF HandlersCancelled
<1>2. /\ mqtt' \in {"ended", "reconnecting"} /\ missed' = IsOver'
      /\ doing' \in [Handlers -> Detections \cup {NoDetection}]
      /\ UNCHANGED <<ws, eventId, started, objectType, snapshot, wanted, sent, starts,
                     receiver, clean>>
  BY <1>0 DEF HandlersCancelled, GroupRaises, RunRaises, RunRetries
<1>3. \/ phase = "running" /\ phase' = "ending" /\ retry' = FALSE
      \/ phase' = phase /\ retry' = retry /\ (phase = "running" \/ ~retry)
         /\ phase \notin {"connecting", "exited"}
  BY DEF GroupRaises, RunRaises, RunRetries, Raises, AdapterLives
<1>4. TypeOK'
  <2>1. CoreTypeOK'
    BY <1>1, <1>2, <1>3, ZenonT(40)
  <2>2. missed' \in BOOLEAN
    BY <1>2 DEF IsOver
  <2> QED
    BY <1>2, <2>1, <2>2
<1>5. Enders'
  BY <1>1 DEF Enders, Ending
<1>6. Suspended'
  BY <1>1, <1>2, <1>3 DEF Suspended
<1>7. Starters'
  BY <1>1, <1>2, <1>3 DEF Starters
<1>8. CurrentIsNotOver'
  BY <1>2 DEF CurrentIsNotOver
<1> QED
  BY <1>4, <1>5, <1>6, <1>7, <1>8

\* Where an exception or a message takes the session, no motion event changes.
LEMMA SessionInv ==
  ASSUME Inv, ConnectRaises \/ Receiver \/ ConnectionLost, UNCHANGED frigate
  PROVE  Inv'
<1> USE HandlersAreTasks DEF Inv, frigate
<1>1. /\ UNCHANGED <<eventId, started, objectType, snapshot, at, wanted, sent, starts>>
      /\ ws' \in {"open", "closed"} /\ clean' \in BOOLEAN /\ retry' \in BOOLEAN
      /\ receiver' \in {"hello", "recv", "reply", "ended"}
      /\ \/ phase' = phase /\ retry' = retry
         \/ phase = "running" /\ phase' = "ending"
         \/ phase = "connecting" /\ phase' = "exited"
  <2>1. CASE ConnectRaises
    BY <2>1 DEF ConnectRaises, motion, TypeOK, CoreTypeOK, MotionTypeOK
  <2>2. CASE Receiver
    BY <2>2 DEF Receiver, Hello, ReceiveRequest, Reply, ReplyRaises, ForceReconnect,
       ReceiveClosed, ReceiverRaises, Raises, motion, TypeOK, CoreTypeOK, MotionTypeOK
  <2>3. CASE ConnectionLost
    BY <2>3 DEF ConnectionLost, TypeOK, CoreTypeOK, MotionTypeOK
  <2> QED
    BY <2>1, <2>2, <2>3
<1>2. TypeOK'
  BY <1>1 DEF TypeOK, CoreTypeOK, MotionTypeOK
<1>3. Enders' /\ Suspended' /\ Starters'
  BY <1>1 DEF Enders, Suspended, Starters
<1>4. CurrentIsNotOver'
  BY <1>1 DEF CurrentIsNotOver, IsOver
<1> QED
  BY <1>2, <1>3, <1>4

\* A new session.
LEMMA ConnectInv ==
  ASSUME Inv, Connect, mqtt' = "connecting",
         UNCHANGED <<detection, current, ready, doing, overtaken, missed>>
  PROVE  Inv'
<1> USE HandlersAreTasks DEF Inv, Connect
<1>1. TypeOK'
  BY DEF TypeOK, CoreTypeOK, MotionTypeOK
<1>2. Enders' /\ Suspended' /\ Starters'
  BY DEF Enders, Suspended, Starters
<1>3. CurrentIsNotOver'
  BY DEF CurrentIsNotOver, IsOver
<1> QED
  BY <1>1, <1>2, <1>3

\* The connection to the broker is up.
LEMMA MqttInv == ASSUME Inv, MqttConnects PROVE Inv'
<1> USE HandlersAreTasks DEF Inv, MqttConnects, motion, core
<1>1. TypeOK'
  BY DEF TypeOK, CoreTypeOK, MotionTypeOK
<1>2. Enders' /\ Starters'
  BY DEF Enders, Starters
<1>3. Suspended'
  BY DEF Suspended, AdapterLives
<1>4. CurrentIsNotOver'
  BY DEF CurrentIsNotOver, IsOver
<1> QED
  BY <1>1, <1>2, <1>3, <1>4

\* A snapshot of the current detection.
LEMMA SnapshotInv == ASSUME Inv, NEW label \in Labels, SnapshotArrives(label) PROVE Inv'
<1> USE HandlersAreTasks DEF Inv, SnapshotArrives, core
<1>1. TypeOK'
  BY DEF TypeOK, CoreTypeOK, MotionTypeOK
<1>2. Enders' /\ Suspended' /\ Starters'
  BY DEF Enders, Suspended, Starters
<1>3. CurrentIsNotOver'
  BY DEF CurrentIsNotOver, IsOver
<1> QED
  BY <1>1, <1>2, <1>3

\* The end of a session.
LEMMA CloseInv == ASSUME Inv, CloseSession PROVE Inv'
<1> USE HandlersAreTasks DEF Inv, TypeOK, CoreTypeOK, MotionTypeOK, Types
<1>1. /\ UNCHANGED <<detection, current, ready, overtaken>>
      /\ (phase = "ending" /\ retry) =>
             /\ mqtt' = "ended" /\ doing' = [t \in Handlers |-> NoDetection]
             /\ missed' = IsOver
      /\ ~(phase = "ending" /\ retry) => UNCHANGED <<mqtt, doing, missed>>
  BY DEF CloseSession
<1>2. /\ mqtt' \in {"connecting", "up", "reconnecting", "ended"} /\ missed' \in BOOLEAN
      /\ doing' \in [Handlers -> Detections \cup {NoDetection}]
  BY <1>1 DEF IsOver
<1>3. AdapterLives' => ~(phase = "ending" /\ retry) /\ retry' = retry /\ AdapterLives
  BY DEF CloseSession, Closing, EndSession, CloseEnds, CloseRaises, CloseCamera, AdapterLives,
     Closed
<1>4. CASE EndSession(Closed)
  <2>1. /\ phase = "ending" /\ retry' = retry /\ clean' = clean /\ CloseCamera(Closed)
        /\ receiver' \in {"hello", "recv", "reply", "ended"}
    BY <1>4 DEF EndSession
  <2>2. /\ Cancelled \in [Tasks -> {"idle", "start", "capture", "stop", "snapshot"}]
        /\ Cancelled[Core] = at[Core]
        /\ \A t \in Handlers : Cancelled[t] = IF retry THEN "idle" ELSE at[t]
    BY DEF Cancelled
  <2>3. CASE /\ ~started /\ phase' = Closed /\ at' = Cancelled
             /\ UNCHANGED <<ws, eventId, started, objectType, snapshot, wanted, sent, starts>>
    <3> USE <1>1, <1>2, <2>1, <2>2, <2>3 DEF Closed
    <3>1. TypeOK'
      OBVIOUS
    <3>2. Enders'
      BY DEF Enders, Ending
    <3>3. Suspended'
      BY DEF Suspended
    <3>4. Starters'
      BY DEF Starters
    <3>5. CurrentIsNotOver'
      BY DEF CurrentIsNotOver, IsOver
    <3> QED
      BY <3>1, <3>2, <3>3, <3>4, <3>5
  <2>4. CASE /\ started /\ phase' = "closing" /\ SendEvent("stop", objectType)
             /\ at' = [Cancelled EXCEPT ![Core] = "stop"]
             /\ UNCHANGED <<ws, eventId, started, objectType, snapshot, wanted>>
    <3> USE <1>1, <1>2, <2>1, <2>2, <2>4 DEF SendEvent
    <3>1. TypeOK'
      OBVIOUS
    <3>2. Enders'
      BY DEF Enders, Ending
    <3>3. Suspended'
      BY DEF Suspended
    <3>4. Starters'
      BY DEF Starters
    <3>5. CurrentIsNotOver'
      BY DEF CurrentIsNotOver, IsOver
    <3> QED
      BY <3>1, <3>2, <3>3, <3>4, <3>5
  <2>5. CASE phase' = "exited" /\ UNCHANGED motion
    <3> USE <1>1, <1>2, <2>1, <2>5 DEF motion
    <3>1. TypeOK'
      OBVIOUS
    <3>2. Enders'
      BY DEF Enders
    <3>3. Suspended'
      BY DEF Suspended
    <3>4. Starters'
      BY DEF Starters
    <3>5. CurrentIsNotOver'
      BY DEF CurrentIsNotOver, IsOver
    <3> QED
      BY <3>1, <3>2, <3>3, <3>4, <3>5
  <2> QED
    BY <2>1, <2>3, <2>4, <2>5 DEF CloseCamera, MotionToStop
<1>5. CASE CloseEnds(Closed)
  <2> USE <1>1, <1>2, <1>5 DEF CloseEnds, StopSent, Suspend, Closed
  <2>1. /\ at' \in [Tasks -> {"idle", "start", "capture", "stop", "snapshot"}]
        /\ at'[Core] = "idle" /\ \A t \in Handlers : at'[t] = at[t]
    OBVIOUS
  <2>2. TypeOK'
    <3>1. eventId' \in Nat
      BY <1>5
    <3>2. CoreTypeOK'
      BY <2>1, <3>1
    <3> QED
      BY <3>2
  <2>3. Enders'
    BY <2>1 DEF Enders
  <2>4. Suspended'
    BY <2>1 DEF Suspended
  <2>5. Starters'
    BY <2>1 DEF Starters, Suspended
  <2>6. CurrentIsNotOver'
    BY DEF CurrentIsNotOver, IsOver
  <2> QED
    BY <2>2, <2>3, <2>4, <2>5, <2>6
<1>6. CASE CloseRaises
  <2> USE <1>1, <1>2, <1>6 DEF CloseRaises, SendRaises, Suspend
  <2>1. /\ at' \in [Tasks -> {"idle", "start", "capture", "stop", "snapshot"}]
        /\ at'[Core] = "idle" /\ \A t \in Handlers : at'[t] = at[t]
    OBVIOUS
  <2>2. TypeOK'
    BY <2>1
  <2>3. Enders'
    BY <2>1 DEF Enders
  <2>4. Suspended'
    BY <2>1 DEF Suspended
  <2>5. Starters'
    BY <2>1 DEF Starters
  <2>6. CurrentIsNotOver'
    BY DEF CurrentIsNotOver, IsOver
  <2> QED
    BY <2>2, <2>3, <2>4, <2>5, <2>6
<1> QED
  BY <1>4, <1>5, <1>6 DEF CloseSession, Closing

-----------------------------------------------------------------------------

\* What a step of one handler does to the others, and what no handler's step does.
Frame(t) ==
    /\ at' \in [Tasks -> {"idle", "start", "capture", "stop", "snapshot"}]
    /\ \A u \in Tasks \ {t} : at'[u] = at[u]
    /\ UNCHANGED core

LEMMA Suspends ==
  ASSUME Inv, NEW t \in Handlers, NEW where \in {"idle", "start", "capture", "stop", "snapshot"},
         Suspend(t, where), UNCHANGED core
  PROVE  Frame(t) /\ at'[t] = where
BY HandlersAreTasks DEF Inv, TypeOK, CoreTypeOK, MotionTypeOK, Suspend, Frame

\* A start returns, and the capture of its snapshot.
LEMMA StarterInv == ASSUME Inv, NEW t \in Handlers, AdapterLives, StarterResumes(t) PROVE Inv'
<1> USE HandlersAreTasks DEF Inv, frigate
<1>1. CASE StartSent(t)
  <2>1. Frame(t) /\ at'[t] = "capture"
    BY <1>1, Suspends DEF StarterResumes, StartSent
  <2>2. /\ at[t] = "start" /\ started' = TRUE /\ objectType' = wanted[t] /\ UNCHANGED frigate
        /\ UNCHANGED <<ws, eventId, snapshot, wanted, sent, starts, phase, retry>>
    BY <1>1 DEF StarterResumes, StartSent, core
  <2>3. TypeOK'
    BY <2>1, <2>2 DEF TypeOK, CoreTypeOK, MotionTypeOK, Frame, core
  <2>4. Enders'
    BY <2>1, <2>2 DEF Enders, Ending, Frame
  <2>5. Suspended'
    BY <2>1, <2>2 DEF Suspended, Frame
  <2>6. Starters'
    BY <2>1, <2>2 DEF Starters, Frame
  <2>7. CurrentIsNotOver'
    BY <2>1, <2>2 DEF CurrentIsNotOver, IsOver, Frame
  <2> QED
    BY <2>3, <2>4, <2>5, <2>6, <2>7
<1>2. CASE SnapshotCaptured(t)
  <2>1. Frame(t) /\ at'[t] = "idle"
    BY <1>2, Suspends DEF StarterResumes, SnapshotCaptured
  <2>2. /\ at[t] = "capture" /\ snapshot' \in {"initial", snapshot} /\ UNCHANGED frigate
        /\ UNCHANGED <<ws, eventId, started, objectType, wanted, sent, starts, phase, retry>>
    BY <1>2 DEF StarterResumes, SnapshotCaptured, core
  <2>3. TypeOK'
    BY <2>1, <2>2 DEF TypeOK, CoreTypeOK, MotionTypeOK, Frame, core
  <2>4. Enders'
    BY <2>1, <2>2 DEF Enders, Ending, Frame
  <2>5. Suspended'
    BY <2>1, <2>2 DEF Suspended, Frame
  <2>6. Starters'
    BY <2>1, <2>2 DEF Starters, Frame
  <2>7. CurrentIsNotOver'
    BY <2>1, <2>2 DEF CurrentIsNotOver, IsOver, Frame
  <2> QED
    BY <2>3, <2>4, <2>5, <2>6, <2>7
<1> QED
  BY <1>1, <1>2 DEF StarterResumes

\* A stop returns: there is no other ender and, unless one was overtaken, no starter.
LEMMA StopInv == ASSUME Inv, NEW t \in Handlers, AdapterLives, StopReturns(t) PROVE Inv'
<1> USE HandlersAreTasks DEF Inv
<1>1. Frame(t) /\ at'[t] = "idle"
  BY Suspends DEF StopReturns, StopSent
<1>2. /\ at[t] = "stop" /\ started' = FALSE /\ objectType' = NoType /\ eventId' = eventId + 1
      /\ UNCHANGED <<ws, snapshot, wanted, sent, starts, phase, retry, mqtt, detection, ready>>
      /\ overtaken' = overtaken /\ missed' = FALSE /\ current' = NoDetection
      /\ doing' = [doing EXCEPT ![t] = NoDetection]
  BY DEF StopReturns, StopSent, core
<1>3. TypeOK'
  <2>1. eventId' \in Nat
    BY <1>2 DEF TypeOK, CoreTypeOK, MotionTypeOK
  <2>2. CoreTypeOK'
    BY <1>1, <1>2, <2>1, ZenonT(40) DEF TypeOK, CoreTypeOK, MotionTypeOK, Types, Frame, core
  <2>3. doing' \in [Handlers -> Detections \cup {NoDetection}]
    BY <1>2 DEF TypeOK
  <2> QED
    BY <1>2, <2>2, <2>3 DEF TypeOK
<1>4. Enders'
  BY <1>1, <1>2 DEF Enders, Ending, Frame
<1>5. Suspended'
  BY <1>1, <1>2 DEF Suspended, Frame
<1>6. Starters'
  BY <1>1, <1>2 DEF Starters, Frame
<1>7. CurrentIsNotOver'
  BY <1>2 DEF CurrentIsNotOver, IsOver
<1> QED
  BY <1>3, <1>4, <1>5, <1>6, <1>7

\* The handler of an end stops the motion event, finds none to stop, or fails.
LEMMA EndMotionInv ==
  ASSUME Inv, NEW t \in Handlers, AdapterLives, EndMotion(t), at[t] \in {"idle", "snapshot"},
         ready' = ready, current # NoDetection,
         detection' \in [Detections -> {"unseen", "active", "over"}],
         detection'[current] = "over",
         \A u \in Handlers \ {t} : at[u] \notin Ending
  PROVE  Inv'
<1> USE HandlersAreTasks DEF Inv
<1>1. CASE BeginStop(t) /\ UNCHANGED <<core, mqtt, current, doing, overtaken, missed>>
  <2>1. Frame(t) /\ at'[t] = "stop"
    BY <1>1, Suspends DEF BeginStop
  <2>2. /\ started /\ sent' = [edge |-> "stop", id |-> eventId, type |-> objectType]
        /\ starts' = starts /\ UNCHANGED <<ws, eventId, started, objectType, snapshot, wanted>>
        /\ UNCHANGED <<phase, retry, mqtt, current, doing, overtaken, missed>>
    BY <1>1 DEF BeginStop, SendEvent, core
  <2>3. TypeOK'
    <3>1. sent' \in [edge : {"none", "start", "stop"}, id : Nat, type : Types]
      BY <2>2 DEF TypeOK, CoreTypeOK, MotionTypeOK
    <3>2. CoreTypeOK'
      BY <2>1, <2>2, <3>1 DEF TypeOK, CoreTypeOK, MotionTypeOK, Frame, core
    <3> QED
      BY <2>2, <3>2 DEF TypeOK
  <2>4. Enders'
    BY <2>1, <2>2 DEF Enders, Ending, Frame
  <2>5. Suspended'
    BY <2>1, <2>2 DEF Suspended, AdapterLives, Frame
  <2>6. Starters'
    BY <2>1, <2>2 DEF Starters, Frame
  <2>7. CurrentIsNotOver'
    BY <2>1, <2>2 DEF CurrentIsNotOver, Frame
  <2> QED
    BY <2>3, <2>4, <2>5, <2>6, <2>7
<1>2. CASE /\ ~started /\ Suspend(t, "idle")
           /\ UNCHANGED <<ws, eventId, started, objectType, snapshot, wanted, sent, starts>>
           /\ current' = NoDetection /\ missed' = FALSE
           /\ doing' = [doing EXCEPT ![t] = NoDetection]
           /\ overtaken' = (overtaken \/ \E u \in Handlers : at[u] = "start")
           /\ UNCHANGED <<core, mqtt>>
  <2>1. Frame(t) /\ at'[t] = "idle"
    BY <1>2, Suspends
  <2>2. TypeOK'
    <3>1. CoreTypeOK'
      BY <1>2, <2>1 DEF TypeOK, CoreTypeOK, MotionTypeOK, Frame, core
    <3>2. overtaken' \in BOOLEAN
      BY <1>2 DEF TypeOK
    <3>3. doing' \in [Handlers -> Detections \cup {NoDetection}]
      BY <1>2 DEF TypeOK
    <3> QED
      BY <1>2, <3>1, <3>2, <3>3 DEF TypeOK
  <2>3. Enders'
    BY <1>2, <2>1 DEF Enders, Ending, Frame
  <2>4. Suspended'
    BY <1>2, <2>1 DEF Suspended, Frame, core
  <2>5. Starters'
    BY <1>2, <2>1 DEF Starters, Frame
  <2>6. CurrentIsNotOver'
    BY <1>2 DEF CurrentIsNotOver, IsOver
  <2> QED
    BY <2>2, <2>3, <2>4, <2>5, <2>6
<1>3. CASE started /\ ws = "closed" /\ GroupRaises /\ UNCHANGED <<current, overtaken>>
  <2>1. current' \in Detections \cup {NoDetection}
    BY <1>3 DEF TypeOK
  <2> QED
    BY <1>3, <2>1, GroupRaisesInv
<1> QED
  BY <1>1, <1>2, <1>3 DEF EndMotion

\* The wait for a snapshot ends.
LEMMA EnderInv == ASSUME Inv, NEW t \in Handlers, AdapterLives, EnderResumes(t) PROVE Inv'
<1>1. /\ at[t] = "snapshot" /\ EndMotion(t) /\ UNCHANGED <<detection, ready>>
  BY DEF EnderResumes
<1>2. /\ current # NoDetection /\ detection[current] = "over"
      /\ \A u \in Handlers \ {t} : at[u] \notin Ending
      /\ detection \in [Detections -> {"unseen", "active", "over"}]
  BY <1>1 DEF Inv, Enders, Ending, TypeOK
<1> QED
  BY <1>1, <1>2, EndMotionInv

\* A handler fails, or the broker is refused or lost.
LEMMA RaisesInv ==
  ASSUME Inv, AdapterLives,
         \/ \E t \in Handlers : HandlerRaises(t)
         \/ MqttRefused \/ BrokerLost \/ MessageRaises
  PROVE  Inv'
<1>1. GroupRaises /\ UNCHANGED <<detection, current, ready, overtaken>>
  BY DEF HandlerRaises, MqttRefused, BrokerLost, MessageRaises, GroupRaises
<1>2. /\ detection' \in [Detections -> {"unseen", "active", "over"}]
      /\ current' \in Detections \cup {NoDetection}
  BY <1>1 DEF Inv, TypeOK
<1> QED
  BY <1>1, <1>2, GroupRaisesInv

-----------------------------------------------------------------------------

\* A detection begins.
LEMMA BeginsInv ==
  ASSUME Inv, phase # "exited", NEW d \in Detections, DetectionBegins(d)
  PROVE  Inv'
<1> USE HandlersAreTasks DEF Inv
<1>1. /\ detection[d] = "unseen" /\ detection' = [detection EXCEPT ![d] = "active"]
      /\ overtaken' = overtaken
  BY DEF DetectionBegins
<1>2. /\ detection' \in [Detections -> {"unseen", "active", "over"}]
      /\ detection'[d] = "active"
      /\ \A e \in Detections : detection'[e] = "over" <=> detection[e] = "over"
      /\ current \in Detections \cup {NoDetection}
  BY <1>1 DEF TypeOK
<1>3. CASE UNCHANGED <<motion, core, current, ready, mqtt, doing, missed>>
  <2> USE <1>3 DEF motion, core
  <2>1. TypeOK'
    BY <1>1, <1>2 DEF TypeOK, CoreTypeOK, MotionTypeOK
  <2>2. Enders'
    BY <1>2 DEF Enders
  <2>3. Suspended'
    BY DEF Suspended
  <2>4. Starters'
    BY <1>1 DEF Starters
  <2>5. CurrentIsNotOver'
    BY <1>2 DEF CurrentIsNotOver, IsOver
  <2> QED
    BY <2>1, <2>2, <2>3, <2>4, <2>5
<1>4. ASSUME NEW t \in Handlers, Listening, Free(t), current = NoDetection, current' = d,
             missed' = FALSE, UNCHANGED ready,
             \/ BeginStart(t, TypeOf[LabelOf[d]]) /\ UNCHANGED <<core, mqtt, doing>>
             \/ started /\ NoEvent /\ UNCHANGED <<core, mqtt, doing>>
             \/ ~started /\ ws = "closed" /\ GroupRaises
      PROVE  Inv'
  <2>1. \A u \in Handlers : at[u] \notin Ending
    BY <1>4 DEF Enders
  <2>2. mqtt = "up" /\ phase \notin {"connecting", "exited"} /\ ~(phase = "closing" /\ retry)
    BY <1>4 DEF Listening, AdapterLives
  <2>3. CASE BeginStart(t, TypeOf[LabelOf[d]]) /\ UNCHANGED <<core, mqtt, doing>>
    <3> DEFINE type == TypeOf[LabelOf[d]]
    <3>1. Frame(t) /\ at'[t] = "start"
      BY <2>3, Suspends DEF BeginStart
    <3>2. /\ ~started /\ wanted' = [wanted EXCEPT ![t] = type]
          /\ sent' = [edge |-> "start", id |-> eventId, type |-> type]
          /\ starts' = starts \cup {<<eventId, type>>}
          /\ UNCHANGED <<ws, eventId, started, objectType, snapshot, phase, retry, mqtt, doing>>
      BY <2>3 DEF BeginStart, SendEvent, core
    <3>3. type \in Types
      OBVIOUS
    <3>4. wanted' \in [Tasks -> Types] /\ wanted'[t] = type
      BY <3>2, <3>3 DEF TypeOK, CoreTypeOK, MotionTypeOK
    <3>5. TypeOK'
      <4>1. sent' \in [edge : {"none", "start", "stop"}, id : Nat, type : Types]
        BY <3>2, <3>3 DEF TypeOK, CoreTypeOK, MotionTypeOK
      <4>2. starts' \subseteq Nat \X Types
        BY <3>2, <3>3 DEF TypeOK, CoreTypeOK, MotionTypeOK
      <4>3. CoreTypeOK'
        BY <3>1, <3>2, <3>4, <4>1, <4>2 DEF TypeOK, CoreTypeOK, MotionTypeOK, Frame, core
      <4> QED
        BY <1>1, <1>2, <1>4, <3>2, <4>3 DEF TypeOK
    <3>6. Enders'
      BY <2>1, <3>1 DEF Enders, Ending, Frame
    <3>7. Suspended'
      BY <2>2, <3>1, <3>2 DEF Suspended, Frame
    <3>8. Starters'
      <4>1. ASSUME ~overtaken PROVE \A u \in Handlers : at[u] # "start"
        BY <1>4, <4>1 DEF Starters
      <4> QED
        BY <1>1, <1>4, <2>1, <3>1, <3>2, <3>4, <4>1 DEF Starters, Frame, Ending
    <3>9. CurrentIsNotOver'
      BY <1>2, <1>4 DEF CurrentIsNotOver, IsOver
    <3> QED
      BY <3>5, <3>6, <3>7, <3>8, <3>9
  <2>4. CASE started /\ NoEvent /\ UNCHANGED <<core, mqtt, doing>>
    <3> USE <2>4 DEF NoEvent, motion, core
    <3>1. TypeOK'
      <4>1. CoreTypeOK'
        BY DEF TypeOK, CoreTypeOK, MotionTypeOK
      <4> QED
        BY <1>1, <1>2, <1>4, <4>1 DEF TypeOK
    <3>2. Enders'
      BY <2>1 DEF Enders
    <3>3. Suspended'
      BY <2>2 DEF Suspended
    <3>4. Starters'
      BY <1>1, <1>4 DEF Starters
    <3>5. CurrentIsNotOver'
      BY <1>2, <1>4 DEF CurrentIsNotOver, IsOver
    <3> QED
      BY <3>1, <3>2, <3>3, <3>4, <3>5
  <2>5. CASE ~started /\ ws = "closed" /\ GroupRaises
    <3>1. /\ AdapterLives /\ UNCHANGED <<ready, overtaken>>
          /\ current' \in Detections \cup {NoDetection}
          /\ current # NoDetection => current' = current
      BY <1>1, <1>4 DEF Listening
    <3> QED
      BY <1>2, <2>5, <3>1, GroupRaisesInv
  <2> QED
    BY <1>4, <2>3, <2>4, <2>5
<1> QED
  BY <1>3, <1>4 DEF DetectionBegins, HandleNew

\* A detection ends: that of the current one has no handler yet, since it was not over.
LEMMA EndsInv ==
  ASSUME Inv, phase # "exited", NEW d \in Detections, DetectionEnds(d)
  PROVE  Inv'
<1> USE HandlersAreTasks DEF Inv
<1>1. /\ detection[d] = "active" /\ detection' = [detection EXCEPT ![d] = "over"]
      /\ ready' = ready
  BY DEF DetectionEnds
<1>2. /\ detection' \in [Detections -> {"unseen", "active", "over"}]
      /\ detection'[d] = "over"
      /\ \A e \in Detections \ {d} : detection'[e] = detection[e]
      /\ current \in Detections \cup {NoDetection}
      /\ \A e \in Detections : detection[e] = "over" => detection'[e] = "over"
  BY <1>1 DEF TypeOK
<1>3. ASSUME UNCHANGED <<motion, core, mqtt, current, doing, overtaken>>,
             \/ missed' = (missed \/ current = d)
             \/ missed' = missed /\ current # d
      PROVE  Inv'
  <2> USE <1>3 DEF motion, core
  <2>1. TypeOK'
    <3>1. CoreTypeOK'
      BY DEF TypeOK, CoreTypeOK, MotionTypeOK
    <3> QED
      BY <1>1, <1>2, <3>1 DEF TypeOK
  <2>2. Enders'
    BY <1>2 DEF Enders
  <2>3. Suspended'
    BY DEF Suspended
  <2>4. Starters'
    BY DEF Starters
  <2>5. CurrentIsNotOver'
    BY <1>2, <1>3 DEF CurrentIsNotOver, IsOver
  <2> QED
    BY <2>1, <2>2, <2>3, <2>4, <2>5
<1>4. ASSUME NEW t \in Handlers, Listening, Free(t), current = d, EndMotion(t) PROVE Inv'
  <2>1. \A u \in Handlers : at[u] \notin Ending
    BY <1>1, <1>4 DEF Enders
  <2> QED
    BY <1>1, <1>2, <1>4, <2>1, EndMotionInv DEF Listening, Free
<1>5. ASSUME NEW t \in Handlers, Listening, Free(t), current = d,
             doing' = [doing EXCEPT ![t] = d], Suspend(t, "snapshot"),
             UNCHANGED <<ws, eventId, started, objectType, snapshot, wanted, sent, starts,
                         core, mqtt, current, overtaken, missed>>
      PROVE  Inv'
  <2>1. \A u \in Handlers : at[u] \notin Ending
    BY <1>1, <1>5 DEF Enders
  <2>2. Frame(t) /\ at'[t] = "snapshot" /\ UNCHANGED <<phase, retry>>
    BY <1>5, Suspends DEF core
  <2>3. doing' \in [Handlers -> Detections \cup {NoDetection}] /\ doing'[t] = d
    BY <1>5 DEF TypeOK
  <2>4. TypeOK'
    <3>1. CoreTypeOK'
      BY <1>5, <2>2 DEF TypeOK, CoreTypeOK, MotionTypeOK, Frame, core
    <3> QED
      BY <1>1, <1>2, <1>5, <2>3, <3>1 DEF TypeOK
  <2>5. Enders'
    BY <1>2, <1>5, <2>1, <2>2 DEF Enders, Ending, Frame
  <2>6. Suspended'
    BY <1>5, <2>2 DEF Suspended, Frame, Listening, AdapterLives
  <2>7. Starters'
    BY <1>5, <2>2 DEF Starters, Frame
  <2>8. CurrentIsNotOver'
    BY <1>5, <2>3 DEF CurrentIsNotOver, IsOver
  <2> QED
    BY <2>4, <2>5, <2>6, <2>7, <2>8
<1> QED
  BY <1>3, <1>4, <1>5 DEF DetectionEnds, HandleEnd

-----------------------------------------------------------------------------

\* The invariant is kept by every step.
LEMMA StepInv == Inv /\ [Next]_vars => Inv'
<1> SUFFICES ASSUME Inv, [Next]_vars PROVE Inv'
  OBVIOUS
<1>1. CASE Session
  BY <1>1, ConnectInv, SessionInv, CloseInv DEF Session
<1>2. CASE MqttConnects \/ MqttRefused \/ BrokerLost \/ MessageRaises
  BY <1>2, MqttInv, RaisesInv DEF MqttRefused, BrokerLost, MessageRaises, Listening
<1>3. CASE phase # "exited" /\ \E d \in Detections : DetectionBegins(d) \/ DetectionEnds(d)
  BY <1>3, BeginsInv, EndsInv
<1>4. CASE \E label \in Labels : SnapshotArrives(label)
  BY <1>4, SnapshotInv
<1>5. CASE \E t \in Handlers : HandlerResumes(t)
  BY <1>5, EnderInv, StarterInv, StopInv, RaisesInv DEF HandlerResumes
<1>6. CASE UNCHANGED vars
  <2> USE <1>6 DEF vars, motion, core, frigate, Inv
  <2>1. TypeOK'
    BY DEF TypeOK, CoreTypeOK, MotionTypeOK
  <2>2. Enders' /\ Suspended' /\ Starters'
    BY DEF Enders, Suspended, Starters
  <2>3. CurrentIsNotOver'
    BY DEF CurrentIsNotOver, IsOver
  <2> QED
    BY <2>1, <2>2, <2>3
<1> QED
  BY <1>1, <1>2, <1>3, <1>4, <1>5, <1>6 DEF Next

\* The inductive invariant of the Frigate adapter.
THEOREM Invariance == Spec => []Inv
<1> QED
  BY InitInv, StepInv, PTL DEF Spec

\* The types of the session, the motion events and the detections.
THEOREM TypeCorrect == Spec => []TypeOK
<1>1. Inv => TypeOK
  BY DEF Inv
<1> QED
  BY <1>1, Invariance, PTL

\* However many handlers of messages overlap, at most one is ending a detection.
THEOREM OneHandlerEnds == Spec => []OneEnder
<1>1. ASSUME Inv PROVE OneEnder
  <2> DEFINE enders == { t \in Handlers : at[t] \in {"snapshot", "stop"} }
  <2>1. \A t, u \in enders : t = u
    BY <1>1 DEF Inv, Enders, Ending
  <2>2. CASE enders = {}
    BY <2>2, FS_EmptySet DEF OneEnder
  <2>3. CASE enders # {}
    <3>1. PICK t : enders = {t}
      BY <2>1, <2>3
    <3> QED
      BY <3>1, FS_Singleton DEF OneEnder
  <2> QED
    BY <2>2, <2>3
<1> QED
  BY <1>1, Invariance, PTL

\* A motion event that is open, with no call on its way, has a current detection.
THEOREM OpenEventsHaveAnOwner == Spec => []OpenEventsAreOwned
<1>1. Inv => OpenEventsAreOwned
  BY DEF Inv, Starters, OpenEventsAreOwned
<1> QED
  BY <1>1, Invariance, PTL

\* A detection that is over is not the current one without a handler that is ending it,
\* unless its end was missed or its handler cancelled, with the session or the broker.
THEOREM DetectionsAreEnded == Spec => []CurrentIsNotOver
<1>1. Inv => CurrentIsNotOver
  BY DEF Inv
<1> QED
  BY <1>1, Invariance, PTL

\* As long as no end has overtaken a start, a stop is sent only for an event that was
\* started under its id and object type.
THEOREM StopsFollowStarts == Spec => StopsHaveStarts
<1> DEFINE Step == (sent' # sent /\ sent'.edge = "stop" /\ ~overtaken)
                      => <<sent'.id, sent'.type>> \in starts
<1>1. ASSUME Inv, [Next]_vars PROVE [Step]_vars
  <2> SUFFICES ASSUME Next, sent' # sent, sent'.edge = "stop", ~overtaken
               PROVE  <<sent'.id, sent'.type>> \in starts
    BY <1>1
  <2>1. /\ started /\ phase # "exited"
        /\ sent' = [edge |-> "stop", id |-> eventId, type |-> objectType]
    <3>1. CASE Session
      BY <3>1 DEF Session, Connect, ConnectRaises, Receiver, Hello, ReceiveRequest, Reply,
         ReplyRaises, ForceReconnect, ReceiveClosed, ReceiverRaises, ConnectionLost,
         CloseSession, Closing, EndSession, CloseCamera, MotionToStop, SendEvent,
         CloseEnds, CloseRaises, StopSent, SendRaises, motion
    <3>2. ASSUME NEW t \in Handlers, EndMotion(t), AdapterLives
          PROVE  /\ started /\ phase # "exited"
                 /\ sent' = [edge |-> "stop", id |-> eventId, type |-> objectType]
      BY <3>2 DEF EndMotion, BeginStop, SendEvent, GroupRaises, RunRaises, RunRetries,
         HandlersCancelled, AdapterLives
    <3>3. ASSUME NEW d \in Detections, DetectionBegins(d) PROVE FALSE
      <4>1. CASE UNCHANGED motion
        BY <4>1 DEF motion
      <4>2. ASSUME NEW t \in Handlers, NEW type, BeginStart(t, type) PROVE FALSE
        <5>1. sent' = [edge |-> "start", id |-> eventId, type |-> type]
          BY <4>2 DEF BeginStart, SendEvent
        <5> QED
          BY <5>1
      <4>3. CASE GroupRaises
        BY <4>3 DEF GroupRaises, RunRaises, RunRetries, HandlersCancelled
      <4> QED
        BY <3>3, <4>1, <4>2, <4>3 DEF DetectionBegins, HandleNew, NoEvent
    <3>4. ASSUME NEW d \in Detections, DetectionEnds(d)
          PROVE  AdapterLives /\ \E t \in Handlers : EndMotion(t)
      BY <3>4 DEF DetectionEnds, HandleEnd, Listening, motion
    <3>5. ASSUME NEW t \in Handlers, HandlerResumes(t)
          PROVE  AdapterLives /\ EndMotion(t)
      BY <3>5 DEF HandlerResumes, EnderResumes, StarterResumes, StartSent, SnapshotCaptured,
         StopReturns, StopSent, HandlerRaises, GroupRaises, RunRaises, RunRetries,
         HandlersCancelled
    <3>6. CASE \/ MqttConnects \/ MqttRefused \/ BrokerLost \/ MessageRaises
               \/ \E label \in Labels : SnapshotArrives(label)
      BY <3>6 DEF MqttConnects, MqttRefused, BrokerLost, MessageRaises, GroupRaises, RunRaises,
         RunRetries, HandlersCancelled, SnapshotArrives, motion
    <3> QED
      BY <3>1, <3>2, <3>3, <3>4, <3>5, <3>6 DEF Next
  <2> QED
    BY <1>1, <2>1 DEF Inv, Starters
<1> QED
  BY <1>1, Invariance, PTL DEF Spec, StopsHaveStarts

-----------------------------------------------------------------------------
(* The log of the controller.                                               *)

\* As long as no end has overtaken a start, what was told last is the start of the event
\* that is open or is being started, or its stop, or the start of an event whose send
\* failed and whose id the next one takes.
Logged ==
    (~overtaken /\ phase # "exited") =>
        /\ started => sent.edge # "none" /\ sent.id = eventId /\ sent.type = objectType
        /\ (~started /\ sent.edge = "start") => sent.id = eventId
        /\ \A t \in Handlers : at[t] = "start" =>
               sent = [edge |-> "start", id |-> eventId, type |-> wanted[t]]
        /\ \A t \in Handlers : at[t] = "stop" => sent.edge = "stop"
        /\ (phase = "closing" /\ retry) => sent.edge = "stop"

\* A step that sends nothing leaves at most fewer handlers that are sending, and Core
\* where it is or at the end.
Silent ==
    /\ UNCHANGED <<eventId, started, objectType, wanted, sent>>
    /\ \A t \in Handlers : at'[t] = at[t] \/ at'[t] \notin {"start", "stop"}
    /\ (phase' = "closing" /\ retry') => (phase = "closing" /\ retry)
    /\ phase = "exited" => phase' = "exited"

\* What Core does when it closes a camera whose motion event is open, and what it does
\* when the stop is sent.
CoreStops ==
    /\ started /\ SendEvent("stop", objectType)
    /\ UNCHANGED <<eventId, started, objectType, wanted>>
    /\ phase = "ending" /\ \A t \in Handlers : at'[t] = at[t] \/ at'[t] \notin {"start", "stop"}

CoreIsDone ==
    /\ StopSent(Core) /\ phase = "closing" /\ phase' = Closed /\ retry' = retry

\* What a handler does to a motion event.
HandlerStarts(t, type) ==
    /\ BeginStart(t, type)
    /\ current = NoDetection /\ AdapterLives /\ UNCHANGED <<phase, retry>>

HandlerSteps(t) ==
    /\ BeginStop(t) \/ StartSent(t) \/ StopSent(t)
    /\ AdapterLives /\ UNCHANGED <<phase, retry>>

\* A step begins or ends the sending of an event, or leaves it alone.
LEMMA StepsOfMotion ==
  ASSUME Inv, Next
  PROVE  \/ Silent \/ CoreStops \/ CoreIsDone
         \/ \E t \in Handlers : \/ \E type \in Types : HandlerStarts(t, type)
                                \/ HandlerSteps(t)
<1> USE HandlersAreTasks
<1>1. at \in [Tasks -> {"idle", "start", "capture", "stop", "snapshot"}]
  BY DEF Inv, TypeOK, CoreTypeOK, MotionTypeOK
<1>2. ASSUME UNCHANGED motion, UNCHANGED core PROVE Silent
  BY <1>2 DEF motion, core, Silent
<1>3. ASSUME GroupRaises, AdapterLives PROVE Silent
  BY <1>3 DEF GroupRaises, RunRaises, RunRetries, HandlersCancelled, Raises, AdapterLives, Silent
<1>4. ASSUME NEW t \in Handlers, NEW where, where \notin {"start", "stop"}, Suspend(t, where),
             UNCHANGED core, UNCHANGED <<eventId, started, objectType, wanted, sent>>
      PROVE  Silent
  <2>1. at' = [at EXCEPT ![t] = where] /\ UNCHANGED <<phase, retry>>
    BY <1>4 DEF Suspend, core
  <2>2. \A u \in Handlers : at'[u] = at[u] \/ at'[u] \notin {"start", "stop"}
    BY <1>1, <1>4, <2>1
  <2> QED
    BY <1>4, <2>1, <2>2 DEF Silent
<1>5. CASE Session
  <2>1. CASE Connect
    BY <2>1 DEF Connect, Silent
  <2>2. CASE ConnectRaises
    BY <2>2 DEF ConnectRaises, motion, Silent
  <2>3. CASE ConnectionLost
    BY <2>3 DEF ConnectionLost, Silent
  <2>4. CASE Receiver
    <3>1. /\ UNCHANGED motion /\ AdapterLives
          /\ \/ UNCHANGED <<phase, retry>>
             \/ phase = "running" /\ phase' = "ending"
      BY <2>4 DEF Receiver, Hello, ReceiveRequest, Reply, ReplyRaises, ForceReconnect,
         ReceiveClosed, ReceiverRaises, Raises, motion
    <3> QED
      BY <3>1 DEF motion, Silent
  <2>5. CASE EndSession(Closed)
    <3>1. \A t \in Handlers : Cancelled[t] = at[t] \/ Cancelled[t] = "idle"
      BY DEF Cancelled
    <3>2. Cancelled \in [Tasks -> {"idle", "start", "capture", "stop", "snapshot"}]
      BY <1>1 DEF Cancelled
    <3>3. phase = "ending" /\ retry' = retry
      BY <2>5 DEF EndSession
    <3>4. CASE /\ phase' = Closed /\ at' = Cancelled
               /\ UNCHANGED <<ws, eventId, started, objectType, snapshot, wanted, sent, starts>>
      BY <3>1, <3>3, <3>4 DEF Silent, Closed
    <3>5. CASE /\ started /\ SendEvent("stop", objectType)
               /\ at' = [Cancelled EXCEPT ![Core] = "stop"]
               /\ UNCHANGED <<ws, eventId, started, objectType, snapshot, wanted>>
      <4>1. \A t \in Handlers : at'[t] = Cancelled[t]
        BY <3>2, <3>5
      <4> QED
        BY <3>1, <3>3, <3>5, <4>1 DEF CoreStops
    <3>6. CASE phase' = "exited" /\ UNCHANGED motion
      BY <3>3, <3>6 DEF Silent, motion
    <3> QED
      BY <2>5, <3>4, <3>5, <3>6 DEF EndSession, CloseCamera, MotionToStop
  <2>6. CASE CloseEnds(Closed)
    BY <2>6 DEF CloseEnds, CoreIsDone
  <2>7. CASE CloseRaises
    <3>1. \A t \in Handlers : at'[t] = at[t]
      BY <1>1, <2>7 DEF CloseRaises, SendRaises, Suspend
    <3> QED
      BY <2>7, <3>1 DEF CloseRaises, SendRaises, Silent
  <2> QED
    BY <1>5, <2>1, <2>2, <2>3, <2>4, <2>5, <2>6, <2>7 DEF Session, CloseSession, Closing
<1>6. CASE MqttConnects
  BY <1>2, <1>6 DEF MqttConnects
<1>7. CASE MqttRefused \/ BrokerLost \/ MessageRaises
  BY <1>3, <1>7 DEF MqttRefused, BrokerLost, MessageRaises, GroupRaises, Listening
<1>8. ASSUME NEW label \in Labels, SnapshotArrives(label) PROVE Silent
  BY <1>8 DEF SnapshotArrives, core, Silent
<1>9. ASSUME NEW t \in Handlers, EndMotion(t), AdapterLives PROVE Silent \/ HandlerSteps(t)
  <2>1. CASE BeginStop(t) /\ UNCHANGED core
    BY <1>9, <2>1 DEF HandlerSteps, core
  <2>2. CASE /\ Suspend(t, "idle") /\ UNCHANGED core
             /\ UNCHANGED <<ws, eventId, started, objectType, snapshot, wanted, sent, starts>>
    BY <1>4, <2>2
  <2>3. CASE GroupRaises
    BY <1>3, <1>9, <2>3
  <2> QED
    BY <1>9, <2>1, <2>2, <2>3 DEF EndMotion
<1>10. ASSUME NEW d \in Detections, DetectionBegins(d)
       PROVE  \/ Silent
              \/ \E t \in Handlers : \E type \in Types : HandlerStarts(t, type)
  <2>1. CASE UNCHANGED motion /\ UNCHANGED core
    BY <1>2, <2>1
  <2>2. ASSUME NEW t \in Handlers, Listening, current = NoDetection,
               BeginStart(t, TypeOf[LabelOf[d]]), UNCHANGED core
        PROVE  HandlerStarts(t, TypeOf[LabelOf[d]])
    BY <2>2 DEF HandlerStarts, Listening, core
  <2>3. CASE GroupRaises /\ Listening
    BY <1>3, <2>3 DEF Listening
  <2> QED
    BY <1>10, <2>1, <2>2, <2>3 DEF DetectionBegins, HandleNew, NoEvent
<1>11. ASSUME NEW d \in Detections, DetectionEnds(d)
       PROVE  Silent \/ \E t \in Handlers : HandlerSteps(t)
  <2>1. CASE UNCHANGED motion /\ UNCHANGED core
    BY <1>2, <2>1
  <2>2. ASSUME NEW t \in Handlers, EndMotion(t), Listening PROVE Silent \/ HandlerSteps(t)
    BY <1>9, <2>2 DEF Listening
  <2>3. ASSUME NEW t \in Handlers, Suspend(t, "snapshot"), UNCHANGED core,
               UNCHANGED <<ws, eventId, started, objectType, snapshot, wanted, sent, starts>>
        PROVE  Silent
    BY <1>4, <2>3
  <2> QED
    BY <1>11, <2>1, <2>2, <2>3 DEF DetectionEnds, HandleEnd
<1>12. ASSUME NEW t \in Handlers, HandlerResumes(t) PROVE Silent \/ HandlerSteps(t)
  <2>1. AdapterLives
    BY <1>12 DEF HandlerResumes
  <2>2. CASE EnderResumes(t)
    BY <1>9, <2>1, <2>2 DEF EnderResumes
  <2>3. CASE StarterResumes(t)
    <3>1. CASE StartSent(t)
      BY <2>1, <2>3, <3>1 DEF StarterResumes, HandlerSteps, core
    <3>2. CASE SnapshotCaptured(t)
      BY <1>4, <2>3, <3>2 DEF StarterResumes, SnapshotCaptured
    <3> QED
      BY <2>3, <3>1, <3>2 DEF StarterResumes
  <2>4. CASE StopReturns(t)
    BY <2>1, <2>4 DEF StopReturns, HandlerSteps, core
  <2>5. CASE HandlerRaises(t)
    BY <1>3, <2>1, <2>5 DEF HandlerRaises
  <2> QED
    BY <1>12, <2>2, <2>3, <2>4, <2>5 DEF HandlerResumes
<1> QED
  BY <1>5, <1>6, <1>7, <1>8, <1>10, <1>11, <1>12 DEF Next

\* An end that has overtaken a start is remembered.
LEMMA CarelessStays ==
  Inv /\ [Next]_vars => overtaken' \in BOOLEAN /\ (overtaken => overtaken')
<1> SUFFICES ASSUME Inv, [Next]_vars
             PROVE  overtaken' \in BOOLEAN /\ (overtaken => overtaken')
  OBVIOUS
<1>1. overtaken \in BOOLEAN
  BY DEF Inv, TypeOK
<1>2. ASSUME NEW t \in Handlers, EndMotion(t)
      PROVE  overtaken' = overtaken \/ overtaken' = (overtaken \/ \E u \in Handlers : at[u] = "start")
  BY <1>2 DEF EndMotion
<1>3. \/ overtaken' = overtaken
      \/ overtaken' = (overtaken \/ \E u \in Handlers : at[u] = "start")
  BY <1>2 DEF Next, Session, CloseSession, frigate, MqttConnects, MqttRefused, BrokerLost,
     MessageRaises, DetectionBegins,
     DetectionEnds, HandleEnd, SnapshotArrives, HandlerResumes, EnderResumes, StarterResumes,
     StopReturns, HandlerRaises, vars
<1> QED
  BY <1>1, <1>3

\* What was told last is known after every step.
LEMMA LoggedStays == Inv /\ Logged /\ [Next]_vars => Logged'
<1> SUFFICES ASSUME Inv, Logged, [Next]_vars, ~overtaken', phase' # "exited" PROVE Logged'
  BY DEF Logged
<1> USE HandlersAreTasks
<1>1. CASE UNCHANGED vars
  BY <1>1 DEF vars, motion, core, frigate, Logged
<1>2. CASE Next
  <2>1. ~overtaken
    BY CarelessStays
  <2>2. /\ at \in [Tasks -> {"idle", "start", "capture", "stop", "snapshot"}]
        /\ wanted \in [Tasks -> Types] /\ eventId \in Nat
    BY DEF Inv, TypeOK, CoreTypeOK, MotionTypeOK
  <2>3. /\ \A t \in Handlers : at[t] = "start" =>
               /\ ~started /\ current # NoDetection
               /\ \A u \in Handlers : at[u] \in {"start", "stop"} => u = t
        /\ \A t \in Handlers : at[t] = "stop" => current # NoDetection
    BY <2>1 DEF Inv, Starters, Enders, Ending
  <2>4. CASE Silent
    BY <2>1, <2>4 DEF Silent, Logged
  <2>5. CASE CoreStops
    <3>1. /\ sent' = [edge |-> "stop", id |-> eventId, type |-> objectType] /\ started
          /\ UNCHANGED <<eventId, started, objectType>>
      BY <2>5 DEF CoreStops, SendEvent
    <3>2. \A t \in Handlers : at'[t] # "start"
      BY <2>3, <2>5, <3>1 DEF CoreStops
    <3> QED
      BY <3>1, <3>2 DEF Logged
  <2>6. CASE CoreIsDone
    <3>1. phase = "closing" /\ retry /\ phase' = "connecting"
      BY <2>6 DEF CoreIsDone, Closed
    <3>2. /\ sent.edge = "stop" /\ sent' = sent /\ ~started'
          /\ at' = [at EXCEPT ![Core] = "idle"]
      BY <2>1, <2>6, <3>1 DEF CoreIsDone, StopSent, Suspend, Logged
    <3>3. \A t \in Handlers : at'[t] = "idle"
      BY <2>2, <3>1, <3>2 DEF Inv, Suspended
    <3> QED
      BY <3>1, <3>2, <3>3 DEF Logged
  <2>7. ASSUME NEW t \in Handlers, NEW type \in Types, HandlerStarts(t, type) PROVE Logged'
    <3>1. /\ at' = [at EXCEPT ![t] = "start"] /\ wanted' = [wanted EXCEPT ![t] = type]
          /\ sent' = [edge |-> "start", id |-> eventId, type |-> type] /\ ~started
          /\ UNCHANGED <<eventId, started, objectType>>
      BY <2>7 DEF HandlerStarts, BeginStart, SendEvent, Suspend
    <3>2. \A u \in Handlers : at'[u] # "stop" /\ (at'[u] = "start" => u = t)
      BY <2>2, <2>3, <2>7, <3>1 DEF HandlerStarts
    <3>3. wanted'[t] = type
      BY <2>2, <3>1
    <3>4. ~(phase' = "closing" /\ retry')
      BY <2>7 DEF HandlerStarts, AdapterLives
    <3> QED
      BY <3>1, <3>2, <3>3, <3>4 DEF Logged
  <2>8. ASSUME NEW t \in Handlers, HandlerSteps(t) PROVE Logged'
    <3>1. phase # "exited" /\ ~(phase' = "closing" /\ retry')
      BY <2>8 DEF HandlerSteps, AdapterLives
    <3>2. CASE BeginStop(t)
      <4>1. /\ at' = [at EXCEPT ![t] = "stop"] /\ started
            /\ sent' = [edge |-> "stop", id |-> eventId, type |-> objectType]
            /\ UNCHANGED <<eventId, started, objectType, wanted>>
        BY <3>2 DEF BeginStop, SendEvent, Suspend
      <4>2. \A u \in Handlers : at'[u] # "start"
        BY <2>2, <2>3, <4>1
      <4> QED
        BY <4>1, <4>2 DEF Logged
    <3>3. CASE StartSent(t)
      <4>1. /\ at[t] = "start" /\ started' /\ objectType' = wanted[t]
            /\ at' = [at EXCEPT ![t] = "capture"] /\ UNCHANGED <<eventId, wanted, sent>>
        BY <3>3 DEF StartSent, Suspend
      <4>2. \A u \in Handlers : at'[u] \notin {"start", "stop"}
        BY <2>2, <2>3, <4>1
      <4>3. sent = [edge |-> "start", id |-> eventId, type |-> wanted[t]]
        BY <2>1, <3>1, <4>1 DEF Logged
      <4> QED
        BY <3>1, <4>1, <4>2, <4>3 DEF Logged
    <3>4. CASE StopSent(t)
      <4>1. /\ at[t] = "stop" /\ ~started' /\ at' = [at EXCEPT ![t] = "idle"] /\ sent' = sent
        BY <3>4 DEF StopSent, Suspend
      <4>2. \A u \in Handlers : at'[u] # "start"
        BY <2>2, <2>3, <4>1
      <4>3. sent.edge = "stop"
        BY <2>1, <3>1, <4>1 DEF Logged
      <4> QED
        BY <3>1, <4>1, <4>2, <4>3 DEF Logged
    <3> QED
      BY <2>8, <3>2, <3>3, <3>4 DEF HandlerSteps
  <2> QED
    BY <1>2, <2>4, <2>5, <2>6, <2>7, <2>8, StepsOfMotion
<1> QED
  BY <1>1, <1>2

\* What a step does to the log: the beginning of an event, its end, or the end of the
\* call that tells of the beginning, which uses up the id.
LEMMA LogSteps ==
  ASSUME Inv, Logged, Next
  PROVE  \/ \E type \in Types : Log!Start(type) \/ Log!Stop(type)
         \/ Log!Begun
         \/ UNCHANGED <<sent, NextId>>
<1>1. eventId \in Nat /\ started \in BOOLEAN /\ objectType \in Types
  BY DEF Inv, TypeOK, CoreTypeOK, MotionTypeOK
<1>2. ~overtaken' => ~overtaken
  BY CarelessStays
<1>3. CASE Silent
  BY <1>3 DEF Silent, NextId
<1>4. ASSUME NEW t \in Handlers, NEW type \in Types, HandlerStarts(t, type)
      PROVE  Log!Start(type)
  <2>1. /\ ~started /\ sent' = [edge |-> "start", id |-> eventId, type |-> type]
        /\ UNCHANGED <<eventId, started>> /\ phase # "exited"
    BY <1>4 DEF HandlerStarts, BeginStart, SendEvent, AdapterLives
  <2>2. NextId = eventId /\ NextId' = NextId
    BY <2>1 DEF NextId
  <2>3. overtaken' \/ sent.edge # "start" \/ sent.id = eventId
    BY <1>2, <2>1 DEF Logged
  <2> QED
    BY <2>1, <2>2, <2>3 DEF Log!Start
<1>5. ASSUME started, SendEvent("stop", objectType), UNCHANGED <<eventId, started>>,
             phase # "exited"
      PROVE  Log!Stop(objectType)
  <2>1. sent' = [edge |-> "stop", id |-> eventId, type |-> objectType]
    BY <1>5 DEF SendEvent
  <2>2. NextId = eventId + 1 /\ NextId' = NextId
    BY <1>5 DEF NextId
  <2>3. NextId > 0 /\ NextId - 1 = eventId
    BY <1>1, <2>2
  <2>4. overtaken' \/ (sent.edge # "none" /\ sent.id = eventId /\ sent.type = objectType)
    BY <1>2, <1>5 DEF Logged
  <2> QED
    BY <2>1, <2>2, <2>3, <2>4 DEF Log!Stop
<1>6. ASSUME NEW t \in Tasks, StartSent(t) PROVE Log!Begun \/ UNCHANGED <<sent, NextId>>
  <2>1. started' = TRUE /\ UNCHANGED <<eventId, sent>>
    BY <1>6 DEF StartSent
  <2>2. NextId' = eventId + 1
    BY <2>1 DEF NextId
  <2> QED
    BY <2>1, <2>2 DEF NextId, Log!Begun
<1>7. ASSUME NEW t \in Tasks, StopSent(t) PROVE Log!Begun \/ UNCHANGED <<sent, NextId>>
  <2>1. started' = FALSE /\ eventId' = eventId + 1 /\ sent' = sent
    BY <1>7 DEF StopSent
  <2>2. NextId' = eventId + 1
    BY <2>1 DEF NextId
  <2> QED
    BY <2>1, <2>2 DEF NextId, Log!Begun
<1>8. CASE CoreStops
  BY <1>1, <1>5, <1>8 DEF CoreStops
<1>9. CASE CoreIsDone
  BY <1>7, <1>9, HandlersAreTasks DEF CoreIsDone
<1>10. ASSUME NEW t \in Handlers, HandlerSteps(t)
       PROVE  Log!Stop(objectType) \/ Log!Begun \/ UNCHANGED <<sent, NextId>>
  <2>1. t \in Tasks /\ phase # "exited"
    BY <1>10, HandlersAreTasks DEF HandlerSteps, AdapterLives
  <2>2. CASE BeginStop(t)
    BY <1>5, <2>1, <2>2 DEF BeginStop
  <2> QED
    BY <1>6, <1>7, <1>10, <2>1, <2>2 DEF HandlerSteps
<1> QED
  BY <1>1, <1>3, <1>4, <1>8, <1>9, <1>10, StepsOfMotion

\* However the handlers of messages overlap and sessions end, the events that the
\* controller is told of are those of EventLog, of which a behaviour in which an end has
\* overtaken the start of its own event is the careless one.
THEOREM FrigateKeepsTheLog == Spec => KeepsTheLog
<1>1. Init => Logged /\ Log!Init
  BY HandlersAreTasks DEF Init, MotionInit, CoreInit, Nothing, Logged, Log!Init, NextId
<1>2. ASSUME Inv, Logged, [Next]_vars PROVE [Log!Next]_(Log!vars)
  <2>1. CASE Next
    <3>1. overtaken' \in BOOLEAN /\ (overtaken => overtaken')
      BY <1>2, CarelessStays
    <3> QED
      BY <1>2, <2>1, <3>1, LogSteps DEF Log!Next
  <2>2. CASE UNCHANGED vars
    BY <2>2 DEF vars, motion, frigate, NextId, Log!vars
  <2> QED
    BY <1>2, <2>1, <2>2
<1> QED
  BY <1>1, <1>2, LoggedStays, Invariance, PTL DEF Spec, KeepsTheLog, Log!Spec
=============================================================================
