---------------------------- MODULE FrigateMotion ----------------------------
(***************************************************************************)
(* The Frigate adapter (cams/frigate.py): detections and snapshots arrive  *)
(* over MQTT, and each message is handled by a task of its own in one      *)
(* TaskGroup, under the sessions of CameraCore.                            *)
(***************************************************************************)
EXTENDS CameraCore, FiniteSets

CONSTANTS
    Detections,   \* Frigate's event ids; each begins and ends once
    Labels,       \* what is detected
    LabelOf,      \* [Detections -> Labels]
    TypeOf,       \* [Labels -> Types]: label_to_object_type
    NoDetection   \* event_id is None

Handlers == Tasks \ {Core}

ASSUME FrigateAssumption ==
    /\ Children = Handlers
    /\ LabelOf \in [Detections -> Labels]
    /\ TypeOf \in [Labels -> Types]
    /\ NoDetection \notin Detections

VARIABLES
    mqtt,        \* run(): "connecting", "up", "reconnecting" or "ended"
    detection,   \* what Frigate sees: "unseen", "active" or "over"
    current,     \* event_id, and with it event_label; no reconnect resets them
    ready,       \* the detections whose event_snapshot_ready is set
    doing,       \* the detection whose end a task handles
    overtaken,   \* history: an end found the start of its event still being sent
    missed       \* history: the end of the current detection was missed or cancelled

frigate == <<mqtt, detection, current, ready, doing, overtaken, missed>>
vars == <<motion, core, frigate>>

Init ==
    /\ MotionInit /\ CoreInit
    /\ mqtt = "ended"
    /\ detection = [d \in Detections |-> "unseen"]
    /\ current = NoDetection
    /\ ready = {}
    /\ doing = [t \in Handlers |-> NoDetection]
    /\ overtaken = FALSE
    /\ missed = FALSE

Listening == mqtt = "up" /\ AdapterLives

Free(t) == at[t] = "idle" /\ doing[t] = NoDetection

\* Frigate's end of the current detection came already.
IsOver == current # NoDetection /\ detection[current] = "over"

\* The TaskGroup of the handlers is left with an exception and cancels them.
HandlersCancelled ==
    /\ at' = [t \in Tasks |-> IF t = Core THEN at[t] ELSE "idle"]
    /\ doing' = [t \in Handlers |-> NoDetection]
    /\ missed' = IsOver'
    /\ UNCHANGED <<ws, eventId, started, objectType, snapshot, wanted, sent, starts,
                   receiver, clean>>

\* run() ends with the exception.
RunRaises ==
    /\ Raises(FALSE)
    /\ mqtt' = "ended"
    /\ HandlersCancelled

\* The MQTT client puts the MqttError of its lost connection in the place of the
\* exception: once has_connected, it is caught, and run() connects again for as long as
\* it takes, with the event_id it has.
RunRetries ==
    /\ mqtt' = "reconnecting"
    /\ HandlersCancelled
    /\ UNCHANGED <<phase, retry>>

\* A handler fails, and perhaps the broker is lost while the others are cancelled.
GroupRaises == RunRaises \/ RunRetries

MqttConnects ==
    /\ mqtt \in {"connecting", "reconnecting"} /\ AdapterLives
    /\ mqtt' = "up"
    /\ UNCHANGED <<motion, core, detection, current, ready, doing, overtaken, missed>>

\* The first connection fails.
MqttRefused ==
    /\ mqtt = "connecting" /\ AdapterLives
    /\ UNCHANGED <<detection, current, ready, overtaken>>
    /\ RunRaises

\* The connection to the broker is lost, perhaps before anything was subscribed to.
BrokerLost ==
    /\ mqtt \in {"connecting", "up"} /\ AdapterLives
    /\ UNCHANGED <<detection, current, ready, overtaken>>
    /\ RunRetries

\* A message lacks a field that a handler reads.
MessageRaises ==
    /\ Listening
    /\ UNCHANGED <<detection, current, ready, overtaken>>
    /\ GroupRaises

\* handle_detection_event of type "new", up to its first await.
HandleNew(t, d) ==
    IF current # NoDetection THEN UNCHANGED <<motion, core, current, ready, mqtt, doing, missed>>
    ELSE /\ current' = d
         /\ missed' = FALSE
         /\ UNCHANGED ready
         /\ \/ BeginStart(t, TypeOf[LabelOf[d]]) /\ UNCHANGED <<core, mqtt, doing>>
            \/ started /\ NoEvent /\ UNCHANGED <<core, mqtt, doing>>
            \/ ~started /\ ws = "closed" /\ GroupRaises

\* A detection begins: its message reaches a handler, or nobody when run() does not listen.
DetectionBegins(d) ==
    /\ detection[d] = "unseen"
    /\ detection' = [detection EXCEPT ![d] = "active"]
    /\ \/ Listening /\ \E t \in Handlers : Free(t) /\ HandleNew(t, d)
       \/ ~Listening /\ UNCHANGED <<motion, core, mqtt, current, ready, doing, missed>>
    /\ UNCHANGED overtaken

\* MUTANT: the event id is reset and the stop is left to close().
EndQuietly(t) ==
    /\ Suspend(t, "idle")
    /\ UNCHANGED <<ws, eventId, started, objectType, snapshot, wanted, sent, starts,
                   core, mqtt, overtaken>>
    /\ current' = NoDetection
    /\ missed' = FALSE
    /\ doing' = [doing EXCEPT ![t] = NoDetection]

\* trigger_motion_stop by the handler of an end, and event_id = None when it returns.
EndMotion(t) ==
    \/ /\ BeginStop(t)
       /\ UNCHANGED <<core, mqtt, current, doing, overtaken, missed>>
    \/ /\ ~started /\ Suspend(t, "idle")
       /\ UNCHANGED <<ws, eventId, started, objectType, snapshot, wanted, sent, starts>>
       /\ current' = NoDetection
       /\ missed' = FALSE
       /\ doing' = [doing EXCEPT ![t] = NoDetection]
       /\ overtaken' = (overtaken \/ \E u \in Handlers : at[u] = "start")
       /\ UNCHANGED <<core, mqtt>>
    \/ /\ started /\ ws = "closed"
       /\ UNCHANGED <<current, overtaken>>
       /\ GroupRaises

\* MUTANT: an end without a snapshot is dropped.
HandleEndReady(t, d) ==
    IF current # d \/ d \notin ready
    THEN UNCHANGED <<motion, core, mqtt, current, doing, overtaken, missed>>
    ELSE EndMotion(t)

\* MUTANT: the end of any detection ends the current one.
HandleEndOfAny(t, d) ==
    IF current = NoDetection
    THEN UNCHANGED <<motion, core, mqtt, current, doing, overtaken, missed>>
    ELSE /\ doing' = [doing EXCEPT ![t] = d]
         /\ Suspend(t, "snapshot")
         /\ UNCHANGED <<ws, eventId, started, objectType, snapshot, wanted, sent, starts,
                        core, mqtt, current, overtaken, missed>>

\* handle_detection_event of type "end": it waits for the snapshot of the detection.
HandleEnd(t, d) ==
    IF current # d THEN UNCHANGED <<motion, core, mqtt, current, doing, overtaken, missed>>
    ELSE IF d \in ready
    THEN EndMotion(t)
    ELSE /\ doing' = [doing EXCEPT ![t] = d]
         /\ Suspend(t, "snapshot")
         /\ UNCHANGED <<ws, eventId, started, objectType, snapshot, wanted, sent, starts,
                        core, mqtt, current, overtaken, missed>>

DetectionEnds(d) ==
    /\ detection[d] = "active"
    /\ detection' = [detection EXCEPT ![d] = "over"]
    /\ \/ Listening /\ \E t \in Handlers : Free(t) /\ HandleEnd(t, d)
       \/ /\ ~Listening
          /\ missed' = (missed \/ current = d)
          /\ UNCHANGED <<motion, core, mqtt, current, doing, overtaken>>
    /\ UNCHANGED ready

\* handle_snapshot_event.  The temporary file belongs to a local variable, so it is
\* removed when the handler returns, and _motion_snapshot keeps its name.
SnapshotArrives(label) ==
    /\ Listening
    /\ current # NoDetection
    /\ label = LabelOf[current]
    /\ snapshot' = "deleted"
    /\ ready' = ready \cup {current}
    /\ UNCHANGED <<ws, eventId, started, objectType, at, wanted, sent, starts, core,
                   mqtt, detection, current, doing, overtaken, missed>>

\* The wait for the snapshot ends.
EnderResumes(t) ==
    /\ at[t] = "snapshot" /\ doing[t] \in ready
    /\ UNCHANGED <<detection, ready>>
    /\ EndMotion(t)

\* The awaits of the motion operations end.
StarterResumes(t) ==
    /\ StartSent(t) \/ SnapshotCaptured(t)
    /\ UNCHANGED <<core, frigate>>

StopReturns(t) ==
    /\ StopSent(t)
    /\ current' = NoDetection
    /\ missed' = FALSE
    /\ doing' = [doing EXCEPT ![t] = NoDetection]
    /\ UNCHANGED <<core, mqtt, detection, ready, overtaken>>

\* A send that was suspended fails, or the capture of a snapshot.
HandlerRaises(t) ==
    /\ (at[t] \in {"start", "stop"} /\ ws = "closed") \/ at[t] = "capture"
    /\ UNCHANGED <<detection, current, ready, overtaken>>
    /\ GroupRaises

HandlerResumes(t) ==
    /\ AdapterLives
    /\ EnderResumes(t) \/ StarterResumes(t) \/ StopReturns(t) \/ HandlerRaises(t)

\* A retryable end of the session cancels run() and with it the handlers.
CloseSession ==
    /\ Closing(Closed)
    /\ LET cancelled == phase = "ending" /\ retry
       IN  /\ mqtt' = IF cancelled THEN "ended" ELSE mqtt
           /\ doing' = IF cancelled THEN [t \in Handlers |-> NoDetection] ELSE doing
           /\ missed' = IF cancelled THEN IsOver ELSE missed
    /\ UNCHANGED <<detection, current, ready, overtaken>>

Session ==
    \/ /\ Connect /\ mqtt' = "connecting"
       /\ UNCHANGED <<detection, current, ready, doing, overtaken, missed>>
    \/ (ConnectRaises \/ Receiver \/ ConnectionLost) /\ UNCHANGED frigate
    \/ CloseSession

Next ==
    \/ Session
    \/ MqttConnects \/ MqttRefused \/ BrokerLost \/ MessageRaises
    \/ phase # "exited" /\ \E d \in Detections : DetectionBegins(d) \/ DetectionEnds(d)
    \/ \E label \in Labels : SnapshotArrives(label)
    \/ \E t \in Handlers : HandlerResumes(t)

Spec == Init /\ [][Next]_vars

-----------------------------------------------------------------------------
(* Properties.                                                              *)

TypeOK ==
    /\ CoreTypeOK
    /\ mqtt \in {"connecting", "up", "reconnecting", "ended"}
    /\ detection \in [Detections -> {"unseen", "active", "over"}]
    /\ current \in Detections \cup {NoDetection}
    /\ ready \subseteq Detections
    /\ doing \in [Handlers -> Detections \cup {NoDetection}]
    /\ overtaken \in BOOLEAN /\ missed \in BOOLEAN

\* No stop reaches the controller for an event that was never started under the same
\* id and object type, although starts and stops of different tasks overlap, unless an
\* end has overtaken the start of its own event: then two starts go out under one id,
\* and the second to return opens an event that was not announced.
StopsHaveStarts ==
    [][(sent' # sent /\ sent'.edge = "stop" /\ ~overtaken) => <<sent'.id, sent'.type>> \in starts]_vars

\* At most one handler is ending a detection: two would use up two event ids, and the
\* second would close a motion event it does not belong to.
OneEnder ==
    Cardinality({ t \in Handlers : at[t] \in {"snapshot", "stop"} }) <= 1

\* A motion event that is open, with no call on its way, has a current detection, whose
\* end is the only message that stops it, unless an end has overtaken the start of its
\* own event.  That the end is still to come is not said: see CurrentIsNotOver.
OpenEventsAreOwned ==
    (phase = "running" /\ started /\ ~overtaken /\ \A t \in Tasks : at[t] = "idle")
        => current # NoDetection

\* A detection that is over and still the current one has a handler that is ending it,
\* unless nobody listened when its end came, or the handler of the end was cancelled
\* with the session or with the connection to the broker: then it stays current, which
\* no message changes any more, and every later detection is ignored.
CurrentIsNotOver ==
    (IsOver /\ ~missed) => \E t \in Handlers : doing[t] = current \/ at[t] = "stop"

\* frigate.py:127 "Wait for the best snapshot to be ready before ending the motion
\* event": when the handler of an end sends the stop, the path that a snapshot request
\* of the controller will be answered from names a file.
SnapshotReadyAtEnd ==
    [][(sent' # sent /\ sent'.edge = "stop" /\ phase = "running") => snapshot # "deleted"]_vars

\* The log that the controller sees of this camera.
Log == INSTANCE EventLog WITH nextId <- NextId, careless <- overtaken

\* However the handlers of messages overlap, the controller is told of motion events as
\* EventLog says, until an end has overtaken the start of its own event: then two starts
\* go out under one id, and the second to return opens an event that was not announced.
KeepsTheLog == Log!Spec
=============================================================================
