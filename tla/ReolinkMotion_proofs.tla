------------------------ MODULE ReolinkMotion_proofs ------------------------
(***************************************************************************)
(* What holds of a polling camera for any object types and any bound on    *)
(* the event ids: the invariants and action properties of ReolinkMotion.   *)
(***************************************************************************)
EXTENDS ReolinkMotion, TLAPS

\* Who may be suspended: the poller while it lives, and Core while it closes the camera.
Suspended ==
    /\ \A t \in Tasks \ {Core, Poller} : at[t] = "idle"
    /\ at[Core] = IF phase = "closing" THEN "stop" ELSE "idle"
    /\ (phase # "exited" /\ ~polling) => at[Poller] = "idle"

\* What the end of a session has settled: a cancelled poller is gone, so that the event
\* that close() is stopping stays open until it is stopped.
Settled ==
    /\ phase = "connecting" => ~started /\ ~polling
    /\ (phase = "closing" /\ retry) => started /\ ~polling

\* The event that is open, or about to be, has been started under its id and type.
Announced ==
    phase # "exited" =>
        /\ started => <<eventId, objectType>> \in starts
        /\ at[Poller] = "start" => <<eventId, wanted[Poller]>> \in starts

\* The poller knows of the event that it has opened or is opening.
Owned ==
    phase # "exited" =>
        /\ (polling /\ at[Poller] \in {"start", "capture"}) => inProgress
        /\ (phase = "running" /\ polling /\ at[Poller] = "idle" /\ started) => inProgress

Inv == TypeOK /\ Suspended /\ Settled /\ Announced /\ Owned

-----------------------------------------------------------------------------

\* The poller is a task of its own, and the only one that a session starts.
LEMMA PollerIsATask ==
  Poller \in Tasks /\ Core \in Tasks /\ Poller # Core /\ Children = {Poller}
BY MotionAssumption, CoreAssumption, ReolinkAssumption

\* Nothing is open or suspended when the process starts.
LEMMA InitInv == Init => Inv
<1> SUFFICES ASSUME Init PROVE Inv
  OBVIOUS
<1> USE PollerIsATask, MotionAssumption DEF Init, MotionInit, CoreInit
<1>1. TypeOK
  BY DEF TypeOK, CoreTypeOK, MotionTypeOK, Types, Nothing
<1>2. Suspended /\ Settled /\ Announced /\ Owned
  BY DEF Suspended, Settled, Announced, Owned
<1> QED
  BY <1>1, <1>2 DEF Inv

\* A new session: no motion event is open, so the new poller has none to know of.
LEMMA ConnectInv == ASSUME Inv, Connect, polling' = TRUE, UNCHANGED inProgress PROVE Inv'
<1> USE PollerIsATask DEF Inv, Connect
<1>1. TypeOK'
  BY DEF TypeOK, CoreTypeOK, MotionTypeOK
<1>2. Suspended' /\ Settled' /\ Announced' /\ Owned'
  BY DEF TypeOK, CoreTypeOK, MotionTypeOK, Suspended, Settled, Announced, Owned
<1> QED
  BY <1>1, <1>2

\* Where an exception or a message takes the session, no motion event changes.
LEMMA SessionInv ==
  ASSUME Inv, ConnectRaises \/ Receiver \/ ConnectionLost, UNCHANGED <<polling, inProgress>>
  PROVE  Inv'
<1> USE PollerIsATask DEF Inv, motion
<1>1. CASE ConnectRaises
  BY <1>1 DEF ConnectRaises, TypeOK, CoreTypeOK, MotionTypeOK, Suspended, Settled, Announced, Owned
<1>2. CASE Receiver
  <2>1. /\ UNCHANGED motion
        /\ phase' = phase \/ (phase = "running" /\ phase' = "ending")
        /\ retry' = retry \/ phase' = "ending"
        /\ receiver' \in {"hello", "recv", "reply", "ended"}
        /\ retry' \in BOOLEAN /\ UNCHANGED clean
    BY <1>2 DEF Receiver, Hello, ReceiveRequest, Reply, ReplyRaises, ForceReconnect,
       ReceiveClosed, ReceiverRaises, Raises, TypeOK, CoreTypeOK
  <2> QED
    BY <2>1 DEF TypeOK, CoreTypeOK, MotionTypeOK, Suspended, Settled, Announced, Owned
<1>3. CASE ConnectionLost
  BY <1>3 DEF ConnectionLost, TypeOK, CoreTypeOK, MotionTypeOK, Suspended, Settled, Announced, Owned
<1> QED
  BY <1>1, <1>2, <1>3

\* The end of a session.
LEMMA CloseInv == ASSUME Inv, CloseSession PROVE Inv'
<1> USE PollerIsATask DEF Inv, TypeOK, CoreTypeOK, MotionTypeOK, Types
<1>1. CASE EndSession(Closed)
  <2>1. /\ phase = "ending" /\ inProgress' = inProgress /\ polling' = (polling /\ ~retry)
        /\ retry' = retry /\ clean' = clean /\ CloseCamera(Closed)
        /\ receiver' \in {"hello", "recv", "reply", "ended"}
    BY <1>1 DEF CloseSession, EndSession
  <2>2. /\ Cancelled \in [Tasks -> {"idle", "start", "capture", "stop", "snapshot"}]
        /\ \A t \in Tasks \ {Poller} : Cancelled[t] = at[t]
        /\ Cancelled[Poller] = IF retry THEN "idle" ELSE at[Poller]
    BY DEF Cancelled
  <2>3. CASE /\ ~started /\ phase' = Closed /\ at' = Cancelled
             /\ UNCHANGED <<ws, eventId, started, objectType, snapshot, wanted, sent, starts>>
    <3> USE <2>1, <2>2, <2>3 DEF Closed
    <3>1. TypeOK'
      OBVIOUS
    <3>2. Suspended'
      BY DEF Suspended
    <3>3. Settled'
      BY DEF Suspended, Settled
    <3>4. Announced'
      BY DEF Suspended, Settled, Announced
    <3>5. Owned'
      BY DEF Suspended, Settled, Owned
    <3> QED
      BY <3>1, <3>2, <3>3, <3>4, <3>5
  <2>4. CASE /\ started /\ phase' = "closing" /\ SendEvent("stop", objectType)
             /\ at' = [Cancelled EXCEPT ![Core] = "stop"]
             /\ UNCHANGED <<ws, eventId, started, objectType, snapshot, wanted>>
    <3> USE <2>1, <2>2, <2>4 DEF SendEvent
    <3>1. TypeOK'
      OBVIOUS
    <3>2. Suspended'
      BY DEF Suspended
    <3>3. Settled'
      BY DEF Suspended, Settled
    <3>4. Announced'
      BY DEF Suspended, Settled, Announced
    <3>5. Owned'
      BY DEF Suspended, Settled, Owned
    <3> QED
      BY <3>1, <3>2, <3>3, <3>4, <3>5
  <2>5. CASE phase' = "exited" /\ UNCHANGED motion
    <3> USE <2>1, <2>5 DEF motion
    <3>1. TypeOK'
      OBVIOUS
    <3>2. Suspended'
      BY DEF Suspended
    <3>3. Settled'
      BY DEF Suspended, Settled
    <3>4. Announced'
      BY DEF Suspended, Settled, Announced
    <3>5. Owned'
      BY DEF Suspended, Settled, Owned
    <3> QED
      BY <3>1, <3>2, <3>3, <3>4, <3>5
  <2> QED
    BY <2>1, <2>3, <2>4, <2>5 DEF CloseCamera, MotionToStop
<1>2. CASE CloseEnds(Closed)
  <2> eventId' \in Nat /\ objectType' \in Types
    BY <1>2 DEF CloseEnds, StopSent
  <2> USE <1>2 DEF CloseSession, CloseEnds, StopSent, Suspend, Closed
  <2>1. TypeOK'
    OBVIOUS
  <2>2. Suspended'
    BY DEF Suspended
  <2>3. Settled'
    BY DEF Suspended, Settled
  <2>4. Announced'
    BY DEF Suspended, Settled, Announced
  <2>5. Owned'
    BY DEF Suspended, Settled, Owned
  <2> QED
    BY <2>1, <2>2, <2>3, <2>4, <2>5
<1>3. CASE CloseRaises
  <2> USE <1>3 DEF CloseSession, CloseRaises, SendRaises, Suspend
  <2>1. TypeOK'
    OBVIOUS
  <2>2. Suspended'
    BY DEF Suspended
  <2>3. Settled'
    BY DEF Suspended, Settled
  <2>4. Announced'
    BY DEF Suspended, Settled, Announced
  <2>5. Owned'
    BY DEF Suspended, Settled, Owned
  <2> QED
    BY <2>1, <2>2, <2>3, <2>4, <2>5
<1> QED
  BY <1>1, <1>2, <1>3 DEF CloseSession, Closing

\* A call that finds nothing to do, or the websocket closed, and changes inProgress.
LEMMA QuietPoll ==
  ASSUME Inv, polling, at[Poller] = "idle", AdapterLives, UNCHANGED motion, inProgress' \in BOOLEAN,
         \/ UNCHANGED <<core, polling>> /\ (started => inProgress')
         \/ UNCHANGED <<core, polling>> /\ ~started
         \/ PollerRaises
  PROVE  Inv'
<1> USE PollerIsATask DEF Inv, TypeOK, CoreTypeOK, MotionTypeOK, Types, motion, core, AdapterLives
<1>1. CASE UNCHANGED <<core, polling>> /\ (started => inProgress')
  <2> USE <1>1
  <2>1. TypeOK'
    OBVIOUS
  <2>2. Suspended'
    BY DEF Suspended
  <2>3. Settled'
    BY DEF Suspended, Settled
  <2>4. Announced'
    BY DEF Suspended, Settled, Announced
  <2>5. Owned'
    BY DEF Suspended, Settled, Owned
  <2> QED
    BY <2>1, <2>2, <2>3, <2>4, <2>5
<1>3. CASE PollerRaises
  <2> USE <1>3 DEF PollerRaises, Raises
  <2>1. TypeOK'
    BY ZenonT(40)
  <2>2. Suspended'
    BY DEF Suspended
  <2>3. Settled'
    BY DEF Suspended, Settled
  <2>4. Announced'
    BY DEF Suspended, Settled, Announced
  <2>5. Owned'
    BY DEF Suspended, Settled, Owned
  <2> QED
    BY <2>1, <2>2, <2>3, <2>4, <2>5
<1> QED
  BY <1>1, <1>3

\* A poll.
LEMMA PollInv == ASSUME Inv, PollMotion \/ PollStill \/ PollFails PROVE Inv'
<1> USE PollerIsATask, MotionAssumption DEF Inv, TypeOK, CoreTypeOK, MotionTypeOK, Types
<1>1. polling /\ at[Poller] = "idle" /\ AdapterLives
  BY DEF PollMotion, PollStill, PollFails, AtPoll
<1>2. CASE BeginStart(Poller, NoType) /\ inProgress' = TRUE /\ UNCHANGED <<core, polling>>
  <2> USE <1>1, <1>2 DEF BeginStart, SendEvent, Suspend, core, AdapterLives
  <2>1. TypeOK'
    OBVIOUS
  <2>2. Suspended'
    BY DEF Suspended
  <2>3. Settled'
    BY DEF Suspended, Settled
  <2>4. Announced'
    BY DEF Suspended, Settled, Announced
  <2>5. Owned'
    BY DEF Suspended, Settled, Owned
  <2> QED
    BY <2>1, <2>2, <2>3, <2>4, <2>5
<1>3. CASE BeginStop(Poller) /\ inProgress' = FALSE /\ UNCHANGED <<core, polling>>
  <2> USE <1>1, <1>3 DEF BeginStop, SendEvent, Suspend, core, AdapterLives
  <2>1. TypeOK'
    OBVIOUS
  <2>2. Suspended'
    BY DEF Suspended
  <2>3. Settled'
    BY DEF Suspended, Settled
  <2>4. Announced'
    BY DEF Suspended, Settled, Announced
  <2>5. Owned'
    BY DEF Suspended, Settled, Owned
  <2> QED
    BY <2>1, <2>2, <2>3, <2>4, <2>5
<1>4. CASE /\ UNCHANGED motion /\ inProgress' \in BOOLEAN
           /\ \/ UNCHANGED <<core, polling>> /\ (started => inProgress')
              \/ UNCHANGED <<core, polling>> /\ ~started
              \/ PollerRaises
  BY <1>1, <1>4, QuietPoll
<1>5. inProgress \in BOOLEAN
  OBVIOUS
<1> QED
  BY <1>1, <1>2, <1>3, <1>4, <1>5 DEF PollMotion, PollStill, PollFails, NoEvent

\* The poller goes on after an await.
LEMMA ResumeInv == ASSUME Inv, PollerResumes PROVE Inv'
<1> USE PollerIsATask DEF Inv, TypeOK, CoreTypeOK, MotionTypeOK, Types, AdapterLives, Suspend, core
<1>1. polling /\ (phase = "running" \/ (phase \in {"ending", "closing", "cleanup"} /\ ~retry))
  BY DEF PollerResumes
<1>2. CASE StartSent(Poller) /\ UNCHANGED <<core, polling, inProgress>>
  <2> USE <1>1, <1>2 DEF StartSent
  <2>1. TypeOK'
    OBVIOUS
  <2>2. Suspended'
    BY DEF Suspended
  <2>3. Settled'
    BY DEF Suspended, Settled
  <2>4. Announced'
    BY DEF Suspended, Settled, Announced
  <2>5. Owned'
    BY DEF Suspended, Settled, Owned
  <2> QED
    BY <2>1, <2>2, <2>3, <2>4, <2>5
<1>3. CASE SnapshotCaptured(Poller) /\ UNCHANGED <<core, polling, inProgress>>
  <2> USE <1>1, <1>3 DEF SnapshotCaptured
  <2>1. TypeOK'
    OBVIOUS
  <2>2. Suspended'
    BY DEF Suspended
  <2>3. Settled'
    BY DEF Suspended, Settled
  <2>4. Announced'
    BY DEF Suspended, Settled, Announced
  <2>5. Owned'
    BY DEF Suspended, Settled, Owned
  <2> QED
    BY <2>1, <2>2, <2>3, <2>4, <2>5
<1>4. CASE StopSent(Poller) /\ UNCHANGED <<core, polling, inProgress>>
  <2> eventId' \in Nat /\ objectType' \in Types
    BY <1>4 DEF StopSent
  <2> USE <1>1, <1>4 DEF StopSent
  <2>1. TypeOK'
    OBVIOUS
  <2>2. Suspended'
    BY DEF Suspended
  <2>3. Settled'
    BY DEF Suspended, Settled
  <2>4. Announced'
    BY DEF Suspended, Settled, Announced
  <2>5. Owned'
    BY DEF Suspended, Settled, Owned
  <2> QED
    BY <2>1, <2>2, <2>3, <2>4, <2>5
<1>5. CASE OperationRaises(Poller) /\ PollerRaises /\ UNCHANGED inProgress
  <2> USE <1>1, <1>5 DEF OperationRaises, SendRaises, CaptureRaises, PollerRaises, Raises
  <2>1. TypeOK'
    BY ZenonT(40)
  <2>2. Suspended'
    BY DEF Suspended
  <2>3. Settled'
    BY DEF Suspended, Settled
  <2>4. Announced'
    BY DEF Suspended, Settled, Announced
  <2>5. Owned'
    BY DEF Suspended, Settled, Owned
  <2> QED
    BY <2>1, <2>2, <2>3, <2>4, <2>5
<1> QED
  BY <1>2, <1>3, <1>4, <1>5 DEF PollerResumes

\* No step breaks the invariant.
LEMMA StepInv == Inv /\ [Next]_vars => Inv'
<1> SUFFICES ASSUME Inv, [Next]_vars PROVE Inv'
  OBVIOUS
<1>1. CASE UNCHANGED vars
  BY <1>1 DEF vars, motion, core, Inv, TypeOK, CoreTypeOK, MotionTypeOK, Suspended, Settled,
     Announced, Owned
<1>2. CASE Session
  BY <1>2, ConnectInv, SessionInv, CloseInv DEF Session
<1>3. CASE PollMotion \/ PollStill \/ PollFails \/ PollerResumes
  BY <1>3, PollInv, ResumeInv
<1> QED
  BY <1>1, <1>2, <1>3 DEF Next

\* Every reachable state of the proxy with a polling camera satisfies the invariant.
THEOREM Invariance == Spec => []Inv
<1> QED
  BY InitInv, StepInv, PTL DEF Spec

\* The types of the session, the motion event and the poller.
THEOREM TypeCorrect == Spec => []TypeOK
<1>1. Inv => TypeOK
  BY DEF Inv
<1> QED
  BY <1>1, Invariance, PTL

\* No session begins with a motion event open or a call suspended: core.py connects
\* again only when close() has gone through.
THEOREM SessionsBeginStill == Spec => []SessionsStartStill
<1>1. Inv => SessionsStartStill
  BY PollerIsATask DEF Inv, Suspended, Settled, SessionsStartStill
<1> QED
  BY <1>1, Invariance, PTL

\* An event that is open in a running session has a poller that knows of it.
THEOREM OpenEventsHaveAnOwner == Spec => []OpenEventsAreOwned
<1>1. Inv => OpenEventsAreOwned
  BY DEF Inv, Owned, OpenEventsAreOwned
<1> QED
  BY <1>1, Invariance, PTL

\* The controller is told of the end of an event only after its start, with the same id
\* and type.
THEOREM StopsFollowStarts == Spec => StopsHaveStarts
<1> DEFINE Step == (sent' # sent /\ sent'.edge = "stop") => <<sent'.id, sent'.type>> \in starts
<1>1. ASSUME Inv, [Next]_vars PROVE [Step]_vars
  <2> SUFFICES ASSUME Next, sent' # sent, sent'.edge = "stop"
               PROVE  <<sent'.id, sent'.type>> \in starts
    BY <1>1
  <2>1. /\ phase # "exited" /\ started
        /\ sent' = [edge |-> "stop", id |-> eventId, type |-> objectType]
    <3>1. CASE CloseSession
      BY <3>1 DEF CloseSession, Closing, EndSession, CloseCamera, MotionToStop, SendEvent, CloseEnds,
         CloseRaises, StopSent, SendRaises, motion
    <3>2. CASE PollMotion \/ PollStill \/ PollFails
      BY <3>2 DEF PollMotion, PollStill, PollFails, BeginStart, BeginStop, SendEvent, NoEvent, motion,
         AtPoll, AdapterLives
    <3>3. CASE PollerResumes
      BY <3>3 DEF PollerResumes, StartSent, SnapshotCaptured, StopSent, OperationRaises,
         SendRaises, CaptureRaises
    <3>4. CASE Session /\ ~CloseSession
      BY <3>4 DEF Session, Connect, ConnectRaises, ConnectionLost, Receiver, Hello, ReceiveRequest,
         Reply, ReplyRaises, ForceReconnect, ReceiveClosed, ReceiverRaises, motion
    <3> QED
      BY <3>1, <3>2, <3>3, <3>4 DEF Next
  <2> QED
    BY <1>1, <2>1 DEF Inv, Announced
<1> QED
  BY <1>1, Invariance, PTL DEF Spec, StopsHaveStarts

-----------------------------------------------------------------------------
(* The log of the controller.                                               *)

\* As long as the process lives, what was told last is the start of the event that is
\* open or is being started, or its stop, or the start of an event whose send failed and
\* whose id the next one takes.
Logged ==
    phase # "exited" =>
        /\ started => sent.edge # "none" /\ sent.id = eventId /\ sent.type = objectType
        /\ (~started /\ sent.edge = "start") => sent.id = eventId
        /\ at[Poller] = "start" =>
               ~started /\ sent = [edge |-> "start", id |-> eventId, type |-> wanted[Poller]]
        /\ at[Poller] = "stop" => sent.edge = "stop"
        /\ (phase = "closing" /\ retry) => sent.edge = "stop"

\* A step that sends nothing leaves the poller where it was or beyond its send, and Core
\* where it is or at the end.
Silent ==
    /\ UNCHANGED <<eventId, started, objectType, wanted, sent>>
    /\ at'[Poller] = at[Poller] \/ at'[Poller] \notin {"start", "stop"}
    /\ (phase' = "closing" /\ retry') => (phase = "closing" /\ retry)
    /\ phase = "exited" => phase' = "exited"

\* What Core does when it closes a camera whose motion event is open, and what it does
\* when the stop is sent.
CoreStops ==
    /\ started /\ SendEvent("stop", objectType)
    /\ UNCHANGED <<eventId, started, objectType, wanted>>
    /\ phase = "ending"
    /\ at'[Poller] = at[Poller] \/ at'[Poller] \notin {"start", "stop"}

CoreIsDone ==
    /\ StopSent(Core) /\ phase = "closing" /\ phase' = Closed /\ retry' = retry

\* What the poller does to a motion event.
PollerSteps ==
    /\ \/ BeginStart(Poller, NoType) \/ BeginStop(Poller)
       \/ StartSent(Poller) \/ StopSent(Poller)
    /\ AdapterLives /\ UNCHANGED <<phase, retry>>

\* A step begins or ends the sending of an event, or leaves it alone.
LEMMA StepsOfMotion ==
  ASSUME Inv, Next
  PROVE  Silent \/ CoreStops \/ CoreIsDone \/ PollerSteps
<1> USE PollerIsATask
<1>1. at \in [Tasks -> {"idle", "start", "capture", "stop", "snapshot"}]
  BY DEF Inv, TypeOK, CoreTypeOK, MotionTypeOK
<1>2. ASSUME UNCHANGED motion, UNCHANGED core PROVE Silent
  BY <1>2 DEF motion, core, Silent
<1>3. ASSUME PollerRaises, AdapterLives, UNCHANGED <<eventId, started, objectType, wanted, sent>>,
             at'[Poller] = at[Poller] \/ at'[Poller] \notin {"start", "stop"}
      PROVE  Silent
  BY <1>3 DEF PollerRaises, Raises, AdapterLives, Silent
<1>4. CASE Session
  <2>1. CASE Connect
    BY <2>1 DEF Connect, Silent
  <2>2. CASE ConnectRaises
    BY <2>2 DEF ConnectRaises, motion, Silent
  <2>3. CASE ConnectionLost
    BY <2>3 DEF ConnectionLost, Silent
  <2>4. CASE Receiver
    <3>1. /\ UNCHANGED motion /\ AdapterLives
          /\ \/ UNCHANGED <<phase, retry>>
             \/ phase = "running" /\ phase' = "ending"
      BY <2>4 DEF Receiver, Hello, ReceiveRequest, Reply, ReplyRaises, ForceReconnect,
         ReceiveClosed, ReceiverRaises, Raises, motion
    <3> QED
      BY <3>1 DEF motion, Silent
  <2>5. CASE EndSession(Closed)
    <3>1. Cancelled[Poller] = at[Poller] \/ Cancelled[Poller] = "idle"
      BY DEF Cancelled
    <3>2. Cancelled \in [Tasks -> {"idle", "start", "capture", "stop", "snapshot"}]
      BY <1>1 DEF Cancelled
    <3>3. phase = "ending" /\ retry' = retry
      BY <2>5 DEF EndSession
    <3>4. CASE /\ phase' = Closed /\ at' = Cancelled
               /\ UNCHANGED <<ws, eventId, started, objectType, snapshot, wanted, sent, starts>>
      BY <3>1, <3>3, <3>4 DEF Silent, Closed
    <3>5. CASE /\ started /\ SendEvent("stop", objectType)
               /\ at' = [Cancelled EXCEPT ![Core] = "stop"]
               /\ UNCHANGED <<ws, eventId, started, objectType, snapshot, wanted>>
      <4>1. at'[Poller] = Cancelled[Poller]
        BY <3>2, <3>5
      <4> QED
        BY <3>1, <3>3, <3>5, <4>1 DEF CoreStops
    <3>6. CASE phase' = "exited" /\ UNCHANGED motion
      BY <3>3, <3>6 DEF Silent, motion
    <3> QED
      BY <2>5, <3>4, <3>5, <3>6 DEF EndSession, CloseCamera, MotionToStop
  <2>6. CASE CloseEnds(Closed)
    BY <2>6 DEF CloseEnds, CoreIsDone
  <2>7. CASE CloseRaises
    <3>1. at'[Poller] = at[Poller]
      BY <1>1, <2>7 DEF CloseRaises, SendRaises, Suspend
    <3> QED
      BY <2>7, <3>1 DEF CloseRaises, SendRaises, Silent
  <2> QED
    BY <1>4, <2>1, <2>2, <2>3, <2>4, <2>5, <2>6, <2>7 DEF Session, CloseSession, Closing
<1>5. CASE PollMotion \/ PollStill \/ PollFails
  <2>1. AdapterLives
    BY <1>5 DEF PollMotion, PollStill, PollFails, AtPoll
  <2>2. CASE (BeginStart(Poller, NoType) \/ BeginStop(Poller)) /\ UNCHANGED core
    BY <2>1, <2>2 DEF PollerSteps, core
  <2>3. CASE UNCHANGED motion /\ (UNCHANGED core \/ PollerRaises)
    BY <1>2, <1>3, <2>1, <2>3 DEF motion
  <2> QED
    BY <1>5, <2>2, <2>3 DEF PollMotion, PollStill, PollFails, NoEvent
<1>6. CASE PollerResumes
  <2>1. AdapterLives
    BY <1>6 DEF PollerResumes
  <2>2. CASE (StartSent(Poller) \/ StopSent(Poller)) /\ UNCHANGED core
    BY <2>1, <2>2 DEF PollerSteps, core
  <2>3. CASE SnapshotCaptured(Poller) /\ UNCHANGED core
    BY <1>1, <2>3 DEF SnapshotCaptured, Suspend, core, Silent
  <2>4. CASE OperationRaises(Poller) /\ PollerRaises
    BY <1>1, <1>3, <2>1, <2>4 DEF OperationRaises, SendRaises, CaptureRaises, Suspend
  <2> QED
    BY <1>6, <2>2, <2>3, <2>4 DEF PollerResumes
<1> QED
  BY <1>4, <1>5, <1>6 DEF Next

\* What was told last is known after every step.
LEMMA LoggedStays == Inv /\ Logged /\ [Next]_vars => Logged'
<1> SUFFICES ASSUME Inv, Logged, [Next]_vars, phase' # "exited" PROVE Logged'
  BY DEF Logged
<1> USE PollerIsATask
<1>1. CASE UNCHANGED vars
  BY <1>1 DEF vars, motion, core, Logged
<1>2. CASE Next
  <2>1. /\ at \in [Tasks -> {"idle", "start", "capture", "stop", "snapshot"}]
        /\ wanted \in [Tasks -> Types] /\ eventId \in Nat
    BY DEF Inv, TypeOK, CoreTypeOK, MotionTypeOK
  <2>2. CASE Silent
    BY <2>2 DEF Silent, Logged
  <2>3. CASE CoreStops
    <3>1. /\ sent' = [edge |-> "stop", id |-> eventId, type |-> objectType] /\ started
          /\ phase # "exited" /\ UNCHANGED <<eventId, started, objectType>>
      BY <2>3 DEF CoreStops, SendEvent
    <3>2. at'[Poller] # "start"
      BY <2>3, <3>1 DEF CoreStops, Logged
    <3> QED
      BY <3>1, <3>2 DEF Logged
  <2>4. CASE CoreIsDone
    <3>1. phase = "closing" /\ retry /\ phase' = "connecting"
      BY <2>4 DEF CoreIsDone, Closed
    <3>2. /\ sent.edge = "stop" /\ sent' = sent /\ ~started'
          /\ at' = [at EXCEPT ![Core] = "idle"]
      BY <2>4, <3>1 DEF CoreIsDone, StopSent, Suspend, Logged
    <3>3. at'[Poller] = "idle"
      BY <2>1, <3>1, <3>2 DEF Inv, Suspended, Settled
    <3> QED
      BY <3>1, <3>2, <3>3 DEF Logged
  <2>5. CASE PollerSteps
    <3>1. phase # "exited" /\ ~(phase' = "closing" /\ retry')
      BY <2>5 DEF PollerSteps, AdapterLives
    <3>2. CASE BeginStart(Poller, NoType)
      <4>1. /\ at'[Poller] = "start" /\ wanted'[Poller] = NoType
            /\ sent' = [edge |-> "start", id |-> eventId, type |-> NoType] /\ ~started
            /\ UNCHANGED <<eventId, started, objectType>>
        BY <2>1, <3>2 DEF BeginStart, SendEvent, Suspend
      <4> QED
        BY <3>1, <4>1 DEF Logged
    <3>3. CASE BeginStop(Poller)
      <4>1. /\ at'[Poller] = "stop" /\ started
            /\ sent' = [edge |-> "stop", id |-> eventId, type |-> objectType]
            /\ UNCHANGED <<eventId, started, objectType>>
        BY <2>1, <3>3 DEF BeginStop, SendEvent, Suspend
      <4> QED
        BY <4>1 DEF Logged
    <3>4. CASE StartSent(Poller)
      <4>1. /\ at[Poller] = "start" /\ started' /\ objectType' = wanted[Poller]
            /\ at'[Poller] = "capture" /\ UNCHANGED <<eventId, sent>>
        BY <2>1, <3>4 DEF StartSent, Suspend
      <4>2. sent = [edge |-> "start", id |-> eventId, type |-> wanted[Poller]]
        BY <3>1, <4>1 DEF Logged
      <4> QED
        BY <3>1, <4>1, <4>2 DEF Logged
    <3>5. CASE StopSent(Poller)
      <4>1. at[Poller] = "stop" /\ ~started' /\ at'[Poller] = "idle" /\ sent' = sent
        BY <2>1, <3>5 DEF StopSent, Suspend
      <4>2. sent.edge = "stop"
        BY <3>1, <4>1 DEF Logged
      <4> QED
        BY <4>1, <4>2 DEF Logged
    <3> QED
      BY <2>5, <3>2, <3>3, <3>4, <3>5 DEF PollerSteps
  <2> QED
    BY <1>2, <2>2, <2>3, <2>4, <2>5, StepsOfMotion
<1> QED
  BY <1>1, <1>2

\* What a step does to the log: the beginning of an event, its end, or the end of the
\* call that tells of the beginning, which uses up the id.
LEMMA LogSteps ==
  ASSUME Inv, Logged, Next
  PROVE  \/ \E type \in Types : Log!Start(type) \/ Log!Stop(type)
         \/ Log!Begun
         \/ UNCHANGED <<sent, NextId>>
<1>1. /\ eventId \in Nat /\ started \in BOOLEAN /\ objectType \in Types
      /\ NoType \in Types
  BY DEF Inv, TypeOK, CoreTypeOK, MotionTypeOK, Types
<1>2. CASE Silent
  BY <1>2 DEF Silent, NextId
<1>3. ASSUME BeginStart(Poller, NoType), phase # "exited" PROVE Log!Start(NoType)
  <2>1. /\ ~started /\ sent' = [edge |-> "start", id |-> eventId, type |-> NoType]
        /\ UNCHANGED <<eventId, started>>
    BY <1>3 DEF BeginStart, SendEvent
  <2>2. NextId = eventId /\ NextId' = NextId
    BY <2>1 DEF NextId
  <2>3. sent.edge # "start" \/ sent.id = eventId
    BY <1>3, <2>1 DEF Logged
  <2> QED
    BY <2>1, <2>2, <2>3 DEF Log!Start
<1>4. ASSUME started, SendEvent("stop", objectType), UNCHANGED <<eventId, started>>,
             phase # "exited"
      PROVE  Log!Stop(objectType)
  <2>1. sent' = [edge |-> "stop", id |-> eventId, type |-> objectType]
    BY <1>4 DEF SendEvent
  <2>2. NextId = eventId + 1 /\ NextId' = NextId
    BY <1>4 DEF NextId
  <2>3. NextId > 0 /\ NextId - 1 = eventId
    BY <1>1, <2>2
  <2>4. sent.edge # "none" /\ sent.id = eventId /\ sent.type = objectType
    BY <1>4 DEF Logged
  <2> QED
    BY <2>1, <2>2, <2>3, <2>4 DEF Log!Stop
<1>5. ASSUME NEW t \in Tasks, StartSent(t) PROVE Log!Begun \/ UNCHANGED <<sent, NextId>>
  <2>1. started' = TRUE /\ UNCHANGED <<eventId, sent>>
    BY <1>5 DEF StartSent
  <2>2. NextId' = eventId + 1
    BY <2>1 DEF NextId
  <2> QED
    BY <2>1, <2>2 DEF NextId, Log!Begun
<1>6. ASSUME NEW t \in Tasks, StopSent(t) PROVE Log!Begun \/ UNCHANGED <<sent, NextId>>
  <2>1. started' = FALSE /\ eventId' = eventId + 1 /\ sent' = sent
    BY <1>6 DEF StopSent
  <2>2. NextId' = eventId + 1
    BY <2>1 DEF NextId
  <2> QED
    BY <2>1, <2>2 DEF NextId, Log!Begun
<1>7. CASE CoreStops
  BY <1>1, <1>4, <1>7 DEF CoreStops
<1>8. CASE CoreIsDone
  BY <1>6, <1>8, PollerIsATask DEF CoreIsDone
<1>9. CASE PollerSteps
  <2>1. phase # "exited"
    BY <1>9 DEF PollerSteps, AdapterLives
  <2>2. CASE BeginStop(Poller)
    BY <1>1, <1>4, <2>1, <2>2 DEF BeginStop
  <2>3. CASE BeginStart(Poller, NoType)
    BY <1>1, <1>3, <2>1, <2>3
  <2> QED
    BY <1>5, <1>6, <1>9, <2>2, <2>3, PollerIsATask DEF PollerSteps
<1> QED
  BY <1>2, <1>7, <1>8, <1>9, StepsOfMotion

\* However sessions are lost while the poller is in the middle of a call, the events
\* that the controller is told of are those of EventLog, and no behaviour is a careless
\* one: one poller cannot cross itself.
THEOREM ReolinkKeepsTheLog == Spec => KeepsTheLog
<1>1. Init => Logged /\ Log!Init
  BY PollerIsATask DEF Init, MotionInit, CoreInit, Nothing, Logged, Log!Init, NextId
<1>2. ASSUME Inv, Logged, [Next]_vars PROVE [Log!Next]_(Log!vars)
  <2>1. CASE Next
    BY <1>2, <2>1, LogSteps DEF Log!Next
  <2>2. CASE UNCHANGED vars
    BY <2>2 DEF vars, motion, NextId, Log!vars
  <2> QED
    BY <1>2, <2>1, <2>2
<1> QED
  BY <1>1, <1>2, LoggedStays, Invariance, PTL DEF Spec, KeepsTheLog, Log!Spec

-----------------------------------------------------------------------------
(* The end of motion: what EndedMotionIsStopped needs besides fairness.     *)

\* Motion that was reported as over is open on the controller, or its session ends.
Unstopped == started /\ phase # "exited" /\ (phase = "running" => ~inProgress)

\* How many steps the session is from closing the event at most.
StepsToClose ==
    [running |-> 3, ending |-> 2, closing |-> 1, connecting |-> 0, exited |-> 0][phase]

\* The task that takes the next of them: the poller that is sending the stop, or Core
\* once it closes the camera.
Stopper == IF phase = "running" THEN PollerResumes ELSE CloseSession

StopperIsThere ==
    \/ phase = "running" /\ polling /\ at[Poller] = "stop"
    \/ phase = "ending"
    \/ phase = "closing" /\ at[Core] = "stop"

\* A session that runs has its poller, which waits for nothing else.
Polled == (phase = "running" => polling) /\ at[Poller] # "snapshot" /\ phase # "cleanup"

LEMMA PolledStays == Inv /\ Polled /\ [Next]_vars => Polled'
<1> SUFFICES ASSUME Inv, Polled, Next PROVE Polled'
  BY DEF Polled, vars, core, motion
<1> USE PollerIsATask DEF Inv, TypeOK, CoreTypeOK, MotionTypeOK, Polled
<1>1. CASE Session
  <2>1. CASE Connect \/ ConnectRaises \/ Receiver \/ ConnectionLost
    BY <1>1, <2>1
       DEF Session, Connect, ConnectRaises, Receiver, Hello, ReceiveRequest, Reply,
           ReplyRaises, ForceReconnect, ReceiveClosed, ReceiverRaises, Raises,
           ConnectionLost, CloseSession, Closing, EndSession, CloseEnds, CloseRaises, motion
  <2>2. CASE CloseSession
    <3>1. at'[Poller] \in {at[Poller], "idle"}
      BY <2>2 DEF CloseSession, Closing, EndSession, CloseCamera, CloseEnds, CloseRaises,
         StopSent, SendRaises, Suspend, Cancelled, motion
    <3>2. phase' \in {"closing", "connecting", "exited"}
      BY <2>2 DEF CloseSession, Closing, EndSession, CloseCamera, CloseEnds, CloseRaises, Closed
    <3> QED
      BY <3>1, <3>2
  <2> QED
    BY <1>1, <2>1, <2>2 DEF Session
<1>2. CASE PollMotion \/ PollStill \/ PollFails
  BY <1>2 DEF PollMotion, PollStill, PollFails, PollerRaises, Raises, BeginStart, BeginStop,
     NoEvent, Suspend, motion, core
<1>3. CASE PollerResumes
  BY <1>3 DEF PollerResumes, PollerRaises, Raises, StartSent, SnapshotCaptured, StopSent,
     OperationRaises, SendRaises, CaptureRaises, Suspend, core
<1> QED
  BY <1>1, <1>2, <1>3 DEF Next

LEMMA AStopperIsThere == Inv /\ Polled /\ Unstopped => StopperIsThere
BY PollerIsATask
   DEF Inv, TypeOK, CoreTypeOK, MotionTypeOK, Suspended, Settled, Owned, Polled, Unstopped,
       StopperIsThere

\* While the event is open the session only comes closer to closing it.
LEMMA StopperAdvances ==
  ASSUME Inv, Polled, Unstopped, Next, started', phase' # "exited"
  PROVE  /\ Unstopped' /\ StepsToClose' <= StepsToClose
         /\ Stopper => StepsToClose' < StepsToClose
<1> USE PollerIsATask DEF Inv, TypeOK, CoreTypeOK
<1>0. StopperIsThere
  BY AStopperIsThere
<1>1. CASE phase = "running"
  <2>1. at[Poller] = "stop" /\ polling /\ ~inProgress
    BY <1>0, <1>1 DEF StopperIsThere, Unstopped
  <2>2. phase' \in {"running", "ending"} /\ inProgress' = inProgress
    BY <1>1, <2>1 DEF Next, Session, Connect, ConnectRaises, Receiver, Hello, ReceiveRequest,
       Reply, ReplyRaises, ForceReconnect, ReceiveClosed, ReceiverRaises, Raises,
       ConnectionLost, CloseSession, Closing, EndSession, CloseEnds, CloseRaises, PollMotion,
       PollStill, PollFails, AtPoll, PollerResumes, PollerRaises, core
  <2>3. PollerResumes => phase' = "ending"
    BY <1>1, <2>1 DEF PollerResumes, StartSent, SnapshotCaptured, StopSent, OperationRaises,
       SendRaises, CaptureRaises, PollerRaises, Raises
  <2> QED
    BY <1>1, <2>1, <2>2, <2>3 DEF Unstopped, StepsToClose, Stopper
<1>2. CASE phase \in {"ending", "closing"}
  <2>1. CASE CloseSession
    <3>1. phase = "ending" /\ phase' = "closing"
      BY <1>2, <2>1 DEF CloseSession, Closing, EndSession, CloseCamera, MotionToStop, CloseEnds,
         CloseRaises, StopSent, Unstopped
    <3> QED
      BY <3>1 DEF Unstopped, StepsToClose, Stopper
  <2>2. CASE ~CloseSession
    <3>1. phase' = phase
      BY <1>2, <2>2 DEF Next, Session, Connect, ConnectRaises, Receiver, Hello, ReceiveRequest,
       Reply, ReplyRaises, ForceReconnect, ReceiveClosed, ReceiverRaises, Raises,
       ConnectionLost, PollMotion, PollStill, PollFails, PollerResumes, PollerRaises, core
    <3> QED
      BY <1>2, <2>2, <3>1 DEF Unstopped, StepsToClose, Stopper
  <2> QED
    BY <2>1, <2>2
<1> QED
  BY <1>0, <1>1, <1>2 DEF StopperIsThere

\* Motion that has ended is stopped after at most three steps of the tasks that stop it:
\* there is always one that can take the next, and whatever the camera, the connection
\* and the controller do in between leaves no more of them, until the event is closed or
\* the process has ended.  This is EndedMotionIsStopped but for the fairness of the event
\* loop (reolink.py:87-112, core.py, base.py:209-250).
EndedMotionAdvances ==
    /\ [](Unstopped => StopperIsThere)
    /\ [][(Unstopped /\ started' /\ phase' # "exited") =>
              /\ Unstopped' /\ StepsToClose' <= StepsToClose
              /\ Stopper => StepsToClose' < StepsToClose]_vars

\* Motion that has ended is stopped if the tasks that stop it are scheduled.
THEOREM EndedMotionComesToAStop == Spec => EndedMotionAdvances
<1> DEFINE Step == (Unstopped /\ started' /\ phase' # "exited") =>
                       /\ Unstopped' /\ StepsToClose' <= StepsToClose
                       /\ Stopper => StepsToClose' < StepsToClose
<1>1. Init => Polled
  BY PollerIsATask DEF Init, MotionInit, CoreInit, Polled
<1>2. Inv /\ Polled => (Unstopped => StopperIsThere)
  BY AStopperIsThere
<1>3. Inv /\ Polled /\ [Next]_vars => [Step]_vars
  BY StopperAdvances
<1> QED
  BY <1>1, <1>2, <1>3, PolledStays, Invariance, PTL DEF Spec, EndedMotionAdvances
=============================================================================
