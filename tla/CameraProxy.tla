----------------------------- MODULE CameraProxy -----------------------------
(***************************************************************************)
(* unifi-cam-proxy as main.py starts it: one camera implementation, its    *)
(* video streams and the session with the controller, as tasks of one      *)
(* event loop.  Here the implementation is one of those that keep no       *)
(* motion state of their own: rtsp (and tapo, whose motion code is the     *)
(* same) or dahua (with its other names).  The filter in a pipeline is a   *)
(* process of the same package that shares nothing with the camera's: a    *)
(* behaviour is that of one of the three programs.                         *)
(***************************************************************************)
EXTENDS RtspCam, DahuaCam, ClockSync

CONSTANT StartTime   \* what the wall clock shows when the filter starts

ASSUME ProxyAssumption == StartTime \in Times

VARIABLES
    program,    \* args.impl of main.py, or "clock_sync"
    stopped,    \* history: the ids of all stops that were sent
    overlapped  \* history: an event was sent while another was being sent

vars == <<motion, core, streams, serving, watching, program, stopped, overlapped, clockSync>>

Cams == {"rtsp", "dahua"}

NoFilter == [pos |-> 0, start |-> StartTime, last |-> StartTime, now |-> StartTime,
             out |-> <<>>, running |-> FALSE]

Init ==
    /\ MotionInit /\ CoreInit /\ StreamsInit
    /\ serving = FALSE
    /\ watching = FALSE
    /\ program \in Cams \cup {"clock_sync"}
    /\ stopped = {}
    /\ overlapped = FALSE
    /\ IF program = "clock_sync" THEN FilterStarts(StartTime)
       ELSE input = [tags |-> <<>>, cut |-> 0] /\ filter = NoFilter

Sending(t) == at[t] \in {"start", "stop"}

\* What the histories record of a step, in which at most one task sends.
History ==
    LET senders == { t \in Tasks : ~Sending(t) /\ at'[t] \in {"start", "stop"} }
    IN  /\ stopped' = IF \E t \in senders : at'[t] = "stop" THEN stopped \cup {eventId} ELSE stopped
        /\ overlapped' = (overlapped \/ (senders # {} /\ \E t \in Tasks : Sending(t)))
        /\ UNCHANGED <<program, clockSync>>

\* Only rtsp asks the camera for its dimensions: dahua has those of the base class.
MayProbe == probing' => program = "rtsp"

Session ==
    /\ program \in Cams
    /\ \/ Connect /\ watching' = (program = "dahua") /\ UNCHANGED <<streams, serving>>
       \/ ConnectRaises /\ Kill(Streams)
          /\ UNCHANGED <<todo, spawning, probing, serving, watching>>
       \/ StreamReceiver /\ MayProbe /\ UNCHANGED <<serving, watching>>

\* What happens while the event loop waits for ffprobe, too.
Outside ==
    /\ program \in Cams
    /\ \/ ConnectionLost /\ UNCHANGED streams
       \/ \E k \in Streams : ShellEnds(k) \/ LooseEnd(k)
       \/ ProbeEnds
    /\ UNCHANGED <<serving, watching>>

Rtsp ==
    /\ program = "rtsp"
    /\ \/ ServerStarts \/ ServerFails
       \/ \E c \in Callers : StartMotion(c) \/ StopMotion(c) \/ CallResumes(c)
    /\ UNCHANGED watching

Dahua ==
    /\ program = "dahua"
    /\ \/ (\E type \in Types : CameraStarts(type)) \/ CameraStops \/ WatcherResumes
       \/ EventRaises \/ SourceRaises
    /\ UNCHANGED serving

Closes ==
    \/ program = "rtsp" /\ (RtspClose \/ CleanupEnds) /\ UNCHANGED watching
    \/ program = "dahua" /\ DahuaClose /\ UNCHANGED serving

Filter ==
    /\ program = "clock_sync"
    /\ FilterStep
    /\ UNCHANGED <<motion, core, streams, serving, watching, program, stopped, overlapped>>

\* The tasks of the camera's event loop, which runs none of them during an ffprobe.
Loop == ~probing /\ (Session \/ Rtsp \/ Dahua \/ Closes)

Next == ((Loop \/ Outside) /\ History) \/ Filter

Spec == Init /\ [][Next]_vars

\* The event loop runs every task that can go on, those that are ready first come first
\* served: Core goes on although probe follows probe.  A suspended send ends with the
\* keepalive of the websocket, runner.cleanup() with its timeout, and the awaits of a
\* request with those of the HTTP client and the camera's library.  Nothing ends an
\* ffprobe, so it is not said to end.
FairSpec ==
    /\ Spec
    /\ SF_vars(~probing /\ Closes /\ History)
    /\ WF_vars(~probing /\ Answer /\ UNCHANGED <<serving, watching>> /\ History)

-----------------------------------------------------------------------------
(* Properties.                                                              *)

TypeOK ==
    /\ StreamsTypeOK
    /\ serving \in BOOLEAN /\ watching \in BOOLEAN /\ program \in Cams \cup {"clock_sync"}
    /\ stopped \subseteq Nat /\ overlapped \in BOOLEAN

\* However requests overlap, fail or are cancelled, no motion event is started under an
\* id that the controller has been sent a stop for.
IdsAreFresh ==
    [][(sent' # sent /\ sent'.edge = "start") => sent'.id \notin stopped]_vars

\* Unless two events were being sent at once, no stop reaches the controller for an
\* event that was never started under the same id and object type.
StopsHaveStarts ==
    [][(sent' # sent /\ sent'.edge = "stop" /\ ~overlapped') =>
           <<sent'.id, sent'.type>> \in starts]_vars

\* Between two sessions, and after the last, no handler of a request is in the middle of
\* a motion operation, and no pipeline runs with a shell that was not killed: not even
\* one that was started while the session was being closed.
NothingOutlivesItsSession ==
    /\ phase = "connecting" => \A t \in Tasks : at[t] = "idle"
    /\ phase \in {"connecting", "exited"} => \A k \in Streams : handle[k] # "running"

\* Processes lose their shell only by being stopped, never because a second pipeline was
\* started for a stream whose first one still ran.
NoPipelineIsForgotten ==
    [][\A k \in Streams : (loose'[k] /\ ~loose[k]) =>
           (handle[k] = "running" /\ handle'[k] = "killed")]_vars

\* A session that has ended is followed by the next or by the end of the process,
\* whatever the requests that are still being handled are waiting for, unless the whole
\* event loop waits for an ffprobe that does not end.
SessionsEnd ==
    (phase \in {"ending", "closing", "cleanup"}) ~>
        (phase \in {"connecting", "exited"} \/ []probing)

\* Every request of the controller is answered, or its session ends: no stream that
\* runs, is being killed or cannot be started holds up the receiver.  What can is the
\* probe of the rtsp adapter alone, which has no timeout.
RequestsAreAnswered ==
    (receiver = "reply") ~> (receiver # "reply" \/ phase = "exited" \/ []probing)

\* The log that the controller sees of this camera.
Log == INSTANCE EventLog WITH nextId <- NextId, careless <- overlapped

\* However requests overlap, sessions end and calls are cancelled, the controller is told
\* of motion events as EventLog says, until an event was sent while another was being
\* sent: two requests may then start or stop one event twice.
KeepsTheLog == Log!Spec
=============================================================================
