---------------------------- MODULE ReolinkMotion ----------------------------
(***************************************************************************)
(* The Reolink adapters (cams/reolink.py and cams/reolink_nvr.py): one     *)
(* task polls the camera's motion state and calls the motion operations    *)
(* when it changes, under the sessions of CameraCore.                      *)
(***************************************************************************)
EXTENDS CameraCore

CONSTANT Poller   \* the task of run()

ASSUME ReolinkAssumption == Children = {Poller}

VARIABLES
    polling,      \* the task of run() is alive
    inProgress    \* motion_in_progress, which no reconnect resets

vars == <<motion, core, polling, inProgress>>

Init ==
    /\ MotionInit /\ CoreInit
    /\ polling = FALSE
    /\ inProgress = FALSE

AtPoll == polling /\ at[Poller] = "idle" /\ AdapterLives

\* What one of the operations raises, nothing in run() catches.
PollerRaises ==
    /\ Raises(FALSE)
    /\ polling' = FALSE
    /\ UNCHANGED <<receiver, clean>>

\* The camera reports motion for the first time.
PollMotion ==
    /\ AtPoll /\ ~inProgress
    /\ inProgress' = TRUE
    /\ \/ BeginStart(Poller, NoType) /\ UNCHANGED <<core, polling>>
       \/ started /\ NoEvent /\ UNCHANGED <<core, polling>>
       \/ ~started /\ ws = "closed" /\ NoEvent /\ PollerRaises

\* MUTANT: the flag is reset without a call.
PollStillForgets ==
    /\ AtPoll /\ inProgress
    /\ inProgress' = FALSE
    /\ NoEvent /\ UNCHANGED <<core, polling>>

\* The camera reports no motion any more.
PollStill ==
    /\ AtPoll /\ inProgress
    /\ inProgress' = FALSE
    /\ \/ BeginStop(Poller) /\ UNCHANGED <<core, polling>>
       \/ ~started /\ NoEvent /\ UNCHANGED <<core, polling>>
       \/ started /\ ws = "closed" /\ NoEvent /\ PollerRaises

\* An answer of another shape than the code expects: only JSONDecodeError and
\* ClientError are caught, and those change nothing.
PollFails ==
    /\ AtPoll
    /\ PollerRaises
    /\ NoEvent /\ UNCHANGED inProgress

\* The awaits of the two operations end.
PollerResumes ==
    /\ polling /\ AdapterLives
    /\ \/ /\ StartSent(Poller) \/ SnapshotCaptured(Poller) \/ StopSent(Poller)
          /\ UNCHANGED <<core, polling, inProgress>>
       \/ OperationRaises(Poller) /\ PollerRaises /\ UNCHANGED inProgress

\* A retryable end of the session cancels the task.
CloseSession ==
    /\ Closing(Closed)
    /\ polling' = IF phase = "ending" THEN polling /\ ~retry ELSE polling
    /\ UNCHANGED inProgress

\* A new session starts the task again.
Session ==
    \/ Connect /\ polling' = TRUE /\ UNCHANGED inProgress
    \/ ConnectRaises /\ UNCHANGED <<polling, inProgress>>
    \/ Receiver /\ UNCHANGED <<polling, inProgress>>
    \/ ConnectionLost /\ UNCHANGED <<polling, inProgress>>
    \/ CloseSession

Next == Session \/ PollMotion \/ PollStill \/ PollFails \/ PollerResumes

Spec == Init /\ [][Next]_vars

\* The event loop runs every task that can go on; a suspended send ends, at the latest
\* when the websocket's keepalive closes the connection.
FairSpec ==
    /\ Spec
    /\ WF_vars(CloseSession)
    /\ WF_vars(PollerResumes)

-----------------------------------------------------------------------------
(* Properties.                                                              *)

TypeOK ==
    /\ CoreTypeOK
    /\ polling \in BOOLEAN /\ inProgress \in BOOLEAN

\* No stop reaches the controller for an event that was never started under the same
\* id and object type, whatever the session did between the two.
StopsHaveStarts ==
    [][(sent' # sent /\ sent'.edge = "stop") => <<sent'.id, sent'.type>> \in starts]_vars

\* A session begins with no motion event left open from the one before and no call
\* into it suspended: what could not be closed has ended the process.
SessionsStartStill ==
    phase = "connecting" => ~started /\ \A t \in Tasks : at[t] = "idle"

\* While a session runs, a motion event that is open has a poller that knows of it and
\* will stop it: no cancelled call and no reconnect leaves one that nobody ends.
OpenEventsAreOwned ==
    (phase = "running" /\ polling /\ at[Poller] = "idle" /\ started) => inProgress

\* Motion that the camera no longer reports is stopped on the controller, or the process
\* ends: also when the session ends while the stop is being sent.
EndedMotionIsStopped == (started /\ ~inProgress) ~> (~started \/ phase = "exited")

\* The log that the controller sees of this camera.
Log == INSTANCE EventLog WITH nextId <- NextId, careless <- FALSE

\* Whatever the session does to the poller's calls, the controller is told of motion
\* events as EventLog says: no event begins before the one told last was stopped, and a
\* stop is that event's.  trigger_motion_start uses an id up when its send returns.
KeepsTheLog == Log!Spec
=============================================================================
