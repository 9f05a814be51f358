----------------------------- MODULE CameraCore -----------------------------
(***************************************************************************)
(* The session of unifi-cam-proxy with the UniFi controller: the reconnect *)
(* loop of Core.run (unifi/core.py) and the receiver UnifiCamBase._run     *)
(* (unifi/cams/base.py).                                                   *)
(*                                                                         *)
(* Two tasks run under one gather: the receiver and the camera adapter's   *)
(* run().  The first exception of either ends the session.  A              *)
(* RetryableError makes Core cancel what still runs and connect again      *)
(* after cam.close(); any other exception leaves the other task running    *)
(* during cam.close() and then ends the process.                           *)
(*                                                                         *)
(* The variables of the adapter are not known here: the adapter's module   *)
(* adds what each of these actions does to them.                           *)
(***************************************************************************)
EXTENDS MotionEvents

CONSTANT Children   \* the tasks that a session starts and a RetryableError cancels

ASSUME CoreAssumption == Children \subseteq Tasks \ {Core}

VARIABLES
    phase,     \* where Core.run is
    receiver,  \* where _run is
    retry,     \* the session ended with a RetryableError
    clean      \* the controller closed the websocket with a closing handshake

core == <<phase, receiver, retry, clean>>

CoreInit ==
    /\ phase = "connecting"
    /\ receiver = "ended"
    /\ retry = FALSE
    /\ clean = FALSE

\* The adapter's tasks may run: they were started, and neither cancelled nor lost.
AdapterLives == phase = "running" \/ (phase \in {"ending", "closing", "cleanup"} /\ ~retry)

\* websockets.connect succeeds; a refusal, a timeout or a 429 changes nothing but the
\* time until the next try.
Connect ==
    /\ phase = "connecting"
    /\ phase' = "running"
    /\ ws' = "open"
    /\ receiver' = "hello"
    /\ retry' = FALSE
    /\ clean' = FALSE
    /\ UNCHANGED <<eventId, started, objectType, snapshot, at, wanted, sent, starts>>

\* Another status (403), a name that does not resolve, a TLS error.
ConnectRaises ==
    /\ phase = "connecting"
    /\ phase' = "exited"
    /\ UNCHANGED <<motion, receiver, retry, clean>>

\* One of the two tasks ends with an exception, of which gather passes on the first.
Raises(retryable) ==
    IF phase = "running"
    THEN phase' = "ending" /\ retry' = retryable
    ELSE UNCHANGED <<phase, retry>>

ReceiverRaises(retryable) ==
    /\ Raises(retryable)
    /\ receiver' = "ended"
    /\ UNCHANGED <<motion, clean>>

\* init_adoption: the hello is sent.
Hello ==
    /\ receiver = "hello"
    /\ IF ws = "open"
       THEN receiver' = "recv" /\ UNCHANGED <<motion, phase, retry, clean>>
       ELSE ReceiverRaises(FALSE)

\* A message that process handles, with awaits in its handler and a reply at the end.
\* A message that arrived before the connection was lost is still received.
ReceiveRequest ==
    /\ receiver = "recv"
    /\ receiver' = "reply"
    /\ UNCHANGED <<motion, phase, retry, clean>>

\* The reply is sent, or the request expected none.
Reply ==
    /\ receiver = "reply"
    /\ receiver' = "recv"
    /\ UNCHANGED <<motion, phase, retry, clean>>

\* The reply finds the websocket closed, or the handler's own transfer fails.
ReplyRaises ==
    /\ receiver = "reply"
    /\ ReceiverRaises(FALSE)

\* Reboot and UpdateFirmwareRequest: force_reconnect.
ForceReconnect ==
    /\ receiver = "recv"
    /\ ReceiverRaises(TRUE)

\* recv on a lost connection: only ConnectionClosedError is caught, and made retryable.
ReceiveClosed ==
    /\ receiver = "recv" /\ ws = "closed"
    /\ ReceiverRaises(~clean)

\* The connection is lost, or closed by the controller.
ConnectionLost ==
    /\ ws = "open" /\ phase # "exited"
    /\ ws' = "closed"
    /\ clean' \in BOOLEAN
    /\ UNCHANGED <<eventId, started, objectType, snapshot, at, wanted, sent, starts,
                   phase, receiver, retry>>

\* What follows cam.close().
Closed == IF retry THEN "connecting" ELSE "exited"

\* The awaits of the session's tasks end when they are cancelled.
Cancelled == [t \in Tasks |-> IF retry /\ t \in Children THEN "idle" ELSE at[t]]

\* MUTANT: close() leaves the motion event alone.
CloseQuietly(next) ==
    /\ phase' = next
    /\ at' = Cancelled
    /\ UNCHANGED <<ws, eventId, started, objectType, snapshot, wanted, sent, starts>>

\* A motion event is open, which trigger_motion_stop asks first.
MotionToStop == started

\* close() of the base class: a motion event that is open is stopped first, which
\* raises, in place of what Core was returning or raising, when the websocket is closed.
\* "next" is what comes after it: Closed, or the rest of an adapter's own close().
CloseCamera(next) ==
    \/ /\ ~MotionToStop
       /\ phase' = next
       /\ at' = Cancelled
       /\ UNCHANGED <<ws, eventId, started, objectType, snapshot, wanted, sent, starts>>
    \/ /\ MotionToStop /\ ws = "open"
       /\ phase' = "closing"
       /\ SendEvent("stop", objectType)
       /\ at' = [Cancelled EXCEPT ![Core] = "stop"]
       /\ UNCHANGED <<ws, eventId, started, objectType, snapshot, wanted>>
    \/ /\ MotionToStop /\ ws = "closed"
       /\ phase' = "exited"
       /\ UNCHANGED motion

\* Core resumes from gather: with a RetryableError it cancels the tasks that are left
\* and then runs the finally.
EndSession(next) ==
    /\ phase = "ending"
    /\ CloseCamera(next)
    /\ receiver' = IF retry THEN "ended" ELSE receiver
    /\ UNCHANGED <<retry, clean>>

CloseEnds(next) ==
    /\ phase = "closing"
    /\ StopSent(Core)
    /\ phase' = next
    /\ UNCHANGED <<receiver, retry, clean>>

CloseRaises ==
    /\ phase = "closing"
    /\ SendRaises(Core)
    /\ phase' = "exited"
    /\ UNCHANGED <<receiver, retry, clean>>

\* The receiver runs as long as its session does.
Receiver ==
    /\ AdapterLives
    /\ \/ Hello \/ ReceiveRequest \/ Reply \/ ReplyRaises
       \/ ForceReconnect \/ ReceiveClosed

Closing(next) == EndSession(next) \/ CloseEnds(next) \/ CloseRaises

CoreTypeOK ==
    /\ MotionTypeOK
    /\ phase \in {"connecting", "running", "ending", "closing", "cleanup", "exited"}
    /\ receiver \in {"hello", "recv", "reply", "ended"}
    /\ retry \in BOOLEAN /\ clean \in BOOLEAN
=============================================================================
