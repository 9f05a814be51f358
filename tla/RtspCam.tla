------------------------------- MODULE RtspCam -------------------------------
(***************************************************************************)
(* The RTSP and Tapo adapters (cams/rtsp.py, cams/tapo.py): motion is      *)
(* started and stopped by HTTP requests, each a task of the HTTP server    *)
(* that the session neither waits for nor cancels.  An exception of such a *)
(* task is its request's answer and ends nothing else.                     *)
(***************************************************************************)
EXTENDS VideoStreams

CONSTANT Callers   \* the HTTP requests that can be handled at once

ASSUME RtspAssumption == Callers \subseteq Tasks \ ({Core} \cup Children)

VARIABLE serving   \* the HTTP server accepts requests

\* run() sets the server up and returns; a port that is taken raises.
ServerStarts ==
    /\ AdapterLives /\ ~serving
    /\ serving' = TRUE
    /\ UNCHANGED <<motion, core, streams>>

ServerFails ==
    /\ AdapterLives /\ ~serving
    /\ Raises(FALSE)
    /\ UNCHANGED <<motion, receiver, clean, streams, serving>>

\* A request to start or to stop motion.  One that finds nothing to do is answered at
\* once, and so is one that finds the websocket closed, with an error.
StartMotion(c) ==
    /\ serving /\ at[c] = "idle" /\ phase # "exited"
    /\ BeginStart(c, NoType)
    /\ UNCHANGED <<core, streams, serving>>

StopMotion(c) ==
    /\ serving /\ at[c] = "idle" /\ phase # "exited"
    /\ BeginStop(c)
    /\ UNCHANGED <<core, streams, serving>>

\* The awaits of a request end.
CallResumes(c) ==
    /\ phase # "exited"
    /\ StartSent(c) \/ SnapshotCaptured(c) \/ StopSent(c) \/ OperationRaises(c)
    /\ UNCHANGED <<core, streams, serving>>

\* close() up to runner.cleanup(), which first stops accepting requests.
RtspClose ==
    /\ CloseStreams("cleanup")
    /\ serving' = (serving /\ phase' # "cleanup")

\* MUTANT: cleanup() waits for its requests without a timeout.
CleanupWaits ==
    /\ phase = "cleanup"
    /\ \A c \in Callers : at[c] = "idle"
    /\ phase' = Closed
    /\ IF retry THEN UNCHANGED <<handle, loose>> ELSE Kill(Streams)
    /\ UNCHANGED <<motion, receiver, retry, clean, todo, spawning, probing, serving>>

\* cleanup() returns: requests that are still being handled after a timeout are
\* cancelled.  atexit follows when Core ends.
CleanupEnds ==
    /\ phase = "cleanup"
    /\ phase' = Closed
    /\ at' = [t \in Tasks |-> IF t \in Callers THEN "idle" ELSE at[t]]
    /\ IF retry THEN UNCHANGED <<handle, loose>> ELSE Kill(Streams)
    /\ UNCHANGED <<ws, eventId, started, objectType, snapshot, wanted, sent, starts,
                   receiver, retry, clean, todo, spawning, probing, serving>>
=============================================================================
