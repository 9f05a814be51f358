------------------------------- MODULE DahuaCam -------------------------------
(***************************************************************************)
(* The Dahua adapter (cams/dahua.py): one task of the session reads the    *)
(* camera's events and passes each on to the motion operations.            *)
(***************************************************************************)
EXTENDS VideoStreams

CONSTANT Watcher   \* the task of run()

ASSUME DahuaAssumption == Watcher \in Children

VARIABLE watching   \* the task of run() is alive

AtEvent == watching /\ at[Watcher] = "idle" /\ AdapterLives

\* Only errors of the camera are caught, not those of the websocket or the disk.
WatcherRaises ==
    /\ Raises(FALSE)
    /\ watching' = FALSE
    /\ UNCHANGED <<receiver, clean>>

\* Start and Stop of any of the three event codes, for the index that is watched.  A
\* Start during motion and a Stop without motion do nothing.
CameraStarts(type) ==
    /\ AtEvent
    /\ \/ BeginStart(Watcher, type) /\ UNCHANGED <<core, watching>>
       \/ ~started /\ ws = "closed" /\ NoEvent /\ WatcherRaises
    /\ UNCHANGED streams

CameraStops ==
    /\ AtEvent
    /\ \/ BeginStop(Watcher) /\ UNCHANGED <<core, watching>>
       \/ started /\ ws = "closed" /\ NoEvent /\ WatcherRaises
    /\ UNCHANGED streams

WatcherResumes ==
    /\ watching /\ AdapterLives
    /\ \/ /\ StartSent(Watcher) \/ SnapshotCaptured(Watcher) \/ StopSent(Watcher)
          /\ UNCHANGED <<core, watching>>
       \/ OperationRaises(Watcher) /\ WatcherRaises
    /\ UNCHANGED streams

\* An event of another shape than run() expects: an index that is no number.
EventRaises ==
    /\ AtEvent
    /\ WatcherRaises
    /\ NoEvent /\ UNCHANGED streams

\* get_stream_source: the camera does not tell its URL.
SourceRaises ==
    /\ AdapterLives /\ spawning # NoStream
    /\ RequestRaises(TRUE)
    /\ UNCHANGED watching

DahuaClose ==
    /\ CloseStreams(Closed)
    /\ watching' = (watching /\ ~(phase = "ending" /\ retry))
=============================================================================
