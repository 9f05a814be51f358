----------------------------- MODULE VideoStreams -----------------------------
(***************************************************************************)
(* The video streams of unifi-cam-proxy (unifi/cams/base.py): a pipeline   *)
(* "ffmpeg | clock_sync | nc" in a shell for each stream, started and      *)
(* stopped by the controller's ChangeVideoSettings, in the sessions of     *)
(* CameraCore.                                                             *)
(*                                                                         *)
(* The shell is what _ffmpeg_handles holds: kill() ends the shell and not  *)
(* the three processes of the pipeline, which go on until their input or   *)
(* their connection ends.                                                  *)
(*                                                                         *)
(* A request is cut at every stream and at the await of its source, also   *)
(* for the adapters whose source needs no waiting: for those the model has *)
(* more interleavings than the code.                                       *)
(***************************************************************************)
EXTENDS CameraCore

CONSTANTS
    Streams,    \* video1, video2, video3
    NoStream    \* no stream is being started

ASSUME StreamAssumption == NoStream \notin Streams

VARIABLES
    handle,    \* _ffmpeg_handles: "none", "running", "killed" (not yet dead) or "ended"
    loose,     \* processes of the stream run that no shell waits for
    todo,      \* what is left of the settings that process_video_settings goes through
    spawning,  \* the stream whose source is awaited
    probing    \* the event loop waits for an ffprobe of the camera

streams == <<handle, loose, todo, spawning, probing>>

Keep == [k \in Streams |-> "keep"]

StreamsInit ==
    /\ handle = [k \in Streams |-> "none"]
    /\ loose = [k \in Streams |-> FALSE]
    /\ todo = Keep
    /\ spawning = NoStream
    /\ probing = FALSE

\* stop_video_stream of some streams.
Kill(ks) ==
    /\ handle' = [k \in Streams |-> IF k \in ks /\ handle[k] = "running" THEN "killed" ELSE handle[k]]
    /\ loose' = [k \in Streams |-> loose[k] \/ (k \in ks /\ handle[k] = "running")]

\* ChangeVideoSettings: for each stream a destination to stop ("off") or to send to
\* ("on"), or nothing that starts or stops it, a destination that is no address included.
\* First of all it asks for the dimensions of the streams, which may need an ffprobe.
ReceiveSettings ==
    /\ ReceiveRequest
    /\ todo' \in [Streams -> {"keep", "off", "on"}]
    /\ probing' \in BOOLEAN
    /\ UNCHANGED <<handle, loose, spawning>>

\* ffprobe ends, with an answer or without.  check_output has no timeout, so it may run
\* as long as the camera keeps its connection.
ProbeEnds ==
    /\ probing
    /\ probing' = FALSE
    /\ UNCHANGED <<motion, core, handle, loose, todo, spawning>>

\* process_video_settings runs between two awaits.
Processing == receiver = "reply" /\ spawning = NoStream

Done(k) == todo' = [todo EXCEPT ![k] = "keep"]

StopAsked(k) ==
    /\ Processing /\ todo[k] = "off"
    /\ Kill({k})
    /\ Done(k)
    /\ UNCHANGED <<motion, core, spawning, probing>>

\* MUTANT: poll() is not asked.
StartAskedTwice(k) ==
    /\ Processing /\ todo[k] = "on"
    /\ spawning' = k
    /\ Done(k)
    /\ UNCHANGED <<motion, core, handle, loose, probing>>

\* MUTANT: a stream that runs is waited for.
StartAskedWaits(k) ==
    /\ Processing /\ todo[k] = "on"
    /\ IF handle[k] \in {"none", "ended"} THEN spawning' = k /\ Done(k)
       ELSE UNCHANGED <<spawning, todo>>
    /\ UNCHANGED <<motion, core, handle, loose, probing>>

\* start_video_stream: a shell that poll() does not report as dead is left alone.
StartAsked(k) ==
    /\ Processing /\ todo[k] = "on"
    /\ spawning' = IF handle[k] \in {"none", "ended"} THEN k ELSE NoStream
    /\ Done(k)
    /\ UNCHANGED <<motion, core, handle, loose, probing>>

\* The source is known and the pipeline is started, whatever has happened since poll().
Spawned(k) ==
    /\ receiver = "reply" /\ spawning = k
    /\ handle' = [handle EXCEPT ![k] = "running"]
    /\ loose' = [loose EXCEPT ![k] = @ \/ handle[k] = "running"]
    /\ spawning' = NoStream
    /\ UNCHANGED <<motion, core, todo, probing>>

StreamReply ==
    /\ Processing /\ todo = Keep
    /\ Reply
    /\ UNCHANGED streams

\* An exception in the middle of a request ends it: what it has started goes on.
RequestRaises(retryable) ==
    /\ receiver = "reply"
    /\ ReceiverRaises(retryable)
    /\ todo' = Keep /\ spawning' = NoStream
    /\ UNCHANGED <<handle, loose, probing>>

\* A request goes on after each of its awaits.
Answer ==
    /\ AdapterLives
    /\ \/ \E k \in Streams : StopAsked(k) \/ StartAsked(k) \/ Spawned(k)
       \/ StreamReply

StreamReceiver ==
    \/ /\ AdapterLives
       /\ \/ (Hello \/ ReceiveRequest \/ ForceReconnect \/ ReceiveClosed) /\ UNCHANGED streams
          \/ ReceiveSettings \/ RequestRaises(FALSE)
    \/ Answer

\* The whole pipeline ends, or the shell that was killed is dead.
ShellEnds(k) ==
    /\ handle[k] \in {"running", "killed"} /\ phase # "exited"
    /\ handle' = [handle EXCEPT ![k] = "ended"]
    /\ UNCHANGED <<motion, core, loose, todo, spawning, probing>>

LooseEnd(k) ==
    /\ loose[k] /\ phase # "exited"
    /\ loose' = [loose EXCEPT ![k] = FALSE]
    /\ UNCHANGED <<motion, core, handle, todo, spawning, probing>>

\* MUTANT: nothing is registered with atexit.
CloseWithoutAtexit(next) ==
    /\ Closing(next)
    /\ IF phase' = next THEN Kill(Streams) ELSE UNCHANGED <<handle, loose>>
    /\ IF retry THEN todo' = Keep /\ spawning' = NoStream ELSE UNCHANGED <<todo, spawning>>
    /\ UNCHANGED probing

\* close(): the streams are stopped once the motion event is; when that raises, the
\* process exits and close_streams runs from atexit.
CloseStreams(next) ==
    /\ Closing(next)
    /\ IF phase' = "closing" THEN UNCHANGED <<handle, loose>> ELSE Kill(Streams)
    /\ IF retry THEN todo' = Keep /\ spawning' = NoStream ELSE UNCHANGED <<todo, spawning>>
    /\ UNCHANGED probing

StreamsTypeOK ==
    /\ CoreTypeOK
    /\ handle \in [Streams -> {"none", "running", "killed", "ended"}]
    /\ loose \in [Streams -> BOOLEAN]
    /\ todo \in [Streams -> {"keep", "off", "on"}]
    /\ spawning \in Streams \cup {NoStream}
    /\ probing \in BOOLEAN
=============================================================================
