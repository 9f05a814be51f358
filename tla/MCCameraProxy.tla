---------------------------- MODULE MCCameraProxy ----------------------------
(***************************************************************************)
(* One camera with two concurrent HTTP requests, or one event loop, and    *)
(* one video stream; and FLV streams of up to two tags, cut at every byte. *)
(***************************************************************************)
EXTENDS CameraProxy

CONSTANTS core_task, watcher, c1, c2, none, person, video1

Audio == 8
Video == 9

Tag(type, time, payload) ==
    [type |-> type, fields |-> <<0, 0, time, 0, 0, 0, 0>>, payload |-> payload]

MCTagLists ==
    { <<Tag(Video, 1, <<101, 102>>), Tag(Audio, 2, <<>>)>>,
      <<Tag(Audio, 3, <<101>>), Tag(Video, 4, <<>>)>>,
      <<Tag(Video, 5, <<9>>)>> }

\* Before the start, at it, due for a sync or not, just in time and too late.
MCTimes == {1, 3, 7, 8, 9, 13, 14}
=============================================================================
