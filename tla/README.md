# Verification of container-images

This directory holds TLA+ models of the programs that this repository writes
itself (as opposed to the ones it packages), the TLC configurations that check
them on small instances, and proofs, checked by TLAPS, of what holds for every
instance. `PROJECT.json` lists the parts, the runs, the correspondence with the
source line by line, the hazards and the theorems.

## 1. The system

The repository builds and mirrors container images. Most images package someone
else's program; the repository's own logic is in these parts.

| Part | State | Operations | Why it is hard |
|---|---|---|---|
| Android update server (`images/android-update-server`) | a volume with `artifacts/` and `channels/`, one thread per connection | PUT of an artifact or a channel manifest, ranged GET and HEAD | threads race between check and use of a path; uploads end early; the process stops between two steps |
| Image publishing (`scripts/publish-*.sh`, `release.yml`) | the tags of each image in the registry | push, annotate, name a version, copy from upstream | runs overlap (no concurrency group), fail between commands, and read errors look like missing tags |
| Matrix, validation and mirror updates (`scripts/*.sh`, the other workflows) | files of the checkout | choose the images to build, choose a new upstream tag | version ordering, empty results |
| unifi-cam-proxy, session and motion (`unifi/core.py`, `cams/base.py`) | a websocket, message ids, the current motion event, `ffmpeg` processes | adoption, requests of the controller, start and stop of motion, reconnect | asyncio tasks that suspend between a check and an assignment; cleanup on a dead socket |
| unifi-cam-proxy, camera adapters (`cams/*.py`) | the current detection, an HTTP server | MQTT messages, polls, HTTP requests or the camera's own events become motion events | one task per message or request, some of which no session cancels; messages lost or late |
| unifi-cam-proxy, video streams (`cams/base.py`) | a shell `ffmpeg \| clock_sync \| nc` for each stream | start, stop, stop all at the end of a session or of the process | the shell is asked for before an await and started after it; killing it does not kill its pipeline |
| unifi-cam-proxy, clock sync (`clock_sync.py`) | the position in an FLV stream, the start and the last sync on the wall clock | copy a tag, add a trailer, put script tags before it | reads that cross the format's fields, an input that ends anywhere, a clock that jumps, integer widths |
| stable-diffusion-qwen (`frontend.patch`) | a draft in localStorage and IndexedDB | save, restore, discard | asynchronous writes that pass each other |
| learnspam (`spamscan.py`) | IMAP folders | learn, mark, expunge | a failed learner whose mail is deleted |
| Entrypoints, numeric tools, mirrored images | none | start a program | nothing to interleave |

The parts meet only at the registry (publishing writes what deployments pull);
at run time they are separate containers, so there is one group of modules for
each. Within unifi-cam-proxy the parts do interact, in one asyncio event loop:
the adapters and the receiver call the motion operations of the base class, the
receiver starts and stops streams, and the end of a session stops all of it.
`CameraProxy`, `ReolinkMotion` and `FrigateMotion` each compose one adapter with
the session and the motion events, and `CameraProxy` adds the streams. The
filter `clock_sync.py` is a process of its own that shares nothing with the
event loop but the pipe it is in.

What makes each part correct:

* **Update server.** An artifact name is written once, with the whole body of an
  authorized request and its digest; what a client was told or has downloaded
  stays true; a channel holds one valid manifest; ranges are exact; requests end
  and leave no temporary file.
* **Publishing.** A version tag names an image of that version and never
  changes; static and mirrored tags keep their image; every tag is labelled.
* **unifi-cam-proxy.** Motion events the controller sees alternate start and stop
  with fresh ids; a motion event that was opened is closed; a connection that is
  lost uncleanly while nothing is being sent is made again (a closing handshake, a
  loss that a reply meets and one during a motion event end the process), and
  nothing of a session outlives it; a stream has one shell at a time (the processes
  of one that was killed may go on beside the next).
* **Clock sync.** The bytes of the stream are passed on once each and in order,
  the trailers stand between tags, and only a time that does not fit ends it early.
* **Drafts.** What is restored is what was last saved for that backend.
* **learnspam.** No message is expunged that was not learnt.

## 2. Modules

| Module | Models | Kind |
|---|---|---|
| `RangeRequest` | `_parse_range` and what a Range header asks for | pure operators |
| `ReleaseStore` | what the update server promises | abstract specification |
| `UpdateRepository` | the handler threads on the volume | state machine, implements `ReleaseStore` |
| `MCUpdateRepository` | instance for TLC | |
| `UpdateRepository_proofs`, `Downloads_proofs` | proofs | |
| `PublishCommon` | `publish-common.sh`: registry, inspection, annotation, failure | shared state and operators |
| `PublishBuild`, `MCPublishBuild` | `publish-build.sh` | state machine |
| `PublishMirror`, `MCPublishMirror` | `publish-mirror.sh` | state machine |
| `PublishBuild_proofs`, `PublishMirror_proofs` | proofs | |
| `EventLog` | what the controller is told of motion events | abstract specification |
| `MotionEvents` | `trigger_motion_start`, `trigger_motion_stop` (`cams/base.py`) | shared state and operations |
| `CameraCore` | the reconnect loop (`core.py`) and the receiver `_run` | shared actions, on `MotionEvents` |
| `ReolinkMotion`, `MCReolinkMotion` | the polling adapters, on `CameraCore` | state machine, implements `EventLog` |
| `ReolinkMotion_proofs` | proofs | |
| `FrigateMotion`, `MCFrigateMotion` | the Frigate adapter, on `CameraCore` | state machine, implements `EventLog` |
| `FrigateMotion_proofs` | proofs | |
| `VideoStreams` | the stream processes (`cams/base.py`) and the requests that start and stop them | shared actions, on `CameraCore` |
| `RtspCam` | the RTSP and Tapo adapters: HTTP requests | actions, on `VideoStreams` |
| `DahuaCam` | the Dahua adapter: the camera's event stream | actions, on `VideoStreams` |
| `ClockSync` | `clock_sync.py` | actions on variables of its own |
| `CameraProxy`, `MCCameraProxy` | `main.py` with one of these adapters, or the filter | state machine that composes the four, implements `EventLog` |
| `CameraProxy_proofs`, `ClockSync_proofs` | proofs | |

### 2.1 UpdateRepository

`file`, `dirs` and `channel` are the volume: what each artifact name holds, which
names are directories, and what each channel holds. `orphans` counts temporary
files no handler will ever remove. Each thread has a label `pc`, its request,
its temporary file `temp`, the status it is about to send, and the `span` its
headers announced. `gone` are the threads whose client has closed its connection,
or only its sending half (it may then still read the answer). `answer`,
`promises` and `released` are history: what was delivered to clients and what
channels have held.

A thread's code is cut where another thread can act between two accesses to the
volume:

| Code (`server.py`) | Action |
|---|---|
| `do_PUT`, authorization, path, `exists`, checksum header, length (69-86, 137-153) | `BeginArtifact` |
| `parent.mkdir`, `NamedTemporaryFile` (155-162) | `OpenUpload` |
| one pass of the read loop (163-170) | `ReadBlock`, `BodyBreaks` |
| `fsync`, digest (171-177) | `VerifyUpload` |
| `os.link` (179-184) | `LinkArtifact` |
| the answer (185-192, 400-415) | `Respond` |
| the `finally` (195-197, 235-237) | `UnlinkTemp` |
| an error of the volume at any of its accesses (a full disk, a lost mount) | `DiskFails`, with `MakesSomeParents` |
| `_publish_channel` (199-232), `os.replace` (233-246) | `BeginChannel`, `ReadManifest`, `ReplaceChannel` |
| `is_file`, `stat`, `open` and the reads (88-118, 292-334) | `BeginGet`, `StatFile`, `SendFile` |
| SIGTERM with daemon threads, or a crash, and `prepare` (49-53, 466-489) | `Restart` |

Abstractions: a body is a sequence of blocks; SHA-256 is collision free; a
manifest is judged on the fields `_validate_manifest` compares; temporary names
never collide (`NamedTemporaryFile`). A file that has been opened is read in one
step, because `os.replace` and `os.link` never change the bytes of an open file.
`mkdir(parents=True)` is one step, of which an error may leave a part. An error of
the `unlink` in a `finally` is left out. The kernel's view of the volume survives a
restart. Left out: `/healthz`, `/readyz` and `/v1/policies`, which only read
things nothing here writes, and the order of HTTP header lines.

### 2.2 Publishing

`registry` maps a tag to an index: an image and the revision it is annotated
with. A job is a shell script under `set -e`: its label moves from command to
command and any command may fail (`Fail`), which also covers a cancelled run.
`imagetools create` reads its source and then pushes, so it is two actions;
`buildx --push` pushes its tags one after the other; `skopeo copy` reads and then
writes. An `image.json` without `latestTag` (`minecraft-server`) is mirrored without
latest: `NamesLatest` says of each job whether its list has one. `RefExists` is
`publish_ref_exists`: any failure of the inspection counts
as a missing tag. `disturbed` records that two jobs of the image have run at the
same time or that an inspection missed a tag: what only holds without it is
stated under that condition, and the two violation runs show what happens with it
or without need of it. What these conditions leave out the code does: two jobs of
one version that both create its tag, an inspection that misses and publishes a tag
again, a failed job whose tag no later one annotates. And latest may go back: a job
that annotates it pushes the index it has fetched over whatever another job has
pushed in between. No property says which build latest is of, since no text does.

Abstractions: an image is named by the job that built it (a rebuild is never
bit-identical); both builds of one job report the same version; one image is
modelled, since images share no tags.

### 2.3 unifi-cam-proxy

The program is one asyncio event loop: a task runs until it awaits something that
is not ready. `at` says for each task at which await it is suspended, and each
operation is cut there:

| Code | Action |
|---|---|
| `trigger_motion_start` to its `send` (`base.py` 157-196) | `BeginStart` |
| the assignments after it, to `get_snapshot` (197-204) | `StartSent` |
| the copy of the snapshot (205-207) | `SnapshotCaptured` |
| `trigger_motion_stop` to its `send`, and after it (209-250) | `BeginStop`, `StopSent` |
| an exception of a suspended send, or of the snapshot (`fetch_to_file` catches `ClientError` only) | `SendRaises`, `CaptureRaises` |
| `Core.run`: connect, gather, cancel, `cam.close()` (`core.py`) | `Connect`, `ConnectRaises`, `EndSession`, `CloseEnds`, `CloseRaises` |
| `_run`: hello, `recv`, `process` (`base.py` 95-109, 903-970) | `Hello`, `ReceiveRequest`, `Reply`, `ForceReconnect`, `ReceiveClosed` |
| a poll that finds motion, or none (`reolink.py`, `reolink_nvr.py`) | `PollMotion`, `PollStill`, `PollFails` |
| a task per MQTT message (`frigate.py`) | `DetectionBegins`, `DetectionEnds`, `SnapshotArrives`, `HandlerResumes` |
| the client of the broker and the `TaskGroup` in it (`frigate.py` 61-91) | `MqttConnects`, `MqttRefused`, `BrokerLost`, `MessageRaises`, `GroupRaises` |

`started` is `_motion_event_ts`, and `snapshot` what the path in `_motion_snapshot`
names. What a failure does depends on its kind: `RetryableError` cancels the
other task and connects again, every other exception leaves it running during
`cam.close()` and ends the process. `AdapterLives` is that difference. `Children`
are the tasks that are cancelled; the actions of `close()` take what comes after
them as a parameter, since the HTTP adapters go on with `runner.cleanup()` (the
phase `cleanup`).

`sent` and `starts` are what the controller was told. `overtaken` records that the
end of a detection found the start of its own event still being sent: two starts
may then go out under one id. `missed` records that the end of the current detection
came when `run()` did not listen, or that the handler of this end was cancelled: with
its session, or when the connection to the broker was lost. What does not hold of the
code after either is stated without it.

A lost broker does not end the session. It raises an `MqttError` within the
`TaskGroup`, which cancels the handlers and raises an exception group; but the MQTT
client's `__aexit__` then finds its connection lost and raises an `MqttError` of its
own in the group's place. That one `frigate.py:87` catches once `has_connected`, and
`backoff.on_predicate` connects again for as long as it takes (`RunRetries`), with the
`event_id` that it has. An exception of a handler ends `run()` and the session
(`RunRaises`), unless the broker is lost as well while the others are cancelled.

`EventLog` is what all adapters promise the controller, with nothing of tasks or
sessions in it: ids only grow, the next event begins only when the one told last
was stopped or has never begun, and a stop names the event as its start did. Its
`nextId` is `NextId`: the id of an event is used up from the moment its start is
known to be sent, although the code moves its counter on only after the stop. Its
`careless` is the condition under which an adapter keeps that promise: never for
Reolink, whose poller makes all its calls; `overtaken` for Frigate; `overlapped`
for the HTTP and Dahua adapters (2.4). From then on only the ids are promised.

Abstractions: a frame is written when `send` is called, so the controller sees
events in the order of the calls; the content of requests and replies and the
bytes of snapshots are left out, and in the two runs without streams a request
suspends its handler once; a request may fail.
MQTT messages may be lost, and a detection begins and ends once. The messages of
one poll that are caught (`ClientError`, `JSONDecodeError`) change nothing and are
left out. Cancelling the handlers of a `TaskGroup` is one step. The receiver's own
failures are those `process` passes on.

### 2.4 Streams, adapters that keep no motion state, and the filter

`handle[k]` is what `_ffmpeg_handles` holds of the stream `k`: no shell, one that
runs, one that was killed and that `poll()` does not report as dead yet, or one
that has ended. `loose[k]` says that processes of the stream go on without a
shell: `kill()` ends `/bin/sh` and not the pipeline in it. `todo` and `spawning`
are where `process_video_settings` is. `serving` is the HTTP server, `watching`
the task that reads the camera's events.

| Code | Action |
|---|---|
| `process_video_settings` (`base.py` 384-417) | `ReceiveSettings`, and for each stream one of the next three; `StreamReply` |
| `stop_video_stream` (1024-1027) | `StopAsked`, by `Kill` |
| `get_stream_dimensions` and its `ffprobe` (386; `rtsp.py` 124-179) | `ReceiveSettings`, `ProbeEnds` |
| `start_video_stream` to `get_stream_source` (995-1003), and after it (1004-1022) | `StartAsked`, `Spawned` |
| an exception of the handler, or of the camera's library | `RequestRaises`, `SourceRaises` |
| `close`, `close_streams` and its `atexit` (1029-1036) | `CloseStreams` |
| the end of the pipeline, of a killed shell, of processes without one | `ShellEnds`, `LooseEnd` |
| `rtsp.py` 89-116 and the same in `tapo.py` | `ServerStarts`, `ServerFails`, `StartMotion`, `StopMotion`, `CallResumes`, `RtspClose`, `CleanupEnds` |
| `dahua.py` 98-140 | `CameraStarts`, `CameraStops`, `WatcherResumes`, `EventRaises`, `SourceRaises`, `DahuaClose` |
| `main` and one pass of the loop of `clock_sync.py`; its end | `FilterStarts`, `PassTag`, `InputEnds` |

`stopped` (ids that a stop was sent for) and `overlapped` (two events were being
sent at once) are history. `probing` says that the event loop waits for an
`ffprobe`, which `check_output` runs in the loop and without a timeout: none of its
tasks runs (`Loop`) until it has ended, while the connection and the processes go on
(`Outside`). `program` says which of the three programs a behaviour is of; it never
changes.

Abstractions: the destination of a stream is one that stops it, one that starts it,
or neither (no destination, or one that is no address). A request is cut at every
stream and at the await of its source, also for RTSP and Tapo, whose source needs no
waiting: for those the model has more interleavings than the code. The process that
refreshes the snapshot file, pan and tilt, and the values of a stream's dimensions
are left out; any request of settings may need an `ffprobe`, and the probes of one
request are one. In `ClockSync` the stream is the bytes of its FLV header and tags,
with payloads of any size below 2^24, as the format has it; the script tags keep
only their timestamp. A pass of its loop is one step, since it shares nothing and a
read that waits for `ffmpeg` changes nothing; the writes of one pass are kept in
their order, so that the torn trailer of a time that does not fit is seen. When this
trailer belongs to a clock sync, the 12 bytes of the header of the next tag have
been read and are never written (`Withheld`).

Met while modelling and not stated as properties, since nothing in the repository
but the code's own comments speaks of them: a comment of `clock_sync.py` gives
the trailer 15 bytes where the code writes 16; the Hikvision adapter answers a
request for the tilt with the azimuth; a stream that is started right after it was
stopped stays off while `poll()` has not seen its shell die, and a stream that
runs ignores a new destination.

## 3. Runs

| Run | Instance | Shows |
|---|---|---|
| `artifacts` | 2 threads, names `app` and `app/delta`, 8 uploads and 4 downloads, 1 abandoned file | type, promises, checked uploads, cleanup, ranges, refinement of `ReleaseStore`, requests end |
| `channels` | 2 threads, 1 channel, 6 posts, 2 downloads | valid manifests, downloads are prefixes of releases, requests end |
| `torn_channel` | the same | **violated**: a download of a channel gets one of its documents |
| `upload_conflict` | as `artifacts` | **violated**: a 409 means that something is published |
| `publish_build` | 4 jobs, 2 versions, 1 static tag, 1 missed inspection | what version, static and latest tags hold |
| `publish_mirror` | 3 jobs, one of which does not name latest, 2 upstream tags that move once, 1 missed inspection | what mirrored tags hold |
| `static_tag` | 4 jobs, no missed inspection | **violated**: a complete tag other than latest never changes |
| `version_race` | 4 jobs, no static tag | **violated**: a version tag holds an image of that version |
| `reolink` | 1 poller, 4 motion events | what is open when a session begins, who will stop it, refinement of `EventLog`, that ended motion is stopped |
| `frigate` | 3 detections of 2 labels, 3 handlers, 4 motion events | refinement of `EventLog`, one handler ends an event, an open event has a current detection, and a current detection that is over has a handler unless its end was missed or cancelled |
| `frigate_snapshot` | the same | **violated**: a motion event ends with its snapshot ready |
| `camera_proxy` | 2 HTTP requests at once or 1 event loop of a camera, 1 stream, 2 motion events; for the filter, 3 lists of up to 2 tags cut at every byte and 7 values of the clock | ids are fresh, refinement of `EventLog`, nothing outlives its session, no pipeline that runs is forgotten, sessions end and requests are answered unless an `ffprobe` does not end; the filter copies what it reads but for the header before which it dies, its trailers stand between tags, and only its clock ends it early |

**Bounds.** Two threads are enough for every race of the server, because each
handler touches one name and each action reads or writes the volume once: what a
thread sees of many others it can see of one other that serves several requests
in a row. The names include one below the other, for the races of `mkdir` and
`link`. Bodies have up to two blocks (three to be refused), so that a body can
break before, within and after its middle. Requests repeat for ever; the only
other bound is `MaxOrphans`, which limits how many temporary files crashes may
abandon, and so the crashes in the middle of uploads. For publishing, two jobs
race, a third meets what they left, and the fourth is refused by its release tag.
Jobs end, so these runs do not check for deadlock. For the cameras, `MaxEvents`
stops new motion events after the fourth: one that is open across a reconnect, one
that follows it, and two that overlap. Three detections are one that is current,
one that is ignored and one that follows; a handler for each of a start, its own
end and another detection can be suspended at once. Sessions are not bounded. The
process may exit, so these runs do not check for deadlock either. In
`camera_proxy` two HTTP requests are the least that can overlap, and a third finds
what they left; one stream is enough because a request goes through the streams
one after the other and each has its own shell (the proofs are for any number).
The filter's trailer holds at most 20 units at two to a second, and a sync is due
every five seconds: so the seven values of the clock are before the start, at it,
due for a sync or not, the last that fits and the first that does not, in any
order. Every tag list is cut at every byte after the header, which `ffmpeg`
writes at once, and an input of no bytes is included.

**Fairness.** `RequestsEnd` needs weak fairness of what a thread does by itself
once it has a request (`Works`), and of its writes to a client that has closed
(`Writes`), which succeed or fail. The operating system schedules every runnable
thread, and no handler waits for another one. Nothing is assumed of clients: they
may stop sending, not read what they are sent, stay silent for ever or never close,
and the server sets no socket timeout. So `RequestsEnd` says that a request ends or
that its handler waits for its client for ever (`Waits`): for a body that is neither
sent nor given up, or in a write that a client which stays connected does not take.
One that closed only its sending half is taken to read, or to close, in the end. No
fairness makes the process restart, the volume fail or a new request come.

`EndedMotionIsStopped` needs weak fairness of the task that has stopped a motion
event and of the end of a session: the event loop runs every task that can go on, and
a suspended send ends, at the latest when the websocket's keepalive gives the
connection up. `SessionsEnd` and `RequestsAreAnswered` need it of the steps of closing
a session (a suspended send ends as before, and `runner.cleanup()` of aiohttp has a
timeout) and of the steps of a request between its awaits, which end with the timeouts
of the HTTP client and of the camera's library. Both are fair only while the loop is
not in an `ffprobe`, which nothing ends: the two properties except the behaviours in
which one lasts for ever (`[]probing`). The fairness of closing is strong, because
requests could have one probe follow the other: the loop serves the tasks that are
ready first come first served, so Core runs between two of them. None of this holds of
the Hikvision adapter, whose client is made with `timeout=None`; it is not modelled.
Nothing else is assumed of the camera, and nothing of the controller or the network.
The other properties are safety properties.

**What the violations say.**

* *torn_channel*: `_send_file` takes the length from `path.stat()` and opens the
  path again for the bytes. When the channel is replaced in between, the client
  receives a prefix of the new document, or, when that is shorter, all of it on a
  connection that stays open, for the rest of which it waits.
* *upload_conflict*: parents are made before the body is read and stay when the
  upload fails, so the parent's name is refused from then on as an existing
  artifact.
* *static_tag*: the annotation loop covers static tags that the push skipped, so
  each run pushes their index again with a new revision.
* *version_race*: the version tag is made from whatever `latest` is when the job
  gets there.
* *frigate_snapshot*: the handler of a snapshot keeps its `NamedTemporaryFile` in a
  local variable, so the file is removed when the handler returns, while the
  handler of the end waits for exactly this snapshot (`frigate.py:127`).

## 4. Theorems

`UpdateRepository_proofs` proves, for every finite set of threads and any names,
channels, documents and requests that satisfy `RepositoryAssumption`:

* `Invariance`: `Spec => []Inv`, with `Inv` the conjunction of `TypeOK`,
  `Handlers`, `TreeShape` (no name is a file and a directory, and what is above a
  published one is a directory: what the file system itself sees to),
  `OnlyCheckedUploads`, `ChannelsAreValid` and `PromisesKept`;
* from it `TypeCorrect`, `PromisesAreKept`, `UploadsAreChecked`,
  `ChannelsHoldValidManifests` and `HandlersCleanUp`;
* `ServerImplementsStore`: `Spec => Store!Spec`.

The properties are not inductive alone. What is published depends on what a
thread has in hand when it links: `Handlers` says, for each label, which kind of
request the thread serves, that its temporary file is a prefix of the request's
body of at most the announced length, that at `link` it is the whole body with the
right digest and at `replace` the text of a valid manifest, that above the name
there are only directories, and that an answer with status 201 is about to be sent
only when the artifact holds exactly the temporary file. The last part is why a
promise is true when it is made; that `LinkArtifact` never overwrites is why it
stays true. The refinement uses the same invariant: each action maps to
`Publish`, `Repoint`, `Tell`, `Hangup` or to no change.

It also proves `ParseRangeExact`: for every header and size, `_parse_range` returns
the first and the last of exactly the positions the header asks for, or nothing when
it asks for none. `Downloads_proofs` carries this through the handler:
`DownloadsAreExact` and `ManifestsWereReleased` need that the size is that of the
file opened later, which `UpdateRepository_proofs` gives for an artifact (its
content never changes once it is there) and nothing gives for a channel. Its
invariant says, on top of `Inv`, that between the stat and the answer the headers
announce what the request asks for (`Announced`), that what was answered is what was
announced (`Exact`, `Prefix`), and that what a channel holds was released
(`Current`).

`PublishBuild_proofs` and `PublishMirror_proofs` prove, for any jobs, tags, lists
of tags and bound on the missed inspections, `TypeCorrect`; `VersionTagsStayTrue`
and `ImmutableTagsStay` of built images, `MirrorsKeepTheirSource` and
`MirroredTagsStay` of mirrored ones; and `AllTagsAreAnnotated` of both. The
invariants have the same parts:

* `Positions`: how far in its list a job is at each label, and what it holds there;
* `Alone` (what is true while no two jobs have run at once and no inspection has
  missed a tag): a job that runs is the only one; what it is about to push does
  not exist, what it annotates is still what it fetched, and from the push of
  latest on, latest is its own image;
* `Cared`: what is published without an annotation has a job that will annotate it
  or that has failed, and what a job has passed in its list is published. It needs
  no condition: annotating only ever replaces an index by one with an annotation,
  and whoever pushes one without comes back to it;
* for the mirrors `Sources`: whatever a job has in hand is an image that upstream
  published under the name it is going to write.

`StepOfOne` reduces the preservation of all of them to what a step of one job
does, so that each action is proved on its own job only.

`ReolinkMotion_proofs` proves `TypeCorrect`, `SessionsBeginStill`,
`OpenEventsHaveAnOwner` and `StopsFollowStarts` for any bound on the ids. An open
event has an owner only because of what the end of a session leaves behind, so the
invariant says who may be suspended in which phase (`Suspended`), what is settled
between sessions (`Settled`), that an event that is open was announced under its id
and type (`Announced`), and whose it is (`Owned`).

`CameraProxy_proofs` proves `TypeCorrect`, `SessionsEndCompletely`, `IdsStayFresh`
and `PipelinesAreRemembered` for any number of HTTP requests, streams and object
types. Its invariant: no id above the current one was stopped, and the current one
only while its event is still open, so that a start, which needs none open, has a
fresh id (`Ids`); only requests or the camera's event loop are suspended besides
`Core`, none while a session is being connected, and a server that was cleaned up
takes no request (`Quiet`); a stream whose source is awaited has no shell that
runs, the receiver being the only task that starts one, and none runs between
sessions (`Pipelines`). `StopsFollowStarts` takes a second invariant on top of it
(`Announced`): as long as no two events were being sent at once, one task at most
is sending, the start it sends and the event that is open went out under the
current id and their type.

`FrigateMotion_proofs` proves `TypeCorrect`, `OneHandlerEnds`,
`OpenEventsHaveAnOwner`, `DetectionsAreEnded` and `StopsFollowStarts` for any
detections, labels, handlers and bound on the ids. What makes the adapter hard is
that the current detection outlives the handler that began it, and the session. The
invariant says that the handler that ends an event is the only one and that its
detection is the current one and is over (`Enders`); that a session that will be
followed by another leaves no handler (`Suspended`); that a detection that is over
and current has a handler, or has been missed, where leaving the `TaskGroup` cancels
all handlers and counts as a miss of an end that had come (`CurrentIsNotOver`); and
that, while no end has overtaken a start, a start that is being sent is the only
one, and what is open was announced and belongs to the current detection
(`Starters`).

`ReolinkKeepsTheLog`, `FrigateKeepsTheLog` and `ProxyKeepsTheLog` prove that each of
the three implements `EventLog` (`Spec => Log!Spec`), with one more invariant,
`Logged`: what was told last is the start of the event that is open or being
started, or its stop, or a start whose send failed and whose id the next event
takes. It holds while the process lives and nothing has crossed. A step that sends
nothing must leave it alone, and the two that send must find it as the log wants it:
so the proofs sort the steps into those that send nothing (`Silent` in the first
two), the starts, the returns of a start, the stops and the returns of a stop.
`StopsFollowStarts` says of the same runs that a stop has had a start at some time.

`ClockSync_proofs` proves the invariant of the filter, `FilterInv`, and
`CameraProxy_proofs` from it `FilterInvariance`, `StreamIsCopied`,
`TrailersAreInPlace` and `OnlyTheClockStopsIt`: for every list of tags with any
payloads, cut anywhere after its header, and every clock. `FilterInv` says that
what was written, taken without trailers and script tags, is the part of the input
read so far, but for the header that is withheld by a filter that dies in a clock
sync, that every trailer stands at the end of a tag or of the input, and that a filter that
runs stands at the end of a tag or of its input and has torn no trailer. Two things
had to be done without an induction theorem. That the tags of an input can be
walked through is stated on sets of positions: a set of naturals with 0 and the
successor of each of its members is all of them, which follows from the library's
least elements (`SetInduction`). And `FlattenSeq`, by which the stream and the
output are put together, is a recursive function that the library only chooses:
the proofs construct it, show that any two such functions agree, and take from that
that appending a chunk appends its bytes (`FlattenOneMore`). The rest is bytes: the
reads of a pass that begins at the end of a tag get the next tag and its size, or
what is left of the input (`TagIsRead`).

The assumptions are the named `ASSUME`s of the modules: constants are distinct
where the code can tell them apart, and requests have the declared shape. TLC
evaluates them on every run.

Four theorems prove what the liveness properties need besides fairness. Each gives a
measure of what is left to do, shows that every step of the tasks concerned makes it
smaller and that no other step makes it larger, and that what these tasks wait for is
there. What is missing is that such tasks are scheduled, which for the last two
supposes that no `ffprobe` goes on for ever.

| Theorem | For | Measure | Always there |
|---|---|---|---|
| `RequestsAreBounded` | `RequestsEnd` | the longest way from the handler's label to its end, and the bytes not yet read: at most `MaxUpload` + 5 | a step of the handler that is sure to come, unless it waits for its client (`Waits`) |
| `EndedMotionComesToAStop` | `EndedMotionIsStopped` | how far the session is from its end, from the stop that the poller sends to the one in `close()`: at most 3 | the poller in that stop, or Core |
| `SessionsComeToAnEnd` | `SessionsEnd` | the phases of closing that are left: at most 3 | the send or the cleanup that Core waits for |
| `RequestsComeToAReply` | `RequestsAreAnswered` | two for each stream still to do, one for a source that is awaited, one for the reply | the receiver, unless it is about to be cancelled |

The last holds for any finite number of streams (the code has three). That the poller
is there takes one more invariant (`Polled`: a session that runs has its poller), and
that the receiver is there another (`Deaf`: a session that was given up has no request).

Only model-checked: `RequestsEnd`, `EndedMotionIsStopped`, `SessionsEnd` and
`RequestsAreAnswered` themselves, since fairness and `ENABLED` are out of the prover's
reach.
The properties that a run finds violated are refuted by that run.

## 5. Not modelled

* **Hikvision**: its motion code is commented out. What is left fetches snapshots
  and moves the camera, and keeps nothing between requests but the last settings.
* **The rest of `base.py` and `main.py`**: building the payloads of replies,
  parsing the controller's settings, arguments, checks for binaries, the fetch of
  the token. Of the calls that block the event loop, `ffprobe` is modelled, which waits
  for the camera, and `ffmpeg -h` is not, which waits for nothing.
* **stable-diffusion-qwen's drafts**: `frontend.patch` adds a store over
  localStorage and IndexedDB whose writes are asynchronous, to a frontend that is
  not in the repository: the order in which its watchers and its start-up call the
  store is only visible as far as the hunks of the patch show it. Worth a model of
  its own when the frontend is at hand: a restore that fails is followed by a save,
  and each backend's store starts a chain of writes of its own.
* **learnspam**: one pass over a folder in one thread. That it flags a message as
  deleted whatever `rspamc` returned (`spamscan.py:88-92`) is plain from the text
  and needs no model.
* **Matrix, validation, mirror updates**: each script runs tools one after the
  other and keeps no state; the choice of a tag is one `jq` program over version
  strings.
* **Entrypoints, numeric tools, mirrored images and Dockerfiles**: floating-point
  comparisons, scripts that replace themselves by one program, and data.

## 6. Plan

1. The draft store, as soon as its callers can be read.
2. The refresh of the snapshot file beside the stream processes, with the requests
   that read it.
