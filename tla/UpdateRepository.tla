-------------------------- MODULE UpdateRepository --------------------------
(***************************************************************************)
(* The Android update server (android_update_server/server.py): a          *)
(* ThreadingHTTPServer whose handler threads publish artifacts and channel *)
(* manifests to a persistent volume and serve them from it.                *)
(*                                                                         *)
(* A thread serves one connection at a time.  Its actions are separated    *)
(* where another thread can act between two accesses to the volume: the    *)
(* existence check, the creation of the parent, each block of the body,    *)
(* the link or replace, the answer, and the removal of the temporary file; *)
(* is_file, stat and open of a download.                                   *)
(***************************************************************************)
EXTENDS RangeRequest, Sequences, FiniteSets

CONSTANTS
    Threads,       \* handler threads
    Names,         \* artifact names that _safe_path accepts
    Above,         \* [Names -> SUBSET Names]: the proper prefixes of a name
    Channels,      \* DEVICE/CHANNEL pairs that _channel_names accepts
    Blocks,        \* what one read of the body returns
    Documents,     \* the JSON manifests clients send
    Text,          \* [Documents -> Seq(Blocks)]: json.dumps(indent=2, sort_keys)
    Requests,      \* the requests clients make
    MaxUpload,     \* --max-upload-bytes, in blocks
    ManifestLimit, \* MANIFEST_LIMIT, in blocks
    MaxOrphans,    \* bound on abandoned temporary files (bounds the crashes)
    Absent,        \* a name with no file
    NoFile,        \* a handler without a temporary file
    NoName,        \* a path _safe_path or _channel_names refuses
    NoChecksum,    \* a missing or malformed X-Checksum-Sha256
    NotJson,       \* a body json.loads refuses
    NoRange,       \* a download without a Range header
    NoRequest      \* an idle thread

Contents == Seq(Blocks)

\* SHA-256 is taken to be collision free: a constructor of its own.
Sha256(content) == [sha256 |-> content]

ArtifactPuts ==
    [ kind       : {"artifact"},
      authorized : BOOLEAN,
      name       : Names \cup {NoName},
      checksum   : [sha256 : Contents] \cup {NoChecksum},
      length     : Int,         \* Content-Length; -1 when missing or malformed
      body       : Contents ]   \* what the client sends before it stops sending

ChannelPuts ==
    [ kind       : {"channel"},
      authorized : BOOLEAN,
      name       : Channels \cup {NoName},
      length     : Int,
      sent       : Nat,                        \* how much of the body arrives
      document   : Documents \cup {NotJson} ]  \* what its first length bytes parse to

Gets ==
    [ kind     : {"get"},
      name     : Names \cup Channels \cup {NoName},
      range    : Headers \cup {NoRange},
      sendBody : BOOLEAN ]      \* FALSE for HEAD

\* A manifest: its fields, with what the releases it lists are judged on.
Manifests ==
    [ schemaVersion : Int, channel : Channels, releasesOk : BOOLEAN,
      packages : Seq(STRING) ]

ASSUME RepositoryAssumption ==
    /\ IsFiniteSet(Threads)
    /\ Above \in [Names -> SUBSET Names]
    /\ \A n \in Names : n \notin Above[n]
    /\ Names \cap Channels = {} /\ NoName \notin Names \cup Channels
    /\ Documents \subseteq Manifests /\ NotJson \notin Documents
    /\ Text \in [Documents -> Contents]
    /\ Absent \notin Contents /\ NoFile \notin Contents
    /\ Requests \subseteq ArtifactPuts \cup ChannelPuts \cup Gets
    /\ NoRequest \notin Requests /\ NoChecksum \notin [sha256 : Contents]
    /\ NoRange \notin Headers
    /\ MaxUpload \in Nat /\ ManifestLimit \in Nat /\ MaxOrphans \in Nat

VARIABLES
    \* The volume.
    file,      \* [Names -> Contents \cup {Absent}]: artifacts/
    dirs,      \* the names that are directories of artifacts/
    channel,   \* [Channels -> Contents \cup {Absent}]: channels/
    orphans,   \* .upload-* and .channel-* files no handler will remove
    \* The handler threads.
    pc,        \* what each thread does next
    req,       \* the request it serves
    temp,      \* its temporary file
    status,    \* the status it is about to send
    span,      \* <<from, to>>: the positions its headers announced
    gone,      \* the threads whose client has closed the connection
    \* What clients know (history).
    answer,    \* the last answer delivered on each thread's connection
    promises,  \* everything a client was told of an artifact, or downloaded
    released   \* [Channels -> SUBSET Contents]: every manifest a channel had

volume == <<file, dirs, channel, orphans>>
history == <<answer, promises, released>>
vars == <<volume, pc, req, temp, status, span, gone, history>>

\* length is the announced Content-Length of a file, bytes what arrived of it, whole
\* says that the client takes bytes for all of the file.
NoAnswer ==
    [ status |-> 0, name |-> NoName, whole |-> FALSE,
      from |-> 0, length |-> 0, bytes |-> <<>> ]

Init ==
    /\ file = [n \in Names |-> Absent]
    /\ dirs = {}
    /\ channel = [c \in Channels |-> Absent]
    /\ orphans = 0
    /\ pc = [t \in Threads |-> "idle"]
    /\ req = [t \in Threads |-> NoRequest]
    /\ temp = [t \in Threads |-> NoFile]
    /\ status = [t \in Threads |-> 0]
    /\ span = [t \in Threads |-> <<0, 0>>]
    /\ gone = {}
    /\ answer = [t \in Threads |-> NoAnswer]
    /\ promises = {}
    /\ released = [c \in Channels |-> {}]

-----------------------------------------------------------------------------
(* How a handler moves.                                                     *)

Goto(t, label) == pc' = [pc EXCEPT ![t] = label]

\* The handler returns and its locals are gone.
Finish(t) ==
    /\ Goto(t, "idle")
    /\ status' = [status EXCEPT ![t] = 0]
    /\ span' = [span EXCEPT ![t] = <<0, 0>>]

\* _send_error and _send_json: the status is decided now and sent by Respond.
Send(t, code) ==
    /\ status' = [status EXCEPT ![t] = code]
    /\ Goto(t, "respond")

\* A request line is read and a method is chosen (do_GET, do_HEAD, do_PUT).
Begin(t, r) ==
    /\ pc[t] = "idle"
    /\ req' = [req EXCEPT ![t] = r]
    /\ answer' = [answer EXCEPT ![t] = NoAnswer]
    /\ gone' = gone \ {t}

\* The refusals of do_PUT and of a publication that come before its body, in the
\* order of the code, or the label the handler goes to.
Admit(t, refusal, label) ==
    IF refusal = 0 THEN Goto(t, label) /\ UNCHANGED status ELSE Send(t, refusal)

LengthRefusal(length, limit) ==
    IF length < 0 THEN 411 ELSE IF length > limit THEN 413 ELSE 0

-----------------------------------------------------------------------------
(* PUT /admin/v1/artifacts/{path}                                           *)

\* A name is taken, by a file or a directory: what destination.exists() asks, and what
\* makes os.link fail with EEXIST.
Exists(n) == file[n] # Absent \/ n \in dirs

ArtifactRefusal(r) ==
    IF ~r.authorized THEN 401
    ELSE IF r.name = NoName THEN 400
    ELSE IF Exists(r.name) THEN 409
    ELSE IF r.checksum = NoChecksum THEN 400
    ELSE LengthRefusal(r.length, MaxUpload)

BeginArtifact(t) ==
    \E r \in Requests :
        /\ r.kind = "artifact"
        /\ Begin(t, r)
        /\ Admit(t, ArtifactRefusal(r), "mkdir")
        /\ UNCHANGED <<volume, temp, span, promises, released>>

\* destination.parent.mkdir(parents=True) and NamedTemporaryFile.  mkdir is outside
\* the try: when a parent is a file its error ends the connection with no answer.
OpenUpload(t) ==
    /\ pc[t] = "mkdir"
    /\ IF \E a \in Above[req[t].name] : file[a] # Absent
       THEN Finish(t) /\ UNCHANGED <<dirs, temp>>
       ELSE /\ dirs' = dirs \cup Above[req[t].name]
            /\ temp' = [temp EXCEPT ![t] = <<>>]
            /\ Goto(t, "read") /\ UNCHANGED <<status, span>>
    /\ UNCHANGED <<file, channel, orphans, req, gone, history>>

\* One read of the body, written to the temporary file.
ReadBlock(t) ==
    /\ pc[t] = "read"
    /\ Len(temp[t]) < req[t].length
    /\ Len(temp[t]) < Len(req[t].body)
    /\ temp' = [temp EXCEPT ![t] = Append(@, req[t].body[Len(@) + 1])]
    /\ UNCHANGED <<volume, pc, req, status, span, gone, history>>

\* MUTANT: the loop goes on after an empty read.
BodyNeverBreaks(t) == FALSE

\* The body ends before Content-Length bytes: 400.  When all of it was on its way
\* only a reset explains the failed read, and no answer can be sent any more.
BodyBreaks(t) ==
    /\ pc[t] = "read"
    /\ Len(temp[t]) < req[t].length
    /\ t \in gone
    /\ IF Len(req[t].body) < req[t].length
       THEN Send(t, 400)
       ELSE Goto(t, "unlink") /\ UNCHANGED status
    /\ UNCHANGED <<volume, req, temp, span, gone, history>>

\* MUTANT: the digests are not compared.
ChecksumUnchecked(t) == TRUE


ChecksumHolds(t) == Sha256(temp[t]) = req[t].checksum

\* fsync, then the comparison of the digests.
VerifyUpload(t) ==
    /\ pc[t] = "read"
    /\ Len(temp[t]) = req[t].length
    /\ IF ChecksumHolds(t) THEN Goto(t, "link") /\ UNCHANGED status ELSE Send(t, 422)
    /\ UNCHANGED <<volume, req, temp, span, gone, history>>

\* MUTANT: os.replace in the place of os.link.
LinkByReplacing(t) ==
    /\ pc[t] = "link"
    /\ file' = [file EXCEPT ![req[t].name] = temp[t]]
    /\ Send(t, 201)
    /\ UNCHANGED <<dirs, channel, orphans, req, temp, span, gone, history>>

\* MUTANT: an existing destination is taken for a retry that was already served.
LinkOrCreated(t) ==
    /\ pc[t] = "link"
    /\ file' = IF Exists(req[t].name) THEN file
               ELSE [file EXCEPT ![req[t].name] = temp[t]]
    /\ Send(t, 201)
    /\ UNCHANGED <<dirs, channel, orphans, req, temp, span, gone, history>>

\* os.link fails when the destination is there.
LinkArtifact(t) ==
    /\ pc[t] = "link"
    /\ IF Exists(req[t].name)
       THEN Send(t, 409) /\ UNCHANGED file
       ELSE file' = [file EXCEPT ![req[t].name] = temp[t]] /\ Send(t, 201)
    /\ UNCHANGED <<dirs, channel, orphans, req, temp, span, gone, history>>

-----------------------------------------------------------------------------
(* PUT /admin/v1/channels/{device}/{channel}                                *)

ChannelRefusal(r) ==
    IF ~r.authorized THEN 401
    ELSE IF r.name = NoName THEN 400
    ELSE LengthRefusal(r.length, ManifestLimit)

BeginChannel(t) ==
    \E r \in Requests :
        /\ r.kind = "channel"
        /\ Begin(t, r)
        /\ Admit(t, ChannelRefusal(r), "manifest")
        /\ UNCHANGED <<volume, temp, span, promises, released>>

\* _validate_manifest.  Every release is checked before any is refused or not, and
\* each refusal is the same 422, so the order of the checks is left out.
ValidManifest(document, c) ==
    /\ document # NotJson
    /\ document.schemaVersion = 1
    /\ document.channel = c
    /\ document.releasesOk
    /\ \A i, j \in DOMAIN document.packages :
           document.packages[i] = document.packages[j] => i = j

\* MUTANT: a manifest is compared with the channel it names itself.
AcceptsItsOwnChannel(t) ==
    /\ req[t].document # NotJson
    /\ ValidManifest(req[t].document, req[t].document.channel)

Accepts(t) == ValidManifest(req[t].document, req[t].name)

\* MUTANT: a short read is tried again.
ReadManifestWhole(t) ==
    /\ pc[t] = "manifest"
    /\ req[t].sent >= req[t].length
    /\ IF Accepts(t)
       THEN /\ temp' = [temp EXCEPT ![t] = Text[req[t].document]]
            /\ Goto(t, "replace")
            /\ UNCHANGED status
       ELSE Send(t, 422) /\ UNCHANGED temp
    /\ UNCHANGED <<volume, req, span, gone, history>>

\* rfile.read(length) returns short when the client stopped sending, and raises on a
\* reset, which nothing catches.  A whole body is parsed, validated, and its
\* re-encoding written to a temporary file.
ReadManifest(t) ==
    /\ pc[t] = "manifest"
    /\ \/ /\ t \in gone
          /\ IF req[t].sent < req[t].length
             THEN Send(t, 400) /\ UNCHANGED span
             ELSE Finish(t)
          /\ UNCHANGED temp
       \/ /\ req[t].sent >= req[t].length
          /\ IF Accepts(t)
             THEN /\ temp' = [temp EXCEPT ![t] = Text[req[t].document]]
                  /\ Goto(t, "replace")
                  /\ UNCHANGED <<status, span>>
             ELSE Send(t, 422) /\ UNCHANGED <<temp, span>>
    /\ UNCHANGED <<volume, req, gone, history>>

\* os.replace: the temporary file becomes the channel's document.
ReplaceChannel(t) ==
    /\ pc[t] = "replace"
    /\ channel' = [channel EXCEPT ![req[t].name] = temp[t]]
    /\ released' = [released EXCEPT ![req[t].name] = @ \cup {temp[t]}]
    /\ temp' = [temp EXCEPT ![t] = NoFile]
    /\ Send(t, 201)
    /\ UNCHANGED <<file, dirs, orphans, req, span, gone, answer, promises>>

-----------------------------------------------------------------------------
(* GET and HEAD of /artifacts/{path} and /v1/channels/{device}/{channel}     *)

ContentOf(n) == IF n \in Names THEN file[n] ELSE channel[n]

\* The is_file check of _handle_read.
BeginGet(t) ==
    \E r \in Requests :
        /\ r.kind = "get"
        /\ Begin(t, r)
        /\ LET found == r.name # NoName /\ ContentOf(r.name) # Absent
           IN  Admit(t, IF found THEN 0 ELSE 404, "stat")
        /\ UNCHANGED <<volume, temp, span, promises, released>>

SpanLength(s) == IF s[2] < s[1] THEN 0 ELSE s[2] - s[1] + 1

\* path.stat(): the size the range is parsed against and the headers announce.  A
\* HEAD, or a span of nothing, needs no body and never opens the file.
StatFile(t) ==
    /\ pc[t] = "stat"
    /\ LET size == Len(ContentOf(req[t].name))
           ranged == req[t].range # NoRange
           asked == IF ranged THEN ParseRange(req[t].range, size) ELSE <<0, size - 1>>
       IN  IF asked = Unsatisfiable
           THEN Send(t, 416) /\ UNCHANGED span
           ELSE /\ span' = [span EXCEPT ![t] = asked]
                /\ status' = [status EXCEPT ![t] = IF ranged THEN 206 ELSE 200]
                /\ Goto(t, IF req[t].sendBody /\ SpanLength(asked) > 0
                           THEN "open" ELSE "respond")
    /\ UNCHANGED <<volume, req, temp, gone, history>>

\* MUTANT: the end of the range is taken as exclusive.
BytesBefore(content, s) == SubSeq(content, s[1] + 1, LowerOf(s[2], Len(content)))

\* MUTANT: the first byte is skipped.
BytesAfter(content, s) == SubSeq(content, s[1] + 2, LowerOf(s[2] + 1, Len(content)))

\* path.open(): what a name holds now, which a replacement no longer changes; then
\* reads from the announced position until the announced length or the end.
BytesAt(content, s) == SubSeq(content, s[1] + 1, LowerOf(s[2] + 1, Len(content)))

SendFile(t) ==
    /\ pc[t] = "open"
    /\ LET n == req[t].name
           bytes == BytesAt(ContentOf(n), span[t])
           whole == status[t] = 200
       IN  \/ /\ answer' = [answer EXCEPT ![t] =
                     [ status |-> status[t], name |-> n, whole |-> whole,
                       from |-> span[t][1], length |-> SpanLength(span[t]),
                       bytes |-> bytes ]]
              /\ promises' = IF n \in Names
                             THEN promises \cup {[ name |-> n, whole |-> whole,
                                      from |-> span[t][1], bytes |-> bytes ]}
                             ELSE promises
           \/ t \in gone /\ UNCHANGED <<answer, promises>>
    /\ Finish(t)
    /\ UNCHANGED <<volume, req, temp, gone, released>>

-----------------------------------------------------------------------------
(* The volume fails: a full disk, a lost mount, an error of the device.      *)

\* mkdir(parents=True) that fails has made some of the parents, the upper ones first.
MakesSomeParents(n) ==
    \E made \in SUBSET Above[n] :
        /\ \A a \in made : file[a] = Absent /\ Above[a] \subseteq dirs \cup made
        /\ dirs' = dirs \cup made

\* An OSError, which nothing catches: the connection ends with no answer.  Where there
\* is a temporary file the finally removes it: after a failed write, flush or fsync
\* ("read"), a failed link or a failed replace.  Before it there is none: mkdir or
\* NamedTemporaryFile of an upload ("mkdir"), stat, open and read of a download.  The
\* last alternative is a whole, valid manifest that could not be written.
DiskFails(t) ==
    /\ \/ pc[t] = "mkdir" /\ MakesSomeParents(req[t].name) /\ Finish(t)
       \/ pc[t] \in {"read", "link", "replace"} /\ Goto(t, "unlink") /\ UNCHANGED <<dirs, status, span>>
       \/ pc[t] \in {"stat", "open"} /\ Finish(t) /\ UNCHANGED dirs
       \/ /\ pc[t] = "manifest" /\ req[t].sent >= req[t].length /\ Accepts(t)
          /\ Finish(t) /\ UNCHANGED dirs
    /\ UNCHANGED <<file, channel, orphans, req, temp, gone, history>>

-----------------------------------------------------------------------------
(* The end of a request, the client, and the process.                       *)

\* The 201 of an upload carries the digest and the size of what was published, so
\* its client knows the content.
AnswerOf(t) ==
    LET published == status[t] = 201 /\ req[t].kind = "artifact"
        file200 == status[t] \in {200, 206}
    IN  [ status |-> status[t], name |-> req[t].name, whole |-> published,
          from   |-> IF file200 THEN span[t][1] ELSE 0,
          length |-> IF file200 THEN SpanLength(span[t]) ELSE 0,
          bytes  |-> IF published THEN temp[t] ELSE <<>> ]

\* MUTANT: no finally removes the temporary file.
AfterAnswerLeaks(t) == Finish(t)

\* After the answer comes the finally of _publish_artifact, when it has a file.
AfterAnswer(t) ==
    IF temp[t] = NoFile THEN Finish(t)
    ELSE Goto(t, "unlink") /\ UNCHANGED <<status, span>>

\* _send_json, or the headers of a file without a body.  To a client that has gone
\* the answer may be lost: the error is a ConnectionError, whose handler in
\* _publish_artifact fails to send its 400 the same way.
Respond(t) ==
    /\ pc[t] = "respond"
    /\ \/ /\ answer' = [answer EXCEPT ![t] = AnswerOf(t)]
          /\ promises' = IF AnswerOf(t).whole
                         THEN promises \cup {[ name |-> req[t].name, whole |-> TRUE,
                                               from |-> 0, bytes |-> temp[t] ]}
                         ELSE promises
       \/ t \in gone /\ UNCHANGED <<answer, promises>>
    /\ AfterAnswer(t)
    /\ UNCHANGED <<volume, req, temp, gone, released>>

\* The finally of _publish_artifact, or of _publish_channel after a failed replace.
UnlinkTemp(t) ==
    /\ pc[t] = "unlink"
    /\ temp' = [temp EXCEPT ![t] = NoFile]
    /\ Finish(t)
    /\ UNCHANGED <<volume, req, gone, history>>

\* The client closes its connection; or only its sending half, to read the answer.
ClientCloses(t) ==
    /\ pc[t] # "idle"
    /\ t \notin gone
    /\ gone' = gone \cup {t}
    /\ UNCHANGED <<volume, pc, req, temp, status, span, history>>

WithTemp == { t \in Threads : temp[t] # NoFile }

\* The process stops and is started again on the same volume: by SIGTERM (main: the
\* handler threads are daemons, so none is waited for) or by a crash.  prepare()
\* makes the two directories if they are missing and removes nothing.
Restart ==
    /\ \E t \in Threads : pc[t] # "idle"
    /\ orphans + Cardinality(WithTemp) <= MaxOrphans
    /\ orphans' = orphans + Cardinality(WithTemp)
    /\ pc' = [t \in Threads |-> "idle"]
    /\ temp' = [t \in Threads |-> NoFile]
    /\ gone' = {}
    /\ answer' = [t \in Threads |-> NoAnswer]
    /\ status' = [t \in Threads |-> 0]
    /\ span' = [t \in Threads |-> <<0, 0>>]
    /\ UNCHANGED <<file, dirs, channel, req, promises, released>>

Artifact(t) ==
    \/ OpenUpload(t) \/ ReadBlock(t) \/ BodyBreaks(t)
    \/ VerifyUpload(t) \/ LinkArtifact(t) \/ UnlinkTemp(t)

Channel(t) == ReadManifest(t) \/ ReplaceChannel(t)

Get(t) == StatFile(t) \/ SendFile(t)

\* What a thread does once it has a request.
Handle(t) == Artifact(t) \/ Channel(t) \/ Get(t) \/ Respond(t) \/ DiskFails(t)

Next ==
    \/ \E t \in Threads :
          \/ BeginArtifact(t) \/ BeginChannel(t) \/ BeginGet(t)
          \/ Handle(t)
          \/ ClientCloses(t)
    \/ Restart

Spec == Init /\ [][Next]_vars

\* What a thread does without its client: the bytes it reads next have come.
Works(t) == Artifact(t) \/ Channel(t) \/ StatFile(t)

\* wfile.write: it ends when the client takes the bytes, or is not there to take them.
Writes(t) == SendFile(t) \/ Respond(t)

\* The operating system runs every thread that can take a step.  A write to a client
\* that stays and does not read blocks (no socket timeout is set), so only the writes
\* to a client that has closed its connection, which succeed or fail, are sure to end.
FairSpec ==
    Spec /\ \A t \in Threads : WF_vars(Works(t)) /\ WF_vars(t \in gone /\ Writes(t))

-----------------------------------------------------------------------------
(* Properties.                                                              *)

Labels == { "idle", "mkdir", "read", "link", "manifest", "replace",
            "stat", "open", "respond", "unlink" }

AnswerType ==
    [ status : Nat, name : Names \cup Channels \cup {NoName}, whole : BOOLEAN,
      from : Nat, length : Nat, bytes : Contents ]

Promises == [ name : Names, whole : BOOLEAN, from : Nat, bytes : Contents ]

TypeOK ==
    /\ file \in [Names -> Contents \cup {Absent}]
    /\ dirs \subseteq Names
    /\ channel \in [Channels -> Contents \cup {Absent}]
    /\ orphans \in Nat
    /\ pc \in [Threads -> Labels]
    /\ req \in [Threads -> Requests \cup {NoRequest}]
    /\ temp \in [Threads -> Contents \cup {NoFile}]
    /\ status \in [Threads -> Nat]
    /\ span \in [Threads -> Nat \X Int]
    /\ gone \subseteq Threads
    /\ answer \in [Threads -> AnswerType]
    /\ promises \subseteq Promises
    /\ released \in [Channels -> SUBSET Contents]

\* Whatever a client was told with a 201, or downloaded (and may cache for a year as
\* "immutable"), the artifact still says: through every later upload to that name,
\* every interleaving of two uploads that both passed the existence check, every
\* failed upload and every restart.
Kept(p) ==
    /\ file[p.name] # Absent
    /\ IF p.whole THEN p.bytes = file[p.name]
       ELSE p.bytes = SubSeq(file[p.name], p.from + 1, p.from + Len(p.bytes))

PromisesKept == \A p \in promises : Kept(p)

\* A published artifact is, at every moment, the whole body of one authorized request
\* for that name, and it has the digest that request announced: never a part of a
\* body, a body with a wrong digest, or what two handlers wrote.
OnlyCheckedUploads ==
    \A n \in Names : file[n] # Absent =>
        \E r \in Requests :
            /\ r.kind = "artifact" /\ r.authorized /\ r.name = n
            /\ r.checksum = Sha256(file[n])
            /\ Len(file[n]) = r.length /\ r.length <= MaxUpload

\* A channel always holds one valid manifest, made for that channel, as a whole.
ChannelsAreValid ==
    \A c \in Channels : channel[c] # Absent =>
        \E d \in Documents : ValidManifest(d, c) /\ channel[c] = Text[d]

\* A handler that is done, by whatever exit, a volume that fails included, has left no
\* temporary file.
DoneHandlersCleanUp == \A t \in Threads : pc[t] = "idle" => temp[t] = NoFile

\* A download of an artifact delivers exactly the positions its Range header asks
\* for, and as many bytes as its headers announced, although the size was taken
\* from the name before the file was opened by name a second time.
RangesAreExact ==
    \A t \in Threads :
        LET a == answer[t]
            size == Len(file[a.name])
            asked == IF req[t].range = NoRange THEN 0 .. size - 1
                     ELSE AskedPositions(req[t].range, size)
        IN  (pc[t] = "idle" /\ a.status # 0 /\ req[t].kind = "get" /\ a.name \in Names)
            => CASE a.status \in {200, 206} ->
                      /\ Cardinality(asked) = a.length
                      /\ req[t].sendBody =>
                            /\ a.from .. a.from + Len(a.bytes) - 1 = asked
                            /\ \A p \in asked : a.bytes[p - a.from + 1] = file[a.name][p + 1]
                 [] a.status = 416 -> asked = {}
                 [] OTHER -> TRUE

\* Every manifest a client downloads is a prefix of a manifest the channel had: the
\* announced length may be another version's (see ChannelAnswersAreWhole).
ManifestsAreReleased ==
    \A t \in Threads :
        (answer[t].status = 200 /\ answer[t].name \in Channels) =>
            \E text \in released[answer[t].name] :
                /\ Len(answer[t].bytes) <= Len(text)
                /\ answer[t].bytes = SubSeq(text, 1, Len(answer[t].bytes))

\* The store that clients see: ReleaseStore with file and channel as its variables.
\* An answer is something told about an artifact when it creates it or shows its bytes.
Claim(a) ==
    IF a.status \in {200, 201, 206} /\ a.name \in Names
    THEN [about |-> a.name, whole |-> a.whole, from |-> a.from, bytes |-> a.bytes]
    ELSE NoAnswer

Store == INSTANCE ReleaseStore WITH
    Clients <- Threads, Silence <- NoAnswer, store <- file, pointer <- channel,
    told <- [t \in Threads |-> Claim(answer[t])]

\* The server implements the store: names written once and whole, channels replaced as
\* a whole, and every answer about an artifact true when it is given.
ImplementsStore == Store!Spec

\* A handler that waits for its client, for bytes that it does not send or to take
\* those that it is sent (the server sets no timeout), while the connection is open.
Waits(t) ==
    /\ t \notin gone
    /\ \/ pc[t] = "read" /\ Len(req[t].body) < req[t].length
       \/ pc[t] = "manifest" /\ req[t].sent < req[t].length
       \/ pc[t] \in {"open", "respond"}

\* Every request ends, or waits for its client from some moment on and for ever: no
\* handler is held up by another handler, by a failing volume or by a client that has
\* gone, at whatever point it went.
RequestsEnd == \A t \in Threads : (pc[t] # "idle") ~> (pc[t] = "idle" \/ []Waits(t))

\* README.md:18 "Channel documents are atomically replaceable pointers": a client
\* that downloads a channel receives one of the documents it has had.
ChannelAnswersAreWhole ==
    \A t \in Threads :
        (answer[t].whole /\ answer[t].name \in Channels) =>
            answer[t].bytes \in released[answer[t].name]

\* server.py:143 "artifact already exists": an upload that is refused with 409 has
\* found an artifact of that name, or at least one below it, or one being uploaded.
ConflictMeansPublished ==
    \A t \in Threads : answer[t].status = 409 =>
        \/ \E n \in Names : /\ file[n] # Absent
                            /\ answer[t].name \in {n} \cup Above[n]
        \/ \E u \in Threads : /\ pc[u] # "idle" /\ req[u].kind = "artifact"
                              /\ answer[t].name \in Above[req[u].name]

=============================================================================
