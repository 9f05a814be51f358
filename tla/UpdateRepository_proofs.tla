----------------------- MODULE UpdateRepository_proofs -----------------------
(***************************************************************************)
(* What holds of the Android update server for any number of threads, any  *)
(* names, any contents and any requests: the safety properties of          *)
(* UpdateRepository, by an inductive invariant, and that the server        *)
(* implements ReleaseStore.                                                *)
(*                                                                         *)
(* The invariant adds to the properties what each handler knows at each    *)
(* label (Handlers): it is what a handler learned at one access to the     *)
(* volume, and it still holds at the next one because the volume only      *)
(* grows (Grows), whatever the other handlers did in between.              *)
(***************************************************************************)
EXTENDS UpdateRepository, SequenceTheorems, FiniteSetTheorems, TLAPS

\* The rules of the file system, under which the handlers race: no name is both a file
\* and a directory, and what a published name passes through are directories.
TreeShape ==
    \A n \in Names :
        /\ n \in dirs => file[n] = Absent
        /\ file[n] # Absent => Above[n] \subseteq dirs

\* The request of an upload that passed the checks before its body.
Admitted(r) ==
    /\ r \in Requests /\ r.kind = "artifact" /\ r.authorized
    /\ r.name \in Names /\ r.checksum # NoChecksum
    /\ r.length \in 0 .. MaxUpload

Uploading(t) ==
    /\ Admitted(req[t])
    /\ temp[t] \in Contents
    /\ Len(temp[t]) <= req[t].length
    /\ Above[req[t].name] \subseteq dirs

Downloading(t) ==
    /\ req[t] \in Requests /\ req[t].kind = "get"
    /\ req[t].name \in Names \cup Channels
    /\ ContentOf(req[t].name) # Absent
    /\ temp[t] = NoFile

\* The headers announced a span of the artifact that is about to be opened.
SpanFits(t) ==
    /\ span[t][1] <= span[t][2]
    /\ status[t] \in {200, 206}
    /\ req[t].name \in Names =>
          /\ span[t][2] < Len(file[req[t].name])
          /\ status[t] = 200 => span[t] = <<0, Len(file[req[t].name]) - 1>>

\* What the handler of thread t knows at each label.
Handler(t) ==
    /\ pc[t] = "idle" => temp[t] = NoFile
    /\ pc[t] = "mkdir" => Admitted(req[t]) /\ temp[t] = NoFile
    /\ pc[t] = "read" => Uploading(t)
    /\ pc[t] = "link" => /\ Uploading(t)
                         /\ Len(temp[t]) = req[t].length
                         /\ req[t].checksum = Sha256(temp[t])
    /\ pc[t] = "manifest" => /\ req[t] \in Requests /\ req[t].kind = "channel"
                             /\ req[t].name \in Channels
                             /\ temp[t] = NoFile
    /\ pc[t] = "replace" => /\ req[t] \in Requests /\ req[t].kind = "channel"
                            /\ req[t].name \in Channels
                            /\ \E d \in Documents : /\ ValidManifest(d, req[t].name)
                                                    /\ temp[t] = Text[d]
    /\ pc[t] = "stat" => Downloading(t)
    /\ pc[t] = "open" => Downloading(t) /\ SpanFits(t)
    /\ pc[t] = "respond" =>
          /\ req[t] \in Requests
          /\ status[t] = 201 =>
                \/ /\ req[t].kind = "artifact" /\ req[t].name \in Names
                   /\ temp[t] \in Contents
                   /\ file[req[t].name] = temp[t]
                \/ req[t].kind = "channel" /\ req[t].name \in Channels
          /\ status[t] \in {200, 206} => /\ req[t].kind = "get"
                                         /\ req[t].name \in Names \cup Channels
                                         /\ ContentOf(req[t].name) # Absent

Handlers == \A t \in Threads : Handler(t)

Inv == /\ TypeOK /\ Handlers
       /\ TreeShape /\ OnlyCheckedUploads /\ ChannelsAreValid /\ PromisesKept

-----------------------------------------------------------------------------
(* Ranges: the parser answers every header, for every size of file, with     *)
(* exactly the positions the header asks for.                               *)

\* The shape of the result of _parse_range: a pair of positions in the file, or None.
LEMMA ParseRangeType ==
    ASSUME NEW h \in Headers, NEW size \in Nat
    PROVE  \/ ParseRange(h, size) = Unsatisfiable
           \/ \E from, to \in 0 .. size - 1 :
                 ParseRange(h, size) = <<from, to>> /\ from <= to
<1>1. CASE ~h.bytesUnit \/ size = 0
  BY <1>1 DEF ParseRange
<1>2. CASE h.bytesUnit /\ size # 0 /\ h.first = Blank
  <2>1. CASE h.last \notin Int
    BY <1>2, <2>1, RangeConstantsDistinct
       DEF ParseRange, SuffixRange, Headers
  <2>2. CASE h.last \in Int
    BY <1>2, <2>2, RangeConstantsDistinct
       DEF ParseRange, SuffixRange, HigherOf
  <2> QED
    BY <2>1, <2>2
<1>3. CASE h.bytesUnit /\ size # 0 /\ h.first # Blank
  <2>1. CASE h.first = Garbage
    BY <1>3, <2>1 DEF ParseRange, BoundedRange
  <2>2. CASE h.first \in Nat /\ h.last \in Int
    BY <1>3, <2>2, RangeConstantsDistinct
       DEF ParseRange, BoundedRange, LowerOf
  <2>3. CASE h.first \in Nat /\ h.last = Blank
    BY <1>3, <2>3, RangeConstantsDistinct
       DEF ParseRange, BoundedRange, LowerOf
  <2>4. CASE h.last = Garbage
    BY <1>3, <2>4, RangeConstantsDistinct DEF ParseRange, BoundedRange
  <2> QED
    BY <1>3, <2>1, <2>2, <2>3, <2>4 DEF Headers
<1> QED
  BY <1>1, <1>2, <1>3

\* A 416 is sent only when the file has none of the positions asked for.
LEMMA RefusedAsksNothing ==
    ASSUME NEW h \in Headers, NEW size \in Nat,
           ParseRange(h, size) = Unsatisfiable
    PROVE  AskedPositions(h, size) = {}
<1> SUFFICES ASSUME NEW p \in 0 .. size - 1, Asks(h, p, size) PROVE FALSE
  BY DEF AskedPositions
<1>1. CASE h.first = Blank
  <2>1. h.bytesUnit /\ h.last \in Int /\ p >= size - h.last
    BY <1>1, RangeConstantsDistinct DEF Asks
  <2>2. size # 0 /\ h.last > 0
    BY <2>1
  <2>3. ParseRange(h, size) = <<HigherOf(0, size - h.last), size - 1>>
    BY <1>1, <2>1, <2>2, RangeConstantsDistinct DEF ParseRange, SuffixRange
  <2>4. ParseRange(h, size) \in Nat \X Nat
    BY <2>1, <2>2, <2>3 DEF HigherOf
  <2> QED
    BY <2>4, RangeConstantsDistinct
<1>2. CASE h.first # Blank
  <2>1. h.bytesUnit /\ h.first \in Nat /\ p >= h.first
    BY <1>2 DEF Asks
  <2>2. h.last = Blank \/ (h.last \in Int /\ p <= h.last)
    BY <1>2 DEF Asks
  <2> DEFINE end == IF h.last = Blank THEN size - 1 ELSE h.last
  <2>3. end \in Int /\ end >= h.first /\ h.first < size /\ size # 0
    BY <2>1, <2>2, RangeConstantsDistinct
  <2>4. ParseRange(h, size) = <<h.first, LowerOf(end, size - 1)>>
    BY <1>2, <2>1, <2>3, RangeConstantsDistinct DEF ParseRange, BoundedRange
  <2>5. LowerOf(end, size - 1) \in Nat
    BY <2>1, <2>3 DEF LowerOf
  <2> QED
    BY <2>1, <2>4, <2>5, RangeConstantsDistinct
<1> QED
  BY <1>1, <1>2

\* _parse_range (server.py:337) answers every header, for a file of any size, with
\* the positions it asks for and no others, and refuses it exactly when there is none.
THEOREM ParseRangeExact ==
    ASSUME NEW h \in Headers, NEW size \in Nat
    PROVE  LET r == ParseRange(h, size)
           IN  IF r = Unsatisfiable THEN AskedPositions(h, size) = {}
               ELSE /\ AskedPositions(h, size) = r[1] .. r[2]
                    /\ AskedPositions(h, size) # {}
<1> DEFINE r == ParseRange(h, size)
<1>1. CASE r = Unsatisfiable
  BY <1>1, RefusedAsksNothing
<1>2. CASE r # Unsatisfiable
  <2>1. PICK from \in 0 .. size - 1, to \in 0 .. size - 1 :
             r = <<from, to>> /\ from <= to
    BY <1>2, ParseRangeType
  <2>2. h.bytesUnit /\ size # 0
    BY <1>2 DEF ParseRange
  <2>3. ASSUME NEW p \in 0 .. size - 1
        PROVE  Asks(h, p, size) <=> p \in from .. to
    <3>1. CASE h.first = Blank
      <4>1. h.last \in Int /\ h.last > 0
        BY <1>2, <2>2, <3>1, RangeConstantsDistinct
           DEF ParseRange, SuffixRange, Headers
      <4>2. r = <<HigherOf(0, size - h.last), size - 1>>
        BY <2>2, <3>1, <4>1, RangeConstantsDistinct DEF ParseRange, SuffixRange
      <4>3. from = HigherOf(0, size - h.last) /\ to = size - 1
        BY <2>1, <4>2
      <4> QED
        BY <2>2, <3>1, <4>1, <4>3, RangeConstantsDistinct DEF Asks, HigherOf
    <3>2. CASE h.first # Blank
      <4> DEFINE end == IF h.last = Blank THEN size - 1 ELSE h.last
      <4>1. r = BoundedRange(h.first, h.last, size)
        BY <2>2, <3>2 DEF ParseRange
      <4>2. h.first \in Nat /\ end \in Int
        BY <1>2, <3>2, <4>1, RangeConstantsDistinct DEF BoundedRange, Headers
      <4>3. r = <<h.first, LowerOf(end, size - 1)>>
        BY <1>2, <4>1 DEF BoundedRange
      <4>4. from = h.first /\ to = LowerOf(end, size - 1)
        BY <2>1, <4>3
      <4> QED
        BY <2>2, <3>2, <4>2, <4>4, RangeConstantsDistinct DEF Asks, LowerOf
    <3> QED
      BY <3>1, <3>2
  <2>4. AskedPositions(h, size) = from .. to
    BY <2>1, <2>3 DEF AskedPositions
  <2>5. r[1] = from /\ r[2] = to /\ from \in from .. to
    BY <2>1
  <2> QED
    BY <1>2, <2>4, <2>5
<1> QED
  BY <1>1, <1>2

-----------------------------------------------------------------------------
(* Requests and refusals.                                                   *)

\* The three kinds of request are told apart by their kind.
LEMMA RequestKinds ==
    ASSUME NEW r \in Requests
    PROVE  /\ r.kind = "artifact" => r \in ArtifactPuts
           /\ r.kind = "channel" => r \in ChannelPuts
           /\ r.kind = "get" => r \in Gets
           /\ r.name \in Names \cup Channels \cup {NoName}
BY RepositoryAssumption DEF ArtifactPuts, ChannelPuts, Gets

\* An upload that no check refuses is admitted (server.py:137-153).
LEMMA AdmittedUpload ==
    ASSUME NEW r \in Requests, r.kind = "artifact"
    PROVE  /\ ArtifactRefusal(r) = 0 => Admitted(r)
           /\ ArtifactRefusal(r) \in {0, 400, 401, 409, 411, 413}
<1>1. r \in ArtifactPuts
  BY RequestKinds
<1> QED
  BY <1>1, RepositoryAssumption
     DEF ArtifactRefusal, LengthRefusal, Admitted, ArtifactPuts

\* The same for a channel (server.py:199-208).
LEMMA AdmittedManifest ==
    ASSUME NEW r \in Requests, r.kind = "channel"
    PROVE  /\ ChannelRefusal(r) = 0 => r.name \in Channels
           /\ ChannelRefusal(r) \in {0, 400, 401, 411, 413}
<1>1. r \in ChannelPuts
  BY RequestKinds
<1> QED
  BY <1>1, RepositoryAssumption DEF ChannelRefusal, LengthRefusal, ChannelPuts

\* _validate_manifest accepts documents only.
LEMMA ValidIsDocument ==
    ASSUME NEW r \in Requests, r.kind = "channel", NEW c, ValidManifest(r.document, c)
    PROVE  r.document \in Documents /\ Text[r.document] \in Contents
BY RequestKinds, RepositoryAssumption DEF ValidManifest, ChannelPuts

-----------------------------------------------------------------------------
(* The volume only grows.                                                   *)

Grows ==
    /\ \A n \in Names : file[n] # Absent => file'[n] = file[n]
    /\ dirs \subseteq dirs'
    /\ \A c \in Channels : channel[c] # Absent => channel'[c] # Absent

\* What is left of a handler whose access to the volume fails, and of the volume.
LEMMA DiskFailures ==
    ASSUME NEW t \in Threads, DiskFails(t)
    PROVE  /\ UNCHANGED <<file, channel, orphans, req, temp, gone, history>>
           /\ \/ pc[t] \in {"mkdir", "stat", "open", "manifest"} /\ Finish(t)
              \/ /\ pc[t] \in {"read", "link", "replace"} /\ Goto(t, "unlink")
                 /\ UNCHANGED <<status, span>>
           /\ \/ dirs' = dirs
              \/ pc[t] = "mkdir" /\ MakesSomeParents(req[t].name)
           /\ dirs \subseteq dirs'
BY DEF DiskFails, MakesSomeParents

\* No step takes an artifact, a directory or a channel away, or changes an artifact.
LEMMA StepGrows ==
    ASSUME TypeOK, Handlers, [Next]_vars
    PROVE  Grows
<1>1. ASSUME NEW t \in Threads, LinkArtifact(t) PROVE Grows
  BY <1>1 DEF LinkArtifact, Exists, Grows, TypeOK
<1>2. ASSUME NEW t \in Threads, ReplaceChannel(t) PROVE Grows
  <2>1. /\ req[t] \in Requests /\ req[t].kind = "channel" /\ req[t].name \in Channels
        /\ temp[t] \in Contents
    BY <1>2, RepositoryAssumption DEF ReplaceChannel, Handlers, Handler
  <2> QED
    BY <1>2, <2>1, RepositoryAssumption DEF ReplaceChannel, Grows, TypeOK
<1>3. ASSUME NEW t \in Threads, OpenUpload(t) PROVE Grows
  BY <1>3 DEF OpenUpload, Grows
<1>4. ASSUME NEW t \in Threads, DiskFails(t) PROVE Grows
  BY <1>4, DiskFailures DEF Grows
<1>5. CASE UNCHANGED <<file, dirs, channel>>
  BY <1>5 DEF Grows
<1> QED
  BY <1>1, <1>2, <1>3, <1>4, <1>5
     DEF Next, Handle, Artifact, Channel, Get, BeginArtifact, BeginChannel, BeginGet,
         ReadBlock, BodyBreaks, VerifyUpload, ReadManifest, StatFile, SendFile,
         Respond, UnlinkTemp, ClientCloses, Restart, vars, volume

\* What a handler knows survives the steps of the others.
LEMMA OtherHandler ==
    ASSUME TypeOK, Grows, NEW t \in Threads, Handler(t),
           pc'[t] = pc[t], req'[t] = req[t], temp'[t] = temp[t],
           status'[t] = status[t], span'[t] = span[t]
    PROVE  Handler(t)'
<1>1. ASSUME NEW n \in Names \cup Channels, ContentOf(n) # Absent
      PROVE  ContentOf(n)' # Absent
  BY <1>1 DEF ContentOf, Grows
<1>2. Uploading(t) => Uploading(t)'
  BY DEF Uploading, Admitted, Grows
<1>3. Downloading(t) => Downloading(t)'
  BY <1>1 DEF Downloading
<1>4. Downloading(t) /\ SpanFits(t) => SpanFits(t)'
  BY DEF Downloading, SpanFits, Grows, ContentOf
<1>5. (pc[t] = "respond")' =>
          /\ req[t] \in Requests
          /\ status[t] = 201 =>
                \/ /\ req[t].kind = "artifact" /\ req[t].name \in Names
                   /\ temp[t] \in Contents
                   /\ file'[req[t].name] = temp[t]
                \/ req[t].kind = "channel" /\ req[t].name \in Channels
          /\ status[t] \in {200, 206} => /\ req[t].kind = "get"
                                         /\ req[t].name \in Names \cup Channels
                                         /\ ContentOf(req[t].name)' # Absent
  BY <1>1, RepositoryAssumption DEF Handler, Grows
<1> QED
  BY <1>2, <1>3, <1>4, <1>5 DEF Handler, Admitted

-----------------------------------------------------------------------------
(* Types.                                                                   *)

\* The answer a handler sends is an answer, and a promise a promise.
LEMMA AnswerOfType ==
    ASSUME TypeOK, NEW t \in Threads, pc[t] = "respond", Handler(t)
    PROVE  /\ AnswerOf(t) \in AnswerType
           /\ AnswerOf(t).whole =>
                 [name |-> req[t].name, whole |-> TRUE, from |-> 0, bytes |-> temp[t]]
                    \in Promises
<1>1. req[t].name \in Names \cup Channels \cup {NoName}
  BY RequestKinds DEF Handler
<1>2. /\ span[t][1] \in Nat /\ span[t][2] \in Int /\ status[t] \in Nat
      /\ SpanLength(span[t]) \in Nat
  BY DEF TypeOK, SpanLength
<1>3. <<>> \in Contents
  BY EmptySeq DEF Contents
<1> DEFINE published == status[t] = 201 /\ req[t].kind = "artifact"
<1>4. CASE published
  <2>1. temp[t] \in Contents /\ req[t].name \in Names
    BY <1>4 DEF Handler
  <2> QED
    BY <1>2, <1>4, <2>1 DEF AnswerOf, AnswerType, Promises
<1>5. CASE ~published
  BY <1>1, <1>2, <1>3, <1>5 DEF AnswerOf, AnswerType
<1> QED
  BY <1>4, <1>5

\* What SendFile reads from an open file is a content.
LEMMA BytesAtType ==
    ASSUME NEW c \in Contents, NEW s \in Nat \X Int, s[1] <= s[2]
    PROVE  BytesAt(c, s) \in Contents
<1> DEFINE hi == LowerOf(s[2] + 1, Len(c))
<1>1. Len(c) \in Nat /\ c \in [1 .. Len(c) -> Blocks]
  BY LenProperties DEF Contents
<1>2. hi \in Int /\ hi <= Len(c)
  BY <1>1 DEF LowerOf
<1>3. \A i \in s[1] + 1 .. hi : c[i] \in Blocks
  BY <1>1, <1>2
<1> HIDE DEF hi
<1>4. SubSeq(c, s[1] + 1, hi) \in Seq(Blocks)
  BY <1>2, <1>3, SubSeqProperties
<1> QED
  BY <1>4 DEF BytesAt, Contents, hi

\* The bytes of a span that lies in the artifact are the artifact's at that place, and
\* a span that is all of it gives all of it.
LEMMA BytesAtFits ==
    ASSUME NEW c \in Contents, NEW s \in Nat \X Int, s[1] <= s[2], s[2] < Len(c)
    PROVE  /\ BytesAt(c, s) = SubSeq(c, s[1] + 1, s[1] + Len(BytesAt(c, s)))
           /\ Len(BytesAt(c, s)) = SpanLength(s)
           /\ s = <<0, Len(c) - 1>> => BytesAt(c, s) = c
<1>1. Len(c) \in Nat /\ c \in [1 .. Len(c) -> Blocks]
  BY LenProperties DEF Contents
<1>2. BytesAt(c, s) = SubSeq(c, s[1] + 1, s[2] + 1)
  BY <1>1, SMTT(30) DEF BytesAt, LowerOf
<1>3. \A i \in s[1] + 1 .. s[2] + 1 : c[i] \in Blocks
  BY <1>1
<1>4. Len(SubSeq(c, s[1] + 1, s[2] + 1)) = s[2] - s[1] + 1
  BY <1>3, SubSeqProperties
<1>5. s = <<0, Len(c) - 1>> => SubSeq(c, s[1] + 1, s[2] + 1) = c
  <2> SUFFICES ASSUME s = <<0, Len(c) - 1>> PROVE SubSeq(c, s[1] + 1, s[2] + 1) = c
    OBVIOUS
  <2>1. s[1] + 1 = 1 /\ s[2] + 1 = Len(c)
    BY <1>1
  <2> QED
    BY <2>1, SubSeqFull DEF Contents
<1>6. s[1] \in Int /\ s[2] \in Int
  OBVIOUS
<1>7. Len(BytesAt(c, s)) = s[2] - s[1] + 1
  BY <1>2, <1>4
<1>8. s[1] + Len(BytesAt(c, s)) = s[2] + 1
  BY <1>6, <1>7
<1>9. Len(BytesAt(c, s)) = SpanLength(s)
  BY <1>6, <1>7 DEF SpanLength
<1>10. BytesAt(c, s) = SubSeq(c, s[1] + 1, s[1] + Len(BytesAt(c, s)))
  BY <1>2, <1>8
<1> QED
  BY <1>2, <1>5, <1>9, <1>10

\* _parse_range yields positions: None or a pair that the handler may announce.
LEMMA AskedSpan ==
    ASSUME NEW r \in Gets, NEW size \in Nat
    PROVE  LET asked == IF r.range # NoRange THEN ParseRange(r.range, size)
                        ELSE <<0, size - 1>>
           IN  \/ asked = Unsatisfiable /\ r.range # NoRange
               \/ /\ asked \in Nat \X Int /\ asked # Unsatisfiable
                  /\ asked[2] < size
                  /\ r.range # NoRange => asked[1] <= asked[2]
<1>1. CASE r.range = NoRange
  BY <1>1, RangeConstantsDistinct
<1>2. CASE r.range # NoRange
  <2>1. r.range \in Headers
    BY <1>2 DEF Gets
  <2> QED
    BY <1>2, <2>1, ParseRangeType, RangeConstantsDistinct
<1> QED
  BY <1>1, <1>2

\* The ways a handler moves on keep the types of its locals.
LEMMA MoveTypes ==
    ASSUME TypeOK, NEW t \in Threads
    PROVE  /\ Finish(t) => /\ pc' \in [Threads -> Labels]
                           /\ status' \in [Threads -> Nat]
                           /\ span' \in [Threads -> Nat \X Int]
           /\ \A code \in Nat : Send(t, code) =>
                 pc' \in [Threads -> Labels] /\ status' \in [Threads -> Nat]
           /\ \A label \in Labels : Goto(t, label) => pc' \in [Threads -> Labels]
<1>1. \A label \in Labels : Goto(t, label) => pc' \in [Threads -> Labels]
  BY DEF Goto, TypeOK
<1>2. "idle" \in Labels /\ "respond" \in Labels /\ <<0, 0>> \in Nat \X Int
  BY DEF Labels
<1>3. Finish(t) => /\ status' \in [Threads -> Nat]
                   /\ span' \in [Threads -> Nat \X Int]
  BY <1>2 DEF Finish, TypeOK
<1> QED
  BY <1>1, <1>2, <1>3 DEF Finish, Send, TypeOK

\* Every step keeps the types.
LEMMA StepTypes ==
    ASSUME TypeOK, Handlers, [Next]_vars
    PROVE  TypeOK'
<1>1. ASSUME NEW t \in Threads, BeginArtifact(t) PROVE TypeOK'
  <2>1. PICK r \in Requests : r.kind = "artifact" /\ Begin(t, r)
                              /\ Admit(t, ArtifactRefusal(r), "mkdir")
    BY <1>1 DEF BeginArtifact
  <2>2. ArtifactRefusal(r) \in Nat
    BY <2>1, AdmittedUpload
  <2>3. UNCHANGED <<volume, temp, span, promises, released>>
    BY <1>1 DEF BeginArtifact
  <2>4. NoAnswer \in AnswerType
    BY EmptySeq DEF NoAnswer, AnswerType, Contents
  <2> QED
    BY <2>1, <2>2, <2>3, <2>4 DEF Begin, Admit, Send, Goto, Labels, TypeOK, volume
<1>2. ASSUME NEW t \in Threads, BeginChannel(t) PROVE TypeOK'
  <2>1. PICK r \in Requests : r.kind = "channel" /\ Begin(t, r)
                              /\ Admit(t, ChannelRefusal(r), "manifest")
    BY <1>2 DEF BeginChannel
  <2>2. ChannelRefusal(r) \in Nat
    BY <2>1, AdmittedManifest
  <2>3. UNCHANGED <<volume, temp, span, promises, released>>
    BY <1>2 DEF BeginChannel
  <2>4. NoAnswer \in AnswerType
    BY EmptySeq DEF NoAnswer, AnswerType, Contents
  <2> QED
    BY <2>1, <2>2, <2>3, <2>4 DEF Begin, Admit, Send, Goto, Labels, TypeOK, volume
<1>3. ASSUME NEW t \in Threads, BeginGet(t) PROVE TypeOK'
  <2>1. PICK r \in Requests, code \in {0, 404} :
             Begin(t, r) /\ Admit(t, code, "stat")
    BY <1>3 DEF BeginGet
  <2>2. UNCHANGED <<volume, temp, span, promises, released>>
    BY <1>3 DEF BeginGet
  <2>3. NoAnswer \in AnswerType
    BY EmptySeq DEF NoAnswer, AnswerType, Contents
  <2> QED
    BY <2>1, <2>2, <2>3 DEF Begin, Admit, Send, Goto, Labels, TypeOK, volume
<1>4. ASSUME NEW t \in Threads, OpenUpload(t) PROVE TypeOK'
  <2>1. req[t].name \in Names /\ <<>> \in Contents
    BY <1>4, EmptySeq DEF OpenUpload, Handlers, Handler, Admitted, Contents
  <2>2. Above[req[t].name] \subseteq Names
    BY <2>1, RepositoryAssumption
  <2>3. temp' \in [Threads -> Contents \cup {NoFile}] /\ dirs' \subseteq Names
    BY <1>4, <2>1, <2>2 DEF OpenUpload, TypeOK
  <2>4. "read" \in Labels
    BY DEF Labels
  <2> QED
    BY <1>4, <2>1, <2>2, <2>3, <2>4, MoveTypes DEF OpenUpload, TypeOK, history
<1>5. ASSUME NEW t \in Threads, ReadBlock(t) PROVE TypeOK'
  <2>1. req[t] \in ArtifactPuts /\ temp[t] \in Contents
    BY <1>5, RequestKinds DEF ReadBlock, Handlers, Handler, Uploading, Admitted
  <2>2. Len(temp[t]) \in Nat /\ Len(req[t].body) \in Nat /\ req[t].body \in Contents
    BY <2>1, LenProperties DEF Contents, ArtifactPuts
  <2>3. req[t].body[Len(temp[t]) + 1] \in Blocks
    BY <1>5, <2>2, ElementOfSeq DEF ReadBlock, Contents
  <2>4. Append(temp[t], req[t].body[Len(temp[t]) + 1]) \in Contents
    BY <2>1, <2>3, AppendProperties DEF Contents
  <2> QED
    BY <1>5, <2>4 DEF ReadBlock, TypeOK, volume, history
<1>6. ASSUME NEW t \in Threads, BodyBreaks(t) \/ VerifyUpload(t) PROVE TypeOK'
  <2>1. "link" \in Labels /\ "unlink" \in Labels /\ 400 \in Nat /\ 422 \in Nat
    BY DEF Labels
  <2>2. pc' \in [Threads -> Labels] /\ status' \in [Threads -> Nat]
    BY <1>6, <2>1, MoveTypes DEF BodyBreaks, VerifyUpload, TypeOK
  <2> QED
    BY <1>6, <2>2 DEF BodyBreaks, VerifyUpload, TypeOK, volume, history
<1>7. ASSUME NEW t \in Threads, LinkArtifact(t) PROVE TypeOK'
  <2>1. temp[t] \in Contents
    BY <1>7 DEF LinkArtifact, Handlers, Handler, Uploading
  <2>2. pc' \in [Threads -> Labels] /\ status' \in [Threads -> Nat]
    BY <1>7, MoveTypes DEF LinkArtifact
  <2>3. file' \in [Names -> Contents \cup {Absent}]
    BY <1>7, <2>1 DEF LinkArtifact, TypeOK
  <2> QED
    BY <1>7, <2>1, <2>2, <2>3 DEF LinkArtifact, TypeOK, history
<1>8. ASSUME NEW t \in Threads, ReadManifest(t) PROVE TypeOK'
  <2>1. req[t] \in Requests /\ req[t].kind = "channel"
    BY <1>8 DEF ReadManifest, Handlers, Handler
  <2>2. ValidManifest(req[t].document, req[t].name) => Text[req[t].document] \in Contents
    BY <2>1, ValidIsDocument
  <2> QED
    BY <1>8, <2>2 DEF ReadManifest, Accepts, Send, Finish, Goto, Labels, TypeOK, volume, history
<1>9. ASSUME NEW t \in Threads, ReplaceChannel(t) PROVE TypeOK'
  <2>1. req[t].name \in Channels /\ temp[t] \in Contents
    BY <1>9, RepositoryAssumption DEF ReplaceChannel, Handlers, Handler
  <2> QED
    BY <1>9, <2>1 DEF ReplaceChannel, Send, Goto, Labels, TypeOK
<1>10. ASSUME NEW t \in Threads, StatFile(t) PROVE TypeOK'
  <2> DEFINE n == req[t].name
             size == Len(ContentOf(n))
             asked == IF req[t].range # NoRange THEN ParseRange(req[t].range, size)
                      ELSE <<0, size - 1>>
  <2>1. Downloading(t)
    BY <1>10 DEF StatFile, Handlers, Handler
  <2>2. ContentOf(n) \in Contents
    BY <2>1 DEF Downloading, ContentOf, TypeOK
  <2>3. size \in Nat /\ req[t] \in Gets
    BY <2>1, <2>2, LenProperties, RequestKinds DEF Contents, Downloading
  <2>4. asked = Unsatisfiable \/ asked \in Nat \X Int
    BY <2>3, AskedSpan
  <2>5. /\ asked = Unsatisfiable => UNCHANGED span
        /\ asked # Unsatisfiable => span' = [span EXCEPT ![t] = asked]
    BY <1>10 DEF StatFile
  <2>6. span' \in [Threads -> Nat \X Int]
    BY <2>4, <2>5 DEF TypeOK
  <2>7. status' \in [Threads -> Nat] /\ pc' \in [Threads -> Labels]
    <3>1. "open" \in Labels /\ "respond" \in Labels
      BY DEF Labels
    <3>2. CASE asked = Unsatisfiable
      BY <1>10, <3>2, MoveTypes DEF StatFile
    <3>3. CASE asked # Unsatisfiable
      <4>1. /\ status' = [status EXCEPT ![t] = IF req[t].range # NoRange THEN 206 ELSE 200]
            /\ Goto(t, "open") \/ Goto(t, "respond")
        BY <1>10, <3>3 DEF StatFile
      <4> QED
        BY <3>1, <4>1, MoveTypes DEF TypeOK
    <3> QED
      BY <3>2, <3>3
  <2> QED
    BY <1>10, <2>6, <2>7 DEF StatFile, TypeOK, volume, history
<1>11. ASSUME NEW t \in Threads, SendFile(t) PROVE TypeOK'
  <2> DEFINE n == req[t].name
             bytes == BytesAt(ContentOf(n), span[t])
  <2>1. Downloading(t) /\ SpanFits(t)
    BY <1>11 DEF SendFile, Handlers, Handler
  <2>2. ContentOf(n) \in Contents /\ span[t] \in Nat \X Int /\ status[t] \in Nat
    BY <2>1 DEF Downloading, ContentOf, TypeOK
  <2>3. bytes \in Contents /\ SpanLength(span[t]) \in Nat
    BY <2>1, <2>2, BytesAtType DEF SpanFits, SpanLength
  <2> HIDE DEF bytes
  <2>4. answer' \in [Threads -> AnswerType]
    <3> DEFINE a == [ status |-> status[t], name |-> n, whole |-> status[t] = 200,
                      from |-> span[t][1], length |-> SpanLength(span[t]),
                      bytes |-> bytes ]
    <3>1. a \in AnswerType
      BY <2>1, <2>2, <2>3 DEF Downloading, AnswerType
    <3>2. answer' = [answer EXCEPT ![t] = a] \/ answer' = answer
      BY <1>11 DEF SendFile, bytes
    <3> QED
      BY <3>1, <3>2 DEF TypeOK
  <2>5. promises' \subseteq Promises
    <3> DEFINE p == [ name |-> n, whole |-> status[t] = 200,
                      from |-> span[t][1], bytes |-> bytes ]
    <3>1. n \in Names => p \in Promises
      BY <2>2, <2>3 DEF Promises
    <3>2. promises' = promises \/ (n \in Names /\ promises' = promises \cup {p})
      BY <1>11 DEF SendFile, bytes
    <3> QED
      BY <3>1, <3>2 DEF TypeOK
  <2> QED
    BY <1>11, <2>4, <2>5, MoveTypes DEF SendFile, TypeOK, volume
<1>12. ASSUME NEW t \in Threads, Respond(t) PROVE TypeOK'
  <2>1. /\ AnswerOf(t) \in AnswerType
        /\ AnswerOf(t).whole =>
              [name |-> req[t].name, whole |-> TRUE, from |-> 0, bytes |-> temp[t]]
                 \in Promises
    BY <1>12, AnswerOfType DEF Respond, Handlers
  <2>2. /\ pc' \in [Threads -> Labels] /\ status' \in [Threads -> Nat]
        /\ span' \in [Threads -> Nat \X Int]
    <3>1. "unlink" \in Labels
      BY DEF Labels
    <3> QED
      BY <1>12, <3>1, MoveTypes DEF Respond, AfterAnswer, TypeOK
  <2>3. answer' \in [Threads -> AnswerType] /\ promises' \subseteq Promises
    BY <1>12, <2>1 DEF Respond, TypeOK
  <2> QED
    BY <1>12, <2>2, <2>3 DEF Respond, TypeOK, volume
<1>13. ASSUME NEW t \in Threads, UnlinkTemp(t) PROVE TypeOK'
  BY <1>13 DEF UnlinkTemp, Finish, Goto, Labels, TypeOK, volume, history
<1>14. ASSUME NEW t \in Threads, ClientCloses(t) PROVE TypeOK'
  BY <1>14 DEF ClientCloses, TypeOK, volume, history
<1>15. CASE Restart
  <2>1. Cardinality(WithTemp) \in Nat
    BY RepositoryAssumption, FS_Subset, FS_CardinalityType DEF WithTemp
  <2>2. NoAnswer \in AnswerType
    BY EmptySeq DEF NoAnswer, AnswerType, Contents
  <2> QED
    BY <1>15, <2>1, <2>2 DEF Restart, Labels, TypeOK
<1>16. CASE UNCHANGED vars
  BY <1>16 DEF vars, volume, history, TypeOK
<1>17. ASSUME NEW t \in Threads, DiskFails(t) PROVE TypeOK'
  <2>1. dirs' \subseteq Names
    <3>1. CASE dirs' = dirs
      BY <3>1 DEF TypeOK
    <3>2. CASE pc[t] = "mkdir" /\ MakesSomeParents(req[t].name)
      <4>1. Above[req[t].name] \subseteq Names
        BY <3>2, RepositoryAssumption DEF Handlers, Handler, Admitted
      <4> QED
        BY <3>2, <4>1 DEF MakesSomeParents, TypeOK
    <3> QED
      BY <1>17, <3>1, <3>2, DiskFailures
  <2>2. "unlink" \in Labels
    BY DEF Labels
  <2>3. /\ pc' \in [Threads -> Labels] /\ status' \in [Threads -> Nat]
        /\ span' \in [Threads -> Nat \X Int]
    BY <1>17, <2>2, DiskFailures, MoveTypes DEF TypeOK
  <2> QED
    BY <1>17, <2>1, <2>3, DiskFailures DEF TypeOK, history
<1> QED
  BY <1>1, <1>2, <1>3, <1>4, <1>5, <1>6, <1>7, <1>8, <1>9, <1>10, <1>11, <1>12,
     <1>13, <1>14, <1>15, <1>16, <1>17 DEF Next, Handle, Artifact, Channel, Get

-----------------------------------------------------------------------------
(* What each handler knows.                                                 *)

\* Only thread t moves, and what the others know they still know.
LEMMA OthersKeep ==
    ASSUME TypeOK, Handlers, Grows, NEW t \in Threads,
           \A u \in Threads \ {t} :
               /\ pc'[u] = pc[u] /\ req'[u] = req[u] /\ temp'[u] = temp[u]
               /\ status'[u] = status[u] /\ span'[u] = span[u],
           Handler(t)'
    PROVE  Handlers'
<1>1. ASSUME NEW u \in Threads \ {t} PROVE Handler(u)'
  BY <1>1, OtherHandler DEF Handlers
<1> QED
  BY <1>1 DEF Handlers

\* A handler that is about to answer with an error knows nothing.
LEMMA Answering ==
    ASSUME NEW t \in Threads, pc'[t] = "respond", status'[t] \notin {200, 201, 206},
           req'[t] \in Requests
    PROVE  Handler(t)'
BY DEF Handler

LEMMA StepHandlers ==
    ASSUME TypeOK, Handlers, TreeShape, [Next]_vars
    PROVE  Handlers'
<1> USE StepGrows
<1>1. ASSUME NEW t \in Threads, BeginArtifact(t) PROVE Handlers'
  <2>1. PICK r \in Requests : r.kind = "artifact" /\ Begin(t, r)
                              /\ Admit(t, ArtifactRefusal(r), "mkdir")
    BY <1>1 DEF BeginArtifact
  <2>2. temp' = temp /\ span' = span /\ temp[t] = NoFile /\ req'[t] = r
    BY <1>1, <2>1 DEF BeginArtifact, Begin, Handlers, Handler, TypeOK
  <2>3. CASE ArtifactRefusal(r) = 0
    <3>1. Admitted(r) /\ pc'[t] = "mkdir"
      BY <2>1, <2>3, AdmittedUpload DEF Admit, Goto, Begin, TypeOK
    <3>2. Handler(t)'
      BY <2>2, <3>1 DEF Handler, Admitted
    <3> QED
      BY <2>1, <2>2, <2>3, <3>2, OthersKeep DEF Begin, Admit, Goto, TypeOK
  <2>4. CASE ArtifactRefusal(r) # 0
    <3>1. /\ pc'[t] = "respond" /\ status'[t] = ArtifactRefusal(r)
          /\ ArtifactRefusal(r) \notin {200, 201, 206}
      BY <2>1, <2>4, AdmittedUpload DEF Admit, Send, Goto, Begin, TypeOK
    <3>2. Handler(t)'
      BY <2>2, <3>1, Answering
    <3> QED
      BY <2>1, <2>2, <2>4, <3>2, OthersKeep DEF Begin, Admit, Send, Goto, TypeOK
  <2> QED
    BY <2>3, <2>4
<1>2. ASSUME NEW t \in Threads, BeginChannel(t) PROVE Handlers'
  <2>1. PICK r \in Requests : r.kind = "channel" /\ Begin(t, r)
                              /\ Admit(t, ChannelRefusal(r), "manifest")
    BY <1>2 DEF BeginChannel
  <2>2. temp' = temp /\ span' = span /\ temp[t] = NoFile /\ req'[t] = r
    BY <1>2, <2>1 DEF BeginChannel, Begin, Handlers, Handler, TypeOK
  <2>3. CASE ChannelRefusal(r) = 0
    <3>1. r.name \in Channels /\ pc'[t] = "manifest"
      BY <2>1, <2>3, AdmittedManifest DEF Admit, Goto, Begin, TypeOK
    <3>2. Handler(t)'
      BY <2>1, <2>2, <3>1 DEF Handler
    <3> QED
      BY <2>1, <2>2, <2>3, <3>2, OthersKeep DEF Begin, Admit, Goto, TypeOK
  <2>4. CASE ChannelRefusal(r) # 0
    <3>1. /\ pc'[t] = "respond" /\ status'[t] = ChannelRefusal(r)
          /\ ChannelRefusal(r) \notin {200, 201, 206}
      BY <2>1, <2>4, AdmittedManifest DEF Admit, Send, Goto, Begin, TypeOK
    <3>2. Handler(t)'
      BY <2>2, <3>1, Answering
    <3> QED
      BY <2>1, <2>2, <2>4, <3>2, OthersKeep DEF Begin, Admit, Send, Goto, TypeOK
  <2> QED
    BY <2>3, <2>4
<1>3. ASSUME NEW t \in Threads, BeginGet(t) PROVE Handlers'
  <2>1. PICK r \in Requests :
             /\ r.kind = "get" /\ Begin(t, r)
             /\ LET found == r.name # NoName /\ ContentOf(r.name) # Absent
                IN  Admit(t, IF found THEN 0 ELSE 404, "stat")
    BY <1>3 DEF BeginGet
  <2>2. /\ temp' = temp /\ span' = span /\ temp[t] = NoFile /\ req'[t] = r
        /\ file' = file /\ channel' = channel
    BY <1>3, <2>1 DEF BeginGet, Begin, Handlers, Handler, TypeOK, volume
  <2>3. CASE r.name # NoName /\ ContentOf(r.name) # Absent
    <3>1. r.name \in Names \cup Channels /\ pc'[t] = "stat"
      BY <2>1, <2>3, RequestKinds DEF Admit, Goto, Begin, TypeOK
    <3>2. Handler(t)'
      BY <2>1, <2>2, <2>3, <3>1 DEF Handler, Downloading, ContentOf
    <3> QED
      BY <2>1, <2>2, <2>3, <3>2, OthersKeep DEF Begin, Admit, Goto, TypeOK
  <2>4. CASE ~(r.name # NoName /\ ContentOf(r.name) # Absent)
    <3>1. pc'[t] = "respond" /\ status'[t] = 404
      BY <2>1, <2>4 DEF Admit, Send, Goto, Begin, TypeOK
    <3>2. Handler(t)'
      BY <2>2, <3>1, Answering
    <3> QED
      BY <2>1, <2>2, <2>4, <3>2, OthersKeep DEF Begin, Admit, Send, Goto, TypeOK
  <2> QED
    BY <2>3, <2>4
<1>4. ASSUME NEW t \in Threads, OpenUpload(t) PROVE Handlers'
  <2>1. Admitted(req[t]) /\ temp[t] = NoFile /\ req' = req
    BY <1>4 DEF OpenUpload, Handlers, Handler
  <2>2. <<>> \in Contents /\ Len(<<>>) = 0
    BY EmptySeq DEF Contents
  <2>3. Handler(t)'
    <3>1. CASE \E a \in Above[req[t].name] : file[a] # Absent
      <4>1. pc'[t] = "idle" /\ temp' = temp
        BY <1>4, <3>1 DEF OpenUpload, Finish, Goto, TypeOK
      <4> QED
        BY <2>1, <4>1 DEF Handler
    <3>2. CASE ~\E a \in Above[req[t].name] : file[a] # Absent
      <4>1. /\ pc'[t] = "read" /\ temp'[t] = <<>>
            /\ dirs' = dirs \cup Above[req[t].name]
        BY <1>4, <3>2 DEF OpenUpload, Goto, TypeOK
      <4> QED
        BY <2>1, <2>2, <4>1 DEF Handler, Uploading, Admitted
    <3> QED
      BY <3>1, <3>2
  <2> QED
    BY <1>4, <2>1, <2>3, OthersKeep DEF OpenUpload, Finish, Goto, TypeOK
<1>5. ASSUME NEW t \in Threads, ReadBlock(t) PROVE Handlers'
  <2>1. Uploading(t) /\ UNCHANGED <<volume, pc, req, status, span>> /\ pc[t] = "read"
    BY <1>5 DEF ReadBlock, Handlers, Handler
  <2>2. req[t] \in ArtifactPuts /\ temp[t] \in Contents /\ req[t].length \in Nat
    BY <2>1, RequestKinds, RepositoryAssumption DEF Uploading, Admitted
  <2>3. Len(temp[t]) \in Nat /\ Len(req[t].body) \in Nat /\ req[t].body \in Contents
    BY <2>2, LenProperties DEF Contents, ArtifactPuts
  <2>4. req[t].body[Len(temp[t]) + 1] \in Blocks
    BY <1>5, <2>3, ElementOfSeq DEF ReadBlock, Contents
  <2>5. /\ Append(temp[t], req[t].body[Len(temp[t]) + 1]) \in Contents
        /\ Len(Append(temp[t], req[t].body[Len(temp[t]) + 1])) = Len(temp[t]) + 1
    BY <2>2, <2>4, AppendProperties DEF Contents
  <2>6. temp'[t] = Append(temp[t], req[t].body[Len(temp[t]) + 1])
    BY <1>5 DEF ReadBlock, TypeOK
  <2>7. Len(temp[t]) < req[t].length
    BY <1>5 DEF ReadBlock
  <2>8. Handler(t)'
    BY <2>1, <2>2, <2>3, <2>5, <2>6, <2>7 DEF Handler, Uploading, Admitted, volume
  <2> QED
    BY <1>5, <2>1, <2>8, OthersKeep DEF ReadBlock, TypeOK
<1>6. ASSUME NEW t \in Threads, BodyBreaks(t) PROVE Handlers'
  <2>1. /\ pc[t] = "read" /\ Uploading(t) /\ UNCHANGED <<volume, req, temp, span>>
        /\ \/ pc' = [pc EXCEPT ![t] = "unlink"] /\ status' = status
           \/ /\ pc' = [pc EXCEPT ![t] = "respond"]
              /\ status' = [status EXCEPT ![t] = 400]
    BY <1>6 DEF BodyBreaks, Send, Goto, Handlers, Handler
  <2>2. Handler(t)'
    BY <2>1, Answering DEF Handler, Uploading, Admitted, TypeOK
  <2> QED
    BY <2>1, <2>2, OthersKeep DEF TypeOK
<1>7. ASSUME NEW t \in Threads, VerifyUpload(t) PROVE Handlers'
  <2>1. /\ pc[t] = "read" /\ Uploading(t) /\ UNCHANGED <<volume, req, temp, span>>
        /\ Len(temp[t]) = req[t].length
        /\ \/ /\ pc' = [pc EXCEPT ![t] = "link"] /\ status' = status
              /\ Sha256(temp[t]) = req[t].checksum
           \/ /\ pc' = [pc EXCEPT ![t] = "respond"]
              /\ status' = [status EXCEPT ![t] = 422]
    BY <1>7 DEF VerifyUpload, ChecksumHolds, Send, Goto, Handlers, Handler
  <2>2. Handler(t)'
    BY <2>1, Answering DEF Handler, Uploading, Admitted, TypeOK, volume
  <2> QED
    BY <2>1, <2>2, OthersKeep DEF TypeOK
<1>8. ASSUME NEW t \in Threads, LinkArtifact(t) PROVE Handlers'
  <2>1. /\ pc[t] = "link" /\ Uploading(t) /\ UNCHANGED <<req, temp, span>>
        /\ pc' = [pc EXCEPT ![t] = "respond"]
        /\ \/ status' = [status EXCEPT ![t] = 409]
           \/ /\ status' = [status EXCEPT ![t] = 201]
              /\ file' = [file EXCEPT ![req[t].name] = temp[t]]
    BY <1>8 DEF LinkArtifact, Send, Goto, Handlers, Handler
  <2>2. Handler(t)'
    BY <2>1, Answering DEF Handler, Uploading, Admitted, TypeOK
  <2> QED
    BY <2>1, <2>2, OthersKeep DEF TypeOK
<1>9. ASSUME NEW t \in Threads, ReadManifest(t) PROVE Handlers'
  <2>1. /\ pc[t] = "manifest" /\ UNCHANGED <<volume, req>>
        /\ req[t] \in Requests /\ req[t].kind = "channel" /\ req[t].name \in Channels
        /\ temp[t] = NoFile
    BY <1>9 DEF ReadManifest, Handlers, Handler
  <2>2. \/ /\ Send(t, 400) \/ Send(t, 422)
           /\ UNCHANGED <<temp, span>>
        \/ Finish(t) /\ UNCHANGED temp
        \/ /\ ValidManifest(req[t].document, req[t].name)
           /\ temp' = [temp EXCEPT ![t] = Text[req[t].document]]
           /\ Goto(t, "replace") /\ UNCHANGED <<status, span>>
    BY <1>9 DEF ReadManifest, Accepts
  <2>3. Handler(t)'
    <3>1. CASE Send(t, 400) \/ Send(t, 422)
      BY <2>1, <3>1, Answering DEF Send, Goto, TypeOK
    <3>2. CASE Finish(t) /\ UNCHANGED temp
      BY <2>1, <3>2 DEF Finish, Goto, Handler, TypeOK
    <3>3. CASE /\ ValidManifest(req[t].document, req[t].name)
               /\ temp' = [temp EXCEPT ![t] = Text[req[t].document]]
               /\ Goto(t, "replace")
      <4>1. req[t].document \in Documents
        BY <2>1, <3>3, ValidIsDocument
      <4>2. pc'[t] = "replace" /\ temp'[t] = Text[req[t].document]
        BY <3>3 DEF Goto, TypeOK
      <4> QED
        BY <2>1, <3>3, <4>1, <4>2 DEF Handler
    <3> QED
      BY <2>2, <3>1, <3>2, <3>3
  <2>4. \A u \in Threads \ {t} :
           /\ pc'[u] = pc[u] /\ temp'[u] = temp[u]
           /\ status'[u] = status[u] /\ span'[u] = span[u]
    BY <2>2 DEF Send, Finish, Goto, TypeOK
  <2> QED
    BY <1>9, <2>1, <2>3, <2>4, OthersKeep
<1>10. ASSUME NEW t \in Threads, ReplaceChannel(t) PROVE Handlers'
  <2>1. /\ pc[t] = "replace" /\ UNCHANGED <<req, span>>
        /\ req[t] \in Requests /\ req[t].kind = "channel" /\ req[t].name \in Channels
        /\ pc' = [pc EXCEPT ![t] = "respond"]
        /\ status' = [status EXCEPT ![t] = 201]
        /\ temp' = [temp EXCEPT ![t] = NoFile]
    BY <1>10 DEF ReplaceChannel, Send, Goto, Handlers, Handler
  <2>2. Handler(t)'
    BY <2>1 DEF Handler, TypeOK
  <2> QED
    BY <1>10, <2>1, <2>2, OthersKeep DEF TypeOK
<1>11. ASSUME NEW t \in Threads, StatFile(t) PROVE Handlers'
  <2> DEFINE n == req[t].name
             size == Len(ContentOf(n))
             asked == IF req[t].range # NoRange THEN ParseRange(req[t].range, size)
                      ELSE <<0, size - 1>>
  <2>1. pc[t] = "stat" /\ Downloading(t) /\ UNCHANGED <<volume, req, temp>>
    BY <1>11 DEF StatFile, Handlers, Handler
  <2>2. ContentOf(n) \in Contents
    BY <2>1 DEF Downloading, ContentOf, TypeOK
  <2>3. size \in Nat /\ req[t] \in Gets
    BY <2>1, <2>2, LenProperties, RequestKinds DEF Contents, Downloading
  <2>4. CASE asked = Unsatisfiable
    <3>1. Send(t, 416) /\ UNCHANGED span
      BY <1>11, <2>4 DEF StatFile
    <3>2. pc'[t] = "respond" /\ status'[t] = 416 /\ req'[t] \in Requests
      BY <2>1, <3>1 DEF Send, Goto, Downloading, TypeOK
    <3>3. Handler(t)'
      BY <3>2, Answering
    <3> QED
      BY <1>11, <2>1, <3>1, <3>3, OthersKeep DEF Send, Goto, TypeOK
  <2>5. CASE asked # Unsatisfiable
    <3>1. /\ span' = [span EXCEPT ![t] = asked]
          /\ status' = [status EXCEPT ![t] = IF req[t].range # NoRange THEN 206 ELSE 200]
          /\ pc' = [pc EXCEPT ![t] = IF req[t].sendBody /\ SpanLength(asked) > 0
                                     THEN "open" ELSE "respond"]
      BY <1>11, <2>5 DEF StatFile, Goto
    <3>2. /\ asked \in Nat \X Int /\ asked[2] < size
          /\ req[t].range = NoRange => asked = <<0, size - 1>>
      BY <2>3, <2>5, AskedSpan
    <3>3. CASE req[t].sendBody /\ SpanLength(asked) > 0
      <4>1. asked[1] <= asked[2]
        BY <3>2, <3>3 DEF SpanLength
      <4>2. /\ pc'[t] = "open" /\ span'[t] = asked
            /\ status'[t] = IF req[t].range # NoRange THEN 206 ELSE 200
        BY <3>1, <3>3 DEF TypeOK
      <4>3. Downloading(t)'
        BY <2>1 DEF Downloading, ContentOf, volume
      <4>4. n \in Names => size = Len(file'[n])
        BY <2>1 DEF ContentOf, volume
      <4>5. SpanFits(t)'
        BY <2>1, <3>2, <4>1, <4>2, <4>4 DEF SpanFits
      <4>6. Handler(t)'
        BY <4>2, <4>3, <4>5 DEF Handler
      <4> QED
        BY <1>11, <2>1, <3>1, <4>6, OthersKeep DEF TypeOK
    <3>4. CASE ~(req[t].sendBody /\ SpanLength(asked) > 0)
      <4>1. /\ pc'[t] = "respond"
            /\ status'[t] = IF req[t].range # NoRange THEN 206 ELSE 200
        BY <3>1, <3>4 DEF TypeOK
      <4>2. Downloading(t)'
        BY <2>1 DEF Downloading, ContentOf, volume
      <4>3. Handler(t)'
        BY <4>1, <4>2 DEF Handler, Downloading
      <4> QED
        BY <1>11, <2>1, <3>1, <4>3, OthersKeep DEF TypeOK
    <3> QED
      BY <3>3, <3>4
  <2> QED
    BY <2>4, <2>5
<1>12. ASSUME NEW t \in Threads, SendFile(t) PROVE Handlers'
  <2>1. Downloading(t) /\ UNCHANGED <<volume, req, temp>> /\ Finish(t)
    BY <1>12 DEF SendFile, Handlers, Handler
  <2>2. Handler(t)'
    BY <2>1 DEF Downloading, Finish, Goto, Handler, TypeOK
  <2> QED
    BY <1>12, <2>1, <2>2, OthersKeep DEF Finish, Goto, TypeOK
<1>13. ASSUME NEW t \in Threads, Respond(t) PROVE Handlers'
  <2>1. /\ UNCHANGED <<volume, req, temp>>
        /\ \/ temp[t] = NoFile /\ Finish(t)
           \/ temp[t] # NoFile /\ Goto(t, "unlink") /\ UNCHANGED <<status, span>>
    BY <1>13 DEF Respond, AfterAnswer
  <2>2. Handler(t)'
    BY <2>1 DEF Finish, Goto, Handler, TypeOK
  <2> QED
    BY <1>13, <2>1, <2>2, OthersKeep DEF Finish, Goto, TypeOK
<1>14. ASSUME NEW t \in Threads, UnlinkTemp(t) PROVE Handlers'
  <2>1. temp' = [temp EXCEPT ![t] = NoFile] /\ Finish(t) /\ UNCHANGED <<volume, req>>
    BY <1>14 DEF UnlinkTemp
  <2>2. Handler(t)'
    BY <2>1 DEF Finish, Goto, Handler, TypeOK
  <2> QED
    BY <1>14, <2>1, <2>2, OthersKeep DEF Finish, Goto, TypeOK
<1>15. ASSUME NEW t \in Threads, ClientCloses(t) PROVE Handlers'
  BY <1>15, OtherHandler DEF ClientCloses, Handlers
<1>16. CASE Restart
  BY <1>16 DEF Restart, Handlers, Handler
<1>17. CASE UNCHANGED vars
  BY <1>17, OtherHandler DEF vars, volume, Handlers
<1>18. ASSUME NEW t \in Threads, DiskFails(t) PROVE Handlers'
  <2>1. UNCHANGED <<req, temp>>
    BY <1>18, DiskFailures
  <2>2. CASE pc[t] \in {"mkdir", "stat", "open", "manifest"} /\ Finish(t)
    <3>1. temp[t] = NoFile
      BY <2>2 DEF Handlers, Handler, Downloading
    <3>2. Handler(t)'
      BY <2>1, <2>2, <3>1 DEF Finish, Goto, Handler, TypeOK
    <3> QED
      BY <2>1, <2>2, <3>2, OthersKeep DEF Finish, Goto, TypeOK
  <2>3. CASE Goto(t, "unlink") /\ UNCHANGED <<status, span>>
    <3>1. Handler(t)'
      BY <2>3 DEF Goto, Handler, TypeOK
    <3> QED
      BY <2>1, <2>3, <3>1, OthersKeep DEF Goto, TypeOK
  <2> QED
    BY <1>18, <2>2, <2>3, DiskFailures
<1> QED
  BY <1>1, <1>2, <1>3, <1>4, <1>5, <1>6, <1>7, <1>8, <1>9, <1>10, <1>11, <1>12,
     <1>13, <1>14, <1>15, <1>16, <1>17, <1>18 DEF Next, Handle, Artifact, Channel, Get

-----------------------------------------------------------------------------
(* The properties, step by step.  Each is disturbed by one or two actions.  *)

\* Only LinkArtifact makes a file, and only the mkdir of an upload a directory.
LEMMA WhoWrites ==
    ASSUME [Next]_vars
    PROVE  /\ file' # file => \E t \in Threads : LinkArtifact(t)
           /\ dirs' # dirs => \E t \in Threads : OpenUpload(t) \/ DiskFails(t)
           /\ channel' # channel => \E t \in Threads : ReplaceChannel(t)
           /\ promises' # promises => \E t \in Threads : SendFile(t) \/ Respond(t)
BY DiskFailures, ZenonT(40)
   DEF Next, Handle, Artifact, Channel, Get, BeginArtifact, BeginChannel, BeginGet,
       OpenUpload, ReadBlock, BodyBreaks, VerifyUpload, LinkArtifact, ReadManifest,
       ReplaceChannel, StatFile, SendFile, Respond, UnlinkTemp, ClientCloses, Restart,
       vars, volume, history

\* mkdir fails on a file and link on a directory, so neither race breaks the tree.
LEMMA StepTree ==
    ASSUME Inv, [Next]_vars
    PROVE  TreeShape'
<1>1. ASSUME NEW t \in Threads, LinkArtifact(t) PROVE TreeShape'
  <2>1. req[t].name \in Names /\ Above[req[t].name] \subseteq dirs /\ dirs' = dirs
    BY <1>1 DEF LinkArtifact, Inv, Handlers, Handler, Uploading, Admitted
  <2> QED
    BY <1>1, <2>1 DEF LinkArtifact, Exists, TreeShape, TypeOK, Inv
<1>2. ASSUME NEW t \in Threads, OpenUpload(t) PROVE TreeShape'
  BY <1>2 DEF OpenUpload, TreeShape, Inv
<1>3. ASSUME NEW t \in Threads, DiskFails(t) PROVE TreeShape'
  <2>1. file' = file
    BY <1>3, DiskFailures
  <2>2. dirs' = dirs \/ MakesSomeParents(req[t].name)
    BY <1>3, DiskFailures
  <2> QED
    BY <2>1, <2>2 DEF MakesSomeParents, TreeShape, Inv
<1>4. CASE file' = file /\ dirs' = dirs
  BY <1>4 DEF TreeShape, Inv
<1> QED
  BY <1>1, <1>2, <1>3, <1>4, WhoWrites

\* What is linked has passed the comparison of the digests, and a handler writes to
\* its own temporary file only.
LEMMA StepUploads ==
    ASSUME Inv, [Next]_vars
    PROVE  OnlyCheckedUploads'
<1>1. ASSUME NEW t \in Threads, LinkArtifact(t) PROVE OnlyCheckedUploads'
  <2>1. /\ Admitted(req[t]) /\ temp[t] \in Contents
        /\ Len(temp[t]) = req[t].length /\ req[t].checksum = Sha256(temp[t])
    BY <1>1 DEF LinkArtifact, Inv, Handlers, Handler, Uploading
  <2>2. req[t].length <= MaxUpload
    BY <2>1, RepositoryAssumption DEF Admitted
  <2>3. \A n \in Names : file'[n] = file[n] \/ (n = req[t].name /\ file'[n] = temp[t])
    BY <1>1 DEF LinkArtifact, Inv, TypeOK
  <2> QED
    BY <2>1, <2>2, <2>3 DEF OnlyCheckedUploads, Inv, Admitted
<1>2. CASE file' = file
  BY <1>2 DEF OnlyCheckedUploads, Inv
<1> QED
  BY <1>1, <1>2, WhoWrites

\* A channel is replaced by the text of a document that was validated for it.
LEMMA StepChannels ==
    ASSUME Inv, [Next]_vars
    PROVE  ChannelsAreValid'
<1>1. ASSUME NEW t \in Threads, ReplaceChannel(t) PROVE ChannelsAreValid'
  <2>1. PICK d \in Documents : ValidManifest(d, req[t].name) /\ temp[t] = Text[d]
    BY <1>1 DEF ReplaceChannel, Inv, Handlers, Handler
  <2>2. \A c \in Channels : channel'[c] = channel[c]
                            \/ (c = req[t].name /\ channel'[c] = temp[t])
    BY <1>1 DEF ReplaceChannel, Inv, TypeOK
  <2> QED
    BY <2>1, <2>2 DEF ChannelsAreValid, Inv, ValidManifest
<1>2. CASE channel' = channel
  BY <1>2 DEF ChannelsAreValid, Inv, ValidManifest
<1> QED
  BY <1>1, <1>2, WhoWrites

\* A new promise is true of the volume when it is made: a 201 is sent while the
\* temporary file still is the linked artifact, and the bytes of a download are those
\* of a name that had its only content when it was stat'ed.
LEMMA NewPromise ==
    ASSUME Inv, NEW t \in Threads, SendFile(t) \/ Respond(t),
           NEW p \in promises' \ promises
    PROVE  Kept(p)
<1>1. CASE SendFile(t)
  <2> DEFINE n == req[t].name
             bytes == BytesAt(ContentOf(n), span[t])
  <2>1. n \in Names /\ p = [ name |-> n, whole |-> status[t] = 200,
                             from |-> span[t][1], bytes |-> bytes ]
    BY <1>1 DEF SendFile
  <2>2. Downloading(t) /\ SpanFits(t)
    BY <1>1 DEF SendFile, Inv, Handlers, Handler
  <2>3. /\ file[n] # Absent /\ file[n] \in Contents /\ bytes = BytesAt(file[n], span[t])
        /\ span[t] \in Nat \X Int
    BY <2>1, <2>2 DEF Downloading, ContentOf, Inv, TypeOK
  <2>4. /\ bytes = SubSeq(file[n], span[t][1] + 1, span[t][1] + Len(bytes))
        /\ span[t] = <<0, Len(file[n]) - 1>> => bytes = file[n]
    <3>1. span[t][1] <= span[t][2] /\ span[t][2] < Len(file[n])
      BY <2>1, <2>2 DEF SpanFits
    <3>2. /\ BytesAt(file[n], span[t]) =
                SubSeq(file[n], span[t][1] + 1, span[t][1] + Len(BytesAt(file[n], span[t])))
          /\ span[t] = <<0, Len(file[n]) - 1>> => BytesAt(file[n], span[t]) = file[n]
      BY <2>3, <3>1, BytesAtFits
    <3> QED
      BY <2>3, <3>2
  <2>5. status[t] = 200 => span[t] = <<0, Len(file[n]) - 1>>
    BY <2>1, <2>2 DEF SpanFits
  <2> HIDE DEF bytes
  <2> QED
    BY <2>1, <2>3, <2>4, <2>5 DEF Kept
<1>2. CASE Respond(t)
  <2>1. /\ AnswerOf(t).whole
        /\ p = [name |-> req[t].name, whole |-> TRUE, from |-> 0, bytes |-> temp[t]]
    BY <1>2 DEF Respond
  <2>2. status[t] = 201 /\ req[t].kind = "artifact"
    BY <2>1 DEF AnswerOf
  <2>3. file[req[t].name] = temp[t] /\ temp[t] # Absent
    BY <1>2, <2>2, RepositoryAssumption DEF Respond, Inv, Handlers, Handler
  <2> QED
    BY <2>1, <2>3 DEF Kept
<1> QED
  BY <1>1, <1>2

LEMMA StepPromises ==
    ASSUME Inv, [Next]_vars
    PROVE  PromisesKept'
<1>1. Grows
  BY StepGrows DEF Inv
<1>2. ASSUME NEW p \in promises PROVE Kept(p)'
  <2>1. p \in Promises /\ Kept(p)
    BY <1>2 DEF Inv, PromisesKept, TypeOK
  <2>2. p.name \in Names
    BY <2>1 DEF Promises
  <2> QED
    BY <1>1, <2>1, <2>2 DEF Kept, Grows
<1>3. ASSUME NEW p \in promises' \ promises PROVE Kept(p)'
  <2>1. PICK t \in Threads : SendFile(t) \/ Respond(t)
    BY <1>3, WhoWrites
  <2>2. Kept(p)
    BY <1>3, <2>1, NewPromise
  <2>3. file' = file
    BY <2>1 DEF SendFile, Respond, volume
  <2> QED
    BY <2>2, <2>3 DEF Kept
<1> QED
  BY <1>2, <1>3 DEF PromisesKept

-----------------------------------------------------------------------------
(* Theorems.                                                                *)

LEMMA InitInv == Init => Inv
<1> SUFFICES ASSUME Init PROVE Inv
  OBVIOUS
<1>1. NoAnswer \in AnswerType
  BY EmptySeq DEF NoAnswer, AnswerType, Contents
<1>2. TypeOK
  BY <1>1 DEF Init, TypeOK, Labels
<1>3. Handlers
  BY DEF Init, Handlers, Handler
<1>4. TreeShape /\ OnlyCheckedUploads /\ ChannelsAreValid /\ PromisesKept
  BY DEF Init, TreeShape, OnlyCheckedUploads, ChannelsAreValid, PromisesKept
<1> QED
  BY <1>2, <1>3, <1>4 DEF Inv

LEMMA StepInv == Inv /\ [Next]_vars => Inv'
<1> SUFFICES ASSUME Inv, [Next]_vars PROVE Inv'
  OBVIOUS
<1>1. TypeOK' /\ Handlers'
  BY StepTypes, StepHandlers DEF Inv
<1>2. TreeShape' /\ OnlyCheckedUploads' /\ ChannelsAreValid' /\ PromisesKept'
  BY StepTree, StepUploads, StepChannels, StepPromises
<1> QED
  BY <1>1, <1>2 DEF Inv

\* The inductive invariant holds in every reachable state.
THEOREM Invariance == Spec => []Inv
BY InitInv, StepInv, PTL DEF Spec

\* The server's state is well typed.
THEOREM TypeCorrect == Spec => []TypeOK
<1>1. Inv => TypeOK
  BY DEF Inv
<1> QED
  BY <1>1, Invariance, PTL

\* What a client was told of an artifact stays true: every 201, and every byte
\* downloaded under "Cache-Control: immutable".
THEOREM PromisesAreKept == Spec => []PromisesKept
<1>1. Inv => PromisesKept
  BY DEF Inv
<1> QED
  BY <1>1, Invariance, PTL

\* A visible artifact is the whole, checked body of an authorized request.
THEOREM UploadsAreChecked == Spec => []OnlyCheckedUploads
<1>1. Inv => OnlyCheckedUploads
  BY DEF Inv
<1> QED
  BY <1>1, Invariance, PTL

\* A channel holds a valid manifest of its own.
THEOREM ChannelsHoldValidManifests == Spec => []ChannelsAreValid
<1>1. Inv => ChannelsAreValid
  BY DEF Inv
<1> QED
  BY <1>1, Invariance, PTL

\* A handler that has finished has removed its temporary file.
THEOREM HandlersCleanUp == Spec => []DoneHandlersCleanUp
<1>1. Inv => DoneHandlersCleanUp
  BY DEF Inv, Handlers, Handler, DoneHandlersCleanUp
<1> QED
  BY <1>1, Invariance, PTL

-----------------------------------------------------------------------------
(* The server implements ReleaseStore.                                      *)

Told == [t \in Threads |-> Claim(answer[t])]

\* What Respond says of an artifact is true of the store.
LEMMA AnswerIsTruthful ==
    ASSUME Inv, NEW t \in Threads, pc[t] = "respond"
    PROVE  Store!Truthful(Claim(AnswerOf(t)))
<1> DEFINE a == AnswerOf(t)
<1>1. Handler(t)
  BY DEF Inv, Handlers
<1>2. CASE ~(a.status \in {200, 201, 206} /\ a.name \in Names)
  BY <1>2 DEF Claim, Store!Truthful
<1>3. CASE a.status = 201 /\ a.name \in Names
  <2>1. status[t] = 201 /\ req[t].name \in Names
    BY <1>3 DEF AnswerOf
  <2>2. req[t].kind = "artifact" /\ file[req[t].name] = temp[t] /\ temp[t] # Absent
    BY <1>1, <2>1, RepositoryAssumption DEF Handler
  <2>3. Claim(a) = [about |-> req[t].name, whole |-> TRUE, from |-> 0, bytes |-> temp[t]]
    <3>1. a.whole = (status[t] = 201 /\ req[t].kind = "artifact")
      BY DEF AnswerOf
    <3>2. a.whole = TRUE
      BY <2>1, <2>2, <3>1
    <3>3. a.name = req[t].name /\ a.from = 0 /\ a.bytes = temp[t]
      BY <2>1, <2>2 DEF AnswerOf
    <3> QED
      BY <1>3, <3>2, <3>3 DEF Claim
  <2> QED
    BY <2>2, <2>3 DEF Store!Truthful
<1>4. CASE a.status \in {200, 206} /\ a.name \in Names
  <2>1. status[t] \in {200, 206} /\ req[t].name \in Names
    BY <1>4 DEF AnswerOf
  <2>2. file[req[t].name] # Absent
    BY <1>1, <2>1 DEF Handler, ContentOf
  <2>3. Claim(a) = [about |-> req[t].name, whole |-> FALSE, from |-> span[t][1],
                    bytes |-> <<>>]
    <3>1. a.whole = (status[t] = 201 /\ req[t].kind = "artifact")
      BY DEF AnswerOf
    <3>2. a.whole = FALSE
      <4>1. status[t] # 201
        BY <2>1
      <4>2. (status[t] = 201 /\ req[t].kind = "artifact") = FALSE
        BY <4>1
      <4> HIDE DEF a
      <4> QED
        BY <3>1, <4>2
    <3>3. a.name = req[t].name /\ a.from = span[t][1] /\ a.bytes = <<>>
      BY <2>1 DEF AnswerOf
    <3> QED
      BY <1>4, <3>2, <3>3 DEF Claim
  <2>4. span[t][1] \in Nat
    BY DEF Inv, TypeOK
  <2>5. Len(<<>>) = 0
    BY EmptySeq
  <2>6. SubSeq(file[req[t].name], span[t][1] + 1, span[t][1] + 0) = <<>>
    BY <2>4, SubSeqEmpty
  <2> QED
    BY <2>2, <2>3, <2>4, <2>5, <2>6 DEF Store!Truthful
<1> QED
  BY <1>2, <1>3, <1>4

\* So is what SendFile delivers.
LEMMA DownloadIsTruthful ==
    ASSUME Inv, NEW t \in Threads, SendFile(t), answer'[t] # answer[t]
    PROVE  Store!Truthful(Claim(answer'[t]))
<1> DEFINE n == req[t].name
           bytes == BytesAt(ContentOf(n), span[t])
           a == [ status |-> status[t], name |-> n, whole |-> status[t] = 200,
                  from |-> span[t][1], length |-> SpanLength(span[t]),
                  bytes |-> bytes ]
<1>1. answer'[t] = a
  BY DEF SendFile, Inv, TypeOK
<1>2. CASE n \notin Names
  BY <1>1, <1>2 DEF Claim, Store!Truthful
<1>3. CASE n \in Names
  <2>1. SpanFits(t) /\ Downloading(t)
    BY DEF SendFile, Inv, Handlers, Handler
  <2>2. /\ file[n] # Absent /\ file[n] \in Contents /\ bytes = BytesAt(file[n], span[t])
        /\ span[t] \in Nat \X Int /\ span[t][1] <= span[t][2]
        /\ span[t][2] < Len(file[n])
        /\ status[t] = 200 => span[t] = <<0, Len(file[n]) - 1>>
    BY <1>3, <2>1 DEF Downloading, SpanFits, ContentOf, Inv, TypeOK
  <2>3. /\ BytesAt(file[n], span[t]) =
              SubSeq(file[n], span[t][1] + 1, span[t][1] + Len(BytesAt(file[n], span[t])))
        /\ span[t] = <<0, Len(file[n]) - 1>> => BytesAt(file[n], span[t]) = file[n]
    BY <2>2, BytesAtFits
  <2>4. Claim(a) = [about |-> n, whole |-> status[t] = 200, from |-> span[t][1],
                    bytes |-> BytesAt(file[n], span[t])]
    BY <1>3, <2>1, <2>2 DEF Claim, SpanFits
  <2>5. CASE status[t] = 200
    <3>1. BytesAt(file[n], span[t]) = file[n]
      BY <2>2, <2>3, <2>5
    <3>2. Claim(a) = [about |-> n, whole |-> TRUE, from |-> span[t][1],
                      bytes |-> file[n]]
      BY <2>4, <2>5, <3>1
    <3> QED
      BY <1>1, <2>2, <3>2 DEF Store!Truthful
  <2>6. CASE status[t] # 200
    <3> DEFINE b == BytesAt(file[n], span[t])
    <3>1. b = SubSeq(file[n], span[t][1] + 1, span[t][1] + Len(b))
      BY <2>3
    <3>2. Claim(a) = [about |-> n, whole |-> FALSE, from |-> span[t][1], bytes |-> b]
      BY <2>4, <2>6
    <3> DEFINE c == Claim(answer'[t])
    <3>3. c.about = n /\ c.from = span[t][1] /\ c.bytes = b
      BY <1>1, <3>2
    <3>4. ~c.whole
      BY <1>1, <3>2
    <3> HIDE DEF b, c
    <3>5. /\ file[c.about] # Absent
          /\ c.bytes = SubSeq(file[c.about], c.from + 1, c.from + Len(c.bytes))
      BY <2>2, <3>1, <3>3
    <3>6. Store!Truthful(c)
      BY <3>4, <3>5 DEF Store!Truthful
    <3> QED
      BY <3>6 DEF c
  <2> QED
    BY <2>5, <2>6
<1> QED
  BY <1>2, <1>3

\* Every step of the server is a step of the store, or none.
LEMMA StepImplements ==
    ASSUME Inv, [Next]_vars
    PROVE  [Store!Next]_<<file, channel, Told>>
<1> USE DEF Store!Next, Told
<1>1. ASSUME NEW t \in Threads, LinkArtifact(t), file' # file
      PROVE  \E n \in Names : Store!Publish(n)
  <2>1. req[t].name \in Names /\ temp[t] \in Contents
    BY <1>1 DEF LinkArtifact, Inv, Handlers, Handler, Uploading, Admitted
  <2>2. /\ file[req[t].name] = Absent
        /\ file' = [file EXCEPT ![req[t].name] = temp[t]]
        /\ channel' = channel /\ answer' = answer
    BY <1>1 DEF LinkArtifact, Exists, history
  <2>3. file'[req[t].name] = temp[t]
    BY <2>1, <2>2 DEF Inv, TypeOK
  <2> QED
    BY <2>1, <2>2, <2>3 DEF Store!Publish
<1>2. ASSUME NEW t \in Threads, ReplaceChannel(t)
      PROVE  \E c \in Channels : Store!Repoint(c)
  <2>1. req[t].name \in Channels /\ temp[t] \in Contents
    BY <1>2, RepositoryAssumption DEF ReplaceChannel, Inv, Handlers, Handler
  <2>2. channel'[req[t].name] = temp[t]
    BY <1>2, <2>1 DEF ReplaceChannel, Inv, TypeOK
  <2> QED
    BY <1>2, <2>1, <2>2 DEF ReplaceChannel, Store!Repoint
<1>3. ASSUME NEW t \in Threads, NEW a, Store!Truthful(Claim(a)),
             answer' = [answer EXCEPT ![t] = a], file' = file, channel' = channel
      PROVE  \E u \in Threads : Store!Tell(u)
  <2>1. Told' = [Told EXCEPT ![t] = Claim(a)] /\ Told'[t] = Claim(a)
    BY <1>3 DEF Inv, TypeOK
  <2> QED
    BY <1>3, <2>1 DEF Store!Tell
<1>4. ASSUME NEW t \in Threads, SendFile(t) \/ Respond(t), answer' # answer
      PROVE  \E u \in Threads : Store!Tell(u)
  <2>1. file' = file /\ channel' = channel
    BY <1>4 DEF SendFile, Respond, volume
  <2>2. \E a : Store!Truthful(Claim(a)) /\ answer' = [answer EXCEPT ![t] = a]
    <3>1. CASE SendFile(t)
      <4>1. answer' = [answer EXCEPT ![t] = answer'[t]] /\ answer'[t] # answer[t]
        BY <1>4, <3>1 DEF SendFile, Inv, TypeOK
      <4> QED
        BY <3>1, <4>1, DownloadIsTruthful
    <3>2. CASE Respond(t)
      BY <1>4, <3>2, AnswerIsTruthful DEF Respond
    <3> QED
      BY <1>4, <3>1, <3>2
  <2> QED
    BY <1>3, <2>1, <2>2
<1>5. ASSUME NEW t \in Threads, BeginArtifact(t) \/ BeginChannel(t) \/ BeginGet(t)
      PROVE  \E u \in Threads : Store!Tell(u)
  <2>1. /\ answer' = [answer EXCEPT ![t] = NoAnswer] /\ file' = file
        /\ channel' = channel
    BY <1>5 DEF BeginArtifact, BeginChannel, BeginGet, Begin, volume
  <2>2. Store!Truthful(Claim(NoAnswer))
    BY DEF Store!Truthful, Claim, NoAnswer
  <2> QED
    BY <1>3, <2>1, <2>2
<1>6. CASE Restart
  BY <1>6 DEF Restart, Store!Hangup, Claim, NoAnswer
<1>7. CASE file' = file /\ channel' = channel /\ answer' = answer
  BY <1>7
<1>8. ASSUME NEW t \in Threads, DiskFails(t)
      PROVE  file' = file /\ channel' = channel /\ answer' = answer
  BY <1>8, DiskFailures DEF history
<1> QED
  BY <1>1, <1>2, <1>4, <1>5, <1>6, <1>7, <1>8
     DEF Next, Handle, Artifact, Channel, Get, OpenUpload, ReadBlock, BodyBreaks,
         VerifyUpload, LinkArtifact, ReadManifest, StatFile, SendFile, Respond,
         UnlinkTemp, ClientCloses, vars, volume, history

\* The server implements the store its clients are promised (README.md:18): artifact
\* names are written once and whole, channels are replaced as a whole, and answers
\* about artifacts are true.
THEOREM ServerImplementsStore == Spec => ImplementsStore
<1>1. Init => Store!Init
  BY DEF Init, Store!Init, Claim, NoAnswer
<1>2. Inv /\ [Next]_vars => [Store!Next]_<<file, channel, Told>>
  BY StepImplements
<1> QED
  BY <1>1, <1>2, Invariance, PTL DEF Spec, ImplementsStore, Store!Spec, Store!vars, Told

-----------------------------------------------------------------------------
(* The end of a request: what RequestsEnd needs besides fairness.           *)

\* The longest way from a label to the end of the handler, and before it the passes of
\* the read loop, one for each byte that has not arrived.
StepsAfter ==
    [ idle |-> 0, unlink |-> 1, open |-> 1, respond |-> 2, link |-> 3, replace |-> 3,
      stat |-> 3, manifest |-> 4, read |-> 4, mkdir |-> 5 ]

Unread(t) ==
    IF pc[t] = "mkdir" THEN req[t].length
    ELSE IF pc[t] = "read" THEN req[t].length - Len(temp[t])
    ELSE 0

StepsLeft(t) == StepsAfter[pc[t]] + Unread(t)

LEMMA StepsAfterType == /\ StepsAfter \in [Labels -> 0 .. 5]
                        /\ \A l \in Labels : StepsAfter[l] = 0 <=> l = "idle"
BY DEF StepsAfter, Labels

LEMMA UnreadType ==
  ASSUME TypeOK, NEW t \in Threads, Handler(t)
  PROVE  Unread(t) \in 0 .. MaxUpload
<1>1. MaxUpload \in Nat
  BY RepositoryAssumption
<1>2. CASE pc[t] = "read"
  <2>1. req[t].length \in 0 .. MaxUpload /\ temp[t] \in Contents
        /\ Len(temp[t]) <= req[t].length
    BY <1>2 DEF Handler, Uploading, Admitted
  <2>2. Len(temp[t]) \in Nat
    BY <2>1, LenProperties DEF Contents
  <2> QED
    BY <1>1, <1>2, <2>1, <2>2 DEF Unread
<1> QED
  BY <1>1, <1>2 DEF Unread, Handler, Admitted

\* The steps left are bounded, and none are left exactly when the handler is done.
LEMMA StepsAreBounded ==
  ASSUME TypeOK, NEW t \in Threads, Handler(t)
  PROVE  /\ StepsLeft(t) \in 0 .. MaxUpload + 5
         /\ StepsLeft(t) = 0 <=> pc[t] = "idle"
<1>1. StepsAfter[pc[t]] \in 0 .. 5 /\ Unread(t) \in 0 .. MaxUpload /\ MaxUpload \in Nat
  BY StepsAfterType, UnreadType, RepositoryAssumption DEF TypeOK
<1>2. pc[t] = "idle" => Unread(t) = 0
  BY DEF Unread
<1>3. StepsAfter[pc[t]] = 0 <=> pc[t] = "idle"
  BY StepsAfterType DEF TypeOK
<1> QED
  BY <1>1, <1>2, <1>3 DEF StepsLeft

\* A step to a label from which fewer steps are left, where nothing is unread.
LEMMA StepsDrop ==
  ASSUME TypeOK, NEW t \in Threads, Handler(t), pc'[t] \in Labels \ {"mkdir", "read"},
         StepsAfter[pc'[t]] < StepsAfter[pc[t]]
  PROVE  StepsLeft(t)' \in Nat /\ StepsLeft(t)' < StepsLeft(t)
<1>1. StepsAfter[pc[t]] \in Nat /\ StepsAfter[pc'[t]] \in Nat /\ Unread(t) \in Nat
  BY StepsAfterType, UnreadType, RepositoryAssumption DEF TypeOK
<1>2. Unread(t)' = 0
  BY DEF Unread
<1> QED
  BY <1>1, <1>2 DEF StepsLeft

\* Every step of a handler leaves it fewer steps.
LEMMA HandleAdvances ==
  ASSUME TypeOK, Handlers, NEW t \in Threads, Handle(t)
  PROVE  StepsLeft(t)' \in Nat /\ StepsLeft(t)' < StepsLeft(t)
<1> Handler(t)
  BY DEF Handlers
<1> USE DEF Goto, Finish, Send, StepsAfter, Labels, TypeOK
<1>1. CASE OpenUpload(t)
  <2>1. pc[t] = "mkdir" /\ req' = req /\ req[t].length \in Nat /\ pc \in [Threads -> Labels]
    BY <1>1, RepositoryAssumption DEF OpenUpload, Handler, Admitted
  <2>2. CASE pc'[t] = "idle"
    BY <2>1, <2>2, StepsDrop
  <2>3. CASE pc'[t] = "read" /\ temp'[t] = <<>>
    <3>1. StepsLeft(t) = 5 + req[t].length /\ StepsLeft(t)' = 4 + req[t].length
      BY <2>1, <2>3 DEF StepsLeft, Unread
    <3> QED
      BY <2>1, <3>1
  <2> QED
    BY <1>1, <2>1, <2>2, <2>3 DEF OpenUpload
<1>2. CASE ReadBlock(t)
  <2>1. /\ pc[t] = "read" /\ pc' = pc /\ req' = req /\ req[t].length \in Nat
        /\ temp[t] \in Seq(Blocks) /\ Len(temp[t]) \in Nat
        /\ Len(temp[t]) < req[t].length
        /\ Len(temp[t]) < Len(req[t].body) /\ req[t].body \in Seq(Blocks)
    <3>1. Admitted(req[t]) /\ temp[t] \in Seq(Blocks)
      BY <1>2 DEF ReadBlock, Handler, Uploading, Contents
    <3>2. req[t] \in ArtifactPuts
      BY <3>1, RequestKinds DEF Admitted
    <3> QED
      BY <1>2, <3>1, <3>2, LenProperties DEF ReadBlock, Admitted, ArtifactPuts, Contents
  <2>2. PICK b \in Blocks : temp'[t] = Append(temp[t], b)
    <3>1. req[t].body[Len(temp[t]) + 1] \in Blocks
      BY <2>1, ElementOfSeq, LenProperties
    <3> QED
      BY <1>2, <3>1 DEF ReadBlock
  <2>3. Len(temp'[t]) = Len(temp[t]) + 1 /\ Len(temp[t]) \in Nat
    BY <2>1, <2>2, AppendProperties, LenProperties
  <2> QED
    BY <2>1, <2>3 DEF StepsLeft, Unread
<1>3. CASE BodyBreaks(t)
  <2>1. pc[t] = "read" /\ pc'[t] \in {"unlink", "respond"}
    BY <1>3 DEF BodyBreaks
  <2> QED
    BY <2>1, StepsDrop
<1>4. CASE VerifyUpload(t)
  <2>1. pc[t] = "read" /\ pc'[t] \in {"link", "respond"}
    BY <1>4 DEF VerifyUpload
  <2> QED
    BY <2>1, StepsDrop
<1>5. CASE LinkArtifact(t)
  BY <1>5, StepsDrop DEF LinkArtifact
<1>6. CASE UnlinkTemp(t)
  BY <1>6, StepsDrop DEF UnlinkTemp
<1>7. CASE ReadManifest(t)
  BY <1>7, StepsDrop DEF ReadManifest
<1>8. CASE ReplaceChannel(t)
  BY <1>8, StepsDrop DEF ReplaceChannel
<1>9. CASE StatFile(t)
  <2>1. pc[t] = "stat" /\ pc'[t] \in {"open", "respond"}
    BY <1>9 DEF StatFile
  <2> QED
    BY <2>1, StepsDrop
<1>10. CASE SendFile(t)
  BY <1>10, StepsDrop DEF SendFile
<1>11. CASE Respond(t)
  BY <1>11, StepsDrop DEF Respond, AfterAnswer
<1>12. CASE DiskFails(t)
  <2>1. \/ pc[t] \in {"mkdir", "stat", "open", "manifest"} /\ pc'[t] = "idle"
        \/ pc[t] \in {"read", "link", "replace"} /\ pc'[t] = "unlink"
    BY <1>12, DiskFailures
  <2> QED
    BY <2>1, StepsDrop
<1> QED
  BY <1>1, <1>2, <1>3, <1>4, <1>5, <1>6, <1>7, <1>8, <1>9, <1>10, <1>11, <1>12
     DEF Handle, Artifact, Channel, Get

\* No step of another handler, of a client or of the process gives a busy handler more
\* to do.
LEMMA OthersLeaveSteps ==
  ASSUME Inv, [Next]_vars, NEW t \in Threads, pc[t] # "idle"
  PROVE  StepsLeft(t)' <= StepsLeft(t)
<1>1. StepsLeft(t) \in Nat
  BY StepsAreBounded, RepositoryAssumption DEF Inv, Handlers
<1>2. CASE pc'[t] = pc[t] /\ req'[t] = req[t] /\ temp'[t] = temp[t]
  BY <1>1, <1>2 DEF StepsLeft, Unread
<1>3. CASE Restart
  <2>1. pc'[t] = "idle"
    BY <1>3 DEF Restart
  <2>2. StepsLeft(t)' = 0
    BY <2>1 DEF StepsLeft, Unread, StepsAfter
  <2> QED
    BY <1>1, <2>2
<1>4. CASE Handle(t)
  BY <1>1, <1>4, HandleAdvances DEF Inv
<1>5. ASSUME NEW u \in Threads \ {t}, Handle(u) \/ BeginArtifact(u) \/ BeginChannel(u) \/ BeginGet(u)
      PROVE  pc'[t] = pc[t] /\ req'[t] = req[t] /\ temp'[t] = temp[t]
  BY <1>5 DEF Inv, TypeOK, Handle, Artifact, Channel, Get, OpenUpload, ReadBlock, BodyBreaks,
         VerifyUpload, LinkArtifact, UnlinkTemp, ReadManifest, ReplaceChannel, StatFile,
         SendFile, Respond, AfterAnswer, DiskFails, BeginArtifact, BeginChannel,
         BeginGet, Begin, Admit, Send, Finish, Goto
<1>6. ~BeginArtifact(t) /\ ~BeginChannel(t) /\ ~BeginGet(t)
  BY DEF BeginArtifact, BeginChannel, BeginGet, Begin
<1> QED
  BY <1>2, <1>3, <1>4, <1>5, <1>6 DEF Next, ClientCloses, vars

\* What a handler needs for its next step: bytes of the body where it reads one, and a
\* client that takes bytes, or has gone, where it writes.
CanGoOn(t) ==
    /\ pc[t] = "read" =>
          \/ Len(temp[t]) = req[t].length
          \/ Len(temp[t]) < req[t].length /\ (Len(temp[t]) < Len(req[t].body) \/ t \in gone)
    /\ pc[t] = "manifest" => t \in gone \/ req[t].sent >= req[t].length
    /\ pc[t] \in {"open", "respond"} => t \in gone

\* A handler waits for nothing but its client, which keeps the connection open and does
\* not send what it announced or does not read what it is sent.
LEMMA OnlyForTheClient ==
  ASSUME TypeOK, NEW t \in Threads, Handler(t), ~Waits(t)
  PROVE  CanGoOn(t)
<1>1. CASE pc[t] = "read"
  <2>1. /\ temp[t] \in Contents /\ Len(temp[t]) <= req[t].length
        /\ req[t].length \in Int /\ req[t] \in ArtifactPuts
    BY <1>1, RequestKinds, RepositoryAssumption DEF Handler, Uploading, Admitted
  <2>2. Len(temp[t]) \in Nat /\ Len(req[t].body) \in Nat
    BY <2>1, LenProperties DEF Contents, ArtifactPuts
  <2>3. t \in gone \/ Len(req[t].body) >= req[t].length
    BY <1>1, <2>1, <2>2 DEF Waits
  <2> QED
    BY <1>1, <2>1, <2>2, <2>3 DEF CanGoOn
<1>2. CASE pc[t] = "manifest"
  <2>1. req[t].sent \in Int /\ req[t].length \in Int
    BY <1>2, RequestKinds DEF Handler, ChannelPuts
  <2> QED
    BY <1>2, <2>1 DEF CanGoOn, Waits
<1>3. CASE pc[t] \in {"open", "respond"}
  BY <1>3 DEF CanGoOn, Waits
<1> QED
  BY <1>1, <1>2, <1>3 DEF CanGoOn

\* A request ends after at most MaxUpload + 5 steps of its handler, whatever the other
\* handlers, the clients, crashes and failures of the volume do: each of its steps leaves
\* it fewer, no step of anybody else leaves it more, and with none left it is done.  What
\* can keep it from its next step is its client alone, that has not gone and does not
\* send (server.py:165, 209) or does not read (server.py:333, 412).  This is RequestsEnd
\* but for the fairness with which threads are scheduled (server.py:69-334).
HandlersAdvance ==
    /\ [](\A t \in Threads : /\ StepsLeft(t) \in 0 .. MaxUpload + 5
                             /\ StepsLeft(t) = 0 <=> pc[t] = "idle"
                             /\ Waits(t) \/ CanGoOn(t))
    /\ [][\A t \in Threads : /\ pc[t] # "idle" => StepsLeft(t)' <= StepsLeft(t)
                             /\ Handle(t) => StepsLeft(t)' < StepsLeft(t)]_vars

\* Every request ends after a bounded number of steps of its handler, each of which only
\* its client can hold up.
THEOREM RequestsAreBounded == Spec => HandlersAdvance
<1> DEFINE Left == \A t \in Threads : /\ StepsLeft(t) \in 0 .. MaxUpload + 5
                                      /\ StepsLeft(t) = 0 <=> pc[t] = "idle"
                                      /\ Waits(t) \/ CanGoOn(t)
           Step == \A t \in Threads : /\ pc[t] # "idle" => StepsLeft(t)' <= StepsLeft(t)
                                      /\ Handle(t) => StepsLeft(t)' < StepsLeft(t)
<1>1. Inv => Left
  BY StepsAreBounded, OnlyForTheClient DEF Inv, Handlers
<1>2. Inv /\ [Next]_vars => [Step]_vars
  BY OthersLeaveSteps, HandleAdvances DEF Inv
<1> QED
  BY <1>1, <1>2, Invariance, PTL DEF Spec, HandlersAdvance
=============================================================================
