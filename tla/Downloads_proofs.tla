--------------------------- MODULE Downloads_proofs ---------------------------
(***************************************************************************)
(* What a client of the Android update server downloads: of an artifact    *)
(* exactly the positions it asked for, of a channel a prefix of one        *)
(* manifest it had.  The invariant stands on that of                       *)
(* UpdateRepository_proofs: a name that was stat'ed keeps its content.     *)
(***************************************************************************)
EXTENDS UpdateRepository_proofs

\* The positions of an artifact that a request asks for.
Asked(r, content) ==
    IF r.range = NoRange THEN 0 .. Len(content) - 1
    ELSE AskedPositions(r.range, Len(content))

\* What the headers of a download say between the stat and the answer.
Announced(t) ==
    /\ (pc[t] = "open" \/ (pc[t] = "respond" /\ status[t] \in {200, 206})) =>
           /\ status[t] = 200 => span[t][1] = 0
           /\ req[t].name \in Names =>
                  /\ Asked(req[t], file[req[t].name]) = span[t][1] .. span[t][2]
                  /\ pc[t] = "respond" /\ req[t].sendBody => SpanLength(span[t]) = 0
    /\ (pc[t] = "respond" /\ status[t] = 416 /\ req[t].name \in Names) =>
           file[req[t].name] # Absent /\ Asked(req[t], file[req[t].name]) = {}

\* What the last answer on the connection of t says of an artifact.
Exact(t) ==
    (/\ answer[t].status \in {200, 206, 416}
     /\ req[t].kind = "get" /\ answer[t].name \in Names) =>
        /\ file[answer[t].name] # Absent
        /\ answer[t].status = 416 => Asked(req[t], file[answer[t].name]) = {}
        /\ answer[t].status # 416 =>
               /\ Cardinality(Asked(req[t], file[answer[t].name])) = answer[t].length
               /\ req[t].sendBody =>
                      /\ answer[t].from .. answer[t].from + Len(answer[t].bytes) - 1
                             = Asked(req[t], file[answer[t].name])
                      /\ \A p \in Asked(req[t], file[answer[t].name]) :
                             answer[t].bytes[p - answer[t].from + 1]
                                 = file[answer[t].name][p + 1]

\* What it says of a channel.
Prefix(t) ==
    (answer[t].status = 200 /\ answer[t].name \in Channels) =>
        \E text \in released[answer[t].name] :
            /\ Len(answer[t].bytes) <= Len(text)
            /\ answer[t].bytes = SubSeq(text, 1, Len(answer[t].bytes))

Download(t) == Announced(t) /\ Exact(t) /\ Prefix(t)

\* released holds what the channels hold.
Current == \A c \in Channels : channel[c] # Absent => channel[c] \in released[c]

Downloads == Inv /\ Current /\ \A t \in Threads : Download(t)

-----------------------------------------------------------------------------

\* Nothing that was released is forgotten, and a replacement is released.
LEMMA ReleasedGrows ==
    ASSUME Inv, Current, [Next]_vars
    PROVE  /\ \A c \in Channels : released[c] \subseteq released'[c]
           /\ Current'
<1>1. ASSUME NEW t \in Threads, ReplaceChannel(t)
      PROVE  \A c \in Channels : /\ released[c] \subseteq released'[c]
                                 /\ channel'[c] # Absent => channel'[c] \in released'[c]
  BY <1>1 DEF ReplaceChannel, Current, Inv, TypeOK
<1>2. CASE released' = released /\ channel' = channel
  BY <1>2 DEF Current
<1>3. ASSUME NEW t \in Threads, DiskFails(t) PROVE released' = released /\ channel' = channel
  BY <1>3, DiskFailures DEF history
<1> QED
  BY <1>1, <1>2, <1>3
     DEF Current, Next, Handle, Artifact, Channel, Get, BeginArtifact, BeginChannel, BeginGet,
         OpenUpload, ReadBlock, BodyBreaks, VerifyUpload, LinkArtifact, ReadManifest,
         StatFile, SendFile, Respond, UnlinkTemp, ClientCloses, Restart, vars, volume, history

\* What was announced and what was delivered stay true of the volume, for a thread
\* that neither announces nor answers, and that forgets its answer with its request.
LEMMA Undisturbed ==
    ASSUME Inv, Grows, \A c \in Channels : released[c] \subseteq released'[c],
           NEW t \in Threads, Download(t),
           answer'[t] = NoAnswer \/ (answer'[t] = answer[t] /\ req'[t] = req[t]),
           \/ pc'[t] \notin {"open", "respond"}
           \/ pc'[t] = "respond" /\ status'[t] \notin {200, 206, 416}
           \/ UNCHANGED <<pc[t], req[t], status[t], span[t]>>
    PROVE  Download(t)'
<1>1. ASSUME NEW n \in Names, file[n] # Absent, req'[t] = req[t]
      PROVE  file'[n] = file[n]
  BY <1>1 DEF Grows
<1>2. Announced(t)'
  <2>1. CASE pc'[t] \notin {"open", "respond"}
    BY <2>1 DEF Announced
  <2>2. CASE pc'[t] = "respond" /\ status'[t] \notin {200, 206, 416}
    BY <2>2 DEF Announced
  <2>3. CASE UNCHANGED <<pc[t], req[t], status[t], span[t]>>
    <3>1. (/\ req[t].name \in Names
           /\ pc[t] = "open" \/ (pc[t] = "respond" /\ status[t] \in {200, 206}))
              => file[req[t].name] # Absent
      BY DEF Inv, Handlers, Handler, Downloading, ContentOf
    <3> QED
      BY <1>1, <2>3, <3>1 DEF Announced, Download
  <2> QED
    BY <2>1, <2>2, <2>3
<1>3. CASE answer'[t] = NoAnswer
  BY <1>2, <1>3 DEF Download, Exact, Prefix, NoAnswer
<1>4. CASE answer'[t] = answer[t] /\ req'[t] = req[t]
  <2>1. Exact(t)'
    BY <1>1, <1>4 DEF Exact, Download
  <2>2. Prefix(t)'
    BY <1>4 DEF Prefix, Download
  <2> QED
    BY <1>2, <2>1, <2>2 DEF Download
<1> QED
  BY <1>3, <1>4

\* _handle_read announces what the header asks for.
LEMMA StatAnnounces ==
    ASSUME Inv, NEW t \in Threads, StatFile(t)
    PROVE  Announced(t)'
<1> DEFINE n == req[t].name
           size == Len(ContentOf(n))
           r == IF req[t].range # NoRange THEN ParseRange(req[t].range, size)
                ELSE <<0, size - 1>>
<1>1. Downloading(t)
  BY DEF StatFile, Inv, Handlers, Handler
<1>2. /\ req[t] \in Gets /\ n \in Names \cup Channels
      /\ ContentOf(n) \in Contents /\ ContentOf(n) # Absent
  BY <1>1, RequestKinds DEF Downloading, ContentOf, Inv, TypeOK
<1>3. size \in Nat
  BY <1>2, LenProperties DEF Contents
<1>4. req'[t] = req[t] /\ file' = file
  BY DEF StatFile, volume
<1>5. n \in Names => Asked(req[t], file[n]) = (IF req[t].range = NoRange THEN 0 .. size - 1
                                               ELSE AskedPositions(req[t].range, size))
  BY DEF Asked, ContentOf
<1> HIDE DEF size
<1>6. CASE r = Unsatisfiable
  <2>1. pc'[t] = "respond" /\ status'[t] = 416
    BY <1>6 DEF StatFile, Send, Goto, Inv, TypeOK, size
  <2>2. req[t].range \in Headers /\ ParseRange(req[t].range, size) = Unsatisfiable
    BY <1>2, <1>3, <1>6, RangeConstantsDistinct DEF Gets
  <2>3. AskedPositions(req[t].range, size) = {}
    BY <1>3, <2>2, ParseRangeExact
  <2>4. req[t].range # NoRange
    BY <2>2, RepositoryAssumption
  <2> QED
    BY <1>2, <1>4, <1>5, <2>1, <2>3, <2>4 DEF Announced, ContentOf
<1>7. CASE r # Unsatisfiable
  <2>1. /\ span'[t] = r
        /\ status'[t] = (IF req[t].range # NoRange THEN 206 ELSE 200)
        /\ pc'[t] = (IF req[t].sendBody /\ SpanLength(r) > 0 THEN "open" ELSE "respond")
    BY <1>7 DEF StatFile, Goto, Inv, TypeOK, size
  <2>2. r \in Nat \X Int
    BY <1>2, <1>3, <1>7, AskedSpan
  <2>3. SpanLength(r) > 0 \/ SpanLength(r) = 0
    BY <2>2 DEF SpanLength
  <2>4. CASE req[t].range = NoRange
    <3>1. r = <<0, size - 1>>
      BY <2>4
    <3>2. r[1] = 0 /\ r[2] = size - 1
      BY <3>1
    <3> HIDE DEF r
    <3> QED
      BY <1>4, <1>5, <2>1, <2>3, <2>4, <3>2 DEF Announced
  <2>5. CASE req[t].range # NoRange
    <3>1. req[t].range \in Headers /\ r = ParseRange(req[t].range, size)
      BY <1>2, <2>5 DEF Gets
    <3>2. AskedPositions(req[t].range, size) = r[1] .. r[2]
      BY <1>3, <1>7, <3>1, ParseRangeExact
    <3> HIDE DEF r
    <3> QED
      BY <1>4, <1>5, <2>1, <2>3, <2>5, <3>2 DEF Announced
  <2> QED
    BY <2>4, <2>5
<1> QED
  BY <1>6, <1>7

\* A span has as many positions as its length says.
LEMMA SpanCardinality ==
    ASSUME NEW s \in Nat \X Int
    PROVE  Cardinality(s[1] .. s[2]) = SpanLength(s)
BY FS_Interval DEF SpanLength

\* Where the bytes of a span lie.
LEMMA SubSeqAt ==
    ASSUME NEW c \in Contents, NEW s \in Nat \X Int, s[2] < Len(c)
    PROVE  \A p \in s[1] .. s[2] : SubSeq(c, s[1] + 1, s[2] + 1)[p - s[1] + 1] = c[p + 1]
<1> SUFFICES ASSUME NEW a \in Nat, NEW b \in Int, b < Len(c), NEW p \in a .. b
             PROVE  SubSeq(c, a + 1, b + 1)[p - a + 1] = c[p + 1]
  OBVIOUS
<1>1. Len(c) \in Nat /\ c \in [1 .. Len(c) -> Blocks]
  BY LenProperties DEF Contents
<1>2. \A i \in a + 1 .. b + 1 : c[i] \in Blocks
  BY <1>1
<1>3. \A i \in 1 .. (b + 1) - (a + 1) + 1 : SubSeq(c, a + 1, b + 1)[i] = c[(a + 1) + i - 1]
  BY <1>2, SubSeqProperties
<1>4. p - a + 1 \in 1 .. (b + 1) - (a + 1) + 1 /\ (a + 1) + (p - a + 1) - 1 = p + 1
  OBVIOUS
<1> QED
  BY <1>3, <1>4, SMTT(30)

\* SendFile delivers what was announced.
LEMMA SendDelivers ==
    ASSUME Inv, Current, NEW t \in Threads, Download(t), SendFile(t), answer'[t] # answer[t]
    PROVE  Exact(t)' /\ Prefix(t)'
<1> DEFINE n == req[t].name
           bytes == BytesAt(ContentOf(n), span[t])
<1>1. /\ answer'[t].status = status[t] /\ answer'[t].name = n
      /\ answer'[t].from = span[t][1] /\ answer'[t].length = SpanLength(span[t])
      /\ answer'[t].bytes = bytes
      /\ req' = req /\ file' = file /\ released' = released
  BY DEF SendFile, Inv, TypeOK, volume
<1>2. /\ Downloading(t) /\ SpanFits(t) /\ pc[t] = "open"
      /\ span[t] \in Nat \X Int
  BY DEF SendFile, Inv, Handlers, Handler, TypeOK
<1>3. ContentOf(n) \in Contents /\ ContentOf(n) # Absent
  BY <1>2 DEF Downloading, ContentOf, Inv, TypeOK
<1>4. Exact(t)'
  <2> SUFFICES ASSUME n \in Names PROVE Exact(t)'
    BY <1>1 DEF Exact
  <2>1. /\ file[n] # Absent /\ file[n] \in Contents /\ bytes = BytesAt(file[n], span[t])
        /\ span[t][1] <= span[t][2] /\ span[t][2] < Len(file[n]) /\ status[t] # 416
    BY <1>2, <1>3 DEF ContentOf, SpanFits
  <2>2. Asked(req[t], file[n]) = span[t][1] .. span[t][2]
    BY <1>2 DEF Download, Announced
  <2>3. Cardinality(span[t][1] .. span[t][2]) = SpanLength(span[t])
    BY <1>2, SpanCardinality
  <2>4. /\ bytes = SubSeq(file[n], span[t][1] + 1, span[t][1] + Len(bytes))
        /\ Len(bytes) = SpanLength(span[t])
    <3>1. /\ BytesAt(file[n], span[t]) =
                SubSeq(file[n], span[t][1] + 1, span[t][1] + Len(BytesAt(file[n], span[t])))
          /\ Len(BytesAt(file[n], span[t])) = SpanLength(span[t])
      BY <1>2, <2>1, BytesAtFits, ZenonT(40)
    <3> QED
      BY <2>1, <3>1
  <2>5. span[t][1] + Len(bytes) - 1 = span[t][2]
    BY <1>2, <2>1, <2>4 DEF SpanLength
  <2>6. \A p \in span[t][1] .. span[t][2] : bytes[p - span[t][1] + 1] = file[n][p + 1]
    <3>1. bytes = SubSeq(file[n], span[t][1] + 1, span[t][2] + 1)
      BY <1>2, <2>4, <2>5 DEF SpanLength
    <3>2. \A p \in span[t][1] .. span[t][2] :
              SubSeq(file[n], span[t][1] + 1, span[t][2] + 1)[p - span[t][1] + 1] = file[n][p + 1]
      BY <1>2, <2>1, SubSeqAt
    <3> HIDE DEF bytes, n
    <3> QED
      BY <3>1, <3>2
  <2> HIDE DEF bytes, n
  <2> QED
    BY <1>1, <2>1, <2>2, <2>3, <2>5, <2>6 DEF Exact
<1>5. Prefix(t)'
  <2> SUFFICES ASSUME n \in Channels, status[t] = 200 PROVE Prefix(t)'
    BY <1>1 DEF Prefix
  <2>1. channel[n] \in released[n] /\ channel[n] \in Contents /\ ContentOf(n) = channel[n]
    BY <1>3, RepositoryAssumption DEF ContentOf, Current
  <2>2. span[t][1] = 0
    BY <1>2 DEF Download, Announced
  <2> DEFINE c == channel[n]
             k == LowerOf(span[t][2] + 1, Len(c))
  <2>3. Len(c) \in Nat /\ c \in [1 .. Len(c) -> Blocks]
    BY <2>1, LenProperties DEF Contents
  <2>4. k \in Nat /\ k <= Len(c)
    BY <1>2, <2>2, <2>3 DEF LowerOf, SpanFits
  <2>5. bytes = SubSeq(c, 1, k)
    BY <2>1, <2>2 DEF BytesAt
  <2> HIDE DEF k, c, bytes
  <2>6. \A i \in 1 .. k : c[i] \in Blocks
    BY <2>3, <2>4
  <2>7. Len(SubSeq(c, 1, k)) = k
    BY <2>4, <2>6, SubSeqProperties
  <2> QED
    BY <1>1, <2>1, <2>4, <2>5, <2>7 DEF Prefix, c
<1> QED
  BY <1>4, <1>5

\* So does Respond, where no byte is asked for.
LEMMA RespondDelivers ==
    ASSUME Inv, Current, NEW t \in Threads, Download(t), Respond(t), answer'[t] # answer[t]
    PROVE  Exact(t)' /\ Prefix(t)'
<1> DEFINE n == req[t].name
<1>1. answer'[t] = AnswerOf(t) /\ req' = req /\ file' = file /\ released' = released
  BY DEF Respond, Inv, TypeOK, volume
<1>2. Handler(t) /\ pc[t] = "respond" /\ span[t] \in Nat \X Int
  BY DEF Respond, Inv, Handlers, TypeOK
<1>3. answer'[t].status = status[t] /\ answer'[t].name = n
  BY <1>1 DEF AnswerOf
<1>4. CASE status[t] \in {200, 206}
  <2>1. /\ answer'[t].from = span[t][1] /\ answer'[t].length = SpanLength(span[t])
        /\ answer'[t].bytes = <<>>
    BY <1>1, <1>4 DEF AnswerOf
  <2>2. ContentOf(n) # Absent
    BY <1>2, <1>4 DEF Handler
  <2>3. Len(<<>>) = 0
    BY EmptySeq
  <2>4. Exact(t)'
    <3> SUFFICES ASSUME n \in Names PROVE Exact(t)'
      BY <1>3 DEF Exact
    <3>1. Asked(req[t], file[n]) = span[t][1] .. span[t][2]
      BY <1>2, <1>4 DEF Download, Announced
    <3>2. Cardinality(span[t][1] .. span[t][2]) = SpanLength(span[t])
      BY <1>2, SpanCardinality
    <3>3. req[t].sendBody => SpanLength(span[t]) = 0
      BY <1>2, <1>4 DEF Download, Announced
    <3>4. SpanLength(span[t]) = 0 => /\ span[t][1] .. span[t][2] = {}
                                    /\ span[t][1] .. span[t][1] + 0 - 1 = {}
      BY <1>2 DEF SpanLength
    <3>5. file[n] # Absent
      BY <2>2 DEF ContentOf
    <3>6. Cardinality(Asked(req[t], file[n])) = SpanLength(span[t])
      BY <3>1, <3>2
    <3>7. req[t].sendBody => /\ Asked(req[t], file[n]) = {}
                             /\ span[t][1] .. span[t][1] + Len(<<>>) - 1 = {}
      BY <2>3, <3>1, <3>3, <3>4
    <3> HIDE DEF n
    <3>8. /\ req'[t] = req[t] /\ file'[answer'[t].name] = file[n]
          /\ status[t] # 416
      BY <1>1, <1>3, <1>4
    <3>9. req[t].sendBody =>
              /\ answer'[t].from .. answer'[t].from + Len(answer'[t].bytes) - 1 = {}
              /\ Asked(req[t], file[n]) = {}
      BY <2>1, <3>7
    <3>10. answer'[t].status # 416 /\ answer'[t].length = SpanLength(span[t])
      BY <1>3, <2>1, <3>8
    <3>11. Asked(req'[t], file'[answer'[t].name]) = Asked(req[t], file[n])
      BY <3>8
    <3>12. req'[t].sendBody =>
              /\ answer'[t].from .. answer'[t].from + Len(answer'[t].bytes) - 1
                     = Asked(req'[t], file'[answer'[t].name])
              /\ Asked(req'[t], file'[answer'[t].name]) = {}
      BY <3>8, <3>9, <3>11
    <3>13. /\ file'[answer'[t].name] # Absent
           /\ Cardinality(Asked(req'[t], file'[answer'[t].name])) = answer'[t].length
      BY <3>5, <3>6, <3>8, <3>10, <3>11
    <3> QED
      BY <3>10, <3>12, <3>13 DEF Exact
  <2>5. Prefix(t)'
    <3> SUFFICES ASSUME n \in Channels PROVE Prefix(t)'
      BY <1>3 DEF Prefix
    <3>1. channel[n] \in released[n] /\ channel[n] \in Contents
      BY <2>2, RepositoryAssumption DEF ContentOf, Current, Inv, TypeOK
    <3>2. Len(channel[n]) \in Nat
      BY <3>1, LenProperties DEF Contents
    <3>3. <<>> = SubSeq(channel[n], 1, 0)
      BY SubSeqEmpty
    <3> QED
      BY <1>1, <1>3, <2>1, <2>3, <3>1, <3>2, <3>3 DEF Prefix
  <2> QED
    BY <2>4, <2>5
<1>5. CASE status[t] \notin {200, 206}
  <2>1. Prefix(t)'
    BY <1>3, <1>5 DEF Prefix
  <2>2. Exact(t)'
    <3> SUFFICES ASSUME status[t] = 416, n \in Names PROVE Exact(t)'
      BY <1>3, <1>5 DEF Exact
    <3>1. file[n] # Absent /\ Asked(req[t], file[n]) = {}
      BY <1>2 DEF Download, Announced
    <3> QED
      BY <1>1, <1>3, <3>1 DEF Exact
  <2> QED
    BY <2>1, <2>2
<1> QED
  BY <1>4, <1>5
\* A step of one thread: only StatFile announces, only SendFile and Respond answer.
LEMMA StepDownload ==
    ASSUME Downloads, Grows, \A c \in Channels : released[c] \subseteq released'[c],
           NEW t \in Threads,
           \/ BeginArtifact(t) \/ BeginChannel(t) \/ BeginGet(t)
           \/ Handle(t) \/ ClientCloses(t)
    PROVE  Download(t)'
<1> USE DEF Downloads, Inv, TypeOK
<1>1. CASE BeginArtifact(t)
  <2>1. PICK r \in Requests : r.kind = "artifact" /\ Begin(t, r)
                              /\ Admit(t, ArtifactRefusal(r), "mkdir")
    BY <1>1 DEF BeginArtifact
  <2>2. answer'[t] = NoAnswer
    BY <2>1 DEF Begin
  <2>3. pc'[t] = "mkdir" \/ (pc'[t] = "respond" /\ status'[t] \notin {200, 206, 416})
    BY <2>1, AdmittedUpload DEF Admit, Goto, Send
  <2> QED
    BY <2>2, <2>3, Undisturbed
<1>2. CASE BeginChannel(t)
  <2>1. PICK r \in Requests : r.kind = "channel" /\ Begin(t, r)
                              /\ Admit(t, ChannelRefusal(r), "manifest")
    BY <1>2 DEF BeginChannel
  <2>2. answer'[t] = NoAnswer
    BY <2>1 DEF Begin
  <2>3. pc'[t] = "manifest" \/ (pc'[t] = "respond" /\ status'[t] \notin {200, 206, 416})
    BY <2>1, AdmittedManifest DEF Admit, Goto, Send
  <2> QED
    BY <2>2, <2>3, Undisturbed
<1>3. CASE BeginGet(t)
  <2>1. answer'[t] = NoAnswer
    BY <1>3 DEF BeginGet, Begin
  <2>2. pc'[t] = "stat" \/ (pc'[t] = "respond" /\ status'[t] \notin {200, 206, 416})
    BY <1>3 DEF BeginGet, Admit, Goto, Send
  <2> QED
    BY <2>1, <2>2, Undisturbed
<1>4. CASE Artifact(t) \/ Channel(t)
  <2>1. answer'[t] = answer[t] /\ req'[t] = req[t]
    BY <1>4 DEF Artifact, Channel, OpenUpload, ReadBlock, BodyBreaks, VerifyUpload,
       LinkArtifact, UnlinkTemp, ReadManifest, ReplaceChannel, history
  <2>2. \/ pc'[t] \notin {"open", "respond"}
        \/ pc'[t] = "respond" /\ status'[t] \notin {200, 206, 416}
    BY <1>4 DEF Artifact, Channel, OpenUpload, ReadBlock, BodyBreaks, VerifyUpload,
       LinkArtifact, UnlinkTemp, ReadManifest, ReplaceChannel, Goto, Send, Finish
  <2> QED
    BY <2>1, <2>2, Undisturbed
<1>5. CASE StatFile(t)
  <2>1. req' = req /\ answer' = answer /\ file' = file /\ released' = released
    BY <1>5 DEF StatFile, history, volume
  <2>2. Exact(t) /\ Prefix(t)
    BY DEF Download
  <2>3. Exact(t)'
    BY <2>1, <2>2 DEF Exact
  <2>4. Prefix(t)'
    BY <2>1, <2>2 DEF Prefix
  <2> QED
    BY <1>5, <2>3, <2>4, StatAnnounces DEF Download
<1>6. CASE ClientCloses(t)
  BY <1>6, Undisturbed DEF ClientCloses, history
<1>7. CASE SendFile(t) \/ Respond(t)
  <2>1. req'[t] = req[t] /\ pc'[t] \in {"idle", "unlink"}
    BY <1>7 DEF SendFile, Respond, AfterAnswer, Finish, Goto
  <2>2. CASE answer'[t] = answer[t]
    BY <2>1, <2>2, Undisturbed
  <2>3. CASE answer'[t] # answer[t]
    <3>1. Exact(t)' /\ Prefix(t)'
      BY <1>7, <2>3, SendDelivers, RespondDelivers
    <3>2. Announced(t)'
      BY <2>1 DEF Announced
    <3> QED
      BY <3>1, <3>2 DEF Download
  <2> QED
    BY <2>2, <2>3
<1>8. CASE DiskFails(t)
  <2>1. req'[t] = req[t] /\ answer'[t] = answer[t] /\ pc'[t] \in {"idle", "unlink"}
    BY <1>8, DiskFailures DEF Finish, Goto, history
  <2> QED
    BY <2>1, Undisturbed
<1> QED
  BY <1>1, <1>2, <1>3, <1>4, <1>5, <1>6, <1>7, <1>8 DEF Handle, Get

\* A step of one thread leaves the others as they are.
LEMMA OthersAreLeft ==
    ASSUME TypeOK, NEW t \in Threads, NEW u \in Threads \ {t},
           \/ BeginArtifact(t) \/ BeginChannel(t) \/ BeginGet(t)
           \/ Handle(t) \/ ClientCloses(t)
    PROVE  UNCHANGED <<pc[u], req[u], status[u], span[u], answer[u]>>
BY DEF TypeOK, Handle, Artifact, Channel, Get, BeginArtifact, BeginChannel, BeginGet,
       Begin, Admit, OpenUpload, ReadBlock, BodyBreaks, VerifyUpload, LinkArtifact,
       ReadManifest, ReplaceChannel, StatFile, SendFile, Respond, AfterAnswer, UnlinkTemp,
       DiskFails, ClientCloses, Goto, Send, Finish, history

LEMMA DownloadsStep == Downloads /\ [Next]_vars => Downloads'
<1> SUFFICES ASSUME Downloads, [Next]_vars PROVE Downloads'
  OBVIOUS
<1>1. Inv' /\ Grows
  BY StepInv, StepGrows DEF Downloads, Inv
<1>2. Current' /\ \A c \in Channels : released[c] \subseteq released'[c]
  BY ReleasedGrows DEF Downloads
<1>3. ASSUME NEW t \in Threads PROVE Download(t)'
  <2>1. CASE Restart
    BY <1>1, <1>2, <2>1, Undisturbed DEF Downloads, Restart
  <2>2. CASE UNCHANGED vars
    BY <1>1, <1>2, <2>2, Undisturbed DEF Downloads, vars, history
  <2>3. ASSUME NEW u \in Threads,
               \/ BeginArtifact(u) \/ BeginChannel(u) \/ BeginGet(u)
               \/ Handle(u) \/ ClientCloses(u)
        PROVE  Download(t)'
    <3>1. CASE t = u
      BY <1>1, <1>2, <2>3, <3>1, StepDownload
    <3>2. CASE t # u
      <4>1. UNCHANGED <<pc[t], req[t], status[t], span[t], answer[t]>>
        BY <2>3, <3>2, OthersAreLeft DEF Downloads, Inv
      <4> QED
        BY <1>1, <1>2, <4>1, Undisturbed DEF Downloads
    <3> QED
      BY <3>1, <3>2
  <2> QED
    BY <2>1, <2>2, <2>3 DEF Next
<1> QED
  BY <1>1, <1>2, <1>3 DEF Downloads

\* What was announced is what was asked for, and what was answered what was announced.
THEOREM Delivery == Spec => []Downloads
<1>1. Init => Downloads
  BY InitInv DEF Init, Downloads, Current, Download, Announced, Exact, Prefix, NoAnswer
<1> QED
  BY <1>1, DownloadsStep, PTL DEF Spec

\* A download of an artifact has exactly the positions its Range header asks for, and as
\* many bytes as its headers announced (server.py _send_file, _parse_range).
THEOREM DownloadsAreExact == Spec => []RangesAreExact
<1>1. Downloads => RangesAreExact
  <2> SUFFICES ASSUME Downloads PROVE RangesAreExact
    OBVIOUS
  <2> SUFFICES ASSUME NEW t \in Threads, answer[t].status # 0,
                      req[t].kind = "get", answer[t].name \in Names
               PROVE  LET a == answer[t]
                          asked == Asked(req[t], file[a.name])
                      IN  CASE a.status \in {200, 206} ->
                                  /\ Cardinality(asked) = a.length
                                  /\ req[t].sendBody =>
                                        /\ a.from .. a.from + Len(a.bytes) - 1 = asked
                                        /\ \A p \in asked :
                                              a.bytes[p - a.from + 1] = file[a.name][p + 1]
                            [] a.status = 416 -> asked = {}
                            [] OTHER -> TRUE
    BY DEF RangesAreExact, Asked
  <2>1. Exact(t)
    BY DEF Downloads, Download
  <2> QED
    BY <2>1 DEF Exact
<1> QED
  BY <1>1, Delivery, PTL

\* A manifest that is downloaded is a prefix of one that was released to its channel,
\* whichever version the headers announced the length of.
THEOREM ManifestsWereReleased == Spec => []ManifestsAreReleased
<1>1. Downloads => ManifestsAreReleased
  BY DEF Downloads, Download, Prefix, ManifestsAreReleased
<1> QED
  BY <1>1, Delivery, PTL
=============================================================================
