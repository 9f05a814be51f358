------------------------------ MODULE ClockSync ------------------------------
(***************************************************************************)
(* The filter between ffmpeg and nc (unifi/clock_sync.py): it copies an    *)
(* FLV stream tag by tag, puts a trailer with the elapsed time after each  *)
(* tag, and every SyncPeriod seconds two script tags before one.           *)
(*                                                                         *)
(* The input is a sequence of bytes that may end anywhere.  The output is  *)
(* a sequence of chunks: bytes copied from the input, script tags, and     *)
(* trailers, of which one is torn when its time is too wide to be written. *)
(* One pass of the loop is one step: the process shares nothing, and a     *)
(* read that waits for ffmpeg changes nothing.                             *)
(***************************************************************************)
EXTENDS Integers, SequencesExt

CONSTANTS
    TrailerMax,   \* the largest value of the trailer's ui32
    TrailerRate,  \* trailer units per second: 1000 * timestamp_modifier
    SyncPeriod,   \* seconds between two clock syncs
    TagLists,     \* what ffmpeg may write: sequences of tags
    Times         \* what the wall clock may show at a pass, in seconds

Bytes == 0 .. 255

\* A tag of the format: its type, the seven bytes of its timestamp and stream id, and a
\* payload whose size fits three bytes.
Tags ==
    { tag \in [type : Bytes, fields : Seq(Bytes), payload : Seq(Bytes)] :
        Len(tag.fields) = 7 /\ Len(tag.payload) < 16777216 }

ASSUME ClockSyncAssumption ==
    /\ TrailerMax \in Nat /\ TrailerRate \in Nat \ {0} /\ SyncPeriod \in Nat
    /\ TagLists \subseteq Seq(Tags)
    /\ Times \subseteq Int

VARIABLES
    input,    \* what ffmpeg writes, and at which byte it ends
    filter    \* where main() is, and what it has written

clockSync == <<input, filter>>

Ui24(n) == <<n \div 65536, (n \div 256) % 256, n % 256>>

Ui32(n) == <<n \div 16777216>> \o Ui24(n % 16777216)

\* A tag, and the size of the tag.
FlvTag(tag) ==
    <<tag.type>> \o Ui24(Len(tag.payload)) \o tag.fields \o tag.payload
        \o Ui32(11 + Len(tag.payload))

\* Before the first tag: the format, its version, its flags, and the sizes of this
\* header and of no tag.
FlvHeader(flags) == <<70, 76, 86, 1, flags, 0, 0, 0, 9, 0, 0, 0, 0>>

Flv(flags, tags) ==
    FlvHeader(flags) \o FlattenSeq([i \in 1 .. Len(tags) |-> FlvTag(tags[i])])

Stdin == SubSeq(Flv(5, input.tags), 1, input.cut)

Copy(bytes) == [kind |-> "copy", bytes |-> bytes, video |-> FALSE, value |-> 0]

Script(name, timestamp) == [kind |-> name, bytes |-> <<>>, video |-> FALSE, value |-> timestamp]

\* MUTANT: the time is packed as a signed number.
FitsSigned(elapsed) == 2 * elapsed * TrailerRate \in 0 .. TrailerMax

\* make_ui32 packs what fits and raises otherwise: also when the clock was set back.
Fits(elapsed) == elapsed * TrailerRate \in 0 .. TrailerMax

\* write_timestamp_trailer: its first bytes are out when make_ui32 raises.
Trailer(video, elapsed) ==
    [kind |-> IF Fits(elapsed) THEN "trailer" ELSE "torn", bytes |-> <<>>,
     video |-> video, value |-> elapsed * TrailerRate]

\* read_bytes: n bytes from the position on, or what is left.
ReadBytes(in, pos, n) ==
    SubSeq(in, pos + 1, IF pos + n <= Len(in) THEN pos + n ELSE Len(in))

PayloadSize(header) == 65536 * header[2] + 256 * header[3] + header[4]

\* Three bytes and, before them, the extension, as one signed number of 32 bits.
Timestamp(header) ==
    16777216 * (IF header[8] >= 128 THEN header[8] - 256 ELSE header[8])
        + 65536 * header[5] + 256 * header[6] + header[7]

\* The FLV header and the size before the first tag; the flags become 7.  An input that
\* is no FLV, such as an empty one, is reported on stdout, to nc.
Begin(in, now) ==
    LET flv == ReadBytes(in, 0, 3) = <<70, 76, 86>>
        head == ReadBytes(in, 0, 4) \o <<7>> \o ReadBytes(in, 5, 8)
    IN  [pos |-> IF flv THEN Len(head) ELSE Len(ReadBytes(in, 0, 3)),
         start |-> now, last |-> now, now |-> now,
         out |-> IF flv THEN <<Copy(head)>> ELSE <<Script("message", 0)>>, running |-> flv]

\* MUTANT: the four bytes of the previous size are read after the payload.
TagReadsLate(in, pos) ==
    LET header == ReadBytes(in, pos, 12)
        payload == ReadBytes(in, pos + 12, PayloadSize(header))
    IN  header \o payload \o ReadBytes(in, pos + 12 + Len(payload), 4)

\* A tag is read as 12 bytes, its payload's size and 3 more: the 12th is the payload's
\* first byte, or the first of the previous size when there is no payload.
TagReads(in, pos) ==
    LET header == ReadBytes(in, pos, 12)
        payload == ReadBytes(in, pos + 12, PayloadSize(header))
    IN  header \o payload \o ReadBytes(in, pos + 12 + Len(payload), 3)

\* What is written for a tag up to its own trailer, when a clock sync is due or not.
Written(tag, due, elapsed) ==
    LET sync == <<Script("onClockSync", Timestamp(tag)), Trailer(FALSE, elapsed)>>
        mpma == <<Script("onMpma", 0), Trailer(FALSE, elapsed)>>
        passed == <<Copy(tag), Trailer(tag[1] = 9, elapsed)>>
    IN  IF ~due THEN passed
        ELSE IF ~Fits(elapsed) THEN sync
        ELSE sync \o mpma \o passed

\* MUTANT: a short header is thrown away.
NoLastBytes(in, pos) == <<>>

\* A header that is not whole is the end of the input and is passed on as it is.
LastBytes(in, pos) == ReadBytes(in, pos, 12)

\* The process starts when the wall clock shows "now".  ffmpeg writes nothing, or ends
\* anywhere after the header, which it writes at once.
FilterStarts(now) ==
    /\ input \in UNION { [tags : {tags}, cut : {0} \cup 13 .. Len(Flv(5, tags))] :
                           tags \in TagLists }
    /\ filter = Begin(Stdin, now)

\* A header that is not whole: the end of the input.
InputEnds ==
    /\ filter.running
    /\ filter.pos + 12 > input.cut
    /\ filter' = [filter EXCEPT !.pos = input.cut, !.running = FALSE,
                               !.out = Append(@, Copy(LastBytes(Stdin, filter.pos)))]
    /\ UNCHANGED input

\* One pass of the loop with a tag, when the wall clock shows "now".  Of a tag before
\* which a clock sync is due only the header has been read when its trailer is torn.
PassTag(now) ==
    LET tag == TagReads(Stdin, filter.pos)
        elapsed == now - filter.start
        due == now - filter.last >= SyncPeriod
    IN  /\ filter.running
        /\ filter.pos + 12 <= input.cut
        /\ filter' = [filter EXCEPT
                        !.pos = @ + (IF due /\ ~Fits(elapsed) THEN 12 ELSE Len(tag)),
                        !.last = IF due THEN now ELSE @,
                        !.now = now,
                        !.out = @ \o Written(tag, due, elapsed),
                        !.running = Fits(elapsed)]
        /\ UNCHANGED input

FilterStep == InputEnds \/ \E now \in Times : PassTag(now)

-----------------------------------------------------------------------------
(* Properties.                                                              *)

\* The bytes of an output that come from the input.
Copied(out) ==
    FlattenSeq([i \in 1 .. Len(out) |-> IF out[i].kind = "copy" THEN out[i].bytes ELSE <<>>])

Kinds(out, kind) == { i \in DOMAIN out : out[i].kind = kind }

\* A filter that died in the trailer of a clock sync had read the 12 bytes of the header
\* of the next tag (clock_sync.py:83), which nothing writes any more.
Withheld(out) ==
    IF /\ Len(out) > 1
       /\ out[Len(out) - 1].kind = "onClockSync" /\ out[Len(out)].kind = "torn"
    THEN 12 ELSE 0

\* Wherever ffmpeg stops and whatever is put in between, nc gets the bytes that were
\* read, once each and in order, with the flags of the header set to audio and video:
\* all of them but the header of the tag before which a filter dies in a clock sync.
CopiesWhatItReads ==
    Copied(filter.out) = SubSeq(Flv(7, input.tags), 1, filter.pos - Withheld(filter.out))

\* The trailers stand where a tag and its size are complete, or at the end of the
\* input, and those of tags say whether the tag before is video, although the loop reads
\* across the boundaries of the format's fields.
TrailersFollowTags ==
    \A i \in Kinds(filter.out, "trailer") :
        LET before == Copied(SubSeq(filter.out, 1, i))
            ends == { n \in 0 .. Len(input.tags) : before = Flv(7, SubSeq(input.tags, 1, n)) }
        IN  \/ Len(before) = input.cut
            \/ \E n \in ends :
                 filter.out[i - 1].kind = "copy"
                    => n > 0 /\ filter.out[i].video = (input.tags[n].type = 9)

\* The filter, and with it the stream, ends with its input, every trailer whole, unless
\* the time since its start does not fit the trailer (after 2^32 / 90000 seconds, or
\* when the wall clock is set back behind the start): then a torn one is the last it
\* writes.
DiesOnlyOfItsClock ==
    LET torn == Kinds(filter.out, "torn")
    IN  IF torn = {} THEN ~filter.running => filter.pos = input.cut
        ELSE /\ ~filter.running /\ torn = {Len(filter.out)}
             /\ (filter.now - filter.start) * TrailerRate \notin 0 .. TrailerMax
=============================================================================
