---------------------------- MODULE PublishMirror ----------------------------
(***************************************************************************)
(* Publishing a mirrored image (scripts/publish-mirror.sh): each tag of    *)
(* image.json, and then, if it has a latestTag, the first of them under    *)
(* the name latest, is copied from the upstream registry and annotated; a  *)
(* tag that exists is skipped.  minecraft-server has no latestTag.         *)
(*                                                                         *)
(* Upstream tags may move: cloudnative-pg-postgresql mirrors the major     *)
(* versions "15" and "16".                                                 *)
(***************************************************************************)
EXTENDS PublishCommon

CONSTANTS
    Lists,        \* [Jobs -> tags of the image.json each job has checked out, in order]
    NamesLatest,  \* [Jobs -> whether that image.json has a latestTag]
    MaxMoves      \* bound on the moves of upstream tags

\* An image is what one upstream tag held after so many moves.
ASSUME MirrorAssumption ==
    /\ Images = [tag : Tags \ {Latest}, moves : 0 .. MaxMoves]
    /\ Lists \in [Jobs -> Seq(Tags \ {Latest}) \ {<<>>}]
    /\ NamesLatest \in [Jobs -> BOOLEAN]
    /\ MaxMoves \in Nat

VARIABLES
    upstream,   \* [Tags \ {Latest} -> how often the upstream tag has moved]
    copying     \* the image skopeo has read for each job

vars == <<common, upstream, copying>>

Init ==
    /\ CommonInit
    /\ upstream = [t \in Tags \ {Latest} |-> 0]
    /\ copying = [j \in Jobs |-> Absent]

UpstreamMoves(tag) ==
    /\ upstream[tag] < MaxMoves
    /\ upstream' = [upstream EXCEPT ![tag] = @ + 1]
    /\ UNCHANGED <<common, copying>>

\* MUTANT: latest is made from the last tag.
LastSource(j) ==
    IF at[j] <= Len(Lists[j]) THEN Lists[j][at[j]] ELSE Lists[j][Len(Lists[j])]

\* The tags of the list, then .tags[0] under the name latest.
SourceRef(j) == IF at[j] <= Len(Lists[j]) THEN Lists[j][at[j]] ELSE Lists[j][1]
DestRef(j) == IF at[j] <= Len(Lists[j]) THEN Lists[j][at[j]] ELSE Latest

\* How many tags a job publishes.
Rounds(j) == IF NamesLatest[j] THEN Len(Lists[j]) + 1 ELSE Len(Lists[j])

\* MUTANT: the loop ends one tag late.
NextTagLate(j) ==
    /\ at' = [at EXCEPT ![j] = @ + 1]
    /\ Goto(j, IF at[j] > Rounds(j) THEN "done" ELSE "check")

\* publish_tag returns: the loop goes to the next tag.
NextTag(j) ==
    /\ at' = [at EXCEPT ![j] = @ + 1]
    /\ Goto(j, IF at[j] >= Rounds(j) THEN "done" ELSE "check")

BeginMirror(j) ==
    /\ Start(j, "check")
    /\ UNCHANGED <<registry, at, held, misses, upstream, copying>>

\* publish_tag: is_mutable_ref and publish_ref_exists.
CheckTag(j) ==
    /\ pc[j] = "check"
    /\ IF IsMutableRef(DestRef(j))
       THEN Goto(j, "copy") /\ UNCHANGED <<at, misses, disturbed>>
       ELSE \E exists \in BOOLEAN :
               /\ RefExists(DestRef(j), exists)
               /\ IF exists THEN NextTag(j) ELSE Goto(j, "copy") /\ UNCHANGED at
    /\ UNCHANGED <<registry, held, upstream, copying>>

\* skopeo copy reads the source ...
ReadUpstream(j) ==
    /\ pc[j] = "copy"
    /\ copying' = [copying EXCEPT ![j] = [tag   |-> SourceRef(j),
                                          moves |-> upstream[SourceRef(j)]]]
    /\ Goto(j, "write")
    /\ UNCHANGED <<registry, at, held, misses, disturbed, upstream>>

\* MUTANT: latest is copied only.
WriteCopyOnly(j) ==
    /\ pc[j] = "write"
    /\ Push(DestRef(j), [image |-> copying[j], revision |-> NoRevision])
    /\ copying' = [copying EXCEPT ![j] = Absent]
    /\ Goto(j, IF DestRef(j) = Latest THEN "done" ELSE "annotate")
    /\ UNCHANGED <<at, held, misses, disturbed, upstream>>

\* ... and writes the destination.
WriteCopy(j) ==
    /\ pc[j] = "write"
    /\ Push(DestRef(j), [image |-> copying[j], revision |-> NoRevision])
    /\ copying' = [copying EXCEPT ![j] = Absent]
    /\ Goto(j, "annotate")
    /\ UNCHANGED <<at, held, misses, disturbed, upstream>>

FetchForAnnotation(j) ==
    /\ pc[j] = "annotate"
    /\ Fetch(j, DestRef(j))
    /\ Goto(j, "annotating")
    /\ UNCHANGED <<registry, at, misses, disturbed, upstream, copying>>

Annotate(j) ==
    /\ pc[j] = "annotating"
    /\ Push(DestRef(j), Annotated(j))
    /\ Release(j)
    /\ NextTag(j)
    /\ UNCHANGED <<misses, disturbed, upstream, copying>>

FailMirror(j) ==
    /\ Fail(j)
    /\ copying' = [copying EXCEPT ![j] = Absent]
    /\ UNCHANGED upstream

Work(j) ==
    \/ BeginMirror(j) \/ CheckTag(j) \/ ReadUpstream(j) \/ WriteCopy(j)
    \/ FetchForAnnotation(j) \/ Annotate(j)

Next ==
    \/ \E j \in Jobs : Work(j) \/ FailMirror(j)
    \/ \E t \in Tags \ {Latest} : UpstreamMoves(t)

Spec == Init /\ [][Next]_vars

-----------------------------------------------------------------------------
(* Properties.                                                              *)

TypeOK ==
    /\ CommonTypeOK
    /\ upstream \in [Tags \ {Latest} -> 0 .. MaxMoves]
    /\ copying \in [Jobs -> Images \cup {Absent}]
    /\ \A j \in Jobs : at[j] \in 1 .. Rounds(j) + 1

\* A mirrored tag holds what upstream published under the same name, now or before, and
\* latest what it published under the first tag in the list of a job that names latest
\* and got there, whatever jobs copied and annotated the same tags at once.  (Which of
\* them, and whether an older one: see latest in README.)
MirrorsHoldTheirSource ==
    \A t \in Tags : Published(t) =>
        LET image == registry[t].image
        IN  /\ IF t = Latest
               THEN \E j \in Jobs : /\ NamesLatest[j] /\ image.tag = Lists[j][1]
                                   /\ at[j] > Len(Lists[j])
               ELSE image.tag = t
            /\ image.moves <= upstream[image.tag]

\* While jobs run one at a time and no inspection misses a tag, a mirrored tag keeps its
\* image although the upstream tag moves and later jobs find it again.
MirroredTagsKeepTheirImage ==
    [][\A t \in Tags \ {Latest} :
          (Published(t) /\ ~disturbed') => registry'[t].image = registry[t].image]_vars

\* The tags that a job publishes.
Targets(j) ==
    { Lists[j][i] : i \in DOMAIN Lists[j] } \cup (IF NamesLatest[j] THEN {Latest} ELSE {})

\* When no job has failed, every tag of the finished jobs is there and annotated,
\* although jobs have copied and annotated the same tags at once.  (After a failure
\* between copy and annotation the tag stays as it is: later jobs skip it.)
AllAnnotatedAtRest ==
    (\A j \in Jobs : pc[j] \in {"waiting", "done"}) =>
        \A j \in Jobs : pc[j] = "done" =>
            \A t \in Targets(j) : Published(t) /\ registry[t].revision # NoRevision
=============================================================================
