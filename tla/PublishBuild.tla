---------------------------- MODULE PublishBuild ----------------------------
(***************************************************************************)
(* Publishing a built image (scripts/publish-build.sh).  A job builds the  *)
(* image, asks it for its application version, pushes latest and the       *)
(* static tags that are missing, annotates them all, and then names latest *)
(* by the version unless that tag exists.                                  *)
(***************************************************************************)
EXTENDS PublishCommon

CONSTANTS
    Plan,        \* [Jobs -> the version its image reports and its release tag]
    StaticTags,  \* staticTags of image.json, in order
    NoRelease    \* a job that was not started by a release tag

\* Its image is named after the job: a build is never repeated bit by bit.
Version(j) == Plan[j].version

TagList == <<Latest>> \o StaticTags

IsStatic(tag) == \E i \in DOMAIN StaticTags : StaticTags[i] = tag

ASSUME BuildAssumption ==
    /\ Images = Jobs
    /\ StaticTags \in Seq(Tags \ {Latest})
    /\ Plan \in [Jobs -> [version : Tags, release : Tags \cup {NoRelease}]]
    /\ NoRelease \notin Tags
    /\ \A j \in Jobs : Version(j) # Latest /\ ~IsStatic(Version(j))

VARIABLE
    todo         \* tag_args: the tags each job is going to push

vars == <<common, todo>>

Init == CommonInit /\ todo = [j \in Jobs |-> {}]

\* validate_release_tag: a release tag names the version of the image it releases.
ValidRelease(j) == Plan[j].release \in {NoRelease, Version(j)}

\* docker build, versionCommand, validate_release_tag.
BuildImage(j) ==
    /\ Start(j, IF ValidRelease(j) THEN "check" ELSE "failed")
    /\ UNCHANGED <<registry, at, held, misses, todo>>

\* The loop over the tags that fills tag_args.
CheckTag(j) ==
    /\ pc[j] = "check"
    /\ LET tag == TagList[at[j]]
       IN  IF IsMutableRef(tag)
           THEN /\ todo' = [todo EXCEPT ![j] = @ \cup {tag}]
                /\ UNCHANGED <<misses, disturbed>>
           ELSE \E exists \in BOOLEAN :
                   /\ RefExists(tag, exists)
                   /\ todo' = [todo EXCEPT ![j] = IF exists THEN @ ELSE @ \cup {tag}]
    /\ IF at[j] = Len(TagList)
       THEN at' = [at EXCEPT ![j] = 1] /\ Goto(j, "push")
       ELSE at' = [at EXCEPT ![j] = @ + 1] /\ UNCHANGED pc
    /\ UNCHANGED <<registry, held>>

\* docker buildx build --push: its tags reach the registry one after the other.
PushTag(j) ==
    /\ pc[j] = "push"
    /\ \E tag \in todo[j] :
          /\ Push(tag, [image |-> j, revision |-> NoRevision])
          /\ todo' = [todo EXCEPT ![j] = @ \ {tag}]
    /\ IF todo'[j] = {} THEN Goto(j, "annotate") ELSE UNCHANGED pc
    /\ UNCHANGED <<at, held, misses, disturbed>>

\* MUTANT: only latest is annotated, and the version.
AnnotationLast(j) == at[j] = 1

\* annotate_published_ref is called for every tag of the list, pushed or skipped, and
\* for the version tag, which comes after the list.
AnnotationRef(j) == IF at[j] <= Len(TagList) THEN TagList[at[j]] ELSE Version(j)

AnnotationEnds(j) == at[j] = Len(TagList)

\* MUTANT: the tag after the version is waited for.
VersionAnnotatedLate(j) == at[j] > Len(TagList) + 1

VersionAnnotated(j) == at[j] > Len(TagList)

FetchForAnnotation(j) ==
    /\ pc[j] = "annotate"
    /\ Fetch(j, AnnotationRef(j))
    /\ Goto(j, "annotating")
    /\ UNCHANGED <<registry, at, misses, disturbed, todo>>

Annotate(j) ==
    /\ pc[j] = "annotating"
    /\ Push(AnnotationRef(j), Annotated(j))
    /\ Release(j)
    /\ at' = [at EXCEPT ![j] = @ + 1]
    /\ Goto(j, IF VersionAnnotated(j) THEN "done"
               ELSE IF AnnotationEnds(j) THEN "version" ELSE "annotate")
    /\ UNCHANGED <<misses, disturbed, todo>>

\* "version tag ... already exists; immutable tags are never recreated", exit 0.
CheckVersion(j) ==
    /\ pc[j] = "version"
    /\ \E exists \in BOOLEAN :
          /\ RefExists(Version(j), exists)
          /\ Goto(j, IF exists THEN "done" ELSE "create")
    /\ UNCHANGED <<registry, at, held, todo>>

\* imagetools create --tag version latest.
FetchLatest(j) ==
    /\ pc[j] = "create"
    /\ Fetch(j, Latest)
    /\ Goto(j, "name")
    /\ UNCHANGED <<registry, at, misses, disturbed, todo>>

NameVersion(j) ==
    /\ pc[j] = "name"
    /\ Push(Version(j), held[j])
    /\ Release(j)
    /\ at' = [at EXCEPT ![j] = Len(TagList) + 1]
    /\ Goto(j, "annotate")
    /\ UNCHANGED <<misses, disturbed, todo>>

FailBuild(j) == Fail(j) /\ UNCHANGED todo

Work(j) ==
    \/ BuildImage(j) \/ CheckTag(j) \/ PushTag(j)
    \/ FetchForAnnotation(j) \/ Annotate(j)
    \/ CheckVersion(j) \/ FetchLatest(j) \/ NameVersion(j)

Next == \E j \in Jobs : Work(j) \/ FailBuild(j)

Spec == Init /\ [][Next]_vars

-----------------------------------------------------------------------------
(* Properties.                                                              *)

TypeOK ==
    /\ CommonTypeOK
    /\ todo \in [Jobs -> SUBSET Tags]
    /\ \A j \in Jobs : at[j] \in 1 .. Len(TagList) + 2

\* While jobs of the image run one at a time and no inspection misses a tag, a tag of a
\* version holds an image that reports this version, whatever jobs failed between the
\* push of latest and the naming of the version.
VersionTagsHoldTheirVersion ==
    ~disturbed =>
        \A j, k \in Jobs :
            Published(Version(j)) /\ registry[Version(j)].image = k
                => Version(k) = Version(j)

\* Under the same condition no tag but latest ever gets another image, although every
\* run rewrites the index of every static tag.
ImmutableTagsKeepTheirImage ==
    [][\A t \in Tags \ {Latest} :
          (Published(t) /\ ~disturbed') => registry'[t].image = registry[t].image]_vars

\* When all jobs have ended and none has failed, every tag they were to publish is
\* there and carries a source annotation, although jobs of the image have pushed and
\* annotated the same tags at the same time, each from an index it fetched before.
AllAnnotatedAtRest ==
    (\A j \in Jobs : pc[j] \in {"waiting", "done"}) =>
        \A j \in Jobs : pc[j] = "done" =>
            \A t \in {Version(j), Latest} \cup { s \in Tags : IsStatic(s) } :
                Published(t) /\ registry[t].revision # NoRevision

\* SKILL.md:33 "Treat every published image tag as immutable except `latest`": a tag
\* that is complete, annotation and all, never changes, at least while jobs of the
\* image run one at a time.
PublishedTagsAreImmutable ==
    [][\A t \in Tags \ {Latest} :
          (Published(t) /\ registry[t].revision # NoRevision /\ ~disturbed')
              => registry'[t] = registry[t]]_vars

\* SKILL.md:31 "Keep immutable release tags tied to the underlying application
\* version": the tag of a version holds an image of it, whatever jobs run.
ReleaseTagsAreTiedToTheirVersion ==
    \A j, k \in Jobs :
        Published(Version(j)) /\ registry[Version(j)].image = k => Version(k) = Version(j)
=============================================================================
