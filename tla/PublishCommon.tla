---------------------------- MODULE PublishCommon ----------------------------
(***************************************************************************)
(* What the publishing jobs of one image share (scripts/publish-common.sh): *)
(* the tags of the image in the container registry, the check whether a    *)
(* tag exists, and the command that rewrites a tag from another one.       *)
(*                                                                         *)
(* release.yml declares no concurrency group, so a push, a release tag,    *)
(* the nightly schedule and a manual dispatch may each run a job for the   *)
(* same image at the same time.  A job is a shell script under set -e: any *)
(* command may fail, and ends it there.                                    *)
(***************************************************************************)
EXTENDS Integers, Sequences

CONSTANTS
    Jobs,          \* the jobs that publish the image; each has its own revision
    Tags,          \* the tags of the image
    Latest,        \* the tag "latest"
    Images,        \* what a tag may hold: an index of platform images
    MaxMisses,     \* bound on inspections that fail although the tag exists
    Absent,        \* a tag that was never pushed
    NoRevision     \* an index that carries no revision annotation

ASSUME CommonAssumption ==
    /\ Latest \in Tags
    /\ MaxMisses \in Nat
    /\ Absent \notin [image : Images, revision : Jobs \cup {NoRevision}]
    /\ NoRevision \notin Jobs

VARIABLES
    registry,   \* [Tags -> what a tag holds, or Absent]
    pc,         \* what each job does next
    at,         \* the position of the tag its loop has reached
    held,       \* the index the running imagetools command has fetched
    misses,     \* how often an inspection has missed an existing tag
    disturbed   \* history: two jobs have run at once, or an inspection has missed

common == <<registry, pc, at, held, misses, disturbed>>

Indexes == [image : Images, revision : Jobs \cup {NoRevision}]

Published(tag) == registry[tag] # Absent

Labels ==
    {"waiting", "check", "copy", "write", "push", "annotate", "annotating", "version", "create",
     "name", "done", "failed"}

Resting == {"waiting", "done", "failed"}
Running == { j \in Jobs : pc[j] \notin Resting }

CommonInit ==
    /\ registry = [t \in Tags |-> Absent]
    /\ pc = [j \in Jobs |-> "waiting"]
    /\ at = [j \in Jobs |-> 1]
    /\ held = [j \in Jobs |-> Absent]
    /\ misses = 0
    /\ disturbed = FALSE

Goto(j, label) == pc' = [pc EXCEPT ![j] = label]

Start(j, label) ==
    /\ pc[j] = "waiting"
    /\ Goto(j, label)
    /\ disturbed' = (disturbed \/ (Running # {} /\ label \notin Resting))

\* MUTANT: every tag may be pushed again.
EveryRefIsMutable(tag) == TRUE

\* MUTANT: latest is treated like any other tag.
NoRefIsMutable(tag) == FALSE

IsMutableRef(tag) == tag = Latest

\* publish_ref_exists: its inspection says whether the tag exists, but any failure of
\* the command, a timeout or a refused login too, is taken for a missing tag.
RefExists(tag, answer) ==
    \/ /\ answer = Published(tag)
       /\ UNCHANGED <<misses, disturbed>>
    \/ /\ Published(tag) /\ ~answer
       /\ misses < MaxMisses
       /\ misses' = misses + 1
       /\ disturbed' = TRUE

\* imagetools create fetches the source index ...
Fetch(j, source) ==
    /\ Published(source)
    /\ held' = [held EXCEPT ![j] = registry[source]]

\* ... and then pushes it to a tag.
Push(tag, index) == registry' = [registry EXCEPT ![tag] = index]

Release(j) == held' = [held EXCEPT ![j] = Absent]

\* annotate_published_ref: the index is pushed back with this job's revision.
Annotated(j) == [held[j] EXCEPT !.revision = j]

\* A command fails, or the run is cancelled, or its runner is lost.
Fail(j) ==
    /\ pc[j] \notin Resting
    /\ Goto(j, "failed")
    /\ Release(j)
    /\ UNCHANGED <<registry, at, misses, disturbed>>

CommonTypeOK ==
    /\ registry \in [Tags -> Indexes \cup {Absent}]
    /\ pc \in [Jobs -> Labels]
    /\ at \in [Jobs -> Nat]
    /\ held \in [Jobs -> Indexes \cup {Absent}]
    /\ misses \in 0 .. MaxMisses
    /\ disturbed \in BOOLEAN
=============================================================================
