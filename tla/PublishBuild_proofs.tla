------------------------- MODULE PublishBuild_proofs -------------------------
(***************************************************************************)
(* What holds of built images for any jobs, versions, release tags and     *)
(* static tags.                                                            *)
(***************************************************************************)
EXTENDS PublishBuild, TLAPS

Last == Len(TagList)

Listed == { TagList[i] : i \in 1 .. Last }

\* A job's position in the list of tags, and what it holds.
PositionOf(j) ==
    /\ pc[j] \in Labels \ {"copy", "write"}
    /\ pc[j] \in {"waiting", "push"} => at[j] = 1
    /\ pc[j] = "waiting" => todo[j] = {}
    /\ pc[j] = "check" => at[j] <= Last
    /\ pc[j] \in {"annotate", "annotating"} => at[j] <= Last + 1
    /\ pc[j] \in {"version", "create", "name"} => at[j] = Last + 1
    /\ pc[j] \in {"annotating", "name"} => held[j] \in Indexes
    /\ todo[j] \subseteq Listed

Positions == \A j \in Jobs : PositionOf(j)

\* A job that is alone pushes no tag that exists but latest, names its own latest by its
\* version if that tag does not exist, and annotates what it fetched.
Undisturbed(j) ==
    /\ \A k \in Jobs : pc[k] \notin Resting => k = j
    /\ pc[j] \in {"check", "push"} => \A t \in todo[j] : t = Latest \/ ~Published(t)
    /\ (pc[j] = "check" /\ at[j] > 1) => Latest \in todo[j]
    /\ pc[j] = "push" => Latest \in todo[j] \/ registry[Latest].image = j
    /\ pc[j] \in {"annotate", "annotating", "version", "create", "name"} =>
           registry[Latest].image = j
    /\ pc[j] \in {"create", "name"} => ~Published(Version(j))
    /\ pc[j] = "name" => held[j].image = j
    /\ pc[j] = "annotating" => registry[AnnotationRef(j)] = held[j]

Alone == ~disturbed => \A j \in Jobs : pc[j] \notin Resting => Undisturbed(j)

\* A job finds or pushes each tag of its list, and then its version.
Leaves(j) ==
    /\ pc[j] = "check" => \A i \in 1 .. Last :
           i < at[j] => Published(TagList[i]) \/ TagList[i] \in todo[j]
    /\ pc[j] = "push" => \A t \in Listed : Published(t) \/ t \in todo[j]
    /\ pc[j] \in {"annotate", "annotating", "version", "create", "name", "done"} =>
           \A t \in Listed : Published(t)
    /\ pc[j] = "done" => Published(Version(j))

\* It will annotate the tag, or it has failed.
Attends(j, t) ==
    \/ pc[j] = "failed"
    \/ pc[j] = "push" /\ t \in Listed
    \/ /\ pc[j] \in {"annotate", "annotating"}
       /\ \/ \E i \in 1 .. Last : at[j] <= i /\ TagList[i] = t
          \/ at[j] = Last + 1 /\ t = Version(j)

Cared ==
    /\ \A j \in Jobs : Leaves(j)
    /\ \A t \in Tags : (Published(t) /\ registry[t].revision = NoRevision) =>
         \E j \in Jobs : Attends(j, t)

Inv == TypeOK /\ Positions /\ Alone /\ VersionTagsHoldTheirVersion /\ Cared

-----------------------------------------------------------------------------

\* The list begins with latest; the version of a job is not on it.
LEMMA ListFacts ==
  /\ Last \in Nat /\ Last >= 1 /\ TagList[1] = Latest
  /\ \A i \in 1 .. Last : TagList[i] \in Listed
  /\ Listed \subseteq Tags /\ Latest \in Listed
  /\ \A s \in Tags : IsStatic(s) => s \in Listed
  /\ \A j \in Jobs : Version(j) \in Tags \ Listed
<1>1. StaticTags \in Seq(Tags \ {Latest}) /\ Latest \in Tags
  BY BuildAssumption, CommonAssumption
<1>2. /\ Len(StaticTags) \in Nat /\ DOMAIN StaticTags = 1 .. Len(StaticTags)
      /\ \A i \in 1 .. Len(StaticTags) : StaticTags[i] \in Tags \ {Latest}
  BY <1>1
<1>3. /\ Last = Len(StaticTags) + 1 /\ TagList[1] = Latest
      /\ \A i \in 1 .. Len(StaticTags) : TagList[i + 1] = StaticTags[i]
  BY <1>1, <1>2 DEF Last, TagList
<1>4. ASSUME NEW i \in 1 .. Last
      PROVE  TagList[i] \in Tags /\ (TagList[i] = Latest \/ IsStatic(TagList[i]))
  <2>1. CASE i = 1
    BY <1>1, <1>3, <2>1
  <2>2. CASE i # 1
    <3>1. i - 1 \in 1 .. Len(StaticTags) /\ TagList[i] = StaticTags[i - 1]
      BY <1>2, <1>3, <1>4, <2>2
    <3> QED
      BY <1>2, <3>1 DEF IsStatic
  <2> QED
    BY <2>1, <2>2
<1>5. Latest \in Listed
  BY <1>2, <1>3 DEF Listed
<1>6. ASSUME NEW s \in Tags, IsStatic(s) PROVE s \in Listed
  <2>1. PICK i \in 1 .. Len(StaticTags) : StaticTags[i] = s
    BY <1>2, <1>6 DEF IsStatic
  <2>2. i + 1 \in 1 .. Last /\ TagList[i + 1] = s
    BY <1>2, <1>3, <2>1
  <2> QED
    BY <2>2 DEF Listed
<1>7. ASSUME NEW j \in Jobs PROVE Version(j) \in Tags \ Listed
  <2>1. Version(j) \in Tags /\ Version(j) # Latest /\ ~IsStatic(Version(j))
    BY BuildAssumption DEF Version
  <2> QED
    BY <1>4, <2>1 DEF Listed
<1> QED
  BY <1>2, <1>3, <1>4, <1>5, <1>6, <1>7 DEF Listed

\* What a position in the annotation loop stands for.
LEMMA Refs ==
  ASSUME NEW j \in Jobs, at[j] \in 1 .. Last + 2, at[j] <= Last + 1
  PROVE  /\ AnnotationRef(j) \in Tags
         /\ at[j] <= Last => AnnotationRef(j) = TagList[at[j]] /\ AnnotationRef(j) \in Listed
         /\ at[j] > Last => AnnotationRef(j) = Version(j)
BY ListFacts DEF AnnotationRef, Last

\* Nothing is published or running when the first job starts.
LEMMA InitInv == Init => Inv
<1> SUFFICES ASSUME Init PROVE Inv
  OBVIOUS
<1>1. /\ pc = [j \in Jobs |-> "waiting"] /\ at = [j \in Jobs |-> 1]
      /\ held = [j \in Jobs |-> Absent] /\ registry = [t \in Tags |-> Absent]
      /\ todo = [j \in Jobs |-> {}]
  BY DEF Init, CommonInit
<1>2. misses \in 0 .. MaxMisses
  BY CommonAssumption DEF Init, CommonInit
<1>3. disturbed \in BOOLEAN
  BY DEF Init, CommonInit
<1>4. \A j \in Jobs : pc[j] = "waiting" /\ at[j] = 1 /\ todo[j] = {}
  BY <1>1
<1>5. TypeOK
  <2>1. CommonTypeOK
    BY <1>1, <1>2, <1>3 DEF CommonTypeOK, Labels
  <2>2. \A j \in Jobs : at[j] \in 1 .. Last + 2
    <3> TAKE j \in Jobs
    <3> QED
      BY <1>4, ListFacts
  <2> QED
    BY <1>1, <2>1, <2>2 DEF TypeOK, Last
<1>6. Positions
  BY <1>4 DEF Positions, PositionOf, Labels
<1>7. Alone /\ VersionTagsHoldTheirVersion
  BY <1>1, ListFacts DEF Alone, Resting, VersionTagsHoldTheirVersion, Published
<1>8. Cared
  BY <1>1 DEF Cared, Leaves, Published
<1> QED
  BY <1>5, <1>6, <1>7, <1>8 DEF Inv

-----------------------------------------------------------------------------

\* A job's step leaves the variables of the others alone.
Frame(j) == \A k \in Jobs \ {j} : /\ pc'[k] = pc[k] /\ at'[k] = at[k]
                                  /\ held'[k] = held[k] /\ todo'[k] = todo[k]

\* The part of the invariant that is about the variables of other jobs.
LEMMA OthersStay ==
  ASSUME Inv, NEW j \in Jobs, Frame(j), NEW k \in Jobs \ {j}
  PROVE  /\ PositionOf(k)' /\ AnnotationRef(k)' = AnnotationRef(k)
         /\ \A t : Attends(k, t)' = Attends(k, t)
BY DEF Inv, Positions, PositionOf, Frame, AnnotationRef, Attends, Indexes, Last, Listed

\* What is to be shown of a step of one job.
LEMMA StepOfOne ==
  ASSUME Inv, NEW j \in Jobs, TypeOK', Frame(j), pc[j] \notin {"done", "failed"},
         PositionOf(j)', Leaves(j)',
         \A t \in Tags : registry'[t] # registry[t] =>
             /\ registry'[t] # Absent
             /\ registry'[t].revision = NoRevision => Attends(j, t)'
             /\ ~disturbed => \A k \in Jobs :
                                t = Version(k) => \/ registry'[t].image = j /\ Version(j) = t
                                                  \/ registry'[t].image = registry[t].image
                                                     /\ registry[t] # Absent,
         \A t \in Tags : Attends(j, t) =>
             Attends(j, t)' \/ registry'[t].revision # NoRevision,
         disturbed => disturbed',
         pc[j] = "waiting" =>
             /\ disturbed' \/ pc'[j] \in Resting \/ Running = {}
             /\ registry' = registry,
         (~disturbed' /\ pc'[j] \notin Resting) =>
             /\ pc'[j] \in {"check", "push"} => \A t \in todo'[j] : t = Latest \/ registry'[t] = Absent
             /\ (pc'[j] = "check" /\ at'[j] > 1) => Latest \in todo'[j]
             /\ pc'[j] = "push" => Latest \in todo'[j] \/ registry'[Latest].image = j
             /\ pc'[j] \in {"annotate", "annotating", "version", "create", "name"} =>
                    registry'[Latest].image = j
             /\ pc'[j] \in {"create", "name"} => registry'[Version(j)] = Absent
             /\ pc'[j] = "name" => held'[j].image = j
             /\ pc'[j] = "annotating" => (registry[AnnotationRef(j)] = held[j])'
  PROVE  Inv'
<1>1. Positions'
  BY OthersStay DEF Positions
<1>2. VersionTagsHoldTheirVersion'
  <2> SUFFICES ASSUME ~disturbed', NEW i \in Jobs, NEW k \in Jobs, Published(Version(i))',
                      registry'[Version(i)].image = k
               PROVE  Version(k) = Version(i)
    BY DEF VersionTagsHoldTheirVersion, Version
  <2>1. Version(i) \in Tags
    BY ListFacts
  <2>2. Published(Version(i)) /\ registry[Version(i)].image = k => Version(k) = Version(i)
    BY DEF Inv, VersionTagsHoldTheirVersion
  <2>3. registry'[Version(i)] # Absent
    BY DEF Published, Version
  <2>4. CASE registry'[Version(i)] = registry[Version(i)]
    BY <2>2, <2>3, <2>4 DEF Published
  <2>5. CASE registry'[Version(i)] # registry[Version(i)]
    BY <2>1, <2>2, <2>5 DEF Published
  <2> QED
    BY <2>4, <2>5
<1>3. Cared'
  <2>1. \A t \in Tags : Published(t) => Published(t)'
    BY DEF Published
  <2>2. ASSUME NEW k \in Jobs \ {j} PROVE Leaves(k)'
    <3>1. Leaves(k) /\ at'[k] = at[k] /\ pc'[k] = pc[k] /\ todo'[k] = todo[k]
      BY DEF Inv, Cared, Frame
    <3>2. pc[k] = "check" => \A i \in 1 .. Last :
              i < at[k] => Published(TagList[i])' \/ TagList[i] \in todo[k]
      BY <2>1, <3>1, ListFacts DEF Leaves
    <3>3. pc[k] = "push" => \A t \in Listed : Published(t)' \/ t \in todo[k]
      BY <2>1, <3>1, ListFacts DEF Leaves
    <3>4. /\ pc[k] \in {"annotate", "annotating", "version", "create", "name", "done"} =>
                 \A t \in Listed : Published(t)'
          /\ pc[k] = "done" => Published(Version(k))'
      BY <2>1, <3>1, ListFacts DEF Leaves, Version, Published
    <3> QED
      BY <3>1, <3>2, <3>3, <3>4 DEF Leaves, TagList, Last, Listed, Published
  <2>3. ASSUME NEW t \in Tags, Published(t)', registry'[t].revision = NoRevision
        PROVE  \E k \in Jobs : Attends(k, t)'
    <3>1. CASE registry'[t] # registry[t]
      BY <2>3, <3>1
    <3>2. CASE registry'[t] = registry[t]
      <4>1. PICK k \in Jobs : Attends(k, t)
        BY <2>3, <3>2 DEF Published, Inv, Cared
      <4>2. CASE k = j
        BY <2>3, <4>1, <4>2
      <4>3. CASE k # j
        BY <4>1, <4>3, OthersStay
      <4> QED
        BY <4>2, <4>3
    <3> QED
      BY <3>1, <3>2
  <2> QED
    BY <2>2, <2>3 DEF Cared
<1>4. Alone'
  <2> SUFFICES ASSUME ~disturbed', NEW k \in Jobs, pc'[k] \notin Resting PROVE Undisturbed(k)'
    BY DEF Alone
  <2>1. ASSUME NEW i \in Jobs \ {j}, pc'[i] \notin Resting PROVE pc'[j] \in Resting /\ i = k
    <3>1. pc[i] \notin Resting
      BY <2>1 DEF Frame
    <3>2. Undisturbed(i)
      BY <3>1 DEF Inv, Alone
    <3>3. pc[j] \in Resting
      BY <2>1, <3>2 DEF Undisturbed
    <3>4. pc[j] = "waiting"
      BY <3>3 DEF Resting
    <3>5. pc'[j] \in Resting
      BY <3>1, <3>4 DEF Running
    <3>6. k # j /\ pc[k] \notin Resting
      BY <3>5 DEF Frame
    <3> QED
      BY <3>2, <3>5, <3>6 DEF Undisturbed
  <2>2. CASE k = j
    BY <2>1, <2>2 DEF Undisturbed, Published, Version
  <2>3. CASE k # j
    <3>1. pc[k] \notin Resting /\ Undisturbed(k)
      BY <2>3 DEF Inv, Alone, Frame
    <3>2. pc[j] = "waiting"
      BY <2>3, <3>1 DEF Undisturbed, Resting
    <3>3. pc'[j] \in Resting
      BY <2>1, <2>3
    <3>4. \A i \in Jobs : pc'[i] \notin Resting => i = k
      BY <2>1, <3>3
    <3>5. /\ pc'[k] = pc[k] /\ held'[k] = held[k] /\ AnnotationRef(k)' = AnnotationRef(k)
          /\ at'[k] = at[k] /\ todo'[k] = todo[k] /\ registry' = registry
      BY <2>3, <3>2, OthersStay DEF Frame
    <3> QED
      BY <3>1, <3>4, <3>5 DEF Undisturbed, Published, Version
  <2> QED
    BY <2>2, <2>3
<1> QED
  BY <1>1, <1>2, <1>3, <1>4 DEF Inv

-----------------------------------------------------------------------------

\* What the types and the position give for a job that takes a step.
LEMMA AtWork ==
  ASSUME Inv, NEW j \in Jobs
  PROVE  /\ pc \in [Jobs -> Labels] /\ at \in [Jobs -> Nat] /\ todo \in [Jobs -> SUBSET Tags]
         /\ held \in [Jobs -> Indexes \cup {Absent}]
         /\ registry \in [Tags -> Indexes \cup {Absent}]
         /\ at[j] \in 1 .. Last + 2 /\ at[j] \in Nat /\ PositionOf(j) /\ Leaves(j)
         /\ (pc[j] \notin Resting /\ ~disturbed) => Undisturbed(j)
         /\ \A k \in Jobs : at[k] \in 1 .. Last + 2
<1>1. at[j] \in 1 .. Last + 2
  BY DEF Inv, TypeOK, Last
<1>2. at[j] \in Nat
  BY <1>1, ListFacts
<1> QED
  BY <1>1, <1>2 DEF Inv, TypeOK, CommonTypeOK, Positions, Cared, Alone, Last

\* The image is built, or its release tag names another version.
LEMMA BuildInv == ASSUME Inv, NEW j \in Jobs, BuildImage(j) PROVE Inv'
<1>1. /\ pc[j] = "waiting" /\ disturbed' \in BOOLEAN /\ (disturbed => disturbed')
      /\ pc' = [pc EXCEPT ![j] = IF ValidRelease(j) THEN "check" ELSE "failed"]
      /\ disturbed' \/ pc'[j] \in Resting \/ Running = {}
  <2>1. pc[j] = "waiting" /\ pc' = [pc EXCEPT ![j] = IF ValidRelease(j) THEN "check" ELSE "failed"]
    BY DEF BuildImage, Start, Goto
  <2>2. disturbed' = (disturbed \/ (Running # {} /\ (IF ValidRelease(j) THEN "check" ELSE "failed") \notin Resting))
    BY DEF BuildImage, Start
  <2>3. pc'[j] = IF ValidRelease(j) THEN "check" ELSE "failed"
    BY <2>1 DEF Inv, TypeOK, CommonTypeOK
  <2> QED
    BY <2>1, <2>2, <2>3
<1>2. UNCHANGED <<registry, at, held, misses, todo>>
  BY DEF BuildImage
<1>3. /\ pc' \in [Jobs -> Labels] /\ pc'[j] \in {"check", "failed"}
      /\ \A k \in Jobs \ {j} : pc'[k] = pc[k]
  BY <1>1, AtWork DEF Labels
<1>4. TypeOK'
  BY <1>1, <1>2, <1>3 DEF Inv, TypeOK, CommonTypeOK
<1>5. Frame(j)
  BY <1>2, <1>3 DEF Frame
<1>6. PositionOf(j) /\ at[j] = 1 /\ todo[j] = {}
  BY <1>1, AtWork DEF PositionOf
<1>7. PositionOf(j)'
  BY <1>2, <1>3, <1>6, ListFacts DEF PositionOf, Last, Listed, Labels
<1>8. Leaves(j)'
  <2>1. \A i \in 1 .. Last : ~(i < at'[j])
    BY <1>2, <1>6, ListFacts
  <2> QED
    BY <1>3, <2>1 DEF Leaves, Last
<1>9. \A t \in Tags : ~Attends(j, t)
  BY <1>1 DEF Attends
<1> QED
  BY <1>1, <1>2, <1>3, <1>4, <1>5, <1>6, <1>7, <1>8, <1>9, StepOfOne

\* A tag of the list is looked for.
LEMMA CheckInv == ASSUME Inv, NEW j \in Jobs, CheckTag(j) PROVE Inv'
<1> DEFINE tag == TagList[at[j]]
<1>1. /\ pc[j] = "check" /\ UNCHANGED <<registry, held>>
      /\ \/ /\ at[j] = Last /\ at' = [at EXCEPT ![j] = 1]
            /\ pc' = [pc EXCEPT ![j] = "push"]
         \/ at[j] # Last /\ at' = [at EXCEPT ![j] = at[j] + 1] /\ pc' = pc
  BY DEF CheckTag, Goto, Last
<1>2. /\ pc \in [Jobs -> Labels] /\ at \in [Jobs -> Nat] /\ todo \in [Jobs -> SUBSET Tags]
      /\ at[j] \in Nat /\ at[j] >= 1 /\ at[j] <= Last /\ todo[j] \subseteq Listed /\ Leaves(j)
      /\ ~disturbed => Undisturbed(j)
      /\ \A k \in Jobs : at[k] \in 1 .. Last + 2
  BY <1>1, AtWork, ListFacts DEF PositionOf, Resting
<1>3. tag \in Listed /\ tag \in Tags /\ Last \in Nat /\ Last >= 1
  BY <1>2, ListFacts
<1>4. /\ disturbed' \in BOOLEAN /\ (disturbed => disturbed')
      /\ misses' \in 0 .. MaxMisses
  <2>1. misses' = misses \/ (misses < MaxMisses /\ misses' = misses + 1)
    BY DEF CheckTag, RefExists
  <2>2. disturbed' = disturbed \/ disturbed' = TRUE
    BY DEF CheckTag, RefExists
  <2>3. misses' \in 0 .. MaxMisses
    BY <2>1, CommonAssumption DEF Inv, TypeOK, CommonTypeOK
  <2>4. disturbed' \in BOOLEAN /\ (disturbed => disturbed')
    BY <2>2 DEF Inv, TypeOK, CommonTypeOK
  <2> QED
    BY <2>3, <2>4
<1>5. \/ /\ todo' = [todo EXCEPT ![j] = todo[j] \cup {tag}]
         /\ disturbed' \/ tag = Latest \/ ~Published(tag)
      \/ todo' = todo /\ Published(tag) /\ tag # Latest
  <2>1. CASE IsMutableRef(tag)
    BY <2>1 DEF CheckTag, IsMutableRef
  <2>2. ASSUME ~IsMutableRef(tag), NEW exists \in BOOLEAN, RefExists(tag, exists),
               todo' = [todo EXCEPT ![j] = IF exists THEN @ ELSE @ \cup {tag}]
        PROVE  \/ /\ todo' = [todo EXCEPT ![j] = todo[j] \cup {tag}]
                  /\ disturbed' \/ tag = Latest \/ ~Published(tag)
               \/ todo' = todo /\ Published(tag) /\ tag # Latest
    <3>1. CASE exists
      BY <1>2, <2>2, <3>1 DEF RefExists, IsMutableRef
    <3>2. CASE ~exists
      BY <2>2, <3>2 DEF RefExists
    <3> QED
      BY <3>1, <3>2
  <2> QED
    BY <2>1, <2>2 DEF CheckTag
<1>6. /\ todo' \in [Jobs -> SUBSET Tags] /\ todo'[j] \subseteq Listed /\ todo[j] \subseteq todo'[j]
      /\ \A k \in Jobs \ {j} : todo'[k] = todo[k]
      /\ todo'[j] \subseteq todo[j] \cup {tag}
      /\ tag \in todo'[j] \/ (Published(tag) /\ tag # Latest)
      /\ disturbed' \/ tag \notin todo'[j] \/ tag = Latest \/ ~Published(tag) \/ tag \in todo[j]
  BY <1>2, <1>3, <1>5
<1>7. ~disturbed' => \A t \in todo'[j] : t = Latest \/ registry'[t] = Absent
  BY <1>1, <1>2, <1>4, <1>6 DEF Undisturbed, Published
<1>8. ~disturbed' => Latest \in todo'[j]
  <2>1. at[j] = 1 => tag = Latest
    BY ListFacts
  <2>2. (~disturbed /\ at[j] > 1) => Latest \in todo[j]
    BY <1>1, <1>2 DEF Undisturbed
  <2> QED
    BY <1>2, <1>4, <1>6, <2>1, <2>2
<1>9. \A i \in 1 .. Last : i <= at[j] => Published(TagList[i])' \/ TagList[i] \in todo'[j]
  <2> TAKE i \in 1 .. Last
  <2>1. CASE i < at[j]
    BY <1>1, <1>2, <1>6, <2>1 DEF Leaves, Published
  <2>2. CASE i = at[j]
    BY <1>1, <1>6, <2>2 DEF Published
  <2> QED
    BY <1>2, <2>1, <2>2
<1>10. /\ pc' \in [Jobs -> Labels] /\ at' \in [Jobs -> Nat] /\ at'[j] \in 1 .. Last + 2
       /\ \A k \in Jobs \ {j} : pc'[k] = pc[k] /\ at'[k] = at[k]
       /\ \/ pc'[j] = "push" /\ at'[j] = 1 /\ at[j] = Last
          \/ pc'[j] = "check" /\ at'[j] = at[j] + 1 /\ at'[j] <= Last
  <2>1. CASE at[j] = Last /\ at' = [at EXCEPT ![j] = 1] /\ pc' = [pc EXCEPT ![j] = "push"]
    <3>1. /\ pc' \in [Jobs -> Labels] /\ pc'[j] = "push" /\ \A k \in Jobs \ {j} : pc'[k] = pc[k]
      BY <1>2, <2>1 DEF Labels
    <3>2. /\ at' \in [Jobs -> Nat] /\ at'[j] = 1 /\ \A k \in Jobs \ {j} : at'[k] = at[k]
      BY <1>2, <2>1
    <3> QED
      BY <1>3, <2>1, <3>1, <3>2
  <2>2. CASE at[j] # Last /\ at' = [at EXCEPT ![j] = at[j] + 1] /\ pc' = pc
    <3>1. /\ at' \in [Jobs -> Nat] /\ at'[j] = at[j] + 1 /\ \A k \in Jobs \ {j} : at'[k] = at[k]
      BY <1>2, <2>2
    <3> QED
      BY <1>1, <1>2, <1>3, <2>2, <3>1
  <2> QED
    BY <1>1, <2>1, <2>2
<1>11. TypeOK'
  <2>1. CommonTypeOK'
    BY <1>1, <1>4, <1>10 DEF Inv, TypeOK, CommonTypeOK
  <2>2. \A k \in Jobs : at'[k] \in 1 .. Last + 2
    <3> TAKE k \in Jobs
    <3> QED
      BY <1>2, <1>10
  <2> QED
    BY <1>6, <2>1, <2>2 DEF TypeOK, Last, TagList
<1>12. Frame(j)
  BY <1>1, <1>6, <1>10 DEF Frame
<1>13. PositionOf(j)'
  <2>1. PositionOf(j)
    BY AtWork
  <2> QED
    BY <1>1, <1>3, <1>6, <1>10 DEF PositionOf, Labels, Last, Listed, TagList
<1>14. Leaves(j)'
  <2>1. pc'[j] = "check" => \A i \in 1 .. Last :
           i < at'[j] => Published(TagList[i])' \/ TagList[i] \in todo'[j]
    BY <1>2, <1>9, <1>10
  <2>2. pc'[j] = "push" => \A t \in Listed : Published(t)' \/ t \in todo'[j]
    BY <1>9, <1>10 DEF Listed
  <2> QED
    BY <1>10, <2>1, <2>2 DEF Leaves, Last, Listed, TagList, Published
<1>15. \A t \in Tags : ~Attends(j, t)
  BY <1>1 DEF Attends
<1> QED
  BY <1>1, <1>4, <1>7, <1>8, <1>10, <1>11, <1>12, <1>13, <1>14, <1>15, StepOfOne

\* A tag of the list is pushed.
LEMMA PushInv == ASSUME Inv, NEW j \in Jobs, PushTag(j) PROVE Inv'
<1> DEFINE index == [image |-> j, revision |-> NoRevision]
<1>1. PICK tag \in todo[j] :
         /\ registry' = [registry EXCEPT ![tag] = index]
         /\ todo' = [todo EXCEPT ![j] = todo[j] \ {tag}]
  BY DEF PushTag, Push
<1>2. /\ pc[j] = "push" /\ UNCHANGED <<at, held, misses, disturbed>>
      /\ pc' = IF todo'[j] = {} THEN [pc EXCEPT ![j] = "annotate"] ELSE pc
  BY DEF PushTag, Goto
<1>3. /\ pc \in [Jobs -> Labels] /\ todo \in [Jobs -> SUBSET Tags]
      /\ registry \in [Tags -> Indexes \cup {Absent}] /\ Leaves(j)
      /\ todo[j] \subseteq Listed /\ at[j] = 1
      /\ ~disturbed => Undisturbed(j)
  BY <1>2, AtWork DEF PositionOf, Resting
<1>4. tag \in Listed /\ tag \in Tags /\ Listed \subseteq Tags /\ Latest \in Listed
  BY <1>1, <1>3, ListFacts
<1>5. index \in Indexes /\ index # Absent
  BY BuildAssumption, CommonAssumption DEF Indexes
<1>6. /\ registry' \in [Tags -> Indexes \cup {Absent}] /\ registry'[tag] = index
      /\ \A t \in Tags : t # tag => registry'[t] = registry[t]
  BY <1>1, <1>3, <1>4, <1>5
<1>7. /\ todo' \in [Jobs -> SUBSET Tags] /\ todo'[j] = todo[j] \ {tag}
      /\ \A k \in Jobs \ {j} : todo'[k] = todo[k]
  BY <1>1, <1>3
<1>8. /\ pc' \in [Jobs -> Labels] /\ \A k \in Jobs \ {j} : pc'[k] = pc[k]
      /\ \/ pc'[j] = "push"
         \/ pc'[j] = "annotate" /\ todo'[j] = {}
  BY <1>2, <1>3 DEF Labels
<1>9. TypeOK'
  BY <1>2, <1>6, <1>7, <1>8 DEF Inv, TypeOK, CommonTypeOK
<1>10. Frame(j)
  BY <1>2, <1>7, <1>8 DEF Frame
<1>11. PositionOf(j)'
  <2>1. 1 <= Last + 1
    BY ListFacts
  <2> QED
    BY <1>2, <1>3, <1>7, <1>8, <2>1 DEF PositionOf, Labels, Last, Listed, TagList
<1>12. \A t \in Listed : Published(t)' \/ t \in todo'[j]
  BY <1>2, <1>3, <1>4, <1>5, <1>6, <1>7 DEF Leaves, Published
<1>13. Leaves(j)'
  BY <1>8, <1>12 DEF Leaves, Last, Listed, TagList, Published
<1>14. \A t \in Listed : Attends(j, t)'
  <2> TAKE t \in Listed
  <2>1. PICK i \in 1 .. Last : TagList[i] = t
    BY DEF Listed
  <2>2. at'[j] = 1 /\ 1 <= i
    BY <1>2, <1>3, <2>1, ListFacts
  <2> QED
    BY <1>8, <2>1, <2>2 DEF Attends, Last, Listed, TagList
<1>15. ASSUME NEW t \in Tags, registry'[t] # registry[t]
       PROVE  t \in Listed /\ registry'[t] # Absent /\ \A k \in Jobs : t # Version(k)
  BY <1>4, <1>5, <1>6, <1>15, ListFacts
<1>16. \A t \in Tags : Attends(j, t) => Attends(j, t)'
  BY <1>2, <1>14 DEF Attends
<1>17. ~disturbed' => /\ \A t \in todo'[j] : t = Latest \/ registry'[t] = Absent
                      /\ Latest \in todo'[j] \/ registry'[Latest].image = j
  BY <1>2, <1>3, <1>4, <1>6, <1>7 DEF Undisturbed, Published
<1> QED
  BY <1>2, <1>8, <1>9, <1>10, <1>11, <1>13, <1>14, <1>15, <1>16, <1>17, StepOfOne

\* A tag is fetched to be annotated.
LEMMA FetchInv == ASSUME Inv, NEW j \in Jobs, FetchForAnnotation(j) PROVE Inv'
<1>1. /\ pc[j] = "annotate" /\ pc' = [pc EXCEPT ![j] = "annotating"]
      /\ Published(AnnotationRef(j)) /\ held' = [held EXCEPT ![j] = registry[AnnotationRef(j)]]
      /\ UNCHANGED <<registry, at, misses, disturbed, todo>>
  BY DEF FetchForAnnotation, Fetch, Goto
<1>2. /\ pc \in [Jobs -> Labels] /\ held \in [Jobs -> Indexes \cup {Absent}]
      /\ registry \in [Tags -> Indexes \cup {Absent}] /\ Leaves(j) /\ PositionOf(j)
      /\ ~disturbed => Undisturbed(j)
  BY <1>1, AtWork DEF Resting
<1>3. AnnotationRef(j) \in Tags
  BY <1>1, <1>2, AtWork, Refs DEF PositionOf
<1>4. registry[AnnotationRef(j)] \in Indexes
  BY <1>1, <1>2, <1>3 DEF Published
<1>5. /\ pc' \in [Jobs -> Labels] /\ pc'[j] = "annotating"
      /\ held' \in [Jobs -> Indexes \cup {Absent}] /\ held'[j] = registry[AnnotationRef(j)]
      /\ \A k \in Jobs \ {j} : pc'[k] = pc[k] /\ held'[k] = held[k]
  BY <1>1, <1>2, <1>4 DEF Labels
<1>6. TypeOK'
  BY <1>1, <1>5 DEF Inv, TypeOK, CommonTypeOK
<1>7. Frame(j)
  BY <1>1, <1>5 DEF Frame
<1>8. PositionOf(j)'
  BY <1>1, <1>2, <1>4, <1>5 DEF PositionOf, Labels, Last, Listed, TagList, Indexes
<1>9. Leaves(j)'
  BY <1>1, <1>2, <1>5 DEF Leaves, Last, Listed, TagList, Published
<1>10. \A t \in Tags : Attends(j, t) => Attends(j, t)'
  BY <1>1, <1>5 DEF Attends, Last, Listed, TagList, Version
<1>11. (registry[AnnotationRef(j)] = held[j])'
  BY <1>1, <1>5 DEF AnnotationRef
<1>12. ~disturbed' => registry'[Latest].image = j
  BY <1>1, <1>2 DEF Undisturbed
<1> QED
  BY <1>1, <1>5, <1>6, <1>7, <1>8, <1>9, <1>10, <1>11, <1>12, StepOfOne

\* The tag is pushed with its annotation.
LEMMA AnnotateInv == ASSUME Inv, NEW j \in Jobs, Annotate(j) PROVE Inv'
<1> DEFINE index == Annotated(j)
           ref == AnnotationRef(j)
<1>1. /\ pc[j] = "annotating" /\ registry' = [registry EXCEPT ![ref] = index]
      /\ held' = [held EXCEPT ![j] = Absent] /\ at' = [at EXCEPT ![j] = at[j] + 1]
      /\ pc' = [pc EXCEPT ![j] = IF at[j] > Last THEN "done"
                                 ELSE IF at[j] = Last THEN "version" ELSE "annotate"]
      /\ UNCHANGED <<misses, disturbed, todo>>
  BY DEF Annotate, Push, Release, Goto, VersionAnnotated, AnnotationEnds, Last
<1>2. /\ pc \in [Jobs -> Labels] /\ held \in [Jobs -> Indexes \cup {Absent}]
      /\ at \in [Jobs -> Nat] /\ \A k \in Jobs : at[k] \in 1 .. Last + 2
      /\ registry \in [Tags -> Indexes \cup {Absent}] /\ Leaves(j) /\ PositionOf(j)
      /\ ~disturbed => Undisturbed(j)
  BY <1>1, AtWork DEF Resting
<1>3. /\ at[j] \in Nat /\ at[j] >= 1 /\ at[j] <= Last + 1 /\ Last \in Nat /\ Last >= 1
      /\ held[j] \in Indexes
  BY <1>1, <1>2, ListFacts DEF PositionOf
<1>4. /\ ref \in Tags
      /\ at[j] <= Last => ref = TagList[at[j]]
      /\ at[j] > Last => ref = Version(j)
  BY <1>2, <1>3, Refs
<1>5. /\ index \in Indexes /\ index # Absent
      /\ index.revision # NoRevision /\ index.image = held[j].image
  BY <1>3, CommonAssumption DEF Indexes, Annotated
<1>6. /\ registry' \in [Tags -> Indexes \cup {Absent}] /\ registry'[ref] = index
      /\ \A t \in Tags : t # ref => registry'[t] = registry[t]
  BY <1>1, <1>2, <1>4, <1>5
<1>7. /\ held' \in [Jobs -> Indexes \cup {Absent}]
      /\ \A k \in Jobs \ {j} : held'[k] = held[k]
  BY <1>1, <1>2
<1>8. /\ pc' \in [Jobs -> Labels] /\ at' \in [Jobs -> Nat] /\ at'[j] = at[j] + 1
      /\ \A k \in Jobs \ {j} : pc'[k] = pc[k] /\ at'[k] = at[k]
      /\ pc'[j] = IF at[j] > Last THEN "done" ELSE IF at[j] = Last THEN "version" ELSE "annotate"
  BY <1>1, <1>2, <1>3 DEF Labels
<1>9. TypeOK'
  <2>1. CommonTypeOK'
    BY <1>1, <1>6, <1>7, <1>8 DEF Inv, TypeOK, CommonTypeOK
  <2>2. \A k \in Jobs : at'[k] \in 1 .. Last + 2
    <3> TAKE k \in Jobs
    <3> QED
      BY <1>2, <1>3, <1>8
  <2> QED
    BY <1>1, <2>1, <2>2 DEF Inv, TypeOK, Last, TagList
<1>10. Frame(j)
  BY <1>1, <1>7, <1>8 DEF Frame
<1>11. PositionOf(j)'
  <2>1. pc'[j] = "annotate" => at'[j] <= Last + 1
    BY <1>3, <1>8
  <2>2. pc'[j] = "version" => at'[j] = Last + 1
    BY <1>3, <1>8
  <2> QED
    BY <1>1, <1>2, <1>8, <2>1, <2>2 DEF PositionOf, Labels, Last, Listed, TagList
<1>12. \A t \in Tags : Published(t) => Published(t)'
  BY <1>5, <1>6 DEF Published
<1>13. Leaves(j)'
  <2>1. \A t \in Listed : Published(t)'
    BY <1>1, <1>2, <1>12, ListFacts DEF Leaves
  <2>2. at[j] > Last => registry'[Version(j)] # Absent
    BY <1>4, <1>5, <1>6
  <2> QED
    BY <1>8, <2>1, <2>2 DEF Leaves, Last, Listed, TagList, Published, Version
<1>14. ASSUME NEW t \in Tags, Attends(j, t)
       PROVE  Attends(j, t)' \/ registry'[t].revision # NoRevision
  <2>1. CASE t = ref
    BY <1>5, <1>6, <2>1
  <2>2. CASE t # ref
    <3>1. at[j] <= Last
      BY <1>1, <1>3, <1>4, <1>14, <2>2 DEF Attends
    <3>2. PICK i \in 1 .. Last : at[j] <= i /\ TagList[i] = t
      BY <1>1, <1>3, <1>14, <3>1 DEF Attends
    <3>3. i # at[j]
      BY <1>4, <2>2, <3>1, <3>2
    <3>4. at'[j] <= i /\ at[j] < Last
      BY <1>3, <1>8, <3>2, <3>3
    <3>5. pc'[j] = "annotate"
      BY <1>3, <1>8, <3>4
    <3> QED
      BY <3>2, <3>4, <3>5 DEF Attends, Last, Listed, TagList
  <2> QED
    BY <2>1, <2>2
<1>15. ~disturbed => registry[ref] = held[j] /\ registry[Latest].image = j
  BY <1>1, <1>2 DEF Undisturbed
<1>16. ASSUME NEW t \in Tags, registry'[t] # registry[t]
       PROVE  /\ registry'[t] # Absent /\ registry'[t].revision # NoRevision
              /\ ~disturbed => registry'[t].image = registry[t].image /\ registry[t] # Absent
  <2>1. t = ref /\ registry'[t] = index
    BY <1>6, <1>16
  <2> QED
    BY <1>3, <1>5, <1>15, <2>1, CommonAssumption DEF Indexes
<1>17. ~disturbed' => registry'[Latest].image = j
  BY <1>1, <1>15, <1>16, CommonAssumption
<1> QED
  <2>1. pc'[j] \in {"annotate", "version", "done"}
    BY <1>8
  <2> QED
    BY <1>1, <1>9, <1>10, <1>11, <1>13, <1>14, <1>16, <1>17, <2>1, StepOfOne

\* The version tag is looked for.
LEMMA VersionInv == ASSUME Inv, NEW j \in Jobs, CheckVersion(j) PROVE Inv'
<1>1. PICK exists \in BOOLEAN :
         /\ RefExists(Version(j), exists)
         /\ pc' = [pc EXCEPT ![j] = IF exists THEN "done" ELSE "create"]
  BY DEF CheckVersion, Goto
<1>2. pc[j] = "version" /\ UNCHANGED <<registry, at, held, todo>>
  BY DEF CheckVersion
<1>3. /\ pc \in [Jobs -> Labels] /\ Leaves(j) /\ PositionOf(j)
      /\ ~disturbed => Undisturbed(j)
  BY <1>2, AtWork DEF Resting
<1>4. /\ disturbed' \in BOOLEAN /\ (disturbed => disturbed')
      /\ misses' \in 0 .. MaxMisses
  <2>1. misses' = misses \/ (misses < MaxMisses /\ misses' = misses + 1)
    BY <1>1 DEF RefExists
  <2>2. disturbed' = disturbed \/ disturbed' = TRUE
    BY <1>1 DEF RefExists
  <2>3. misses' \in 0 .. MaxMisses
    BY <2>1, CommonAssumption DEF Inv, TypeOK, CommonTypeOK
  <2>4. disturbed' \in BOOLEAN /\ (disturbed => disturbed')
    BY <2>2 DEF Inv, TypeOK, CommonTypeOK
  <2> QED
    BY <2>3, <2>4
<1>5. /\ exists => Published(Version(j))
      /\ ~exists => disturbed' \/ ~Published(Version(j))
  BY <1>1 DEF RefExists
<1>6. /\ pc' \in [Jobs -> Labels] /\ \A k \in Jobs \ {j} : pc'[k] = pc[k]
      /\ pc'[j] = IF exists THEN "done" ELSE "create"
  BY <1>1, <1>3 DEF Labels
<1>7. TypeOK'
  BY <1>2, <1>4, <1>6 DEF Inv, TypeOK, CommonTypeOK
<1>8. Frame(j)
  BY <1>2, <1>6 DEF Frame
<1>9. PositionOf(j)'
  BY <1>2, <1>3, <1>6 DEF PositionOf, Labels, Last, Listed, TagList
<1>10. Leaves(j)'
  BY <1>2, <1>3, <1>5, <1>6 DEF Leaves, Last, Listed, TagList, Published, Version
<1>11. \A t \in Tags : ~Attends(j, t)
  BY <1>2 DEF Attends
<1>12. ~disturbed' => /\ registry'[Latest].image = j
                      /\ pc'[j] = "create" => registry'[Version(j)] = Absent
  BY <1>2, <1>3, <1>4, <1>5, <1>6 DEF Undisturbed, Published
<1>13. pc'[j] \in {"done", "create"}
  BY <1>6
<1> QED
  BY <1>2, <1>4, <1>7, <1>8, <1>9, <1>10, <1>11, <1>12, <1>13, StepOfOne

\* Latest is fetched to be named.
LEMMA LatestInv == ASSUME Inv, NEW j \in Jobs, FetchLatest(j) PROVE Inv'
<1>1. /\ pc[j] = "create" /\ pc' = [pc EXCEPT ![j] = "name"]
      /\ Published(Latest) /\ held' = [held EXCEPT ![j] = registry[Latest]]
      /\ UNCHANGED <<registry, at, misses, disturbed, todo>>
  BY DEF FetchLatest, Fetch, Goto
<1>2. /\ pc \in [Jobs -> Labels] /\ held \in [Jobs -> Indexes \cup {Absent}]
      /\ registry \in [Tags -> Indexes \cup {Absent}] /\ Leaves(j) /\ PositionOf(j)
      /\ ~disturbed => Undisturbed(j)
  BY <1>1, AtWork DEF Resting
<1>3. registry[Latest] \in Indexes
  BY <1>1, <1>2, CommonAssumption DEF Published
<1>4. /\ pc' \in [Jobs -> Labels] /\ pc'[j] = "name"
      /\ held' \in [Jobs -> Indexes \cup {Absent}] /\ held'[j] = registry[Latest]
      /\ \A k \in Jobs \ {j} : pc'[k] = pc[k] /\ held'[k] = held[k]
  BY <1>1, <1>2, <1>3 DEF Labels
<1>5. TypeOK'
  BY <1>1, <1>4 DEF Inv, TypeOK, CommonTypeOK
<1>6. Frame(j)
  BY <1>1, <1>4 DEF Frame
<1>7. PositionOf(j)'
  BY <1>1, <1>2, <1>3, <1>4 DEF PositionOf, Labels, Last, Listed, TagList, Indexes
<1>8. Leaves(j)'
  BY <1>1, <1>2, <1>4 DEF Leaves, Last, Listed, TagList, Published
<1>9. \A t \in Tags : ~Attends(j, t)
  BY <1>1 DEF Attends
<1>10. ~disturbed' => /\ registry'[Latest].image = j /\ held'[j].image = j
                      /\ registry'[Version(j)] = Absent
  BY <1>1, <1>2, <1>4 DEF Undisturbed, Published
<1> QED
  BY <1>1, <1>4, <1>5, <1>6, <1>7, <1>8, <1>9, <1>10, StepOfOne

\* What was latest gets the name of the version.
LEMMA NameInv == ASSUME Inv, NEW j \in Jobs, NameVersion(j) PROVE Inv'
<1> DEFINE index == held[j]
           ref == Version(j)
<1>1. /\ pc[j] = "name" /\ pc' = [pc EXCEPT ![j] = "annotate"]
      /\ registry' = [registry EXCEPT ![ref] = index]
      /\ held' = [held EXCEPT ![j] = Absent] /\ at' = [at EXCEPT ![j] = Last + 1]
      /\ UNCHANGED <<misses, disturbed, todo>>
  BY DEF NameVersion, Push, Release, Goto, Last
<1>2. /\ pc \in [Jobs -> Labels] /\ held \in [Jobs -> Indexes \cup {Absent}]
      /\ at \in [Jobs -> Nat] /\ \A k \in Jobs : at[k] \in 1 .. Last + 2
      /\ registry \in [Tags -> Indexes \cup {Absent}] /\ Leaves(j) /\ PositionOf(j)
      /\ ~disturbed => Undisturbed(j)
  BY <1>1, AtWork DEF Resting
<1>3. /\ Last \in Nat /\ Last >= 1 /\ ref \in Tags /\ ref \notin Listed
      /\ Latest \in Listed /\ Listed \subseteq Tags /\ index \in Indexes /\ index # Absent
  BY <1>1, <1>2, ListFacts, CommonAssumption DEF PositionOf, Indexes
<1>4. /\ registry' \in [Tags -> Indexes \cup {Absent}] /\ registry'[ref] = index
      /\ \A t \in Tags : t # ref => registry'[t] = registry[t]
  BY <1>1, <1>2, <1>3
<1>5. /\ held' \in [Jobs -> Indexes \cup {Absent}]
      /\ \A k \in Jobs \ {j} : held'[k] = held[k]
  BY <1>1, <1>2
<1>6. /\ pc' \in [Jobs -> Labels] /\ pc'[j] = "annotate"
      /\ \A k \in Jobs \ {j} : pc'[k] = pc[k]
  BY <1>1, <1>2 DEF Labels
<1>7. /\ at' \in [Jobs -> Nat] /\ at'[j] = Last + 1
      /\ \A k \in Jobs \ {j} : at'[k] = at[k]
  BY <1>1, <1>2, <1>3
<1>8. TypeOK'
  <2>1. CommonTypeOK'
    BY <1>1, <1>4, <1>5, <1>6, <1>7 DEF Inv, TypeOK, CommonTypeOK
  <2>2. \A k \in Jobs : at'[k] \in 1 .. Last + 2
    <3> TAKE k \in Jobs
    <3> QED
      BY <1>2, <1>3, <1>7
  <2> QED
    BY <1>1, <2>1, <2>2 DEF Inv, TypeOK, Last, TagList
<1>9. Frame(j)
  BY <1>1, <1>5, <1>6, <1>7 DEF Frame
<1>10. PositionOf(j)'
  <2>1. at'[j] <= Last + 1
    BY <1>3, <1>7
  <2> QED
    BY <1>1, <1>2, <1>6, <2>1 DEF PositionOf, Labels, Last, Listed, TagList
<1>11. Leaves(j)'
  <2>1. \A t \in Listed : registry'[t] # Absent
    BY <1>1, <1>2, <1>3, <1>4 DEF Leaves, Published
  <2> QED
    BY <1>6, <2>1 DEF Leaves, Last, Listed, TagList, Published
<1>12. Attends(j, ref)'
  BY <1>6, <1>7 DEF Attends, Last, TagList, Version
<1>13. ~disturbed => index.image = j /\ registry[Latest].image = j
  BY <1>1, <1>2 DEF Undisturbed
<1>14. ASSUME NEW t \in Tags, registry'[t] # registry[t]
       PROVE  /\ registry'[t] # Absent /\ Attends(j, t)'
              /\ t = Version(j) /\ ~disturbed => registry'[t].image = j
  <2>1. t = ref /\ registry'[t] = index
    BY <1>4, <1>14
  <2>2. Attends(j, t)'
    BY <1>12, <2>1 DEF Attends, Version
  <2> QED
    BY <1>3, <1>13, <2>1, <2>2
<1>15. \A t \in Tags : ~Attends(j, t)
  BY <1>1 DEF Attends
<1>16. ~disturbed' => registry'[Latest].image = j
  BY <1>1, <1>3, <1>4, <1>13
<1> QED
  BY <1>1, <1>6, <1>8, <1>9, <1>10, <1>11, <1>14, <1>15, <1>16, StepOfOne

\* A job fails.
LEMMA FailInv == ASSUME Inv, NEW j \in Jobs, FailBuild(j) PROVE Inv'
<1>1. /\ pc[j] \notin Resting /\ pc' = [pc EXCEPT ![j] = "failed"]
      /\ held' = [held EXCEPT ![j] = Absent]
      /\ UNCHANGED <<registry, at, misses, disturbed, todo>>
  BY DEF FailBuild, Fail, Goto, Release
<1>2. /\ pc \in [Jobs -> Labels] /\ held \in [Jobs -> Indexes \cup {Absent}] /\ PositionOf(j)
  BY AtWork
<1>3. /\ pc' \in [Jobs -> Labels] /\ pc'[j] = "failed"
      /\ held' \in [Jobs -> Indexes \cup {Absent}]
      /\ \A k \in Jobs \ {j} : pc'[k] = pc[k] /\ held'[k] = held[k]
  BY <1>1, <1>2 DEF Labels
<1>4. TypeOK'
  BY <1>1, <1>3 DEF Inv, TypeOK, CommonTypeOK
<1>5. Frame(j)
  BY <1>1, <1>3 DEF Frame
<1>6. PositionOf(j)' /\ Leaves(j)'
  BY <1>1, <1>2, <1>3 DEF PositionOf, Leaves, Labels, Last, Listed, TagList
<1>7. (\A t \in Tags : Attends(j, t)') /\ pc'[j] \in Resting
  BY <1>3 DEF Attends, Resting
<1> QED
  BY <1>1, <1>3, <1>4, <1>5, <1>6, <1>7, StepOfOne DEF Resting

-----------------------------------------------------------------------------

\* The invariant is kept by every step.
LEMMA StepInv == Inv /\ [Next]_vars => Inv'
<1> SUFFICES ASSUME Inv, [Next]_vars PROVE Inv'
  OBVIOUS
<1>1. ASSUME NEW j \in Jobs, Work(j) \/ FailBuild(j) PROVE Inv'
  BY <1>1, BuildInv, CheckInv, PushInv, FetchInv, AnnotateInv, VersionInv, LatestInv,
     NameInv, FailInv DEF Work
<1>2. CASE UNCHANGED vars
  <2>1. TypeOK'
    BY <1>2 DEF vars, common, Inv, TypeOK, CommonTypeOK
  <2>2. Positions' /\ VersionTagsHoldTheirVersion'
    BY <1>2 DEF vars, common, Inv, Positions, PositionOf, VersionTagsHoldTheirVersion,
       Published, Version, Last, Listed, TagList
  <2>3. Alone' /\ Cared'
    BY <1>2, ZenonT(40) DEF vars, common, Inv, Alone, Undisturbed, Cared, Leaves, Attends, Published,
       Version, AnnotationRef, Last, Listed, TagList
  <2> QED
    BY <2>1, <2>2, <2>3 DEF Inv
<1> QED
  BY <1>1, <1>2 DEF Next

\* The inductive invariant of publish-build.sh.
THEOREM Invariance == Spec => []Inv
<1> QED
  BY InitInv, StepInv, PTL DEF Spec

\* The types of the registry and of the jobs.
THEOREM TypeCorrect == Spec => []TypeOK
<1>1. Inv => TypeOK
  BY DEF Inv
<1> QED
  BY <1>1, Invariance, PTL

\* While one job runs at a time and no inspection misses a tag, the tag of a version
\* holds an image of it, whatever jobs failed after they had pushed latest.
THEOREM VersionTagsStayTrue == Spec => []VersionTagsHoldTheirVersion
<1>1. Inv => VersionTagsHoldTheirVersion
  BY DEF Inv
<1> QED
  BY <1>1, Invariance, PTL

\* When all jobs have ended and none has failed, no tag is left without its annotation,
\* however the jobs overlapped.
THEOREM AllTagsAreAnnotated == Spec => []AllAnnotatedAtRest
<1>1. ASSUME Inv PROVE AllAnnotatedAtRest
  <2> SUFFICES ASSUME \A k \in Jobs : pc[k] \in {"waiting", "done"},
                      NEW j \in Jobs, pc[j] = "done",
                      NEW t \in {Version(j), Latest} \cup { s \in Tags : IsStatic(s) }
               PROVE  Published(t) /\ registry[t].revision # NoRevision
    BY DEF AllAnnotatedAtRest
  <2>1. Leaves(j)
    BY <1>1 DEF Inv, Cared
  <2>2. t \in Tags /\ (t = Version(j) \/ t \in Listed)
    BY ListFacts
  <2>3. Published(t)
    BY <2>1, <2>2 DEF Leaves
  <2>4. \A k \in Jobs : ~Attends(k, t)
    BY DEF Attends
  <2> QED
    BY <1>1, <2>2, <2>3, <2>4 DEF Inv, Cared
<1> QED
  BY <1>1, Invariance, PTL

\* Under the same condition no tag but latest ever gets another image.
THEOREM ImmutableTagsStay == Spec => ImmutableTagsKeepTheirImage
<1> DEFINE Step == \A t \in Tags \ {Latest} :
              (Published(t) /\ ~disturbed') => registry'[t].image = registry[t].image
<1>1. ASSUME Inv, [Next]_vars PROVE [Step]_vars
  <2> SUFFICES ASSUME Next, NEW t \in Tags \ {Latest}, Published(t), ~disturbed'
               PROVE  registry'[t].image = registry[t].image
    BY <1>1
  <2>1. CASE registry' = registry
    BY <2>1
  <2>2. ASSUME NEW j \in Jobs, PushTag(j) PROVE registry'[t].image = registry[t].image
    <3>1. pc[j] = "push" /\ ~disturbed /\ registry \in [Tags -> Indexes \cup {Absent}]
      BY <1>1, <2>2 DEF PushTag, Inv, TypeOK, CommonTypeOK
    <3>2. PICK tag \in todo[j] :
             registry' = [registry EXCEPT ![tag] = [image |-> j, revision |-> NoRevision]]
      BY <2>2 DEF PushTag, Push
    <3>3. t \notin todo[j]
      BY <1>1, <3>1 DEF Inv, Alone, Undisturbed, Resting
    <3> QED
      BY <3>1, <3>2, <3>3
  <2>3. ASSUME NEW j \in Jobs, Annotate(j) PROVE registry'[t].image = registry[t].image
    <3>1. /\ pc[j] = "annotating" /\ ~disturbed /\ registry \in [Tags -> Indexes \cup {Absent}]
          /\ registry' = [registry EXCEPT ![AnnotationRef(j)] = [held[j] EXCEPT !.revision = j]]
      BY <1>1, <2>3 DEF Annotate, Push, Annotated, Inv, TypeOK, CommonTypeOK
    <3>2. /\ AnnotationRef(j) = t => registry[t] = held[j]
          /\ held[j] \in Indexes
      BY <1>1, <3>1 DEF Inv, Alone, Undisturbed, Resting, Positions, PositionOf
    <3> QED
      BY <3>1, <3>2 DEF Indexes
  <2>4. ASSUME NEW j \in Jobs, NameVersion(j) PROVE registry'[t].image = registry[t].image
    <3>1. /\ pc[j] = "name" /\ ~disturbed /\ registry \in [Tags -> Indexes \cup {Absent}]
          /\ registry' = [registry EXCEPT ![Version(j)] = held[j]]
      BY <1>1, <2>4 DEF NameVersion, Push, Inv, TypeOK, CommonTypeOK
    <3>2. Version(j) # t
      BY <1>1, <3>1 DEF Inv, Alone, Undisturbed, Resting
    <3> QED
      BY <3>1, <3>2
  <2>5. \/ registry' = registry
        \/ \E j \in Jobs : PushTag(j) \/ Annotate(j) \/ NameVersion(j)
    BY DEF Next, Work, BuildImage, CheckTag, FetchForAnnotation, CheckVersion, FetchLatest,
       FailBuild, Fail
  <2> QED
    BY <2>1, <2>2, <2>3, <2>4, <2>5
<1> QED
  BY <1>1, Invariance, PTL DEF Spec, ImmutableTagsKeepTheirImage
=============================================================================
