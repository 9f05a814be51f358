------------------------ MODULE PublishMirror_proofs ------------------------
(***************************************************************************)
(* What holds of mirrored images for any jobs, lists of tags and moves of  *)
(* the upstream tags.                                                      *)
(***************************************************************************)
EXTENDS PublishMirror, TLAPS

MirrorLabels == {"waiting", "check", "copy", "write", "annotate", "annotating", "done", "failed"}

\* A job's position in its loop, whose last round is that of latest, if it has one.
PositionOf(j) ==
    /\ pc[j] \in MirrorLabels
    /\ pc[j] \notin {"done", "failed"} => at[j] <= Rounds(j)
    /\ pc[j] = "done" => at[j] = Rounds(j) + 1

Positions == \A j \in Jobs : PositionOf(j)

\* An image that may be found under a tag.
Mirrors(t, image) ==
    /\ image \in Images
    /\ IF t = Latest
       THEN \E j \in Jobs : /\ NamesLatest[j] /\ image.tag = Lists[j][1]
                           /\ at[j] > Len(Lists[j])
       ELSE image.tag = t
    /\ image.moves <= upstream[image.tag]

\* What a job is about to publish.
InHand(j) ==
    /\ pc[j] = "write" => Mirrors(DestRef(j), copying[j])
    /\ pc[j] = "annotating" => held[j] \in Indexes /\ Mirrors(DestRef(j), held[j].image)

Sources ==
    /\ \A t \in Tags : Published(t) => Mirrors(t, registry[t].image)
    /\ \A j \in Jobs : InHand(j)

\* One job at a time, which writes no tag that exists and annotates what it fetched.
Undisturbed(j) ==
    /\ \A k \in Jobs : pc[k] \notin Resting => k = j
    /\ (pc[j] \in {"copy", "write"} /\ DestRef(j) # Latest) => ~Published(DestRef(j))
    /\ pc[j] = "annotating" => registry[DestRef(j)] = held[j]

Alone == ~disturbed => \A j \in Jobs : pc[j] \notin Resting => Undisturbed(j)

\* A job leaves each tag published, and one without annotation has a job that will
\* annotate it, or that has failed.
Leaves(j) ==
    /\ \A i \in DOMAIN Lists[j] : i < at[j] => Published(Lists[j][i])
    /\ (NamesLatest[j] /\ at[j] > Len(Lists[j]) + 1) => Published(Latest)

Attends(j, t) ==
    \/ pc[j] = "failed"
    \/ pc[j] \in {"annotate", "annotating"} /\ DestRef(j) = t

Cared ==
    /\ \A j \in Jobs : Leaves(j)
    /\ \A t \in Tags : (Published(t) /\ registry[t].revision = NoRevision) =>
         \E j \in Jobs : Attends(j, t)

Inv == TypeOK /\ Positions /\ Sources /\ Alone /\ Cared

-----------------------------------------------------------------------------

\* The lists are not empty and do not name latest, which has a round after theirs or none.
LEMMA ListFacts ==
  \A j \in Jobs :
    /\ Len(Lists[j]) \in Nat /\ Len(Lists[j]) >= 1 /\ DOMAIN Lists[j] = 1 .. Len(Lists[j])
    /\ Rounds(j) \in Nat /\ Len(Lists[j]) <= Rounds(j) /\ Rounds(j) <= Len(Lists[j]) + 1
    /\ Rounds(j) > Len(Lists[j]) <=> NamesLatest[j]
    /\ \A i \in 1 .. Len(Lists[j]) : Lists[j][i] \in Tags \ {Latest}
<1> SUFFICES ASSUME NEW j \in Jobs
             PROVE  /\ Len(Lists[j]) \in Nat /\ Len(Lists[j]) >= 1
                    /\ DOMAIN Lists[j] = 1 .. Len(Lists[j])
                    /\ Rounds(j) \in Nat /\ Len(Lists[j]) <= Rounds(j)
                    /\ Rounds(j) <= Len(Lists[j]) + 1
                    /\ Rounds(j) > Len(Lists[j]) <=> NamesLatest[j]
                    /\ \A i \in 1 .. Len(Lists[j]) : Lists[j][i] \in Tags \ {Latest}
  OBVIOUS
<1>1. Lists[j] \in Seq(Tags \ {Latest}) /\ Lists[j] # <<>> /\ NamesLatest[j] \in BOOLEAN
  BY MirrorAssumption
<1>2. Len(Lists[j]) \in Nat /\ Len(Lists[j]) >= 1
  BY <1>1
<1>3. /\ Rounds(j) \in Nat /\ Len(Lists[j]) <= Rounds(j) /\ Rounds(j) <= Len(Lists[j]) + 1
      /\ Rounds(j) > Len(Lists[j]) <=> NamesLatest[j]
  BY <1>1, <1>2 DEF Rounds
<1> QED
  BY <1>1, <1>2, <1>3

\* What a position stands for.
LEMMA Refs ==
  ASSUME NEW j \in Jobs, at[j] \in Nat, at[j] >= 1, at[j] <= Rounds(j)
  PROVE  /\ DestRef(j) \in Tags /\ SourceRef(j) \in Tags \ {Latest}
         /\ at[j] > Len(Lists[j]) => /\ DestRef(j) = Latest /\ SourceRef(j) = Lists[j][1]
                                     /\ NamesLatest[j]
         /\ at[j] <= Len(Lists[j]) => /\ DestRef(j) = Lists[j][at[j]] /\ DestRef(j) # Latest
                                      /\ SourceRef(j) = DestRef(j)
BY ListFacts, CommonAssumption DEF DestRef, SourceRef

\* Upstream moves forward, and so do the jobs: what may be under a tag may stay there.
LEMMA MirrorsStay ==
  ASSUME TypeOK, NEW t, NEW image, Mirrors(t, image),
         upstream' \in [Tags \ {Latest} -> 0 .. MaxMoves],
         \A s \in Tags \ {Latest} : upstream'[s] >= upstream[s],
         \A j \in Jobs : at'[j] \in Nat /\ at'[j] >= at[j]
  PROVE  Mirrors(t, image)'
<1>1. image.tag \in Tags \ {Latest} /\ image.moves \in 0 .. MaxMoves
  BY MirrorAssumption DEF Mirrors
<1>2. image.moves <= upstream'[image.tag]
  BY <1>1, MirrorAssumption DEF Mirrors, TypeOK
<1>3. ASSUME NEW j \in Jobs, at[j] > Len(Lists[j]) PROVE at'[j] > Len(Lists[j])
  BY <1>3, ListFacts DEF TypeOK, CommonTypeOK
<1> QED
  BY <1>2, <1>3 DEF Mirrors

\* Nothing is published or running when the first job starts.
LEMMA InitInv == Init => Inv
<1> SUFFICES ASSUME Init PROVE Inv
  OBVIOUS
<1>1. /\ pc = [j \in Jobs |-> "waiting"] /\ at = [j \in Jobs |-> 1]
      /\ held = [j \in Jobs |-> Absent] /\ registry = [t \in Tags |-> Absent]
      /\ upstream = [t \in Tags \ {Latest} |-> 0] /\ copying = [j \in Jobs |-> Absent]
  BY DEF Init, CommonInit
<1>2. misses \in 0 .. MaxMisses
  BY CommonAssumption DEF Init, CommonInit
<1>3. disturbed \in BOOLEAN
  BY DEF Init, CommonInit
<1>0. \A j \in Jobs : pc[j] = "waiting" /\ at[j] = 1
  BY <1>1
<1>4. TypeOK
  <2>1. CommonTypeOK
    BY <1>1, <1>2, <1>3 DEF CommonTypeOK, Labels
  <2>2. /\ upstream \in [Tags \ {Latest} -> 0 .. MaxMoves]
        /\ copying \in [Jobs -> Images \cup {Absent}]
    BY <1>1, MirrorAssumption
  <2>3. \A j \in Jobs : at[j] \in 1 .. Rounds(j) + 1
    <3> TAKE j \in Jobs
    <3> QED
      BY <1>0, ListFacts
  <2> QED
    BY <2>1, <2>2, <2>3 DEF TypeOK
<1>5. Positions
  <2> SUFFICES ASSUME NEW j \in Jobs
               PROVE  pc[j] = "waiting" /\ at[j] <= Rounds(j)
    BY DEF Positions, PositionOf, MirrorLabels
  <2> QED
    BY <1>0, ListFacts
<1>6. Sources /\ Alone
  BY <1>1 DEF Sources, InHand, Alone, Undisturbed, Published, Resting
<1>7. Cared
  BY <1>1, ListFacts DEF Cared, Leaves, Published
<1> QED
  BY <1>4, <1>5, <1>6, <1>7 DEF Inv

-----------------------------------------------------------------------------

\* A move of an upstream tag.
LEMMA MoveInv == ASSUME Inv, NEW t \in Tags \ {Latest}, UpstreamMoves(t) PROVE Inv'
<1> USE DEF UpstreamMoves, common
<1>1. TypeOK'
  BY MirrorAssumption DEF Inv, TypeOK, CommonTypeOK
<1>2. \A s, image : Mirrors(s, image) => Mirrors(s, image)'
  <2> SUFFICES ASSUME NEW s, NEW image, Mirrors(s, image) PROVE Mirrors(s, image)'
    OBVIOUS
  <2>1. \A u \in Tags \ {Latest} : upstream'[u] >= upstream[u]
    BY MirrorAssumption DEF Inv, TypeOK
  <2> QED
    BY <1>1, <2>1, MirrorsStay DEF Inv, TypeOK, CommonTypeOK
<1>3. Sources'
  BY <1>2, ZenonT(40) DEF Inv, Sources, InHand, Published, Mirrors, DestRef
<1>4. Positions' /\ Alone' /\ Cared'
  BY DEF Inv, Positions, PositionOf, Alone, Undisturbed, Cared, Leaves, Attends, Published, DestRef
<1> QED
  BY <1>1, <1>3, <1>4 DEF Inv

-----------------------------------------------------------------------------

\* A job's step leaves the variables of the others alone, and no job goes back.
Frame(j) ==
    /\ upstream' = upstream
    /\ \A k \in Jobs \ {j} : /\ pc'[k] = pc[k] /\ at'[k] = at[k]
                             /\ held'[k] = held[k] /\ copying'[k] = copying[k]
    /\ at'[j] >= at[j]

\* The part of the invariant that is about the variables of other jobs.
LEMMA OthersStay ==
  ASSUME Inv, NEW j \in Jobs, TypeOK', Frame(j)
  PROVE  /\ \A s, image : Mirrors(s, image) => Mirrors(s, image)'
         /\ \A k \in Jobs \ {j} : PositionOf(k)' /\ InHand(k)' /\ DestRef(k)' = DestRef(k)
         /\ \A k \in Jobs : at'[k] >= at[k]
<1>1. \A k \in Jobs : at'[k] \in Nat /\ at'[k] >= at[k]
  <2> TAKE k \in Jobs
  <2>1. at[k] \in Nat /\ at'[k] \in Nat
    BY DEF Inv, TypeOK, CommonTypeOK
  <2> QED
    BY <2>1 DEF Frame
<1>2. \A s, image : Mirrors(s, image) => Mirrors(s, image)'
  <2> SUFFICES ASSUME NEW s, NEW image, Mirrors(s, image) PROVE Mirrors(s, image)'
    OBVIOUS
  <2>1. /\ upstream' \in [Tags \ {Latest} -> 0 .. MaxMoves]
        /\ \A t \in Tags \ {Latest} : upstream'[t] >= upstream[t]
    BY MirrorAssumption DEF Inv, TypeOK, Frame
  <2> QED
    BY <1>1, <2>1, MirrorsStay DEF Inv
<1>3. ASSUME NEW k \in Jobs \ {j} PROVE PositionOf(k)' /\ DestRef(k)' = DestRef(k)
  BY DEF Inv, Positions, PositionOf, Frame, DestRef
<1>4. ASSUME NEW k \in Jobs \ {j} PROVE InHand(k)'
  <2>1. InHand(k) /\ DestRef(k)' = DestRef(k)
    BY <1>3 DEF Inv, Sources
  <2>2. pc'[k] = pc[k] /\ held'[k] = held[k] /\ copying'[k] = copying[k]
    BY DEF Frame
  <2>3. ASSUME pc'[k] = "write" PROVE Mirrors(DestRef(k), copying[k])'
    <3>1. Mirrors(DestRef(k), copying[k])
      BY <2>1, <2>2, <2>3 DEF InHand
    <3>2. PICK s, image : s = DestRef(k) /\ image = copying[k]
      OBVIOUS
    <3>3. Mirrors(s, image)'
      BY <1>2, <3>1, <3>2
    <3> QED
      BY <2>1, <2>2, <3>2, <3>3 DEF Mirrors
  <2>4. ASSUME pc'[k] = "annotating"
        PROVE  (held[k] \in Indexes)' /\ Mirrors(DestRef(k), held[k].image)'
    <3>1. held[k] \in Indexes /\ Mirrors(DestRef(k), held[k].image)
      BY <2>1, <2>2, <2>4 DEF InHand
    <3>2. PICK s, image : s = DestRef(k) /\ image = held[k].image
      OBVIOUS
    <3>3. Mirrors(s, image)'
      BY <1>2, <3>1, <3>2
    <3> QED
      BY <2>1, <2>2, <3>1, <3>2, <3>3 DEF Mirrors, Indexes
  <2> QED
    BY <2>3, <2>4 DEF InHand
<1> QED
  BY <1>1, <1>2, <1>3, <1>4

\* What is to be shown of a step of one job.
LEMMA StepOfOne ==
  ASSUME Inv, NEW j \in Jobs, TypeOK', Frame(j), pc[j] \notin {"done", "failed"},
         PositionOf(j)', InHand(j)', Leaves(j)',
         \A t \in Tags : registry'[t] # registry[t] =>
             /\ Published(t)' /\ Mirrors(t, registry[t].image)'
             /\ registry'[t].revision = NoRevision => Attends(j, t)',
         \A t \in Tags : Attends(j, t) =>
             Attends(j, t)' \/ registry'[t].revision # NoRevision,
         disturbed => disturbed',
         pc[j] = "waiting" =>
             /\ disturbed' \/ pc'[j] \in Resting \/ Running = {}
             /\ registry' = registry,
         (~disturbed' /\ pc'[j] \notin Resting) =>
             /\ (pc'[j] \in {"copy", "write"} /\ DestRef(j)' # Latest) => ~Published(DestRef(j))'
             /\ pc'[j] = "annotating" => (registry[DestRef(j)] = held[j])'
  PROVE  Inv'
<1>1. Positions'
  BY OthersStay DEF Positions
<1>2. Sources'
  <2>1. ASSUME NEW t \in Tags, Published(t)' PROVE Mirrors(t, registry[t].image)'
    <3>1. CASE registry'[t] # registry[t]
      BY <3>1
    <3>2. CASE registry'[t] = registry[t]
      <4>1. Mirrors(t, registry[t].image)
        BY <2>1, <3>2 DEF Published, Inv, Sources
      <4>2. PICK image : image = registry[t].image
        OBVIOUS
      <4>3. Mirrors(t, image)'
        BY <4>1, <4>2, OthersStay
      <4> QED
        BY <3>2, <4>2, <4>3 DEF Mirrors
    <3> QED
      BY <3>1, <3>2
  <2> QED
    BY <2>1, OthersStay DEF Sources
<1>3. Cared'
  <2>1. \A t \in Tags : Published(t) => Published(t)'
    BY DEF Published
  <2>2. ASSUME NEW k \in Jobs \ {j} PROVE Leaves(k)'
    <3>1. Leaves(k) /\ at'[k] = at[k]
      BY DEF Inv, Cared, Frame
    <3> QED
      BY <2>1, <3>1, ListFacts, CommonAssumption DEF Leaves
  <2>3. ASSUME NEW t \in Tags, Published(t)', registry'[t].revision = NoRevision
        PROVE  \E k \in Jobs : Attends(k, t)'
    <3>1. CASE registry'[t] # registry[t]
      BY <2>3, <3>1
    <3>2. CASE registry'[t] = registry[t]
      <4>1. PICK k \in Jobs : Attends(k, t)
        BY <2>3, <3>2 DEF Published, Inv, Cared
      <4>2. CASE k = j
        BY <2>3, <4>1, <4>2
      <4>3. CASE k # j
        BY <4>1, <4>3, OthersStay DEF Attends, Frame
      <4> QED
        BY <4>2, <4>3
    <3> QED
      BY <3>1, <3>2
  <2> QED
    BY <2>2, <2>3 DEF Cared
<1>4. Alone'
  <2> SUFFICES ASSUME ~disturbed', NEW k \in Jobs, pc'[k] \notin Resting PROVE Undisturbed(k)'
    BY DEF Alone
  <2>1. ASSUME NEW i \in Jobs \ {j}, pc'[i] \notin Resting PROVE pc'[j] \in Resting /\ i = k
    <3>1. pc[i] \notin Resting
      BY <2>1 DEF Frame
    <3>2. Undisturbed(i)
      BY <3>1 DEF Inv, Alone
    <3>3. pc[j] \in Resting
      BY <2>1, <3>2 DEF Undisturbed
    <3>4. pc[j] = "waiting"
      BY <3>3 DEF Resting
    <3>5. pc'[j] \in Resting
      BY <3>1, <3>4 DEF Running
    <3>6. k # j /\ pc[k] \notin Resting
      BY <3>5 DEF Frame
    <3> QED
      BY <3>2, <3>5, <3>6 DEF Undisturbed
  <2>2. CASE k = j
    BY <2>1, <2>2 DEF Undisturbed
  <2>3. CASE k # j
    <3>1. pc[k] \notin Resting /\ Undisturbed(k)
      BY <2>3 DEF Inv, Alone, Frame
    <3>2. pc[j] = "waiting"
      BY <2>3, <3>1 DEF Undisturbed, Resting
    <3>3. pc'[j] \in Resting
      BY <2>1, <2>3
    <3>4. \A i \in Jobs : pc'[i] \notin Resting => i = k
      BY <2>1, <3>3
    <3>5. /\ pc'[k] = pc[k] /\ held'[k] = held[k] /\ DestRef(k)' = DestRef(k)
          /\ registry' = registry
      BY <2>3, <3>2, OthersStay DEF Frame
    <3> QED
      BY <3>1, <3>4, <3>5 DEF Undisturbed, Published
  <2> QED
    BY <2>2, <2>3
<1> QED
  BY <1>1, <1>2, <1>3, <1>4 DEF Inv

-----------------------------------------------------------------------------

\* A job begins.
LEMMA BeginInv == ASSUME Inv, NEW j \in Jobs, BeginMirror(j) PROVE Inv'
<1>1. pc[j] = "waiting" /\ pc' = [pc EXCEPT ![j] = "check"] /\ disturbed' = (disturbed \/ Running # {})
  BY DEF BeginMirror, Start, Goto, Resting
<1>2. UNCHANGED <<registry, at, held, misses, upstream, copying>>
  BY DEF BeginMirror
<1>3. pc \in [Jobs -> Labels] /\ disturbed \in BOOLEAN
  BY DEF Inv, TypeOK, CommonTypeOK
<1>4. pc'[j] = "check" /\ \A k \in Jobs \ {j} : pc'[k] = pc[k]
  BY <1>1, <1>3
<1>5. TypeOK'
  <2>1. pc' \in [Jobs -> Labels] /\ disturbed' \in BOOLEAN
    BY <1>1, <1>3 DEF Labels
  <2> QED
    BY <1>2, <2>1 DEF Inv, TypeOK, CommonTypeOK
<1>6. Frame(j)
  BY <1>2, <1>4 DEF Inv, TypeOK, CommonTypeOK, Frame
<1>7. PositionOf(j)' /\ InHand(j)' /\ Leaves(j)'
  BY <1>1, <1>2, <1>4 DEF Inv, Positions, PositionOf, MirrorLabels, InHand, Cared, Leaves, Published
<1>8. \A t \in Tags : ~Attends(j, t)
  BY <1>1 DEF Attends
<1> QED
  BY <1>1, <1>2, <1>4, <1>5, <1>6, <1>7, <1>8, StepOfOne

\* The position and the labels of a job that runs.
LEMMA AtWork ==
  ASSUME Inv, NEW j \in Jobs, pc[j] \in {"check", "copy", "write", "annotate", "annotating"}
  PROVE  /\ at[j] \in Nat /\ at[j] >= 1 /\ at[j] <= Rounds(j) /\ Len(Lists[j]) \in Nat
         /\ DestRef(j) \in Tags /\ SourceRef(j) \in Tags \ {Latest}
         /\ at[j] > Len(Lists[j]) => /\ DestRef(j) = Latest /\ SourceRef(j) = Lists[j][1]
                                     /\ NamesLatest[j]
         /\ at[j] <= Len(Lists[j]) => /\ DestRef(j) = Lists[j][at[j]] /\ DestRef(j) # Latest
                                      /\ SourceRef(j) = DestRef(j)
<1>1. at[j] \in Nat /\ at[j] >= 1 /\ at[j] <= Rounds(j) /\ Len(Lists[j]) \in Nat
  <2>1. at[j] \in 1 .. Rounds(j) + 1 /\ PositionOf(j)
    BY DEF Inv, TypeOK, Positions
  <2>2. Len(Lists[j]) \in Nat /\ Rounds(j) \in Nat
    BY ListFacts
  <2> QED
    BY <2>1, <2>2 DEF PositionOf
<1> QED
  BY <1>1, Refs

\* The loop goes on: the tag it was at is published.
LEMMA LoopGoesOn ==
  ASSUME Inv, NEW j \in Jobs, pc[j] \in {"check", "annotating"}, NextTag(j),
         \A t \in Tags : Published(t) => Published(t)', registry'[DestRef(j)] # Absent
  PROVE  /\ pc' \in [Jobs -> Labels] /\ at' \in [Jobs -> Nat]
         /\ \A k \in Jobs : at'[k] \in 1 .. Rounds(k) + 1
         /\ pc'[j] \in {"check", "done"} /\ at'[j] >= at[j]
         /\ \A k \in Jobs \ {j} : pc'[k] = pc[k] /\ at'[k] = at[k]
         /\ PositionOf(j)' /\ Leaves(j)'
<1>1. pc \in [Jobs -> Labels] /\ at \in [Jobs -> Nat]
  BY DEF Inv, TypeOK, CommonTypeOK
<1>2. /\ at[j] \in Nat /\ at[j] >= 1 /\ at[j] <= Rounds(j)
      /\ Rounds(j) \in Nat /\ Len(Lists[j]) \in Nat
      /\ Rounds(j) <= Len(Lists[j]) + 1 /\ (Rounds(j) > Len(Lists[j]) <=> NamesLatest[j])
      /\ at[j] > Len(Lists[j]) => DestRef(j) = Latest
      /\ at[j] <= Len(Lists[j]) => DestRef(j) = Lists[j][at[j]]
  BY AtWork, ListFacts
<1>3. /\ at' = [at EXCEPT ![j] = at[j] + 1]
      /\ pc' = [pc EXCEPT ![j] = IF at[j] >= Rounds(j) THEN "done" ELSE "check"]
  BY DEF NextTag, Goto
<1>4. /\ pc' \in [Jobs -> Labels] /\ at' \in [Jobs -> Nat] /\ at'[j] = at[j] + 1
      /\ pc'[j] = IF at[j] >= Rounds(j) THEN "done" ELSE "check"
      /\ \A k \in Jobs \ {j} : pc'[k] = pc[k] /\ at'[k] = at[k]
  BY <1>1, <1>2, <1>3 DEF Labels
<1>5. ASSUME NEW k \in Jobs PROVE at'[k] \in 1 .. Rounds(k) + 1
  <2>1. CASE k = j
    BY <1>2, <1>4, <2>1
  <2>2. CASE k # j
    BY <1>4, <2>2 DEF Inv, TypeOK
  <2> QED
    BY <2>1, <2>2
<1>6. PositionOf(j)'
  <2>1. Rounds(j)' = Rounds(j)
    BY DEF Rounds
  <2> QED
    BY <1>2, <1>4, <2>1 DEF PositionOf, MirrorLabels
<1>7. Leaves(j)'
  <2>1. Leaves(j)
    BY DEF Inv, Cared
  <2>2. ASSUME NEW i \in DOMAIN Lists[j], i < at'[j] PROVE Published(Lists[j][i])'
    <3>1. i \in 1 .. Len(Lists[j]) /\ Lists[j][i] \in Tags
      BY ListFacts
    <3>2. CASE i < at[j]
      BY <2>1, <3>1, <3>2 DEF Leaves
    <3>3. CASE i = at[j]
      BY <1>2, <3>1, <3>3 DEF Published
    <3> QED
      BY <1>2, <1>4, <2>2, <3>1, <3>2, <3>3
  <2>3. (NamesLatest[j] /\ at'[j] > Len(Lists[j]) + 1) => Published(Latest)'
    BY <1>2, <1>4 DEF Published
  <2> QED
    BY <2>2, <2>3 DEF Leaves
<1> QED
  BY <1>2, <1>4, <1>5, <1>6, <1>7

\* A tag that exists is skipped, any other is copied.
LEMMA CheckInv == ASSUME Inv, NEW j \in Jobs, CheckTag(j) PROVE Inv'
<1>1. pc[j] = "check" /\ UNCHANGED <<registry, held, upstream, copying>>
  BY DEF CheckTag
<1>2. /\ pc \in [Jobs -> Labels] /\ at \in [Jobs -> Nat] /\ disturbed \in BOOLEAN
      /\ misses \in 0 .. MaxMisses
  BY DEF Inv, TypeOK, CommonTypeOK
<1>3. \A t \in Tags : ~Attends(j, t)
  BY <1>1 DEF Attends
<1>4. /\ disturbed' \in BOOLEAN /\ (disturbed => disturbed')
      /\ misses' \in 0 .. MaxMisses
  <2>1. misses' = misses \/ (misses < MaxMisses /\ misses' = misses + 1)
    BY DEF CheckTag, RefExists
  <2>2. disturbed' = disturbed \/ disturbed' = TRUE
    BY DEF CheckTag, RefExists
  <2>3. misses' \in 0 .. MaxMisses
    BY <1>2, <2>1, CommonAssumption
  <2>4. disturbed' \in BOOLEAN /\ (disturbed => disturbed')
    BY <1>2, <2>2
  <2> QED
    BY <2>3, <2>4
<1>5. CASE /\ NextTag(j) /\ Published(DestRef(j))
  <2>1. /\ pc' \in [Jobs -> Labels] /\ at' \in [Jobs -> Nat]
        /\ \A k \in Jobs : at'[k] \in 1 .. Rounds(k) + 1
        /\ pc'[j] \in {"check", "done"} /\ at'[j] >= at[j]
        /\ \A k \in Jobs \ {j} : pc'[k] = pc[k] /\ at'[k] = at[k]
        /\ PositionOf(j)' /\ Leaves(j)'
    BY <1>1, <1>5, LoopGoesOn DEF Published
  <2>2. TypeOK'
    BY <1>1, <1>4, <2>1 DEF Inv, TypeOK, CommonTypeOK
  <2>3. Frame(j) /\ InHand(j)'
    BY <1>1, <2>1 DEF Frame, InHand
  <2> QED
    BY <1>1, <1>3, <1>4, <2>1, <2>2, <2>3, StepOfOne
<1>6. CASE /\ pc' = [pc EXCEPT ![j] = "copy"] /\ at' = at
           /\ DestRef(j) # Latest => disturbed' \/ ~Published(DestRef(j))
  <2>1. /\ pc' \in [Jobs -> Labels] /\ pc'[j] = "copy"
        /\ \A k \in Jobs \ {j} : pc'[k] = pc[k]
    BY <1>2, <1>6 DEF Labels
  <2>2. TypeOK'
    BY <1>1, <1>4, <1>6, <2>1 DEF Inv, TypeOK, CommonTypeOK
  <2>3. Frame(j)
    BY <1>1, <1>2, <1>6, <2>1 DEF Frame
  <2>4. PositionOf(j)' /\ InHand(j)' /\ Leaves(j)'
    BY <1>1, <1>6, <2>1 DEF Inv, Positions, PositionOf, MirrorLabels, InHand, Cared, Leaves, Published
  <2>5. DestRef(j)' = DestRef(j) /\ \A t \in Tags : Published(t)' = Published(t)
    BY <1>1, <1>6 DEF DestRef, Published
  <2>6. disturbed' \/ ((DestRef(j)' # Latest) => ~Published(DestRef(j))')
    BY <1>1, <1>6, <2>5 DEF Published
  <2> QED
    BY <1>1, <1>3, <1>4, <2>1, <2>2, <2>3, <2>4, <2>6, StepOfOne
<1> QED
  <2>1. CASE IsMutableRef(DestRef(j))
    BY <1>6, <2>1 DEF CheckTag, Goto, IsMutableRef
  <2>2. ASSUME ~IsMutableRef(DestRef(j)), NEW exists \in BOOLEAN, RefExists(DestRef(j), exists),
               IF exists THEN NextTag(j) ELSE Goto(j, "copy") /\ UNCHANGED at
        PROVE  Inv'
    <3>1. CASE exists
      BY <1>5, <2>2, <3>1 DEF RefExists
    <3>2. CASE ~exists
      BY <1>6, <2>2, <3>2 DEF RefExists, Goto
    <3> QED
      BY <3>1, <3>2
  <2> QED
    BY <2>1, <2>2 DEF CheckTag

\* The source is read.
LEMMA ReadInv == ASSUME Inv, NEW j \in Jobs, ReadUpstream(j) PROVE Inv'
<1>1. /\ pc[j] = "copy" /\ pc' = [pc EXCEPT ![j] = "write"]
      /\ copying' = [copying EXCEPT ![j] = [tag |-> SourceRef(j), moves |-> upstream[SourceRef(j)]]]
      /\ UNCHANGED <<registry, at, held, misses, disturbed, upstream>>
  BY DEF ReadUpstream, Goto
<1>2. /\ pc \in [Jobs -> Labels] /\ at \in [Jobs -> Nat] /\ copying \in [Jobs -> Images \cup {Absent}]
      /\ upstream \in [Tags \ {Latest} -> 0 .. MaxMoves]
  BY DEF Inv, TypeOK, CommonTypeOK
<1>3. /\ SourceRef(j) \in Tags \ {Latest} /\ DestRef(j) \in Tags
      /\ at[j] > Len(Lists[j]) => /\ DestRef(j) = Latest /\ SourceRef(j) = Lists[j][1]
                                  /\ NamesLatest[j]
      /\ at[j] <= Len(Lists[j]) => DestRef(j) # Latest /\ SourceRef(j) = DestRef(j)
      /\ at[j] \in Nat /\ Len(Lists[j]) \in Nat
  BY <1>1, AtWork
<1> DEFINE image == [tag |-> SourceRef(j), moves |-> upstream[SourceRef(j)]]
<1>4. image \in Images
  BY <1>2, <1>3, MirrorAssumption
<1>5. Mirrors(DestRef(j), image)
  BY <1>2, <1>3, <1>4 DEF Mirrors
<1>6. /\ pc' \in [Jobs -> Labels] /\ pc'[j] = "write" /\ copying'[j] = image
      /\ copying' \in [Jobs -> Images \cup {Absent}]
      /\ \A k \in Jobs \ {j} : pc'[k] = pc[k] /\ copying'[k] = copying[k]
  BY <1>1, <1>2, <1>4 DEF Labels
<1>7. TypeOK'
  BY <1>1, <1>6 DEF Inv, TypeOK, CommonTypeOK
<1>8. Frame(j)
  BY <1>1, <1>2, <1>6 DEF Frame
<1>9. DestRef(j)' = DestRef(j) /\ \A t \in Tags : Published(t)' = Published(t) /\ ~Attends(j, t)
  BY <1>1 DEF DestRef, Published, Attends
<1>10. PositionOf(j)' /\ Leaves(j)'
  BY <1>1, <1>6 DEF Inv, Positions, PositionOf, MirrorLabels, Cared, Leaves, Published
<1>11. InHand(j)'
  BY <1>1, <1>5, <1>6, <1>9 DEF InHand, Mirrors
<1>12. ~disturbed' => (DestRef(j)' # Latest => ~Published(DestRef(j))')
  BY <1>1, <1>9 DEF Inv, Alone, Undisturbed, Resting, Published
<1> QED
  BY <1>1, <1>6, <1>7, <1>8, <1>9, <1>10, <1>11, <1>12, StepOfOne

\* The copy is written.
LEMMA WriteInv == ASSUME Inv, NEW j \in Jobs, WriteCopy(j) PROVE Inv'
<1> DEFINE index == [image |-> copying[j], revision |-> NoRevision]
<1>1. /\ pc[j] = "write" /\ pc' = [pc EXCEPT ![j] = "annotate"]
      /\ registry' = [registry EXCEPT ![DestRef(j)] = index]
      /\ copying' = [copying EXCEPT ![j] = Absent]
      /\ UNCHANGED <<at, held, misses, disturbed, upstream>>
  BY DEF WriteCopy, Push, Goto
<1>2. /\ pc \in [Jobs -> Labels] /\ at \in [Jobs -> Nat] /\ copying \in [Jobs -> Images \cup {Absent}]
      /\ registry \in [Tags -> Indexes \cup {Absent}]
  BY DEF Inv, TypeOK, CommonTypeOK
<1>3. DestRef(j) \in Tags /\ Mirrors(DestRef(j), copying[j])
  BY <1>1, AtWork DEF Inv, Sources, InHand
<1>4. index \in Indexes /\ index # Absent
  BY <1>3, CommonAssumption DEF Mirrors, Indexes
<1>5. /\ pc' \in [Jobs -> Labels] /\ pc'[j] = "annotate"
      /\ copying' \in [Jobs -> Images \cup {Absent}]
      /\ \A k \in Jobs \ {j} : pc'[k] = pc[k] /\ copying'[k] = copying[k]
  BY <1>1, <1>2 DEF Labels
<1>6. /\ registry' \in [Tags -> Indexes \cup {Absent}] /\ registry'[DestRef(j)] = index
      /\ \A t \in Tags : t # DestRef(j) => registry'[t] = registry[t]
  BY <1>1, <1>2, <1>3, <1>4
<1>7. TypeOK'
  BY <1>1, <1>5, <1>6 DEF Inv, TypeOK, CommonTypeOK
<1>8. Frame(j)
  BY <1>1, <1>2, <1>5 DEF Frame
<1>9. DestRef(j)' = DestRef(j) /\ \A t \in Tags : Published(t) => Published(t)'
  BY <1>1, <1>4, <1>6 DEF DestRef, Published
<1>10. PositionOf(j)' /\ InHand(j)'
  BY <1>1, <1>5 DEF Inv, Positions, PositionOf, MirrorLabels, InHand
<1>11. Leaves(j)'
  <2>1. Leaves(j) /\ at'[j] = at[j]
    BY <1>1 DEF Inv, Cared
  <2> QED
    BY <1>9, <2>1, ListFacts, CommonAssumption DEF Leaves
<1>12. ASSUME NEW t \in Tags, registry'[t] # registry[t]
       PROVE  /\ Published(t)' /\ Mirrors(t, registry[t].image)'
              /\ Attends(j, t)'
  <2>1. t = DestRef(j) /\ registry'[t] = index
    BY <1>6, <1>12
  <2>2. PICK image : image = copying[j]
    OBVIOUS
  <2>3. Mirrors(t, image)'
    BY <1>3, <1>7, <1>8, <2>1, <2>2, OthersStay
  <2>4. Mirrors(t, registry[t].image)'
    BY <2>1, <2>2, <2>3 DEF Mirrors
  <2>5. Published(t)' /\ Attends(j, t)'
    BY <1>4, <1>5, <1>9, <2>1 DEF Published, Attends
  <2> QED
    BY <2>4, <2>5
<1>13. \A t \in Tags : ~Attends(j, t)
  BY <1>1 DEF Attends
<1> QED
  BY <1>1, <1>5, <1>7, <1>8, <1>10, <1>11, <1>12, <1>13, StepOfOne

\* The tag is fetched to be annotated.
LEMMA FetchInv == ASSUME Inv, NEW j \in Jobs, FetchForAnnotation(j) PROVE Inv'
<1>1. /\ pc[j] = "annotate" /\ pc' = [pc EXCEPT ![j] = "annotating"]
      /\ Published(DestRef(j)) /\ held' = [held EXCEPT ![j] = registry[DestRef(j)]]
      /\ UNCHANGED <<registry, at, misses, disturbed, upstream, copying>>
  BY DEF FetchForAnnotation, Fetch, Goto
<1>2. /\ pc \in [Jobs -> Labels] /\ at \in [Jobs -> Nat]
      /\ held \in [Jobs -> Indexes \cup {Absent}] /\ registry \in [Tags -> Indexes \cup {Absent}]
  BY DEF Inv, TypeOK, CommonTypeOK
<1>3. DestRef(j) \in Tags
  BY <1>1, AtWork
<1>4. registry[DestRef(j)] \in Indexes /\ Mirrors(DestRef(j), registry[DestRef(j)].image)
  BY <1>1, <1>2, <1>3 DEF Published, Inv, Sources
<1>5. /\ pc' \in [Jobs -> Labels] /\ pc'[j] = "annotating"
      /\ held' \in [Jobs -> Indexes \cup {Absent}] /\ held'[j] = registry[DestRef(j)]
      /\ \A k \in Jobs \ {j} : pc'[k] = pc[k] /\ held'[k] = held[k]
  BY <1>1, <1>2, <1>4 DEF Labels
<1>6. TypeOK'
  BY <1>1, <1>5 DEF Inv, TypeOK, CommonTypeOK
<1>7. Frame(j)
  BY <1>1, <1>2, <1>5 DEF Frame
<1>8. DestRef(j)' = DestRef(j)
  BY <1>1 DEF DestRef
<1>9. PositionOf(j)' /\ Leaves(j)'
  BY <1>1, <1>5 DEF Inv, Positions, PositionOf, MirrorLabels, Cared, Leaves, Published
<1>10. InHand(j)'
  BY <1>1, <1>4, <1>5, <1>8 DEF InHand, Mirrors, Indexes
<1>11. \A t \in Tags : Attends(j, t) => Attends(j, t)'
  BY <1>1, <1>5, <1>8 DEF Attends
<1>12. (registry[DestRef(j)] = held[j])'
  BY <1>1, <1>5, <1>8
<1> QED
  BY <1>1, <1>5, <1>6, <1>7, <1>9, <1>10, <1>11, <1>12, StepOfOne

\* The tag is pushed with its annotation.
LEMMA AnnotateInv == ASSUME Inv, NEW j \in Jobs, Annotate(j) PROVE Inv'
<1> DEFINE index == Annotated(j)
<1>1. /\ pc[j] = "annotating" /\ NextTag(j)
      /\ registry' = [registry EXCEPT ![DestRef(j)] = index]
      /\ held' = [held EXCEPT ![j] = Absent]
      /\ UNCHANGED <<misses, disturbed, upstream, copying>>
  BY DEF Annotate, Push, Release
<1>2. /\ pc \in [Jobs -> Labels] /\ at \in [Jobs -> Nat]
      /\ held \in [Jobs -> Indexes \cup {Absent}] /\ registry \in [Tags -> Indexes \cup {Absent}]
  BY DEF Inv, TypeOK, CommonTypeOK
<1>3. DestRef(j) \in Tags /\ held[j] \in Indexes /\ Mirrors(DestRef(j), held[j].image)
  BY <1>1, AtWork DEF Inv, Sources, InHand
<1>4. /\ index \in Indexes /\ index # Absent
      /\ index.revision # NoRevision /\ index.image = held[j].image
  BY <1>3, CommonAssumption DEF Indexes, Annotated
<1>5. /\ registry' \in [Tags -> Indexes \cup {Absent}] /\ registry'[DestRef(j)] = index
      /\ \A t \in Tags : t # DestRef(j) => registry'[t] = registry[t]
  BY <1>1, <1>2, <1>3, <1>4
<1>6. /\ held' \in [Jobs -> Indexes \cup {Absent}]
      /\ \A k \in Jobs \ {j} : held'[k] = held[k]
  BY <1>1, <1>2
<1>7. \A t \in Tags : Published(t) => Published(t)'
  BY <1>4, <1>5 DEF Published
<1>8. /\ pc' \in [Jobs -> Labels] /\ at' \in [Jobs -> Nat]
      /\ \A k \in Jobs : at'[k] \in 1 .. Rounds(k) + 1
      /\ pc'[j] \in {"check", "done"} /\ at'[j] >= at[j]
      /\ \A k \in Jobs \ {j} : pc'[k] = pc[k] /\ at'[k] = at[k]
      /\ PositionOf(j)' /\ Leaves(j)'
  BY <1>1, <1>4, <1>5, <1>7, LoopGoesOn
<1>9. TypeOK'
  BY <1>1, <1>5, <1>6, <1>8 DEF Inv, TypeOK, CommonTypeOK
<1>10. Frame(j) /\ InHand(j)'
  BY <1>1, <1>6, <1>8 DEF Frame, InHand
<1>11. ASSUME NEW t \in Tags, registry'[t] # registry[t]
       PROVE  /\ Published(t)' /\ Mirrors(t, registry[t].image)'
              /\ registry'[t].revision # NoRevision
  <2>1. t = DestRef(j) /\ registry'[t] = index
    BY <1>5, <1>11
  <2>2. PICK image : image = held[j].image
    OBVIOUS
  <2>3. Mirrors(t, image)'
    BY <1>3, <1>9, <1>10, <2>1, <2>2, OthersStay
  <2>4. Mirrors(t, registry[t].image)'
    BY <1>4, <2>1, <2>2, <2>3 DEF Mirrors
  <2> QED
    BY <1>4, <2>1, <2>4 DEF Published
<1>12. \A t \in Tags : Attends(j, t) => registry'[t].revision # NoRevision
  BY <1>1, <1>4, <1>5 DEF Attends
<1> QED
  BY <1>1, <1>8, <1>9, <1>10, <1>11, <1>12, StepOfOne

\* A job fails.
LEMMA FailInv == ASSUME Inv, NEW j \in Jobs, FailMirror(j) PROVE Inv'
<1>1. /\ pc[j] \notin Resting /\ pc' = [pc EXCEPT ![j] = "failed"]
      /\ held' = [held EXCEPT ![j] = Absent] /\ copying' = [copying EXCEPT ![j] = Absent]
      /\ UNCHANGED <<registry, at, misses, disturbed, upstream>>
  BY DEF FailMirror, Fail, Goto, Release
<1>2. /\ pc \in [Jobs -> Labels] /\ at \in [Jobs -> Nat] /\ held \in [Jobs -> Indexes \cup {Absent}]
      /\ copying \in [Jobs -> Images \cup {Absent}]
  BY DEF Inv, TypeOK, CommonTypeOK
<1>3. /\ pc' \in [Jobs -> Labels] /\ pc'[j] = "failed"
      /\ held' \in [Jobs -> Indexes \cup {Absent}] /\ copying' \in [Jobs -> Images \cup {Absent}]
      /\ \A k \in Jobs \ {j} : pc'[k] = pc[k] /\ held'[k] = held[k] /\ copying'[k] = copying[k]
  BY <1>1, <1>2 DEF Labels
<1>4. TypeOK'
  BY <1>1, <1>3 DEF Inv, TypeOK, CommonTypeOK
<1>5. Frame(j)
  BY <1>1, <1>2, <1>3 DEF Frame
<1>6. PositionOf(j)' /\ InHand(j)' /\ Leaves(j)'
  BY <1>1, <1>3 DEF Inv, Positions, PositionOf, MirrorLabels, InHand, Cared, Leaves, Published
<1>7. (\A t \in Tags : Attends(j, t)') /\ pc'[j] \in Resting
  BY <1>3 DEF Attends, Resting
<1> QED
  BY <1>1, <1>3, <1>4, <1>5, <1>6, <1>7, StepOfOne DEF Resting

-----------------------------------------------------------------------------

\* The invariant is kept by every step.
LEMMA StepInv == Inv /\ [Next]_vars => Inv'
<1> SUFFICES ASSUME Inv, [Next]_vars PROVE Inv'
  OBVIOUS
<1>1. ASSUME NEW j \in Jobs, Work(j) \/ FailMirror(j) PROVE Inv'
  BY <1>1, BeginInv, CheckInv, ReadInv, WriteInv, FetchInv, AnnotateInv, FailInv DEF Work
<1>2. ASSUME NEW t \in Tags \ {Latest}, UpstreamMoves(t) PROVE Inv'
  BY <1>2, MoveInv
<1>3. CASE UNCHANGED vars
  <2>1. TypeOK'
    BY <1>3 DEF vars, common, Inv, TypeOK, CommonTypeOK
  <2>2. Positions' /\ Sources' /\ Alone' /\ Cared'
    BY <1>3 DEF vars, common, Inv, Positions, PositionOf, Sources, InHand, Mirrors, Alone,
       Undisturbed, Cared, Leaves, Attends, Published, DestRef
  <2> QED
    BY <2>1, <2>2 DEF Inv
<1> QED
  BY <1>1, <1>2, <1>3 DEF Next

\* The inductive invariant of publish-mirror.sh.
THEOREM Invariance == Spec => []Inv
<1> QED
  BY InitInv, StepInv, PTL DEF Spec

\* The types of the registry and of the jobs.
THEOREM TypeCorrect == Spec => []TypeOK
<1>1. Inv => TypeOK
  BY DEF Inv
<1> QED
  BY <1>1, Invariance, PTL

\* However jobs overlap and upstream tags move, a mirrored tag holds what upstream
\* published under its name, and latest what it published under a first tag.
THEOREM MirrorsKeepTheirSource == Spec => []MirrorsHoldTheirSource
<1>1. Inv => MirrorsHoldTheirSource
  BY DEF Inv, Sources, Mirrors, MirrorsHoldTheirSource
<1> QED
  BY <1>1, Invariance, PTL

\* When all jobs have ended and none has failed, no tag is left without its annotation.
THEOREM AllTagsAreAnnotated == Spec => []AllAnnotatedAtRest
<1>1. ASSUME Inv PROVE AllAnnotatedAtRest
  <2> SUFFICES ASSUME \A k \in Jobs : pc[k] \in {"waiting", "done"},
                      NEW j \in Jobs, pc[j] = "done",
                      NEW t \in Targets(j)
               PROVE  Published(t) /\ registry[t].revision # NoRevision
    BY DEF AllAnnotatedAtRest
  <2>1. Leaves(j) /\ at[j] = Rounds(j) + 1
    BY <1>1 DEF Inv, Cared, Positions, PositionOf
  <2>2. t \in Tags /\ Published(t)
    BY <2>1, ListFacts, CommonAssumption DEF Leaves, Targets
  <2>3. \A k \in Jobs : ~Attends(k, t)
    BY DEF Attends
  <2> QED
    BY <1>1, <2>2, <2>3 DEF Inv, Cared
<1> QED
  BY <1>1, Invariance, PTL

\* While one job runs at a time and no inspection misses a tag, no tag but latest ever
\* gets another image.
THEOREM MirroredTagsStay == Spec => MirroredTagsKeepTheirImage
<1> DEFINE Step == \A t \in Tags \ {Latest} :
              (Published(t) /\ ~disturbed') => registry'[t].image = registry[t].image
<1>1. ASSUME Inv, [Next]_vars PROVE [Step]_vars
  <2> SUFFICES ASSUME Next, NEW t \in Tags \ {Latest}, Published(t), ~disturbed'
               PROVE  registry'[t].image = registry[t].image
    BY <1>1
  <2>1. CASE registry' = registry
    BY <2>1
  <2>2. ASSUME NEW j \in Jobs, WriteCopy(j) PROVE registry'[t].image = registry[t].image
    <3>1. /\ pc[j] = "write" /\ ~disturbed /\ registry \in [Tags -> Indexes \cup {Absent}]
          /\ registry' = [registry EXCEPT ![DestRef(j)] = [image |-> copying[j], revision |-> NoRevision]]
      BY <1>1, <2>2 DEF WriteCopy, Push, Inv, TypeOK, CommonTypeOK
    <3>2. DestRef(j) # t
      BY <1>1, <3>1 DEF Inv, Alone, Undisturbed, Resting
    <3> QED
      BY <3>1, <3>2
  <2>3. ASSUME NEW j \in Jobs, Annotate(j) PROVE registry'[t].image = registry[t].image
    <3>1. /\ pc[j] = "annotating" /\ ~disturbed /\ registry \in [Tags -> Indexes \cup {Absent}]
          /\ registry' = [registry EXCEPT ![DestRef(j)] = [held[j] EXCEPT !.revision = j]]
      BY <1>1, <2>3 DEF Annotate, Push, Annotated, Inv, TypeOK, CommonTypeOK
    <3>2. /\ DestRef(j) = t => registry[t] = held[j]
          /\ held[j] \in Indexes
      BY <1>1, <3>1 DEF Inv, Alone, Undisturbed, Resting, Sources, InHand
    <3> QED
      BY <3>1, <3>2 DEF Indexes
  <2>4. \/ registry' = registry
        \/ \E j \in Jobs : WriteCopy(j) \/ Annotate(j)
    BY DEF Next, Work, BeginMirror, CheckTag, ReadUpstream, FetchForAnnotation, FailMirror,
       Fail, UpstreamMoves, common
  <2> QED
    BY <2>1, <2>2, <2>3, <2>4
<1> QED
  BY <1>1, Invariance, PTL DEF Spec, MirroredTagsKeepTheirImage
=============================================================================
