\* Three mirror jobs of one image, upstream tags that move, one inspection that misses.
\* Every job ends, so the system stops.
CONSTANTS
    nightly = nightly
    push = push
    bump = bump
    old = old
    new = new
    Jobs = {nightly, push, bump}
    Tags = {latest, old, new}
    Latest = latest
    Images <- MCImages
    Lists <- MCLists
    NamesLatest <- MCNamesLatest
    MaxMisses = 1
    MaxMoves = 1
    Absent = Absent
    NoRevision = NoRevision
SPECIFICATION Spec
CHECK_DEADLOCK FALSE
INVARIANTS
    TypeOK
    MirrorsHoldTheirSource
    AllAnnotatedAtRest
PROPERTIES
    MirroredTagsKeepTheirImage
