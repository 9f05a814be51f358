\* Four jobs of one image: what the tag of a version holds.
CONSTANTS
    first = first
    rebuild = rebuild
    next = next
    wrong = wrong
    v1 = v1
    v2 = v2
    rtspcap4 = rtspcap4
    Jobs = {first, rebuild, next, wrong}
    Images = {first, rebuild, next, wrong}
    Tags = {latest, v1, v2, rtspcap4}
    Latest = latest
    Plan <- MCPlan
    StaticTags <- NoStaticTags
    MaxMisses = 0
    Absent = Absent
    NoRevision = NoRevision
    NoRelease = NoRelease
SPECIFICATION Spec
CHECK_DEADLOCK FALSE
INVARIANT
    ReleaseTagsAreTiedToTheirVersion
