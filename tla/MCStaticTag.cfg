\* Four jobs of one image with a static tag: what later runs do to it.
CONSTANTS
    first = first
    rebuild = rebuild
    next = next
    wrong = wrong
    v1 = v1
    v2 = v2
    rtspcap4 = rtspcap4
    Jobs = {first, rebuild, next, wrong}
    Images = {first, rebuild, next, wrong}
    Tags = {latest, v1, v2, rtspcap4}
    Latest = latest
    Plan <- MCPlan
    StaticTags <- MCStaticTags
    MaxMisses = 0
    Absent = Absent
    NoRevision = NoRevision
    NoRelease = NoRelease
SPECIFICATION Spec
CHECK_DEADLOCK FALSE
PROPERTY
    PublishedTagsAreImmutable
