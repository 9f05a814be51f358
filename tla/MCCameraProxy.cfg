CONSTANTS
    core_task = core_task
    watcher = watcher
    c1 = c1
    c2 = c2
    none = none
    person = person
    video1 = video1
    Tasks = {core_task, watcher, c1, c2}
    Core = core_task
    Children = {watcher}
    Callers = {c1, c2}
    Watcher = watcher
    ObjectTypes = {person}
    NoType = none
    MaxEvents = 2
    Streams = {video1}
    NoStream = none
    TrailerMax = 20
    TrailerRate = 2
    SyncPeriod = 5
    TagLists <- MCTagLists
    Times <- MCTimes
    StartTime = 3
SPECIFICATION FairSpec
CHECK_DEADLOCK FALSE
INVARIANTS
    TypeOK
    NothingOutlivesItsSession
    CopiesWhatItReads
    TrailersFollowTags
    DiesOnlyOfItsClock
PROPERTIES
    IdsAreFresh
    KeepsTheLog
    NoPipelineIsForgotten
    SessionsEnd
    RequestsAreAnswered
