\* A Reolink camera with up to four motion events.  The process may exit.
CONSTANTS
    core_task = core_task
    poller = poller
    none = none
    person = person
    Tasks = {core_task, poller}
    Core = core_task
    Children = {poller}
    Poller = poller
    ObjectTypes = {person}
    NoType = none
    MaxEvents = 4
SPECIFICATION FairSpec
CHECK_DEADLOCK FALSE
INVARIANTS
    TypeOK
    SessionsStartStill
    OpenEventsAreOwned
PROPERTIES
    KeepsTheLog
    EndedMotionIsStopped
