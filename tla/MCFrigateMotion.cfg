\* Three Frigate detections over sessions that are lost and made again.  The process may
\* exit.
CONSTANTS
    core_task = core_task
    h1 = h1
    h2 = h2
    h3 = h3
    none = none
    person = person
    personLabel = personLabel
    dogLabel = dogLabel
    d1 = d1
    d2 = d2
    d3 = d3
    Tasks = {core_task, h1, h2, h3}
    Core = core_task
    Children = {h1, h2, h3}
    ObjectTypes = {person}
    NoType = none
    MaxEvents = 4
    Detections = {d1, d2, d3}
    Labels = {personLabel, dogLabel}
    LabelOf <- MCLabelOf
    TypeOf <- MCTypeOf
    NoDetection = NoDetection
SPECIFICATION Spec
CHECK_DEADLOCK FALSE
INVARIANTS
    TypeOK
    OneEnder
    OpenEventsAreOwned
    CurrentIsNotOver
PROPERTIES
    KeepsTheLog
