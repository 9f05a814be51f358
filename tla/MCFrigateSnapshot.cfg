\* Three Frigate detections: the snapshot that the controller is told of.
CONSTANTS
    core_task = core_task
    h1 = h1
    h2 = h2
    h3 = h3
    none = none
    person = person
    personLabel = personLabel
    dogLabel = dogLabel
    d1 = d1
    d2 = d2
    d3 = d3
    Tasks = {core_task, h1, h2, h3}
    Core = core_task
    Children = {h1, h2, h3}
    ObjectTypes = {person}
    NoType = none
    MaxEvents = 4
    Detections = {d1, d2, d3}
    Labels = {personLabel, dogLabel}
    LabelOf <- MCLabelOf
    TypeOf <- MCTypeOf
    NoDetection = NoDetection
SPECIFICATION Spec
CHECK_DEADLOCK FALSE
PROPERTY
    SnapshotReadyAtEnd
