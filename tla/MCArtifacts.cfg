\* Two threads upload and download artifacts; the server restarts.
CONSTANTS
    Threads = {t1, t2}
    app = app
    appDelta = appDelta
    stable = stable
    beta = beta
    x = x
    y = y
    Names <- MCNames
    Above <- MCAbove
    Channels = {stable, beta}
    Blocks = {x, y}
    Documents <- MCDocuments
    Text <- MCText
    Requests <- ArtifactRequests
    MaxUpload = 2
    ManifestLimit = 2
    MaxOrphans = 1
    Absent = Absent
    NoFile = NoFile
    NoName = NoName
    NoChecksum = NoChecksum
    NotJson = NotJson
    NoRange = NoRange
    NoRequest = NoRequest
    Blank = Blank
    Garbage = Garbage
    Unsatisfiable = Unsatisfiable
SPECIFICATION FairSpec
INVARIANTS
    TypeOK
    PromisesKept
    OnlyCheckedUploads
    DoneHandlersCleanUp
    RangesAreExact
PROPERTIES
    ImplementsStore
    RequestsEnd
