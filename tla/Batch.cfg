CONSTANTS
    Manifests <- MCManifests
    Hosts = {"h", "w"}
    Exposed = {"page", "web", "read", "glob", "grep", "write", "edit", "bash", "recall", "srv"}
    Autonomy = 4
    MaxRequests = 2
    MaxNotes = 1
    Deadline = 1
    Cap = 1
    Scripts <- MCScripts
    FirstEgress <- MCEgress
    FirstFloors = {0, 3}
    d1 = d1
    d2 = d2
    Docs = {d1, d2}
    NoDoc = NoDoc
    Layer <- MCLayer
    Answers <- MCAnswers
    MaxPooled = 1
    MaxCloses = 1
    MaxStray = 1
    MaxStack = 2
    MaxText = 2
    MinMarked = 1
    MinKept = 1
    MinFarm = 1
    MaxEntry = 2
    MaxTotal = 2
    MaxChapters = 1
    MaxShared = 2
    MaxRows = 1
    PerPage = 1
    MaxSources = 2
    FieldCap = 20
    MaxReply = 3
    WindowLines = 2
    WindowBytes = 6
    Prefix = 1
    MaxReadBytes = 9
    WalkCap = 2
    MaxMatchLines = 3
    MaxFileLines = 5
    MaxHeader = 4
    MaxPhrases = 2
    MaxBody = 2
    DiscoveryLimit = 2
    Budget = 4
    MaxDescription = 2
    MaxCache = 1
    MaxAnswers = 2
    MaxSwaps = 1
SPECIFICATION Spec
CHECK_DEADLOCK FALSE
INVARIANTS OwnAnswer NothingRaw ActsOnlyWithLeave PoolInvisible ReadAsWritten
PROPERTY HeldOnlyByOthers
