SPECIFICATION FairSpec
CONSTANTS
    Roles = {"root", "child", "reader"}
    EffectiveWindow = 20
    StableTokens = 2
    ToolCap = 5
    OtherCap = 4
    MinTruncated = 3
    TruncSlack = 1
    MarkerTokens = 1
    PrefaceTokens = 1
    Keep = 1
    Sizes = {1, 5}
    InjectClasses = {0, 3}
    ToolClasses = {0, 2}
    MaxBlocks = 5
    MaxSteers = 1
    WindowTokens = 24
    MinReserve = 4
    Limit = 30
CHECK_DEADLOCK FALSE
INVARIANTS SentIsHonest
PROPERTIES ImplementsWindowFloor PressureSettles
