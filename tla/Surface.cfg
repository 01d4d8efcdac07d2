SPECIFICATION SurfaceSpec
CONSTANTS
    Letters = {"y", "n", "o"}
    Commands = {"/runs", "/quit", "m1", "m2"}
    Bodies = {"long1", "long2", "word"}
    Size <- MCSize
    Words = 4
    Models = {"m1", "m2"}
    MaxSends = 2
    MaxPrompts = 2
    MaxBursts = 4
    MaxInput = 2
    MaxPastes = 2
    MaxFaults = 1
    Bursts <- MCBursts
    Edits <- MCEdits
CHECK_DEADLOCK FALSE
INVARIANTS AnswersAreTheirs SentIsMeant
PROPERTY TurnReachesScreen
