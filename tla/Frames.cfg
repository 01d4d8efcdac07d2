SPECIFICATION WatchSpec
CONSTANTS
    MaxFrames = 2
    MaxPushes = 4
    MaxTurns = 2
    MaxRestarts = 1
    Letters = {"c"}
    Commands = {}
    Bodies = {"p"}
    Size <- MCSize
    Words = 4
    Bursts <- MCBursts
    MaxBursts = 2
    MaxEvents = 4
    MaxFaults = 1
    NoticePolls = 2
    MaxSteer = 2
CHECK_DEADLOCK FALSE
INVARIANTS WindowIsCurrent RequestsAreTheirs
PROPERTIES NoticeFades
