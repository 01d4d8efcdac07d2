SPECIFICATION Spec
CONSTANTS
    Models = {"m1", "m2"}
    Ghost = "m3"
    Slots = {"p1", "p2"}
    Strangers <- MCStrangers
    Deadline = 1
    MaxEvents = 3
    MaxRequests = 3
    MaxCrashes = 1
CHECK_DEADLOCK FALSE
INVARIANTS AnsweredAsNamed
PROPERTY ServersAccountedFor
