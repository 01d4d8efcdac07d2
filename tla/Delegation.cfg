CONSTANTS
    r1 = r1
    r2 = r2
    r3 = r3
    Runs = {r1, r2, r3}
    Roots = {r1}
    NoRun = NoRun
    Tools = {"run", "web", "ask"}
    RootBudget <- MCRootBudget
    MinCall = 1
    MinChild = 1
    MaxPrompt = 1
    Costs = {1, 3}
    Requests <- MCRequests
    MaxCrashes = 1
SPECIFICATION Spec
SYMMETRY Symmetry
CHECK_DEADLOCK FALSE
INVARIANTS DelegationBounded TaintEndsDelegation OrphansSettled
PROPERTY FinishedStays
