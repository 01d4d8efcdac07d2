CONSTANTS
  r1 = r1
  NoRun = NoRun
  Runs = {r1}
  Cancellable = {r1}
  Metered = {r1}
  MaxSteps = 2
  TokenCap = 3
  MinCall = 1
  CallCosts = {1}
  ChildCosts = {0, 1}
  MaxAuto = 1
  InjectClasses = {3}
  EmptyQueryClasses = {3}
  MaxSteers = 1
  MaxCrashes = 1
  MaxAppendFailures = 1
SPECIFICATION FairSpec
INVARIANTS StopIsPromptAndPaid NoPhantomLiveRun
PROPERTY TurnEnds
