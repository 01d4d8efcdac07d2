CONSTANTS
  r1 = r1
  r2 = r2
  NoRun = NoRun
  Runs = {r1, r2}
  Cancellable = {}
  Metered = {}
  MaxSteps = 2
  TokenCap = 2
  MinCall = 1
  CallCosts = {1}
  ChildCosts = {0}
  MaxAuto = 1
  InjectClasses = {0, 3}
  EmptyQueryClasses = {3}
  MaxSteers = 2
  MaxCrashes = 1
  MaxAppendFailures = 0
  Drivers <- MCDrivers
  Frames <- MCFrames
  MaxFrames = 4
  MaxCalls = 2
  MaxAttempts = 2
SPECIFICATION ConversationSpec
SYMMETRY RunSymmetry
CHECK_DEADLOCK FALSE
INVARIANTS BlockedStaysBlocked FinishedNeverRedriven SteersRoutedOnce ReplyIsWhole ScreenIsReply
