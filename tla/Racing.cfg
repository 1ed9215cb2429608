CONSTANTS
  NumTimers = 2
  NULL = NULL
  Cap = 4
  Modulus = 8
  MaxMsg = 1
  Kinds <- OneShots
  Timeouts = {1}
  Leftover = {1}
  Protocol <- TwiceProtocol
  Ctors = {"tasks"}
  Calm = FALSE
  MaxTime = 1
  MaxCallbacks = 2
  MaxCalls = 1
SPECIFICATION FairSpec
INVARIANTS
  AdditionsExclude
  NoExtraCall
  TopIsReadable
PROPERTIES
  SemaphoreReturns
CHECK_DEADLOCK FALSE
