CONSTANTS
  NumTimers = 1
  NULL = NULL
  Cap = 4
  Modulus = 16
  MaxMsg = 1
  Kinds <- Periodics
  Timeouts = {1, 2}
  Leftover = {1}
  Protocol <- CarefulProtocol
  Ctors = {"tasks"}
  Calm = TRUE
  MaxTime = 3
  MaxCallbacks = 2
  MaxCalls = 2
SPECIFICATION FairSpec
INVARIANTS
  WantedIsPending
  NoExtraCall
PROPERTIES
  FiresAfterTimeout
  CalledIsFreed
CHECK_DEADLOCK FALSE
