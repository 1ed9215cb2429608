CONSTANTS
  NumTimers = 2
  NULL = NULL
  Cap = 4
  Modulus = 16
  MaxMsg = 1
  Kinds <- OneShots
  Timeouts = {1, 2}
  Leftover = {1}
  Protocol <- CarefulProtocol
  Ctors <- BothCtors
  Calm = TRUE
  MaxTime = 2
  MaxCallbacks = 3
  MaxCalls = 1
SPECIFICATION FairSpec
INVARIANTS
  TypeOK
  WantedIsPending
  TriggersLiveCallback
  NoExtraCall
  FreesOnce
PROPERTIES
  CalledWhenDue
  WantedIsCalled
  CalledIsFreed
CHECK_DEADLOCK FALSE
