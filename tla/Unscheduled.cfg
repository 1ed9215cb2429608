CONSTANTS
  NumTimers = 2
  NULL = NULL
  Cap = 4
  Modulus = 16
  MaxMsg = 1
  Kinds <- OneShots
  Timeouts = {1, 2}
  Leftover = {1}
  Protocol <- TestProtocol
  Ctors = {"tasks"}
  Calm = TRUE
  MaxTime = 2
  MaxCallbacks = 2
  MaxCalls = 3
SPECIFICATION Spec
INVARIANTS
  WantedIsPending
CHECK_DEADLOCK FALSE
