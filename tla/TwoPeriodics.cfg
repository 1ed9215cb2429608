CONSTANTS
  NumTimers = 2
  NULL = NULL
  Cap = 4
  Modulus = 16
  MaxMsg = 1
  Kinds <- Periodics
  Timeouts = {1, 2}
  Leftover = {1}
  Protocol <- CarefulProtocol
  Ctors = {"tasks"}
  Calm = TRUE
  MaxTime = 2
  MaxCallbacks = 2
  MaxCalls = 0
SPECIFICATION Spec
INVARIANTS
  DoneIsRemoved
CHECK_DEADLOCK FALSE
