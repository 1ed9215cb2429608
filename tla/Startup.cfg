SPECIFICATION Spec

CONSTANTS
  Base = 4
  MaxLaunches = 2
  Slots <- MCSlots
  QueueSize = 1
  Unsigneds <- MCUnsigneds
  Strings <- MCStrings

INVARIANTS
  TypeOK
  DeliversOwn
  FiresOwn
  FailsForACause
  StreamsReadBack

PROPERTY
  Served

