CONSTANTS
  t1 = t1
  t2 = t2
  t3 = t3
  t4 = t4
  t5 = t5
  t6 = t6
  Timers = {t1, t2, t3, t4, t5, t6}
  NULL = NULL
  Cap = 6
  Modulus = 8
  Whens <- FewWhens
SYMMETRY TimerSymmetry
SPECIFICATION Spec
INVARIANTS
  TypeOK
  NoTimerTwice
  InnerRemovalRemoves
  AdditionKeepsOrder
  TopRemovalKeepsOrder
PROPERTY ImplementsSet
