CONSTANTS
  t1 = t1
  t2 = t2
  t3 = t3
  t4 = t4
  Timers = {t1, t2, t3, t4}
  NULL = NULL
  Cap = 4
  Modulus = 8
  Whens <- FewWhens
SYMMETRY TimerSymmetry
SPECIFICATION Spec
INVARIANT RemovalRemoves
