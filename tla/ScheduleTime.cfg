\* The clock runs from 4 to 7; windows begin before, in and after it.
SPECIFICATION Spec
CONSTANTS
  Width = 16
  Start = 4
  MaxTime = 7
  Instants = {3, 4, 5, 6, 8}
  Durations = {0, 1, 3}
  Leftover = {15}
  RandMax = 5
INVARIANTS
  TypeOK
  FuzzyWithin
  DrawnUnlessLate
\* A division by zero ends the process.
CHECK_DEADLOCK FALSE
