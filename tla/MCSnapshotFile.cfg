SPECIFICATION Spec
CONSTANTS
  c1 = c1
  c2 = c2
  c3 = c3
  t1 = t1
  t2 = t2
  Calls = {c1, c2, c3}
  TempNames = {t1, t2}
  TempOf <- MCTempOf
  Dest = dest
  None = none
INVARIANTS
  DestinationIsWhole
  ResultIsTrue
PROPERTIES
  NeverReplaced
CHECK_DEADLOCK FALSE
