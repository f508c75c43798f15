CONSTANTS
  p1 = p1
  p2 = p2
  p3 = p3
  Callers = {p1, p2, p3}
  Entities = {"alarm"}
  None = None
  EntityTTL = 3
  FailTTL = 2
  SolarTTL = 4
  LookupTimeout = 1
  MaxClock = 7
SPECIFICATION Spec
SYMMETRY MCSymmetry
INVARIANTS StateIsRecent WaitIsBounded
PROPERTIES SolarAnswersItsBest
CHECK_DEADLOCK FALSE
