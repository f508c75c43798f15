\* Three requests for one slot, with links that expire before, while and after
\* they wait.
CONSTANTS
  q1 = q1
  q2 = q2
  q3 = q3
  Requests = {q1, q2, q3}
  Slots = 1
  SlotWait = 1
  HeaderTimeout = 1
  Drain = 1
  Expiries = {1, 4}
  MaxArrival = 1
  MaxClock = 3
SPECIFICATION Spec
INVARIANTS
  SlotsAreKept
  KeptNoLonger
PROPERTIES
  NobodyWaitsForEver
CHECK_DEADLOCK FALSE
