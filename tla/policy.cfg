CONSTANTS
  alice = alice
  bob = bob
  HasPrimary = TRUE
  Resends = TRUE
  Callers = {p1, p2}
  Recipients = {alice, bob}
  Cameras = {porch}
  MaxPerHour <- MCTwo
  LastHour = 1
  HourName <- MCClock
  MaxAsks = 5
  MaxFaults = 1
  MaxSendFaults = 1
  MaxExpiries = 1
  MaxRestarts = 1
  MaxLapses = 1
SPECIFICATION Spec
INVARIANTS HeldOnlyPastTheCap CapHolds DigestsAreSpaced
PROPERTIES UndisturbedHeldIsTold
CHECK_DEADLOCK FALSE
