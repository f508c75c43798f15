CONSTANTS
  None = None
  Mqtt = mqtt
  alice = alice
  bob = bob
  phone1 = phone1
  phone2 = phone2
  driveway = driveway
  porch = porch
  r1 = r1
  r2 = r2
  Recipients = {alice, bob}
  Targets = {phone1, phone2}
  OwnerOf <- MCOwnerOf
  AllowCritical = {alice}
  Restricted = {bob}
  Reviews = {r1}
  CameraOf <- MCOneCamera
  Cameras = {driveway}
  HasEvent = {}
  NumRules = 2
  Rules <- MCHeldRules
  MaxContent = 2
  MayMatch <- MCMayMatch
  Descriptions = {}
  Holds = {h1, h2}
  HasPrimary = TRUE
  Resends = FALSE
  WindowOutlivesSend = FALSE
  Expirable = {}
  MaxArrivals = 4
  MaxFaults = 0
  MaxSendFaults = 0
  MaxExpiries = 0
  MaxRestarts = 0
SPECIFICATION FairSpec
INVARIANTS HoldsAreTracked HoldKeepsNewest
PROPERTIES HeldIsDecided
CHECK_DEADLOCK FALSE
