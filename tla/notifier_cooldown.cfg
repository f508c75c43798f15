CONSTANTS
  None = None
  Mqtt = mqtt
  alice = alice
  bob = bob
  phone1 = phone1
  phone2 = phone2
  driveway = driveway
  porch = porch
  r1 = r1
  r2 = r2
  Recipients = {alice, bob}
  Targets = {phone1, phone2}
  OwnerOf <- MCOwnerOf
  AllowCritical = {alice}
  Restricted = {bob}
  Reviews = {r1, r2}
  CameraOf <- MCOneCamera
  Cameras = {driveway}
  HasEvent = {}
  NumRules = 2
  Rules <- MCGlobalRules
  MaxContent = 2
  MayMatch <- MCAlwaysMatch
  Descriptions = {}
  Holds = {h1}
  HasPrimary = TRUE
  Resends = FALSE
  WindowOutlivesSend = TRUE
  Expirable = {"cooldown"}
  MaxArrivals = 3
  MaxFaults = 0
  MaxSendFaults = 1
  MaxExpiries = 1
  MaxRestarts = 0
SPECIFICATION Spec
INVARIANTS OneReviewPerWindow
CHECK_DEADLOCK FALSE
