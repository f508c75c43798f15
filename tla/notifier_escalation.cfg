CONSTANTS
  None = None
  Mqtt = mqtt
  alice = alice
  bob = bob
  phone1 = phone1
  phone2 = phone2
  driveway = driveway
  porch = porch
  r1 = r1
  r2 = r2
  Recipients = {alice, bob}
  Targets = {phone1, phone2}
  OwnerOf <- MCOwnerOf
  AllowCritical = {alice}
  Restricted = {bob}
  Reviews = {r1, r2}
  CameraOf <- MCCameraOf
  Cameras = {driveway}
  HasEvent = {r1}
  NumRules = 3
  Rules <- MCCriticalRules
  MaxContent = 2
  MayMatch <- MCMayMatch
  Descriptions = {d1}
  Holds = {}
  HasPrimary = TRUE
  Resends = FALSE
  WindowOutlivesSend = FALSE
  Expirable = {"event", "description"}
  MaxArrivals = 4
  MaxFaults = 0
  MaxSendFaults = 0
  MaxExpiries = 1
  MaxRestarts = 0
SPECIFICATION Spec
INVARIANTS RingsAreAccountedFor
PROPERTIES NeverDemoted
CHECK_DEADLOCK FALSE
