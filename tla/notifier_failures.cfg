CONSTANTS
  None = None
  Mqtt = mqtt
  alice = alice
  bob = bob
  phone1 = phone1
  phone2 = phone2
  driveway = driveway
  porch = porch
  r1 = r1
  r2 = r2
  Recipients = {alice, bob}
  Targets = {phone1, phone2}
  OwnerOf <- MCOwnerOf
  AllowCritical = {alice}
  Restricted = {bob}
  Reviews = {r1}
  CameraOf <- MCOneCamera
  Cameras = {driveway}
  HasEvent = {r1}
  NumRules = 2
  Rules <- MCPlainRules
  MaxContent = 2
  MayMatch <- MCMayMatch
  Descriptions = {d1}
  Holds = {}
  HasPrimary = TRUE
  Resends = TRUE
  WindowOutlivesSend = FALSE
  Expirable = {"seen", "cooldown", "review", "event", "description"}
  MaxArrivals = 2
  MaxFaults = 1
  MaxSendFaults = 1
  MaxExpiries = 1
  MaxRestarts = 1
SPECIFICATION Spec
INVARIANTS TypeOK RecordIsShown
PROPERTIES AudienceSpec
CHECK_DEADLOCK FALSE
