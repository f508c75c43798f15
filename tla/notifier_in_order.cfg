CONSTANTS
  None = None
  Mqtt = mqtt
  alice = alice
  bob = bob
  phone1 = phone1
  phone2 = phone2
  driveway = driveway
  porch = porch
  r1 = r1
  r2 = r2
  Recipients = {alice, bob}
  Targets = {phone1, phone2}
  OwnerOf <- MCOwnerOf
  AllowCritical = {alice}
  Restricted = {bob}
  Reviews = {r1, r2}
  CameraOf <- MCOneCamera
  Cameras = {driveway}
  HasEvent = {r1}
  NumRules = 3
  Rules <- MCQuietRules
  MaxContent = 2
  MayMatch <- MCAlwaysMatch
  Descriptions = {d1}
  Holds = {}
  HasPrimary = TRUE
  Resends = FALSE
  WindowOutlivesSend = FALSE
  Expirable = {}
  MaxArrivals = 4
  MaxFaults = 0
  MaxSendFaults = 0
  MaxExpiries = 0
  MaxRestarts = 0
SPECIFICATION Spec
INVARIANTS NothingLeftStale DescriptionIsShown
PROPERTIES SuppressedOnlyByAPush
CHECK_DEADLOCK FALSE
