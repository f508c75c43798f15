\* Every backend, two goroutines, three messages, a lost answer and a deletion.
CONSTANTS
  d = d
  t = t
  Senders = {d, t}
  MaxVersions = 3
  MaxPosts = 4
  MaxLost = 1
  MaxDeleted = 1
SPECIFICATION Spec
INVARIANTS
  OneMessage
  RingsOnce
PROPERTIES
  PictureStays
  UpdatesAreQuiet
  SendsEnd
CHECK_DEADLOCK FALSE
