\* Every decision that reads no state, over small sets of inputs.
CONSTANTS
  Minutes = 2
  DefaultHoldoff = 5
  ProbeBudget = 15
  ClipProbe = 7
  StillProbe = 4
  PadBefore = 2
  PadAfter = 3
  MaxSpan = 20
  Person = person
  Stranger = stranger
  Unreadable = unreadable
  None = none
  front = front
  back = back
  ann = ann
  car = car
  lock = lock
  away = away
  Inputs <- MCInputs
  Contexts <- MCContexts
  Faces = {ann, stranger}
  Entities = {lock}
SPECIFICATION Spec
INVARIANTS
  FailingOpenNeverSilences
  StrangersNeverSilence
  FacesAreWaitedFor
  WhatStartsCanSend
  WindowIsAnArc
  WhatIsThereIsShown
  LinksAreServed
CHECK_DEADLOCK FALSE
