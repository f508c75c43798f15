\* Every configuration, two connections to the broker, a request per listener
\* and an audit write.
CONSTANTS
  reviews = reviews
  updates = updates
  Topics = {reviews, updates}
  MaxSessions = 2
  MaxRequests = 1
  MaxWrites = 1
SPECIFICATION Spec
INVARIANTS
  ReadyMirrorsBroker
  CleanExitCutsNothing
PROPERTIES
  EndsWhenItShould
  SchemaComes
CHECK_DEADLOCK FALSE
