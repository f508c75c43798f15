\* Two callers of every backend: a key that is claimed, read, written and
\* deleted, and one that counts; long enough for both to expire and come back.
\* Valkey's client sends a command again once, not three times.
CONSTANTS
  c1 = c1
  c2 = c2
  claim = claim
  count = count
  v1 = v1
  Callers = {c1, c2}
  Keys = {claim, count}
  Counters = {count}
  Values = {v1}
  None = None
  Error = Error
  TTL = 2
  MaxClock = 3
  CallTime = 1
  Retries = 1
  SweepAt = 2
  MaxCount = 2
SPECIFICATION Spec
PROPERTIES
  Implements
  WonOnlyIfFree
CHECK_DEADLOCK FALSE
