SPECIFICATION Spec
CONSTANTS
  s1 = s1
  s2 = s2
  r1 = r1
  r2 = r2
  Session = {s1, s2}
  Uses <- MCUses
  FirstRows <- MCFirstRows
  Request = {r1, r2}
  Attempt = {r1, r2}
  MaxEntries = 1
  QueueSize = 1
  MaxTroubles = 1
  Buffer = 1
  MaxRestarts = 1
INVARIANTS
  TypeOK
  GoneIsGone
  CountedOnce
  StoppedIsDrained
PROPERTIES
  ImplementsSessionStore
  StopEnds
  InvalidationsAnswered
CHECK_DEADLOCK FALSE
