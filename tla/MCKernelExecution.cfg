SPECIFICATION Spec
CONSTANTS
  root = root
  child = child
  g1 = g1
  g2 = g2
  a = a
  b = b
  Node = {root, child}
  Root = root
  Group = {g1, g2}
  Candidate = {a, b}
  MembersOf <- MCMembersOf
  RoutesOf <- MCRoutesOf
  Keyed = {a, b}
  Replayable = {a}
  Refreshable = {a, b}
  Answer <- MCAnswer
  Retention = 2
  MaxTime = 3
INVARIANTS
  TypeOK
  EffectAtMostOnce
  NoRouteMeansNoEffect
  ResourcesReturned
  EvidenceIsEarned
  ContinuedOnce
PROPERTIES
  Terminates
CHECK_DEADLOCK FALSE
