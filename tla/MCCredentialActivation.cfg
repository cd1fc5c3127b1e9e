SPECIFICATION Spec
CONSTANTS
  Requests = 2
  MaxAttempts = 2
  MaxChanges = 1
  MaxFaults = 2
INVARIANTS
  TypeOK
  ActiveIsServed
  GatesFollowServing
  LeaseIsCoherent
PROPERTIES
  ExchangeIsSingle
  LineageIsUnbroken
  JobsSettle
CHECK_DEADLOCK FALSE
