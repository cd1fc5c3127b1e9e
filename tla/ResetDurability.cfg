SPECIFICATION Spec
CONSTANTS
  auth = auth
  op = op
  route = route
  authRow = authRow
  opRow = opRow
  modelRow = modelRow
  Key = {route}
  Row = {modelRow}
  RowOf <- RouteOnly
  Timed = {}
  ModelRows = {modelRow}
  Fenced = {}
  Resettable = {route}
  Outcomes <- MCOutcomes
  Cause <- MCCause
  LimitCause = {}
  BaseDelay <- MCBaseDelay
  MaxDelay = 4
  Capacity = 1
  MaxRecords = 1
  MaxAttempts = 2
  MaxTime = 3
  MaxChanges = 2
  MaxOutages = 1
INVARIANTS
  ResetsAreDurable
CHECK_DEADLOCK FALSE
