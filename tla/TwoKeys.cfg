SPECIFICATION Spec
CONSTANTS
  auth = auth
  op = op
  route = route
  authRow = authRow
  opRow = opRow
  modelRow = modelRow
  Key = {auth, route}
  Row = {authRow, modelRow}
  RowOf <- AuthAndRoute
  Timed = {authRow}
  ModelRows = {modelRow}
  Fenced = {auth}
  Resettable = {auth, route}
  Outcomes <- MCOutcomes
  Cause <- MCCause
  LimitCause = {}
  BaseDelay <- MCBaseDelay
  MaxDelay = 4
  Capacity = 1
  MaxRecords = 1
  MaxAttempts = 2
  MaxTime = 3
  MaxChanges = 1
  MaxOutages = 0
PROPERTIES
  GateNeverRegresses
CHECK_DEADLOCK FALSE
