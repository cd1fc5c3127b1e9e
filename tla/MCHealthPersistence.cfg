SPECIFICATION Spec
CONSTANTS
  auth = auth
  op = op
  route = route
  authRow = authRow
  opRow = opRow
  modelRow = modelRow
  Key = {auth}
  Row = {authRow}
  RowOf <- AuthOnly
  Timed = {authRow}
  ModelRows = {}
  Fenced = {auth}
  Resettable = {auth}
  Outcomes <- MCOutcomes
  Cause <- MCCause
  LimitCause = {}
  BaseDelay <- MCBaseDelay
  MaxDelay = 4
  Capacity = 1
  MaxRecords = 1
  MaxAttempts = 2
  MaxTime = 3
  MaxChanges = 1
  MaxOutages = 2
INVARIANTS
  TypeOK
  RestoredIsCurrent
  AuthEvidenceIsKept
PROPERTIES
  GateNeverRegresses
  TimedRowsNeverRegress
  RetriesEnd
CHECK_DEADLOCK FALSE
