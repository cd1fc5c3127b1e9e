SPECIFICATION Spec
CONSTANTS
  r1 = r1
  r2 = r2
  c1 = c1
  p1 = p1
  create = create
  oauth = oauth
  q1 = q1
  q2 = q2
  q3 = q3
  Route = {r1, r2}
  Connection = {c1}
  Provider = {p1}
  Operation = {create}
  Flow = {oauth}
  Request = {q1, q2}
  ConnectionOf <- SharedConnection
  ProviderOf <- OneProvider
  FlowOf <- OneFlow
  Outcome <- MCOutcome
  Cause <- MCCause
  LimitCause <- MCLimitCause
  BaseDelay <- MCBaseDelay
  MaxDelay = 2
  Admission = TRUE
  MaxTime = 3
  MaxChanges = 1
INVARIANTS
  TypeOK
  GenerationFence
  TrialsAreHalfOpen
  SuppressionIsCurrent
PROPERTIES
  RotationSparesOperational
  LimitSurvivesSuccess
  InvalidIsSticky
SYMMETRY RequestSymmetry
CHECK_DEADLOCK FALSE
