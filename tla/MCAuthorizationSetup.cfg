SPECIFICATION Spec
CONSTANTS
  MaxSessions = 2
  MaxRevisions = 2
  MaxEdits = 1
INVARIANTS
  TypeOK
  DrivenByOne
  CallbacksBelong
PROPERTIES
  EndedStaysEnded
  SessionsEnd
CHECK_DEADLOCK FALSE
