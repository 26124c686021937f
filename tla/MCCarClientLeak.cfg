SPECIFICATION Spec
CONSTANTS
  ConnectionAttempts = 5
  LossBound = 1
  ReportBound = 1
INVARIANTS
  NoThreadOutlivesClient
CHECK_DEADLOCK FALSE
