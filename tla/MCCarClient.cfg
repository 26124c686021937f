SPECIFICATION FairSpec
CONSTANTS
  ConnectionAttempts = 5
  LossBound = 2
  ReportBound = 2
INVARIANTS
  KnownThreadsEnd
PROPERTIES
  QuitEnds
  LostCarIsSought
  StaleValuesAreReplaced
CHECK_DEADLOCK FALSE
