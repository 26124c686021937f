SPECIFICATION Spec
CONSTANTS
  bt = bt
  mgmt = mgmt
  Tasks <- MCTasks
  Amounts <- MCAmounts
  ClientWrites <- MCWrites
  QueueBound = 1
  ClockRange = 3
  DisconnectionTimeout = 1
INVARIANTS
  TypeOK
  HaltedWhenClosed
  LateStopHitsNobody
  TaskUsesInitialisedServer
  ReportIsOfThisSession
  SessionInv
