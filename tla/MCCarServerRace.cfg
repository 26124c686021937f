SPECIFICATION Spec
CONSTANTS
  bt = bt
  mgmt = mgmt
  Tasks <- MCTasks
  Amounts <- MCAmounts
  ClientWrites <- MCOneWrite
  QueueBound = 1
  ClockRange = 3
  DisconnectionTimeout = 1
INVARIANTS
  StopTurnsOffDriveshaft
