SPECIFICATION FairSpec
CONSTANTS
  bt = bt
  mgmt = mgmt
  Tasks <- MCTasks
  Amounts <- MCAmounts
  ClientWrites <- MCFewWrites
  QueueBound = 1
  ClockRange = 2
  DisconnectionTimeout = 0
PROPERTIES
  LostLinkHalts
  NoticedSessionEndsInAdvertising
  ModeIsReported
  ImplementsDeadMan
