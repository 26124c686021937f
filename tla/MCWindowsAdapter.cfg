SPECIFICATION Spec
CONSTANTS
  Null = Null
  Handle = Handle
  NoName = NoName
  Name = Name
  MaxCount = 1
  Gatt <- MCGatt
  Garbage = {0, 65535}
  Adverts <- MCAdverts
  MaxAttempts = 2
  MaxEvents = 3
  MaxLosses = 1
  MaxAdverts = 2
  MaxCalls = 3
INVARIANTS
  TypeOK
  FlagFollowsWatcher
  NothingHeardIsForgotten
PROPERTIES
  LostLinkIsReported
  CallsReturn
CHECK_DEADLOCK FALSE
