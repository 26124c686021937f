SPECIFICATION Spec
CONSTANTS
  Data = {d1}
  NoData = NoData
  Null = Null
  Handle = Handle
  MaxSignals = 3
  MaxLosses = 1
  MaxAdverts = 1
  MaxCount = 1
  Gatt <- MCGatt
  Advertised = 1
  MaxAttempts = 2
  MaxWakes = 1
  MaxCalls = 2
INVARIANTS
  TypeOK
  NoReportDuringRetries
  LossIsNotMissed
  CopyCatchesUp
CHECK_DEADLOCK FALSE
PROPERTIES
  LostLinkIsReported
  CallsReturn
  SenderIsFound
