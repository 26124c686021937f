SPECIFICATION Spec
CONSTANTS
  bt = bt
  Tasks <- MCTasks
  Amounts <- MCPercentages
  Commands <- MCCommands
  Tails <- MCTails
  Width <- MCWidth
  Encode <- AppendValue
  Decode <- ExtractValue
INVARIANTS
  CarTypeOK
  ModeTellsMotion
  SteeredOneWay
  DutyInRange
PROPERTIES
  PacketArrives
  DrivesTheCar
