SPECIFICATION Spec
CONSTANTS
  Width <- WidthDef
  Objects = {m1, m2}
  Ids = {1, 2, 3}
  MaxCreated = 3
  Calls <- CallsDef
  AgentCalls <- AgentCallsDef
  Answers <- AnswersDef
  Encode <- AppendValue
  Decode <- ExtractValue
  Conveys <- ConveysArgument
INVARIANTS TypeOK OneOwner ExtractedIsAppended
CHECK_DEADLOCK FALSE
