SPECIFICATION Spec
CONSTANTS
  Buffer = 2
  MaxCalls = 2
  CallLen <- MCCallLen
  AnswerLen <- MCAnswerLen
  Cuts = {13}
INVARIANTS
  OwnResponse
CHECK_DEADLOCK FALSE
