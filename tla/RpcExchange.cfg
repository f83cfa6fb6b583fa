SPECIFICATION Spec
CONSTANTS
  MaxItems = 2
  MaxGaps = 2
INVARIANTS
  TypeOK
  CallArrives
  OwnHandler
  AnswerArrives
  OnlyGapsTerminate
CHECK_DEADLOCK FALSE
