SPECIFICATION FairSpec
CONSTANTS
  Buffer = 2
  MaxCalls = 2
  CallLen <- MCCallLen
  AnswerLen <- MCAnswerLen
  Cuts = {13}
INVARIANTS
  TypeOK
  CallsArriveWhole
  ResponsesBelong
  PendingCounts
  ServerStays
PROPERTIES
  ImplementsRemoteCalls
  CallReturns
CHECK_DEADLOCK FALSE
