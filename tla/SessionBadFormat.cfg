SPECIFICATION Spec
CONSTANTS
  MaxRequests = 1
INVARIANTS
  SurvivesBadFormat
CHECK_DEADLOCK FALSE
