SPECIFICATION FairSpec
CONSTANTS
  MaxRequests = 2
INVARIANTS
  TypeOK
  ServedInOrder
  OnlyACutKills
PROPERTIES
  EveryRequestAnswered
CHECK_DEADLOCK FALSE
