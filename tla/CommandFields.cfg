SPECIFICATION Spec
CONSTANTS
  MaxRows = 1
  Orders = {"sent"}
INVARIANTS
  EveryFieldArrives
