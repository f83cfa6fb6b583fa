SPECIFICATION Spec
CONSTANTS
  MaxRows = 2
  Orders = {"sent", "reversed"}
INVARIANTS
  TypeOK
  FieldsArrive
  CountsAgree
  EveryCommandServed
