SPECIFICATION Spec
CONSTANTS
  IPs = {a1, a2}
  Fds = {3, 4}
  Conns = {c1, c2}
  Bevs = {b1, b2}
  None = None
INVARIANTS
  DeliveredToAddressee
CHECK_DEADLOCK FALSE
