SPECIFICATION FairSpec
CONSTANTS
  IPs = {a1}
  Fds = {3, 4}
  Conns = {c1, c2}
  Bevs = {b1, b2}
  None = None
PROPERTIES
  LiveClientBecomesReachable
CHECK_DEADLOCK FALSE
