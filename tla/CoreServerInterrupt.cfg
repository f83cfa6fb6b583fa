SPECIFICATION FairSpec
CONSTANTS
  IPs = {a1}
  Fds = {3}
  Conns = {c1}
  Bevs = {b1}
  None = None
PROPERTIES
  InterruptEndsProcess
CHECK_DEADLOCK FALSE
