SPECIFICATION Spec
CONSTANTS
  IPs = {a1, a2}
  Fds = {3, 4}
  Conns = {c1, c2, c3}
  Bevs = {b1, b2}
  None = None
SYMMETRY Symmetry
INVARIANTS
  TypeOK
  RegistryInv
  RegistrySound
  QuietSend
PROPERTIES
  QuietSendArrives
  
  ImplementsDirectory
CHECK_DEADLOCK FALSE
