CONSTANTS
  Conn = {c1, c2}
  Sid = {s1, s2, s3, s4, s5}
  MaxSessions = 2
  None = None
SPECIFICATION Spec
SYMMETRY Symmetry
INVARIANTS
  TypeOK
  OvershootBound
  PrivateSessions
PROPERTIES
  OnlyJustifiedLosses
  ImplementsPool
