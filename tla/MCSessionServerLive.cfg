CONSTANTS
  Conn = {c1, c2}
  Sid = {s1, s2, s3}
  MaxSessions = 2
  None = None
SPECIFICATION FairSpec
PROPERTIES
  OrphansAreCollected
  AbandonedServerDrains
