SPECIFICATION Spec
CONSTANTS
  l1 = l1
  l2 = l2
  Line <- MCLine
  Tool = {"cyclic"}
  Query = {"section", "console"}
  Always = {"cyclic"}
  MaxUp = 2
  MaxDown = 1
  MaxConnections = 2
  MaxInserted = 2
SYMMETRY Symmetry
INVARIANTS
  TypeOK
  BreakpointsAgree
  ResultsOfConnection
