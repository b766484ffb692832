SPECIFICATION UndoSpec
CONSTANTS
  t0 = t0
  t1 = t1
  t2 = t2
  Text <- MCText
  InitText = t0
  UNDO_MAX = 3
SYMMETRY MCSymmetry
INVARIANTS
  UndoTypeOK
  StacksBounded
  UndoIsExact
PROPERTIES
  RedoKept
