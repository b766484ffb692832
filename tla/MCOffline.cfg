SPECIFICATION Spec
CONSTANTS
  Request = {r1, r2}
  Recording <- MCRecording
  NoLine = NoLine
  MaxSteps = 4
  BreakLine = {2}
  Program = {a, b}
  Blank = Blank
  HISTORY_MAX = 2
INVARIANTS
  TypeOK
  StepInTrace
PROPERTIES
  TracingEnds
  DirectoriesGo
