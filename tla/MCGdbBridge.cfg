CONSTANTS
  Line = {1}
  Sp = {0, 8}
  Address = {0, 8, 16}
  Bytes = {"old"}
  NoMemory = NoMemory
  MaxInput = 2
SPECIFICATION FairSpec
INVARIANTS
  TypeOK
  HighlightIsCause
  ExitIsKnown
  ExitIsNotInvented
  StackFollowsRsp
  InStep
PROPERTIES
  MethodsReturn
