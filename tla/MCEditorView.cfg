SPECIFICATION Spec
CONSTANTS
  main = main
  loop = loop
  rax = rax
  None = None
  Name <- MCName
  Dotted <- MCDotted
  Register <- MCRegister
  Sought <- MCSought
  Line <- MCLine
  MaxLines = 4
INVARIANTS
  TypeOK
  Unfoldable
  JumpsShown
  BreadcrumbEncloses
