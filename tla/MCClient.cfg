SPECIFICATION FairSpec
CONSTANTS
  MaxUp = 2
  MaxDown = 2
  MaxDeferred = 1
INVARIANTS
  TypeOK
  SteppingAnswered
  PendingHasReset
  ExitOfThisSession
  AutoStepArmed
PROPERTIES
  SteppingEnds
