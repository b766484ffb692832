SPECIFICATION FairSpec
CONSTANTS
  MaxUp = 2
  MaxDown = 2
  MaxDeferred = 1
PROPERTIES
  AutoStepEnds
