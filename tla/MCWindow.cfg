SPECIFICATION Spec
CONSTANTS
  MouseX = {0, 100}
  MouseY = {0}
  MouseSplit = {100}
  Height = 400
  TourSteps <- MCTourSteps
  Section = {"stack"}
  Results <- MCResults
  Live = TRUE
INVARIANTS
  TypeOK
  TourTargetShown
