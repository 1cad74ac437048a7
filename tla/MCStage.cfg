SPECIFICATION StageSpec
CONSTANTS
  Travel = 3
  Target <- Targets
  StepSize <- Steps
  Limit <- Limits
  MaxRequests = 2
  MaxTimeouts = 2
  MaxHandMoves = 1

  
PROPERTIES
  
  ResetZeroIsLimit
  ShiftIsTimeouts
