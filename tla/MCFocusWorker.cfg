SPECIFICATION FairSpec
CONSTANTS
  MaxPasses = 3
  MaxImages = 4
INVARIANTS
  FinishWhenIdle
  FewStaleImages
PROPERTIES
  PassEnds
