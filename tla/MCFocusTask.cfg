CONSTANTS
  CameraIds <- TwoCameras
  CacheSize = 1
  AttenuationThresh = 2
  ClarityDiffThresh = 1
  Clarity = {1, 2, 3}
  MaxEnds <- ThreeEnds
  MaxProcessed = 7
  MaxFocusPasses = 2
SPECIFICATION TaskSpec
INVARIANTS
  WindowAroundFocus
  FinishedMeansPast
  OneFailureIsAll
  RegionsApart
