CONSTANTS
  Writers = {main, misc}
  Clients = {c1}
  MaxImages = 4
  MaxDeaths = 1
  main = main
  misc = misc
  c1 = c1
SYMMETRY WriterSymmetry
SPECIFICATION Spec
INVARIANTS
  SurvivesTwoWrites
  FrameIdsIncrease
  NoTornRead
  LockIsReleased
