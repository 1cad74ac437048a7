CONSTANTS
  MaxTasks = 4
SPECIFICATION FairSpec
INVARIANTS
  NoLostWakeup
PROPERTIES
  KeepsPromise
  WorkEnds
