SPECIFICATION FairSpec
CONSTANTS
  MaxMoves = 2
INVARIANTS
  OneTransaction
  CleanMovesArrive
  CoilsAreOff
PROPERTIES
  OperationEnds
