CONSTANTS
  MaxTriggers = 3
  MaxFlight = 2
SPECIFICATION Spec
INVARIANTS
  NoImageRace
  InTimeIsReturned
  ImagesInOrder
