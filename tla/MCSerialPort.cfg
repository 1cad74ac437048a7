SPECIFICATION FairPortSpec
CONSTANTS
  MaxCommands = 5
  MaxMessages = 2
INVARIANTS
  NoLostReply
PROPERTIES
  KeepsOrder
  ReaderKeepsUp
