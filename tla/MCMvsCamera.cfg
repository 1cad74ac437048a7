SPECIFICATION Spec
CONSTANT
  MaxCalls = 6
INVARIANTS
  StoppedIsQuiet
  OrphanNeedsNoHandle
PROPERTIES
  CallsReturn
