CONSTANTS
  Client = {c1, c2}
  NoClient = NoClient
  Command = {"start_process", "stop_process", "stop_server"}
  MaxRequests = 2
  MaxPresses = 0
  MaxPhotos = 1
  MaxFrames = 0
  MaxEvents = 2
  InitCamera = {"continuous"}
  InitDetector = {TRUE}
SYMMETRY ClientSymmetry
SPECIFICATION Spec
PROPERTIES
  StopReachesRun
