CONSTANTS
  Client = {c1}
  NoClient = NoClient
  Command = {"start_process", "stop_process", "auto_calibration", "stop_server"}
  MaxRequests = 2
  MaxPresses = 1
  MaxPhotos = 1
  MaxFrames = 0
  MaxEvents = 2
  InitCamera = {"continuous"}
  InitDetector = {TRUE}
SPECIFICATION FairSpec
INVARIANTS
  AtMostOneSlips
PROPERTIES
  StopOnlyByRace
  GateReopens
  StartIsAnswered
  StopServerEnds
