CONSTANTS
  Client = {c1, c2}
  NoClient = NoClient
  Command = {"camera_list", "server_parameter", "open_camera", "close_camera", "change_camera_parameter", "start_grab", "stop_grab", "trigger_once", "change_algorithm_parameter", "user_config_set", "move_camera", "move_camera_by_index", "set_motion_parameter", "auto_focus", "anomaly_detection", "auto_calibration", "update_server_parameter", "start_process", "stop_process", "stop_server", "unknown"}
  MaxRequests = 2
  MaxPresses = 0
  MaxPhotos = 1
  MaxFrames = 1
  MaxEvents = 2
  InitCamera = {"none", "continuous"}
  InitDetector = {TRUE, FALSE}
SYMMETRY ClientSymmetry
SPECIFICATION Spec
INVARIANTS
  ProcessingFlag
  RoutedToConnected
  FinishIsLast
  RefusedNeverRuns
