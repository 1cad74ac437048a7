----------------------------- MODULE ServerMisc -----------------------------
(***************************************************************************)
(* The misc thread (thread_misc.cpp): it takes one task at a time and runs *)
(* the branch of process_task the command names.  Most branches touch      *)
(* nothing another thread reads in between and are one step; start_process *)
(* and auto_calibration are split where m_is_processing and m_terminate    *)
(* are read or written.                                                    *)
(***************************************************************************)
EXTENDS ServerState

MainUnchanged == UNCHANGED <<sockVars, mainVars, queueVars>>
LoopUnchanged == UNCHANGED <<pos, flagVars, ghostVars>>

\* run(): take the next task, or leave once stopped with nothing queued.
TakeTask ==
  /\ Alive
  /\ pc = "idle"
  /\ queue # <<>>
  /\ task' = Head(queue)
  /\ queue' = Tail(queue)
  /\ pc' = "run"
  /\ UNCHANGED <<sockVars, mainVars, events, enumQueue, frames, presses, pos,
                 flagVars, deviceVars, ghostVars>>

LeaveLoop ==
  /\ main = "join_misc"
  /\ pc = "idle"
  /\ queue = <<>>
  /\ pc' = "exited"
  /\ UNCHANGED <<sockVars, mainVars, events, queueVars, task, pos, flagVars,
                 deviceVars, ghostVars>>

At(place)    == Alive /\ pc = place
Running(cmd) == At("run") /\ task.cmd = cmd
Return       == pc' = "idle" /\ task' = NoRequest

\* A task that is answered by one message with which it is finished.
ReplyAndReturn(kind) ==
  PostEvent(task.id, kind, TRUE) /\ Return /\ MainUnchanged /\ LoopUnchanged

ReturnSilently ==
  UNCHANGED events /\ Return /\ MainUnchanged /\ LoopUnchanged

-----------------------------------------------------------------------------
(* The camera as the branches see it.  A driver call on an open device may *)
(* fail; on a closed one it does.                                          *)

IsOpen == camera \in OpenCamera

\* get_trigger_mode: continuous is also the answer when the driver fails.
TriggerModes == {"continuous"} \cup ({camera} \cap {"once"})

AfterSetMode(m) == IF IsOpen THEN {camera, m} ELSE {camera}

\* m_is_grab_running after start_grab.
AfterStartGrab == IF IsOpen THEN {grabbing, TRUE} ELSE {grabbing}

\* and after stop_grab; change the mode; start_grab.
AfterRestart == IF IsOpen THEN BOOLEAN ELSE {grabbing}

-----------------------------------------------------------------------------
(* The branches that are one step.                                         *)

\* Not found; create_camera or open fails, open perhaps only after the device
\* is open; opened, switched to continuous mode and started.
OpenCameraTask ==
  /\ Running("open_camera")
  /\ \/ /\ UNCHANGED <<camera, grabbing>>
        /\ ReplyAndReturn("result")
     \/ /\ camera' \in CameraState
        /\ grabbing' = FALSE
        /\ ReplyAndReturn("result")
     \/ /\ camera' \in OpenCamera
        /\ grabbing' \in BOOLEAN
        /\ ReplyAndReturn("opened")
  /\ UNCHANGED <<streamId, photos, detector>>

\* close() leaves m_is_grab_running as it is.
CloseCameraTask ==
  /\ Running("close_camera")
  /\ camera' \in IF IsOpen THEN {camera, "closed"} ELSE {camera}
  /\ ReplyAndReturn("result")
  /\ UNCHANGED <<grabbing, streamId, photos, detector>>

\* Only the trigger mode, one of the parameters, matters here.
ChangeCameraParameterTask ==
  /\ Running("change_camera_parameter")
  /\ camera' \in IF IsOpen THEN OpenCamera ELSE {camera}
  /\ ReplyAndReturn("result")
  /\ UNCHANGED <<grabbing, streamId, photos, detector>>

\* start_grab reports success at once if m_is_grab_running is set.
StartGrabTask ==
  /\ Running("start_grab")
  /\ \/ /\ camera = "none" \/ ~grabbing      \* no camera, or dvpStart fails
        /\ UNCHANGED <<grabbing, streamId>>
        /\ ReplyAndReturn("result")
     \/ /\ IsOpen \/ (camera = "closed" /\ grabbing)
        /\ grabbing' = TRUE
        /\ \/ /\ "continuous" \in TriggerModes
              /\ streamId' = task.id
              /\ PostEvent(task.id, "result", FALSE)
           \/ /\ "once" \in TriggerModes
              /\ UNCHANGED streamId
              /\ PostEvent(task.id, "result", TRUE)
        /\ Return /\ MainUnchanged /\ LoopUnchanged
  /\ UNCHANGED <<camera, photos, detector>>

StopGrabTask ==
  /\ Running("stop_grab")
  /\ grabbing' \in IF IsOpen THEN {grabbing, FALSE} ELSE {grabbing}
  /\ ReplyAndReturn("result")
  /\ UNCHANGED <<camera, streamId, photos, detector>>

\* Without a camera object nothing is posted.
TriggerOnceTask ==
  /\ Running("trigger_once")
  /\ \/ camera # "none" /\ ReplyAndReturn("result")
     \/ camera = "none" /\ ReturnSilently
  /\ UNCHANGED deviceVars

ChangeAlgorithmParameterTask ==
  /\ Running("change_algorithm_parameter")
  /\ ReplyAndReturn("result")
  /\ UNCHANGED deviceVars

\* Loading replaces the photo position list, among others; a file that cannot
\* be parsed is reported before anything is touched.
UserConfigSetTask ==
  /\ Running("user_config_set")
  /\ photos' \in IF camera # "none" /\ detector THEN 0 .. MaxPhotos
                                               ELSE {photos}
  /\ ReplyAndReturn("result")
  /\ UNCHANGED <<camera, grabbing, streamId, detector>>

MoveCameraTask ==
  /\ Running("move_camera")
  /\ grabbing' \in AfterStartGrab
  /\ ReplyAndReturn("result")
  /\ UNCHANGED <<camera, streamId, photos, detector>>

\* move_to_position posts its reply in trigger mode only.
MoveCameraByIndexTask ==
  /\ Running("move_camera_by_index")
  /\ \/ /\ ReplyAndReturn("result")          \* no such position
        /\ UNCHANGED grabbing
     \/ /\ photos > 0
        /\ grabbing' \in AfterStartGrab
        /\ \E mode \in TriggerModes : IF mode = "once"
             THEN ReplyAndReturn("result") ELSE ReturnSilently
  /\ UNCHANGED <<camera, streamId, photos, detector>>

SetMotionParameterTask ==
  /\ Running("set_motion_parameter")
  /\ ReplyAndReturn("result")
  /\ UNCHANGED deviceVars

\* The focus images are computed and no message is posted.
AutoFocusTask ==
  /\ Running("auto_focus")
  /\ ReturnSilently
  /\ UNCHANGED deviceVars

\* m_fiber_end_detector is made if it is missing, and that may fail.
AnomalyDetectionTask ==
  /\ Running("anomaly_detection")
  /\ detector' \in IF detector THEN {TRUE} ELSE BOOLEAN
  /\ ReplyAndReturn("result")
  /\ UNCHANGED <<camera, grabbing, streamId, photos>>

\* No branch of update_server_parameter replies.
UpdateServerParameterTask ==
  /\ Running("update_server_parameter")
  /\ photos' \in 0 .. MaxPhotos
  /\ ReturnSilently
  /\ UNCHANGED <<camera, grabbing, streamId, detector>>

-----------------------------------------------------------------------------
(* start_process.                                                          *)

\* The guard against a second start, then m_is_processing is set.  Only this
\* thread writes it, so nothing comes between the load and the store.
StartProcess ==
  /\ Running("start_process")
  /\ IF isProcessing
       THEN Return /\ UNCHANGED <<isProcessing, runs, slipped>>
       ELSE /\ isProcessing' = TRUE
            /\ runs' = runs + 1
            /\ slipped' = 0
            /\ pc' = "begin"
            /\ UNCHANGED task
  /\ UNCHANGED <<events, pos, terminate, deviceVars>>
  /\ MainUnchanged

\* Trigger mode, start to grab, and tell the clients that a run is on.
BeginProcess ==
  /\ At("begin")
  /\ camera # "none"
  /\ camera' \in AfterSetMode("once")
  /\ grabbing' \in AfterRestart
  /\ PostEvent(task.id, "running", FALSE)
  /\ pos' = 1
  /\ pc' = "check"
  /\ UNCHANGED <<task, flagVars, streamId, photos, detector, ghostVars>>
  /\ MainUnchanged

\* The loop condition and the first test of m_terminate.
CheckPosition ==
  /\ At("check")
  /\ pc' = IF pos > photos \/ terminate THEN "home" ELSE "move"
  /\ UNCHANGED <<events, task, pos, flagVars, deviceVars, ghostVars>>
  /\ MainUnchanged

\* move_to_position(..., task_finish = false): posts in trigger mode only, and
\* succeeds if the image arrives.
MoveToPosition ==
  /\ At("move")
  /\ grabbing' \in AfterStartGrab
  /\ \E mode \in TriggerModes :
       /\ IF mode = "once" THEN PostEvent(task.id, "result", FALSE)
                           ELSE UNCHANGED events
       /\ \/ mode = "once" /\ pc' = "detect" /\ UNCHANGED pos
          \/ pc' = "check" /\ pos' = pos + 1
  /\ UNCHANGED <<task, flagVars, camera, streamId, photos, detector,
                 ghostVars>>
  /\ MainUnchanged

\* Mutant: anomaly_detection called with its default, is_task_finish = true.
DetectAndFinish ==
  /\ At("detect")
  /\ \/ /\ terminate
        /\ pc' = "home"
        /\ UNCHANGED <<events, pos, detector>>
     \/ /\ ~terminate
        /\ detector' \in IF detector THEN {TRUE} ELSE BOOLEAN
        /\ PostEvent(task.id, "result", TRUE)
        /\ \/ detector' /\ pc' = "check" /\ pos' = pos + 1
           \/ pc' = "home" /\ UNCHANGED pos
  /\ UNCHANGED <<task, flagVars, camera, grabbing, streamId, photos,
                 ghostVars>>
  /\ MainUnchanged

\* The second test of m_terminate, and anomaly_detection, which ends the loop
\* if it fails.
DetectAtPosition ==
  /\ At("detect")
  /\ \/ /\ terminate
        /\ pc' = "home"
        /\ UNCHANGED <<events, pos, detector>>
     \/ /\ ~terminate
        /\ detector' \in IF detector THEN {TRUE} ELSE BOOLEAN
        /\ PostEvent(task.id, "result", FALSE)
        /\ \/ detector' /\ pc' = "check" /\ pos' = pos + 1
           \/ pc' = "home" /\ UNCHANGED pos
  /\ UNCHANGED <<task, flagVars, camera, grabbing, streamId, photos,
                 ghostVars>>
  /\ MainUnchanged

\* Back to the first position and to continuous mode.
ReturnHome ==
  /\ At("home")
  /\ camera # "none"
  /\ \E mode \in TriggerModes :
       IF photos > 0 /\ mode = "once"
         THEN PostEvent(task.id, "result", FALSE)
         ELSE UNCHANGED events
  /\ camera' \in AfterSetMode("continuous")
  /\ grabbing' \in AfterRestart
  /\ pc' = "leave"
  /\ UNCHANGED <<task, pos, flagVars, streamId, photos, detector, ghostVars>>
  /\ MainUnchanged

\* Mutant: m_is_processing is not cleared.
LeaveProcessBusy ==
  /\ At("leave")
  /\ pc' = "report"
  /\ UNCHANGED <<events, task, pos, flagVars, deviceVars, ghostVars>>
  /\ MainUnchanged

LeaveProcess ==
  /\ At("leave")
  /\ isProcessing' = FALSE
  /\ pc' = "report"
  /\ UNCHANGED <<events, task, pos, terminate, deviceVars, ghostVars>>
  /\ MainUnchanged

\* Mutant: the last message does not finish the task.
ReportUnfinished ==
  /\ At("report")
  /\ PostEvent(task.id, IF terminate THEN "aborted" ELSE "done", FALSE)
  /\ pc' = "clear"
  /\ UNCHANGED <<task, pos, flagVars, deviceVars, ghostVars>>
  /\ MainUnchanged

\* The last message carries m_terminate as the status of the run.
ReportProcess ==
  /\ At("report")
  /\ PostEvent(task.id, IF terminate THEN "aborted" ELSE "done", TRUE)
  /\ pc' = "clear"
  /\ UNCHANGED <<task, pos, flagVars, deviceVars, ghostVars>>
  /\ MainUnchanged

ClearTerminate ==
  /\ At("clear")
  /\ terminate' = FALSE
  /\ Return
  /\ UNCHANGED <<events, pos, isProcessing, deviceVars, ghostVars>>
  /\ MainUnchanged

-----------------------------------------------------------------------------
(* auto_calibration.  It holds m_is_processing and never looks at          *)
(* m_terminate.                                                            *)

StartCalibration ==
  /\ Running("auto_calibration")
  /\ isProcessing' = TRUE
  /\ runs' = runs + 1
  /\ slipped' = 0
  /\ pos' = 1
  /\ pc' = "calibrate"
  /\ UNCHANGED <<events, task, terminate, deviceVars>>
  /\ MainUnchanged

CalibrationStages == 4

\* Trigger mode, and a message at each stage of the work.
CalibrationStage ==
  /\ At("calibrate")
  /\ camera # "none" /\ detector
  /\ pos <= CalibrationStages
  /\ \/ pos = 1 /\ camera' \in AfterSetMode("once")
                /\ grabbing' \in AfterRestart
     \/ pos > 1 /\ UNCHANGED <<camera, grabbing>>
  /\ PostEvent(task.id, "result", FALSE)
  /\ pos' = pos + 1
  /\ UNCHANGED <<pc, task, flagVars, streamId, photos, detector, ghostVars>>
  /\ MainUnchanged

LeaveCalibration ==
  /\ At("calibrate")
  /\ pos > CalibrationStages
  /\ isProcessing' = FALSE
  /\ pc' = "calibrated"
  /\ UNCHANGED <<events, task, pos, terminate, deviceVars, ghostVars>>
  /\ MainUnchanged

\* Back to the position before and to continuous mode, with m_is_processing
\* already cleared.
FinishCalibration ==
  /\ At("calibrated")
  /\ camera # "none"
  /\ EventRoom
  /\ LET message(finish) ==
           [id |-> task.id, kind |-> "result", finish |-> finish]
     IN \E mode \in TriggerModes :
          events' = events \o (IF mode = "once" THEN <<message(FALSE)>>
                                                ELSE <<>>)
                           \o <<message(TRUE)>>
  /\ camera' \in AfterSetMode("continuous")
  /\ grabbing' \in AfterRestart
  /\ Return
  /\ UNCHANGED <<pos, flagVars, streamId, photos, detector, ghostVars>>
  /\ MainUnchanged

-----------------------------------------------------------------------------
(* Undefined behaviour ends the process.                                   *)

\* A branch that calls a member of a null m_camera or m_fiber_end_detector, or
\* takes the first position of an empty list.
FaultsOn ==
  \/ pc \in {"begin", "home"} /\ camera = "none"
  \/ pc = "calibrate" /\ (camera = "none" \/ ~detector)
  \/ pc = "calibrated" /\ camera = "none"
  \/ pc = "run" /\ task.cmd = "user_config_set"
                /\ (camera = "none" \/ ~detector)
  \/ pc = "run" /\ task.cmd = "anomaly_detection" /\ photos = 0

\* Once ~thread_misc has run, whatever the thread still executes works on
\* freed members, and the next process_task is a pure virtual call.
UsesReleased ==
  /\ main = "join_misc"
  /\ pc \notin {"idle", "exited"} \/ queue # <<>>

Fault ==
  /\ Alive
  /\ FaultsOn \/ UsesReleased
  /\ main' = "crashed"
  /\ UNCHANGED <<sockVars, current, events, queueVars, pc, task, pos,
                 flagVars, deviceVars, ghostVars>>

MiscWork ==
  \/ TakeTask \/ LeaveLoop
  \/ OpenCameraTask \/ CloseCameraTask \/ ChangeCameraParameterTask
  \/ StartGrabTask \/ StopGrabTask \/ TriggerOnceTask
  \/ ChangeAlgorithmParameterTask \/ UserConfigSetTask
  \/ MoveCameraTask \/ MoveCameraByIndexTask \/ SetMotionParameterTask
  \/ AutoFocusTask \/ AnomalyDetectionTask \/ UpdateServerParameterTask
  \/ StartProcess \/ BeginProcess \/ CheckPosition \/ MoveToPosition
  \/ DetectAtPosition \/ ReturnHome \/ LeaveProcess \/ ReportProcess
  \/ ClearTerminate
  \/ StartCalibration \/ CalibrationStage \/ LeaveCalibration
  \/ FinishCalibration
  \/ Fault
=============================================================================
