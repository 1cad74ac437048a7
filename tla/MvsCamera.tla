----------------------------- MODULE MvsCamera ------------------------------
(***************************************************************************)
(* mvs_camera (camera_mvs.cpp) and its grab_worker: a thread of its own    *)
(* that polls the driver for frames, and which start_grab, stop_grab and   *)
(* close resume, pause and end by flags, each waiting until the worker has *)
(* answered.  The caller is the misc thread, which opens a camera once,    *)
(* uses it whatever open said, and closes it before it deletes it.         *)
(***************************************************************************)
EXTENDS Naturals

CONSTANT MaxCalls  \* bound: calls of start_grab, stop_grab and close

ASSUME MvsCameraAssumption == MaxCalls \in Nat

VARIABLES
  handle,    \* m_device_handle: "null", "made", or "destroyed"
  device,    \* external: the driver's device is "closed", "open", "grabbing"
  worker,    \* where m_grab_worker is; "none" if there is no such object
  running,   \* m_running
  finished,  \* m_finished
  paused,    \* m_paused
  isPaused,  \* m_is_paused
  pc,        \* where the caller is
  closing,   \* stop_grab was called by close
  deleting,  \* close was called on the way to delete
  calls      \* calls so far

flags      == <<running, finished, paused, isPaused>>
workerVars == <<worker, flags>>
callerVars == <<pc, closing, deleting, calls>>
vars == <<handle, device, workerVars, callerVars>>

Init ==
  /\ handle = "null" /\ device = "closed"
  /\ worker = "none"
  /\ running = FALSE /\ finished = FALSE
  /\ paused = FALSE /\ isPaused = FALSE
  /\ pc = "new" /\ closing = FALSE /\ deleting = FALSE /\ calls = 0

-----------------------------------------------------------------------------
(* The caller.                                                             *)

Go(place) == pc' = place /\ UNCHANGED <<closing, deleting, calls>>

\* open: the handle cannot be created, or the device not be opened; the
\* misc thread keeps the camera all the same.
Open ==
  /\ pc = "new"
  /\ \/ UNCHANGED <<handle, device>>
     \/ handle' = "made" /\ UNCHANGED device
     \/ handle' = "made" /\ device' = "open"
  /\ Go("idle")
  /\ UNCHANGED workerVars

Call ==
  /\ pc = "idle" /\ calls < MaxCalls
  /\ calls' = calls + 1
  /\ UNCHANGED <<handle, device, deleting>>

\* start_grab: a worker is made if there is none, and resumed.
StartGrab ==
  /\ Call
  /\ IF worker = "none"
     THEN worker' = "starting" /\ running' = TRUE
          /\ finished' = FALSE /\ isPaused' = FALSE
     ELSE UNCHANGED <<worker, running, finished, isPaused>>
  /\ paused' = FALSE
  /\ pc' = "wait_running"
  /\ UNCHANGED closing

\* Mutant: start_grab does not wait for the worker to have resumed.
StartsAnyway ==
  /\ pc = "wait_running"
  /\ Go("start_grabbing")
  /\ UNCHANGED <<handle, device, workerVars>>

WorkerResumed ==
  /\ pc = "wait_running" /\ ~isPaused
  /\ Go("start_grabbing")
  /\ UNCHANGED <<handle, device, workerVars>>

StartGrabbing ==
  /\ pc = "start_grabbing"
  /\ device' = IF device = "open" THEN "grabbing" ELSE device
  /\ Go("idle")
  /\ UNCHANGED <<handle, workerVars>>

AskToPause == paused' = TRUE /\ UNCHANGED <<worker, running, finished, isPaused>>

\* stop_grab: without a worker there is nothing to stop.
StopGrab ==
  /\ Call
  /\ IF worker = "none"
     THEN UNCHANGED <<workerVars, pc, closing>>
     ELSE AskToPause /\ pc' = "wait_paused" /\ closing' = FALSE

WorkerPaused ==
  /\ pc = "wait_paused" /\ isPaused
  /\ Go("stop_grabbing")
  /\ UNCHANGED <<handle, device, workerVars>>

StopGrabbing ==
  /\ pc = "stop_grabbing"
  /\ device' = IF device = "grabbing" THEN "open" ELSE device
  /\ Go(IF closing THEN "stop_worker" ELSE "idle")
  /\ UNCHANGED <<handle, workerVars>>

\* What close() does first: without a handle it returns, worker or not.
CloseBegins ==
  IF handle # "made"
  THEN pc' = (IF deleting' THEN "destroy" ELSE "idle")
       /\ UNCHANGED <<workerVars, closing>>
  ELSE IF worker = "none"
       THEN pc' = "close_device" /\ UNCHANGED <<workerVars, closing>>
       ELSE AskToPause /\ pc' = "wait_paused" /\ closing' = TRUE

Close == Call /\ CloseBegins

\* ~thread_misc: close and delete.
Delete ==
  /\ pc = "idle"
  /\ deleting' = TRUE
  /\ CloseBegins
  /\ UNCHANGED <<handle, device, calls>>

\* Mutant: a camera that is not grabbing keeps its worker.
StopWorkerIfGrabbing ==
  /\ pc = "stop_worker"
  /\ running' = (device # "open")
  /\ Go(IF running' THEN "close_device" ELSE "wait_finished")
  /\ UNCHANGED <<handle, device, worker, finished, paused, isPaused>>

StopWorker ==
  /\ pc = "stop_worker"
  /\ running' = FALSE
  /\ Go("wait_finished")
  /\ UNCHANGED <<handle, device, worker, finished, paused, isPaused>>

WorkerFinished ==
  /\ pc = "wait_finished" /\ finished
  /\ Go("wait_thread")
  /\ UNCHANGED <<handle, device, workerVars>>

\* QThread::wait returns; worker and thread are deleted.
WorkerGone ==
  /\ pc = "wait_thread" /\ worker = "ended"
  /\ worker' = "none"
  /\ Go("close_device")
  /\ UNCHANGED <<handle, device, flags>>

CloseDevice ==
  /\ pc = "close_device"
  /\ device' = "closed"
  /\ Go(IF deleting THEN "destroy" ELSE "idle")
  /\ UNCHANGED <<handle, workerVars>>

\* ~mvs_camera; a worker that is still there goes on with a camera that is
\* no more.
Destroy ==
  /\ pc = "destroy"
  /\ handle' = IF handle = "made" THEN "destroyed" ELSE handle
  /\ Go("deleted")
  /\ UNCHANGED <<device, workerVars>>

-----------------------------------------------------------------------------
(* grab_worker::process, in its thread.                                    *)

WorkerOnly == UNCHANGED <<handle, device, callerVars>>

TestRunning ==
  /\ worker \in {"starting", "loop"}
  /\ worker' = IF running THEN "test" ELSE "finish"
  /\ UNCHANGED flags
  /\ WorkerOnly

TestPaused ==
  /\ worker = "test"
  /\ worker' = IF paused THEN "say_paused" ELSE "say_running"
  /\ UNCHANGED flags
  /\ WorkerOnly

SayPaused ==
  /\ worker = "say_paused"
  /\ isPaused' = TRUE
  /\ worker' = "loop"
  /\ UNCHANGED <<running, finished, paused>>
  /\ WorkerOnly

\* Mutant: m_is_paused is never taken back.
SayNothing ==
  /\ worker = "say_running"
  /\ worker' = "grab"
  /\ UNCHANGED flags
  /\ WorkerOnly

SayRunning ==
  /\ worker = "say_running"
  /\ isPaused' = FALSE
  /\ worker' = "grab"
  /\ UNCHANGED <<running, finished, paused>>
  /\ WorkerOnly

\* GetImageBuffer returns with a frame, or when its second is over.
GrabReturns ==
  /\ worker = "grab"
  /\ worker' = "loop"
  /\ UNCHANGED flags
  /\ WorkerOnly

Finish ==
  /\ worker = "finish"
  /\ finished' = TRUE
  /\ worker' = "quit"
  /\ UNCHANGED <<running, paused, isPaused>>
  /\ WorkerOnly

\* The slot was called before the thread's event loop: quit() makes exec()
\* return at once.
Quit ==
  /\ worker = "quit"
  /\ worker' = "ended"
  /\ UNCHANGED flags
  /\ WorkerOnly

-----------------------------------------------------------------------------
InCall == WorkerResumed \/ StartGrabbing \/ WorkerPaused \/ StopGrabbing
          \/ StopWorker \/ WorkerFinished \/ WorkerGone \/ CloseDevice
          \/ Destroy

Process == TestRunning \/ TestPaused \/ SayPaused \/ SayRunning
           \/ GrabReturns \/ Finish \/ Quit

\* Nothing is left to do.
Rest == pc \in {"idle", "deleted"} /\ UNCHANGED vars

Next == Open \/ StartGrab \/ StopGrab \/ Close \/ Delete \/ InCall \/ Process
        \/ Rest

\* Both threads keep running, and the driver's calls return.
Fairness == WF_vars(InCall) /\ WF_vars(Process)

Spec == Init /\ [][Next]_vars /\ Fairness

-----------------------------------------------------------------------------
TypeOK ==
  /\ handle \in {"null", "made", "destroyed"}
  /\ device \in {"closed", "open", "grabbing"}
  /\ worker \in {"none", "starting", "loop", "test", "say_paused",
                 "say_running", "grab", "finish", "quit", "ended"}
  /\ running \in BOOLEAN /\ finished \in BOOLEAN
  /\ paused \in BOOLEAN /\ isPaused \in BOOLEAN
  /\ closing \in BOOLEAN /\ deleting \in BOOLEAN
  /\ pc \in {"new", "idle", "wait_running", "start_grabbing", "wait_paused",
             "stop_grabbing", "stop_worker", "wait_finished", "wait_thread",
             "close_device", "destroy", "deleted"}
  /\ calls \in 0 .. MaxCalls

(* A worker that was asked to pause and said so is not at the driver, and  *)
(* does not go there before it is resumed; in particular the caller does   *)
(* not stop the stream or close the device under GetImageBuffer.           *)
StoppedIsQuiet ==
  (paused /\ isPaused) \/ pc \in {"stop_grabbing", "close_device"}
    => worker \notin {"say_running", "grab"}

(* Why that is so: what the two flags of the handshake say of the worker   *)
(* and of the caller.  m_paused is false and m_is_paused true only while   *)
(* the caller waits for the worker to resume.                              *)
Handshake ==
  /\ worker = "grab" => ~isPaused
  /\ worker = "say_running" /\ paused => ~isPaused /\ pc = "wait_paused"
  /\ worker = "say_paused" /\ ~paused => isPaused /\ pc = "wait_running"
  /\ isPaused /\ ~paused /\ worker # "none" => pc = "wait_running"
  /\ paused /\ worker # "none" => isPaused \/ pc = "wait_paused"
  /\ pc \in {"stop_grabbing", "stop_worker", "wait_finished", "wait_thread"}
       => paused /\ isPaused /\ worker # "none"
  /\ pc \in {"wait_running", "start_grabbing"} => ~paused
  /\ pc = "wait_paused" => paused /\ worker # "none"
  /\ pc = "close_device" => worker = "none"

(* What a handle says of the worker when the camera is deleted.            *)
Handles ==
  /\ handle \in {"null", "made", "destroyed"}
  /\ handle = "destroyed" => pc = "deleted"
  /\ pc \in {"destroy", "deleted"} /\ worker # "none" => handle = "null"
  /\ pc = "new" => worker = "none"

(* A deleted camera has no worker that goes on using it, unless the handle *)
(* could never be created: close returns early then, and start_grab did    *)
(* not ask.                                                                *)
OrphanNeedsNoHandle ==
  pc = "deleted" /\ worker # "none" => handle = "null"

(* start_grab, stop_grab, close and delete return: no wait for a flag of   *)
(* the worker is for ever.                                                 *)
CallsReturn == pc \notin {"new", "idle"} ~> pc \in {"idle", "deleted"}
=============================================================================
