---------------------------- MODULE ServerState ----------------------------
(***************************************************************************)
(* The state shared by the threads of the fiber end-face inspection server *)
(* (fiber_end_server): the Qt main thread with its sockets, the device     *)
(* enumeration thread and the misc thread that does all the real work.     *)
(*                                                                         *)
(* A request carries a request_id.  Clients use a fresh id for each        *)
(* request (docs/PROTOCOL.md: "uuid-string"), so the ids are numbered in   *)
(* the order in which they are used; NoId is the empty string, which the   *)
(* server treats as "every client".                                        *)
(***************************************************************************)
EXTENDS Naturals, Sequences, FiniteSets

CONSTANTS
  Client,        \* the sockets; a client that reconnects is a new socket
  NoClient,      \* no socket is recorded for a request id
  Command,       \* the commands the clients send
  MaxRequests,   \* bound: requests sent in one behaviour
  MaxPresses,    \* bound: presses of the device's start button
  MaxPhotos,     \* bound: length of the photo position list
  MaxFrames,     \* bound: stream frames on their way through the main thread
  MaxEvents,     \* bound: how many events the main thread lags behind
  InitCamera,    \* cameras the behaviour may start with, see CameraState
  InitDetector   \* outcomes of setup_fiber_end_detector

EnumCommand == {"camera_list", "server_parameter"}

\* The commands with a boolean parameter are two each: start_process with
\* FALSE is stop_process here, start_grab with FALSE is stop_grab.
MiscCommand ==
  {"open_camera", "close_camera", "change_camera_parameter", "start_grab",
   "stop_grab", "trigger_once", "change_algorithm_parameter",
   "user_config_set", "move_camera", "move_camera_by_index",
   "set_motion_parameter", "auto_focus", "anomaly_detection",
   "auto_calibration", "update_server_parameter", "start_process"}

AllCommand ==
  EnumCommand \cup MiscCommand \cup {"stop_process", "stop_server", "unknown"}

\* m_camera: the null pointer, an object whose device is not open, or an open
\* device in one of its two trigger modes.
OpenCamera  == {"continuous", "once"}
CameraState == {"none", "closed"} \cup OpenCamera

ASSUME ServerAssumption ==
  /\ NoClient \notin Client
  /\ Command \subseteq AllCommand
  /\ MaxRequests \in Nat /\ MaxPresses \in Nat
  /\ MaxPhotos \in Nat   /\ MaxFrames \in Nat
  /\ MaxEvents \in Nat \ {0}
  /\ InitCamera \subseteq CameraState
  /\ InitDetector \subseteq BOOLEAN

NoId == 0
Id   == 0 .. MaxRequests

Request == [id : Id, cmd : AllCommand]

\* What a thread posts with post_task_finished: finish is the "task_finish"
\* field, TRUE where the field is absent.
Kind  == {"result", "busy", "parameters", "opened", "frame",
          "running", "done", "aborted"}
Event == [id : Id, kind : Kind, finish : BOOLEAN]

-----------------------------------------------------------------------------
VARIABLES
  conn,          \* state of each socket: "new", "up" (in m_clients), "gone"
  wire,          \* requests written by a client and not yet read
  sent,          \* number of requests sent so far
  requests,      \* m_map_request_id_to_socket
  answer,        \* history: the message that finished each request
  main,          \* where the main thread is
  current,       \* the request process_request is working on
  events,        \* posted to the main thread, not yet delivered
  queue,         \* m_task_queue of thread_misc
  enumQueue,     \* m_task_queue of thread_device_enum
  frames,        \* stream frames queued for on_stream_image_ready
  presses,       \* presses of the start button so far
  pc,            \* where the misc thread is
  task,          \* the task process_task is executing
  pos,           \* index in start_process's loop over the photo positions
  isProcessing,  \* m_is_processing
  terminate,     \* m_terminate
  camera,        \* m_camera, see CameraState
  grabbing,      \* m_camera->m_is_grab_running
  streamId,      \* m_stream_request_id
  photos,        \* m_config_data->m_photo_location_list.size()
  detector,      \* m_fiber_end_detector is not null
  runs,          \* history: busy periods begun (m_is_processing set)
  slipped        \* history: client tasks queued since the period began

sockVars   == <<conn, wire, sent, requests, answer>>
mainVars   == <<main, current>>
queueVars  == <<queue, enumQueue, frames, presses>>
flagVars   == <<isProcessing, terminate>>
deviceVars == <<camera, grabbing, streamId, photos, detector>>
ghostVars  == <<runs, slipped>>
vars == <<sockVars, mainVars, events, queueVars, pc, task, pos, flagVars,
          deviceVars, ghostVars>>

clients == {c \in Client : conn[c] = "up"}   \* m_clients

\* The process has died of a null or freed pointer: no thread runs any more.
Alive == main # "crashed"

\* Bound: a worker thread waits before it posts while the main thread lags
\* MaxEvents events behind.  During stop() the main thread takes no more events.
Stopping  == main \in {"delete_enum", "delete_misc", "join_misc"}
EventRoom == Len(events) < MaxEvents \/ Stopping

\* emit post_task_finished: a queued connection to the main thread.
PostEvent(id, kind, finish) ==
  /\ EventRoom
  /\ events' = Append(events, [id |-> id, kind |-> kind, finish |-> finish])

NoRequest == [id |-> NoId, cmd |-> "unknown"]
NoCurrent == [id |-> NoId, cmd |-> "unknown", run |-> 0]
=============================================================================
