----------------------------- MODULE ServerMain -----------------------------
(***************************************************************************)
(* The main thread of the server (server.cpp): connections, requests, the  *)
(* busy gate, dispatching to the worker threads, replies, and stop().      *)
(* process_request loads m_is_processing twice and stores m_terminate      *)
(* after the second load; the misc thread may run between these, so each   *)
(* is a step.  The rest of a slot runs without touching another thread's   *)
(* state and is one step.                                                  *)
(***************************************************************************)
EXTENDS ServerState

InLoop == main = "loop"

-----------------------------------------------------------------------------
(* send_process_result.                                                    *)

Finishing(e) == IF e.kind = "busy" THEN "busy" ELSE "final"

\* The empty id goes to every client and touches no entry; another id goes to
\* the socket recorded for it in m, and the entry is erased if the task
\* finished.
SendProcessResult(m, e) ==
  IF e.id # NoId /\ m[e.id] # NoClient /\ e.finish
    THEN /\ requests' = [m EXCEPT ![e.id] = NoClient]
         /\ answer' = [answer EXCEPT ![e.id] = Finishing(e)]
    ELSE requests' = m /\ UNCHANGED answer

-----------------------------------------------------------------------------
(* Sockets.                                                                *)

IncomingConnection(c) ==
  /\ InLoop
  /\ conn[c] = "new"
  /\ conn' = [conn EXCEPT ![c] = "up"]
  /\ UNCHANGED <<wire, sent, requests, answer, mainVars, events, queueVars,
                 pc, task, pos, flagVars, deviceVars, ghostVars>>

\* A client writes a request with a fresh id; the server may be anywhere.
ClientSends(c, cmd) ==
  /\ Alive
  /\ conn[c] = "up"
  /\ sent < MaxRequests
  /\ sent' = sent + 1
  /\ wire' = [wire EXCEPT ![c] = Append(@, [id |-> sent + 1, cmd |-> cmd])]
  /\ UNCHANGED <<conn, requests, answer, mainVars, events, queueVars,
                 pc, task, pos, flagVars, deviceVars, ghostVars>>

\* Mutant: only the first entry of the socket is erased.
DropFirstRequest(c) ==
  LET mine == {i \in Id : requests[i] = c} IN
  requests' = [i \in Id |->
    IF i \in mine /\ \A j \in mine : i <= j THEN NoClient ELSE requests[i]]

\* onDisconnected erases every entry of the socket.
DropRequests(c) ==
  requests' = [i \in Id |-> IF requests[i] = c THEN NoClient ELSE requests[i]]

OnDisconnected(c) ==
  /\ InLoop
  /\ conn[c] = "up"
  /\ conn' = [conn EXCEPT ![c] = "gone"]
  /\ wire' = [wire EXCEPT ![c] = <<>>]
  /\ DropRequests(c)
  /\ UNCHANGED <<sent, answer, mainVars, events, queueVars,
                 pc, task, pos, flagVars, deviceVars, ghostVars>>

-----------------------------------------------------------------------------
(* onReadyRead and process_request.                                        *)

\* readAll returns whatever has arrived.  One request parses; several in one
\* read are not one JSON document, and parse to the empty object.
Parsed(bytes) == IF Len(bytes) = 1 THEN bytes[1] ELSE NoRequest

Record(c, id) == [requests EXCEPT ![id] = c]

\* server_report_info, sent by the busy gate before the slot returns.
BusyReply(id) == [id |-> id, kind |-> "busy", finish |-> TRUE]

\* Mutant: no busy gate.
OnReadyReadNoGate(c) ==
  /\ InLoop
  /\ conn[c] = "up"
  /\ \E n \in 1 .. Len(wire[c]) :
       LET req == Parsed(SubSeq(wire[c], 1, n)) IN
       /\ wire' = [wire EXCEPT ![c] = SubSeq(@, n + 1, Len(@))]
       /\ requests' = Record(c, req.id)
       /\ main' = "dispatch"
       /\ current' = [id |-> req.id, cmd |-> req.cmd, run |-> runs]
  /\ UNCHANGED <<conn, sent, answer, events, queueVars, pc, task, pos,
                 flagVars, deviceVars, ghostVars>>

\* Mutant: the gate replies that the server is busy, and does not return.
OnReadyReadGoesOn(c) ==
  /\ InLoop
  /\ conn[c] = "up"
  /\ \E n \in 1 .. Len(wire[c]) :
       LET req == Parsed(SubSeq(wire[c], 1, n)) IN
       /\ wire' = [wire EXCEPT ![c] = SubSeq(@, n + 1, Len(@))]
       /\ IF isProcessing
            THEN SendProcessResult(Record(c, req.id), BusyReply(req.id))
            ELSE requests' = Record(c, req.id) /\ UNCHANGED answer
       /\ main' = "dispatch"
       /\ current' = [id |-> req.id, cmd |-> req.cmd, run |-> runs]
  /\ UNCHANGED <<conn, sent, events, queueVars, pc, task, pos, flagVars,
                 deviceVars, ghostVars>>

\* Read, record the socket under the id, and pass or fail the busy gate.
OnReadyRead(c) ==
  /\ InLoop
  /\ conn[c] = "up"
  /\ \E n \in 1 .. Len(wire[c]) :
       LET req == Parsed(SubSeq(wire[c], 1, n)) IN
       /\ wire' = [wire EXCEPT ![c] = SubSeq(@, n + 1, Len(@))]
       /\ \/ /\ ~isProcessing
             /\ requests' = Record(c, req.id)
             /\ main' = "dispatch"
             /\ current' = [id |-> req.id, cmd |-> req.cmd, run |-> runs]
             /\ UNCHANGED answer
          \/ /\ isProcessing
             /\ SendProcessResult(Record(c, req.id), BusyReply(req.id))
             /\ UNCHANGED mainVars
  /\ UNCHANGED <<conn, sent, events, queueVars, pc, task, pos, flagVars,
                 deviceVars, ghostVars>>

ToTask(req) == [id |-> req.id, cmd |-> req.cmd]

DispatchEnum ==
  /\ main = "dispatch"
  /\ current.cmd \in EnumCommand
  /\ enumQueue' = Append(enumQueue, ToTask(current))
  /\ main' = "loop"
  /\ current' = NoCurrent
  /\ UNCHANGED <<sockVars, events, queue, frames, presses, pc, task, pos,
                 flagVars, deviceVars, ghostVars>>

DispatchMisc ==
  /\ main = "dispatch"
  /\ current.cmd \in MiscCommand
  /\ queue' = Append(queue, ToTask(current))
  /\ slipped' = slipped + (IF isProcessing THEN 1 ELSE 0)
  /\ main' = "loop"
  /\ current' = NoCurrent
  /\ UNCHANGED <<sockVars, events, enumQueue, frames, presses, pc, task, pos,
                 flagVars, deviceVars, runs>>

\* client_request_start_process with param false: the second load of
\* m_is_processing.
DispatchStop ==
  /\ main = "dispatch"
  /\ current.cmd = "stop_process"
  /\ \/ /\ isProcessing
        /\ main' = "terminate"
        /\ UNCHANGED current
     \/ /\ ~isProcessing
        /\ main' = "loop"
        /\ current' = NoCurrent
  /\ UNCHANGED <<sockVars, events, queueVars, pc, task, pos, flagVars,
                 deviceVars, runs, slipped>>

StoreTerminate ==
  /\ main = "terminate"
  /\ terminate' = TRUE
  /\ main' = "loop"
  /\ current' = NoCurrent
  /\ UNCHANGED <<sockVars, events, queueVars, pc, task, pos, isProcessing,
                 deviceVars, ghostVars>>

\* A command no branch of process_request names; nothing replies to it.
DispatchUnknown ==
  /\ main = "dispatch"
  /\ current.cmd = "unknown"
  /\ main' = "loop"
  /\ current' = NoCurrent
  /\ UNCHANGED <<sockVars, events, queueVars, pc, task, pos, flagVars,
                 deviceVars, ghostVars>>

-----------------------------------------------------------------------------
(* stop(): the main thread stays in this slot to the end of the process.   *)

DispatchStopServer ==
  /\ main = "dispatch"
  /\ current.cmd = "stop_server"
  /\ main' = "delete_enum"
  /\ UNCHANGED <<sockVars, current, events, queueVars, pc, task, pos,
                 flagVars, deviceVars, ghostVars>>

\* Mutant: the main thread waits for the misc thread before it stops it.
DeleteEnumThreadWaits ==
  /\ main = "delete_enum"
  /\ enumQueue = <<>> /\ pc = "exited"
  /\ main' = "delete_misc"
  /\ UNCHANGED <<sockVars, current, events, queueVars, pc, task, pos,
                 flagVars, deviceVars, ghostVars>>

\* ~thread_base of the enumeration thread returns once its queue is empty.
DeleteEnumThread ==
  /\ main = "delete_enum"
  /\ enumQueue = <<>>
  /\ main' = "delete_misc"
  /\ UNCHANGED <<sockVars, current, events, queueVars, pc, task, pos,
                 flagVars, deviceVars, ghostVars>>

\* ~thread_misc closes and deletes m_camera and the other members; only then
\* does ~thread_base stop the thread and wait for it ("join_misc").
ReleaseMembers ==
  /\ main = "delete_misc"
  /\ camera' = "none"
  /\ detector' = FALSE
  /\ grabbing' = FALSE
  /\ main' = "join_misc"
  /\ UNCHANGED <<sockVars, current, events, queueVars, pc, task, pos,
                 flagVars, streamId, photos, ghostVars>>

\* Then the sockets are closed.  A socket with nothing left to write calls
\* onDisconnected at once, which takes it out of the list that the loop is
\* running over: the loop may pass over sockets that come after it.
JoinMiscThread ==
  /\ main = "join_misc"
  /\ pc = "exited"
  /\ \E missed \in SUBSET clients :
       /\ missed = {} \/ missed # clients
       /\ conn' = [c \in Client |->
                     IF c \in clients \ missed THEN "gone" ELSE conn[c]]
  /\ requests' = [i \in Id |-> NoClient]
  /\ main' = "exited"
  /\ UNCHANGED <<wire, sent, answer, current, events, queueVars, pc, task,
                 pos, flagVars, deviceVars, ghostVars>>

-----------------------------------------------------------------------------
(* Slots called through the event queue.                                   *)

\* The parameters sent along with these two come from m_fiber_end_detector.
NeedsDetector(e) == e.kind \in {"parameters", "opened"}

\* on_device_enum_task_finished and on_misc_task_finished.
OnTaskFinished ==
  /\ InLoop
  /\ events # <<>>
  /\ ~(NeedsDetector(Head(events)) /\ ~detector)
  /\ SendProcessResult(requests, Head(events))
  /\ events' = Tail(events)
  /\ UNCHANGED <<conn, wire, sent, mainVars, queueVars, pc, task, pos,
                 flagVars, deviceVars, ghostVars>>

OnTaskFinishedFault ==
  /\ InLoop
  /\ events # <<>>
  /\ NeedsDetector(Head(events)) /\ ~detector
  /\ main' = "crashed"
  /\ UNCHANGED <<sockVars, current, events, queueVars, pc, task, pos,
                 flagVars, deviceVars, ghostVars>>

\* on_device_request_start_process: a press of the device's button reaches
\* add_task with the empty id and without passing the busy gate.
OnDeviceRequestStartProcess ==
  /\ InLoop
  /\ presses < MaxPresses
  /\ presses' = presses + 1
  /\ queue' = Append(queue, [id |-> NoId, cmd |-> "start_process"])
  /\ UNCHANGED <<sockVars, mainVars, events, enumQueue, frames, pc, task, pos,
                 flagVars, deviceVars, ghostVars>>

FramesWaiting == Cardinality({i \in DOMAIN events : events[i].kind = "frame"})

\* The driver's thread emits post_stream_image_ready: for a frame of a loop, or
\* for one that comes after its trigger_once has given up.
PostStreamImage ==
  /\ Alive
  /\ camera \in OpenCamera /\ grabbing
  /\ frames + FramesWaiting < MaxFrames
  /\ frames' = frames + 1
  /\ UNCHANGED <<sockVars, mainVars, events, queue, enumQueue, presses, pc,
                 task, pos, flagVars, deviceVars, ghostVars>>

\* on_stream_image_ready, a slot of the main thread, posts it under what
\* m_stream_request_id is by then, whatever has become of the camera.
OnStreamImageReady ==
  /\ InLoop
  /\ frames > 0
  /\ frames' = frames - 1
  /\ PostEvent(streamId, "frame", FALSE)
  /\ UNCHANGED <<sockVars, mainVars, queue, enumQueue, presses, pc, task, pos,
                 flagVars, deviceVars, ghostVars>>

MainWork ==
  \/ \E c \in Client : OnReadyRead(c)
  \/ DispatchEnum \/ DispatchMisc \/ DispatchStop \/ DispatchUnknown
  \/ StoreTerminate
  \/ DispatchStopServer \/ DeleteEnumThread \/ ReleaseMembers
  \/ JoinMiscThread
  \/ OnTaskFinished \/ OnTaskFinishedFault \/ OnStreamImageReady

Environment ==
  \/ \E c \in Client : IncomingConnection(c) \/ OnDisconnected(c)
  \/ \E c \in Client, cmd \in Command : ClientSends(c, cmd)
  \/ OnDeviceRequestStartProcess
  \/ PostStreamImage
=============================================================================
