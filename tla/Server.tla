------------------------------- MODULE Server -------------------------------
(***************************************************************************)
(* The server as a whole: the main thread (ServerMain), the misc thread    *)
(* (ServerMisc) and the device enumeration thread (below), which share     *)
(* task queues, the event queue of the main thread and the flags           *)
(* m_is_processing and m_terminate.                                        *)
(***************************************************************************)
EXTENDS ServerMain, ServerMisc

-----------------------------------------------------------------------------
(* The device enumeration thread (thread_device_enum.cpp).                 *)

EnumTask ==
  /\ Alive
  /\ enumQueue # <<>>
  /\ PostEvent(Head(enumQueue).id,
               IF Head(enumQueue).cmd = "server_parameter" THEN "parameters"
                                                           ELSE "result",
               TRUE)
  /\ enumQueue' = Tail(enumQueue)
  /\ UNCHANGED <<sockVars, mainVars, queue, frames, presses, pc, task, pos,
                 flagVars, deviceVars, ghostVars>>

\* A task taken after ~thread_device_enum is a pure virtual call.
EnumFault ==
  /\ main = "delete_enum"
  /\ enumQueue # <<>>
  /\ main' = "crashed"
  /\ UNCHANGED <<sockVars, current, events, queueVars, pc, task, pos,
                 flagVars, deviceVars, ghostVars>>

EnumWork == EnumTask \/ EnumFault

-----------------------------------------------------------------------------
Init ==
  /\ conn = [c \in Client |-> "new"]
  /\ wire = [c \in Client |-> <<>>]
  /\ sent = 0
  /\ requests = [i \in Id |-> NoClient]
  /\ answer = [i \in Id |-> "none"]
  /\ main = "loop"
  /\ current = NoCurrent
  /\ events = <<>>
  /\ queue = <<>> /\ enumQueue = <<>>
  /\ frames = 0 /\ presses = 0
  /\ pc = "idle"
  /\ task = NoRequest
  /\ pos = 1
  /\ isProcessing = FALSE /\ terminate = FALSE
  /\ camera \in InitCamera
  /\ grabbing = FALSE
  /\ streamId = NoId
  /\ photos \in 0 .. MaxPhotos
  /\ detector \in InitDetector
  /\ runs = 0 /\ slipped = 0

\* Nothing is left to do: the process is gone, or each thread waits for work.
Rest ==
  /\ \/ main \in {"exited", "crashed"}
     \/ /\ main = "loop" /\ events = <<>> /\ frames = 0
        /\ \A c \in Client : wire[c] = <<>>
        /\ pc = "idle" /\ queue = <<>> /\ enumQueue = <<>>
  /\ UNCHANGED vars

Next == MainWork \/ MiscWork \/ EnumWork \/ Environment \/ Rest

\* Each thread keeps running; clients, cameras and buttons need not.
Fairness == WF_vars(MainWork) /\ WF_vars(MiscWork) /\ WF_vars(EnumWork)

Spec     == Init /\ [][Next]_vars
FairSpec == Spec /\ Fairness

-----------------------------------------------------------------------------
(* Types.                                                                  *)

MainState == {"loop", "dispatch", "terminate", "delete_enum", "delete_misc",
              "join_misc", "exited", "crashed"}

\* The misc thread holds m_is_processing in these places.
ProcessPlace == {"begin", "check", "move", "detect", "home", "leave"}
BusyPlace    == ProcessPlace \cup {"calibrate"}
MiscPlace    == BusyPlace \cup
                {"idle", "run", "report", "clear", "calibrated", "exited"}

AnswerState == {"none", "busy", "final"}

(* Every variable ranges over the values its declaration in the code       *)
(* admits: sockets, request map, queues, flags and the places of the two   *)
(* threads.                                                                *)
TypeOK ==
  /\ conn \in [Client -> {"new", "up", "gone"}]
  /\ wire \in [Client -> Seq(Request)]
  /\ sent \in 0 .. MaxRequests
  /\ requests \in [Id -> Client \cup {NoClient}]
  /\ answer \in [Id -> AnswerState]
  /\ main \in MainState
  /\ current \in [id : Id, cmd : AllCommand, run : Nat]
  /\ events \in Seq(Event)
  /\ queue \in Seq(Request)
  /\ enumQueue \in Seq(Request)
  /\ frames \in 0 .. MaxFrames /\ presses \in 0 .. MaxPresses
  /\ pc \in MiscPlace
  /\ task \in Request
  /\ pos \in Nat
  /\ isProcessing \in BOOLEAN /\ terminate \in BOOLEAN
  /\ camera \in CameraState
  /\ grabbing \in BOOLEAN
  /\ streamId \in Id
  /\ photos \in 0 .. MaxPhotos
  /\ detector \in BOOLEAN
  /\ runs \in Nat /\ slipped \in Nat

-----------------------------------------------------------------------------
(* Safety.                                                                 *)

(* m_is_processing is set exactly while the misc thread is between the     *)
(* store at the head of start_process or auto_calibration and the store    *)
(* that ends it.  Hence start_process's own guard, "if(m_is_processing)    *)
(* return 1", never refuses anything: the flag is clear whenever the       *)
(* thread gets there.                                                      *)
ProcessingFlag ==
  /\ isProcessing <=> pc \in BusyPlace
  /\ pc = "run" => ~isProcessing

(* The request map holds raw socket pointers, which replies are written    *)
(* to; each of them is a socket that is still connected.                   *)
RoutedToConnected ==
  \A i \in Id : requests[i] # NoClient => conn[requests[i]] = "up"

(* A message with which a task is finished is the last one posted under    *)
(* its request id: nothing follows it in the event queue, and the misc     *)
(* thread is done with the task but for clearing m_terminate.  (A message  *)
(* that came later would find no entry in the request map and be lost.)    *)
FinishIsLast ==
  \A k \in DOMAIN events : events[k].finish /\ events[k].id # NoId =>
    /\ \A l \in k + 1 .. Len(events) : events[l].id # events[k].id
    /\ task.id = events[k].id => pc = "clear"
    /\ streamId # events[k].id

InQueue(q, i) == \E k \in DOMAIN q : q[k].id = i

(* A request the busy gate refused is in no queue, is not being dispatched *)
(* and is not being executed, now or later.                                *)
RefusedNeverRuns ==
  \A i \in Id \ {NoId} : answer[i] = "busy" =>
    /\ ~InQueue(queue, i) /\ ~InQueue(enumQueue, i)
    /\ task.id # i /\ current.id # i

(* The busy gate and the queueing of a request are separate steps, so a    *)
(* request can pass the gate and be queued after a run has begun; but the  *)
(* main thread handles one request at a time, so at most one such request  *)
(* slips past the gate in any run.                                         *)
AtMostOneSlips ==
  isProcessing =>
    slipped + (IF main = "dispatch" THEN 1 ELSE 0) <= 1

(* What StopOnlyByRace rests on: a request is dispatched with the number of *)
(* runs there had been at the gate, and if a run is on by now, or its stop *)
(* has been accepted, then that run has begun since.                       *)
RunSinceGate ==
  /\ main = "dispatch" => current.run <= runs
  /\ main = "dispatch" /\ isProcessing => current.run < runs
  /\ main = "terminate" => current.run < runs

(* m_terminate is only ever set on behalf of a stop request that had       *)
(* passed the busy gate before the run it hits began: a stop that arrives  *)
(* while a run is visible to the clients never sets it.                    *)
StopOnlyByRace ==
  [][~terminate /\ terminate' => current.run < runs]_vars

-----------------------------------------------------------------------------
(* Liveness.                                                               *)

(* A run always comes to an end, so the busy gate opens again.             *)
GateReopens == isProcessing ~> (~isProcessing \/ ~Alive)

Serving == main \in {"loop", "dispatch", "terminate"}

(* A queued start_process request is answered with a message that finishes *)
(* it, unless its client disconnects or the server stops or dies first.    *)
StartIsAnswered ==
  \A c \in Client, i \in Id \ {NoId} :
    (/\ requests[i] = c
     /\ \E k \in DOMAIN queue : queue[k] = [id |-> i, cmd |-> "start_process"])
      ~> (answer[i] = "final" \/ conn[c] = "gone" \/ ~Serving)

(* A stop_server request ends the process, cleanly or not.                 *)
StopServerEnds == main = "delete_enum" ~> main \in {"exited", "crashed"}

-----------------------------------------------------------------------------
(* What the comments and documents of the code promise and it does not     *)
(* keep.                                                                   *)

(* docs/PROTOCOL.md: stop_process interrupts an in-progress start_process; *)
(* so a stop request is not refused by the busy gate.                      *)
StopReachesRun ==
  [][\A c \in Client, i \in Id :
       (\E k \in DOMAIN wire[c] : wire[c][k].id = i
                                  /\ wire[c][k].cmd = "stop_process")
         => ~(answer[i] # "busy" /\ answer'[i] = "busy")]_vars
=============================================================================
