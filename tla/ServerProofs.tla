---------------------------- MODULE ServerProofs ----------------------------
(***************************************************************************)
(* Theorems about Server, for any number of clients, requests, presses,    *)
(* photo positions, frames and waiting events.                             *)
(***************************************************************************)
EXTENDS Server, FiniteSetTheorems, TLAPS

(* The ids, commands and records the type invariant is made of.            *)
LEMMA Constants ==
  /\ NoId \in Id
  /\ NoRequest \in Request
  /\ NoCurrent \in [id : Id, cmd : AllCommand, run : Nat]
  /\ "start_process" \in AllCommand
BY ServerAssumption DEF NoId, Id, NoRequest, NoCurrent, Request, AllCommand,
   EnumCommand, MiscCommand

(* Posting a message of a known kind keeps the event queue well typed.     *)
LEMMA PostType ==
  ASSUME events \in Seq(Event),
         NEW i \in Id, NEW kind \in Kind, NEW finish \in BOOLEAN,
         PostEvent(i, kind, finish)
  PROVE  events' \in Seq(Event)
BY DEF PostEvent, Event

(* A reply keeps the request map and the answers well typed.               *)
LEMMA ReplyType ==
  ASSUME NEW m \in [Id -> Client \cup {NoClient}], NEW e \in Event,
         answer \in [Id -> AnswerState],
         SendProcessResult(m, e)
  PROVE  /\ requests' \in [Id -> Client \cup {NoClient}]
         /\ answer' \in [Id -> AnswerState]
BY DEF SendProcessResult, Finishing, AnswerState, Event

\* Two sequences over a set make one over it.
LEMMA ConcatType ==
  ASSUME NEW S, NEW s \in Seq(S), NEW t \in Seq(S)
  PROVE  s \o t \in Seq(S)
OBVIOUS

\* The server starts with its types.
LEMMA TypeInit == Init => TypeOK
<1> SUFFICES ASSUME Init PROVE TypeOK
    OBVIOUS
<1>1. /\ conn \in [Client -> {"new", "up", "gone"}]
      /\ wire \in [Client -> Seq(Request)]
      /\ sent \in 0 .. MaxRequests
      /\ requests \in [Id -> Client \cup {NoClient}]
      /\ answer \in [Id -> AnswerState]
    BY ServerAssumption DEF Init, AnswerState
<1>2. /\ main \in MainState
      /\ current \in [id : Id, cmd : AllCommand, run : Nat]
      /\ events \in Seq(Event)
      /\ queue \in Seq(Request)
      /\ enumQueue \in Seq(Request)
      /\ frames \in 0 .. MaxFrames /\ presses \in 0 .. MaxPresses
    BY ServerAssumption, Constants DEF Init, MainState
<1>3. /\ pc \in MiscPlace
      /\ task \in Request
      /\ pos \in Nat
      /\ isProcessing \in BOOLEAN /\ terminate \in BOOLEAN
    BY Constants DEF Init, MiscPlace
<1>4. /\ camera \in CameraState
      /\ grabbing \in BOOLEAN
      /\ streamId \in Id
      /\ photos \in 0 .. MaxPhotos
      /\ detector \in BOOLEAN
      /\ runs \in Nat /\ slipped \in Nat
    BY ServerAssumption DEF Init, NoId, Id
<1> QED
    BY <1>1, <1>2, <1>3, <1>4 DEF TypeOK

(* The main thread.                                                        *)
LEMMA TypeMain == TypeOK /\ MainWork => TypeOK'
<1> SUFFICES ASSUME TypeOK, MainWork PROVE TypeOK'
    OBVIOUS
<1> USE DEF sockVars, mainVars, queueVars, flagVars, deviceVars, ghostVars
<1>1. ASSUME NEW c \in Client, OnReadyRead(c) PROVE TypeOK'
  <2>1. PICK n \in 1 .. Len(wire[c]) :
          LET req == Parsed(SubSeq(wire[c], 1, n)) IN
          /\ wire' = [wire EXCEPT ![c] = SubSeq(@, n + 1, Len(@))]
          /\ \/ /\ ~isProcessing
                /\ requests' = Record(c, req.id)
                /\ main' = "dispatch"
                /\ current' = [id |-> req.id, cmd |-> req.cmd, run |-> runs]
                /\ UNCHANGED answer
             \/ /\ isProcessing
                /\ SendProcessResult(Record(c, req.id), BusyReply(req.id))
                /\ UNCHANGED mainVars
    BY <1>1 DEF OnReadyRead
  <2> DEFINE req == Parsed(SubSeq(wire[c], 1, n))
  <2>2. wire[c] \in Seq(Request) /\ Len(wire[c]) \in Nat
    BY DEF TypeOK
  <2>3. SubSeq(wire[c], 1, n) \in Seq(Request)
    BY <2>2
  <2>4. req \in Request
    BY <2>3, Constants DEF Parsed
  <2>5. wire' \in [Client -> Seq(Request)]
    <3>1. SubSeq(wire[c], n + 1, Len(wire[c])) \in Seq(Request)
      BY <2>2
    <3> QED BY <2>1, <3>1 DEF TypeOK
  <2>6. Record(c, req.id) \in [Id -> Client \cup {NoClient}]
    BY <2>4 DEF TypeOK, Record, Request
  <2>7. BusyReply(req.id) \in Event
    BY <2>4 DEF BusyReply, Event, Kind, Request
  <2>8. CASE ~isProcessing
    <3>1. current' \in [id : Id, cmd : AllCommand, run : Nat]
      BY <2>1, <2>4, <2>8 DEF TypeOK, Request
    <3> QED
      BY <1>1, <2>1, <2>5, <2>6, <2>8, <3>1 DEF TypeOK, OnReadyRead, MainState
  <2>9. CASE isProcessing
    <3>1. /\ requests' \in [Id -> Client \cup {NoClient}]
          /\ answer' \in [Id -> AnswerState]
      BY <2>1, <2>6, <2>7, <2>9, ReplyType DEF TypeOK
    <3> QED
      BY <1>1, <2>1, <2>5, <2>9, <3>1 DEF TypeOK, OnReadyRead
  <2> QED BY <2>8, <2>9
<1>a. ToTask(current) \in Request
  BY DEF TypeOK, ToTask, Request
<1>2. ASSUME DispatchEnum PROVE TypeOK'
  <2>1. enumQueue' \in Seq(Request)
    BY <1>2, <1>a DEF TypeOK, DispatchEnum
  <2> QED BY <1>2, <2>1, Constants DEF TypeOK, DispatchEnum, MainState
<1>3. ASSUME DispatchMisc PROVE TypeOK'
  <2>1. queue' \in Seq(Request)
    BY <1>3, <1>a DEF TypeOK, DispatchMisc
  <2>2. slipped' \in Nat
    BY <1>3 DEF TypeOK, DispatchMisc
  <2> QED BY <1>3, <2>1, <2>2, Constants DEF TypeOK, DispatchMisc, MainState
<1>4. ASSUME DispatchStop PROVE TypeOK'
  BY <1>4, Constants DEF TypeOK, DispatchStop, MainState
<1>5. ASSUME DispatchUnknown PROVE TypeOK'
  BY <1>5, Constants DEF TypeOK, DispatchUnknown, MainState
<1>6. ASSUME StoreTerminate PROVE TypeOK'
  BY <1>6, Constants DEF TypeOK, StoreTerminate, MainState
<1>7. ASSUME DispatchStopServer \/ DeleteEnumThread PROVE TypeOK'
  BY <1>7 DEF TypeOK, DispatchStopServer, DeleteEnumThread, MainState
<1>8. ASSUME ReleaseMembers PROVE TypeOK'
  BY <1>8 DEF TypeOK, ReleaseMembers, MainState, CameraState
<1>9. ASSUME JoinMiscThread PROVE TypeOK'
  BY <1>9 DEF TypeOK, JoinMiscThread, MainState
<1>10. ASSUME OnTaskFinished PROVE TypeOK'
  <2>1. Head(events) \in Event /\ Tail(events) \in Seq(Event)
    BY <1>10 DEF TypeOK, OnTaskFinished
  <2>2. /\ requests' \in [Id -> Client \cup {NoClient}]
        /\ answer' \in [Id -> AnswerState]
    BY <1>10, <2>1, ReplyType DEF TypeOK, OnTaskFinished
  <2> QED BY <1>10, <2>1, <2>2 DEF TypeOK, OnTaskFinished
<1>11. ASSUME OnTaskFinishedFault PROVE TypeOK'
  BY <1>11 DEF TypeOK, OnTaskFinishedFault, MainState
<1>12. ASSUME OnStreamImageReady PROVE TypeOK'
  <2>1. events' \in Seq(Event)
    BY <1>12, PostType DEF TypeOK, OnStreamImageReady, Kind
  <2>2. frames' \in 0 .. MaxFrames
    BY <1>12, ServerAssumption DEF TypeOK, OnStreamImageReady
  <2> QED BY <1>12, <2>1, <2>2 DEF TypeOK, OnStreamImageReady
<1> QED
  BY <1>1, <1>2, <1>3, <1>4, <1>5, <1>6, <1>7, <1>8, <1>9, <1>10, <1>11,
     <1>12
  DEF MainWork

(* The branches of process_task that are one step.                         *)
LEMMA ReplyReturnType ==
  ASSUME TypeOK, NEW kind \in Kind, ReplyAndReturn(kind) \/ ReturnSilently,
         camera' \in CameraState, grabbing' \in BOOLEAN, streamId' \in Id,
         photos' \in 0 .. MaxPhotos, detector' \in BOOLEAN
  PROVE  TypeOK'
<1> USE DEF sockVars, mainVars, queueVars, flagVars, deviceVars, ghostVars,
            MainUnchanged, LoopUnchanged
<1>1. events' \in Seq(Event)
  <2>1. CASE ReplyAndReturn(kind)
    <3>1. task.id \in Id
      BY DEF TypeOK, Request
    <3> QED BY <2>1, <3>1, PostType DEF TypeOK, ReplyAndReturn
  <2>2. CASE ReturnSilently
    BY <2>2 DEF TypeOK, ReturnSilently
  <2> QED BY <2>1, <2>2
<1> QED
  BY <1>1, Constants DEF TypeOK, ReplyAndReturn, ReturnSilently, Return,
     MiscPlace

(* What the camera operators return.                                       *)
LEMMA CameraTypes ==
  ASSUME camera \in CameraState, grabbing \in BOOLEAN
  PROVE  /\ \A m \in OpenCamera : AfterSetMode(m) \subseteq CameraState
         /\ AfterStartGrab \subseteq BOOLEAN
         /\ AfterRestart \subseteq BOOLEAN
BY DEF AfterSetMode, AfterStartGrab, AfterRestart, IsOpen, CameraState,
   OpenCamera

(* The misc thread's single steps.                                         *)
LEMMA TypeBranches ==
  ASSUME TypeOK,
         \/ OpenCameraTask \/ CloseCameraTask \/ ChangeCameraParameterTask
         \/ StopGrabTask \/ TriggerOnceTask \/ ChangeAlgorithmParameterTask
         \/ UserConfigSetTask \/ MoveCameraTask \/ MoveCameraByIndexTask
         \/ SetMotionParameterTask \/ AutoFocusTask \/ AnomalyDetectionTask
         \/ UpdateServerParameterTask
  PROVE  TypeOK'
<1>1. {"result", "opened"} \subseteq Kind
  BY DEF Kind
<1>2. /\ camera \in CameraState /\ grabbing \in BOOLEAN /\ streamId \in Id
      /\ photos \in 0 .. MaxPhotos /\ detector \in BOOLEAN
  BY DEF TypeOK
<1>3. {"none", "closed"} \cup OpenCamera \subseteq CameraState
  BY DEF CameraState
<1>4. 0 .. MaxPhotos = 0 .. MaxPhotos /\ MaxPhotos \in Nat
  BY ServerAssumption
<1>5. CASE OpenCameraTask
  <2>1. camera' \in CameraState /\ grabbing' \in BOOLEAN
    BY <1>2, <1>3, <1>5 DEF OpenCameraTask
  <2>2. ReplyAndReturn("result") \/ ReplyAndReturn("opened")
    BY <1>5 DEF OpenCameraTask
  <2>3. UNCHANGED <<streamId, photos, detector>>
    BY <1>5 DEF OpenCameraTask
  <2> QED BY <1>1, <1>2, <2>1, <2>2, <2>3, ReplyReturnType
<1>6. CASE CloseCameraTask
  <2>1. camera' \in CameraState
    BY <1>2, <1>3, <1>6 DEF CloseCameraTask
  <2> QED
    BY <1>1, <1>2, <1>6, <2>1, ReplyReturnType DEF CloseCameraTask
<1>7. CASE ChangeCameraParameterTask
  <2>1. camera' \in CameraState
    BY <1>2, <1>3, <1>7 DEF ChangeCameraParameterTask
  <2> QED
    BY <1>1, <1>2, <1>7, <2>1, ReplyReturnType DEF ChangeCameraParameterTask
<1>8. CASE StopGrabTask
  <2>1. grabbing' \in BOOLEAN
    BY <1>2, <1>8 DEF StopGrabTask
  <2> QED BY <1>1, <1>2, <1>8, <2>1, ReplyReturnType DEF StopGrabTask
<1>9. CASE TriggerOnceTask
  BY <1>1, <1>2, <1>9, ReplyReturnType DEF TriggerOnceTask, deviceVars
<1>10. CASE ChangeAlgorithmParameterTask
  BY <1>1, <1>2, <1>10, ReplyReturnType
  DEF ChangeAlgorithmParameterTask, deviceVars
<1>11. CASE UserConfigSetTask
  <2>1. photos' \in 0 .. MaxPhotos
    BY <1>2, <1>11 DEF UserConfigSetTask
  <2> QED BY <1>1, <1>2, <1>11, <2>1, ReplyReturnType DEF UserConfigSetTask
<1>12. CASE MoveCameraTask
  <2>1. grabbing' \in BOOLEAN
    BY <1>2, <1>12, CameraTypes DEF MoveCameraTask
  <2> QED BY <1>1, <1>2, <1>12, <2>1, ReplyReturnType DEF MoveCameraTask
<1>13. CASE MoveCameraByIndexTask
  <2>1. grabbing' \in BOOLEAN
    BY <1>2, <1>13, CameraTypes DEF MoveCameraByIndexTask
  <2>2. ReplyAndReturn("result") \/ ReturnSilently
    BY <1>13 DEF MoveCameraByIndexTask
  <2>3. UNCHANGED <<camera, streamId, photos, detector>>
    BY <1>13 DEF MoveCameraByIndexTask
  <2> QED BY <1>1, <1>2, <2>1, <2>2, <2>3, ReplyReturnType
<1>14. CASE SetMotionParameterTask
  BY <1>1, <1>2, <1>14, ReplyReturnType DEF SetMotionParameterTask, deviceVars
<1>15. CASE AutoFocusTask
  BY <1>1, <1>2, <1>15, ReplyReturnType DEF AutoFocusTask, deviceVars
<1>16. CASE AnomalyDetectionTask
  <2>1. detector' \in BOOLEAN
    BY <1>16 DEF AnomalyDetectionTask
  <2> QED BY <1>1, <1>2, <1>16, <2>1, ReplyReturnType DEF AnomalyDetectionTask
<1>17. CASE UpdateServerParameterTask
  <2>1. photos' \in 0 .. MaxPhotos
    BY <1>17 DEF UpdateServerParameterTask
  <2> QED
    BY <1>1, <1>2, <1>17, <2>1, ReplyReturnType DEF UpdateServerParameterTask
<1> QED
  BY <1>5, <1>6, <1>7, <1>8, <1>9, <1>10, <1>11, <1>12, <1>13, <1>14, <1>15,
     <1>16, <1>17

(* The misc thread: the steps of start_process and auto_calibration, the   *)
(* loop of run(), and the faults.                                          *)
LEMMA TypeMisc == TypeOK /\ MiscWork => TypeOK'
<1> SUFFICES ASSUME TypeOK, MiscWork PROVE TypeOK'
    OBVIOUS
<1> USE DEF sockVars, mainVars, queueVars, flagVars, deviceVars, ghostVars,
            MainUnchanged, At, Running, Return
<1>a. /\ task.id \in Id
      /\ {"result", "running", "done", "aborted"} \subseteq Kind
      /\ {"once", "continuous"} \subseteq OpenCamera
  BY DEF TypeOK, Request, Kind, OpenCamera
<1>b. /\ \A m \in OpenCamera : AfterSetMode(m) \subseteq CameraState
      /\ AfterStartGrab \subseteq BOOLEAN
      /\ AfterRestart \subseteq BOOLEAN
  BY CameraTypes DEF TypeOK
<1>1. CASE TakeTask
  <2>1. Head(queue) \in Request /\ Tail(queue) \in Seq(Request)
    BY <1>1 DEF TypeOK, TakeTask
  <2> QED BY <1>1, <2>1 DEF TypeOK, TakeTask, MiscPlace
<1>2. CASE LeaveLoop
  BY <1>2 DEF TypeOK, LeaveLoop, MiscPlace
<1>3. CASE StartGrabTask
  <2>1. CASE ReplyAndReturn("result") /\ UNCHANGED deviceVars
    BY <2>1, <1>a, ReplyReturnType DEF TypeOK
  <2>2. CASE /\ grabbing' = TRUE /\ streamId' \in {streamId, task.id}
             /\ \E finish \in BOOLEAN : PostEvent(task.id, "result", finish)
             /\ Return /\ MainUnchanged /\ LoopUnchanged
    <3>1. events' \in Seq(Event)
      BY <2>2, <1>a, PostType DEF TypeOK
    <3> QED
      BY <1>3, <1>a, <2>2, <3>1, Constants
      DEF TypeOK, StartGrabTask, LoopUnchanged, MiscPlace
  <2> QED BY <1>3, <2>1, <2>2 DEF StartGrabTask
<1>4. CASE StartProcess
  <2>1. /\ isProcessing' \in BOOLEAN /\ runs' \in Nat /\ slipped' \in Nat
        /\ pc' \in {"idle", "begin"} /\ task' \in Request
    <3>1. CASE isProcessing
      BY <1>4, <3>1, Constants DEF TypeOK, StartProcess
    <3>2. CASE ~isProcessing
      BY <1>4, <3>2 DEF TypeOK, StartProcess
    <3> QED BY <3>1, <3>2
  <2> QED
    BY <1>4, <2>1 DEF TypeOK, StartProcess, MiscPlace, BusyPlace, ProcessPlace
<1>5. CASE BeginProcess
  <2>1. events' \in Seq(Event)
    BY <1>5, <1>a, PostType DEF TypeOK, BeginProcess
  <2> QED
    BY <1>5, <1>a, <1>b, <2>1
    DEF TypeOK, BeginProcess, MiscPlace, BusyPlace, ProcessPlace
<1>6. CASE CheckPosition
  BY <1>6 DEF TypeOK, CheckPosition, MiscPlace, BusyPlace, ProcessPlace
<1>7. CASE MoveToPosition
  <2>1. events' \in Seq(Event)
    BY <1>7, <1>a, PostType DEF TypeOK, MoveToPosition
  <2> QED
    BY <1>7, <1>b, <2>1
    DEF TypeOK, MoveToPosition, MiscPlace, BusyPlace, ProcessPlace
<1>8. CASE DetectAtPosition
  <2>1. events' \in Seq(Event)
    BY <1>8, <1>a, PostType DEF TypeOK, DetectAtPosition
  <2>2. /\ detector' \in BOOLEAN /\ pos' \in Nat
        /\ pc' \in {"home", "check"}
    <3>1. CASE terminate
      BY <1>8, <3>1 DEF TypeOK, DetectAtPosition
    <3>2. CASE ~terminate
      <4>1. detector' \in BOOLEAN
        BY <1>8, <3>2 DEF DetectAtPosition
      <4>2. \/ pc' = "check" /\ pos' = pos + 1
            \/ pc' = "home" /\ pos' = pos
        BY <1>8, <3>2 DEF DetectAtPosition
      <4> QED BY <4>1, <4>2 DEF TypeOK
    <3> QED BY <3>1, <3>2
  <2> QED
    BY <1>8, <2>1, <2>2
    DEF TypeOK, DetectAtPosition, MiscPlace, BusyPlace, ProcessPlace
<1>9. CASE ReturnHome
  <2>1. events' \in Seq(Event)
    BY <1>9, <1>a, PostType DEF TypeOK, ReturnHome
  <2> QED
    BY <1>9, <1>a, <1>b, <2>1
    DEF TypeOK, ReturnHome, MiscPlace, BusyPlace, ProcessPlace
<1>10. CASE LeaveProcess
  BY <1>10 DEF TypeOK, LeaveProcess, MiscPlace
<1>11. CASE ReportProcess
  <2>1. events' \in Seq(Event)
    BY <1>11, <1>a, PostType DEF TypeOK, ReportProcess
  <2> QED BY <1>11, <2>1 DEF TypeOK, ReportProcess, MiscPlace
<1>12. CASE ClearTerminate
  BY <1>12, Constants DEF TypeOK, ClearTerminate, MiscPlace
<1>13. CASE StartCalibration
  BY <1>13 DEF TypeOK, StartCalibration, MiscPlace, BusyPlace
<1>14. CASE CalibrationStage
  <2>1. events' \in Seq(Event)
    BY <1>14, <1>a, PostType DEF TypeOK, CalibrationStage
  <2> QED BY <1>14, <1>a, <1>b, <2>1 DEF TypeOK, CalibrationStage
<1>15. CASE LeaveCalibration
  BY <1>15 DEF TypeOK, LeaveCalibration, MiscPlace
<1>16. CASE FinishCalibration
  <2> DEFINE message(finish) ==
        [id |-> task.id, kind |-> "result", finish |-> finish]
  <2>1. message(TRUE) \in Event /\ message(FALSE) \in Event
    BY <1>a DEF Event
  <2>2. <<>> \in Seq(Event) /\ <<message(FALSE)>> \in Seq(Event)
    BY <2>1
  <2>3. <<message(TRUE)>> \in Seq(Event)
    BY <2>1
  <2> HIDE DEF message
  <2>4. PICK mode \in TriggerModes :
          events' = events \o (IF mode = "once" THEN <<message(FALSE)>>
                                                ELSE <<>>)
                           \o <<message(TRUE)>>
    BY <1>16 DEF FinishCalibration, message
  <2>5. events' \in Seq(Event)
    <3> DEFINE first == IF mode = "once" THEN <<message(FALSE)>> ELSE <<>>
    <3>1. first \in Seq(Event)
      BY <2>2
    <3> HIDE DEF first
    <3>2. events \o first \in Seq(Event)
      BY <3>1, ConcatType DEF TypeOK
    <3>3. (events \o first) \o <<message(TRUE)>> \in Seq(Event)
      BY <3>2, <2>3, ConcatType
    <3> QED BY <2>4, <3>3 DEF first
  <2> QED
    BY <1>16, <1>a, <1>b, <2>5, Constants
    DEF TypeOK, FinishCalibration, MiscPlace
<1>17. CASE Fault
  BY <1>17 DEF TypeOK, Fault, MainState
<1> QED
  BY <1>1, <1>2, <1>3, <1>4, <1>5, <1>6, <1>7, <1>8, <1>9, <1>10, <1>11,
     <1>12, <1>13, <1>14, <1>15, <1>16, <1>17, TypeBranches DEF MiscWork

(* The enumeration thread.                                                 *)
LEMMA TypeEnum == TypeOK /\ EnumWork => TypeOK'
<1> SUFFICES ASSUME TypeOK, EnumWork PROVE TypeOK'
    OBVIOUS
<1> USE DEF sockVars, mainVars, queueVars, flagVars, deviceVars, ghostVars
<1>1. CASE EnumTask
  <2>1. Head(enumQueue) \in Request /\ Tail(enumQueue) \in Seq(Request)
    BY <1>1 DEF TypeOK, EnumTask
  <2>2. events' \in Seq(Event)
    BY <1>1, <2>1, PostType DEF TypeOK, EnumTask, Request, Kind
  <2> QED BY <1>1, <2>1, <2>2 DEF TypeOK, EnumTask
<1>2. CASE EnumFault
  BY <1>2 DEF TypeOK, EnumFault, MainState
<1> QED BY <1>1, <1>2 DEF EnumWork

(* Clients, the button and the camera's frames.                            *)
LEMMA TypeEnvironment == TypeOK /\ Environment => TypeOK'
<1> SUFFICES ASSUME TypeOK, Environment PROVE TypeOK'
    OBVIOUS
<1> USE DEF sockVars, mainVars, queueVars, flagVars, deviceVars, ghostVars
<1>1. ASSUME NEW c \in Client, IncomingConnection(c) PROVE TypeOK'
  BY <1>1 DEF TypeOK, IncomingConnection
<1>2. ASSUME NEW c \in Client, OnDisconnected(c) PROVE TypeOK'
  <2>1. requests' \in [Id -> Client \cup {NoClient}]
    BY <1>2 DEF TypeOK, OnDisconnected, DropRequests
  <2>2. wire' \in [Client -> Seq(Request)]
    BY <1>2 DEF TypeOK, OnDisconnected
  <2> QED BY <1>2, <2>1, <2>2 DEF TypeOK, OnDisconnected
<1>3. ASSUME NEW c \in Client, NEW cmd \in Command, ClientSends(c, cmd)
      PROVE TypeOK'
  <2>1. sent + 1 \in Id /\ sent' \in 0 .. MaxRequests /\ cmd \in AllCommand
    BY <1>3, ServerAssumption DEF TypeOK, ClientSends, Id
  <2>2. [id |-> sent + 1, cmd |-> cmd] \in Request
    BY <2>1 DEF Request
  <2>3. wire' \in [Client -> Seq(Request)]
    <3>1. wire[c] \in Seq(Request)
      BY DEF TypeOK
    <3>2. Append(wire[c], [id |-> sent + 1, cmd |-> cmd]) \in Seq(Request)
      BY <2>2, <3>1
    <3> QED BY <1>3, <3>2 DEF TypeOK, ClientSends
  <2> QED BY <1>3, <2>1, <2>3 DEF TypeOK, ClientSends
<1>4. CASE OnDeviceRequestStartProcess
  <2>1. [id |-> NoId, cmd |-> "start_process"] \in Request
    BY Constants DEF Request
  <2>2. queue' \in Seq(Request)
    BY <1>4, <2>1 DEF TypeOK, OnDeviceRequestStartProcess
  <2>3. presses' \in 0 .. MaxPresses
    BY <1>4, ServerAssumption DEF TypeOK, OnDeviceRequestStartProcess
  <2> QED BY <1>4, <2>2, <2>3 DEF TypeOK, OnDeviceRequestStartProcess
<1>5. CASE PostStreamImage
  <2>1. FramesWaiting \in Nat
    <3>1. DOMAIN events = 1 .. Len(events) /\ Len(events) \in Nat
      BY DEF TypeOK
    <3>2. IsFiniteSet(DOMAIN events)
      BY <3>1, FS_Interval
    <3>3. IsFiniteSet({i \in DOMAIN events : events[i].kind = "frame"})
      BY <3>2, FS_Subset
    <3> QED BY <3>3, FS_CardinalityType DEF FramesWaiting
  <2>2. frames' \in 0 .. MaxFrames
    BY <1>5, <2>1, ServerAssumption DEF TypeOK, PostStreamImage
  <2> QED BY <1>5, <2>2 DEF TypeOK, PostStreamImage
<1> QED BY <1>1, <1>2, <1>3, <1>4, <1>5 DEF Environment

\* Every step keeps them.
LEMMA TypeStep == TypeOK /\ [Next]_vars => TypeOK'
<1>1. TypeOK /\ UNCHANGED vars => TypeOK'
  BY DEF TypeOK, vars, sockVars, mainVars, queueVars, flagVars, deviceVars,
         ghostVars
<1> QED
  BY <1>1, TypeMain, TypeMisc, TypeEnum, TypeEnvironment DEF Next, Rest

(* Type correctness: sockets, request map, queues, flags and the places of *)
(* the threads keep to the values TypeOK lists, in every behaviour.        *)
THEOREM TypeCorrect == Spec => []TypeOK
BY TypeInit, TypeStep, PTL DEF Spec

-----------------------------------------------------------------------------
(* m_is_processing.                                                        *)

LEMMA ProcessingFlagStep ==
  TypeOK /\ ProcessingFlag /\ [Next]_vars => ProcessingFlag'
<1> SUFFICES ASSUME TypeOK, ProcessingFlag, [Next]_vars
             PROVE  ProcessingFlag'
    OBVIOUS
<1> USE DEF ProcessingFlag, BusyPlace, ProcessPlace, sockVars, mainVars,
            queueVars, flagVars, deviceVars, ghostVars
<1>1. ASSUME UNCHANGED <<isProcessing, pc>> PROVE ProcessingFlag'
  BY <1>1
<1>2. MainWork => UNCHANGED <<isProcessing, pc>>
  BY DEF MainWork, OnReadyRead, DispatchEnum, DispatchMisc, DispatchStop,
     DispatchUnknown, StoreTerminate, DispatchStopServer, DeleteEnumThread,
     ReleaseMembers, JoinMiscThread, OnTaskFinished, OnTaskFinishedFault,
     OnStreamImageReady
<1>3. EnumWork \/ Environment \/ Rest => UNCHANGED <<isProcessing, pc>>
  BY DEF EnumWork, EnumTask, EnumFault, Environment, IncomingConnection,
     OnDisconnected, ClientSends, OnDeviceRequestStartProcess,
     PostStreamImage, Rest, vars
<1>4. ASSUME MiscWork PROVE ProcessingFlag'
  <2> USE DEF MainUnchanged, LoopUnchanged, At, Running, Return,
              ReplyAndReturn, ReturnSilently
  <2>1. CASE TakeTask
    BY <2>1 DEF TakeTask
  <2>2. CASE LeaveLoop \/ Fault
    BY <2>2 DEF LeaveLoop, Fault
  <2>3. ASSUME pc = "run", pc' = "idle", UNCHANGED isProcessing
        PROVE  ProcessingFlag'
    BY <2>3
  <2>4. CASE \/ OpenCameraTask \/ CloseCameraTask
             \/ ChangeCameraParameterTask \/ StartGrabTask \/ StopGrabTask
             \/ TriggerOnceTask \/ ChangeAlgorithmParameterTask
    BY <2>3, <2>4 DEF OpenCameraTask, CloseCameraTask,
       ChangeCameraParameterTask, StartGrabTask, StopGrabTask,
       TriggerOnceTask, ChangeAlgorithmParameterTask
  <2>5. CASE \/ UserConfigSetTask \/ MoveCameraTask \/ MoveCameraByIndexTask
             \/ SetMotionParameterTask \/ AutoFocusTask
             \/ AnomalyDetectionTask \/ UpdateServerParameterTask
    BY <2>3, <2>5 DEF UserConfigSetTask, MoveCameraTask,
       MoveCameraByIndexTask, SetMotionParameterTask, AutoFocusTask,
       AnomalyDetectionTask, UpdateServerParameterTask
  <2>6. CASE StartProcess \/ StartCalibration
    BY <2>6 DEF StartProcess, StartCalibration
  <2>7. CASE \/ BeginProcess \/ CheckPosition \/ MoveToPosition
             \/ DetectAtPosition \/ ReturnHome \/ CalibrationStage
    BY <2>7 DEF BeginProcess, CheckPosition, MoveToPosition,
       DetectAtPosition, ReturnHome, CalibrationStage
  <2>8. CASE LeaveProcess \/ LeaveCalibration
    BY <2>8 DEF LeaveProcess, LeaveCalibration
  <2>9. CASE ReportProcess \/ ClearTerminate \/ FinishCalibration
    <3>1. CASE ReportProcess
      BY <3>1 DEF ReportProcess
    <3>2. CASE ClearTerminate
      BY <3>2 DEF ClearTerminate
    <3>3. CASE FinishCalibration
      BY <3>3 DEF FinishCalibration
    <3> QED BY <2>9, <3>1, <3>2, <3>3
  <2> QED
    BY <1>4, <2>1, <2>2, <2>4, <2>5, <2>6, <2>7, <2>8, <2>9 DEF MiscWork
<1> QED BY <1>1, <1>2, <1>3, <1>4 DEF Next, vars

(* The busy flag is set exactly while the misc thread is between the two   *)
(* stores of start_process or of auto_calibration, so the guard of         *)
(* start_process against a second start never refuses anything.            *)
THEOREM FlagFollowsThread == Spec => []ProcessingFlag
<1>1. Init => ProcessingFlag
  BY DEF Init, ProcessingFlag, BusyPlace, ProcessPlace
<1> QED BY <1>1, TypeCorrect, ProcessingFlagStep, PTL DEF Spec

-----------------------------------------------------------------------------
(* The busy gate.                                                          *)

(* What the misc thread does to the state the main thread's properties are *)
(* about: it begins a period, ends one, clears m_terminate, or dies.       *)
LEMMA MiscPeriod ==
  ASSUME MiscWork
  PROVE  /\ UNCHANGED <<conn, requests>>
         /\ (main' = main /\ current' = current) \/ main' = "crashed"
         /\ terminate' = terminate \/ ~terminate'
         /\ \/ UNCHANGED <<isProcessing, runs, slipped>>
            \/ isProcessing' /\ runs' = runs + 1 /\ slipped' = 0
            \/ ~isProcessing' /\ UNCHANGED <<runs, slipped>>
<1> USE DEF sockVars, mainVars, queueVars, flagVars, deviceVars, ghostVars,
            MainUnchanged, LoopUnchanged, Return, ReplyAndReturn,
            ReturnSilently
<1>1. CASE TakeTask \/ LeaveLoop
  BY <1>1 DEF TakeTask, LeaveLoop
<1>2. CASE Fault
  BY <1>2 DEF Fault
<1>3. CASE \/ OpenCameraTask \/ CloseCameraTask
           \/ ChangeCameraParameterTask \/ StartGrabTask \/ StopGrabTask
           \/ TriggerOnceTask \/ ChangeAlgorithmParameterTask
  BY <1>3 DEF OpenCameraTask, CloseCameraTask, ChangeCameraParameterTask,
     StartGrabTask, StopGrabTask, TriggerOnceTask,
     ChangeAlgorithmParameterTask
<1>4. CASE \/ UserConfigSetTask \/ MoveCameraTask \/ MoveCameraByIndexTask
           \/ SetMotionParameterTask \/ AutoFocusTask
           \/ AnomalyDetectionTask \/ UpdateServerParameterTask
  BY <1>4 DEF UserConfigSetTask, MoveCameraTask, MoveCameraByIndexTask,
     SetMotionParameterTask, AutoFocusTask, AnomalyDetectionTask,
     UpdateServerParameterTask
<1>5. CASE StartProcess \/ StartCalibration
  <2>1. CASE StartProcess
    BY <2>1 DEF StartProcess
  <2>2. CASE StartCalibration
    BY <2>2 DEF StartCalibration
  <2> QED BY <1>5, <2>1, <2>2
<1>6. CASE BeginProcess \/ CheckPosition \/ MoveToPosition \/ ReturnHome
  BY <1>6 DEF BeginProcess, CheckPosition, MoveToPosition, ReturnHome
<1>7. CASE DetectAtPosition \/ CalibrationStage
  BY <1>7 DEF DetectAtPosition, CalibrationStage
<1>8. CASE LeaveProcess \/ LeaveCalibration
  BY <1>8 DEF LeaveProcess, LeaveCalibration
<1>9. CASE ReportProcess \/ ClearTerminate \/ FinishCalibration
  <2>1. CASE ReportProcess
    BY <2>1 DEF ReportProcess
  <2>2. CASE ClearTerminate
    BY <2>2 DEF ClearTerminate
  <2>3. CASE FinishCalibration
    BY <2>3 DEF FinishCalibration
  <2> QED BY <1>9, <2>1, <2>2, <2>3
<1> QED
  BY <1>1, <1>2, <1>3, <1>4, <1>5, <1>6, <1>7, <1>8, <1>9 DEF MiscWork

(* The other threads and the environment leave the gate alone.             *)
LEMMA OthersPeriod ==
  ASSUME EnumWork \/ Environment \/ Rest \/ UNCHANGED vars
  PROVE  /\ UNCHANGED <<isProcessing, terminate, runs, slipped>>
         /\ (main' = main /\ current' = current) \/ main' = "crashed"
<1> USE DEF sockVars, mainVars, queueVars, flagVars, deviceVars, ghostVars
<1>1. CASE EnumWork
  BY <1>1 DEF EnumWork, EnumTask, EnumFault
<1>2. CASE Environment
  BY <1>2 DEF Environment, IncomingConnection, OnDisconnected, ClientSends,
     OnDeviceRequestStartProcess, PostStreamImage
<1>3. CASE Rest \/ UNCHANGED vars
  BY <1>3 DEF Rest, vars
<1> QED BY <1>1, <1>2, <1>3

(* What the main thread does to the gate.                                  *)
LEMMA MainGate ==
  ASSUME MainWork
  PROVE  /\ UNCHANGED <<isProcessing, runs>>
         /\ \/ /\ main' = "dispatch" /\ main = "loop" /\ ~isProcessing
               /\ current'.run = runs
               /\ UNCHANGED <<terminate, slipped>>
            \/ /\ main' = "terminate" /\ main = "dispatch" /\ isProcessing
               /\ UNCHANGED <<current, terminate, slipped>>
            \/ /\ main = "dispatch" /\ main' = "loop"
               /\ slipped' = slipped + (IF isProcessing THEN 1 ELSE 0)
               /\ UNCHANGED terminate
            \/ /\ main = "terminate" /\ main' = "loop"
               /\ UNCHANGED slipped
            \/ /\ main' \notin {"dispatch", "terminate"}
               /\ UNCHANGED <<terminate, slipped>>
            \/ UNCHANGED <<main, current, terminate, slipped>>
<1> USE DEF sockVars, mainVars, queueVars, flagVars, deviceVars, ghostVars
<1>1. CASE \E c \in Client : OnReadyRead(c)
  BY <1>1 DEF OnReadyRead, InLoop
<1>2. CASE DispatchEnum \/ DispatchUnknown
  BY <1>2 DEF DispatchEnum, DispatchUnknown
<1>3. CASE DispatchMisc
  BY <1>3 DEF DispatchMisc
<1>4. CASE DispatchStop \/ StoreTerminate
  BY <1>4 DEF DispatchStop, StoreTerminate
<1>5. CASE \/ DispatchStopServer \/ DeleteEnumThread \/ ReleaseMembers
           \/ JoinMiscThread
  BY <1>5 DEF DispatchStopServer, DeleteEnumThread, ReleaseMembers,
     JoinMiscThread
<1>6. CASE OnTaskFinished \/ OnTaskFinishedFault \/ OnStreamImageReady
  BY <1>6 DEF OnTaskFinished, OnTaskFinishedFault, OnStreamImageReady
<1> QED BY <1>1, <1>2, <1>3, <1>4, <1>5, <1>6 DEF MainWork

\* Every step keeps the number of slips.
LEMMA SlipsStep == TypeOK /\ AtMostOneSlips /\ [Next]_vars => AtMostOneSlips'
<1> SUFFICES ASSUME TypeOK, AtMostOneSlips, [Next]_vars PROVE AtMostOneSlips'
    OBVIOUS
<1> USE DEF AtMostOneSlips
<1>1. slipped \in Nat
  BY DEF TypeOK
<1>2. CASE MainWork
  <2>1. UNCHANGED isProcessing
    BY <1>2, MainGate
  <2>2. CASE ~isProcessing
    BY <2>1, <2>2
  <2>3. CASE isProcessing
    <3>1. \/ main = "dispatch" /\ main' = "loop" /\ slipped' = slipped + 1
          \/ main' # "dispatch" /\ slipped' = slipped
          \/ main' = main /\ slipped' = slipped
      BY <1>2, <2>3, MainGate
    <3> QED BY <1>1, <2>3, <3>1
  <2> QED BY <2>2, <2>3
<1>3. CASE MiscWork
  <2>1. main' = "dispatch" => main = "dispatch"
    BY <1>3, MiscPeriod
  <2>2. CASE UNCHANGED <<isProcessing, slipped>>
    BY <1>1, <2>1, <2>2
  <2>3. CASE slipped' = 0
    BY <2>3
  <2>4. CASE ~isProcessing'
    BY <2>4
  <2> QED BY <1>3, <2>2, <2>3, <2>4, MiscPeriod
<1>4. CASE EnumWork \/ Environment \/ Rest \/ UNCHANGED vars
  <2>1. UNCHANGED <<isProcessing, slipped>>
    BY <1>4, OthersPeriod
  <2>2. main' = "dispatch" => main = "dispatch"
    BY <1>4, OthersPeriod
  <2> QED BY <1>1, <2>1, <2>2
<1> QED BY <1>2, <1>3, <1>4 DEF Next

(* The busy gate and the queueing of a request are two steps, and a run    *)
(* may begin between them; yet no run has more than one client request     *)
(* queued behind it that the gate was meant to refuse.                     *)
THEOREM GateLeaksOnce == Spec => []AtMostOneSlips
<1>1. Init => AtMostOneSlips
  BY DEF Init, AtMostOneSlips
<1> QED BY <1>1, TypeCorrect, SlipsStep, PTL DEF Spec

\* Every step keeps the run of the request that is in hand.
LEMMA RunSinceGateStep ==
  TypeOK /\ RunSinceGate /\ [Next]_vars => RunSinceGate'
<1> SUFFICES ASSUME TypeOK, RunSinceGate, [Next]_vars PROVE RunSinceGate'
    OBVIOUS
<1> USE DEF RunSinceGate
<1>1. runs \in Nat /\ current.run \in Nat
  BY DEF TypeOK
<1>2. CASE MainWork
  BY <1>1, <1>2, MainGate
<1>3. CASE MiscWork
  <2>1. CASE main' = "crashed"
    BY <2>1
  <2>2. CASE main' = main /\ current' = current
    <3>1. CASE UNCHANGED <<isProcessing, runs>>
      BY <2>2, <3>1
    <3>2. CASE runs' = runs + 1
      BY <1>1, <2>2, <3>2
    <3>3. CASE ~isProcessing' /\ UNCHANGED runs
      BY <2>2, <3>3
    <3> QED BY <1>3, <3>1, <3>2, <3>3, MiscPeriod
  <2> QED BY <1>3, <2>1, <2>2, MiscPeriod
<1>4. CASE EnumWork \/ Environment \/ Rest \/ UNCHANGED vars
  <2>1. UNCHANGED <<isProcessing, runs>>
    BY <1>4, OthersPeriod
  <2>2. (main' = main /\ current' = current) \/ main' = "crashed"
    BY <1>4, OthersPeriod
  <2> QED BY <2>1, <2>2
<1> QED BY <1>2, <1>3, <1>4 DEF Next

(* Whoever sets m_terminate passed the busy gate before the run it hits    *)
(* had begun: a stop request that arrives when the clients can see that a  *)
(* run is on never interrupts it.                                          *)
THEOREM StopNeedsRace == Spec => StopOnlyByRace
<1>1. Init => RunSinceGate
  BY DEF Init, RunSinceGate
<1>2. RunSinceGate /\ [Next]_vars
        => [~terminate /\ terminate' => current.run < runs]_vars
  <2> SUFFICES ASSUME RunSinceGate, [Next]_vars, ~terminate, terminate'
               PROVE  current.run < runs
    OBVIOUS
  <2>1. ~MiscWork
    BY MiscPeriod
  <2>2. ~(EnumWork \/ Environment \/ Rest \/ UNCHANGED vars)
    BY OthersPeriod
  <2>3. MainWork
    BY <2>1, <2>2 DEF Next
  <2>4. main = "terminate"
    BY <2>3, MainGate
  <2> QED BY <2>4 DEF RunSinceGate
<1> QED
  BY <1>1, <1>2, TypeCorrect, RunSinceGateStep, PTL DEF Spec, StopOnlyByRace

-----------------------------------------------------------------------------
(* The request map.                                                        *)

LEMMA RoutedStep ==
  TypeOK /\ RoutedToConnected /\ [Next]_vars => RoutedToConnected'
<1> SUFFICES ASSUME TypeOK, RoutedToConnected, [Next]_vars
             PROVE  RoutedToConnected'
    OBVIOUS
<1> USE DEF RoutedToConnected, sockVars, mainVars, queueVars, flagVars,
            deviceVars, ghostVars
<1>1. requests \in [Id -> Client \cup {NoClient}] /\ NoClient \notin Client
  BY ServerAssumption DEF TypeOK
<1>2. ASSUME UNCHANGED <<requests, conn>> PROVE RoutedToConnected'
  BY <1>2
<1>3. ASSUME NEW m, \A i \in Id : m[i] # NoClient => conn[m[i]] = "up",
             m \in [Id -> Client \cup {NoClient}],
             NEW e \in Event, SendProcessResult(m, e), UNCHANGED conn
      PROVE  RoutedToConnected'
  BY <1>3 DEF SendProcessResult
<1>4. ASSUME NEW c \in Client, OnReadyRead(c) PROVE RoutedToConnected'
  <2>1. PICK n \in 1 .. Len(wire[c]) :
          LET id == Parsed(SubSeq(wire[c], 1, n)).id IN
          \/ requests' = Record(c, id)
          \/ SendProcessResult(Record(c, id), BusyReply(id))
    BY <1>4 DEF OnReadyRead
  <2> DEFINE id == Parsed(SubSeq(wire[c], 1, n)).id
  <2>2. id \in Id
    <3>1. wire[c] \in Seq(Request)
      BY DEF TypeOK
    <3>2. SubSeq(wire[c], 1, n) \in Seq(Request)
      BY <3>1
    <3> QED BY <3>2, Constants DEF Parsed, Request
  <2>3. conn[c] = "up" /\ UNCHANGED conn
    BY <1>4 DEF OnReadyRead
  <2>4. /\ Record(c, id) \in [Id -> Client \cup {NoClient}]
        /\ \A i \in Id : Record(c, id)[i] # NoClient
                          => conn[Record(c, id)[i]] = "up"
    BY <1>1, <2>2, <2>3 DEF Record
  <2>5. BusyReply(id) \in Event
    BY <2>2 DEF BusyReply, Event, Kind
  <2> QED BY <1>3, <2>1, <2>3, <2>4, <2>5
<1>5. CASE OnTaskFinished
  <2>1. Head(events) \in Event
    BY <1>5 DEF TypeOK, OnTaskFinished
  <2> QED BY <1>1, <1>3, <1>5, <2>1 DEF OnTaskFinished
<1>6. ASSUME MainWork, ~OnTaskFinished, \A c \in Client : ~OnReadyRead(c)
      PROVE  RoutedToConnected'
  <2>1. CASE JoinMiscThread
    BY <2>1 DEF JoinMiscThread
  <2>2. CASE ~JoinMiscThread
    BY <1>2, <1>6, <2>2
    DEF MainWork, DispatchEnum, DispatchMisc, DispatchStop, DispatchUnknown,
        StoreTerminate, DispatchStopServer, DeleteEnumThread, ReleaseMembers,
        OnTaskFinishedFault, OnStreamImageReady
  <2> QED BY <2>1, <2>2
<1>7. CASE MiscWork
  BY <1>2, <1>7, MiscPeriod
<1>8. CASE EnumWork \/ Rest \/ UNCHANGED vars
  BY <1>2, <1>8 DEF EnumWork, EnumTask, EnumFault, Rest, vars
<1>9. CASE Environment
  <2>1. ASSUME NEW c \in Client, IncomingConnection(c) PROVE RoutedToConnected'
    BY <1>1, <2>1 DEF IncomingConnection, TypeOK
  <2>2. ASSUME NEW c \in Client, OnDisconnected(c) PROVE RoutedToConnected'
    BY <1>1, <2>2 DEF OnDisconnected, DropRequests, TypeOK
  <2>3. ASSUME NEW c \in Client, NEW cmd \in Command, ClientSends(c, cmd)
        PROVE  RoutedToConnected'
    BY <1>2, <2>3 DEF ClientSends
  <2>4. CASE OnDeviceRequestStartProcess \/ PostStreamImage
    BY <1>2, <2>4 DEF OnDeviceRequestStartProcess, PostStreamImage
  <2> QED BY <1>9, <2>1, <2>2, <2>3, <2>4 DEF Environment
<1> QED BY <1>4, <1>5, <1>6, <1>7, <1>8, <1>9 DEF Next

(* Every socket pointer in the request map belongs to a connected client,  *)
(* so no reply is written to a socket that has been deleted.               *)
THEOREM RepliesGoToConnected == Spec => []RoutedToConnected
<1>1. Init => RoutedToConnected
  BY DEF Init, RoutedToConnected
<1> QED BY <1>1, TypeCorrect, RoutedStep, PTL DEF Spec

-----------------------------------------------------------------------------
(* Request ids: where each of them is, and what has become of it.          *)

(* Where a request id can be: written by a client and not read yet; read   *)
(* and not yet taken by a worker; in the task of the misc thread.          *)
Waiting(i)   == \E c \in Client : InQueue(wire[c], i)
InHand(i)    ==
  current.id = i \/ InQueue(queue, i) \/ InQueue(enumQueue, i)
Somewhere(i) == Waiting(i) \/ InHand(i) \/ task.id = i

(* A message that finishes the task of i waits for the main thread.        *)
Finished(i) == \E k \in DOMAIN events : events[k].finish /\ events[k].id = i

Distinct(q) ==
  \A k, l \in DOMAIN q : q[k].id = q[l].id /\ q[k].id # NoId => k = l

(* A request is in one place only, and there once.                         *)
OnePlace ==
  /\ \A c \in Client : Distinct(wire[c])
  /\ Distinct(queue)
  /\ Distinct(enumQueue)
  /\ \A i \in Id \ {NoId} :
       /\ \A c, d \in Client :
            InQueue(wire[c], i) /\ InQueue(wire[d], i) => c = d
       /\ Waiting(i) => ~InHand(i) /\ task.id # i
       /\ current.id = i =>
            ~InQueue(queue, i) /\ ~InQueue(enumQueue, i) /\ task.id # i
       /\ InQueue(queue, i) => ~InQueue(enumQueue, i) /\ task.id # i
       /\ InQueue(enumQueue, i) => task.id # i

(* An id no client has used yet has left no trace in the server.           *)
Fresh ==
  \A i \in Id : i > sent =>
    ~Somewhere(i) /\ streamId # i /\ answer[i] # "busy" /\ ~Finished(i)

(* What has been refused, streams or is finished has left the places a     *)
(* task can begin from.                                                    *)
Settled ==
  /\ \A i \in Id \ {NoId} :
       /\ answer[i] = "busy" => ~Somewhere(i)
       /\ streamId = i => ~Somewhere(i)
       /\ Finished(i) => /\ ~Waiting(i) /\ ~InHand(i) /\ streamId # i
                         /\ task.id = i => pc = "clear"
  /\ \A k \in DOMAIN events : events[k].kind # "busy"

LastFinish ==
  \A k \in DOMAIN events : events[k].finish /\ events[k].id # NoId =>
    \A l \in k + 1 .. Len(events) : events[l].id # events[k].id

IdInv == OnePlace /\ Fresh /\ Settled /\ LastFinish

-----------------------------------------------------------------------------
(* Queues of requests.                                                     *)

LEMMA AppendIds ==
  ASSUME NEW S, NEW q \in Seq(S), NEW r \in S
  PROVE  /\ \A i : InQueue(Append(q, r), i) <=> InQueue(q, i) \/ r.id = i
         /\ Distinct(q) /\ (r.id = NoId \/ ~InQueue(q, r.id))
              => Distinct(Append(q, r))
<1> DEFINE a == Append(q, r)
<1>1. /\ Len(q) \in Nat /\ DOMAIN q = 1 .. Len(q)
      /\ DOMAIN a = 1 .. Len(q) + 1
      /\ \A k \in DOMAIN q : a[k] = q[k]
      /\ a[Len(q) + 1] = r
  OBVIOUS
<1> HIDE DEF a
<1>2. ASSUME NEW i PROVE InQueue(a, i) <=> InQueue(q, i) \/ r.id = i
  <2>1. ASSUME NEW k \in DOMAIN a, a[k].id = i
        PROVE  InQueue(q, i) \/ r.id = i
    BY <1>1, <2>1 DEF InQueue
  <2>2. InQueue(q, i) => InQueue(a, i)
    BY <1>1 DEF InQueue
  <2>3. r.id = i => InQueue(a, i)
    BY <1>1 DEF InQueue
  <2> QED BY <2>1, <2>2, <2>3 DEF InQueue
<1>3. ASSUME Distinct(q), r.id = NoId \/ ~InQueue(q, r.id)
      PROVE  Distinct(a)
  <2> SUFFICES ASSUME NEW k \in DOMAIN a, NEW l \in DOMAIN a,
                      a[k].id = a[l].id, a[k].id # NoId
               PROVE  k = l
    BY DEF Distinct
  <2>1. CASE k \in DOMAIN q /\ l \in DOMAIN q
    BY <1>1, <1>3, <2>1 DEF Distinct
  <2>2. CASE k = Len(q) + 1 /\ l \in DOMAIN q
    BY <1>1, <1>3, <2>2 DEF InQueue
  <2>3. CASE l = Len(q) + 1 /\ k \in DOMAIN q
    BY <1>1, <1>3, <2>3 DEF InQueue
  <2> QED BY <1>1, <2>1, <2>2, <2>3
<1> QED BY <1>2, <1>3 DEF a

\* What is left of a queue has no ids but its own, and the one before it
\* is not among them.
LEMMA SuffixIds ==
  ASSUME NEW S, NEW q \in Seq(S), NEW n \in 1 .. Len(q)
  PROVE  LET s == SubSeq(q, n + 1, Len(q)) IN
         /\ \A i : InQueue(s, i) => InQueue(q, i)
         /\ Distinct(q) => Distinct(s)
         /\ Distinct(q) /\ q[n].id # NoId => ~InQueue(s, q[n].id)
<1> DEFINE s == SubSeq(q, n + 1, Len(q))
<1>1. /\ Len(q) \in Nat /\ DOMAIN q = 1 .. Len(q)
      /\ DOMAIN s = 1 .. Len(q) - n
      /\ \A k \in DOMAIN s : n + k \in DOMAIN q /\ s[k] = q[n + k]
  <2>1. Len(q) \in Nat /\ DOMAIN q = 1 .. Len(q)
    OBVIOUS
  <2>2. \A k \in n + 1 .. Len(q) : q[k] \in S
    BY <2>1
  <2>3. s = [k \in 1 .. Len(q) - n |-> q[n + k]]
    BY <2>1
  <2> QED BY <2>1, <2>3
<1> HIDE DEF s
<1>2. ASSUME NEW i, InQueue(s, i) PROVE InQueue(q, i)
  BY <1>1, <1>2 DEF InQueue
<1>3. ASSUME Distinct(q) PROVE Distinct(s)
  BY <1>1, <1>3 DEF Distinct
<1>4. ASSUME Distinct(q), q[n].id # NoId, InQueue(s, q[n].id)
      PROVE  FALSE
  <2>1. PICK k \in DOMAIN s : s[k].id = q[n].id
    BY <1>4 DEF InQueue
  <2>2. /\ q[n + k].id = q[n].id /\ n + k # n
        /\ n + k \in DOMAIN q /\ n \in DOMAIN q
    BY <1>1, <2>1
  <2> QED BY <1>4, <2>2 DEF Distinct
<1> QED BY <1>2, <1>3, <1>4 DEF s

\* The same of its tail.
LEMMA TailIds ==
  ASSUME NEW S, NEW q \in Seq(S), q # <<>>
  PROVE  /\ \A i : InQueue(Tail(q), i) => InQueue(q, i)
         /\ Distinct(q) => Distinct(Tail(q))
         /\ Distinct(q) /\ Head(q).id # NoId => ~InQueue(Tail(q), Head(q).id)
         /\ InQueue(q, Head(q).id)
<1>1. 1 \in 1 .. Len(q) /\ Len(q) \in Nat /\ DOMAIN q = 1 .. Len(q)
  OBVIOUS
<1>2. Tail(q) = SubSeq(q, 1 + 1, Len(q)) /\ Head(q) = q[1]
  OBVIOUS
<1>3. InQueue(q, q[1].id)
  BY <1>1 DEF InQueue
<1> QED BY <1>1, <1>2, <1>3, SuffixIds

-----------------------------------------------------------------------------
(* Messages are added behind those that wait; all are of i, and at most    *)
(* the last of them, and that only if finish, finishes it.                 *)
Posted(i, finish) ==
  /\ Len(events') >= Len(events)
  /\ \A k \in DOMAIN events : events'[k] = events[k]
  /\ \A k \in DOMAIN events' \ DOMAIN events :
       /\ events'[k].id = i
       /\ events'[k].kind # "busy"
       /\ events'[k].finish => finish /\ k = Len(events')

\* post_event posts one event with the id of the request.
LEMMA PostIsPosted ==
  ASSUME events \in Seq(Event), NEW i \in Id,
         NEW kind \in Kind \ {"busy"}, NEW finish \in BOOLEAN,
         PostEvent(i, kind, finish)
  PROVE  Posted(i, finish)
<1> DEFINE e == [id |-> i, kind |-> kind, finish |-> finish]
<1>1. events' = Append(events, e) /\ e.id = i /\ e.kind # "busy"
      /\ e.finish = finish
  BY DEF PostEvent
<1> HIDE DEF e
<1>2. /\ Len(events) \in Nat /\ DOMAIN events = 1 .. Len(events)
      /\ Len(events') = Len(events) + 1
      /\ DOMAIN events' = 1 .. Len(events) + 1
      /\ \A k \in DOMAIN events : events'[k] = events[k]
      /\ events'[Len(events) + 1] = e
  BY <1>1
<1> QED BY <1>1, <1>2 DEF Posted

\* A queue with one element more, as Append and \o write it.
LEMMA AddedOne ==
  ASSUME NEW S, NEW q \in Seq(S), NEW e \in S
  PROVE  LET s == (q \o <<>>) \o <<e>> IN
         /\ Len(q) \in Nat /\ DOMAIN q = 1 .. Len(q)
         /\ Len(s) = Len(q) + 1 /\ DOMAIN s = 1 .. Len(q) + 1
         /\ \A k \in DOMAIN q : s[k] = q[k]
         /\ s[Len(q) + 1] = e
<1>1. q \o <<>> = q
  OBVIOUS
<1>2. q \o <<e>> = Append(q, e)
  OBVIOUS
<1> QED BY <1>1, <1>2

\* The same with two.
LEMMA AddedTwo ==
  ASSUME NEW S, NEW q \in Seq(S), NEW d \in S, NEW e \in S
  PROVE  LET s == (q \o <<d>>) \o <<e>> IN
         /\ Len(q) \in Nat /\ DOMAIN q = 1 .. Len(q)
         /\ Len(s) = Len(q) + 2 /\ DOMAIN s = 1 .. Len(q) + 2
         /\ \A k \in DOMAIN q : s[k] = q[k]
         /\ s[Len(q) + 1] = d /\ s[Len(q) + 2] = e
<1> DEFINE p == q \o <<d>>
<1>1. p = Append(q, d)
  OBVIOUS
<1>2. /\ p \in Seq(S) /\ Len(q) \in Nat /\ DOMAIN q = 1 .. Len(q)
      /\ Len(p) = Len(q) + 1 /\ DOMAIN p = 1 .. Len(q) + 1
      /\ \A k \in DOMAIN q : p[k] = q[k]
      /\ p[Len(q) + 1] = d
  BY <1>1
<1> HIDE DEF p
<1>3. p \o <<e>> = Append(p, e)
  BY <1>2
<1>4. /\ Len(Append(p, e)) = Len(p) + 1
      /\ DOMAIN Append(p, e) = 1 .. Len(p) + 1
      /\ \A k \in DOMAIN p : Append(p, e)[k] = p[k]
      /\ Append(p, e)[Len(p) + 1] = e
  BY <1>2
<1>5. /\ Len(p \o <<e>>) = Len(q) + 2
      /\ DOMAIN (p \o <<e>>) = 1 .. Len(q) + 2
      /\ \A k \in DOMAIN q : (p \o <<e>>)[k] = q[k]
      /\ (p \o <<e>>)[Len(q) + 1] = d
      /\ (p \o <<e>>)[Len(q) + 2] = e
  BY <1>2, <1>3, <1>4
<1> QED BY <1>2, <1>5 DEF p

\* A step that leaves the events alone posts none.
LEMMA NothingPosted ==
  ASSUME events \in Seq(Event), UNCHANGED events, NEW i
  PROVE  Posted(i, FALSE)
BY DEF Posted

\* What is posted before the request has finished does not come after it.
LEMMA PostedKeeps ==
  ASSUME events \in Seq(Event), events' \in Seq(Event),
         NEW i, NEW finish \in BOOLEAN, Posted(i, finish),
         i = NoId \/ ~Finished(i), Settled, LastFinish
  PROVE  /\ \A j : Finished(j)' => Finished(j) \/ (finish /\ j = i)
         /\ \A k \in DOMAIN events' : events'[k].kind # "busy"
         /\ LastFinish'
<1>1. /\ Len(events) \in Nat /\ DOMAIN events = 1 .. Len(events)
      /\ Len(events') \in Nat /\ DOMAIN events' = 1 .. Len(events')
  OBVIOUS
<1>2. ASSUME NEW j, Finished(j)' PROVE Finished(j) \/ (finish /\ j = i)
  BY <1>1, <1>2 DEF Posted, Finished
<1>3. \A k \in DOMAIN events' : events'[k].kind # "busy"
  BY <1>1 DEF Posted, Settled
<1>4. ASSUME NEW k \in DOMAIN events',
             events'[k].finish, events'[k].id # NoId,
             NEW l \in k + 1 .. Len(events'), events'[l].id = events'[k].id
      PROVE  FALSE
  <2>1. k \in DOMAIN events
    BY <1>1, <1>4 DEF Posted
  <2>2. CASE l \in DOMAIN events
    BY <1>1, <1>4, <2>1, <2>2 DEF Posted, LastFinish
  <2>3. CASE l \notin DOMAIN events
    <3>1. l \in DOMAIN events'
      BY <1>1, <1>4
    <3>2. events[k].id = i /\ events[k].finish
      BY <1>4, <2>1, <2>3, <3>1 DEF Posted
    <3> QED BY <1>4, <2>1, <3>2 DEF Finished, Posted
  <2> QED BY <2>2, <2>3
<1> QED BY <1>2, <1>3, <1>4 DEF LastFinish

(* What a step of the misc thread other than taking a task does to ids: it *)
(* posts for its task, gives it up or keeps it, and posts nothing once it  *)
(* has posted the message that finishes it.                                *)
MiscMove ==
  /\ UNCHANGED <<wire, sent, answer, current, queue, enumQueue>>
  /\ task' = task \/ task' = NoRequest
  /\ \E finish \in BOOLEAN :
       /\ Posted(task.id, finish)
       /\ finish => pc' = "clear" \/ task' = NoRequest
       /\ \/ UNCHANGED streamId
          \/ streamId' = task.id /\ ~finish /\ task' = NoRequest
  /\ pc = "clear" => /\ UNCHANGED <<events, streamId>>
                     /\ pc' = "clear" \/ task' = NoRequest

\* A step of the misc thread takes a task, or goes on with the one it has.
LEMMA MiscMoves == TypeOK /\ MiscWork => TakeTask \/ MiscMove
<1> SUFFICES ASSUME TypeOK, MiscWork PROVE TakeTask \/ MiscMove
    OBVIOUS
<1> USE DEF sockVars, mainVars, queueVars, flagVars, deviceVars, ghostVars,
            MainUnchanged, LoopUnchanged, At, Running
<1>1. /\ events \in Seq(Event) /\ task.id \in Id
      /\ {"result", "opened", "running", "done", "aborted"}
           \subseteq Kind \ {"busy"}
  BY DEF TypeOK, Request, Kind
<1>2. ASSUME pc = "run", NEW kind \in Kind \ {"busy"},
             ReplyAndReturn(kind) \/ ReturnSilently, UNCHANGED streamId
      PROVE  MiscMove
  BY <1>1, <1>2, PostIsPosted, NothingPosted
  DEF MiscMove, ReplyAndReturn, ReturnSilently, Return
<1>3. ASSUME UNCHANGED <<events, streamId>>, MainUnchanged,
             task' = NoRequest \/ (task' = task /\ (pc' = pc \/ pc # "clear"))
      PROVE  MiscMove
  BY <1>1, <1>3, NothingPosted DEF MiscMove
<1>4. ASSUME pc # "clear", UNCHANGED <<task, streamId>>, MainUnchanged,
             NEW kind \in Kind \ {"busy"}, NEW finish \in BOOLEAN,
             PostEvent(task.id, kind, finish), finish => pc' = "clear"
      PROVE  MiscMove
  BY <1>1, <1>4, PostIsPosted DEF MiscMove
<1>5. CASE \/ CloseCameraTask \/ ChangeCameraParameterTask \/ StopGrabTask
           \/ ChangeAlgorithmParameterTask \/ UserConfigSetTask
           \/ MoveCameraTask \/ SetMotionParameterTask \/ AutoFocusTask
           \/ AnomalyDetectionTask \/ UpdateServerParameterTask
  BY <1>1, <1>2, <1>5
  DEF CloseCameraTask, ChangeCameraParameterTask, StopGrabTask,
      ChangeAlgorithmParameterTask, UserConfigSetTask, MoveCameraTask,
      SetMotionParameterTask, AutoFocusTask, AnomalyDetectionTask,
      UpdateServerParameterTask
<1>6. CASE OpenCameraTask \/ TriggerOnceTask \/ MoveCameraByIndexTask
  BY <1>1, <1>2, <1>6
  DEF OpenCameraTask, TriggerOnceTask, MoveCameraByIndexTask
<1>7. CASE StartGrabTask
  <2>1. CASE UNCHANGED streamId /\ ReplyAndReturn("result")
    BY <1>1, <1>2, <1>7, <2>1 DEF StartGrabTask
  <2>2. CASE /\ streamId' = task.id
             /\ PostEvent(task.id, "result", FALSE)
             /\ Return /\ MainUnchanged
    <3>1. Posted(task.id, FALSE)
      BY <1>1, <2>2, PostIsPosted
    <3> QED BY <1>7, <2>2, <3>1 DEF MiscMove, Return, StartGrabTask
  <2>3. CASE /\ UNCHANGED streamId /\ PostEvent(task.id, "result", TRUE)
             /\ Return /\ MainUnchanged
    <3>1. Posted(task.id, TRUE)
      BY <1>1, <2>3, PostIsPosted
    <3> QED BY <1>7, <2>3, <3>1 DEF MiscMove, Return, StartGrabTask
  <2> QED BY <1>7, <2>1, <2>2, <2>3 DEF StartGrabTask
<1>8. CASE StartProcess
  BY <1>3, <1>8 DEF StartProcess, Return
<1>9. CASE \/ CheckPosition \/ LeaveProcess \/ ClearTerminate
           \/ StartCalibration \/ LeaveCalibration \/ Fault \/ LeaveLoop
  <2>1. CASE CheckPosition \/ LeaveProcess \/ ClearTerminate
    BY <1>3, <2>1 DEF CheckPosition, LeaveProcess, ClearTerminate, Return
  <2>2. CASE StartCalibration \/ LeaveCalibration \/ Fault \/ LeaveLoop
    <3>1. UNCHANGED <<events, streamId, wire, sent, answer, current, queue,
                      enumQueue, task>> /\ (pc' = pc \/ pc # "clear")
      BY <2>2 DEF StartCalibration, LeaveCalibration, Fault, LeaveLoop
    <3> QED BY <1>1, <3>1, NothingPosted DEF MiscMove
  <2> QED BY <1>9, <2>1, <2>2
<1>10. CASE BeginProcess
  BY <1>1, <1>4, <1>10 DEF BeginProcess
<1>11. CASE MoveToPosition
  <2>1. pc = "move" /\ UNCHANGED <<task, streamId>> /\ MainUnchanged
        /\ pc' \in {"detect", "check"}
        /\ (PostEvent(task.id, "result", FALSE) \/ UNCHANGED events)
    BY <1>11 DEF MoveToPosition
  <2>2. CASE PostEvent(task.id, "result", FALSE)
    BY <1>1, <1>4, <2>1, <2>2
  <2>3. CASE UNCHANGED events
    BY <1>3, <2>1, <2>3
  <2> QED BY <2>1, <2>2, <2>3
<1>12. CASE DetectAtPosition
  <2>1. CASE terminate
    BY <1>3, <1>12, <2>1 DEF DetectAtPosition
  <2>2. CASE ~terminate
    BY <1>1, <1>4, <1>12, <2>2 DEF DetectAtPosition
  <2> QED BY <2>1, <2>2
<1>13. CASE ReturnHome
  <2>1. pc = "home" /\ UNCHANGED <<task, streamId>> /\ MainUnchanged
        /\ (PostEvent(task.id, "result", FALSE) \/ UNCHANGED events)
    BY <1>13 DEF ReturnHome
  <2>2. CASE PostEvent(task.id, "result", FALSE)
    BY <1>1, <1>4, <2>1, <2>2
  <2>3. CASE UNCHANGED events
    BY <1>3, <2>1, <2>3
  <2> QED BY <2>1, <2>2, <2>3
<1>14. CASE ReportProcess
  <2> DEFINE kind == IF terminate THEN "aborted" ELSE "done"
  <2>1. kind \in Kind \ {"busy"}
    BY <1>1
  <2> HIDE DEF kind
  <2>2. PostEvent(task.id, kind, TRUE) /\ pc' = "clear" /\ pc = "report"
        /\ UNCHANGED <<task, streamId>> /\ MainUnchanged
    BY <1>14 DEF ReportProcess, kind
  <2> QED BY <1>4, <2>1, <2>2
<1>15. CASE CalibrationStage
  BY <1>1, <1>4, <1>15 DEF CalibrationStage
<1>16. CASE FinishCalibration
  <2> DEFINE f == [id |-> task.id, kind |-> "result", finish |-> FALSE]
             t == [id |-> task.id, kind |-> "result", finish |-> TRUE]
  <2>1. /\ f \in Event /\ f.id = task.id /\ f.kind # "busy" /\ ~f.finish
        /\ t \in Event /\ t.id = task.id /\ t.kind # "busy"
    BY <1>1 DEF Event
  <2>2. PICK mode \in TriggerModes :
          events' = events \o (IF mode = "once" THEN <<f>> ELSE <<>>) \o <<t>>
    BY <1>16 DEF FinishCalibration
  <2> HIDE DEF f, t
  <2>3. ASSUME mode = "once" PROVE Posted(task.id, TRUE)
    <3>1. events' = (events \o <<f>>) \o <<t>>
      BY <2>2, <2>3
    <3>2. /\ Len(events) \in Nat /\ DOMAIN events = 1 .. Len(events)
          /\ Len(events') = Len(events) + 2
          /\ DOMAIN events' = 1 .. Len(events) + 2
          /\ \A k \in DOMAIN events : events'[k] = events[k]
          /\ events'[Len(events) + 1] = f /\ events'[Len(events) + 2] = t
      BY <1>1, <2>1, <3>1, AddedTwo
    <3>3. ASSUME NEW k \in DOMAIN events' \ DOMAIN events
          PROVE  k = Len(events) + 1 \/ k = Len(events) + 2
      BY <3>2
    <3> QED BY <2>1, <3>2, <3>3 DEF Posted
  <2>4. ASSUME mode # "once" PROVE Posted(task.id, TRUE)
    <3>1. events' = (events \o <<>>) \o <<t>>
      BY <2>2, <2>4
    <3>2. /\ Len(events) \in Nat /\ DOMAIN events = 1 .. Len(events)
          /\ Len(events') = Len(events) + 1
          /\ DOMAIN events' = 1 .. Len(events) + 1
          /\ \A k \in DOMAIN events : events'[k] = events[k]
          /\ events'[Len(events) + 1] = t
      BY <1>1, <2>1, <3>1, AddedOne
    <3> QED BY <2>1, <3>2 DEF Posted
  <2>5. Posted(task.id, TRUE)
    BY <2>3, <2>4
  <2>6. /\ pc = "calibrated" /\ task' = NoRequest /\ UNCHANGED streamId
        /\ UNCHANGED <<wire, sent, answer, current, queue, enumQueue>>
    BY <1>16 DEF FinishCalibration, Return
  <2> QED BY <2>5, <2>6 DEF MiscMove
<1> QED
  BY <1>5, <1>6, <1>7, <1>8, <1>9, <1>10, <1>11, <1>12, <1>13, <1>14,
     <1>15, <1>16 DEF MiscWork

-----------------------------------------------------------------------------
(* The places of ids.                                                      *)

LEMMA IdTypes ==
  ASSUME TypeOK
  PROVE  /\ \A c \in Client : wire[c] \in Seq(Request)
         /\ queue \in Seq(Request) /\ enumQueue \in Seq(Request)
         /\ events \in Seq(Event)
         /\ current.id \in Id /\ task.id \in Id /\ streamId \in Id
         /\ sent \in Nat /\ NoId \in Id
         /\ \A i \in Id : i > sent => i # NoId
         /\ NoRequest.id = NoId /\ NoCurrent.id = NoId
<1>1. MaxRequests \in Nat /\ Id = 0 .. MaxRequests /\ NoId = 0
  BY ServerAssumption DEF Id, NoId
<1>2. sent \in 0 .. MaxRequests
  BY DEF TypeOK
<1>3. sent \in Nat /\ NoId \in Id /\ \A i \in Id : i > sent => i # NoId
  BY <1>1, <1>2
<1> QED
  BY <1>3 DEF TypeOK, Request, NoRequest, NoCurrent

(* The main thread takes a request from the wire of c.                     *)
Takes(c, n) ==
  /\ n \in 1 .. Len(wire[c])
  /\ wire' = [wire EXCEPT ![c] = SubSeq(@, n + 1, Len(@))]
  /\ UNCHANGED <<queue, enumQueue, task, sent, events, streamId, pc>>

\* The bytes that the server reads take their request off the wire.
LEMMA TakesIds ==
  ASSUME TypeOK, NEW c \in Client, NEW n, Takes(c, n), OnePlace,
         NEW id, id = Parsed(SubSeq(wire[c], 1, n)).id
  PROVE  /\ id \in Id
         /\ id = NoId \/ InQueue(wire[c], id)
         /\ id # NoId => ~Waiting(id)'
         /\ \A i \in Id, d \in Client :
              InQueue(wire'[d], i) => InQueue(wire[d], i)
         /\ \A d \in Client : Distinct(wire'[d])
         /\ \A i \in Id : Waiting(i)' => Waiting(i)
<1>1. wire[c] \in Seq(Request) /\ n \in 1 .. Len(wire[c])
  BY IdTypes DEF Takes
<1>2. /\ wire'[c] = SubSeq(wire[c], n + 1, Len(wire[c]))
      /\ \A d \in Client \ {c} : wire'[d] = wire[d]
  BY DEF Takes, TypeOK
<1>3. /\ \A i : InQueue(wire'[c], i) => InQueue(wire[c], i)
      /\ Distinct(wire'[c])
      /\ wire[c][n].id # NoId => ~InQueue(wire'[c], wire[c][n].id)
  <2>1. Distinct(wire[c])
    BY DEF OnePlace
  <2> DEFINE s == SubSeq(wire[c], n + 1, Len(wire[c]))
  <2>2. /\ \A i : InQueue(s, i) => InQueue(wire[c], i)
        /\ Distinct(wire[c]) => Distinct(s)
        /\ Distinct(wire[c]) /\ wire[c][n].id # NoId
             => ~InQueue(s, wire[c][n].id)
    BY <1>1, SuffixIds
  <2> HIDE DEF s
  <2>3. wire'[c] = s
    BY <1>2 DEF s
  <2> QED BY <2>1, <2>2, <2>3
<1>4. id = NoId \/ (id = wire[c][n].id /\ InQueue(wire[c], id))
  <2>1. CASE n = 1
    <3>1. /\ Len(SubSeq(wire[c], 1, n)) = 1
          /\ SubSeq(wire[c], 1, n)[1] = wire[c][1]
          /\ 1 \in DOMAIN wire[c]
      BY <1>1, <2>1
    <3> QED BY <2>1, <3>1 DEF Parsed, InQueue
  <2>2. CASE n # 1
    <3>1. Len(SubSeq(wire[c], 1, n)) # 1
      BY <1>1, <2>2
    <3> QED BY <3>1 DEF Parsed, NoRequest
  <2> QED BY <2>1, <2>2
<1>5. \A i \in Id, d \in Client : InQueue(wire'[d], i) => InQueue(wire[d], i)
  BY <1>2, <1>3
<1>6. id \in Id
  <2>1. wire[c][n] \in Request
    BY <1>1
  <2>2. wire[c][n].id \in Id
    BY <2>1 DEF Request
  <2> QED BY <1>4, <2>2, IdTypes
<1>7. ASSUME id # NoId, NEW d \in Client, InQueue(wire'[d], id) PROVE FALSE
  <2>1. InQueue(wire[d], id) /\ InQueue(wire[c], id)
    BY <1>4, <1>5, <1>6, <1>7
  <2>2. d = c
    BY <1>6, <1>7, <2>1 DEF OnePlace
  <2> QED BY <1>3, <1>4, <1>7, <2>2
<1>8. \A d \in Client : Distinct(wire'[d])
  BY <1>2, <1>3 DEF OnePlace
<1>9. /\ id # NoId => ~Waiting(id)'
      /\ \A i \in Id : Waiting(i)' => Waiting(i)
  BY <1>5, <1>7 DEF Waiting
<1> QED BY <1>4, <1>5, <1>6, <1>8, <1>9

(* Requests stay where they are, or vanish.                                *)
LEMMA OnePlaceUnmoved ==
  ASSUME TypeOK, OnePlace, UNCHANGED <<wire, queue, enumQueue>>,
         current'.id \in {current.id, NoId}, task'.id \in {task.id, NoId}
  PROVE  OnePlace'
<1>1. ASSUME NEW i \in Id \ {NoId}
      PROVE  /\ Waiting(i)' => Waiting(i)
             /\ InHand(i)' => InHand(i)
             /\ current'.id = i => current.id = i
             /\ task'.id = i => task.id = i
  BY DEF Waiting, InHand
<1> QED BY <1>1 DEF OnePlace

\* A request that a client sends has an id that is nowhere else.
LEMMA OnePlaceSends ==
  ASSUME TypeOK, IdInv, NEW c \in Client, NEW cmd \in Command,
         ClientSends(c, cmd)
  PROVE  OnePlace' /\ \A i \in Id : Waiting(i)' => Waiting(i) \/ i = sent + 1
<1> DEFINE r == [id |-> sent + 1, cmd |-> cmd]
<1>1. /\ UNCHANGED <<queue, enumQueue, current, task>>
      /\ wire'[c] = Append(wire[c], r)
      /\ \A d \in Client \ {c} : wire'[d] = wire[d]
  BY DEF ClientSends, TypeOK, sockVars, mainVars, queueVars
<1>2. wire[c] \in Seq(Request) /\ r \in Request /\ r.id = sent + 1
      /\ r.id > sent /\ r.id \in Id
  <2>1. sent \in Nat /\ sent < MaxRequests /\ MaxRequests \in Nat
    BY IdTypes, ServerAssumption DEF ClientSends
  <2>2. sent + 1 \in Id /\ sent + 1 > sent
    BY <2>1 DEF Id
  <2>3. cmd \in AllCommand
    BY ServerAssumption
  <2> QED BY <2>2, <2>3, IdTypes DEF Request
<1>3. ~Somewhere(r.id)
  BY <1>2 DEF IdInv, Fresh
<1> HIDE DEF r
<1>4. /\ \A i : InQueue(wire'[c], i) <=> InQueue(wire[c], i) \/ i = r.id
      /\ Distinct(wire'[c])
  <2>1. ~InQueue(wire[c], r.id)
    BY <1>3 DEF Somewhere, Waiting
  <2> QED BY <1>1, <1>2, <2>1, AppendIds DEF IdInv, OnePlace
<1>5. \A i \in Id, d \in Client :
        InQueue(wire'[d], i) => InQueue(wire[d], i) \/ (d = c /\ i = r.id)
  BY <1>1, <1>4
<1>6. \A d \in Client : Distinct(wire'[d])
  BY <1>1, <1>4 DEF IdInv, OnePlace
<1>7. \A i \in Id : Waiting(i)' => Waiting(i) \/ i = r.id
  BY <1>5 DEF Waiting
<1>8. OnePlace'
  BY <1>1, <1>3, <1>5, <1>6, <1>7
  DEF IdInv, OnePlace, Somewhere, Waiting, InHand
<1> QED BY <1>2, <1>7, <1>8

\* One that is read is in hand, and no longer on the wire.
LEMMA OnePlaceReads ==
  ASSUME TypeOK, OnePlace, NEW c \in Client, NEW n, Takes(c, n),
         current' = current \/ current'.id = Parsed(SubSeq(wire[c], 1, n)).id
  PROVE  OnePlace'
<1>1. PICK id : id = Parsed(SubSeq(wire[c], 1, n)).id
  OBVIOUS
<1>2. /\ id = NoId \/ (InQueue(wire[c], id) /\ ~Waiting(id)')
      /\ \A i \in Id, d \in Client :
           InQueue(wire'[d], i) => InQueue(wire[d], i)
      /\ \A d \in Client : Distinct(wire'[d])
      /\ \A i \in Id : Waiting(i)' => Waiting(i)
  BY <1>1, TakesIds
<1>3. current' = current \/ current'.id = id
  BY <1>1
<1>4. id # NoId => Waiting(id)
  BY <1>2 DEF Waiting
<1>5. UNCHANGED <<queue, enumQueue, task>>
  BY DEF Takes
<1>6. ASSUME NEW i \in Id \ {NoId}, current'.id = i
      PROVE  /\ ~Waiting(i)'
             /\ ~InQueue(queue, i) /\ ~InQueue(enumQueue, i) /\ task.id # i
  BY <1>2, <1>3, <1>4, <1>6 DEF OnePlace, InHand
<1>7. ASSUME NEW i \in Id \ {NoId}, Waiting(i)'
      PROVE  ~InHand(i)' /\ task.id # i
  BY <1>2, <1>5, <1>6, <1>7 DEF OnePlace, InHand
<1> QED BY <1>2, <1>5, <1>6, <1>7 DEF OnePlace

\* One that is passed on is in a queue, and no longer in hand.
LEMMA OnePlaceQueues ==
  ASSUME TypeOK, OnePlace, UNCHANGED <<wire, task>>,
         DispatchEnum \/ DispatchMisc \/ OnDeviceRequestStartProcess
  PROVE  /\ OnePlace'
         /\ \A i \in Id \ {NoId} : InHand(i)' => InHand(i)
<1> USE DEF sockVars, mainVars, queueVars
<1>1. /\ queue \in Seq(Request) /\ enumQueue \in Seq(Request)
      /\ ToTask(current) \in Request /\ ToTask(current).id = current.id
      /\ NoCurrent.id = NoId
  BY IdTypes DEF TypeOK, ToTask, Request
<1>2. CASE DispatchEnum
  <2>1. /\ enumQueue' = Append(enumQueue, ToTask(current))
        /\ current'.id = NoId /\ queue' = queue
    BY <1>1, <1>2 DEF DispatchEnum
  <2>2. /\ \A i : InQueue(enumQueue', i)
                    <=> InQueue(enumQueue, i) \/ current.id = i
        /\ (current.id = NoId \/ ~InQueue(enumQueue, current.id))
             => Distinct(enumQueue')
    BY <1>1, <2>1, AppendIds DEF OnePlace
  <2>3. Distinct(enumQueue')
    BY <2>2, IdTypes DEF OnePlace
  <2>4. \A i \in Id \ {NoId} : InHand(i)' => InHand(i)
    BY <2>1, <2>2 DEF InHand
  <2>5. \A i \in Id \ {NoId} : Waiting(i)' => Waiting(i)
    BY DEF Waiting
  <2> QED BY <2>1, <2>2, <2>3, <2>4, <2>5 DEF OnePlace, InHand
<1>3. CASE DispatchMisc
  <2>1. /\ queue' = Append(queue, ToTask(current))
        /\ current'.id = NoId /\ enumQueue' = enumQueue
    BY <1>1, <1>3 DEF DispatchMisc
  <2>2. /\ \A i : InQueue(queue', i) <=> InQueue(queue, i) \/ current.id = i
        /\ (current.id = NoId \/ ~InQueue(queue, current.id))
             => Distinct(queue')
    BY <1>1, <2>1, AppendIds DEF OnePlace
  <2>3. Distinct(queue')
    BY <2>2, IdTypes DEF OnePlace
  <2>4. \A i \in Id \ {NoId} : InHand(i)' => InHand(i)
    BY <2>1, <2>2 DEF InHand
  <2>5. \A i \in Id \ {NoId} : Waiting(i)' => Waiting(i)
    BY DEF Waiting
  <2> QED BY <2>1, <2>2, <2>3, <2>4, <2>5 DEF OnePlace, InHand
<1>4. CASE OnDeviceRequestStartProcess
  <2> DEFINE r == [id |-> NoId, cmd |-> "start_process"]
  <2>1. queue' = Append(queue, r) /\ UNCHANGED <<current, enumQueue>>
    BY <1>4 DEF OnDeviceRequestStartProcess
  <2>2. r \in Request /\ r.id = NoId
    BY Constants DEF Request
  <2> HIDE DEF r
  <2>3. /\ \A i : InQueue(queue', i) <=> InQueue(queue, i) \/ NoId = i
        /\ Distinct(queue')
    BY <1>1, <2>1, <2>2, AppendIds DEF OnePlace
  <2>4. \A i \in Id \ {NoId} : InHand(i)' => InHand(i)
    BY <2>1, <2>3 DEF InHand
  <2>5. \A i \in Id \ {NoId} : Waiting(i)' => Waiting(i)
    BY DEF Waiting
  <2> QED BY <2>1, <2>3, <2>4, <2>5 DEF OnePlace, InHand
<1> QED BY <1>2, <1>3, <1>4

\* The misc thread takes it off its queue.
LEMMA OnePlaceTakes ==
  ASSUME TypeOK, OnePlace, TakeTask
  PROVE  /\ OnePlace'
         /\ \A i \in Id \ {NoId} : InHand(i)' => InHand(i)
         /\ \A i \in Id \ {NoId} : task'.id = i => InHand(i)
<1>1. /\ queue \in Seq(Request) /\ queue # <<>>
      /\ task' = Head(queue) /\ queue' = Tail(queue)
      /\ UNCHANGED <<wire, current, enumQueue>>
  BY IdTypes DEF TakeTask, sockVars, mainVars
<1>2. /\ \A i : InQueue(queue', i) => InQueue(queue, i)
      /\ Distinct(queue')
      /\ task'.id # NoId => ~InQueue(queue', task'.id)
      /\ InQueue(queue, task'.id)
  BY <1>1, TailIds DEF OnePlace
<1>3. \A i \in Id \ {NoId} : InHand(i)' => InHand(i)
  BY <1>1, <1>2 DEF InHand
<1>4. \A i \in Id \ {NoId} : Waiting(i)' => Waiting(i)
  BY <1>1 DEF Waiting
<1>5. \A i \in Id \ {NoId} : task'.id = i => InHand(i)
  BY <1>2 DEF InHand
<1> QED BY <1>1, <1>2, <1>3, <1>4, <1>5 DEF OnePlace, InHand

\* And the enumeration thread off its own.
LEMMA OnePlaceEnum ==
  ASSUME TypeOK, OnePlace, EnumTask
  PROVE  /\ OnePlace'
         /\ \A i \in Id \ {NoId} : InHand(i)' => InHand(i)
         /\ Head(enumQueue).id \in Id
         /\ \A i \in Id \ {NoId} : i = Head(enumQueue).id =>
              /\ InQueue(enumQueue, i)
              /\ ~Waiting(i)' /\ ~InHand(i)' /\ task'.id # i
<1>1. /\ enumQueue \in Seq(Request) /\ enumQueue # <<>>
      /\ enumQueue' = Tail(enumQueue)
      /\ UNCHANGED <<wire, current, queue, task>>
  BY IdTypes DEF EnumTask, sockVars, mainVars
<1>2. PICK h : h = Head(enumQueue).id
  OBVIOUS
<1>3. /\ \A i : InQueue(enumQueue', i) => InQueue(enumQueue, i)
      /\ Distinct(enumQueue')
      /\ h # NoId => ~InQueue(enumQueue', h)
      /\ InQueue(enumQueue, h)
  BY <1>1, <1>2, TailIds DEF OnePlace
<1>4. \A i \in Id \ {NoId} : InHand(i)' => InHand(i)
  BY <1>1, <1>3 DEF InHand
<1>5. \A i \in Id \ {NoId} : Waiting(i)' => Waiting(i)
  BY <1>1 DEF Waiting
<1>6. h \in Id
  <2>1. Head(enumQueue) \in Request
    BY <1>1
  <2> QED BY <1>2, <2>1 DEF Request
<1>7. OnePlace'
  BY <1>1, <1>3, <1>4, <1>5 DEF OnePlace, InHand
<1>8. h # NoId => ~Waiting(h)' /\ ~InHand(h)' /\ task'.id # h
  BY <1>1, <1>3, <1>5, <1>6 DEF OnePlace, InHand
<1> QED BY <1>2, <1>3, <1>4, <1>6, <1>7, <1>8

-----------------------------------------------------------------------------
(* What has left no place a task can begin from does not come back.        *)

(* Requests move on or vanish, and nothing else changes.                   *)
LEMMA PlacesKept ==
  ASSUME TypeOK, IdInv, UNCHANGED <<sent, answer, events, streamId>>,
         \A i \in Id \ {NoId} :
           /\ Waiting(i)' => Waiting(i)
           /\ InHand(i)' => Waiting(i) \/ InHand(i)
           /\ task'.id = i =>
                \/ InHand(i)
                \/ task.id = i /\ (pc = "clear" => pc' = "clear")
  PROVE  Fresh' /\ Settled' /\ LastFinish'
<1>1. \A i \in Id \ {NoId} : Somewhere(i)' => Somewhere(i)
  BY DEF Somewhere
<1>2. \A i : Finished(i)' <=> Finished(i)
  BY DEF Finished
<1>3. Fresh'
  BY <1>1, <1>2, IdTypes DEF IdInv, Fresh
<1>4. Settled'
  BY <1>1, <1>2 DEF IdInv, Settled
<1>5. LastFinish'
  BY DEF IdInv, LastFinish
<1> QED BY <1>3, <1>4, <1>5

\* So the clients keep the invariant of the ids,
LEMMA SendsKeeps ==
  ASSUME TypeOK, IdInv, NEW c \in Client, NEW cmd \in Command,
         ClientSends(c, cmd)
  PROVE  IdInv'
<1>1. OnePlace' /\ \A i \in Id : Waiting(i)' => Waiting(i) \/ i = sent + 1
  BY OnePlaceSends
<1>2. /\ sent' = sent + 1 /\ sent + 1 \in Id /\ sent + 1 > sent
      /\ sent \in Nat
      /\ UNCHANGED <<queue, enumQueue, current, task, events, streamId,
                     answer, pc>>
  <2>1. sent \in Nat /\ sent < MaxRequests /\ MaxRequests \in Nat
    BY IdTypes, ServerAssumption DEF ClientSends
  <2> QED
    BY <2>1 DEF ClientSends, Id, mainVars, queueVars, deviceVars
<1>3. \A i \in Id : InHand(i)' <=> InHand(i)
  BY <1>2 DEF InHand
<1>4. \A i : Finished(i)' <=> Finished(i)
  BY <1>2 DEF Finished
<1>5. \A i \in Id : i > sent' => i > sent /\ i # sent + 1
  BY <1>2 DEF Id
<1>6. Fresh'
  BY <1>1, <1>2, <1>3, <1>4, <1>5 DEF IdInv, Fresh, Somewhere
<1>7. ASSUME NEW i \in Id \ {NoId}, i = sent + 1
      PROVE  answer[i] # "busy" /\ streamId # i /\ ~Finished(i)
  BY <1>2, <1>7 DEF IdInv, Fresh
<1>8. Settled'
  BY <1>1, <1>2, <1>3, <1>4, <1>7 DEF IdInv, Settled, Somewhere
<1>9. LastFinish'
  BY <1>2 DEF IdInv, LastFinish
<1> QED BY <1>1, <1>6, <1>8, <1>9 DEF IdInv

\* and the server, with what it reads and answers or passes on,
LEMMA ReadsKeeps ==
  ASSUME TypeOK, IdInv, NEW c \in Client, OnReadyRead(c)
  PROVE  IdInv'
<1>1. PICK n \in 1 .. Len(wire[c]) :
        LET req == Parsed(SubSeq(wire[c], 1, n)) IN
        /\ wire' = [wire EXCEPT ![c] = SubSeq(@, n + 1, Len(@))]
        /\ \/ /\ ~isProcessing
              /\ requests' = Record(c, req.id)
              /\ main' = "dispatch"
              /\ current' = [id |-> req.id, cmd |-> req.cmd, run |-> runs]
              /\ UNCHANGED answer
           \/ /\ isProcessing
              /\ SendProcessResult(Record(c, req.id), BusyReply(req.id))
              /\ UNCHANGED mainVars
  BY DEF OnReadyRead
<1>2. PICK id : id = Parsed(SubSeq(wire[c], 1, n)).id
  OBVIOUS
<1>3. Takes(c, n)
  BY <1>1 DEF OnReadyRead, Takes, queueVars, deviceVars
<1>4. UNCHANGED <<sent, events, streamId, pc, task, queue, enumQueue>>
  BY DEF OnReadyRead, queueVars, deviceVars
<1>5. OnePlace
  BY DEF IdInv
<1>6. /\ id \in Id
      /\ id = NoId \/ InQueue(wire[c], id)
      /\ id # NoId => ~Waiting(id)'
      /\ \A i \in Id : Waiting(i)' => Waiting(i)
  BY <1>2, <1>3, <1>5, TakesIds
<1>7. id = NoId \/ Waiting(id)
  BY <1>6 DEF Waiting
<1>8. current' = current \/ current'.id = id
  BY <1>1, <1>2 DEF mainVars
<1>9. OnePlace'
  BY <1>2, <1>3, <1>5, <1>8, OnePlaceReads
<1>10. CASE UNCHANGED answer
  <2>1. \A i \in Id \ {NoId} : InHand(i)' => Waiting(i) \/ InHand(i)
    BY <1>4, <1>7, <1>8 DEF InHand
  <2> QED BY <1>4, <1>6, <1>9, <1>10, <2>1, PlacesKept DEF IdInv
<1>11. CASE id # NoId /\ UNCHANGED current
            /\ answer' = [answer EXCEPT ![id] = "busy"]
  <2>1. ~InHand(id) /\ task.id # id /\ id <= sent
    <3>1. Somewhere(id)
      BY <1>7, <1>11 DEF Somewhere
    <3>2. ~(id > sent)
      BY <1>6, <3>1 DEF IdInv, Fresh
    <3>3. id \in Nat /\ sent \in Nat
      BY <1>6, ServerAssumption, IdTypes DEF Id
    <3> QED BY <1>5, <1>6, <1>7, <1>11, <3>2, <3>3 DEF OnePlace
  <2>2. \A i \in Id : InHand(i)' <=> InHand(i)
    BY <1>4, <1>11 DEF InHand
  <2>3. \A i : Finished(i)' <=> Finished(i)
    BY <1>4 DEF Finished
  <2>4. ~Somewhere(id)'
    BY <1>4, <1>6, <1>11, <2>1, <2>2 DEF Somewhere
  <2>5. \A i \in Id : Somewhere(i)' => Somewhere(i)
    BY <1>4, <1>6, <2>2 DEF Somewhere
  <2>6. \A i \in Id : answer'[i] = "busy" => answer[i] = "busy" \/ i = id
    BY <1>6, <1>11 DEF TypeOK
  <2>7. ~(id > sent)
    <3>1. id \in Nat /\ sent \in Nat
      BY <1>6, ServerAssumption, IdTypes DEF Id
    <3> QED BY <2>1, <3>1
  <2>8. Fresh'
    BY <1>4, <2>3, <2>5, <2>6, <2>7 DEF IdInv, Fresh
  <2>9. Settled'
    BY <1>4, <1>6, <2>2, <2>3, <2>4, <2>5, <2>6 DEF IdInv, Settled
  <2>10. LastFinish'
    BY <1>4 DEF IdInv, LastFinish
  <2> QED BY <1>9, <2>8, <2>9, <2>10 DEF IdInv
<1>12. \/ UNCHANGED answer
       \/ /\ id # NoId /\ UNCHANGED current
          /\ answer' = [answer EXCEPT ![id] = "busy"]
  BY <1>1, <1>2 DEF SendProcessResult, BusyReply, Finishing, mainVars
<1> QED BY <1>10, <1>11, <1>12

(* A message posted for i, whose task is somewhere or has begun to stream. *)
LEMMA PostingKeeps ==
  ASSUME TypeOK, TypeOK', IdInv, OnePlace', UNCHANGED <<sent, answer>>,
         NEW i \in Id, NEW finish \in BOOLEAN, Posted(i, finish),
         i = NoId \/ ~Finished(i),
         i = NoId \/ Somewhere(i) \/ streamId = i,
         \A j \in Id \ {NoId} :
           /\ Waiting(j)' => Waiting(j)
           /\ InHand(j)' => InHand(j)
           /\ task'.id = j => /\ task.id = j
                              /\ pc = "clear" => pc' = "clear"
           /\ streamId' = j => streamId = j \/ (i = j /\ ~Somewhere(j)')
           /\ finish /\ i = j =>
                /\ ~Waiting(j)' /\ ~InHand(j)' /\ streamId' # j
                /\ task'.id = j => pc' = "clear"
  PROVE  IdInv'
<1>1. events \in Seq(Event) /\ events' \in Seq(Event)
  BY DEF TypeOK
<1>2. /\ \A j : Finished(j)' => Finished(j) \/ (finish /\ j = i)
      /\ \A k \in DOMAIN events' : events'[k].kind # "busy"
      /\ LastFinish'
  BY <1>1, PostedKeeps DEF IdInv
<1>3. \A j \in Id \ {NoId} : Somewhere(j)' => Somewhere(j)
  BY DEF Somewhere
<1>4. ASSUME NEW j \in Id, j > sent
      PROVE  /\ ~Somewhere(j)' /\ streamId' # j /\ answer'[j] # "busy"
             /\ ~Finished(j)'
  <2>1. j # NoId /\ ~Somewhere(j) /\ streamId # j /\ answer[j] # "busy"
        /\ ~Finished(j)
    BY <1>4, IdTypes DEF IdInv, Fresh
  <2>2. i # j
    BY <2>1
  <2> QED BY <1>2, <1>3, <2>1, <2>2
<1>5. Fresh'
  BY <1>4 DEF Fresh
<1>6. ASSUME NEW j \in Id \ {NoId}
      PROVE  /\ answer'[j] = "busy" => ~Somewhere(j)'
             /\ streamId' = j => ~Somewhere(j)'
             /\ Finished(j)' => /\ ~Waiting(j)' /\ ~InHand(j)'
                                /\ streamId' # j
                                /\ task'.id = j => pc' = "clear"
  <2>1. answer'[j] = "busy" => ~Somewhere(j)'
    BY <1>3 DEF IdInv, Settled
  <2>2. streamId' = j => ~Somewhere(j)'
    BY <1>3 DEF IdInv, Settled
  <2>3. Finished(j) => /\ ~Waiting(j)' /\ ~InHand(j)' /\ streamId' # j
                       /\ task'.id = j => pc' = "clear"
    BY DEF IdInv, Settled
  <2> QED BY <1>2, <2>1, <2>2, <2>3
<1>7. Settled'
  BY <1>2, <1>6 DEF Settled
<1> QED BY <1>2, <1>5, <1>7 DEF IdInv

\* and the misc thread,
LEMMA MiscKeeps ==
  ASSUME TypeOK, TypeOK', IdInv, MiscMove
  PROVE  IdInv'
<1>1. PICK finish \in BOOLEAN :
        /\ Posted(task.id, finish)
        /\ finish => pc' = "clear" \/ task' = NoRequest
        /\ \/ UNCHANGED streamId
           \/ streamId' = task.id /\ ~finish /\ task' = NoRequest
  BY DEF MiscMove
<1>2. PICK i : i = task.id
  OBVIOUS
<1>3. /\ UNCHANGED <<wire, sent, answer, current, queue, enumQueue>>
      /\ task' = task \/ task' = NoRequest
      /\ pc = "clear" => /\ UNCHANGED <<events, streamId>>
                         /\ pc' = "clear" \/ task' = NoRequest
      /\ i \in Id /\ NoRequest.id = NoId
  BY <1>2, IdTypes DEF MiscMove
<1>4. /\ \A j \in Id \ {NoId} : Waiting(j)' <=> Waiting(j)
      /\ \A j \in Id \ {NoId} : InHand(j)' <=> InHand(j)
  BY <1>3 DEF Waiting, InHand
<1>5. OnePlace'
  BY <1>3, OnePlaceUnmoved DEF IdInv
<1>6. \A j \in Id \ {NoId} :
        task'.id = j => task.id = j /\ (pc = "clear" => pc' = "clear")
  BY <1>3
<1>7. CASE pc = "clear"
  BY <1>3, <1>4, <1>5, <1>6, <1>7, PlacesKept DEF IdInv
<1>8. CASE pc # "clear"
  <2>1. i = NoId \/ ~Finished(i)
    BY <1>2, <1>3, <1>8 DEF IdInv, Settled
  <2>2. i = NoId \/ Somewhere(i)
    BY <1>2 DEF Somewhere
  <2>3. ASSUME NEW j \in Id \ {NoId}, i = j
        PROVE  ~Waiting(j)' /\ ~InHand(j)' /\ streamId # j
    BY <1>2, <1>4, <2>2, <2>3 DEF IdInv, OnePlace, InHand, Settled
  <2>4. \A j \in Id \ {NoId} :
          streamId' = j => streamId = j \/ (i = j /\ ~Somewhere(j)')
    BY <1>1, <1>2, <1>3, <2>3 DEF Somewhere
  <2>5. \A j \in Id \ {NoId} : finish /\ i = j =>
          /\ ~Waiting(j)' /\ ~InHand(j)' /\ streamId' # j
          /\ task'.id = j => pc' = "clear"
    BY <1>1, <1>2, <1>3, <2>3
  <2> QED
    BY <1>1, <1>2, <1>3, <1>4, <1>5, <1>6, <2>1, <2>2, <2>4, <2>5,
       PostingKeeps
<1> QED BY <1>7, <1>8

\* and the enumeration thread,
LEMMA EnumKeeps ==
  ASSUME TypeOK, TypeOK', IdInv, EnumTask
  PROVE  IdInv'
<1>1. PICK i : i = Head(enumQueue).id
  OBVIOUS
<1>2. /\ OnePlace' /\ i \in Id
      /\ \A j \in Id \ {NoId} : InHand(j)' => InHand(j)
      /\ i # NoId => InQueue(enumQueue, i) /\ ~Waiting(i)' /\ ~InHand(i)'
                     /\ task'.id # i
  BY <1>1, OnePlaceEnum DEF IdInv
<1>3. UNCHANGED <<wire, sent, answer, streamId, task, pc>>
  BY DEF EnumTask, sockVars, deviceVars
<1>4. Posted(i, TRUE)
  <2>1. PICK kind \in Kind \ {"busy"} : PostEvent(i, kind, TRUE)
    BY <1>1 DEF EnumTask, Kind
  <2> QED BY <1>2, <2>1, IdTypes, PostIsPosted
<1>5. i = NoId \/ (InHand(i) /\ Somewhere(i))
  BY <1>2 DEF InHand, Somewhere
<1>6. i = NoId \/ (~Finished(i) /\ streamId # i)
  BY <1>2, <1>5 DEF IdInv, Settled
<1>7. \A j \in Id \ {NoId} : Waiting(j)' => Waiting(j)
  BY <1>3 DEF Waiting
<1> QED BY <1>2, <1>3, <1>4, <1>5, <1>6, <1>7, PostingKeeps

\* and the images of a stream,
LEMMA StreamKeeps ==
  ASSUME TypeOK, TypeOK', IdInv, OnStreamImageReady
  PROVE  IdInv'
<1>1. PICK i : i = streamId
  OBVIOUS
<1>2. UNCHANGED <<wire, sent, answer, streamId, current, queue, enumQueue,
                  task, pc>>
  BY DEF OnStreamImageReady, sockVars, deviceVars, mainVars, queueVars
<1>3. OnePlace'
  BY <1>2, OnePlaceUnmoved DEF IdInv
<1>4. Posted(i, FALSE) /\ i \in Id
  BY <1>1, IdTypes, PostIsPosted DEF OnStreamImageReady, Kind
<1>5. i = NoId \/ ~Finished(i)
  BY <1>1, <1>4 DEF IdInv, Settled
<1>6. \A j \in Id \ {NoId} :
        (Waiting(j)' => Waiting(j)) /\ (InHand(j)' => InHand(j))
  BY <1>2 DEF Waiting, InHand
<1> QED BY <1>1, <1>2, <1>3, <1>4, <1>5, <1>6, PostingKeeps

\* and the delivery of the events.
LEMMA DeliveryKeeps ==
  ASSUME TypeOK, IdInv, OnTaskFinished
  PROVE  IdInv'
<1>1. UNCHANGED <<wire, sent, streamId, current, queue, enumQueue, task, pc>>
  BY DEF OnTaskFinished, deviceVars, mainVars, queueVars
<1>2. /\ events \in Seq(Event) /\ events # <<>> /\ events' = Tail(events)
      /\ SendProcessResult(requests, Head(events))
  BY IdTypes DEF OnTaskFinished
<1>3. /\ Len(events) \in Nat /\ DOMAIN events = 1 .. Len(events)
      /\ Len(events') = Len(events) - 1
      /\ DOMAIN events' = 1 .. Len(events) - 1
      /\ \A k \in DOMAIN events' :
           k + 1 \in DOMAIN events /\ events'[k] = events[k + 1]
      /\ 1 \in DOMAIN events /\ Head(events) = events[1]
  BY <1>2
<1>4. \A j \in Id : answer'[j] = "busy" => answer[j] = "busy"
  BY <1>2, <1>3
  DEF IdInv, Settled, SendProcessResult, Finishing, TypeOK
<1>5. OnePlace'
  BY <1>1, OnePlaceUnmoved DEF IdInv
<1>6. \A j : Finished(j)' => Finished(j)
  BY <1>3 DEF Finished
<1>7. \A j \in Id : (Waiting(j)' <=> Waiting(j)) /\ (InHand(j)' <=> InHand(j))
  BY <1>1 DEF Waiting, InHand
<1>8. Fresh'
  BY <1>1, <1>4, <1>6, <1>7 DEF IdInv, Fresh, Somewhere
<1>9. Settled'
  BY <1>1, <1>3, <1>4, <1>6, <1>7 DEF IdInv, Settled, Somewhere
<1>10. LastFinish'
  <2> SUFFICES ASSUME NEW k \in DOMAIN events', events'[k].finish,
                      events'[k].id # NoId, NEW l \in k + 1 .. Len(events')
               PROVE  events'[l].id # events'[k].id
    BY DEF LastFinish
  <2>1. /\ k \in Nat /\ l \in DOMAIN events'
        /\ k + 1 \in DOMAIN events /\ l + 1 \in (k + 1) + 1 .. Len(events)
    BY <1>3
  <2> QED BY <1>3, <2>1 DEF IdInv, LastFinish
<1> QED BY <1>5, <1>8, <1>9, <1>10 DEF IdInv

(* The other steps: no request is put anywhere, and nothing is posted.     *)
LEMMA OthersKeep ==
  ASSUME TypeOK, IdInv,
         \/ DispatchEnum \/ DispatchMisc \/ OnDeviceRequestStartProcess
         \/ TakeTask
         \/ DispatchStop \/ DispatchUnknown \/ StoreTerminate
         \/ DispatchStopServer \/ DeleteEnumThread \/ ReleaseMembers
         \/ JoinMiscThread \/ OnTaskFinishedFault \/ EnumFault
         \/ PostStreamImage
         \/ \E c \in Client : IncomingConnection(c) \/ OnDisconnected(c)
         \/ Rest \/ UNCHANGED vars
  PROVE  IdInv'
<1> USE DEF sockVars, mainVars, queueVars, deviceVars
<1>1. CASE DispatchEnum \/ DispatchMisc \/ OnDeviceRequestStartProcess
  <2>1. UNCHANGED <<wire, sent, answer, events, streamId, task, pc>>
    BY <1>1 DEF DispatchEnum, DispatchMisc, OnDeviceRequestStartProcess
  <2>2. OnePlace' /\ \A i \in Id \ {NoId} : InHand(i)' => InHand(i)
    BY <1>1, <2>1, OnePlaceQueues DEF IdInv
  <2>3. \A i \in Id \ {NoId} : Waiting(i)' => Waiting(i)
    BY <2>1 DEF Waiting
  <2> QED BY <2>1, <2>2, <2>3, PlacesKept DEF IdInv
<1>2. CASE TakeTask
  <2>1. UNCHANGED <<wire, sent, answer, events, streamId>>
    BY <1>2 DEF TakeTask
  <2>2. /\ OnePlace'
        /\ \A i \in Id \ {NoId} : InHand(i)' => InHand(i)
        /\ \A i \in Id \ {NoId} : task'.id = i => InHand(i)
    BY <1>2, OnePlaceTakes DEF IdInv
  <2>3. \A i \in Id \ {NoId} : Waiting(i)' => Waiting(i)
    BY <2>1 DEF Waiting
  <2> QED BY <2>1, <2>2, <2>3, PlacesKept DEF IdInv
<1>3. ASSUME UNCHANGED <<wire, sent, answer, events, streamId, queue,
                         enumQueue, task, pc>>,
             current' \in {current, NoCurrent}
      PROVE  IdInv'
  <2>1. current'.id \in {current.id, NoId}
    BY <1>3, IdTypes
  <2>2. OnePlace'
    BY <1>3, <2>1, OnePlaceUnmoved DEF IdInv
  <2>3. \A i \in Id \ {NoId} :
          (Waiting(i)' => Waiting(i)) /\ (InHand(i)' => InHand(i))
    BY <1>3, <2>1 DEF Waiting, InHand
  <2> QED BY <1>3, <2>2, <2>3, PlacesKept DEF IdInv
<1>4. CASE DispatchStop \/ DispatchUnknown \/ StoreTerminate
  BY <1>3, <1>4 DEF DispatchStop, DispatchUnknown, StoreTerminate
<1>5. CASE \/ DispatchStopServer \/ DeleteEnumThread \/ ReleaseMembers
           \/ JoinMiscThread \/ OnTaskFinishedFault \/ EnumFault
           \/ PostStreamImage
  BY <1>3, <1>5
  DEF DispatchStopServer, DeleteEnumThread, ReleaseMembers, JoinMiscThread,
      OnTaskFinishedFault, EnumFault, PostStreamImage
<1>6. CASE Rest \/ UNCHANGED vars
  BY <1>3, <1>6 DEF Rest, vars
<1>7. ASSUME NEW c \in Client, IncomingConnection(c) PROVE IdInv'
  BY <1>3, <1>7 DEF IncomingConnection
<1>8. ASSUME NEW c \in Client, OnDisconnected(c) PROVE IdInv'
  <2>1. /\ UNCHANGED <<sent, answer, events, streamId, queue, enumQueue,
                       task, pc, current>>
        /\ wire' = [wire EXCEPT ![c] = <<>>]
    BY <1>8 DEF OnDisconnected
  <2>2. /\ \A i : ~InQueue(wire'[c], i)
        /\ Distinct(wire'[c])
        /\ \A d \in Client \ {c} : wire'[d] = wire[d]
    BY <2>1 DEF TypeOK, InQueue, Distinct
  <2>3. \A i, d : d \in Client /\ InQueue(wire'[d], i) => InQueue(wire[d], i)
    BY <2>2
  <2>4. \A i : (Waiting(i)' => Waiting(i)) /\ (InHand(i)' <=> InHand(i))
    BY <2>1, <2>3 DEF Waiting, InHand
  <2>5. OnePlace'
    BY <2>1, <2>2, <2>3, <2>4 DEF IdInv, OnePlace
  <2> QED BY <2>1, <2>4, <2>5, PlacesKept DEF IdInv
<1> QED BY <1>1, <1>2, <1>4, <1>5, <1>6, <1>7, <1>8

\* Every step keeps it.
LEMMA IdStep == TypeOK /\ TypeOK' /\ IdInv /\ [Next]_vars => IdInv'
<1> SUFFICES ASSUME TypeOK, TypeOK', IdInv, [Next]_vars PROVE IdInv'
    OBVIOUS
<1>1. CASE MainWork
  <2>1. CASE \E c \in Client : OnReadyRead(c)
    BY <2>1, ReadsKeeps
  <2>2. CASE OnTaskFinished
    BY <2>2, DeliveryKeeps
  <2>3. CASE OnStreamImageReady
    BY <2>3, StreamKeeps
  <2> QED BY <1>1, <2>1, <2>2, <2>3, OthersKeep DEF MainWork
<1>2. CASE MiscWork
  BY <1>2, MiscMoves, MiscKeeps, OthersKeep
<1>3. CASE EnumWork
  BY <1>3, EnumKeeps, OthersKeep DEF EnumWork
<1>4. CASE Environment
  BY <1>4, SendsKeeps, OthersKeep DEF Environment
<1>5. CASE Rest \/ UNCHANGED vars
  BY <1>5, OthersKeep
<1> QED BY <1>1, <1>2, <1>3, <1>4, <1>5 DEF Next

\* The server starts with it.
LEMMA IdInit == Init => IdInv
<1> SUFFICES ASSUME Init PROVE IdInv
    OBVIOUS
<1>1. /\ \A i : ~InQueue(queue, i) /\ ~InQueue(enumQueue, i)
      /\ \A i, c : c \in Client => ~InQueue(wire[c], i)
      /\ current.id = NoId /\ task.id = NoId
  BY DEF Init, InQueue, NoCurrent, NoRequest
<1>2. \A i \in Id \ {NoId} : ~Somewhere(i)
  BY <1>1 DEF Somewhere, Waiting, InHand
<1>3. \A i : ~Finished(i)
  BY DEF Init, Finished
<1>4. OnePlace
  <2>1. Distinct(<<>>)
    BY DEF Distinct
  <2> QED BY <1>1, <2>1 DEF Init, OnePlace, Waiting
<1>5. Fresh
  <2>1. \A i \in Id : i > sent => i # NoId
    BY ServerAssumption DEF Init, Id, NoId
  <2> QED BY <1>2, <1>3, <2>1 DEF Init, Fresh
<1>6. Settled
  BY <1>2, <1>3 DEF Init, Settled
<1>7. LastFinish
  BY DEF Init, LastFinish
<1> QED BY <1>4, <1>5, <1>6, <1>7 DEF IdInv

(* The inductive invariant about request ids: a request is in one place    *)
(* and there once, an id not used yet has left no trace, and what has been *)
(* refused or finished has no task any more.                               *)
THEOREM IdsAreTracked == Spec => []IdInv
<1>1. TypeOK /\ TypeOK' /\ IdInv /\ [Next]_vars => IdInv'
  BY IdStep
<1> QED BY <1>1, IdInit, TypeCorrect, PTL DEF Spec

(* A request refused by the busy gate is in no queue, is not dispatched    *)
(* and is not executed, at any later time.                                 *)
THEOREM RefusalIsFinal == Spec => []RefusedNeverRuns
<1>1. IdInv => RefusedNeverRuns
  BY DEF IdInv, Settled, Somewhere, InHand, RefusedNeverRuns
<1> QED BY <1>1, IdsAreTracked, PTL

(* No message of a task is posted behind the one that finishes it, whichever *)
(* thread posts it: not by another branch, not for another task, and not   *)
(* by the stream.                                                          *)
THEOREM FinishComesLast == Spec => []FinishIsLast
<1>1. TypeOK /\ IdInv => FinishIsLast
  <2> SUFFICES ASSUME TypeOK, IdInv, NEW k \in DOMAIN events,
                      events[k].finish, events[k].id # NoId
               PROVE  /\ \A l \in k + 1 .. Len(events) :
                           events[l].id # events[k].id
                      /\ task.id = events[k].id => pc = "clear"
                      /\ streamId # events[k].id
    BY DEF FinishIsLast
  <2>1. events[k] \in Event
    BY DEF TypeOK
  <2>2. events[k].id \in Id \ {NoId} /\ Finished(events[k].id)
    BY <2>1 DEF Event, Finished
  <2> QED BY <2>2 DEF IdInv, Settled, LastFinish
<1> QED BY <1>1, IdsAreTracked, TypeCorrect, PTL
=============================================================================
