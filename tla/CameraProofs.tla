---------------------------- MODULE CameraProofs ----------------------------
(* The misc thread and the driver's thread share m_image under no lock:    *)
(* m_frame_ready alone keeps them apart, and the images in their order.    *)
EXTENDS Camera, TLAPS

Waiting == {"fire", "test", "block", "blocked"}

\* While a call waits, or reads the image, a frame that is ready has left the
\* callback; a frame that came in time stays ready until the call returns.
Handover ==
  /\ ready /\ caller \in Waiting \cup {"read"} =>
       callback \notin {"store", "set"}
  /\ caller = "read" => ready
  /\ caller \in Waiting /\ inTime => ready
  /\ caller = "giveup" => ~inTime

(* Opening, closing and the device leave the handover alone.               *)
LEMMA HandoverDevice ==
  Handover /\ (Open \/ Close \/ StartGrab \/ StopGrab \/ SetTriggerMode
               \/ Device) => Handover'
  BY DEF Handover, Waiting, Open, Close, StartGrab, StopGrab, SetTriggerMode,
         Device, LoopFrame, LoseFrame, TriggerUnchanged, callerVars,
         callbackVars

(* trigger_once: it clears m_frame_ready before it asks for a frame, and   *)
(* gives up only after it has found m_frame_ready clear.                   *)
LEMMA HandoverCaller == Handover /\ (TriggerOnce \/ TriggerWork) => Handover'
  <1> SUFFICES ASSUME Handover, TriggerOnce \/ TriggerWork PROVE Handover'
    OBVIOUS
  <1> USE DEF Handover, Waiting, Caller, callbackVars
  <1>1. CASE TriggerOnce
    BY <1>1 DEF TriggerOnce
  <1>2. CASE FireFails
    BY <1>2 DEF FireFails, Returns
  <1>3. CASE Fire
    BY <1>3 DEF Fire
  <1>4. CASE TestReady
    BY <1>4 DEF TestReady
  <1>5. CASE Block
    BY <1>5 DEF Block
  <1>6. CASE WakeUp
    BY <1>6 DEF WakeUp
  <1>7. CASE Timeout
    BY <1>7 DEF Timeout
  <1>8. CASE GiveUp
    BY <1>8 DEF GiveUp, Returns
  <1>9. CASE ReadImage
    BY <1>9 DEF ReadImage, Returns
  <1> QED
    BY <1>1, <1>2, <1>3, <1>4, <1>5, <1>6, <1>7, <1>8, <1>9 DEF TriggerWork

(* stream_callback: it starts to store only what finds m_frame_ready clear.*)
LEMMA HandoverCallback == Handover /\ CallbackWork => Handover'
  <1> SUFFICES ASSUME Handover, CallbackWork PROVE Handover'
    OBVIOUS
  <1> USE DEF Handover, Waiting, Callback, callerVars, callbackVars
  <1>1. CASE CallbackBegins
    BY <1>1 DEF CallbackBegins
  <1>2. CASE CallbackTests
    BY <1>2 DEF CallbackTests
  <1>3. CASE CallbackStores
    BY <1>3 DEF CallbackStores
  <1>4. CASE CallbackSets
    BY <1>4 DEF CallbackSets
  <1>5. CASE CallbackNotifies
    BY <1>5 DEF CallbackNotifies
  <1> QED
    BY <1>1, <1>2, <1>3, <1>4, <1>5 DEF CallbackWork

(* The handover is an invariant of the camera, whatever the bounds.        *)
THEOREM HandoverHolds == Spec => []Handover
  <1>1. Init => Handover
    BY DEF Init, Handover, Waiting
  <1>2. Handover /\ [Next]_vars => Handover'
    <2> SUFFICES ASSUME Handover, [Next]_vars PROVE Handover'
      OBVIOUS
    <2>1. CASE Next
      BY <2>1, HandoverDevice, HandoverCaller, HandoverCallback DEF Next
    <2>2. CASE UNCHANGED vars
      BY <2>2 DEF Handover, vars, callerVars, callbackVars
    <2> QED
      BY <2>1, <2>2
  <1> QED
    BY <1>1, <1>2, PTL DEF Spec

(* The driver's thread never writes m_image while the misc thread reads    *)
(* it, whatever frames come late, come unasked or are lost.                *)
THEOREM ImageIsNotTorn == Spec => []NoImageRace
  <1>1. Handover => NoImageRace
    BY DEF Handover, NoImageRace
  <1> QED
    BY <1>1, HandoverHolds, PTL

(* No frame that came in time is given up, though the callback notifies    *)
(* without the mutex and its notification may be lost.                     *)
THEOREM FramesInTimeCount == Spec => []InTimeIsReturned
  <1>1. Handover => InTimeIsReturned
    BY DEF Handover, InTimeIsReturned
  <1> QED
    BY <1>1, HandoverHolds, PTL

-----------------------------------------------------------------------------
(* Types.  A call fires the trigger it has counted.                        *)

TypesInv == TypeOK /\ (caller # "idle" => trigger \in Trigger)

(* The calls that configure the camera, and the device.                    *)
LEMMA TypesDevice ==
  ASSUME TypesInv, Open \/ Close \/ StartGrab \/ StopGrab \/ SetTriggerMode
                   \/ Device
  PROVE  TypesInv'
  <1> USE DEF TypesInv, TypeOK, TriggerUnchanged, callerVars, callbackVars
  <1>1. Loop \in Frame
    BY DEF Frame
  <1>2. flight' \in Seq(Frame)
    <2>1. CASE LoopFrame
      <3>1. flight \in Seq(Frame) /\ flight' = Append(flight, Loop)
        BY <2>1 DEF LoopFrame
      <3> HIDE DEF TypesInv, TypeOK
      <3> QED
        BY <1>1, <3>1
    <2>2. CASE LoseFrame
      BY <2>2 DEF LoseFrame
    <2>3. CASE Close
      <3>1. <<>> \in Seq(Frame)
        OBVIOUS
      <3>2. flight' \in {flight, <<>>}
        BY <2>3 DEF Close
      <3> QED
        BY <3>1, <3>2
    <2>4. CASE Open \/ StartGrab \/ StopGrab \/ SetTriggerMode
      BY <2>4 DEF Open, StartGrab, StopGrab, SetTriggerMode
    <2> QED
      BY <2>1, <2>2, <2>3, <2>4 DEF Device
  <1>3. /\ opened' \in BOOLEAN /\ streaming' \in BOOLEAN
        /\ grabbing' \in BOOLEAN /\ looping' \in BOOLEAN
    BY DEF Open, Close, StartGrab, StopGrab, SetTriggerMode, Device,
       LoopFrame, LoseFrame, deviceVars
  <1>4. UNCHANGED <<ready, image, callerVars, notified, callbackVars, inTime>>
    BY DEF Open, Close, StartGrab, StopGrab, SetTriggerMode, Device,
       LoopFrame, LoseFrame
  <1> QED
    BY <1>2, <1>3, <1>4

(* trigger_once.                                                           *)
LEMMA TypesCaller ==
  ASSUME CameraAssumption, TypesInv, TriggerOnce \/ TriggerWork
  PROVE  TypesInv'
  <1> USE DEF TypesInv, TypeOK, Caller, deviceVars, callbackVars
  <1>1. CASE TriggerOnce
    <2>1. trigger' \in 0 .. MaxTriggers /\ trigger' \in Trigger
      BY <1>1 DEF TriggerOnce, Trigger, CameraAssumption
    <2> QED
      BY <1>1, <2>1 DEF TriggerOnce
  <1>2. CASE Fire
    <2>1. trigger \in Frame
      BY <1>2 DEF Fire, Frame
    <2>2. flight' \in Seq(Frame)
      <3>1. flight \in Seq(Frame) /\ flight' = Append(flight, trigger)
        BY <1>2 DEF Fire
      <3> HIDE DEF TypesInv, TypeOK
      <3> QED
        BY <2>1, <3>1
    <2> QED
      BY <1>2, <2>2 DEF Fire
  <1>3. CASE FireFails \/ GiveUp
    BY <1>3 DEF FireFails, GiveUp, Returns
  <1>4. CASE ReadImage
    BY <1>4 DEF ReadImage, Returns
  <1>5. CASE TestReady \/ Timeout
    BY <1>5 DEF TestReady, Timeout
  <1>6. CASE Block
    BY <1>6 DEF Block
  <1>7. CASE WakeUp
    BY <1>7 DEF WakeUp
  <1> QED
    BY <1>1, <1>2, <1>3, <1>4, <1>5, <1>6, <1>7 DEF TriggerWork

(* stream_callback.                                                        *)
LEMMA TypesCallback ==
  ASSUME TypesInv, CallbackWork
  PROVE  TypesInv'
  <1> USE DEF TypesInv, TypeOK, Callback, deviceVars, callerVars, callbackVars
  <1>1. CASE CallbackBegins
    <2>1. Head(flight) \in Frame /\ Tail(flight) \in Seq(Frame)
      BY <1>1 DEF CallbackBegins
    <2> QED
      BY <1>1, <2>1 DEF CallbackBegins
  <1>2. CASE CallbackTests \/ CallbackStores
    BY <1>2 DEF CallbackTests, CallbackStores
  <1>3. CASE CallbackSets
    <2>1. inTime' = (caller \in Waiting)
      BY <1>3 DEF CallbackSets, Waiting
    <2>2. inTime' \in BOOLEAN
      <3>1. CASE caller \in Waiting
        BY ONLY <2>1, <3>1, Zenon
      <3>2. CASE caller \notin Waiting
        BY ONLY <2>1, <3>2, SMT
      <3> QED
        BY ONLY <3>1, <3>2
    <2> QED
      BY <1>3, <2>2 DEF CallbackSets
  <1>4. CASE CallbackNotifies
    <2>1. notified' = (notified \/ caller = "blocked")
      BY <1>4 DEF CallbackNotifies
    <2>2. notified' \in BOOLEAN
      BY ONLY <2>1, Zenon
    <2> QED
      BY <1>4, <2>2 DEF CallbackNotifies
  <1> QED
    BY <1>1, <1>2, <1>3, <1>4 DEF CallbackWork

(* Every value the misc thread and the driver's thread share is one the    *)
(* code can hold, and a frame is always one that was exposed.              *)
THEOREM CameraTypes == Spec => []TypesInv
  <1>1. Init => TypesInv
    <2>1. ASSUME Init PROVE results \in [Trigger -> Frame \cup {NoImage}]
      BY <2>1 DEF Init
    <2>2. ASSUME Init PROVE trigger \in 0 .. MaxTriggers
      BY <2>2, CameraAssumption DEF Init, CameraAssumption
    <2>3. ASSUME Init PROVE flight \in Seq(Frame)
      BY <2>3 DEF Init
    <2> QED
      BY <2>1, <2>2, <2>3 DEF Init, TypesInv, TypeOK
  <1>2. TypesInv /\ [Next]_vars => TypesInv'
    <2> SUFFICES ASSUME TypesInv, [Next]_vars PROVE TypesInv'
      OBVIOUS
    <2>1. CASE Next
      BY <2>1, CameraAssumption, TypesDevice, TypesCaller, TypesCallback
         DEF Next
    <2>2. CASE UNCHANGED vars
      BY <2>2 DEF TypesInv, TypeOK, vars, deviceVars, callerVars, callbackVars
    <2> QED
      BY <2>1, <2>2
  <1> QED
    BY <1>1, <1>2, PTL DEF Spec

(* TypeOK is half of it.                                                   *)
THEOREM CameraTypeOK == Spec => []TypeOK
  <1>1. TypesInv => TypeOK
    BY DEF TypesInv
  <1> QED
    BY <1>1, CameraTypes, PTL

-----------------------------------------------------------------------------
(* The order of the images.                                                *)

\* The triggers of which a frame may be anywhere: the last one is not among
\* them before it is fired.
Fired == IF caller = "fire" THEN trigger - 1 ELSE trigger

\* What is on its way is in the order of the triggers.
InFlight ==
  \A k \in DOMAIN flight : flight[k] \in Trigger =>
    /\ flight[k] <= Fired
    /\ \A l \in DOMAIN flight :
         k < l /\ flight[l] \in Trigger => flight[k] < flight[l]

\* What is older than all that is on its way, ...
BeforeFlight(n) == n \in Trigger =>
  /\ n <= Fired
  /\ \A k \in DOMAIN flight : flight[k] \in Trigger => n < flight[k]

\* ... and than what the callback may yet store.
BeforeFrame(n) ==
  n \in Trigger /\ callback \in {"test", "store"} /\ frame \in Trigger =>
    n < frame

\* An image no call has returned yet.
NewImage ==
  callback = "set" \/ caller = "read" \/ (caller \in Waiting /\ ready)

\* What a call has returned is older than all that is still to be returned.
Returned(s) == results[s] \in Trigger =>
  /\ BeforeFlight(results[s]) /\ BeforeFrame(results[s])
  /\ s <= trigger
  /\ NewImage /\ image \in Trigger => results[s] < image

\* From the device to the caller the frames are in the order of the triggers:
\* results, image, frame, flight.
Pipeline ==
  /\ InFlight
  /\ callback # "idle" => BeforeFlight(frame)
  /\ BeforeFlight(image) /\ BeforeFrame(image)
  /\ \A s \in Trigger : Returned(s)
  /\ ImagesInOrder

\* Every step but the asking for a frame keeps the frames on their way, or
\* loses the first or all of them, or adds one of the loop.
FlightMoves ==
  flight' \in {flight, <<>>, Append(flight, Loop)}
  \/ (flight # <<>> /\ flight' = Tail(flight))

(* What was before the frames on their way stays before them.              *)
LEMMA FlightKeeps ==
  ASSUME TypesInv, InFlight, FlightMoves,
         Fired \in Nat, Fired' \in Nat, Fired <= Fired'
  PROVE  /\ InFlight'
         /\ \A n \in Trigger : BeforeFlight(n) => BeforeFlight(n)'
  <1>1. flight \in Seq(Frame) /\ Loop \in Frame /\ Loop \notin Trigger
    BY CameraAssumption
       DEF TypesInv, TypeOK, Frame, Loop, Trigger, CameraAssumption
  <1>2. Trigger \subseteq Nat
    BY CameraAssumption DEF Trigger, CameraAssumption
  <1>3. DOMAIN flight \subseteq Nat /\ DOMAIN flight' \subseteq Nat
    BY <1>1 DEF FlightMoves
  <1>4. PICK d \in {0, 1} :
          \A l \in DOMAIN flight' : flight'[l] \in Trigger =>
            l + d \in DOMAIN flight /\ flight[l + d] = flight'[l]
    <2>1. CASE flight' = flight
      BY <1>1, <2>1
    <2>2. CASE flight' = <<>>
      BY <2>2
    <2>3. CASE flight' = Append(flight, Loop)
      BY <1>1, <2>3
    <2>4. CASE flight # <<>> /\ flight' = Tail(flight)
      BY <1>1, <2>4
    <2> QED
      BY <2>1, <2>2, <2>3, <2>4 DEF FlightMoves
  <1>5. InFlight'
    <2> SUFFICES ASSUME NEW k \in DOMAIN flight', flight'[k] \in Trigger
                 PROVE  /\ flight'[k] <= Fired'
                        /\ \A l \in DOMAIN flight' :
                             k < l /\ flight'[l] \in Trigger =>
                               flight'[k] < flight'[l]
      BY DEF InFlight
    <2>1. flight'[k] <= Fired
      BY <1>4 DEF InFlight
    <2>2. ASSUME NEW l \in DOMAIN flight', k < l, flight'[l] \in Trigger
          PROVE  flight'[k] < flight'[l]
      <3>1. k + d < l + d
        BY <2>2, <1>3
      <3> QED
        BY <1>4, <2>2, <3>1 DEF InFlight
    <2>3. flight'[k] \in Nat
      BY <1>2
    <2>4. flight'[k] <= Fired'
      BY <2>1, <2>3
    <2> QED
      BY <2>2, <2>4
  <1>6. ASSUME NEW n \in Trigger, BeforeFlight(n) PROVE BeforeFlight(n)'
    BY <1>2, <1>4, <1>6 DEF BeforeFlight
  <1> QED
    BY <1>5, <1>6

(* Asking for a frame puts it behind all that is on its way.               *)
LEMMA FireKeeps ==
  ASSUME TypesInv, InFlight, Fire
  PROVE  /\ InFlight'
         /\ \A n \in Trigger : BeforeFlight(n) => BeforeFlight(n)'
  <1>1. /\ flight \in Seq(Frame) /\ trigger \in Trigger /\ trigger \in Frame
        /\ flight' = Append(flight, trigger)
        /\ caller = "fire" /\ caller' = "test" /\ trigger' = trigger
    BY DEF TypesInv, TypeOK, Fire, Caller, Frame
  <1>2. Trigger \subseteq Nat
    BY CameraAssumption DEF Trigger, CameraAssumption
  <1>3. /\ Fired = trigger - 1 /\ Fired' = trigger
    BY <1>1 DEF Fired
  <1>4. /\ Len(flight) \in Nat /\ DOMAIN flight = 1 .. Len(flight)
        /\ DOMAIN flight' = 1 .. (Len(flight) + 1)
        /\ \A k \in DOMAIN flight : flight'[k] = flight[k]
        /\ flight'[Len(flight) + 1] = trigger
    BY <1>1
  <1>5. \A n \in Trigger : n <= Fired => n < trigger
    BY <1>1, <1>2, <1>3
  <1>6. InFlight'
    <2> SUFFICES ASSUME NEW k \in DOMAIN flight', flight'[k] \in Trigger
                 PROVE  /\ flight'[k] <= Fired'
                        /\ \A l \in DOMAIN flight' :
                             k < l /\ flight'[l] \in Trigger =>
                               flight'[k] < flight'[l]
      BY DEF InFlight
    <2>1. CASE k \in DOMAIN flight
      <3>1. flight'[k] < trigger
        BY <1>4, <1>5, <2>1 DEF InFlight
      <3>2. flight'[k] <= Fired'
        <4>1. flight'[k] \in Nat /\ trigger \in Nat
          BY <1>1, <1>2
        <4> QED
          BY <1>3, <3>1, <4>1
      <3>3. ASSUME NEW l \in DOMAIN flight', k < l, flight'[l] \in Trigger
            PROVE  flight'[k] < flight'[l]
        <4>1. CASE l \in DOMAIN flight
          BY <1>4, <2>1, <3>3, <4>1 DEF InFlight
        <4>2. CASE l = Len(flight) + 1
          BY <1>4, <3>1, <4>2
        <4> QED
          BY <1>4, <4>1, <4>2
      <3> QED
        BY <3>2, <3>3
    <2>2. CASE k = Len(flight) + 1
      BY <1>1, <1>2, <1>3, <1>4, <2>2
    <2> QED
      BY <1>4, <2>1, <2>2
  <1>7. ASSUME NEW n \in Trigger, BeforeFlight(n) PROVE BeforeFlight(n)'
    <2>1. n <= Fired /\ n < trigger
      BY <1>5, <1>7 DEF BeforeFlight
    <2>2. n <= Fired'
      BY <1>1, <1>2, <1>3, <2>1
    <2>3. \A k \in DOMAIN flight' : flight'[k] \in Trigger => n < flight'[k]
      BY <1>4, <1>7, <2>1 DEF BeforeFlight
    <2> QED
      BY <2>2, <2>3 DEF BeforeFlight
  <1> QED
    BY <1>6, <1>7

(* So whatever the step, the frames on their way stay in order, and what   *)
(* was before them stays before them.                                      *)
LEMMA FlightStep ==
  ASSUME TypesInv, InFlight, [Next]_vars
  PROVE  /\ InFlight'
         /\ \A n \in Trigger : BeforeFlight(n) => BeforeFlight(n)'
  <1>1. CASE Fire
    BY <1>1, FireKeeps
  <1>2. CASE ~Fire
    <2>1. FlightMoves
      BY <1>2
         DEF Next, TriggerWork, CallbackWork, Device, Open, Close, StartGrab,
             StopGrab, SetTriggerMode, TriggerOnce, FireFails, TestReady,
             Block, WakeUp, Timeout, GiveUp, ReadImage, CallbackBegins,
             CallbackTests,
             CallbackStores, CallbackSets, CallbackNotifies, LoopFrame,
             LoseFrame, vars, FlightMoves
    <2>2. /\ trigger \in 0 .. MaxTriggers
          /\ caller = "fire" => trigger \in Trigger
      BY DEF TypesInv, TypeOK
    <2>3. \/ UNCHANGED <<caller, trigger>>
          \/ caller = "idle" /\ caller' = "fire" /\ trigger' = trigger + 1
          \/ caller' # "fire" /\ trigger' = trigger
      BY <1>2
         DEF Next, TriggerWork, CallbackWork, Device, Open, Close, StartGrab,
             StopGrab, SetTriggerMode, TriggerOnce, FireFails, TestReady,
             Block, WakeUp, Timeout, GiveUp, ReadImage, CallbackBegins,
             CallbackTests,
             CallbackStores, CallbackSets, CallbackNotifies, LoopFrame,
             LoseFrame, vars, Returns, Caller, Callback, TriggerUnchanged,
             callerVars
    <2>4. Fired \in Nat /\ Fired' \in Nat /\ Fired <= Fired'
      BY <2>2, <2>3, CameraAssumption DEF Fired, Trigger, CameraAssumption
    <2> QED
      BY <2>1, <2>4, FlightKeeps
  <1> QED
    BY <1>1, <1>2

-----------------------------------------------------------------------------
(* A step that returns no image, stores none, and makes none ready keeps   *)
(* the pipeline, whatever it does to the frames on their way.              *)
LEMMA PipelineKept ==
  ASSUME TypesInv, TypesInv', Pipeline, [Next]_vars,
         UNCHANGED image,
         UNCHANGED callbackVars \/ (callback' = "idle")
           \/ (callback = "test" /\ callback' = "store" /\ frame' = frame)
           \/ (callback = "set" /\ callback' = "notify" /\ frame' = frame),
         NewImage' => NewImage, trigger <= trigger',
         \A s \in Trigger : results'[s] \in {results[s], NoImage}
  PROVE  Pipeline'
  <1>1. InFlight' /\ \A n \in Trigger : BeforeFlight(n) => BeforeFlight(n)'
    BY FlightStep DEF Pipeline
  <1>2. \A n \in Trigger : BeforeFrame(n) => BeforeFrame(n)'
    BY DEF BeforeFrame, callbackVars
  <1>3. Trigger \subseteq Nat /\ NoImage \notin Trigger
    BY CameraAssumption DEF Trigger, NoImage, CameraAssumption
  <1>4. trigger \in Nat /\ trigger' \in Nat
    BY DEF TypesInv, TypeOK
  <1>5. (callback' # "idle" => BeforeFlight(frame)')
    <2>1. ASSUME callback' # "idle", frame' \in Trigger
          PROVE  callback # "idle" /\ frame' = frame
      BY <2>1 DEF callbackVars
    <2> QED
      BY <1>1, <2>1 DEF Pipeline, BeforeFlight
  <1>6. BeforeFlight(image)' /\ BeforeFrame(image)'
    BY <1>1, <1>2 DEF Pipeline, BeforeFlight, BeforeFrame
  <1>7. ASSUME NEW s \in Trigger PROVE Returned(s)'
    <2> SUFFICES ASSUME results'[s] \in Trigger PROVE Returned(s)'
      BY DEF Returned
    <2>1. results'[s] = results[s]
      BY <1>3
    <2>2. Returned(s) /\ s \in Nat
      BY <1>3 DEF Pipeline
    <2>3. s <= trigger'
      BY <1>4, <2>1, <2>2 DEF Returned
    <2>4. BeforeFlight(results[s]) /\ BeforeFrame(results[s])
      BY <2>1, <2>2 DEF Returned
    <2>5. BeforeFlight(results[s])' /\ BeforeFrame(results[s])'
      BY <1>1, <1>2, <2>1, <2>4 DEF BeforeFlight, BeforeFrame
    <2> QED
      BY <2>1, <2>2, <2>3, <2>5 DEF Returned
  <1>8. ImagesInOrder'
    BY <1>3 DEF Pipeline, ImagesInOrder
  <1> QED
    BY <1>1, <1>5, <1>6, <1>7, <1>8 DEF Pipeline

(* The caller takes an image that is newer than all returned before: the   *)
(* callback stores no other one until the next trigger.                    *)
LEMMA PipelineReads ==
  ASSUME TypesInv, TypesInv', Handover, Pipeline, ReadImage
  PROVE  Pipeline'
  <1>1. /\ caller = "read" /\ caller' = "idle"
        /\ UNCHANGED <<image, callback, frame, trigger, ready, flight>>
        /\ results' = [results EXCEPT ![trigger] = image]
    BY DEF ReadImage, Returns, Caller, callbackVars
  <1>2. trigger \in Trigger /\ results \in [Trigger -> Frame \cup {NoImage}]
    BY <1>1 DEF TypesInv, TypeOK
  <1>3. Trigger \subseteq Nat
    BY CameraAssumption DEF Trigger, CameraAssumption
  <1>4. InFlight' /\ \A n \in Trigger : BeforeFlight(n) => BeforeFlight(n)'
    BY FlightStep DEF Pipeline, Next, TriggerWork
  <1>5. \A n \in Trigger : BeforeFrame(n) => BeforeFrame(n)'
    BY <1>1 DEF BeforeFrame
  <1>6. NewImage /\ ~NewImage'
    BY <1>1 DEF NewImage, Handover, Waiting
  <1>7. callback' # "idle" => BeforeFlight(frame)'
    BY <1>1, <1>4 DEF Pipeline, BeforeFlight
  <1>8. BeforeFlight(image)' /\ BeforeFrame(image)'
    BY <1>1, <1>4, <1>5 DEF Pipeline, BeforeFlight, BeforeFrame
  <1>9. ASSUME NEW s \in Trigger, results'[s] \in Trigger
        PROVE  /\ BeforeFlight(results'[s]) /\ BeforeFrame(results'[s])
               /\ s <= trigger
               /\ s # trigger => s < trigger /\ results'[s] = results[s]
               /\ s # trigger /\ image \in Trigger => results[s] < image
    <2>1. CASE s = trigger
      BY <1>1, <1>2, <1>3, <2>1 DEF Pipeline
    <2>2. CASE s # trigger
      <3>1. results'[s] = results[s]
        BY <1>1, <1>2, <2>2
      <3>2. Returned(s)
        BY DEF Pipeline
      <3>3. s < trigger
        BY <1>2, <1>3, <1>9, <2>2, <3>1, <3>2 DEF Returned
      <3> QED
        BY <1>6, <1>9, <2>2, <3>1, <3>2, <3>3 DEF Returned
    <2> QED
      BY <2>1, <2>2
  <1>10. ASSUME NEW s \in Trigger PROVE Returned(s)'
    <2> SUFFICES ASSUME results'[s] \in Trigger PROVE Returned(s)'
      BY DEF Returned
    <2>1. BeforeFlight(results[s])' /\ BeforeFrame(results[s])'
      BY <1>4, <1>5, <1>9 DEF BeforeFlight, BeforeFrame
    <2> QED
      BY <1>1, <1>6, <1>9, <2>1 DEF Returned
  <1>11. ImagesInOrder'
    <2> SUFFICES ASSUME NEW s \in Trigger, NEW t \in Trigger, s < t,
                        results'[s] \in Trigger, results'[t] \in Trigger
                 PROVE  results'[s] < results'[t]
      BY DEF ImagesInOrder
    <2>1. s # trigger
      BY <1>2, <1>3, <1>9
    <2>2. CASE t = trigger
      BY <1>1, <1>2, <1>9, <2>1, <2>2
    <2>3. CASE t # trigger
      BY <1>9, <2>1, <2>3 DEF Pipeline, ImagesInOrder
    <2> QED
      BY <2>2, <2>3
  <1> QED
    BY <1>4, <1>7, <1>8, <1>10, <1>11 DEF Pipeline

(* The callback takes the oldest frame on its way.                         *)
LEMMA PipelineBegins ==
  ASSUME TypesInv, TypesInv', Pipeline, CallbackBegins, grabbing
  PROVE  Pipeline'
  <1>1. /\ callback = "idle" /\ callback' = "test"
        /\ frame' = Head(flight) /\ flight # <<>> /\ flight' = Tail(flight)
        /\ UNCHANGED <<image, trigger, ready, caller, results>>
    BY DEF CallbackBegins, Callback, callerVars
  <1>2. flight \in Seq(Frame)
    BY DEF TypesInv, TypeOK
  <1>3. /\ 1 \in DOMAIN flight /\ frame' = flight[1]
        /\ \A k \in DOMAIN flight' :
             k \in Nat /\ 1 < k + 1 /\ k + 1 \in DOMAIN flight
             /\ flight'[k] = flight[k + 1]
    BY <1>1, <1>2
  <1>4. InFlight' /\ \A n \in Trigger : BeforeFlight(n) => BeforeFlight(n)'
    BY FlightStep DEF Pipeline, Next, CallbackWork
  <1>5. \A n \in Trigger : BeforeFlight(n) => BeforeFrame(n)'
    BY <1>3 DEF BeforeFlight, BeforeFrame
  <1>6. BeforeFlight(frame)'
    BY <1>1, <1>3 DEF Pipeline, InFlight, BeforeFlight, Fired
  <1>7. BeforeFlight(image)' /\ BeforeFrame(image)'
    BY <1>1, <1>4, <1>5 DEF Pipeline, BeforeFlight, BeforeFrame
  <1>8. ASSUME NEW s \in Trigger PROVE Returned(s)'
    <2> SUFFICES ASSUME results'[s] \in Trigger PROVE Returned(s)'
      BY DEF Returned
    <2>1. Returned(s)
      BY DEF Pipeline
    <2>2. BeforeFlight(results[s])' /\ BeforeFrame(results[s])'
      BY <1>1, <1>4, <1>5, <2>1 DEF Returned, BeforeFlight, BeforeFrame
    <2> QED
      BY <1>1, <2>1, <2>2 DEF Returned, NewImage
  <1>9. ImagesInOrder'
    BY <1>1 DEF Pipeline, ImagesInOrder
  <1> QED
    BY <1>4, <1>6, <1>7, <1>8, <1>9 DEF Pipeline

(* It stores a frame newer than all that were returned.                    *)
LEMMA PipelineStores ==
  ASSUME TypesInv, TypesInv', Pipeline, CallbackStores
  PROVE  Pipeline'
  <1>1. /\ callback = "store" /\ callback' = "set" /\ image' = frame
        /\ UNCHANGED <<frame, trigger, ready, caller, results, flight>>
    BY DEF CallbackStores, Callback, callerVars
  <1>2. InFlight' /\ \A n : BeforeFlight(n) => BeforeFlight(n)'
    BY <1>1 DEF Pipeline, InFlight, BeforeFlight, Fired
  <1>3. \A n : BeforeFrame(n)'
    BY <1>1 DEF BeforeFrame
  <1>4. BeforeFlight(frame)' /\ BeforeFlight(image)'
    BY <1>1 DEF Pipeline, BeforeFlight, Fired
  <1>5. ASSUME NEW s \in Trigger PROVE Returned(s)'
    <2> SUFFICES ASSUME results'[s] \in Trigger PROVE Returned(s)'
      BY DEF Returned
    <2>1. Returned(s) /\ results'[s] = results[s]
      BY <1>1 DEF Pipeline
    <2>2. BeforeFlight(results[s])' /\ BeforeFrame(results[s])'
      BY <1>1, <2>1 DEF Returned, BeforeFlight, BeforeFrame, Fired
    <2>3. image' \in Trigger => results[s] < image'
      BY <1>1, <2>1 DEF Returned, BeforeFrame
    <2> QED
      BY <1>1, <2>1, <2>2, <2>3 DEF Returned
  <1>6. ImagesInOrder'
    BY <1>1 DEF Pipeline, ImagesInOrder
  <1>7. BeforeFrame(image)'
    BY <1>1 DEF BeforeFrame
  <1> QED
    BY <1>2, <1>4, <1>5, <1>6, <1>7 DEF Pipeline

(* The rest leaves the order of results, image and frame as it is.         *)
LEMMA PipelineRest ==
  ASSUME TypesInv, TypesInv', Pipeline, [Next]_vars,
         ~ReadImage, ~CallbackStores, ~(CallbackBegins /\ grabbing)
  PROVE  Pipeline'
  <1>1. CASE Open \/ Close \/ StartGrab \/ StopGrab \/ SetTriggerMode \/ Device
    <2>1. UNCHANGED <<ready, image, callerVars, callbackVars>>
      BY <1>1 DEF Open, Close, StartGrab, StopGrab, SetTriggerMode, Device,
                  LoopFrame, LoseFrame, TriggerUnchanged
    <2>2. (NewImage' => NewImage) /\ trigger <= trigger' /\ results' = results
      BY <2>1 DEF NewImage, callerVars, callbackVars, TypesInv, TypeOK
    <2> QED
      BY <2>1, <2>2, PipelineKept
  <1>2. CASE TriggerOnce
    <2>1. /\ UNCHANGED <<image, callbackVars, results>>
          /\ trigger' = trigger + 1 /\ ready' = FALSE /\ caller' = "fire"
      BY <1>2 DEF TriggerOnce, Caller
    <2>2. (NewImage' => NewImage) /\ trigger <= trigger'
      BY <2>1 DEF NewImage, callbackVars, TypesInv, TypeOK
    <2> QED
      BY <2>1, <2>2, PipelineKept
  <1>3. CASE FireFails \/ GiveUp
    <2>1. /\ UNCHANGED <<image, callbackVars, trigger>> /\ caller' = "idle"
          /\ results' = [results EXCEPT ![trigger] = NoImage]
      BY <1>3 DEF FireFails, GiveUp, Returns, Caller
    <2>2. (NewImage' => NewImage) /\ trigger <= trigger'
      BY <2>1 DEF NewImage, Waiting, callbackVars, TypesInv, TypeOK
    <2>3. \A s \in Trigger : results'[s] \in {results[s], NoImage}
      BY <2>1 DEF TypesInv, TypeOK
    <2> QED
      BY <2>1, <2>2, <2>3, PipelineKept
  <1>4. CASE Fire \/ TestReady \/ Block \/ WakeUp \/ Timeout
    <2>1. /\ UNCHANGED <<image, callbackVars, trigger, results, ready>>
          /\ caller \in Waiting
          /\ caller' = "read" => ready
      BY <1>4 DEF Fire, TestReady, Block, WakeUp, Timeout, Caller, Waiting
    <2>2. (NewImage' => NewImage) /\ trigger <= trigger'
      BY <2>1 DEF NewImage, callbackVars, TypesInv, TypeOK
    <2> QED
      BY <2>1, <2>2, PipelineKept
  <1>5. CASE CallbackWork
    <2>1. UNCHANGED <<image, trigger, results, caller>>
      BY <1>5 DEF CallbackWork, CallbackBegins, CallbackTests, CallbackStores,
                  CallbackSets, CallbackNotifies, Callback, callerVars
    <2>2. \/ UNCHANGED callbackVars
          \/ callback' = "idle"
          \/ callback = "test" /\ callback' = "store" /\ frame' = frame
          \/ callback = "set" /\ callback' = "notify" /\ frame' = frame
      BY <1>5 DEF CallbackWork, CallbackBegins, CallbackTests, CallbackSets,
                  CallbackNotifies, Callback
    <2>3. callback = "set" \/ UNCHANGED ready
      BY <1>5 DEF CallbackWork, CallbackBegins, CallbackTests, CallbackSets,
                  CallbackNotifies, Callback
    <2>4. (NewImage' => NewImage) /\ trigger <= trigger'
      BY <2>1, <2>2, <2>3 DEF NewImage, callbackVars, TypesInv, TypeOK
    <2> QED
      BY <2>1, <2>2, <2>4, PipelineKept
  <1>6. CASE UNCHANGED vars
    <2>1. /\ UNCHANGED <<image, callbackVars, results>>
          /\ (NewImage' => NewImage) /\ trigger <= trigger'
      BY <1>6 DEF vars, NewImage, callerVars, callbackVars, TypesInv, TypeOK
    <2> QED
      BY <2>1, PipelineKept
  <1> QED
    BY <1>1, <1>2, <1>3, <1>4, <1>5, <1>6 DEF Next, TriggerWork

(* The frames are in the order of their triggers all the way from the      *)
(* device to the caller, although nothing but m_frame_ready keeps them so. *)
THEOREM PipelineHolds == Spec => []Pipeline
  <1>1. Init => Pipeline
    <2> SUFFICES ASSUME Init PROVE Pipeline
      OBVIOUS
    <2>1. NoImage \notin Trigger
      BY CameraAssumption DEF NoImage, Trigger, CameraAssumption
    <2>2. flight = <<>> /\ image = NoImage /\ callback = "idle"
          /\ \A s \in Trigger : results[s] = NoImage
      BY DEF Init
    <2> QED
      BY <2>1, <2>2 DEF Pipeline, InFlight, BeforeFlight, BeforeFrame,
                        Returned,
                        ImagesInOrder
  <1>2. TypesInv /\ TypesInv' /\ Handover /\ Pipeline /\ [Next]_vars
          => Pipeline'
    <2> SUFFICES ASSUME TypesInv, TypesInv', Handover, Pipeline, [Next]_vars
                 PROVE  Pipeline'
      OBVIOUS
    <2> QED
      BY PipelineReads, PipelineBegins, PipelineStores, PipelineRest
  <1> QED
    BY <1>1, <1>2, CameraTypes, HandoverHolds, PTL DEF Spec

(* trigger_once may return an earlier trigger's image, but it returns them *)
(* in order and none twice.                                                *)
THEOREM ImagesComeInOrder == Spec => []ImagesInOrder
  <1>1. Pipeline => ImagesInOrder
    BY DEF Pipeline
  <1> QED
    BY <1>1, PipelineHolds, PTL
=============================================================================
