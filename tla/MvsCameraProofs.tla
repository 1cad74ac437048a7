-------------------------- MODULE MvsCameraProofs ---------------------------
(***************************************************************************)
(* Proofs about MvsCamera.  Handshake and Handles are inductive together;  *)
(* StoppedIsQuiet and OrphanNeedsNoHandle follow from them.                *)
(***************************************************************************)
EXTENDS MvsCamera, TLAPS

IInv == Handshake /\ Handles

(* A new camera has no worker.                                             *)
LEMMA InitHandshake == Init => IInv
  BY DEF Init, IInv, Handshake, Handles

(* Every step of the caller and of the worker keeps the handshake.         *)
LEMMA StepHandshake == IInv /\ [Next]_vars => IInv'
  <1> SUFFICES ASSUME IInv, [Next]_vars PROVE IInv'
    OBVIOUS
  <1> USE DEF IInv, Handshake, Handles
  <1>0. ASSUME CloseBegins, pc = "idle", handle' = handle
        PROVE  IInv'
    <2> USE <1>0 DEF CloseBegins, workerVars, flags
    <2>1. CASE handle # "made"
      <3>1. UNCHANGED <<worker, paused, isPaused>>
        BY <2>1, ZenonT(30)
      <3>2. pc' \in {"destroy", "idle"}
        BY <2>1
      <3>3. handle = "null"
        BY <2>1
      <3> QED  BY <3>1, <3>2, <3>3
    <2>2. CASE handle = "made" /\ worker = "none"
      <3>1. worker' = "none" /\ pc' = "close_device"
            /\ paused' = paused /\ isPaused' = isPaused
        BY <2>2
      <3> QED  BY <2>2, <3>1
    <2>3. CASE handle = "made" /\ worker # "none"
      <3>1. worker' = worker /\ pc' = "wait_paused"
            /\ paused' = TRUE /\ isPaused' = isPaused
        BY <2>3 DEF AskToPause
      <3> QED  BY <2>3, <3>1
    <2> QED  BY <2>1, <2>2, <2>3
  <1>1. CASE Open
    BY <1>1 DEF Open, Go, workerVars, flags
  <1>2. CASE StartGrab
    BY <1>2 DEF StartGrab, Call, flags, workerVars
  <1>3. CASE StopGrab
    BY <1>3 DEF StopGrab, Call, AskToPause, workerVars, flags
  <1>4. CASE Close
    BY <1>0, <1>4 DEF Close, Call
  <1>5. CASE Delete
    BY <1>0, <1>5 DEF Delete
  <1>6. CASE WorkerResumed
    BY <1>6 DEF WorkerResumed, Go, workerVars, flags
  <1>7. CASE StartGrabbing
    BY <1>7 DEF StartGrabbing, Go, workerVars, flags
  <1>8. CASE WorkerPaused
    BY <1>8 DEF WorkerPaused, Go, workerVars, flags
  <1>9. CASE StopGrabbing
    BY <1>9 DEF StopGrabbing, Go, workerVars, flags
  <1>10. CASE StopWorker
    BY <1>10 DEF StopWorker, Go
  <1>11. CASE WorkerFinished
    BY <1>11 DEF WorkerFinished, Go, workerVars, flags
  <1>12. CASE WorkerGone
    BY <1>12 DEF WorkerGone, Go, flags
  <1>13. CASE CloseDevice
    BY <1>13 DEF CloseDevice, Go, workerVars, flags
  <1>14. CASE Destroy
    BY <1>14 DEF Destroy, Go, workerVars, flags
  <1>15. CASE TestRunning
    BY <1>15 DEF TestRunning, WorkerOnly, callerVars, flags
  <1>16. CASE TestPaused
    BY <1>16 DEF TestPaused, WorkerOnly, callerVars, flags
  <1>17. CASE SayPaused
    BY <1>17 DEF SayPaused, WorkerOnly, callerVars
  <1>18. CASE SayRunning
    BY <1>18 DEF SayRunning, WorkerOnly, callerVars
  <1>19. CASE GrabReturns
    BY <1>19 DEF GrabReturns, WorkerOnly, callerVars, flags
  <1>20. CASE Finish
    BY <1>20 DEF Finish, WorkerOnly, callerVars
  <1>21. CASE Quit
    BY <1>21 DEF Quit, WorkerOnly, callerVars, flags
  <1>22. CASE Rest \/ UNCHANGED vars
    BY <1>22 DEF Rest, vars, workerVars, callerVars, flags
  <1> QED
    BY <1>1, <1>2, <1>3, <1>4, <1>5, <1>6, <1>7, <1>8, <1>9, <1>10,
       <1>11, <1>12, <1>13, <1>14, <1>15, <1>16, <1>17, <1>18, <1>19,
       <1>20, <1>21, <1>22
       DEF Next, InCall, Process

(* What the flags say of the worker and of the caller, for any number of   *)
(* calls.                                                                  *)
THEOREM HandshakeHolds == Spec => []IInv
  BY InitHandshake, StepHandshake, PTL DEF Spec

(* The stream is never stopped and the device never closed under the       *)
(* worker's GetImageBuffer, and a paused worker does not go there.         *)
THEOREM QuietWhenStopped == Spec => []StoppedIsQuiet
  <1>1. IInv => StoppedIsQuiet
    BY DEF IInv, Handshake, StoppedIsQuiet
  <1> QED  BY <1>1, HandshakeHolds, PTL

(* A deleted camera leaves a worker behind only if it never had a handle.  *)
THEOREM OrphansHaveNoHandle == Spec => []OrphanNeedsNoHandle
  <1>1. IInv => OrphanNeedsNoHandle
    BY DEF IInv, Handles, OrphanNeedsNoHandle
  <1> QED  BY <1>1, HandshakeHolds, PTL
=============================================================================
