------------------------------- MODULE Camera -------------------------------
(***************************************************************************)
(* dvp2_camera (camera_dvp2.cpp): a camera object, used by the misc thread *)
(* (open, close, start_grab, stop_grab, set_trigger_mode, trigger_once)    *)
(* while the driver's thread delivers frames to stream_callback.  The two  *)
(* share m_frame_ready, m_image and m_condition_variable; the callback     *)
(* notifies without holding m_frame_ready_mutex.                           *)
(*                                                                         *)
(* A frame is known by the trigger it was exposed for: 1, 2, ... for the   *)
(* calls of trigger_once, Loop for the driver's own trigger loop, which is *)
(* what continuous mode turns on.                                          *)
(***************************************************************************)
EXTENDS Naturals, Sequences

CONSTANTS
  MaxTriggers,  \* bound: calls of trigger_once
  MaxFlight     \* bound: frames on their way to the callback

ASSUME CameraAssumption == MaxTriggers \in Nat /\ MaxFlight \in Nat

Trigger == 1 .. MaxTriggers
NoImage == 0
Loop    == MaxTriggers + 1
Frame   == Trigger \cup {Loop}

VARIABLES
  opened,     \* m_is_opened
  streaming,  \* external: the device's stream state is STATE_STARTED
  grabbing,   \* m_is_grab_running
  looping,    \* external: the soft trigger loop is on (continuous mode)
  ready,      \* m_frame_ready
  image,      \* m_image
  flight,     \* external: frames exposed and not yet delivered
  caller,     \* where the misc thread is in trigger_once
  notified,   \* the waiting caller has been notified
  trigger,    \* calls of trigger_once so far
  results,    \* history: what each call returned, NoImage for a null image
  callback,   \* where the driver thread is in stream_callback
  frame,      \* the frame it was called with
  inTime      \* history: m_frame_ready was set before the call timed out

deviceVars   == <<opened, streaming, grabbing, looping>>
callerVars   == <<caller, trigger, results>>
callbackVars == <<callback, frame>>
vars == <<deviceVars, ready, image, flight, callerVars, notified,
          callbackVars, inTime>>

Init ==
  /\ opened = FALSE /\ streaming = FALSE /\ grabbing = FALSE /\ looping = FALSE
  /\ ready = TRUE
  /\ image = NoImage
  /\ flight = <<>>
  /\ caller = "idle"
  /\ notified = FALSE
  /\ trigger = 0
  /\ results = [t \in Trigger |-> NoImage]
  /\ callback = "idle"
  /\ frame = NoImage
  /\ inTime = FALSE

-----------------------------------------------------------------------------
(* Opening, closing, starting and stopping.                                *)

Idle == caller = "idle"
TriggerUnchanged == UNCHANGED <<ready, image, callerVars, notified,
                                callbackVars, inTime>>

\* The camera is open even if the callback could not be registered; such a
\* camera delivers nothing, like one whose frames are all lost.
Open ==
  /\ Idle /\ ~opened
  /\ opened' = TRUE
  /\ UNCHANGED <<streaming, grabbing, looping, flight>>
  /\ TriggerUnchanged

\* Stop the stream if it is on; close the device.  Either may fail.
Close ==
  /\ Idle /\ opened
  /\ \/ /\ streaming' = FALSE
        /\ UNCHANGED <<opened, flight>>
     \/ /\ streaming' = FALSE /\ opened' = FALSE
        /\ flight' = <<>>
  /\ UNCHANGED <<grabbing, looping>>
  /\ TriggerUnchanged

\* dvpStart fails on a device that is not open, and may fail on one that is.
StartGrab ==
  /\ Idle
  /\ ~grabbing /\ opened
  /\ streaming' = TRUE
  /\ grabbing' = TRUE
  /\ UNCHANGED <<opened, looping, flight>>
  /\ TriggerUnchanged

StopGrab ==
  /\ Idle
  /\ grabbing /\ opened
  /\ streaming' = FALSE
  /\ grabbing' = FALSE
  /\ UNCHANGED <<opened, looping, flight>>
  /\ TriggerUnchanged

SetTriggerMode ==
  /\ Idle /\ opened
  /\ looping' = ~looping
  /\ UNCHANGED <<opened, streaming, grabbing, flight>>
  /\ TriggerUnchanged

\* External: the loop exposes a frame.
LoopFrame ==
  /\ streaming /\ looping
  /\ Len(flight) < MaxFlight
  /\ flight' = Append(flight, Loop)
  /\ UNCHANGED deviceVars
  /\ TriggerUnchanged

\* External: a frame is lost on its way.
LoseFrame ==
  /\ flight # <<>>
  /\ flight' = Tail(flight)
  /\ UNCHANGED deviceVars
  /\ TriggerUnchanged

-----------------------------------------------------------------------------
(* trigger_once.                                                           *)

Caller(from) == caller = from /\ UNCHANGED <<deviceVars, image, callbackVars>>

Returns(result) ==
  /\ caller' = "idle"
  /\ results' = [results EXCEPT ![trigger] = result]

TriggerOnce ==
  /\ Caller("idle")
  /\ trigger < MaxTriggers
  /\ trigger' = trigger + 1
  /\ ready' = FALSE
  /\ inTime' = FALSE
  /\ caller' = "fire"
  /\ UNCHANGED <<results, flight, notified>>

FireFails ==
  /\ Caller("fire")
  /\ ready' = TRUE
  /\ Returns(NoImage)
  /\ UNCHANGED <<trigger, flight, notified, inTime>>

Fire ==
  /\ Caller("fire")
  /\ opened /\ streaming
  /\ flight' = Append(flight, trigger)
  /\ caller' = "test"
  /\ UNCHANGED <<trigger, results, ready, notified, inTime>>

\* The predicate of wait_for; if it does not hold, the caller is about to
\* block, and a notification sent before it does is lost.
TestReady ==
  /\ Caller("test")
  /\ caller' = IF ready THEN "read" ELSE "block"
  /\ UNCHANGED <<trigger, results, ready, flight, notified, inTime>>

Block ==
  /\ Caller("block")
  /\ notified' = FALSE
  /\ caller' = "blocked"
  /\ UNCHANGED <<trigger, results, ready, flight, inTime>>

\* Mutant: a notification is taken for an image, without the predicate.
WakeUpReads ==
  /\ Caller("blocked")
  /\ notified
  /\ caller' = "read"
  /\ UNCHANGED <<trigger, results, ready, flight, notified, inTime>>

WakeUp ==
  /\ Caller("blocked")
  /\ notified
  /\ caller' = "test"
  /\ UNCHANGED <<trigger, results, ready, flight, notified, inTime>>

\* Mutant: wait_for without a predicate gives up once the time is over.
TimeoutGivesUp ==
  /\ Caller("blocked")
  /\ caller' = "giveup"
  /\ UNCHANGED <<trigger, results, ready, flight, notified, inTime>>

\* The two seconds are over; wait_for evaluates its predicate a last time.
Timeout ==
  /\ Caller("blocked")
  /\ caller' = IF ready THEN "read" ELSE "giveup"
  /\ UNCHANGED <<trigger, results, ready, flight, notified, inTime>>

GiveUp ==
  /\ Caller("giveup")
  /\ ready' = TRUE
  /\ Returns(NoImage)
  /\ UNCHANGED <<trigger, flight, notified, inTime>>

ReadImage ==
  /\ Caller("read")
  /\ Returns(image)
  /\ UNCHANGED <<trigger, ready, flight, notified, inTime>>

-----------------------------------------------------------------------------
(* stream_callback, in the driver's thread.                                *)

Callback(from) == callback = from /\ UNCHANGED <<deviceVars, callerVars>>

CallbackBegins ==
  /\ Callback("idle")
  /\ flight # <<>>
  /\ flight' = Tail(flight)
  /\ IF grabbing THEN callback' = "test" /\ frame' = Head(flight)
                 ELSE UNCHANGED callbackVars
  /\ UNCHANGED <<ready, image, notified, inTime>>

\* Mutant: m_frame_ready is set before the image is stored.
CallbackSetsFirst ==
  /\ Callback("test")
  /\ IF ready THEN callback' = "idle" /\ frame' = NoImage /\ UNCHANGED ready
              ELSE callback' = "store" /\ ready' = TRUE /\ UNCHANGED frame
  /\ UNCHANGED <<image, flight, notified, inTime>>

\* A frame nobody waits for is emitted as a frame of the stream.
CallbackTests ==
  /\ Callback("test")
  /\ IF ready THEN callback' = "idle" /\ frame' = NoImage
              ELSE callback' = "store" /\ UNCHANGED frame
  /\ UNCHANGED <<ready, image, flight, notified, inTime>>

CallbackStores ==
  /\ Callback("store")
  /\ image' = frame
  /\ callback' = "set"
  /\ UNCHANGED <<frame, ready, flight, notified, inTime>>

\* The time a call waits runs out where it gives up.
CallbackSets ==
  /\ Callback("set")
  /\ ready' = TRUE
  /\ inTime' = (caller \in {"fire", "test", "block", "blocked"})
  /\ callback' = "notify"
  /\ UNCHANGED <<frame, image, flight, notified>>

CallbackNotifies ==
  /\ Callback("notify")
  /\ notified' = (notified \/ caller = "blocked")
  /\ callback' = "idle"
  /\ frame' = NoImage
  /\ UNCHANGED <<ready, image, flight, inTime>>

-----------------------------------------------------------------------------
TriggerWork == FireFails \/ Fire \/ TestReady \/ Block \/ WakeUp \/ Timeout
               \/ GiveUp \/ ReadImage
CallbackWork == CallbackBegins \/ CallbackTests \/ CallbackStores
                \/ CallbackSets \/ CallbackNotifies
Device == LoopFrame \/ LoseFrame

Next == \/ Open \/ Close \/ StartGrab \/ StopGrab \/ SetTriggerMode
        \/ TriggerOnce
        \/ TriggerWork \/ CallbackWork \/ Device

Spec == Init /\ [][Next]_vars

-----------------------------------------------------------------------------
TypeOK ==
  /\ opened \in BOOLEAN /\ streaming \in BOOLEAN
  /\ grabbing \in BOOLEAN /\ looping \in BOOLEAN
  /\ ready \in BOOLEAN
  /\ image \in Frame \cup {NoImage}
  /\ flight \in Seq(Frame)
  /\ caller \in {"idle", "fire", "test", "block", "blocked", "giveup", "read"}
  /\ notified \in BOOLEAN
  /\ trigger \in 0 .. MaxTriggers
  /\ results \in [Trigger -> Frame \cup {NoImage}]
  /\ callback \in {"idle", "test", "store", "set", "notify"}
  /\ frame \in Frame \cup {NoImage}
  /\ inTime \in BOOLEAN

(* m_image has no lock of its own: the callback writes it only while       *)
(* m_frame_ready is false, and trigger_once reads it only after it has     *)
(* become true.  So the two never touch it at the same time.               *)
NoImageRace == ~(caller = "read" /\ callback = "store")

(* A frame whose m_frame_ready was set before the call timed out is        *)
(* returned, even if its notification fell between the test of the         *)
(* predicate and the wait and was lost.                                    *)
InTimeIsReturned == caller = "giveup" => ~inTime

(* A call may return the image of an earlier trigger, if that came more    *)
(* than two seconds late; but the images come in the order of the triggers *)
(* and none is returned twice.                                             *)
ImagesInOrder ==
  \A s, t \in Trigger :
    s < t /\ results[s] \in Trigger /\ results[t] \in Trigger =>
      results[s] < results[t]
=============================================================================
