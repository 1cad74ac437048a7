---------------------------- MODULE FocusWorker ----------------------------
(***************************************************************************)
(* The focusing library: auto_focus2 (auto_focus2.cpp) moves the camera    *)
(* through the focal plane, in passes, and thread_calc_image_clarity       *)
(* (thread_calc_image_clarity.cpp) works on the images taken on the way.   *)
(* Three threads share the image queue and the atomic flags: the caller    *)
(* that makes a pass, the main thread, to which the cameras' frames are    *)
(* delivered, and the worker.                                              *)
(*                                                                         *)
(* An image is known by the pass in which add_image saw m_capture set.     *)
(***************************************************************************)
EXTENDS Naturals, Sequences

CONSTANTS
  MaxPasses,  \* bound: passes made
  MaxImages   \* bound: images added

ASSUME FocusAssumption == MaxPasses \in Nat /\ MaxImages \in Nat

NoPass == 0
Pass   == 1 .. MaxPasses

\* m_task_type.  get_focus_images makes a pass of the first type,
\* clarity_calibration one of the second and then one of the third,
\* get_pixel_adjustment one of the fourth.
TaskType == {"focus", "calculate", "calibrate", "adjust"}

\* The order in which process_task compares m_task_type with them.
Test == <<"focus", "calculate", "calibrate", "adjust">>

VARIABLES
  pass,      \* passes begun
  taskType,  \* m_task_type
  capture,   \* m_capture
  finish,    \* m_calculate_finish
  fail,      \* m_object_detect_fail
  queue,     \* m_task_images
  running,   \* m_running
  caller,    \* where the caller is in its pass
  adder,     \* where the main thread is in add_image
  adding,    \* the image it adds
  images,    \* images added so far
  worker,    \* where run() is
  hand,      \* the image the worker has taken
  test,      \* which of the tests of process_task is the next
  work,      \* the task type it works on it as
  notified,  \* the waiting worker has been notified
  stale      \* history: images of earlier passes worked on in this pass

flagVars   == <<taskType, capture, finish, fail>>
callVars   == <<pass, caller>>
addVars    == <<adder, adding, images>>
workVars   == <<worker, hand, test, work>>
vars == <<flagVars, queue, running, callVars, addVars, workVars, notified,
          stale>>

Init ==
  /\ pass = NoPass
  /\ taskType = "focus"
  /\ capture = FALSE
  /\ finish = TRUE
  /\ fail = FALSE
  /\ queue = <<>>
  /\ running = TRUE
  /\ caller = "idle"
  /\ adder = "idle" /\ adding = NoPass
  /\ images = 0
  /\ worker = "top" /\ hand = NoPass /\ test = 1 /\ work = "focus"
  /\ notified = FALSE
  /\ stale = 0

\* The worker holds m_mutex from its test of the queue to the end of the pop;
\* every other critical section is a single step.
MutexFree == worker # "pop"

-----------------------------------------------------------------------------
(* The caller.                                                             *)

CallerOnly == UNCHANGED <<running, addVars, workVars>>

\* reset_*: the flags and the data of the task; calculate leaves
\* m_calculate_finish alone.
ResetTask ==
  /\ caller = "idle"
  /\ pass < MaxPasses
  /\ pass' = pass + 1
  /\ \E type \in TaskType :
       /\ taskType' = type
       /\ finish' = (finish \/ type # "calculate")
       /\ fail' = (fail /\ type # "focus")
  /\ caller' = "drain"
  /\ UNCHANGED <<capture, queue, notified, stale>>
  /\ CallerOnly

\* Mutant: what is left of the pass before stays in the queue.
KeepQueue ==
  /\ caller = "drain" /\ MutexFree
  /\ stale' = 0
  /\ caller' = "armed"
  /\ UNCHANGED <<pass, flagVars, queue, notified>>
  /\ CallerOnly

\* reset_*, at its end: the images left in the queue are dropped.
DrainQueue ==
  /\ caller = "drain" /\ MutexFree
  /\ queue' = <<>>
  /\ stale' = 0
  /\ caller' = "armed"
  /\ UNCHANGED <<pass, flagVars, notified>>
  /\ CallerOnly

\* At the start position, with the cameras triggered by the motion.
CaptureOn ==
  /\ caller = "armed"
  /\ capture' = TRUE
  /\ caller' = "wait"
  /\ UNCHANGED <<pass, taskType, finish, fail, queue, notified, stale>>
  /\ CallerOnly

\* The move has ended, or timed out.  A focusing pass loads, one after the
\* other, m_calculate_finish, the length of the queue and
\* m_object_detect_fail, and starts over unless the first is true and one of
\* the others lets it go; a loop that has found the first false is back here.
LookAtFinish ==
  /\ caller = "wait" /\ taskType = "focus"
  /\ finish
  /\ caller' = "count"
  /\ UNCHANGED <<pass, flagVars, queue, notified, stale>>
  /\ CallerOnly

LookAtQueue ==
  /\ caller = "count" /\ MutexFree
  /\ caller' = IF queue = <<>> THEN "off" ELSE "failed"
  /\ UNCHANGED <<pass, flagVars, queue, notified, stale>>
  /\ CallerOnly

LookAtFail ==
  /\ caller = "failed"
  /\ caller' = IF fail THEN "off" ELSE "wait"
  /\ UNCHANGED <<pass, flagVars, queue, notified, stale>>
  /\ CallerOnly

\* The other passes only wait for the queue to be empty.
WaitForQueue ==
  /\ caller = "wait" /\ taskType # "focus"
  /\ MutexFree
  /\ queue = <<>>
  /\ caller' = "off"
  /\ UNCHANGED <<pass, flagVars, queue, notified, stale>>
  /\ CallerOnly

CaptureOff ==
  /\ caller = "off"
  /\ capture' = FALSE
  /\ caller' = "read"
  /\ UNCHANGED <<pass, taskType, finish, fail, queue, notified, stale>>
  /\ CallerOnly

\* The results are read, and the pass returns.
ReadResults ==
  /\ caller = "read"
  /\ caller' = "idle"
  /\ UNCHANGED <<pass, flagVars, queue, notified, stale>>
  /\ CallerOnly

\* ~thread_calc_image_clarity: stop, then join.  notify_all follows the
\* unlock, which makes no difference to a worker that already waits.
Stop ==
  /\ caller = "idle" /\ adder = "idle"
  /\ MutexFree
  /\ running' = FALSE
  /\ notified' = (notified \/ worker = "waiting")
  /\ caller' = "join"
  /\ UNCHANGED <<pass, flagVars, queue, addVars, workVars, stale>>

Join ==
  /\ caller = "join"
  /\ worker = "exited"
  /\ caller' = "gone"
  /\ UNCHANGED <<pass, flagVars, queue, notified, stale>>
  /\ CallerOnly

-----------------------------------------------------------------------------
(* add_image, of auto_focus2 and then of the worker's class.               *)

AdderOnly == UNCHANGED <<flagVars, running, callVars, workVars, stale>>

\* An image for which m_capture is not set is dropped.
TestCapture ==
  /\ adder = "idle" /\ caller \notin {"join", "gone"}
  /\ capture
  /\ images < MaxImages
  /\ images' = images + 1
  /\ adding' = pass
  /\ adder' = "push"
  /\ UNCHANGED <<queue, notified>>
  /\ AdderOnly

PushImage ==
  /\ adder = "push" /\ MutexFree
  /\ queue' = Append(queue, adding)
  /\ adding' = NoPass
  /\ adder' = "notify"
  /\ UNCHANGED <<images, notified>>
  /\ AdderOnly

NotifyWorker ==
  /\ adder = "notify"
  /\ notified' = (notified \/ worker = "waiting")
  /\ adder' = "idle"
  /\ UNCHANGED <<adding, images, queue>>
  /\ AdderOnly

-----------------------------------------------------------------------------
(* run().                                                                  *)

WorkerOnly == UNCHANGED <<running, callVars, addVars, taskType, capture>>

Break ==
  /\ worker = "top"
  /\ ~running /\ queue = <<>>
  /\ worker' = "exited"
  /\ UNCHANGED <<finish, fail, queue, hand, test, work, notified, stale>>
  /\ WorkerOnly

\* Mutant: the worker starts to wait without a look at the queue.
WaitAnyway ==
  /\ worker = "top"
  /\ running
  /\ worker' = "waiting"
  /\ notified' = FALSE
  /\ UNCHANGED <<finish, fail, queue, hand, test, work, stale>>
  /\ WorkerOnly

\* The queue is tested and waited for under one lock.
Wait ==
  /\ worker = "top"
  /\ running /\ queue = <<>>
  /\ worker' = "waiting"
  /\ notified' = FALSE
  /\ UNCHANGED <<finish, fail, queue, hand, test, work, stale>>
  /\ WorkerOnly

\* Awake, with the lock, and no image: continue.
WakeUp ==
  /\ worker = "waiting" /\ notified
  /\ queue = <<>>
  /\ worker' = "top"
  /\ UNCHANGED <<finish, fail, queue, hand, test, work, notified, stale>>
  /\ WorkerOnly

\* A condition variable may also wake up without having been notified.
SpuriousWakeup ==
  /\ worker = "waiting" /\ ~notified
  /\ notified' = TRUE
  /\ UNCHANGED <<finish, fail, queue, workVars, stale>>
  /\ WorkerOnly

ClearFinish ==
  /\ worker = "top" \/ (worker = "waiting" /\ notified)
  /\ queue # <<>>
  /\ finish' = FALSE
  /\ worker' = "pop"
  /\ UNCHANGED <<fail, queue, hand, test, work, notified, stale>>
  /\ WorkerOnly

PopImage ==
  /\ worker = "pop"
  /\ hand' = Head(queue)
  /\ queue' = Tail(queue)
  /\ test' = 1
  /\ worker' = "process"
  /\ UNCHANGED <<finish, fail, work, notified, stale>>
  /\ WorkerOnly

\* process_task reads m_task_type before each comparison, while the caller may
\* be writing it.
Matches ==
  /\ worker = "process"
  /\ taskType = Test[test]
  /\ work' = taskType
  /\ worker' = "work"
  /\ UNCHANGED <<finish, fail, queue, hand, test, notified, stale>>
  /\ WorkerOnly

NextTest ==
  /\ worker = "process"
  /\ taskType # Test[test] /\ test < Len(Test)
  /\ test' = test + 1
  /\ UNCHANGED <<finish, fail, queue, worker, hand, work, notified, stale>>
  /\ WorkerOnly

\* It has become a type that has been compared before: no branch is taken, and
\* m_calculate_finish is left as it is.
MatchesNone ==
  /\ worker = "process"
  /\ taskType # Test[test] /\ test = Len(Test)
  /\ hand' = NoPass
  /\ worker' = "top"
  /\ UNCHANGED <<finish, fail, queue, test, work, notified, stale>>
  /\ WorkerOnly

\* A focusing task may find no end face in the image of the last camera that
\* it still looked for one.
MayFail == IF work = "focus" THEN fail' \in {fail, TRUE} ELSE UNCHANGED fail

\* Mutant: the return after a failed detection forgets m_calculate_finish.
ProcessForgets ==
  /\ worker = "work"
  /\ MayFail
  /\ finish' = (finish \/ ~fail')
  /\ stale' = stale + (IF hand < pass THEN 1 ELSE 0)
  /\ hand' = NoPass
  /\ worker' = "top"
  /\ UNCHANGED <<queue, test, work, notified>>
  /\ WorkerOnly

\* The end of process_*_task, whichever return it takes.
ProcessEnds ==
  /\ worker = "work"
  /\ MayFail
  /\ finish' = TRUE
  /\ stale' = stale + (IF hand < pass THEN 1 ELSE 0)
  /\ hand' = NoPass
  /\ worker' = "top"
  /\ UNCHANGED <<queue, test, work, notified>>
  /\ WorkerOnly

\* The containers of the task are not guarded: a reset that clears them, or a
\* caller that copies the results, while the worker writes to them may end the
\* process.
Fault ==
  /\ worker = "work"
  /\ caller \in {"drain", "read"}
  /\ caller' = "crashed" /\ worker' = "crashed" /\ adder' = "crashed"
  /\ UNCHANGED <<flagVars, queue, running, pass, adding, images, hand, test,
                 work, notified, stale>>

-----------------------------------------------------------------------------
CallerWork == DrainQueue \/ CaptureOn \/ LookAtFinish \/ LookAtQueue
              \/ LookAtFail \/ WaitForQueue \/ CaptureOff \/ ReadResults \/ Join
AdderWork  == PushImage \/ NotifyWorker
WorkerWork == Break \/ Wait \/ WakeUp \/ ClearFinish \/ PopImage
              \/ Matches \/ NextTest \/ MatchesNone \/ ProcessEnds

\* Nothing is left to do.
Rest ==
  /\ caller \in {"idle", "gone", "crashed"} /\ adder \in {"idle", "crashed"}
  /\ UNCHANGED vars

Next == ResetTask \/ Stop \/ CallerWork \/ TestCapture \/ AdderWork
        \/ WorkerWork \/ SpuriousWakeup \/ Fault \/ Rest

\* Each thread keeps running.  A caller that loops sees every state of the
\* others sooner or later, but may always come at the wrong moment: its loop
\* sleeps, and the images come to an end.
Fairness == WF_vars(CallerWork) /\ WF_vars(AdderWork) /\ WF_vars(WorkerWork)

Spec     == Init /\ [][Next]_vars
FairSpec == Spec /\ Fairness

-----------------------------------------------------------------------------
TypeOK ==
  /\ pass \in Pass \cup {NoPass}
  /\ taskType \in TaskType /\ work \in TaskType /\ test \in DOMAIN Test
  /\ capture \in BOOLEAN /\ finish \in BOOLEAN /\ fail \in BOOLEAN
  /\ queue \in Seq(Pass)
  /\ running \in BOOLEAN /\ notified \in BOOLEAN
  /\ caller \in {"idle", "drain", "armed", "wait", "count", "failed", "off",
                 "read", "join", "gone", "crashed"}
  /\ adder \in {"idle", "push", "notify", "crashed"}
  /\ adding \in Pass \cup {NoPass} /\ hand \in Pass \cup {NoPass}
  /\ images \in 0 .. MaxImages
  /\ worker \in {"top", "waiting", "pop", "process", "work", "exited",
                 "crashed"}
  /\ stale \in 0 .. MaxImages

(* m_calculate_finish is true whenever the worker has no image: each end   *)
(* of a process_*_task function sets it (get_focus_images would wait for   *)
(* it for ever), and no reset clears it.  An image that was of none of the *)
(* types, because a reset came between two comparisons, leaves it false,   *)
(* but only if the reset was the one that does not set it; nothing waits   *)
(* for it in the pass that follows, and the next reset sets it again.      *)
FinishWhenIdle ==
  ~finish => \/ worker \in {"pop", "process", "work", "crashed"}
             \/ taskType = "calculate"

(* Once the queue has been drained, at most two images of earlier passes   *)
(* are still worked on, as if they belonged to this one: the one the       *)
(* worker had taken, and the one the main thread was adding.               *)
FewStaleImages == caller \notin {"drain", "crashed"} => stale <= 2

(* Every pass comes to an end: the loop that waits for the worker is left,  *)
(* though not for a fault in the containers it shares with the worker; and *)
(* the destructor, which joins the worker, returns.                        *)
PassEnds ==
  /\ caller = "wait" ~> caller = "read"
  /\ caller = "join" ~> caller = "gone"
=============================================================================
