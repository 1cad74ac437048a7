---------------------------- MODULE FocusProofs -----------------------------
(***************************************************************************)
(* Proofs about FocusWorker, the thread of the focusing library, and about *)
(* FocusTask, what that thread does with the images.                       *)
(***************************************************************************)
EXTENDS FocusWorker, FocusTask, FiniteSetTheorems, TLAPS

-----------------------------------------------------------------------------
(* The worker.  Where each thread is says whether it holds an image, and   *)
(* every image that was added is in one place.                             *)

Count(b) == IF b THEN 1 ELSE 0

HandsFollow ==
  /\ worker \in {"top", "waiting", "pop", "exited"} => hand = NoPass
  /\ worker \in {"process", "work"} => hand # NoPass
  /\ worker = "pop" => queue # <<>>
  /\ adder \in {"idle", "notify"} => adding = NoPass
  /\ adder = "push" => adding # NoPass
  /\ pass = NoPass => caller \in {"idle", "join", "gone"} /\ ~capture

EachInOnePlace ==
  stale + Count(hand # NoPass) + Count(adding # NoPass) + Len(queue) <= images

WorkerInv == TypeOK /\ HandsFollow /\ EachInOnePlace

(* Images of earlier passes.  Behind the drained queue there may be one in *)
(* the worker's hand and one that is being added: it is the first that     *)
(* comes into the queue.                                                   *)
Old(i) == i # NoPass /\ i < pass

StaleInv ==
  caller \notin {"drain", "crashed"} =>
    /\ stale + Count(Old(hand)) + Count(Old(adding))
         + Count(queue # <<>> /\ Old(queue[1])) <= 2
    /\ Old(adding) => queue = <<>>
    /\ \A k \in DOMAIN queue : k > 1 => ~Old(queue[k])

(* A queue and its head and end.                                           *)
LEMMA QueueOf ==
  ASSUME NEW q \in Seq(Pass)
  PROVE  /\ Len(q) \in Nat
         /\ DOMAIN q = 1 .. Len(q)
         /\ \A i \in Pass : /\ Append(q, i) \in Seq(Pass)
                            /\ Len(Append(q, i)) = Len(q) + 1
                            /\ Append(q, i)[Len(q) + 1] = i
                            /\ \A k \in 1 .. Len(q) : Append(q, i)[k] = q[k]
         /\ q # <<>> =>
              /\ Head(q) \in Pass /\ Head(q) = q[1]
              /\ Len(q) > 0
              /\ Tail(q) \in Seq(Pass) /\ Len(Tail(q)) = Len(q) - 1
              /\ \A k \in 1 .. (Len(q) - 1) : Tail(q)[k] = q[k + 1]
  OBVIOUS

(* The tests of process_task, one for each type.                           *)
LEMMA FourTests ==
  /\ Len(Test) = 4 /\ DOMAIN Test = 1 .. 4
  /\ \A k \in 1 .. 4 : Test[k] \in TaskType
  /\ \A type \in TaskType : \E k \in 1 .. 4 : Test[k] = type
  BY DEF Test, TaskType

(* Every step keeps the types, the hands and the number of images.         *)
LEMMA WorkerStep == WorkerInv /\ [Next]_vars => WorkerInv'
  <1> SUFFICES ASSUME WorkerInv, [Next]_vars PROVE WorkerInv'
    OBVIOUS
  <1> USE DEF WorkerInv, HandsFollow, TypeOK
  <1>1. /\ EachInOnePlace
        /\ stale \in Nat /\ images \in Nat /\ Len(queue) \in Nat
        /\ Count(hand # NoPass) \in {0, 1} /\ Count(adding # NoPass) \in {0, 1}
        /\ NoPass \notin Pass /\ Pass \subseteq Nat
        /\ MaxImages \in Nat /\ MaxPasses \in Nat
    BY FocusAssumption, QueueOf DEF Count, NoPass, Pass, FocusAssumption
  <1> USE <1>1
  <1>2. CASE ResetTask
    <2>1. pass' \in Pass /\ pass' # NoPass
      BY <1>2 DEF ResetTask, Pass, NoPass
    <2>2. TypeOK' /\ HandsFollow'
      BY <1>2, <2>1
         DEF ResetTask, CallerOnly, addVars, workVars, TaskType
    <2>3. EachInOnePlace'
      BY <1>2 DEF ResetTask, CallerOnly, addVars, workVars, EachInOnePlace
    <2> QED
      BY <2>2, <2>3
  <1>3. CASE DrainQueue
    <2>1. /\ queue' = <<>> /\ stale' = 0
          /\ queue' \in Seq(Pass) /\ Len(queue') = 0
          /\ UNCHANGED <<hand, adding, images>>
      BY <1>3 DEF DrainQueue, CallerOnly, addVars, workVars
    <2>2. TypeOK' /\ HandsFollow'
      BY <1>3, <2>1
         DEF DrainQueue, CallerOnly, addVars, workVars, flagVars, MutexFree
    <2>3. EachInOnePlace'
      BY <2>1 DEF EachInOnePlace
    <2> QED
      BY <2>2, <2>3
  <1>4. CASE \/ CaptureOn \/ LookAtFinish \/ LookAtQueue \/ LookAtFail
             \/ WaitForQueue \/ CaptureOff \/ ReadResults \/ Join \/ Stop
    <2>1. /\ UNCHANGED <<pass, taskType, finish, fail, queue, stale, addVars,
                         workVars>>
          /\ pass = NoPass => capture' = capture
      BY <1>4
         DEF CaptureOn, LookAtFinish, LookAtQueue, LookAtFail, WaitForQueue,
             CaptureOff, ReadResults, Join, Stop, CallerOnly, flagVars
    <2>2. capture' \in BOOLEAN /\ running' \in BOOLEAN
      BY <1>4
         DEF CaptureOn, LookAtFinish, LookAtQueue, LookAtFail, WaitForQueue,
             CaptureOff, ReadResults, Join, Stop, CallerOnly, flagVars
    <2>3. notified' \in BOOLEAN
      <3>1. CASE Stop
        BY <3>1, Zenon DEF Stop
      <3>2. CASE ~Stop
        BY <1>4, <3>2
           DEF CaptureOn, LookAtFinish, LookAtQueue, LookAtFail, WaitForQueue,
               CaptureOff, ReadResults, Join
      <3> QED
        BY <3>1, <3>2
    <2>4. /\ caller' \in {"idle", "drain", "armed", "wait", "count", "failed",
                          "off", "read", "join", "gone", "crashed"}
          /\ pass = NoPass => caller' \in {"idle", "join", "gone"}
      BY <1>4
         DEF CaptureOn, LookAtFinish, LookAtQueue, LookAtFail, WaitForQueue,
             CaptureOff, ReadResults, Join, Stop
    <2>5. TypeOK' /\ HandsFollow'
      BY <2>1, <2>2, <2>3, <2>4 DEF addVars, workVars
    <2>6. EachInOnePlace'
      BY <2>1 DEF EachInOnePlace, addVars, workVars
    <2> QED
      BY <2>5, <2>6
  <1>5. CASE TestCapture
    <2>1. /\ adder = "idle" /\ images < MaxImages /\ images' = images + 1
          /\ adding' = pass /\ adder' = "push" /\ capture
          /\ UNCHANGED <<flagVars, running, callVars, workVars, stale, queue,
                         notified>>
      BY <1>5 DEF TestCapture, AdderOnly
    <2>2. TypeOK' /\ HandsFollow'
      BY <2>1 DEF flagVars, callVars, workVars
    <2>3. EachInOnePlace'
      <3>1. adding = NoPass /\ Count(adding # NoPass) = 0
            /\ Count(adding' # NoPass) \in {0, 1}
        BY <2>1 DEF Count
      <3>2. Count(hand' # NoPass) = Count(hand # NoPass)
        BY <2>1 DEF workVars
      <3> QED
        BY <2>1, <3>1, <3>2 DEF EachInOnePlace
    <2> QED
      BY <2>2, <2>3
  <1>6. CASE PushImage
    <2>1. /\ adder = "push" /\ queue' = Append(queue, adding)
          /\ adding' = NoPass /\ adder' = "notify"
          /\ UNCHANGED <<flagVars, running, callVars, workVars, stale, images,
                         notified>>
          /\ worker # "pop"
      BY <1>6 DEF PushImage, AdderOnly, MutexFree
    <2>2. /\ adding \in Pass /\ queue' \in Seq(Pass)
          /\ Len(queue') = Len(queue) + 1
      BY <2>1, QueueOf
    <2>3. TypeOK' /\ HandsFollow'
      BY <2>1, <2>2 DEF flagVars, callVars, workVars
    <2>4. EachInOnePlace'
      <3>1. Count(adding # NoPass) = 1 /\ Count(adding' # NoPass) = 0
        BY <2>1 DEF Count
      <3>2. Count(hand' # NoPass) = Count(hand # NoPass)
        BY <2>1 DEF workVars
      <3> QED
        BY <2>1, <2>2, <3>1, <3>2 DEF EachInOnePlace
    <2> QED
      BY <2>3, <2>4
  <1>7. CASE NotifyWorker
    <2>1. UNCHANGED <<stale, hand, adding, queue, images>>
      BY <1>7 DEF NotifyWorker, AdderOnly, workVars
    <2>2. TypeOK' /\ HandsFollow'
      BY <1>7 DEF NotifyWorker, AdderOnly, workVars, flagVars, callVars
    <2>3. EachInOnePlace'
      BY <2>1 DEF EachInOnePlace
    <2> QED
      BY <2>2, <2>3
  <1>8. CASE Break \/ Wait \/ WakeUp \/ ClearFinish \/ SpuriousWakeup
    <2>1. UNCHANGED
          <<stale, hand, test, work, queue, fail, running, callVars, addVars,
            taskType, capture>>
      BY <1>8 DEF Break, Wait, WakeUp, ClearFinish, SpuriousWakeup, WorkerOnly,
                  workVars
    <2>2. finish' \in BOOLEAN /\ notified' \in BOOLEAN
      BY <1>8 DEF Break, Wait, WakeUp, ClearFinish, SpuriousWakeup
    <2>3. /\ worker \in {"top", "waiting"}
          /\ worker' \in {"top", "waiting", "exited", "pop"}
          /\ worker' = "pop" => queue # <<>>
      BY <1>8 DEF Break, Wait, WakeUp, ClearFinish, SpuriousWakeup, workVars
    <2>4. TypeOK' /\ HandsFollow'
      BY <2>1, <2>2, <2>3 DEF callVars, addVars
    <2>5. EachInOnePlace'
      BY <2>1 DEF EachInOnePlace, addVars
    <2> QED
      BY <2>4, <2>5
  <1>9. CASE PopImage
    <2>1. /\ worker = "pop" /\ hand' = Head(queue) /\ queue' = Tail(queue)
          /\ worker' = "process" /\ test' \in DOMAIN Test
          /\ UNCHANGED
               <<finish, fail, work, notified, stale, running, callVars,
                 addVars, taskType, capture>>
      BY <1>9, FourTests DEF PopImage, WorkerOnly
    <2>2. /\ queue' \in Seq(Pass) /\ Len(queue') = Len(queue) - 1
          /\ Head(queue) \in Pass
      BY <2>1, QueueOf
    <2>3. TypeOK' /\ HandsFollow'
      BY <2>1, <2>2 DEF callVars, addVars
    <2>4. EachInOnePlace'
      <3>1. Count(hand # NoPass) = 0 /\ Count(hand' # NoPass) \in {0, 1}
        BY <2>1 DEF Count
      <3>2. Count(adding' # NoPass) = Count(adding # NoPass)
        BY <2>1 DEF addVars
      <3> QED
        BY <2>1, <2>2, <3>1, <3>2 DEF EachInOnePlace, addVars
    <2> QED
      BY <2>3, <2>4
  <1>10. CASE Matches \/ NextTest
    <2>1. UNCHANGED <<stale, hand, adding, queue, images, finish, fail,
                      notified, running, pass, caller, adder, taskType,
                      capture>>
      BY <1>10 DEF Matches, NextTest, WorkerOnly, addVars, callVars
    <2>2. /\ worker = "process" /\ worker' \in {"process", "work"}
          /\ work' \in TaskType
      BY <1>10 DEF Matches, NextTest
    <2>3. test' \in DOMAIN Test
      BY <1>10, FourTests DEF Matches, NextTest
    <2>4. TypeOK' /\ HandsFollow'
      BY <2>1, <2>2, <2>3
    <2>5. EachInOnePlace'
      BY <2>1 DEF EachInOnePlace
    <2> QED
      BY <2>4, <2>5
  <1>11. CASE ProcessEnds
    <2>1. /\ worker = "work" /\ finish' = TRUE /\ hand' = NoPass
          /\ worker' = "top"
          /\ stale' = stale + (IF hand < pass THEN 1 ELSE 0)
          /\ UNCHANGED <<queue, test, work, notified, running, callVars,
                         addVars, taskType, capture>>
      BY <1>11 DEF ProcessEnds, WorkerOnly
    <2>2. fail' \in BOOLEAN
      <3>1. CASE work = "focus"
        BY <1>11, <3>1 DEF ProcessEnds, MayFail
      <3>2. CASE work # "focus"
        BY <1>11, <3>2 DEF ProcessEnds, MayFail
      <3> QED
        BY <3>1, <3>2
    <2>3. /\ EachInOnePlace' /\ stale' \in 0 .. MaxImages
      <3>1. Count(hand # NoPass) = 1 /\ Count(hand' # NoPass) = 0
        BY <2>1 DEF Count
      <3>2. Count(adding' # NoPass) = Count(adding # NoPass)
            /\ Len(queue') = Len(queue) /\ images' = images
        BY <2>1 DEF addVars
      <3>3. stale' \in Nat /\ stale' <= stale + 1
        BY <2>1
      <3> QED
        BY <3>1, <3>2, <3>3 DEF EachInOnePlace
    <2>4. TypeOK' /\ HandsFollow'
      BY <2>1, <2>2, <2>3 DEF callVars, addVars
    <2> QED
      BY <2>3, <2>4
  <1>12. CASE Fault
    <2>1. UNCHANGED <<stale, hand, adding, queue, images>>
      BY <1>12 DEF Fault
    <2>2. TypeOK' /\ HandsFollow'
      BY <1>12 DEF Fault, flagVars
    <2>3. EachInOnePlace'
      BY <2>1 DEF EachInOnePlace
    <2> QED
      BY <2>2, <2>3
  <1>13. CASE Rest \/ UNCHANGED vars
    <2>1. UNCHANGED <<stale, hand, adding, queue, images>>
      BY <1>13 DEF Rest, vars, addVars, workVars
    <2>2. TypeOK' /\ HandsFollow'
      BY <1>13 DEF Rest, vars, flagVars, callVars, addVars, workVars
    <2>3. EachInOnePlace'
      BY <2>1 DEF EachInOnePlace
    <2> QED
      BY <2>2, <2>3
  <1>14. CASE MatchesNone
    <2>1. /\ worker = "process" /\ worker' = "top" /\ hand' = NoPass
          /\ UNCHANGED <<stale, adding, queue, images, finish, fail, test,
                         work, notified, running, pass, caller, adder,
                         taskType, capture>>
      BY <1>14 DEF MatchesNone, WorkerOnly, addVars, callVars
    <2>2. TypeOK' /\ HandsFollow'
      BY <2>1
    <2>3. EachInOnePlace'
      <3>1. Count(hand # NoPass) = 1 /\ Count(hand' # NoPass) = 0
        BY <2>1 DEF Count
      <3>2. Count(adding' # NoPass) = Count(adding # NoPass)
        BY <2>1
      <3> QED
        BY <2>1, <3>1, <3>2 DEF EachInOnePlace
    <2> QED
      BY <2>2, <2>3
  <1> QED
    BY <1>2, <1>3, <1>4, <1>5, <1>6, <1>7, <1>8, <1>9, <1>10, <1>11, <1>12,
       <1>13, <1>14 DEF Next, CallerWork, AdderWork, WorkerWork

\* The worker starts with its invariant.
LEMMA WorkerStarts == Init => WorkerInv
  <1> SUFFICES ASSUME Init PROVE WorkerInv
    OBVIOUS
  <1>1. queue = <<>> /\ queue \in Seq(Pass) /\ Len(queue) = 0
    BY DEF Init
  <1>2. 0 \in 0 .. MaxImages
    BY FocusAssumption DEF FocusAssumption
  <1>3. TypeOK
    <2>1. /\ pass = NoPass /\ adding = NoPass /\ hand = NoPass
          /\ taskType \in TaskType /\ work \in TaskType
          /\ capture \in BOOLEAN /\ finish \in BOOLEAN /\ fail \in BOOLEAN
          /\ running \in BOOLEAN /\ notified \in BOOLEAN
          /\ caller = "idle" /\ adder = "idle" /\ worker = "top"
      BY DEF Init, TaskType
    <2>2. images = 0 /\ stale = 0
      BY DEF Init
    <2>3. test \in DOMAIN Test
      <3>1. test = 1 /\ 1 \in 1 .. 4
        BY DEF Init
      <3> QED
        BY <3>1, FourTests
    <2> QED
      BY <1>1, <1>2, <2>1, <2>2, <2>3 DEF TypeOK
  <1>4. HandsFollow
    BY DEF Init, HandsFollow
  <1>5. EachInOnePlace
    <2>1. hand = NoPass /\ adding = NoPass /\ stale = 0 /\ images = 0
      BY DEF Init
    <2> QED
      BY ONLY <1>1, <2>1 DEF EachInOnePlace, Count
  <1> QED
    BY <1>3, <1>4, <1>5 DEF WorkerInv

(* The variables keep their types, and no image is lost or in two places.  *)
THEOREM WorkerTypes == Spec => []WorkerInv
  BY WorkerStarts, WorkerStep, PTL DEF Spec

(* A worker for whose image the flag is false has not passed the test for  *)
(* the type that m_task_type has, unless that is the type whose reset      *)
(* leaves the flag alone.                                                  *)
NotPassed ==
  worker = "process" /\ ~finish =>
    taskType = "calculate" \/ \A k \in 1 .. (test - 1) : taskType # Test[k]

(* m_calculate_finish is only false while the worker has an image, so that *)
(* the loop of get_focus_images does not wait for a return that forgot it, *)
(* nor for an image that matched no type.                                  *)
THEOREM FinishIsSet == Spec => []FinishWhenIdle
  <1>1. Init => FinishWhenIdle /\ NotPassed
    BY DEF Init, FinishWhenIdle, NotPassed
  <1>2. WorkerInv /\ FinishWhenIdle /\ NotPassed /\ [Next]_vars
          => FinishWhenIdle' /\ NotPassed'
    <2> SUFFICES ASSUME WorkerInv, FinishWhenIdle, NotPassed, [Next]_vars
                 PROVE  FinishWhenIdle' /\ NotPassed'
      OBVIOUS
    <2>1. /\ finish \in BOOLEAN /\ test \in 1 .. 4 /\ taskType \in TaskType
      BY FourTests DEF WorkerInv, TypeOK
    <2>2. CASE CallerWork \/ Stop \/ TestCapture \/ AdderWork
      <3>1. UNCHANGED <<taskType, finish, worker, test>>
        BY <2>2
           DEF CallerWork, DrainQueue, CaptureOn, LookAtFinish, LookAtQueue,
               LookAtFail, WaitForQueue, CaptureOff, ReadResults, Join, Stop,
               TestCapture, AdderWork, PushImage, NotifyWorker, CallerOnly,
               AdderOnly, flagVars, workVars
      <3> QED
        BY <3>1 DEF FinishWhenIdle, NotPassed
    <2>3. CASE ResetTask
      <3>1. ~finish' => taskType' = "calculate"
        BY <2>3 DEF ResetTask
      <3> QED
        BY <3>1 DEF FinishWhenIdle, NotPassed
    <2>4. CASE Break \/ Wait \/ WakeUp \/ ClearFinish \/ SpuriousWakeup
               \/ Matches
      <3>1. taskType' = taskType /\ worker' # "process"
        BY <2>4
           DEF Break, Wait, WakeUp, ClearFinish, SpuriousWakeup, Matches,
               workVars, WorkerOnly
      <3>2. FinishWhenIdle'
        BY <2>4, <3>1
           DEF Break, Wait, WakeUp, ClearFinish, SpuriousWakeup, Matches,
               workVars, FinishWhenIdle
      <3> QED
        BY <3>1, <3>2 DEF NotPassed
    <2>5. CASE PopImage
      BY <2>5 DEF PopImage, FinishWhenIdle, NotPassed
    <2>6. CASE NextTest
      <3>1. /\ UNCHANGED <<taskType, finish, worker>>
            /\ test' = test + 1 /\ taskType # Test[test]
            /\ worker = "process"
        BY <2>6 DEF NextTest, WorkerOnly
      <3>2. 1 .. (test' - 1) = 1 .. (test - 1) \cup {test}
        BY <2>1, <3>1
      <3> QED
        BY <3>1, <3>2 DEF FinishWhenIdle, NotPassed
    <2>7. CASE MatchesNone
      <3>1. /\ UNCHANGED <<taskType, finish>> /\ worker' = "top"
            /\ taskType # Test[test] /\ test = 4
            /\ worker = "process"
        BY <2>7, FourTests DEF MatchesNone, WorkerOnly
      <3>2. PICK k \in 1 .. 4 : Test[k] = taskType
        BY <2>1, FourTests
      <3>3. k \in 1 .. (test - 1)
        BY <3>1, <3>2
      <3> QED
        BY <3>1, <3>2, <3>3 DEF FinishWhenIdle, NotPassed
    <2>8. CASE ProcessEnds
      BY <2>8 DEF ProcessEnds, FinishWhenIdle, NotPassed
    <2>9. CASE Fault
      BY <2>9 DEF Fault, flagVars, FinishWhenIdle, NotPassed
    <2>10. CASE Rest \/ UNCHANGED vars
      <3>1. UNCHANGED <<taskType, finish, worker, test>>
        BY <2>10 DEF Rest, vars, flagVars, workVars
      <3> QED
        BY <3>1 DEF FinishWhenIdle, NotPassed
    <2> QED
      BY <2>2, <2>3, <2>4, <2>5, <2>6, <2>7, <2>8, <2>9, <2>10
         DEF Next, WorkerWork
  <1> QED
    BY <1>1, <1>2, WorkerTypes, PTL DEF Spec

\* The images of earlier passes that are still to be counted, and what has
\* been.
OldFirst == queue # <<>> /\ Old(queue[1])

FewOld ==
  stale + Count(Old(hand)) + Count(Old(adding)) + Count(OldFirst) <= 2

(* No step brings back an image of an earlier pass: such an image moves    *)
(* on, from the main thread to the queue and the worker's hand.            *)
LEMMA StaleStep == WorkerInv /\ StaleInv /\ [Next]_vars => StaleInv'
  <1> SUFFICES ASSUME WorkerInv, StaleInv, [Next]_vars,
                      caller' \notin {"drain", "crashed"}
               PROVE  /\ FewOld'
                      /\ (Old(adding) => queue = <<>>)'
                      /\ (\A k \in DOMAIN queue : k > 1 => ~Old(queue[k]))'
    BY DEF StaleInv, FewOld, OldFirst
  <1>1. /\ stale \in Nat /\ queue \in Seq(Pass) /\ pass \in Nat
        /\ \A b \in BOOLEAN : Count(b) = IF b THEN 1 ELSE 0
        /\ TypeOK /\ HandsFollow
    BY FocusAssumption
       DEF Count, WorkerInv, TypeOK, Pass, NoPass, FocusAssumption
  <1>2. Count(TRUE) = 1 /\ Count(FALSE) = 0
    BY DEF Count
  <1>3. /\ Count(Old(hand)) \in {0, 1} /\ Count(Old(adding)) \in {0, 1}
        /\ Count(OldFirst) \in {0, 1}
    BY DEF Count
  <1>14. stale \in Nat
    BY <1>1
  <1>4. ASSUME caller \notin {"drain", "crashed"}
        PROVE  /\ FewOld
               /\ Old(adding) => queue = <<>>
               /\ \A k \in DOMAIN queue : k > 1 => ~Old(queue[k])
    BY <1>4 DEF StaleInv, FewOld, OldFirst
  <1>5. ASSUME UNCHANGED <<pass, stale, hand, adding, queue>>,
               caller \notin {"drain", "crashed"}
        PROVE  /\ FewOld'
               /\ (Old(adding) => queue = <<>>)'
               /\ (\A k \in DOMAIN queue : k > 1 => ~Old(queue[k]))'
    BY <1>4, <1>5 DEF FewOld, OldFirst, Old, Count
  <1>6. CASE ResetTask
    BY <1>6 DEF ResetTask
  <1>7. CASE DrainQueue
    <2>1. queue' = <<>> /\ stale' = 0
      BY <1>7 DEF DrainQueue
    <2>2. /\ Count(Old(hand))' \in {0, 1} /\ Count(Old(adding))' \in {0, 1}
          /\ Count(OldFirst)' = 0
      BY <2>1 DEF Count, OldFirst
    <2>3. FewOld'
      BY <2>1, <2>2 DEF FewOld
    <2> QED
      BY <2>1, <2>3
  <1>8. CASE \/ CaptureOn \/ LookAtFinish \/ LookAtQueue \/ LookAtFail
             \/ WaitForQueue \/ CaptureOff \/ ReadResults \/ Join \/ Stop
             \/ NotifyWorker \/ Break \/ Wait \/ WakeUp \/ ClearFinish
             \/ SpuriousWakeup \/ Matches \/ NextTest \/ Rest \/ UNCHANGED vars
    <2>1. UNCHANGED <<pass, stale, hand, adding, queue>>
      BY <1>8
         DEF CaptureOn, LookAtFinish, LookAtQueue, LookAtFail, WaitForQueue,
             CaptureOff, ReadResults, Join, Stop, NotifyWorker, Break, Wait,
             WakeUp, ClearFinish, SpuriousWakeup, Matches, NextTest, Rest,
             CallerOnly, AdderOnly, WorkerOnly, vars, callVars, addVars,
             workVars
    <2>2. caller \notin {"drain", "crashed"}
      BY <1>8
         DEF CaptureOn, LookAtFinish, LookAtQueue, LookAtFail, WaitForQueue,
             CaptureOff, ReadResults, Join, Stop, NotifyWorker, Break, Wait,
             WakeUp, ClearFinish, SpuriousWakeup, Matches, NextTest, Rest,
             AdderOnly, WorkerOnly, vars, callVars
    <2> QED
      BY <1>5, <2>1, <2>2
  <1>9. CASE TestCapture
    <2>1. /\ UNCHANGED <<pass, stale, hand, queue, caller>>
          /\ adding = NoPass /\ adding' = pass
      BY <1>1, <1>9
         DEF TestCapture, AdderOnly, callVars, workVars, HandsFollow
    <2>2. ~Old(adding) /\ ~Old(adding)'
      BY <1>1, <2>1 DEF Old
    <2>3. Count(Old(adding)) = 0 /\ Count(Old(adding))' = 0
      BY <2>2 DEF Count
    <2>4. /\ Count(Old(hand))' = Count(Old(hand))
          /\ Count(OldFirst)' = Count(OldFirst)
      BY <2>1 DEF Old, OldFirst, Count
    <2>5. /\ FewOld /\ \A k \in DOMAIN queue : k > 1 => ~Old(queue[k])
      BY <1>4, <2>1
    <2>6. FewOld'
      BY <2>1, <2>3, <2>4, <2>5 DEF FewOld
    <2> QED
      BY <2>1, <2>2, <2>5, <2>6 DEF Old
  <1>10. CASE PushImage
    <2>1. /\ UNCHANGED <<pass, stale, hand, caller>>
          /\ adding \in Pass /\ adding' = NoPass
          /\ queue' = Append(queue, adding)
      BY <1>1, <1>10
         DEF PushImage, AdderOnly, callVars, workVars, HandsFollow, TypeOK
    <2>2. /\ FewOld
          /\ Old(adding) => queue = <<>>
          /\ \A k \in DOMAIN queue : k > 1 => ~Old(queue[k])
      BY <1>4, <2>1
    <2>3. /\ Len(queue) \in Nat /\ DOMAIN queue = 1 .. Len(queue)
          /\ queue' \in Seq(Pass) /\ DOMAIN queue' = 1 .. (Len(queue) + 1)
          /\ queue'[Len(queue) + 1] = adding
          /\ \A k \in 1 .. Len(queue) : queue'[k] = queue[k]
      BY <1>1, <2>1, QueueOf
    <2>4. ~Old(adding)' /\ Count(Old(adding))' = 0
      BY <2>1 DEF Old, Count
    <2>5. Count(Old(hand))' = Count(Old(hand))
      BY <2>1 DEF Old
    <2>6. CASE queue = <<>>
      <3>1. Len(queue) = 0 /\ queue' = <<adding>>
        BY <2>1, <2>6
      <3>2. /\ Count(OldFirst) = 0
            /\ Count(OldFirst)' = Count(Old(adding))
        BY <2>1, <2>6, <3>1 DEF OldFirst, Count, Old
      <3>3. FewOld'
        BY ONLY <1>14, <1>3, <2>1, <2>2, <2>4, <2>5, <3>2 DEF FewOld
      <3> QED
        BY <2>3, <2>4, <3>1, <3>3
    <2>7. CASE queue # <<>>
      <3>1. Len(queue) > 0 /\ ~Old(adding)
        BY <2>2, <2>3, <2>7
      <3>2. queue'[1] = queue[1] /\ queue' # <<>>
        BY <2>3, <3>1
      <3>3. Count(OldFirst)' = Count(OldFirst) /\ Count(Old(adding)) = 0
        BY <2>1, <2>7, <3>1, <3>2 DEF OldFirst, Count, Old
      <3>4. FewOld'
        BY ONLY <1>14, <1>3, <2>1, <2>2, <2>4, <2>5, <3>3 DEF FewOld
      <3>5. ASSUME NEW k \in DOMAIN queue', k > 1
            PROVE  ~(queue'[k] # NoPass /\ queue'[k] < pass)
        BY <2>2, <2>3, <3>1, <3>5 DEF Old
      <3> QED
        BY <2>1, <2>4, <3>4, <3>5 DEF Old
    <2> QED
      BY <2>6, <2>7
  <1>11. CASE PopImage
    <2>1. /\ UNCHANGED <<pass, stale, adding, caller>>
          /\ hand = NoPass /\ queue # <<>>
          /\ hand' = Head(queue) /\ queue' = Tail(queue)
      BY <1>1, <1>11
         DEF PopImage, WorkerOnly, callVars, addVars, HandsFollow
    <2>2. /\ FewOld
          /\ Old(adding) => queue = <<>>
          /\ \A k \in DOMAIN queue : k > 1 => ~Old(queue[k])
      BY <1>4, <2>1
    <2>3. /\ Len(queue) \in Nat \ {0} /\ DOMAIN queue = 1 .. Len(queue)
          /\ queue' \in Seq(Pass) /\ DOMAIN queue' = 1 .. (Len(queue) - 1)
          /\ Head(queue) = queue[1]
          /\ \A k \in 1 .. (Len(queue) - 1) : queue'[k] = queue[k + 1]
      BY <1>1, <2>1, QueueOf
    <2>4. \A k \in DOMAIN queue' : ~Old(queue[k + 1])
      BY <2>2, <2>3
    <2>5. ASSUME NEW k \in DOMAIN queue'
          PROVE ~(queue'[k] # NoPass /\ queue'[k] < pass)
      BY <2>3, <2>4 DEF Old
    <2>6. queue' # <<>> => 1 \in DOMAIN queue'
      BY <2>3
    <2>7. Count(OldFirst)' = 0
      BY <2>1, <2>5, <2>6 DEF Count, OldFirst, Old
    <2>8. Count(Old(hand)) = 0 /\ Count(Old(hand))' = Count(OldFirst)
      BY <2>1, <2>3 DEF Old, Count, OldFirst
    <2>9. /\ Old(adding)' = Old(adding)
          /\ Count(Old(adding))' = Count(Old(adding))
      BY <2>1 DEF Old, Count
    <2>10. FewOld'
      BY ONLY <1>14, <1>3, <2>1, <2>2, <2>7, <2>8, <2>9 DEF FewOld
    <2> QED
      BY <2>1, <2>2, <2>5, <2>9, <2>10 DEF Old
  <1>12. CASE ProcessEnds
    <2>1. /\ UNCHANGED <<pass, adding, queue, caller>>
          /\ hand # NoPass /\ hand' = NoPass
          /\ stale' = stale + (IF hand < pass THEN 1 ELSE 0)
      BY <1>1, <1>12
         DEF ProcessEnds, WorkerOnly, callVars, addVars, HandsFollow
    <2>2. /\ FewOld
          /\ Old(adding) => queue = <<>>
          /\ \A k \in DOMAIN queue : k > 1 => ~Old(queue[k])
      BY <1>4, <2>1
    <2>3. Count(Old(hand))' = 0 /\ stale' = stale + Count(Old(hand))
      BY <2>1 DEF Old, Count
    <2>4. /\ Count(Old(adding))' = Count(Old(adding))
          /\ Count(OldFirst)' = Count(OldFirst)
      BY <2>1 DEF Old, OldFirst, Count
    <2>5. FewOld'
      BY ONLY <1>14, <1>3, <2>2, <2>3, <2>4 DEF FewOld
    <2> QED
      BY <2>1, <2>2, <2>5 DEF Old
  <1>13. CASE Fault
    BY <1>13 DEF Fault
  <1>15. CASE MatchesNone
    <2>1. /\ UNCHANGED <<pass, stale, adding, queue, caller>>
          /\ hand' = NoPass
      BY <1>15 DEF MatchesNone, WorkerOnly, callVars, addVars
    <2>2. /\ FewOld
          /\ Old(adding) => queue = <<>>
          /\ \A k \in DOMAIN queue : k > 1 => ~Old(queue[k])
      BY <1>4, <2>1
    <2>3. Count(Old(hand))' = 0 /\ stale' = stale
      BY <2>1 DEF Old, Count
    <2>4. /\ Count(Old(adding))' = Count(Old(adding))
          /\ Count(OldFirst)' = Count(OldFirst)
      BY <2>1 DEF Old, OldFirst, Count
    <2>5. FewOld'
      BY ONLY <1>14, <1>3, <2>2, <2>3, <2>4 DEF FewOld
    <2> QED
      BY <2>1, <2>2, <2>5 DEF Old
  <1> QED
    BY <1>6, <1>7, <1>8, <1>9, <1>10, <1>11, <1>12, <1>13, <1>15
       DEF Next, CallerWork, AdderWork, WorkerWork

(* After the queue has been drained at most two images of earlier passes   *)
(* are worked on: the worker's, and the one that was being added.          *)
THEOREM StaleImagesAreFew == Spec => []FewStaleImages
  <1>1. Init => StaleInv
    <2> SUFFICES ASSUME Init PROVE StaleInv
      OBVIOUS
    <2>1. /\ stale = 0 /\ queue = <<>> /\ ~Old(hand) /\ ~Old(adding)
      BY DEF Init, Old
    <2>2. /\ Count(Old(hand)) = 0 /\ Count(Old(adding)) = 0
          /\ Count(queue # <<>> /\ Old(queue[1])) = 0
      BY <2>1 DEF Count
    <2> QED
      BY <2>1, <2>2 DEF StaleInv
  <1>2. WorkerInv /\ StaleInv => FewStaleImages
    <2> SUFFICES ASSUME WorkerInv, StaleInv, caller \notin {"drain", "crashed"}
                 PROVE  stale <= 2
      BY DEF FewStaleImages
    <2>1. /\ stale \in Nat
          /\ Count(Old(hand)) \in Nat /\ Count(Old(adding)) \in Nat
          /\ Count(queue # <<>> /\ Old(queue[1])) \in Nat
      BY DEF WorkerInv, TypeOK, Count
    <2>2. stale + Count(Old(hand)) + Count(Old(adding))
            + Count(queue # <<>> /\ Old(queue[1])) <= 2
      BY DEF StaleInv
    <2> QED
      BY <2>1, <2>2
  <1> QED
    BY <1>1, <1>2, StaleStep, WorkerTypes, PTL DEF Spec

-----------------------------------------------------------------------------
(* The task.  One region first: what is known of it, and its cache, follow *)
(* from the sequence s of its images and their clarities.                  *)

Image  == [camera : Camera, number : Nat]
Shot   == [image : Image, value : Nat]
Region == [best : Nat, declines : Nat, done : BOOLEAN,
           focus : Image \cup {NoImage}]
Cache  == [count : Nat, index : Nat, images : Seq(Image)]

MaximaOf(s) ==
  {k \in DOMAIN s :
     s[k].value > 0 /\ \A j \in 1 .. k - 1 : s[j].value < s[k].value}

LateIn(s) ==
  \E k \in MaximaOf(s) :
    k > 1 /\ (k - CacheSize .. k - 1) \cap MaximaOf(s) = {}

\* The images from the first to the last, and at most 2 * CacheSize + 1.
FirstOf(last) ==
  IF last > 2 * CacheSize THEN last - 2 * CacheSize ELSE 1

UpTo(s, last) ==
  [n \in 1 .. last - FirstOf(last) + 1 |-> s[FirstOf(last) + n - 1].image]

LastOf(s, k) == IF k + CacheSize <= Len(s) THEN k + CacheSize ELSE Len(s)

\* The sharpest image is the one numbered m, and the cache is around it.
SharpestIs(region, cache, s, m) ==
  /\ m \in MaximaOf(s) /\ \A k \in MaximaOf(s) : k <= m
  /\ region.best = s[m].value /\ region.focus = s[m].image
  /\ \A k \in DOMAIN s : s[k].value <= region.best
  /\ cache.count = LastOf(s, m) - m
  /\ cache.images # <<>>
  /\ LateIn(s) \/ cache.images = UpTo(s, LastOf(s, m))

Follows(region, cache, s) ==
  /\ region \in Region /\ cache \in Cache /\ s \in Seq(Shot)
  /\ IF s = <<>> THEN region = NewRegion /\ cache = NewCache
     ELSE \E m \in DOMAIN s : SharpestIs(region, cache, s, m)

-----------------------------------------------------------------------------
(* All regions.                                                            *)

Located(located, c) == located[c] = 0 \/ <<c, located[c]>> \in End

\* The regions of a camera.
Own(located, c) ==
  GetStartIndex(located, c) + 1 .. GetStartIndex(located, c) + located[c]

\* The cache of the region r holds the images of the camera it belongs to.
OneCamera(located, cache, r) ==
  \E c \in Camera :
    /\ \A i \in DOMAIN cache.images : cache.images[i].camera = c
    /\ cache.images # <<>> => r \in Own(located, c)

RegionsHold(located, rs, cs, history) ==
  /\ DOMAIN cs = DOMAIN rs /\ DOMAIN history = DOMAIN rs
  /\ \A r \in DOMAIN rs : /\ Follows(rs[r], cs[r], history[r])
                          /\ OneCamera(located, cs[r], r)

\* Every camera has fiber ends, so that there are regions.
Ready == Camera # {} /\ AllLocated(ends)

TaskInv ==
  /\ ends \in [Camera -> Nat] /\ \A c \in Camera : Located(ends, c)
  /\ positionFail \in [Camera -> BOOLEAN] /\ processed \in Nat
  /\ \A c \in Camera : positionFail[c] => ends[c] = 0
  /\ detectFail => \A c \in Camera : positionFail[c]
  /\ ~Ready => regions = <<>> /\ ~finished
  /\ Ready => RegionsHold(ends, regions, caches, seen)
  /\ finished => CacheFinished(caches)

\* What the assumption says of the constants.
LEMMA TaskConstants ==
  /\ CacheSize \in Nat /\ CacheSize > 0 /\ Camera \subseteq Nat
  /\ Clarity \subseteq Nat /\ 0 \notin Clarity
  <1>1. Camera \subseteq Nat
    <2>1. \A i \in DOMAIN CameraIds : CameraIds[i] \in Nat
      BY FocusTaskAssumption DEF FocusTaskAssumption
    <2> QED
      BY <2>1 DEF Camera
  <1> QED
    BY <1>1, FocusTaskAssumption DEF FocusTaskAssumption

(* One image more.                                                         *)
LEMMA OneMore ==
  ASSUME NEW s \in Seq(Shot), NEW e \in Shot
  PROVE  /\ Len(s) \in Nat /\ DOMAIN s = 1 .. Len(s)
         /\ Append(s, e) \in Seq(Shot) /\ Append(s, e) # <<>>
         /\ Len(Append(s, e)) = Len(s) + 1
         /\ DOMAIN Append(s, e) = 1 .. (Len(s) + 1)
         /\ Append(s, e)[Len(s) + 1] = e
         /\ \A k \in 1 .. Len(s) : Append(s, e)[k] = s[k]
         /\ s = <<>> <=> Len(s) = 0
  OBVIOUS

\* The images before the last are maxima as they were.
LEMMA MaximaStay ==
  ASSUME NEW s \in Seq(Shot), NEW e \in Shot
  PROVE  /\ \A k \in 1 .. Len(s) :
              k \in MaximaOf(Append(s, e)) <=> k \in MaximaOf(s)
         /\ Len(s) + 1 \in MaximaOf(Append(s, e)) <=>
              e.value > 0 /\ \A j \in 1 .. Len(s) : s[j].value < e.value
         /\ MaximaOf(Append(s, e)) \subseteq 1 .. (Len(s) + 1)
  <1> DEFINE t == Append(s, e)
  <1>1. /\ Len(s) \in Nat /\ DOMAIN s = 1 .. Len(s)
        /\ DOMAIN t = 1 .. (Len(s) + 1) /\ t[Len(s) + 1] = e
        /\ \A k \in 1 .. Len(s) : t[k] = s[k]
    BY OneMore
  <1> HIDE DEF t
  <1>2. ASSUME NEW k \in 1 .. Len(s)
        PROVE  k \in MaximaOf(t) <=> k \in MaximaOf(s)
    <2>1. /\ k \in DOMAIN t /\ k \in DOMAIN s /\ t[k] = s[k]
          /\ \A j \in 1 .. k - 1 : t[j] = s[j]
      BY <1>1
    <2> QED
      BY <2>1 DEF MaximaOf
  <1>3. Len(s) + 1 \in MaximaOf(t) <=>
          e.value > 0 /\ \A j \in 1 .. Len(s) : s[j].value < e.value
    <2>1. /\ Len(s) + 1 \in DOMAIN t /\ (Len(s) + 1) - 1 = Len(s)
          /\ \A j \in 1 .. Len(s) : t[j] = s[j]
      BY <1>1
    <2> QED
      BY <1>1, <2>1 DEF MaximaOf
  <1>4. MaximaOf(t) \subseteq 1 .. (Len(s) + 1)
    BY <1>1 DEF MaximaOf
  <1> QED
    BY <1>2, <1>3, <1>4 DEF t

\* A late maximum is one for ever.
LEMMA LateStays ==
  ASSUME NEW s \in Seq(Shot), NEW e \in Shot, LateIn(s)
  PROVE  LateIn(Append(s, e))
  <1> DEFINE t == Append(s, e)
  <1>1. PICK k \in MaximaOf(s) :
          k > 1 /\ (k - CacheSize .. k - 1) \cap MaximaOf(s) = {}
    BY DEF LateIn
  <1>2. k \in 1 .. Len(s) /\ Len(s) \in Nat /\ CacheSize \in Nat
    BY OneMore, TaskConstants DEF MaximaOf
  <1>3. k \in MaximaOf(t)
    BY <1>2, MaximaStay
  <1>4. ASSUME NEW j \in k - CacheSize .. k - 1, j \in MaximaOf(t)
        PROVE  FALSE
    <2>1. j \in 1 .. Len(s)
      BY <1>2, <1>4, MaximaStay
    <2>2. j \in MaximaOf(s)
      BY <1>4, <2>1, MaximaStay
    <2> QED
      BY <1>1, <1>4, <2>2
  <1> QED
    BY <1>1, <1>3, <1>4 DEF LateIn

\* Images that are not in the window do not matter to it.
LEMMA WindowStays ==
  ASSUME NEW s \in Seq(Shot), NEW e \in Shot, NEW last \in 1 .. Len(s)
  PROVE  UpTo(Append(s, e), last) = UpTo(s, last)
  <1> DEFINE first == FirstOf(last)
  <1>1. /\ Len(s) \in Nat /\ CacheSize \in Nat /\ last \in Nat
        /\ \A k \in 1 .. Len(s) : Append(s, e)[k] = s[k]
    BY OneMore, TaskConstants
  <1>2. first \in Nat /\ first >= 1 /\ first <= last
    BY <1>1 DEF FirstOf
  <1> HIDE DEF first
  <1>3. \A n \in 1 .. last - first + 1 : first + n - 1 \in 1 .. Len(s)
    BY <1>1, <1>2
  <1>4. \A n \in 1 .. last - first + 1 :
          Append(s, e)[first + n - 1].image = s[first + n - 1].image
    BY <1>1, <1>3
  <1>5. [n \in 1 .. last - first + 1 |-> Append(s, e)[first + n - 1].image]
          = [n \in 1 .. last - first + 1 |-> s[first + n - 1].image]
    BY <1>4
  <1> QED
    BY <1>5 DEF UpTo, first

\* What add_cache_image does to the images it keeps.
Added(kept, image) ==
  Append(IF Len(kept) >= 2 * CacheSize + 1 THEN Tail(kept) ELSE kept, image)

\* The same of a cache.
LEMMA OneImageMore ==
  ASSUME NEW u \in Seq(Image), NEW i \in Image
  PROVE  /\ Append(u, i) \in Seq(Image) /\ Append(u, i) # <<>>
         /\ Len(Append(u, i)) = Len(u) + 1
         /\ Append(u, i)[Len(u) + 1] = i
         /\ \A k \in 1 .. Len(u) : Append(u, i)[k] = u[k]
  <1>1. /\ Append(u, i) \in Seq(Image) /\ Len(Append(u, i)) = Len(u) + 1
        /\ Append(u, i)[Len(u) + 1] = i
        /\ \A k \in 1 .. Len(u) : Append(u, i)[k] = u[k]
    OBVIOUS
  <1>2. Len(u) \in Nat /\ Len(<<>>) = 0
    OBVIOUS
  <1>3. Len(Append(u, i)) # Len(<<>>)
    BY <1>1, <1>2
  <1> QED
    BY <1>1, <1>3

\* So the window up to the last image becomes the window up to the next.
LEMMA WindowGrows ==
  ASSUME NEW s \in Seq(Shot), NEW e \in Shot, NEW w \in Seq(Image),
         w = UpTo(s, Len(s))
  PROVE  Added(w, e.image) = UpTo(Append(s, e), Len(s) + 1)
  <1> DEFINE t == Append(s, e)
             n == Len(s)
             first == FirstOf(n)
             next == FirstOf(n + 1)
             u == IF Len(w) >= 2 * CacheSize + 1 THEN Tail(w) ELSE w
  <1>1. /\ n \in Nat /\ CacheSize \in Nat /\ CacheSize > 0
        /\ t[n + 1] = e /\ \A k \in 1 .. n : t[k] = s[k]
        /\ e.image \in Image
    BY OneMore, TaskConstants DEF Shot
  <1> HIDE DEF t, n
  <1>2. /\ first \in Nat /\ first >= 1 /\ n - first + 1 \in Nat
        /\ next \in Nat /\ next >= 1 /\ (n + 1) - next \in Nat
        /\ n - first + 1 >= 2 * CacheSize + 1 => next = first + 1
        /\ ~(n - first + 1 >= 2 * CacheSize + 1) => next = first
    BY <1>1 DEF FirstOf
  <1>3. w = [k \in 1 .. n - first + 1 |-> s[first + k - 1].image]
    BY DEF UpTo, n
  <1> HIDE DEF first, next
  <1>4. UpTo(t, n + 1)
          = [k \in 1 .. (n + 1) - next + 1 |-> t[next + k - 1].image]
    BY DEF UpTo, next
  <1>5. /\ Len(w) = n - first + 1
        /\ \A k \in 1 .. n - first + 1 : w[k] = s[first + k - 1].image
    BY <1>2, <1>3
  <1>6. /\ u \in Seq(Image) /\ Len(u) = (n + 1) - next
        /\ \A k \in 1 .. (n + 1) - next : u[k] = s[next + k - 1].image
    <2>1. CASE Len(w) >= 2 * CacheSize + 1
      <3>1. next = first + 1 /\ u = Tail(w) /\ w # <<>>
        BY <1>1, <1>2, <1>5, <2>1
      <3>2. /\ Tail(w) \in Seq(Image) /\ Len(Tail(w)) = Len(w) - 1
            /\ \A k \in 1 .. Len(w) - 1 : Tail(w)[k] = w[k + 1]
        BY <3>1
      <3>3. (n + 1) - next = Len(w) - 1
        BY <1>1, <1>2, <1>5, <3>1
      <3>4. ASSUME NEW k \in 1 .. (n + 1) - next
            PROVE  Tail(w)[k] = s[next + k - 1].image
        <4>1. k \in 1 .. Len(w) - 1 /\ k + 1 \in 1 .. n - first + 1
          BY <1>1, <1>2, <1>5, <3>3
        <4>2. first + (k + 1) - 1 = next + k - 1
          BY <1>2, <3>1
        <4>3. w[k + 1] = s[first + (k + 1) - 1].image
          BY ONLY <1>5, <4>1
        <4> QED
          BY ONLY <3>2, <4>1, <4>2, <4>3
      <3> QED
        BY ONLY <3>1, <3>2, <3>3, <3>4
    <2>2. CASE ~(Len(w) >= 2 * CacheSize + 1)
      <3>1. next = first /\ u = w
        BY <1>2, <1>5, <2>2
      <3>2. n - first + 1 = (n + 1) - next
        BY <1>1, <1>2, <3>1
      <3> QED
        <4>1. u \in Seq(Image) /\ Len(u) = (n + 1) - next
          BY ONLY <1>5, <3>1, <3>2, w \in Seq(Image)
        <4>2. ASSUME NEW k \in 1 .. (n + 1) - next
              PROVE  u[k] = s[next + k - 1].image
          <5>1. k \in 1 .. n - first + 1
            BY ONLY <3>2, <4>2
          <5>2. w[k] = s[first + k - 1].image
            BY ONLY <1>5, <5>1
          <5> QED
            BY ONLY <3>1, <5>2
        <4> QED
          BY <4>1, <4>2
    <2> QED
      BY <2>1, <2>2
  <1> HIDE DEF u
  <1>7. /\ Added(w, e.image) = Append(u, e.image)
    BY DEF Added, u
  <1>8. /\ Append(u, e.image) \in Seq(Image)
        /\ Len(Append(u, e.image)) = (n + 1) - next + 1
        /\ Append(u, e.image)[(n + 1) - next + 1] = e.image
        /\ \A k \in 1 .. (n + 1) - next : Append(u, e.image)[k] = u[k]
    BY ONLY <1>1, <1>6, OneImageMore
  <1>9. ASSUME NEW k \in 1 .. (n + 1) - next + 1
        PROVE  Append(u, e.image)[k] = t[next + k - 1].image
    <2>1. CASE k = (n + 1) - next + 1
      <3>1. next + k - 1 = n + 1
        BY <1>1, <1>2, <2>1
      <3> QED
        BY ONLY <1>1, <1>8, <2>1, <3>1
    <2>2. CASE k # (n + 1) - next + 1
      <3>1. k \in 1 .. (n + 1) - next /\ next + k - 1 \in 1 .. n
        BY <1>1, <1>2, <2>2
      <3>2. t[next + k - 1] = s[next + k - 1]
        BY ONLY <1>1, <3>1
      <3> QED
        BY ONLY <1>6, <1>8, <3>1, <3>2
    <2> QED
      BY <2>1, <2>2
  <1>10. Append(u, e.image)
           = [k \in 1 .. (n + 1) - next + 1 |-> t[next + k - 1].image]
    <2> DEFINE a == Append(u, e.image)
               m == (n + 1) - next + 1
    <2>1. a \in Seq(Image) /\ Len(a) = m
      BY <1>8
    <2> HIDE DEF a
    <2>2. a = [k \in 1 .. m |-> a[k]]
      BY ONLY <2>1
    <2> QED
      BY <1>9, <2>2 DEF a
  <1> QED
    BY <1>4, <1>7, <1>10 DEF t, n

(* What an image does to what is known of a region, and to its cache.      *)
LEMMA NextRegionIs ==
  ASSUME NEW g \in Region, NEW i \in Image, NEW v \in Nat, v = 0 <=> g.done
  PROVE  /\ NextRegion(g, i, v) \in Region
         /\ v > g.best => /\ NextRegion(g, i, v).best = v
                          /\ NextRegion(g, i, v).focus = i
         /\ ~(v > g.best) => /\ NextRegion(g, i, v).best = g.best
                             /\ NextRegion(g, i, v).focus = g.focus
  <1>1. /\ g.best \in Nat /\ g.declines \in Nat /\ g.done \in BOOLEAN
        /\ g.focus \in Image \cup {NoImage}
    BY DEF Region
  <1>2. CASE g.done
    BY <1>1, <1>2 DEF NextRegion
  <1>3. CASE ~g.done /\ v > g.best
    <2> DEFINE h == [g EXCEPT !.best = v, !.declines = 0, !.focus = i]
    <2>1. NextRegion(g, i, v) = h
      BY <1>3 DEF NextRegion
    <2>2. h \in Region
      BY DEF Region
    <2>3. h.best = v /\ h.focus = i
      BY DEF Region
    <2> QED
      BY <1>3, <2>1, <2>2, <2>3
  <1>4. CASE ~g.done /\ ~(v > g.best)
    <2> DEFINE d == \/ v + ClarityDiffThresh < g.best
                    \/ g.declines + 1 >= AttenuationThresh
               h == [g EXCEPT !.declines = @ + 1, !.done = d]
    <2>1. NextRegion(g, i, v) = h
      BY <1>4 DEF NextRegion
    <2>2. d \in BOOLEAN /\ g.declines + 1 \in Nat
      BY <1>1
    <2> HIDE DEF d
    <2>3. h \in Region
      BY <2>2 DEF Region
    <2>4. h.best = g.best /\ h.focus = g.focus
      BY DEF Region
    <2> QED
      BY <1>4, <2>1, <2>3, <2>4
  <1> QED
    BY <1>2, <1>3, <1>4

\* What is added to is a sequence of images, and not empty.
LEMMA AddedIs ==
  ASSUME NEW w \in Seq(Image), NEW i \in Image
  PROVE  Added(w, i) \in Seq(Image) /\ Added(w, i) # <<>>
  <1>1. CASE Len(w) >= 2 * CacheSize + 1
    <2>1. w # <<>>
      BY <1>1, TaskConstants
    <2>2. Tail(w) \in Seq(Image)
      BY <2>1
    <2>3. Append(Tail(w), i) \in Seq(Image) /\ Append(Tail(w), i) # <<>>
      BY <2>2, OneImageMore
    <2> QED
      BY <1>1, <2>3 DEF Added
  <1>2. CASE ~(Len(w) >= 2 * CacheSize + 1)
    <2>1. Append(w, i) \in Seq(Image) /\ Append(w, i) # <<>>
      BY OneImageMore
    <2> QED
      BY <1>2, <2>1 DEF Added
  <1> QED
    BY <1>1, <1>2

\* A cache that is not closed takes an image.
LEMMA AddCacheImageIs ==
  ASSUME NEW k \in Cache, NEW i \in Image, NEW b \in BOOLEAN
  PROVE  /\ AddCacheImage(k, i, b) \in Cache
         /\ k.count >= CacheSize => AddCacheImage(k, i, b) = k
         /\ k.count < CacheSize =>
              /\ AddCacheImage(k, i, b).count
                   = IF b THEN k.count + 1 ELSE k.count
              /\ AddCacheImage(k, i, b).images = Added(k.images, i)
  <1>1. k.count \in Nat /\ k.index \in Nat /\ k.images \in Seq(Image)
    BY DEF Cache
  <1>2. CASE k.count >= CacheSize
    BY <1>1, <1>2, TaskConstants DEF AddCacheImage
  <1>3. CASE ~(k.count >= CacheSize)
    <2> DEFINE c == IF b THEN k.count + 1 ELSE k.count
               w == Added(k.images, i)
               h == [k EXCEPT !.count = c, !.images = w]
    <2>1. AddCacheImage(k, i, b) = h
      BY <1>3 DEF AddCacheImage, Added
    <2>2. c \in Nat /\ w \in Seq(Image)
      <3>1. w \in Seq(Image)
        BY <1>1, AddedIs
      <3> QED
        BY <1>1, <3>1
    <2> HIDE DEF c, w
    <2>3. h \in Cache
      BY <2>2 DEF Cache
    <2>4. h.count = c /\ h.images = w
      BY DEF Cache
    <2> QED
      BY <1>1, <1>3, <2>1, <2>3, <2>4, TaskConstants DEF c, w
  <1> QED
    BY <1>2, <1>3

\* The count starts again with a maximum and else goes on, while the images
\* are added to whatever the image is worth.
LEMMA NextCacheIs ==
  ASSUME NEW g \in Region, NEW k \in Cache, NEW i \in Image, NEW v \in Nat,
         v = 0 <=> g.done
  PROVE  LET h == NextCache(g, k, i, v) IN
         /\ h \in Cache
         /\ v > g.best => h.count = 0
         /\ ~(v > g.best) /\ k.count < CacheSize => h.count = k.count + 1
         /\ ~(v > g.best) /\ k.count >= CacheSize => h.count = k.count
         /\ k.count < CacheSize => h.images = Added(k.images, i)
         /\ k.count >= CacheSize => h.images = k.images
  <1> DEFINE h == NextCache(g, k, i, v)
  <1>1. g.best \in Nat /\ g.done \in BOOLEAN
    BY DEF Region
  <1>2. CASE v > g.best
    <2>1. ~g.done
      BY <1>1, <1>2
    <2> DEFINE a == AddCacheImage(k, i, FALSE)
    <2>2. /\ a \in Cache
          /\ k.count >= CacheSize => a = k
          /\ k.count < CacheSize => a.images = Added(k.images, i)
      BY AddCacheImageIs
    <2> HIDE DEF a
    <2>3. h = [a EXCEPT !.count = 0, !.index = Len(a.images)]
      BY <1>2, <2>1 DEF NextCache, SetFinishedCount, a
    <2> DEFINE n == Len(a.images)
    <2>4. n \in Nat
      BY <2>2 DEF Cache
    <2> HIDE DEF h, n
    <2>5. h \in Cache
      <3>1. h = [a EXCEPT !.count = 0, !.index = n]
        BY <2>3 DEF n
      <3> QED
        BY ONLY <2>2, <2>4, <3>1 DEF Cache
    <2>6. h.count = 0 /\ h.images = a.images
      BY <2>2, <2>3 DEF Cache
    <2> QED
      BY <1>2, <2>2, <2>5, <2>6 DEF h
  <1>3. CASE ~(v > g.best)
    <2>1. h = AddCacheImage(k, i, TRUE)
      BY <1>3 DEF NextCache
    <2> HIDE DEF h
    <2>2. /\ h \in Cache
          /\ k.count >= CacheSize => h = k
          /\ k.count < CacheSize =>
               /\ h.count = IF TRUE THEN k.count + 1 ELSE k.count
               /\ h.images = Added(k.images, i)
      BY <2>1, AddCacheImageIs
    <2> QED
      BY <1>3, <2>2 DEF h
  <1> QED
    BY <1>2, <1>3

\* The first image of a region is its sharpest.
LEMMA FirstImageFollows ==
  ASSUME NEW i \in Image, NEW v \in Nat, v > 0
  PROVE  LET s == Append(<<>>, [image |-> i, value |-> v])
         IN  SharpestIs(NextRegion(NewRegion, i, v),
                        NextCache(NewRegion, NewCache, i, v), s, 1)
  <1> DEFINE g == NewRegion
             k == NewCache
             e == [image |-> i, value |-> v]
             s == Append(<<>>, e)
             h == NextRegion(g, i, v)
             c == NextCache(g, k, i, v)
  <1>1. /\ g \in Region /\ g.best = 0 /\ g.done = FALSE
        /\ k \in Cache /\ k.count = 0 /\ k.images = <<>>
    BY DEF Region, Cache, NewRegion, NewCache
  <1>2. e \in Shot /\ e.value = v /\ e.image = i /\ <<>> \in Seq(Shot)
    BY DEF Shot
  <1> HIDE DEF g, k, e
  <1>3. h.best = v /\ h.focus = i
    BY <1>1, NextRegionIs
  <1>4. c.count = 0 /\ c.images = Added(<<>>, i)
    BY <1>1, NextCacheIs, TaskConstants
  <1>5. Len(<<>>) = 0
    OBVIOUS
  <1>6. /\ Len(s) = 1 /\ DOMAIN s = 1 .. 1 /\ s[1] = e
        /\ 1 \in MaximaOf(s) /\ MaximaOf(s) \subseteq 1 .. 1
    <2>1. /\ Len(s) = 0 + 1 /\ DOMAIN s = 1 .. (0 + 1) /\ s[0 + 1] = e
          /\ 0 + 1 \in MaximaOf(s) <=>
               e.value > 0 /\ \A j \in 1 .. 0 : <<>>[j].value < e.value
          /\ MaximaOf(s) \subseteq 1 .. (0 + 1)
      BY <1>2, <1>5, OneMore, MaximaStay
    <2>2. 0 + 1 = 1 /\ 1 .. 0 = {}
      OBVIOUS
    <2> QED
      BY <1>2, <2>1, <2>2
  <1>7. LastOf(s, 1) = 1
    BY <1>6, TaskConstants DEF LastOf
  <1>8. c.images = UpTo(s, 1) /\ c.images # <<>>
    <2>1. <<>> = UpTo(<<>>, 0)
      <3>1. FirstOf(0) = 1 /\ 0 - 1 + 1 = 0 /\ 1 .. 0 = {}
        BY TaskConstants DEF FirstOf
      <3> QED
        BY <3>1 DEF UpTo
    <2>2. Added(<<>>, e.image) = UpTo(Append(<<>>, e), 0 + 1)
      <3>1. <<>> \in Seq(Image)
        OBVIOUS
      <3> QED
        BY <1>2, <1>5, <2>1, <3>1, WindowGrows
    <2>3. Added(<<>>, i) # <<>>
      <3>1. <<>> \in Seq(Image)
        OBVIOUS
      <3> QED
        BY <3>1, AddedIs
    <2> QED
      BY <1>2, <1>4, <2>2, <2>3
  <1> HIDE DEF s, h, c
  <1>9. SharpestIs(h, c, s, 1)
    BY <1>2, <1>3, <1>4, <1>6, <1>7, <1>8 DEF SharpestIs
  <1> QED
    BY <1>9 DEF g, k, e, s, h, c

\* An image that is sharper than all before it is the new centre.
LEMMA SharperFollows ==
  ASSUME NEW s \in Seq(Shot), NEW g \in Region, NEW k \in Cache,
         NEW m \in DOMAIN s, SharpestIs(g, k, s, m),
         NEW i \in Image, NEW v \in Nat, v = 0 <=> g.done, v > g.best
  PROVE  SharpestIs(NextRegion(g, i, v), NextCache(g, k, i, v),
                    Append(s, [image |-> i, value |-> v]), Len(s) + 1)
  <1> DEFINE e == [image |-> i, value |-> v]
             t == Append(s, e)
             n == Len(s)
             h == NextRegion(g, i, v)
             c == NextCache(g, k, i, v)
  <1>1. e \in Shot /\ e.value = v /\ e.image = i
    BY DEF Shot
  <1> HIDE DEF e
  <1>2. /\ n \in Nat /\ DOMAIN s = 1 .. n /\ DOMAIN t = 1 .. (n + 1)
        /\ Len(t) = n + 1 /\ t[n + 1] = e /\ \A j \in 1 .. n : t[j] = s[j]
    BY <1>1, OneMore
  <1>3. h.best = v /\ h.focus = i
    BY NextRegionIs
  <1>4. /\ c.count = 0
        /\ k.count < CacheSize => c.images = Added(k.images, i)
        /\ k.count >= CacheSize => c.images = k.images
    BY NextCacheIs
  <1>5. /\ g.best \in Nat /\ k.count \in Nat /\ k.images \in Seq(Image)
        /\ CacheSize \in Nat /\ CacheSize > 0
        /\ \A j \in 1 .. n : s[j].value \in Nat
    <2>1. \A j \in 1 .. n : s[j] \in Shot
      BY <1>2
    <2>2. \A j \in 1 .. n : s[j].value \in Nat
      BY <2>1 DEF Shot
    <2> QED
      BY <2>2, TaskConstants DEF Region, Cache
  <1>6. /\ m \in MaximaOf(s) /\ \A j \in MaximaOf(s) : j <= m
        /\ \A j \in 1 .. n : s[j].value <= g.best
        /\ k.count = LastOf(s, m) - m /\ k.images # <<>>
        /\ LateIn(s) \/ k.images = UpTo(s, LastOf(s, m))
    BY <1>2 DEF SharpestIs
  <1>7. /\ \A j \in 1 .. n : j \in MaximaOf(t) <=> j \in MaximaOf(s)
        /\ n + 1 \in MaximaOf(t) /\ MaximaOf(t) \subseteq 1 .. (n + 1)
    <2>1. e.value > 0 /\ \A j \in 1 .. n : s[j].value < e.value
      BY <1>1, <1>5, <1>6
    <2> QED
      BY <1>1, <2>1, MaximaStay
  <1> HIDE DEF n, t, h, c
  <1>8. \A j \in MaximaOf(t) : j <= n + 1
    BY <1>2, <1>7
  <1>9. \A j \in DOMAIN t : t[j].value <= v
    <2> SUFFICES ASSUME NEW j \in 1 .. (n + 1)
                 PROVE  t[j].value <= v
      BY <1>2
    <2>1. CASE j = n + 1
      BY <1>1, <1>2, <2>1
    <2>2. CASE j # n + 1
      <3>1. j \in 1 .. n
        BY <1>2, <2>2
      <3>2. s[j].value <= g.best /\ s[j].value \in Nat /\ t[j] = s[j]
        BY <1>2, <1>5, <1>6, <3>1
      <3> QED
        BY <1>5, <3>2
    <2> QED
      BY <2>1, <2>2
  <1>10. LastOf(t, n + 1) = n + 1
    BY <1>2, <1>5 DEF LastOf
  <1>11. c.images # <<>>
    <2>1. Added(k.images, i) # <<>>
      BY <1>5, AddedIs
    <2> QED
      BY <1>4, <1>5, <1>6, <2>1
  <1>12. ASSUME ~LateIn(t)
         PROVE  c.images = UpTo(t, n + 1)
    <2>1. ~LateIn(s)
      BY <1>1, <1>12, LateStays DEF t
    <2>2. PICK j \in (n + 1) - CacheSize .. (n + 1) - 1 : j \in MaximaOf(t)
      <3>1. n + 1 > 1
        BY <1>2
      <3> QED
        BY <1>7, <1>12, <3>1 DEF LateIn
    <2>3. j \in 1 .. n
      BY <1>2, <1>5, <1>7, <2>2
    <2>4. j <= m /\ m \in 1 .. n
      BY <1>2, <1>6, <1>7, <2>2, <2>3
    <2>5. m + CacheSize > n /\ n - m < CacheSize
      BY <1>2, <1>5, <2>2, <2>3, <2>4
    <2>6. LastOf(s, m) = n
      BY <1>2, <1>5, <2>4, <2>5 DEF LastOf, n
    <2>7. k.count < CacheSize /\ k.images = UpTo(s, n)
      BY <1>6, <2>1, <2>5, <2>6
    <2>8. Added(k.images, e.image) = UpTo(t, n + 1)
      BY <1>1, <1>5, <2>7, WindowGrows DEF t, n
    <2> QED
      BY <1>1, <1>4, <2>7, <2>8
  <1>13. SharpestIs(h, c, t, n + 1)
    <2>1. c.count = LastOf(t, n + 1) - (n + 1)
      BY <1>2, <1>4, <1>10
    <2>2. LateIn(t) \/ c.images = UpTo(t, LastOf(t, n + 1))
      BY <1>10, <1>12
    <2> QED
      BY <1>1, <1>2, <1>3, <1>7, <1>8, <1>9, <1>11, <2>1, <2>2 DEF SharpestIs
  <1> QED
    BY <1>13 DEF e, t, n, h, c

\* One that is not sharper leaves it where it was.
LEMMA BlurredFollows ==
  ASSUME NEW s \in Seq(Shot), NEW g \in Region, NEW k \in Cache,
         NEW m \in DOMAIN s, SharpestIs(g, k, s, m),
         NEW i \in Image, NEW v \in Nat, v = 0 <=> g.done, ~(v > g.best)
  PROVE  SharpestIs(NextRegion(g, i, v), NextCache(g, k, i, v),
                    Append(s, [image |-> i, value |-> v]), m)
  <1> DEFINE e == [image |-> i, value |-> v]
             t == Append(s, e)
             n == Len(s)
             h == NextRegion(g, i, v)
             c == NextCache(g, k, i, v)
  <1>1. e \in Shot /\ e.value = v /\ e.image = i
    BY DEF Shot
  <1> HIDE DEF e
  <1>2. /\ n \in Nat /\ DOMAIN s = 1 .. n /\ DOMAIN t = 1 .. (n + 1)
        /\ Len(t) = n + 1 /\ t[n + 1] = e /\ \A j \in 1 .. n : t[j] = s[j]
        /\ m \in 1 .. n /\ m \in 1 .. (n + 1)
    BY <1>1, OneMore
  <1>3. h.best = g.best /\ h.focus = g.focus
    BY NextRegionIs
  <1>4. /\ k.count < CacheSize => /\ c.count = k.count + 1
                                  /\ c.images = Added(k.images, i)
        /\ k.count >= CacheSize => /\ c.count = k.count
                                   /\ c.images = k.images
    BY NextCacheIs
  <1>5. /\ g.best \in Nat /\ k.count \in Nat /\ k.images \in Seq(Image)
        /\ CacheSize \in Nat /\ CacheSize > 0
        /\ \A j \in 1 .. n : s[j].value \in Nat
    <2>1. \A j \in 1 .. n : s[j] \in Shot
      BY <1>2
    <2>2. \A j \in 1 .. n : s[j].value \in Nat
      BY <2>1 DEF Shot
    <2> QED
      BY <2>2, TaskConstants DEF Region, Cache
  <1>6. /\ m \in MaximaOf(s) /\ \A j \in MaximaOf(s) : j <= m
        /\ g.best = s[m].value /\ g.focus = s[m].image
        /\ \A j \in 1 .. n : s[j].value <= g.best
        /\ k.count = LastOf(s, m) - m /\ k.images # <<>>
        /\ LateIn(s) \/ k.images = UpTo(s, LastOf(s, m))
    BY <1>2 DEF SharpestIs
  <1>7. /\ \A j \in 1 .. n : j \in MaximaOf(t) <=> j \in MaximaOf(s)
        /\ n + 1 \notin MaximaOf(t) /\ MaximaOf(t) \subseteq 1 .. (n + 1)
    <2>1. ~(s[m].value < e.value)
      BY <1>1, <1>2, <1>5, <1>6
    <2> QED
      BY <1>1, <1>2, <2>1, MaximaStay
  <1> HIDE DEF n, t, h, c
  <1>8. m \in MaximaOf(t) /\ \A j \in MaximaOf(t) : j <= m
    <2>1. ASSUME NEW j \in MaximaOf(t)
          PROVE  j <= m
      <3>1. j \in 1 .. n
        BY <1>2, <1>7
      <3> QED
        BY <1>6, <1>7, <3>1
    <2> QED
      BY <1>2, <1>6, <1>7, <2>1
  <1>9. \A j \in DOMAIN t : t[j].value <= g.best
    <2> SUFFICES ASSUME NEW j \in 1 .. (n + 1)
                 PROVE  t[j].value <= g.best
      BY <1>2
    <2>1. CASE j = n + 1
      BY <1>1, <1>2, <1>5, <2>1
    <2>2. CASE j # n + 1
      <3>1. j \in 1 .. n
        BY <1>2, <2>2
      <3> QED
        BY <1>2, <1>6, <3>1
    <2> QED
      BY <2>1, <2>2
  <1>10. c.images # <<>>
    <2>1. Added(k.images, i) # <<>>
      BY <1>5, AddedIs
    <2> QED
      BY <1>4, <1>5, <1>6, <2>1
  <1>11. /\ c.count = LastOf(t, m) - m
         /\ LateIn(t) \/ c.images = UpTo(t, LastOf(t, m))
    <2>1. LateIn(s) => LateIn(t)
      BY <1>1, LateStays DEF t
    <2>2. CASE m + CacheSize > n
      <3>1. LastOf(s, m) = n /\ LastOf(t, m) = n + 1
        <4>1. /\ Len(s) = n /\ Len(t) = n + 1 /\ n \in Nat /\ m \in 1 .. n
              /\ CacheSize \in Nat
          BY <1>2, <1>5 DEF n
        <4>2. LastOf(s, m) = n
          BY ONLY <2>2, <4>1 DEF LastOf
        <4>3. LastOf(t, m) = n + 1
          BY ONLY <2>2, <4>1 DEF LastOf
        <4> QED
          BY <4>2, <4>3
      <3>2. /\ k.count < CacheSize
            /\ c.count = (n + 1) - m /\ c.images = Added(k.images, e.image)
        BY <1>1, <1>2, <1>4, <1>5, <1>6, <2>2, <3>1
      <3>3. k.images = UpTo(s, n) => c.images = UpTo(t, n + 1)
        BY <1>1, <1>5, <3>2, WindowGrows DEF t, n
      <3> QED
        BY <1>6, <2>1, <3>1, <3>2, <3>3
    <2>3. CASE ~(m + CacheSize > n)
      <3>1. LastOf(s, m) = m + CacheSize /\ LastOf(t, m) = m + CacheSize
        BY <1>2, <1>5, <2>3 DEF LastOf, n
      <3>2. k.count = CacheSize /\ c.count = k.count /\ c.images = k.images
        BY <1>2, <1>4, <1>5, <1>6, <3>1
      <3>3. UpTo(t, m + CacheSize) = UpTo(s, m + CacheSize)
        <4>1. m + CacheSize \in 1 .. n
          BY <1>2, <1>5, <2>3
        <4> QED
          BY <1>1, <4>1, WindowStays DEF t, n
      <3> QED
        BY <1>6, <2>1, <3>1, <3>2, <3>3
    <2> QED
      BY <2>2, <2>3
  <1>12. SharpestIs(h, c, t, m)
    BY <1>2, <1>3, <1>6, <1>8, <1>9, <1>10, <1>11 DEF SharpestIs
  <1> QED
    BY <1>12 DEF e, t, n, h, c

\* So a region and its cache follow their images, one by one.
LEMMA RegionFollows ==
  ASSUME NEW s, NEW g, NEW k, Follows(g, k, s),
         NEW i \in Image, NEW v \in Nat, v = 0 <=> g.done
  PROVE  Follows(NextRegion(g, i, v), NextCache(g, k, i, v),
                 Append(s, [image |-> i, value |-> v]))
  <1> DEFINE e == [image |-> i, value |-> v]
             t == Append(s, e)
             h == NextRegion(g, i, v)
             c == NextCache(g, k, i, v)
  <1>1. g \in Region /\ k \in Cache /\ s \in Seq(Shot)
    BY DEF Follows
  <1>2. h \in Region /\ c \in Cache
    BY <1>1, NextRegionIs, NextCacheIs
  <1>3. e \in Shot
    BY DEF Shot
  <1>4. /\ t \in Seq(Shot) /\ t # <<>>
        /\ DOMAIN s = 1 .. Len(s) /\ Len(s) \in Nat
        /\ DOMAIN t = 1 .. (Len(s) + 1)
        /\ s = <<>> <=> Len(s) = 0
    BY <1>1, <1>3, OneMore
  <1>5. \E m \in DOMAIN t : SharpestIs(h, c, t, m)
    <2>1. CASE s = <<>>
      <3>1. g = NewRegion /\ k = NewCache
        BY <2>1 DEF Follows
      <3>2. v > 0
        BY <3>1 DEF NewRegion
      <3>3. SharpestIs(h, c, t, 1)
        BY <2>1, <3>1, <3>2, FirstImageFollows
      <3>4. 1 \in DOMAIN t
        BY <1>4
      <3> QED
        BY <3>3, <3>4
    <2>2. CASE s # <<>>
      <3>1. PICK m \in DOMAIN s : SharpestIs(g, k, s, m)
        BY <2>2 DEF Follows
      <3>2. CASE v > g.best
        <4>1. SharpestIs(h, c, t, Len(s) + 1)
          BY <1>1, <3>1, <3>2, SharperFollows
        <4>2. Len(s) + 1 \in DOMAIN t
          BY <1>4
        <4> QED
          BY <4>1, <4>2
      <3>3. CASE ~(v > g.best)
        <4>1. SharpestIs(h, c, t, m)
          BY <1>1, <3>1, <3>3, BlurredFollows
        <4>2. m \in DOMAIN t
          BY <1>4
        <4> QED
          BY <4>1, <4>2
      <3> QED
        BY <3>2, <3>3
    <2> QED
      BY <2>1, <2>2
  <1> HIDE DEF h, c, t
  <1> QED
    BY <1>2, <1>4, <1>5 DEF Follows, e, t, h, c

-----------------------------------------------------------------------------
(* Where each camera's regions are: no two cameras share one.              *)

LEMMA EndIsFinite ==
  IsFiniteSet(End) /\ End \subseteq Nat \X Nat
  <1> DEFINE Indices == 1 .. Len(CameraIds)
             f == [i \in Indices |-> {CameraIds[i]} \X (1 .. MaxEnds[i])]
             Parts == {f[i] : i \in Indices}
  <1>1. /\ Len(CameraIds) \in Nat /\ DOMAIN CameraIds = Indices
        /\ \A i \in Indices : CameraIds[i] \in Nat /\ MaxEnds[i] \in Nat
    <2>1. /\ CameraIds \in Seq(Nat) /\ MaxEnds \in Seq(Nat)
          /\ Len(MaxEnds) = Len(CameraIds)
      BY FocusTaskAssumption DEF FocusTaskAssumption
    <2> QED
      BY ONLY <2>1
  <1>2. End = UNION Parts
    BY <1>1 DEF End
  <1>3. IsFiniteSet(Parts)
    <2>1. f \in Surjection(Indices, Parts)
      BY DEF Surjection
    <2>2. IsFiniteSet(Indices)
      BY <1>1, FS_Interval
    <2> QED
      BY <2>1, <2>2, FS_Surjection
  <1>4. ASSUME NEW T \in Parts
        PROVE  IsFiniteSet(T) /\ T \subseteq Nat \X Nat
    <2>1. PICK i \in Indices : T = {CameraIds[i]} \X (1 .. MaxEnds[i])
      OBVIOUS
    <2>2. IsFiniteSet({CameraIds[i]}) /\ IsFiniteSet(1 .. MaxEnds[i])
      <3>1. IsFiniteSet({CameraIds[i]})
        BY ONLY FS_Singleton
      <3>2. 1 \in Int /\ MaxEnds[i] \in Int
        BY <1>1
      <3> QED
        BY ONLY <3>1, <3>2, FS_Interval
    <2>3. T \subseteq Nat \X Nat
      BY <1>1, <2>1
    <2> QED
      BY <2>1, <2>2, <2>3, FS_Product
  <1> HIDE DEF Parts
  <1> QED
    BY <1>2, <1>3, <1>4, FS_UNION

\* The fiber ends of the cameras before the camera.
Before(located, camera) ==
  {e \in End : e[1] < camera /\ e[2] <= located[e[1]]}

\* get_start_index counts the ends of the cameras before.
LEMMA StartIsNat ==
  ASSUME NEW located, NEW camera \in Nat
  PROVE  /\ IsFiniteSet(Before(located, camera))
         /\ GetStartIndex(located, camera)
              = Cardinality(Before(located, camera))
         /\ GetStartIndex(located, camera) \in Nat
  <1>1. IsFiniteSet(Before(located, camera))
    BY EndIsFinite, FS_Subset DEF Before
  <1>2. Cardinality(Before(located, camera)) \in Nat
    BY <1>1, FS_CardinalityType
  <1> QED
    BY <1>1, <1>2 DEF Before, GetStartIndex

\* With a fiber end a camera has all those before it.
LEMMA EndsBelow ==
  ASSUME NEW c \in Camera, NEW n \in Nat, <<c, n>> \in End
  PROVE  {c} \X (1 .. n) \subseteq End
  <1>1. PICK i \in DOMAIN CameraIds :
          <<c, n>> \in {CameraIds[i]} \X (1 .. MaxEnds[i])
    BY DEF End
  <1>2. CameraIds[i] = c /\ n \in 1 .. MaxEnds[i] /\ MaxEnds[i] \in Nat
    BY <1>1, FocusTaskAssumption DEF FocusTaskAssumption
  <1>3. 1 .. n \subseteq 1 .. MaxEnds[i]
    BY <1>2
  <1>4. {c} \X (1 .. n) \subseteq {CameraIds[i]} \X (1 .. MaxEnds[i])
    BY <1>2, <1>3
  <1> QED
    BY <1>4 DEF End

\* A camera starts where those before it have their ends behind them.
LEMMA StartsApart ==
  ASSUME NEW located \in [Camera -> Nat],
         NEW c \in Camera, NEW d \in Camera, Located(located, c), c < d
  PROVE  GetStartIndex(located, c) + located[c] <= GetStartIndex(located, d)
  <1> DEFINE mine == {c} \X (1 .. located[c])
  <1>1. c \in Nat /\ d \in Nat /\ located[c] \in Nat
    BY TaskConstants
  <1>2. mine \subseteq End
    <2>1. CASE located[c] = 0
      BY <2>1
    <2>2. CASE <<c, located[c]>> \in End
      BY <1>1, <2>2, EndsBelow
    <2> QED
      BY <2>1, <2>2 DEF Located
  <1>3. /\ IsFiniteSet(mine) /\ Cardinality(mine) = located[c]
    <2>1. IsFiniteSet({c}) /\ Cardinality({c}) = 1
      BY FS_Singleton
    <2>2. /\ IsFiniteSet(1 .. located[c])
          /\ Cardinality(1 .. located[c]) = located[c]
      BY <1>1, FS_Interval
    <2>3. IsFiniteSet(mine) /\ Cardinality(mine) = 1 * located[c]
      <3>1. /\ IsFiniteSet(mine)
            /\ Cardinality(mine)
                 = Cardinality({c}) * Cardinality(1 .. located[c])
        BY ONLY <2>1, <2>2, FS_Product, Zenon
      <3> QED
        BY <2>1, <2>2, <3>1
    <2> QED
      BY <1>1, <2>3
  <1>4. mine \cap Before(located, c) = {}
    BY <1>1 DEF Before
  <1>5. mine \cup Before(located, c) \subseteq Before(located, d)
    <2>1. ASSUME NEW e \in mine
          PROVE  e \in Before(located, d)
      BY <1>1, <1>2 DEF Before
    <2>2. ASSUME NEW e \in Before(located, c)
          PROVE  e \in Before(located, d)
      <3>1. e \in End /\ e[1] < c /\ e[2] <= located[e[1]] /\ e[1] \in Nat
        BY EndIsFinite DEF Before
      <3>2. e[1] < d
        BY <1>1, <3>1
      <3> QED
        BY <3>1, <3>2 DEF Before
    <2> QED
      BY <2>1, <2>2
  <1> HIDE DEF mine
  <1>6. /\ IsFiniteSet(Before(located, c)) /\ IsFiniteSet(Before(located, d))
        /\ Cardinality(Before(located, c)) \in Nat
        /\ Cardinality(Before(located, d)) \in Nat
        /\ GetStartIndex(located, c) = Cardinality(Before(located, c))
        /\ GetStartIndex(located, d) = Cardinality(Before(located, d))
    BY <1>1, StartIsNat
  <1>7. Cardinality(mine \cup Before(located, c))
          = located[c] + Cardinality(Before(located, c))
    <2>1. Cardinality(mine \cup Before(located, c)) =
            Cardinality(mine) + Cardinality(Before(located, c))
              - Cardinality(mine \cap Before(located, c))
      BY <1>3, <1>6, FS_Union
    <2>2. Cardinality(mine \cap Before(located, c)) = 0
      BY <1>4, FS_EmptySet
    <2> QED
      BY <1>1, <1>3, <1>6, <2>1, <2>2
  <1>8. Cardinality(mine \cup Before(located, c))
          <= Cardinality(Before(located, d))
    BY <1>5, <1>6, FS_Subset
  <1> QED
    BY <1>1, <1>6, <1>7, <1>8

\* So a region is one camera's.
LEMMA OwnApart ==
  ASSUME NEW located \in [Camera -> Nat],
         \A c \in Camera : Located(located, c),
         NEW c \in Camera, NEW d \in Camera, NEW r,
         r \in Own(located, c), r \in Own(located, d)
  PROVE  c = d
  <1>1. /\ c \in Nat /\ d \in Nat /\ located[c] \in Nat /\ located[d] \in Nat
    BY TaskConstants
  <1>2. GetStartIndex(located, c) \in Nat /\ GetStartIndex(located, d) \in Nat
    BY <1>1, StartIsNat
  <1>3. /\ r \in Int
        /\ r > GetStartIndex(located, c)
        /\ r <= GetStartIndex(located, c) + located[c]
        /\ r > GetStartIndex(located, d)
        /\ r <= GetStartIndex(located, d) + located[d]
    BY <1>1, <1>2 DEF Own
  <1>4. ~(c < d)
    <2> SUFFICES ASSUME c < d PROVE FALSE
      OBVIOUS
    <2>1. GetStartIndex(located, c) + located[c] <= GetStartIndex(located, d)
      BY StartsApart
    <2> QED
      BY <1>1, <1>2, <1>3, <2>1
  <1>5. ~(d < c)
    <2> SUFFICES ASSUME d < c PROVE FALSE
      OBVIOUS
    <2>1. GetStartIndex(located, d) + located[d] <= GetStartIndex(located, c)
      BY StartsApart
    <2> QED
      BY <1>1, <1>2, <1>3, <2>1
  <1> QED
    BY <1>1, <1>4, <1>5

\* The images that a cache keeps are those it had, and the new one.
LEMMA NextCacheKeeps ==
  ASSUME NEW g \in Region, NEW k \in Cache, NEW i \in Image, NEW v \in Nat,
         v = 0 <=> g.done, NEW j \in DOMAIN NextCache(g, k, i, v).images
  PROVE  \/ NextCache(g, k, i, v).images[j] = i
         \/ \E n \in DOMAIN k.images :
              NextCache(g, k, i, v).images[j] = k.images[n]
  <1> DEFINE w == k.images
             u == IF Len(w) >= 2 * CacheSize + 1 THEN Tail(w) ELSE w
             x == NextCache(g, k, i, v).images
  <1>1. /\ w \in Seq(Image) /\ k.count \in Nat
        /\ CacheSize \in Nat /\ CacheSize > 0
    BY TaskConstants DEF Cache
  <1>2. x = w \/ x = Append(u, i)
    <2>1. /\ k.count < CacheSize => x = Added(w, i)
          /\ k.count >= CacheSize => x = w
      BY NextCacheIs
    <2> QED
      BY <1>1, <2>1 DEF Added
  <1>3. /\ u \in Seq(Image)
        /\ \A n \in DOMAIN u : \E p \in DOMAIN w : u[n] = w[p]
    <2>1. CASE Len(w) >= 2 * CacheSize + 1
      <3>1. u = Tail(w) /\ w # <<>>
        BY <1>1, <2>1
      <3> HIDE DEF u, w
      <3>2. /\ Tail(w) \in Seq(Image) /\ DOMAIN Tail(w) = 1 .. Len(w) - 1
            /\ DOMAIN w = 1 .. Len(w) /\ Len(w) \in Nat
            /\ \A n \in 1 .. Len(w) - 1 : Tail(w)[n] = w[n + 1]
        BY ONLY <1>1, <3>1
      <3>3. \A n \in 1 .. Len(w) - 1 : n + 1 \in DOMAIN w
        BY ONLY <3>2
      <3> QED
        BY ONLY <3>1, <3>2, <3>3
    <2>2. CASE ~(Len(w) >= 2 * CacheSize + 1)
      BY <1>1, <2>2
    <2> QED
      BY <2>1, <2>2
  <1> HIDE DEF u, w, x
  <1>4. CASE x = w
    BY <1>4 DEF x, w
  <1>5. CASE x = Append(u, i)
    <2>1. j \in DOMAIN Append(u, i)
      BY <1>5 DEF x
    <2>2. Append(u, i)[j] = i \/ (j \in DOMAIN u /\ Append(u, i)[j] = u[j])
      BY ONLY <1>3, <2>1
    <2> QED
      BY <1>3, <1>5, <2>2 DEF x, w
  <1> QED
    BY <1>2, <1>4, <1>5

\* One image more for the regions of its camera.
LEMMA EvaluateKeeps ==
  ASSUME NEW located \in [Camera -> Nat],
         \A c \in Camera : Located(located, c),
         NEW camera \in Camera, processed \in Nat,
         NEW rs, NEW cs, NEW history, RegionsHold(located, rs, cs, history),
         Evaluate(camera, located, rs, cs, history)
  PROVE  /\ RegionsHold(located, regions', caches', seen')
         /\ finished' => CacheFinished(caches')
  <1> DEFINE image == [camera |-> camera, number |-> processed + 1]
             own == Own(located, camera)
  <1>1. image \in Image /\ image.camera = camera
    BY DEF Image
  <1>2. PICK value \in [own -> Clarity \cup {0}] :
          /\ \A r \in own : value[r] = 0 <=> rs[r].done
          /\ regions' = [r \in DOMAIN rs |-> IF r \in own
               THEN NextRegion(rs[r], image, value[r]) ELSE rs[r]]
          /\ caches' = [r \in DOMAIN cs |-> IF r \in own
               THEN NextCache(rs[r], cs[r], image, value[r]) ELSE cs[r]]
          /\ seen' = [r \in DOMAIN history |-> IF r \in own
               THEN Append(history[r], [image |-> image, value |-> value[r]])
               ELSE history[r]]
          /\ finished' = CacheFinished(caches')
    BY DEF Evaluate, Own
  <1> HIDE DEF image, own
  <1>3. /\ DOMAIN cs = DOMAIN rs /\ DOMAIN history = DOMAIN rs
        /\ DOMAIN regions' = DOMAIN rs
        /\ DOMAIN caches' = DOMAIN rs /\ DOMAIN seen' = DOMAIN rs
    BY <1>2 DEF RegionsHold
  <1>4. ASSUME NEW r \in DOMAIN rs
        PROVE  /\ Follows(regions'[r], caches'[r], seen'[r])
               /\ OneCamera(located, caches'[r], r)
    <2>1. /\ Follows(rs[r], cs[r], history[r])
          /\ OneCamera(located, cs[r], r)
      BY DEF RegionsHold
    <2>2. CASE r \notin own
      BY <1>2, <1>3, <2>1, <2>2
    <2>3. CASE r \in own
      <3> DEFINE v == value[r]
                 g == rs[r]
                 k == cs[r]
                 h == NextRegion(g, image, v)
                 x == NextCache(g, k, image, v)
      <3>1. v \in Nat /\ (v = 0 <=> g.done)
        <4>1. value[r] \in Clarity \cup {0} /\ (value[r] = 0 <=> rs[r].done)
          BY <1>2, <2>3
        <4>2. \A y \in Clarity \cup {0} : y \in Nat
          BY TaskConstants
        <4>3. value[r] \in Nat
          BY ONLY <4>1, <4>2
        <4> QED
          BY <4>1, <4>3
      <3>2. /\ regions'[r] = h /\ caches'[r] = x
            /\ seen'[r] = Append(history[r], [image |-> image, value |-> v])
        BY <1>2, <1>3, <2>3
      <3>3. g \in Region /\ k \in Cache
        BY <2>1 DEF Follows
      <3> HIDE DEF v, g, k
      <3>4. Follows(h, x, Append(history[r], [image |-> image, value |-> v]))
        <4>1. Follows(g, k, history[r])
          BY <2>1 DEF g, k
        <4> QED
          BY <1>1, <3>1, <4>1, RegionFollows
      <3>5. OneCamera(located, x, r)
        <4>1. PICK c \in Camera :
                /\ \A i \in DOMAIN k.images : k.images[i].camera = c
                /\ k.images # <<>> => r \in Own(located, c)
          BY <2>1 DEF OneCamera, k
        <4>2. k.images # <<>> => c = camera
          BY <2>3, <4>1, OwnApart DEF own
        <4>3. ASSUME NEW j \in DOMAIN x.images
              PROVE  x.images[j].camera = camera
          <5>1. \/ x.images[j] = image
                \/ \E n \in DOMAIN k.images : x.images[j] = k.images[n]
            BY <1>1, <3>1, <3>3, NextCacheKeeps
          <5>2. CASE x.images[j] = image
            BY <1>1, <5>2
          <5>3. CASE \E n \in DOMAIN k.images : x.images[j] = k.images[n]
            <6>1. PICK n \in DOMAIN k.images : x.images[j] = k.images[n]
              BY <5>3
            <6>2. k.images # <<>>
              BY <6>1
            <6> QED
              BY <4>1, <4>2, <6>1, <6>2
          <5> QED
            BY <5>1, <5>2, <5>3
        <4>4. r \in Own(located, camera)
          BY <2>3 DEF own
        <4> HIDE DEF x
        <4> QED
          BY <4>3, <4>4 DEF OneCamera
      <3> QED
        BY <3>2, <3>4, <3>5
    <2> QED
      BY <2>2, <2>3
  <1>5. finished' => CacheFinished(caches')
    BY <1>2
  <1> QED
    BY <1>3, <1>4, <1>5 DEF RegionsHold

\* The regions of a pass begin with nothing.
LEMMA NewRegionsHold ==
  ASSUME NEW located, Camera # {}, NEW n \in Nat
  PROVE  RegionsHold(located, [r \in 1 .. n |-> NewRegion],
                     [r \in 1 .. n |-> NewCache], [r \in 1 .. n |-> <<>>])
  <1>1. /\ NewRegion \in Region /\ NewCache \in Cache
        /\ NewCache.images = <<>> /\ <<>> \in Seq(Shot)
    BY DEF Region, Cache, NewRegion, NewCache
  <1>2. Follows(NewRegion, NewCache, <<>>)
    BY <1>1 DEF Follows
  <1>3. \A r : OneCamera(located, NewCache, r)
    BY <1>1 DEF OneCamera
  <1> HIDE DEF NewRegion, NewCache
  <1> QED
    BY <1>2, <1>3 DEF RegionsHold

-----------------------------------------------------------------------------
(* The steps of the task.                                                  *)

LEMMA TaskStarts ==
  TaskInit => TaskInv
  <1> SUFFICES ASSUME TaskInit PROVE TaskInv
    OBVIOUS
  <1>1. ~Ready
    BY DEF TaskInit, Ready, AllLocated
  <1> QED
    BY <1>1 DEF TaskInit, TaskInv, Located

\* reset_auto_focus leaves no regions.
LEMMA ResetKeeps ==
  TaskInv /\ ResetAutoFocus => TaskInv'
  <1> SUFFICES ASSUME TaskInv, ResetAutoFocus
               PROVE  TaskInv'
    OBVIOUS
  <1>1. /\ ends' = [c \in Camera |-> 0]
        /\ positionFail' = [c \in Camera |-> FALSE]
        /\ detectFail' = FALSE /\ regions' = <<>> /\ finished' = FALSE
        /\ processed' = processed
    BY DEF ResetAutoFocus, ClearPass
  <1>2. ~Ready'
    BY <1>1 DEF Ready, AllLocated
  <1> QED
    BY <1>1, <1>2 DEF TaskInv, Located

\* A camera fails before there are regions.
LEMMA DetectFailsKeeps ==
  ASSUME TaskInv, NEW camera \in Camera, DetectFails(camera)
  PROVE  TaskInv'
  <1>1. /\ UNCHANGED <<ends, regions, caches, finished, seen>>
        /\ ends[camera] = 0 /\ processed' = processed + 1
        /\ positionFail' = [positionFail EXCEPT ![camera] = TRUE]
        /\ detectFail' = \A c \in Camera : positionFail'[c]
    BY DEF DetectFails, Takes
  <1>2. Ready' = Ready
    BY <1>1 DEF Ready, AllLocated
  <1>3. \A c \in Camera : Located(ends, c)' <=> Located(ends, c)
    BY <1>1 DEF Located
  <1>4. positionFail' \in [Camera -> BOOLEAN]
    BY <1>1 DEF TaskInv
  <1>5. \A c \in Camera : positionFail'[c] => ends'[c] = 0
    BY <1>1 DEF TaskInv
  <1>6. detectFail' => \A c \in Camera : positionFail'[c]
    BY <1>1
  <1>7. processed' \in Nat
    BY <1>1 DEF TaskInv
  <1>8. /\ Ready' => RegionsHold(ends, regions, caches, seen)'
        /\ ~Ready' => regions' = <<>> /\ ~finished'
        /\ finished' => CacheFinished(caches)'
    BY <1>1, <1>2 DEF TaskInv
  <1> QED
    BY <1>1, <1>3, <1>4, <1>5, <1>6, <1>7, <1>8 DEF TaskInv

\* The last camera's fiber ends set the regions up, and the image that they
\* are in is the first for those of its camera.
LEMMA DetectKeeps ==
  ASSUME TaskInv, NEW camera \in Camera, Detect(camera)
  PROVE  TaskInv'
  <1>1. /\ UNCHANGED <<positionFail, detectFail>>
        /\ ends[camera] = 0 /\ ~positionFail[camera] /\ ~detectFail
        /\ processed' = processed + 1 /\ ~finished
    BY DEF Detect, Takes
  <1>2. PICK n \in {0} \cup {e[2] : e \in {e \in End : e[1] = camera}} :
          /\ ends' = [ends EXCEPT ![camera] = n]
          /\ IF AllLocated(ends')
             THEN LET region == 1 .. Total(ends') IN
                  Evaluate(camera, ends', [r \in region |-> NewRegion],
                           [r \in region |-> NewCache],
                           [r \in region |-> <<>>])
             ELSE UNCHANGED <<regions, caches, finished, seen>>
    BY DEF Detect
  <1>3. n \in Nat /\ (n = 0 \/ <<camera, n>> \in End)
    BY <1>2, EndIsFinite
  <1>4. /\ ends' \in [Camera -> Nat]
        /\ \A c \in Camera : Located(ends', c)
    BY <1>2, <1>3 DEF TaskInv, Located
  <1>5. \A c \in Camera : positionFail'[c] => ends'[c] = 0
    BY <1>1, <1>2 DEF TaskInv
  <1>6. ~Ready /\ regions = <<>>
    <2>1. ~Ready
      BY <1>1 DEF Ready, AllLocated
    <2> QED
      BY <2>1 DEF TaskInv
  <1>7. processed \in Nat /\ processed' \in Nat
    BY <1>1 DEF TaskInv
  <1>8. CASE AllLocated(ends')
    <2> DEFINE region == 1 .. Total(ends')
               rs == [r \in region |-> NewRegion]
               cs == [r \in region |-> NewCache]
               history == [r \in region |-> <<>>]
    <2>1. Evaluate(camera, ends', rs, cs, history)
      BY <1>2, <1>8
    <2>2. Total(ends') \in Nat
      <3>1. IsFiniteSet({e \in End : e[2] <= ends'[e[1]]})
        BY EndIsFinite, FS_Subset
      <3> QED
        BY <3>1, FS_CardinalityType DEF Total
    <2>3. RegionsHold(ends', rs, cs, history)
      BY <2>2, NewRegionsHold
    <2> HIDE DEF rs, cs, history
    <2>4. /\ RegionsHold(ends', regions', caches', seen')
          /\ finished' => CacheFinished(caches')
      BY <1>4, <1>7, <2>1, <2>3, EvaluateKeeps
    <2>5. Ready'
      BY <1>8 DEF Ready
    <2> QED
      BY <1>1, <1>4, <1>5, <1>7, <2>4, <2>5 DEF TaskInv
  <1>9. CASE ~AllLocated(ends')
    <2>1. UNCHANGED <<regions, caches, finished, seen>>
      BY <1>2, <1>9
    <2>2. ~Ready'
      BY <1>9 DEF Ready
    <2> QED
      BY <1>1, <1>4, <1>5, <1>6, <1>7, <2>1, <2>2 DEF TaskInv
  <1> QED
    BY <1>8, <1>9

\* Each image after that is the next for the regions of its camera.
LEMMA FocusKeeps ==
  ASSUME TaskInv, NEW camera \in Camera, Focus(camera)
  PROVE  TaskInv'
  <1>1. /\ UNCHANGED <<ends, positionFail, detectFail>>
        /\ AllLocated(ends) /\ processed' = processed + 1
        /\ Evaluate(camera, ends, regions, caches, seen)
    BY DEF Focus, Takes
  <1>2. Ready /\ Ready'
    BY <1>1 DEF Ready, AllLocated
  <1>3. /\ ends \in [Camera -> Nat] /\ \A c \in Camera : Located(ends, c)
        /\ processed \in Nat /\ RegionsHold(ends, regions, caches, seen)
    BY <1>2 DEF TaskInv
  <1>4. /\ RegionsHold(ends, regions', caches', seen')
        /\ finished' => CacheFinished(caches')
    BY <1>1, <1>3, EvaluateKeeps
  <1>5. RegionsHold(ends, regions, caches, seen)'
    BY <1>1, <1>4
  <1>6. /\ ends' \in [Camera -> Nat] /\ \A c \in Camera : Located(ends, c)'
        /\ processed' \in Nat
    BY <1>1, <1>3 DEF Located
  <1> QED
    BY <1>1, <1>2, <1>4, <1>5, <1>6 DEF TaskInv

\* Every step keeps the invariant.
LEMMA TaskStep ==
  TaskInv /\ [TaskNext]_taskVars => TaskInv'
  <1> SUFFICES ASSUME TaskInv, [TaskNext]_taskVars
               PROVE  TaskInv'
    OBVIOUS
  <1>1. CASE ResetAutoFocus
    BY <1>1, ResetKeeps
  <1>2. ASSUME NEW camera \in Camera, DetectFails(camera)
        PROVE  TaskInv'
    BY <1>2, DetectFailsKeeps
  <1>3. ASSUME NEW camera \in Camera, Detect(camera)
        PROVE  TaskInv'
    BY <1>3, DetectKeeps
  <1>4. ASSUME NEW camera \in Camera, Focus(camera)
        PROVE  TaskInv'
    BY <1>4, FocusKeeps
  <1>5. CASE UNCHANGED taskVars
    <2>1. UNCHANGED <<ends, positionFail, detectFail, regions, finished, seen,
                      caches, processed, passes>>
      BY <1>5 DEF taskVars, passVars
    <2>2. Ready' = Ready
      BY <2>1 DEF Ready, AllLocated
    <2> QED
      BY <2>1, <2>2 DEF TaskInv, Located
  <1> QED
    BY <1>1, <1>2, <1>3, <1>4, <1>5 DEF TaskNext, TaskRest

\* In every state each region and its cache are what the images of one
\* camera make of them.
THEOREM TaskHolds == TaskSpec => []TaskInv
  BY TaskStarts, TaskStep, PTL DEF TaskSpec

-----------------------------------------------------------------------------
(* What follows of every state with TaskInv.                               *)

\* The region's sharpest image is the last maximum, as the reference says.
LEMMA SharpestFound ==
  ASSUME TaskInv, NEW r \in DOMAIN regions, seen[r] # <<>>
  PROVE  /\ Ready /\ Sharpest(r) \in DOMAIN seen[r]
         /\ SharpestIs(regions[r], caches[r], seen[r], Sharpest(r))
  <1>1. Ready
    BY DEF TaskInv
  <1>2. Follows(regions[r], caches[r], seen[r])
    BY <1>1 DEF TaskInv, RegionsHold
  <1>3. PICK m \in DOMAIN seen[r] :
          SharpestIs(regions[r], caches[r], seen[r], m)
    BY <1>2 DEF Follows
  <1>4. /\ m \in MaximaOf(seen[r]) /\ \A k \in MaximaOf(seen[r]) : k <= m
        /\ MaximaOf(seen[r]) \subseteq Nat
    <2>1. seen[r] \in Seq(Shot)
      BY <1>2 DEF Follows
    <2>2. DOMAIN seen[r] \subseteq Nat
      BY <2>1
    <2> QED
      BY <1>3, <2>2 DEF SharpestIs, MaximaOf
  <1>5. Maxima(r) = MaximaOf(seen[r])
    BY DEF Maxima, MaximaOf, Value
  <1>6. Sharpest(r) = m
    BY <1>4, <1>5 DEF Sharpest, Max
  <1> QED
    BY <1>1, <1>3, <1>6

\* The cache is then around the sharpest image,
LEMMA WindowFollows ==
  TaskInv => WindowAroundFocus
  <1> SUFFICES ASSUME TaskInv, NEW r \in DOMAIN regions, seen[r] # <<>>
               PROVE  /\ regions[r].focus = seen[r][Sharpest(r)].image
                      /\ \/ LateMaximum(r)
                         \/ caches[r].images = Window(r, Sharpest(r))
    BY DEF WindowAroundFocus
  <1>1. SharpestIs(regions[r], caches[r], seen[r], Sharpest(r))
    BY SharpestFound
  <1>2. Maxima(r) = MaximaOf(seen[r])
    BY DEF Maxima, MaximaOf, Value
  <1>3. LateIn(seen[r]) => LateMaximum(r)
    BY <1>2 DEF LateMaximum, LateIn
  <1>4. UpTo(seen[r], LastOf(seen[r], Sharpest(r))) = Window(r, Sharpest(r))
    BY DEF UpTo, FirstOf, LastOf, Window
  <1> QED
    BY <1>1, <1>3, <1>4 DEF SharpestIs

\* A cache is not closed before it has an image.
LEMMA ClosedIsSeen ==
  ASSUME TaskInv, finished, NEW r \in DOMAIN regions
  PROVE  seen[r] # <<>> /\ caches[r].count >= CacheSize
  <1>1. Ready
    BY DEF TaskInv
  <1>2. Follows(regions[r], caches[r], seen[r]) /\ r \in DOMAIN caches
    BY <1>1 DEF TaskInv, RegionsHold
  <1>3. caches[r].count >= CacheSize
    BY <1>2 DEF TaskInv, CacheFinished
  <1>4. seen[r] = <<>> => caches[r].count = 0
    BY <1>2 DEF Follows, NewCache
  <1> QED
    BY <1>3, <1>4, TaskConstants

\* which is m_cache_size images back when the pass has succeeded,
LEMMA FinishedFollows ==
  TaskInv => FinishedMeansPast
  <1> SUFFICES ASSUME TaskInv, finished
               PROVE  /\ AllLocated(ends)
                      /\ \A r \in DOMAIN regions :
                           Len(seen[r]) >= Sharpest(r) + CacheSize
    BY DEF FinishedMeansPast
  <1>1. Ready
    BY DEF TaskInv
  <1>2. ASSUME NEW r \in DOMAIN regions
        PROVE  Len(seen[r]) >= Sharpest(r) + CacheSize
    <2> DEFINE m == Sharpest(r)
               n == Len(seen[r])
    <2>1. /\ caches[r].count >= CacheSize
          /\ m \in DOMAIN seen[r]
          /\ SharpestIs(regions[r], caches[r], seen[r], m)
      BY ClosedIsSeen, SharpestFound
    <2>2. caches[r].count = LastOf(seen[r], m) - m
      BY <2>1 DEF SharpestIs
    <2>3. n \in Nat /\ m \in 1 .. n
      <3>1. seen[r] \in Seq(Shot)
        BY <1>1 DEF TaskInv, RegionsHold, Follows
      <3> HIDE DEF m
      <3> QED
        BY <2>1, <3>1
    <2> HIDE DEF m
    <2>4. ~(m + CacheSize <= n) => LastOf(seen[r], m) = n
      BY DEF LastOf
    <2> QED
      BY <2>1, <2>2, <2>3, <2>4, TaskConstants DEF m
  <1> QED
    BY <1>1, <1>2 DEF Ready

\* there are no regions beside a failed camera,
LEMMA FailureFollows ==
  TaskInv => OneFailureIsAll
  <1> SUFFICES ASSUME TaskInv
               PROVE  OneFailureIsAll
    OBVIOUS
  <1>1. detectFail => \A c \in Camera : positionFail[c] /\ ends[c] = 0
    BY DEF TaskInv
  <1>2. ASSUME NEW c \in Camera, positionFail[c]
        PROVE  regions = <<>> /\ ~finished
    <2>1. ~Ready
      BY <1>2 DEF TaskInv, Ready, AllLocated
    <2> QED
      BY <2>1 DEF TaskInv
  <1> QED
    BY <1>1, <1>2 DEF OneFailureIsAll

\* and no cache has images of two.
LEMMA ApartFollows ==
  TaskInv => RegionsApart
  <1> SUFFICES ASSUME TaskInv
               PROVE  RegionsApart
    OBVIOUS
  <1>1. ASSUME NEW r \in DOMAIN regions, NEW i \in DOMAIN caches[r].images
        PROVE  caches[r].images[i].camera = caches[r].images[1].camera
    <2>1. Ready
      BY <1>1 DEF TaskInv
    <2>2. /\ Follows(regions[r], caches[r], seen[r])
          /\ OneCamera(ends, caches[r], r)
      BY <2>1 DEF TaskInv, RegionsHold
    <2>3. caches[r].images \in Seq(Image)
      BY <2>2 DEF Follows, Cache
    <2>4. 1 \in DOMAIN caches[r].images
      BY <1>1, <2>3
    <2> QED
      BY <1>1, <2>2, <2>4 DEF OneCamera
  <1>2. ASSUME finished, NEW r \in DOMAIN regions
        PROVE  caches[r].images # <<>>
    BY <1>2, ClosedIsSeen, SharpestFound DEF SharpestIs
  <1> QED
    BY <1>1, <1>2 DEF RegionsApart

(* Whatever the images, the focus of each region is the sharpest it has    *)
(* seen, and its cache, unless a sharper one came when it was closed, is   *)
(* the window of images around it: st_cache_image drops neither too many   *)
(* nor too few.                                                            *)
THEOREM WindowIsRight == TaskSpec => []WindowAroundFocus
  BY TaskHolds, WindowFollows, PTL

(* A pass succeeds only when each region's sharpest image is m_cache_size  *)
(* images back.                                                            *)
THEOREM SuccessIsPast == TaskSpec => []FinishedMeansPast
  BY TaskHolds, FinishedFollows, PTL

(* A pass fails only when every camera has failed, and one that has failed *)
(* keeps the others from ever having regions.                              *)
THEOREM FailureIsShared == TaskSpec => []OneFailureIsAll
  BY TaskHolds, FailureFollows, PTL

(* However many fiber ends each camera has, get_start_index gives the      *)
(* cameras ranges of the regions that do not overlap.                      *)
THEOREM CamerasApart == TaskSpec => []RegionsApart
  BY TaskHolds, ApartFollows, PTL
=============================================================================
