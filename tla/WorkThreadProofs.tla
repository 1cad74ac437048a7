-------------------------- MODULE WorkThreadProofs --------------------------
(***************************************************************************)
(* Theorems about WorkThread, for any number of tasks.                     *)
(***************************************************************************)
EXTENDS WorkThread, TLAPS

Inv == TypeOK /\ Locking

\* The thread starts with the invariants.
LEMMA InitInv == Init => Inv /\ NoLostWakeup
<1> SUFFICES ASSUME Init PROVE Inv /\ NoLostWakeup
    OBVIOUS
<1> USE DEF Init
<1>1. TypeOK
  <2>1. 0 \in 0 .. MaxTasks
    BY WorkThreadAssumption
  <2>2. queue \in Seq(1 .. MaxTasks)
    OBVIOUS
  <2> QED BY <2>1, <2>2 DEF TypeOK
<1>2. Locking
  BY DEF Locking
<1>3. NoLostWakeup
  BY DEF NoLostWakeup
<1> QED BY <1>1, <1>2, <1>3 DEF Inv

\* Every step keeps the first,
LEMMA StepInv == Inv /\ [Next]_vars => Inv'
<1> SUFFICES ASSUME Inv, [Next]_vars PROVE Inv'
    OBVIOUS
<1> USE WorkThreadAssumption DEF Inv, TypeOK, Locking
<1>1. CASE AddLock
  BY <1>1 DEF AddLock
<1>2. CASE AddEnqueue
  <2>1. added + 1 \in 1 .. MaxTasks
    BY <1>2 DEF AddEnqueue
  <2>2. queue' \in Seq(1 .. MaxTasks)
    BY <1>2, <2>1 DEF AddEnqueue
  <2> QED BY <1>2, <2>1, <2>2 DEF AddEnqueue
<1>3. CASE AddWake
  BY <1>3 DEF AddWake, Wakes
<1>4. CASE DestructorStop
  BY <1>4 DEF DestructorStop, Wakes
<1>5. CASE DestructorJoin
  BY <1>5 DEF DestructorJoin
<1>6. CASE Lock \/ Break \/ Wait
  <2>1. CASE Lock
    BY <2>1 DEF Lock
  <2>2. CASE Break
    BY <2>2 DEF Break
  <2>3. CASE Wait
    BY <2>3 DEF Wait
  <2> QED BY <1>6, <2>1, <2>2, <2>3
<1>7. CASE WakeUp \/ Continue \/ SpuriousWakeup
  <2>1. CASE WakeUp
    BY <2>1 DEF WakeUp
  <2>2. CASE Continue
    BY <2>2 DEF Continue
  <2>3. CASE SpuriousWakeup
    BY <2>3 DEF SpuriousWakeup
  <2> QED BY <1>7, <2>1, <2>2, <2>3
<1>8. CASE Dequeue
  <2>1. Head(queue) \in 1 .. MaxTasks /\ Tail(queue) \in Seq(1 .. MaxTasks)
    BY <1>8 DEF Dequeue
  <2> QED BY <1>8, <2>1 DEF Dequeue
<1>9. CASE ProcessTask
  BY <1>9 DEF ProcessTask
<1>10. CASE Ended \/ UNCHANGED vars
  BY <1>10 DEF Ended, vars
<1> QED
  BY <1>1, <1>2, <1>3, <1>4, <1>5, <1>6, <1>7, <1>8, <1>9, <1>10
  DEF Next, Owner, Worker

(* The queue, the flags and the counters keep to their types, and the      *)
(* mutex is held exactly by the thread that is in a critical section.      *)
THEOREM MutexDiscipline == Spec => [](TypeOK /\ Locking)
BY InitInv, StepInv, PTL DEF Spec, Inv

\* and the second, given the first.
LEMMA StepWakeup == Inv /\ NoLostWakeup /\ [Next]_vars => NoLostWakeup'
<1> SUFFICES ASSUME Inv, NoLostWakeup, [Next]_vars PROVE NoLostWakeup'
    OBVIOUS
<1> USE DEF Inv, TypeOK, Locking, NoLostWakeup
<1>1. CASE AddLock \/ AddEnqueue \/ DestructorJoin
  BY <1>1 DEF AddLock, AddEnqueue, DestructorJoin
<1>2. CASE AddWake \/ DestructorStop
  BY <1>2 DEF AddWake, DestructorStop, Wakes
<1>3. CASE Lock \/ Break \/ Wait \/ WakeUp \/ Continue \/ ProcessTask
  BY <1>3 DEF Lock, Break, Wait, WakeUp, Continue, ProcessTask
<1>4. CASE Dequeue \/ SpuriousWakeup
  BY <1>4 DEF Dequeue, SpuriousWakeup
<1>5. CASE Ended \/ UNCHANGED vars
  BY <1>5 DEF Ended, vars
<1> QED BY <1>1, <1>2, <1>3, <1>4, <1>5 DEF Next, Owner, Worker

(* A worker never sleeps on work: it waits without a signal only while     *)
(* there is nothing to do, or while the owner is about to wake it.         *)
THEOREM NoWakeupIsLost == Spec => []NoLostWakeup
BY InitInv, StepInv, StepWakeup, PTL DEF Spec

(* Every step of the thread and its owner is a step of TaskQueue or leaves *)
(* it as it is.                                                            *)
LEMMA StepPromise ==
  Inv /\ [Next]_vars => [Promise!QNext]_(Promise!qvars)
<1> SUFFICES ASSUME Inv, [Next]_vars
             PROVE  Promise!QNext \/ UNCHANGED Promise!qvars
    OBVIOUS
<1> USE DEF Inv, TypeOK, Locking, Promise!qvars, Promise!QNext
<1>1. CASE AddEnqueue
  <2>1. Promise!Add
    BY <1>1 DEF AddEnqueue, Promise!Add
  <2> QED BY <2>1
<1>2. CASE DestructorStop
  <2>1. Promise!Stop
    BY <1>2 DEF DestructorStop, Promise!Stop
  <2> QED BY <2>1
<1>3. CASE Break
  <2>1. Promise!End
    BY <1>3 DEF Break, Promise!End
  <2> QED BY <2>1
<1>4. CASE Dequeue
  <2>1. Promise!Begin
    BY <1>4 DEF Dequeue, Promise!Begin
  <2> QED BY <2>1
<1>5. CASE ProcessTask
  <2>1. Promise!Finish
    BY <1>5 DEF ProcessTask, Promise!Finish
  <2> QED BY <2>1
<1>6. CASE AddLock \/ AddWake \/ DestructorJoin
  BY <1>6 DEF AddLock, AddWake, DestructorJoin
<1>7. CASE Lock \/ Wait \/ WakeUp \/ Continue \/ SpuriousWakeup
  BY <1>7 DEF Lock, Wait, WakeUp, Continue, SpuriousWakeup
<1>8. CASE Ended \/ UNCHANGED vars
  BY <1>8 DEF Ended, vars
<1> QED
  BY <1>1, <1>2, <1>3, <1>4, <1>5, <1>6, <1>7, <1>8 DEF Next, Owner, Worker

(* thread_base implements TaskQueue: tasks are executed one at a time,     *)
(* each once, in order, and those queued before stop() before the thread   *)
(* ends.                                                                   *)
THEOREM ThreadKeepsPromise == Spec => KeepsPromise
<1>1. Init => Promise!QInit
  BY DEF Init, Promise!QInit
<1> QED
  BY <1>1, InitInv, StepInv, StepPromise, PTL
  DEF Spec, KeepsPromise, Promise!QSpec
=============================================================================
