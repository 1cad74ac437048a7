----------------------------- MODULE WorkThread -----------------------------
(***************************************************************************)
(* thread_base (work_threads.cpp), the base class of the worker threads:   *)
(* a task queue under a mutex and a wait condition.  The owner (the main   *)
(* thread) calls add_task any number of times and finally the destructor,  *)
(* which stops the thread and waits for it to end.                         *)
(*                                                                         *)
(* Each access to m_task_queue or m_running is a step made under m_mutex;  *)
(* waiting releases the mutex, and waking takes it again.                  *)
(***************************************************************************)
EXTENDS Naturals, Sequences

CONSTANT MaxTasks   \* bound: calls of add_task

ASSUME WorkThreadAssumption == MaxTasks \in Nat

VARIABLES
  queue,      \* m_task_queue; tasks are numbered in the order of add_task
  running,    \* m_running
  mutex,      \* who holds m_mutex
  signalled,  \* the worker has been woken from m_wait_condition
  owner,      \* where the owner is
  worker,     \* where run() is
  task,       \* task_data, 0 while it is empty
  added       \* calls of add_task so far

vars == <<queue, running, mutex, signalled, owner, worker, task, added>>

Init ==
  /\ queue = <<>>
  /\ running = TRUE
  /\ mutex = "free"
  /\ signalled = FALSE
  /\ owner = "free"
  /\ worker = "top"
  /\ task = 0
  /\ added = 0

-----------------------------------------------------------------------------
(* The owner.                                                              *)

AddLock ==
  /\ owner = "free" /\ mutex = "free"
  /\ added < MaxTasks
  /\ mutex' = "owner"
  /\ owner' = "add"
  /\ UNCHANGED <<queue, running, signalled, worker, task, added>>

AddEnqueue ==
  /\ owner = "add"
  /\ added' = added + 1
  /\ queue' = Append(queue, added + 1)
  /\ owner' = "wake"
  /\ UNCHANGED <<running, mutex, signalled, worker, task>>

\* Mutant: the first of several tasks wakes nobody.
WakesOnSecond ==
  signalled' = (signalled \/ (worker = "waiting" /\ Len(queue) > 1))

\* wakeOne or wakeAll: the worker is the only thread that ever waits.
Wakes == signalled' = (signalled \/ worker = "waiting")

\* Wake the worker and, leaving the scope of the locker, release the mutex.
AddWake ==
  /\ owner = "wake"
  /\ Wakes
  /\ mutex' = "free"
  /\ owner' = "free"
  /\ UNCHANGED <<queue, running, worker, task, added>>

\* Mutant: stop() does not wake the worker.
StopQuietly ==
  /\ owner = "free" /\ mutex = "free"
  /\ running' = FALSE
  /\ owner' = "join"
  /\ UNCHANGED <<queue, mutex, signalled, worker, task, added>>

\* ~thread_base: stop(), then wait().
DestructorStop ==
  /\ owner = "free" /\ mutex = "free"
  /\ running' = FALSE
  /\ Wakes
  /\ owner' = "join"
  /\ UNCHANGED <<queue, mutex, worker, task, added>>

DestructorJoin ==
  /\ owner = "join"
  /\ worker = "exited"
  /\ owner' = "gone"
  /\ UNCHANGED <<queue, running, mutex, signalled, worker, task, added>>

-----------------------------------------------------------------------------
(* run().                                                                  *)

Lock ==
  /\ worker = "top" /\ mutex = "free"
  /\ mutex' = "worker"
  /\ worker' = "locked"
  /\ UNCHANGED <<queue, running, signalled, owner, task, added>>

Break ==
  /\ worker = "locked"
  /\ ~running /\ queue = <<>>
  /\ worker' = "exited"
  /\ mutex' = "free"
  /\ UNCHANGED <<queue, running, signalled, owner, task, added>>

Wait ==
  /\ worker = "locked"
  /\ running /\ queue = <<>>
  /\ worker' = "waiting"
  /\ mutex' = "free"
  /\ UNCHANGED <<queue, running, signalled, owner, task, added>>

\* A wait condition may also wake up without having been signalled.
SpuriousWakeup ==
  /\ worker = "waiting" /\ ~signalled
  /\ signalled' = TRUE
  /\ UNCHANGED <<queue, running, mutex, owner, worker, task, added>>

WakeUp ==
  /\ worker = "waiting" /\ signalled
  /\ mutex = "free"
  /\ mutex' = "worker"
  /\ signalled' = FALSE
  /\ worker' = "woken"
  /\ UNCHANGED <<queue, running, owner, task, added>>

\* Mutant: the newest task is taken first.
DequeueLast ==
  /\ worker \in {"locked", "woken"}
  /\ queue # <<>>
  /\ task' = queue[Len(queue)]
  /\ queue' = SubSeq(queue, 1, Len(queue) - 1)
  /\ worker' = "process"
  /\ mutex' = "free"
  /\ UNCHANGED <<running, signalled, owner, added>>

Dequeue ==
  /\ worker \in {"locked", "woken"}
  /\ queue # <<>>
  /\ task' = Head(queue)
  /\ queue' = Tail(queue)
  /\ worker' = "process"
  /\ mutex' = "free"
  /\ UNCHANGED <<running, signalled, owner, added>>

\* The queue is empty after the wait: continue.
Continue ==
  /\ worker = "woken"
  /\ queue = <<>>
  /\ worker' = "top"
  /\ mutex' = "free"
  /\ UNCHANGED <<queue, running, signalled, owner, task, added>>

ProcessTask ==
  /\ worker = "process"
  /\ task' = 0
  /\ worker' = "top"
  /\ UNCHANGED <<queue, running, mutex, signalled, owner, added>>

-----------------------------------------------------------------------------
Owner  == AddLock \/ AddEnqueue \/ AddWake \/ DestructorStop \/ DestructorJoin
Worker == Lock \/ Break \/ Wait \/ WakeUp \/ Dequeue \/ Continue \/ ProcessTask
Ended  == owner = "gone" /\ UNCHANGED vars

Next == Owner \/ Worker \/ SpuriousWakeup \/ Ended

\* Both threads keep running, but the owner need not call anything.
Fairness ==
  /\ WF_vars(Worker)
  /\ WF_vars(AddEnqueue \/ AddWake \/ DestructorJoin)

Spec     == Init /\ [][Next]_vars
FairSpec == Spec /\ Fairness

-----------------------------------------------------------------------------
TypeOK ==
  /\ queue \in Seq(1 .. MaxTasks)
  /\ running \in BOOLEAN /\ signalled \in BOOLEAN
  /\ mutex \in {"free", "owner", "worker"}
  /\ owner \in {"free", "add", "wake", "join", "gone"}
  /\ worker \in {"top", "locked", "waiting", "woken", "process", "exited"}
  /\ task \in 0 .. MaxTasks
  /\ added \in 0 .. MaxTasks

(* The mutex is held by the thread whose program counter says so,          *)
(* task_data is set exactly while it is processed, and a thread that has   *)
(* ended was stopped and left nothing behind.                              *)
Locking ==
  /\ mutex = "owner" <=> owner \in {"add", "wake"}
  /\ mutex = "worker" <=> worker \in {"locked", "woken"}
  /\ task # 0 <=> worker = "process"
  /\ running <=> owner \in {"free", "add", "wake"}
  /\ owner = "add" => added < MaxTasks
  /\ worker = "exited" => ~running /\ queue = <<>>

(* No wakeup is lost: a worker that waits without having been signalled    *)
(* has nothing to do and has not been stopped, unless the owner is just    *)
(* about to wake it.                                                       *)
NoLostWakeup ==
  worker = "waiting" /\ ~signalled =>
    \/ running /\ queue = <<>>
    \/ owner = "wake"

(* The thread keeps the promise of TaskQueue: tasks are executed once each *)
(* and in order, and what was queued before stop() is executed before the  *)
(* thread ends.                                                            *)
Promise == INSTANCE TaskQueue
             WITH count   <- added,
                  pending <- queue,
                  working <- task,
                  stopped <- ~running,
                  ended   <- worker = "exited"

KeepsPromise == Promise!QSpec

(* A queued task is executed at last, even if the thread is stopped before *)
(* its turn; and the destructor, which waits for that, returns.            *)
WorkEnds ==
  /\ \A t \in 1 .. MaxTasks :
       (\E k \in DOMAIN queue : queue[k] = t) ~> task = t
  /\ owner = "join" ~> owner = "gone"
=============================================================================
