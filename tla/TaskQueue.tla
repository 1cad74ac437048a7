----------------------------- MODULE TaskQueue -----------------------------
(***************************************************************************)
(* What a worker thread of the server promises the thread that owns it:    *)
(* tasks are executed one at a time, each once, in the order in which they *)
(* were added; once stopped, the thread executes what is still pending and *)
(* only then ends.  Tasks are numbered in the order of add_task.           *)
(***************************************************************************)
EXTENDS Naturals, Sequences

VARIABLES
  count,     \* how many tasks have been added
  pending,   \* added and not begun
  working,   \* the task being executed, 0 if none
  stopped,   \* stop() has been called
  ended      \* the thread has ended

qvars == <<count, pending, working, stopped, ended>>

QInit ==
  /\ count = 0
  /\ pending = <<>>
  /\ working = 0
  /\ stopped = FALSE
  /\ ended = FALSE

Add ==
  /\ ~stopped
  /\ count' = count + 1
  /\ pending' = Append(pending, count + 1)
  /\ UNCHANGED <<working, stopped, ended>>

Begin ==
  /\ working = 0 /\ ~ended
  /\ pending # <<>>
  /\ working' = Head(pending)
  /\ pending' = Tail(pending)
  /\ UNCHANGED <<count, stopped, ended>>

Finish ==
  /\ working # 0
  /\ working' = 0
  /\ UNCHANGED <<count, pending, stopped, ended>>

Stop ==
  /\ stopped' = TRUE
  /\ UNCHANGED <<count, pending, working, ended>>

End ==
  /\ stopped /\ working = 0 /\ pending = <<>>
  /\ ended' = TRUE
  /\ UNCHANGED <<count, pending, working, stopped>>

QNext == Add \/ Begin \/ Finish \/ Stop \/ End

QSpec == QInit /\ [][QNext]_qvars
=============================================================================
