---------------------------- MODULE ReplyChannel ----------------------------
(***************************************************************************)
(* What motion_control_port::send_command makes of a serial line on which  *)
(* replies carry nothing that says what they answer.  Commands are         *)
(* numbered 1, 2, ...; a reply is the number of the command it answers,    *)
(* which the caller cannot see.  SerialPort implements this module with a  *)
(* reader thread, a queue and a condition variable; Stage uses it.         *)
(***************************************************************************)
EXTENDS Integers, Sequences

VARIABLES
  up,        \* the port is open
  todo,      \* commands the device has received and not executed
  replies,   \* replies that have not been taken yet
  sent,      \* commands sent so far
  waiting,   \* the caller is in send_command, its command sent
  timeouts,  \* commands that were given up
  last       \* the last command that was answered, and with which reply

channelVars == <<up, todo, replies, sent, waiting, timeouts, last>>

ChannelInit ==
  /\ up \in BOOLEAN
  /\ todo = <<>> /\ replies = <<>>
  /\ sent = 0 /\ waiting = FALSE /\ timeouts = 0
  /\ last = [cmd |-> 0, reply |-> 0]

Connect ==
  /\ ~up /\ sent = 0
  /\ up' = TRUE
  /\ UNCHANGED <<todo, replies, sent, waiting, timeouts, last>>

Send ==
  /\ up /\ ~waiting
  /\ sent' = sent + 1
  /\ todo' = Append(todo, sent + 1)
  /\ waiting' = TRUE
  /\ UNCHANGED <<up, replies, timeouts, last>>

\* The device executes its commands in order and answers each of them.
Execute ==
  /\ todo # <<>>
  /\ replies' = Append(replies, Head(todo))
  /\ todo' = Tail(todo)
  /\ UNCHANGED <<up, sent, waiting, timeouts, last>>

\* Mutant: the caller takes the newest reply and forgets the others.
ReceiveNewest ==
  /\ waiting /\ replies # <<>>
  /\ last' = [cmd |-> sent, reply |-> replies[Len(replies)]]
  /\ replies' = <<>>
  /\ waiting' = FALSE
  /\ UNCHANGED <<up, todo, sent, timeouts>>

Receive ==
  /\ waiting /\ replies # <<>>
  /\ last' = [cmd |-> sent, reply |-> Head(replies)]
  /\ replies' = Tail(replies)
  /\ waiting' = FALSE
  /\ UNCHANGED <<up, todo, sent, timeouts>>

\* The time is over; a reply may still be on its way.
GiveUp ==
  /\ waiting
  /\ timeouts' = timeouts + 1
  /\ waiting' = FALSE
  /\ UNCHANGED <<up, todo, replies, sent, last>>

\* The line fails or is closed: what has not been executed, and the replies
\* that have not come through, are lost.
BreakAfter(k) ==
  /\ up' = FALSE
  /\ todo' = <<>>
  /\ replies' = SubSeq(replies, 1, k)
  /\ UNCHANGED <<sent, waiting, timeouts, last>>

Break == \E k \in 0 .. Len(replies) : BreakAfter(k)

ChannelNext == Connect \/ Send \/ Execute \/ Receive \/ GiveUp \/ Break

ChannelSpec == ChannelInit /\ [][ChannelNext]_channelVars

-----------------------------------------------------------------------------
ChannelTypeOK ==
  /\ up \in BOOLEAN /\ waiting \in BOOLEAN
  /\ todo \in Seq(Nat) /\ replies \in Seq(Nat)
  /\ sent \in Nat /\ timeouts \in Nat
  /\ last \in [cmd : Nat, reply : Nat]

(* What is outstanding is one interval of numbers that begins behind the   *)
(* last reply that was taken and, while the line is up, ends with the last *)
(* command.                                                                *)
Outstanding ==
  /\ \A k \in 1 .. Len(replies) : replies[k] = last.reply + k
  /\ \A k \in 1 .. Len(todo) : todo[k] = last.reply + Len(replies) + k
  /\ last.reply + (Len(replies) + Len(todo)) <= sent
  /\ up => last.reply + (Len(replies) + Len(todo)) = sent

(* Every command is answered, given up, or being waited for: the number of *)
(* replies taken and of timeouts account for all of them.                  *)
Accounting ==
  sent = last.reply + timeouts + (IF waiting THEN 1 ELSE 0)

(* A command takes a reply that is meant for the command as many places    *)
(* before it as there have been timeouts: each timeout shifts all later    *)
(* replies by one, and nothing ever shifts them back.                      *)
ShiftIsTimeouts ==
  [][last' # last => last'.cmd - last'.reply = timeouts]_channelVars
=============================================================================
