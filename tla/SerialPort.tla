----------------------------- MODULE SerialPort -----------------------------
(***************************************************************************)
(* motion_control_port (motion_control_port.cpp): the motion controller    *)
(* behind a serial port.  One thread (the misc thread) sends commands and  *)
(* waits for a reply in send_command; the io thread reads lines, queues    *)
(* the replies and handles the device's own messages.                      *)
(*                                                                         *)
(* A reply carries nothing that says which command it answers.  Here the   *)
(* commands are numbered 1, 2, ..., a line is the number of the command    *)
(* that the device replied to, and Message is a line that begins with      *)
(* "device_".  The device (external) executes the commands in the order in *)
(* which they were written and replies once to each, when it is done.      *)
(***************************************************************************)
EXTENDS Naturals, Sequences

CONSTANTS
  MaxCommands,  \* bound: calls of send_command
  MaxMessages   \* bound: messages the device sends of its own accord

ASSUME SerialPortAssumption == MaxCommands \in Nat /\ MaxMessages \in Nat

Cmd     == 1 .. MaxCommands
None    == 0
Message == MaxCommands + 1
Line    == Cmd \cup {Message}

VARIABLES
  port,      \* m_serial: "closed", "open", or "failed" (the line is dead)
  todo,      \* external: commands the device has received and not executed
  executed,  \* external: how many commands the device has executed
  line,      \* external: lines on their way to the host
  messages,  \* messages the device has sent so far
  reader,    \* where the io thread is
  inHand,    \* the reply handle_async_read was called with
  stopped,   \* the io_context has been stopped
  replies,   \* m_reply_queue
  sender,    \* where the calling thread is
  left,      \* commands the operation has still to send
  notified,  \* the blocked caller has been notified
  sent,      \* commands sent so far
  timeouts,  \* history: how many of them timed out
  last       \* history: the last command that returned true, and its reply

deviceVars == <<todo, executed, line, messages>>
readerVars == <<reader, inHand>>
senderVars == <<sender, left, sent, timeouts, last>>
portVars == <<port, deviceVars, readerVars, stopped, replies, senderVars,
              notified>>

PortInit ==
  /\ port = "closed"
  /\ todo = <<>> /\ executed = 0 /\ line = <<>> /\ messages = 0
  /\ reader = "none" /\ inHand = None
  /\ stopped = FALSE
  /\ replies = <<>>
  /\ sender = "new"
  /\ left = 0
  /\ notified = FALSE
  /\ sent = 0 /\ timeouts = 0
  /\ last = [cmd |-> None, reply |-> None]

-----------------------------------------------------------------------------
(* The device and the line.                                                *)

Execute ==
  /\ port = "open"
  /\ todo # <<>>
  /\ executed' = Head(todo)
  /\ line' = Append(line, Head(todo))
  /\ todo' = Tail(todo)
  /\ UNCHANGED <<port, messages, readerVars, stopped, replies, senderVars,
                 notified>>

SendMessage ==
  /\ port = "open"
  /\ messages < MaxMessages
  /\ messages' = messages + 1
  /\ line' = Append(line, Message)
  /\ UNCHANGED <<port, todo, executed, readerVars, stopped, replies,
                 senderVars, notified>>

\* The cable is pulled, or the device is switched off.  The lines that are in
\* m_async_buffer by now still come through.
Unplug ==
  /\ port = "open"
  /\ port' = "failed"
  /\ \E k \in 0 .. Len(line) : line' = SubSeq(line, 1, k)
  /\ todo' = <<>>
  /\ UNCHANGED <<executed, messages, readerVars, stopped, replies, senderVars,
                 notified>>

-----------------------------------------------------------------------------
(* The calling thread.                                                     *)

SenderAlone == UNCHANGED <<deviceVars, readerVars, stopped>>

\* open: the port, the first asynchronous read, and the thread of the
\* io_context.  If the port does not open, the object is used all the same.
OpenPort ==
  /\ sender = "new"
  /\ \/ port' = "open" /\ reader' = "read"
     \/ UNCHANGED <<port, reader>>
  /\ sender' = "idle"
  /\ UNCHANGED <<deviceVars, inHand, stopped, replies, left, sent, timeouts,
                 last, notified>>

\* reset sends three moves and a SetZero, every other operation one command.
BeginOperation ==
  /\ sender = "idle"
  /\ \E n \in {1, 4} :
       /\ sent + n <= MaxCommands
       /\ left' = n
  /\ sender' = "write"
  /\ SenderAlone
  /\ UNCHANGED <<port, replies, sent, timeouts, last, notified>>

Write ==
  /\ sender = "write"
  /\ port = "open"
  /\ sent' = sent + 1
  /\ left' = left - 1
  /\ todo' = Append(todo, sent + 1)
  /\ sender' = "test"
  /\ UNCHANGED <<port, executed, line, messages, readerVars, stopped, replies,
                 timeouts, last, notified>>

\* asio::write throws, and nothing on the thread's stack catches it.
WriteThrows ==
  /\ sender = "write"
  /\ port # "open"
  /\ sender' = "terminated"
  /\ SenderAlone
  /\ UNCHANGED <<port, replies, left, sent, timeouts, last, notified>>

\* The result of a command that is not the last of reset is ignored.
NextCommand == sender' = IF left > 0 THEN "write" ELSE "idle"

\* Mutant: the reply is read and stays in the queue.
TakeReplyKeeps ==
  /\ replies # <<>>
  /\ last' = [cmd |-> sent, reply |-> Head(replies)]
  /\ UNCHANGED replies
  /\ NextCommand

TakeReply ==
  /\ replies # <<>>
  /\ last' = [cmd |-> sent, reply |-> Head(replies)]
  /\ replies' = Tail(replies)
  /\ NextCommand

\* The predicate of wait_for.  It is tested and, if it does not hold, waited
\* for without letting go of m_reply_mutex, so the two are one step.
TestReplies ==
  /\ sender = "test"
  /\ \/ TakeReply /\ UNCHANGED notified
     \/ /\ replies = <<>>
        /\ notified' = FALSE
        /\ sender' = "blocked"
        /\ UNCHANGED <<replies, last>>
  /\ SenderAlone
  /\ UNCHANGED <<port, left, sent, timeouts>>

WakeUp ==
  /\ sender = "blocked" /\ notified
  /\ sender' = "test"
  /\ SenderAlone
  /\ UNCHANGED <<port, replies, left, sent, timeouts, last, notified>>

\* A condition variable may also wake up without having been notified.
SpuriousWakeup ==
  /\ sender = "blocked" /\ ~notified
  /\ sender' = "test"
  /\ SenderAlone
  /\ UNCHANGED <<port, replies, left, sent, timeouts, last, notified>>

\* The time is over; wait_for evaluates its predicate a last time.
Timeout ==
  /\ sender = "blocked"
  /\ \/ TakeReply /\ UNCHANGED timeouts
     \/ /\ replies = <<>>
        /\ timeouts' = timeouts + 1
        /\ NextCommand
        /\ UNCHANGED <<replies, last>>
  /\ SenderAlone
  /\ UNCHANGED <<port, left, sent, notified>>

\* ~motion_control_port: close the port, stop the io_context, join.
DestroyPort ==
  /\ sender = "idle"
  /\ port' = "closed"
  /\ todo' = <<>> /\ line' = <<>>
  /\ stopped' = TRUE
  /\ sender' = "join"
  /\ UNCHANGED <<executed, messages, readerVars, replies, left, sent, timeouts,
                 last, notified>>

JoinReader ==
  /\ sender = "join"
  /\ reader \in {"none", "ended"}
  /\ sender' = "gone"
  /\ SenderAlone
  /\ UNCHANGED <<port, replies, left, sent, timeouts, last, notified>>

-----------------------------------------------------------------------------
(* The io thread.                                                          *)

ReaderAlone ==
  UNCHANGED <<port, todo, executed, messages, stopped, senderVars>>

\* handle_async_read is called with a reply.
ReadReply ==
  /\ reader = "read" /\ ~stopped
  /\ line # <<>> /\ Head(line) # Message
  /\ inHand' = Head(line)
  /\ line' = Tail(line)
  /\ reader' = "push"
  /\ UNCHANGED <<replies, notified>>
  /\ ReaderAlone

\* Mutant: after a message the read is not started again.
ReadMessageOnce ==
  /\ reader = "read" /\ ~stopped
  /\ line # <<>> /\ Head(line) = Message
  /\ line' = Tail(line)
  /\ reader' = "ended"
  /\ UNCHANGED <<inHand, replies, notified>>
  /\ ReaderAlone

\* A message emits a signal (or is too soon after the last) and is done with.
ReadMessage ==
  /\ reader = "read" /\ ~stopped
  /\ line # <<>> /\ Head(line) = Message
  /\ line' = Tail(line)
  /\ UNCHANGED <<readerVars, replies, notified>>
  /\ ReaderAlone

\* Mutant: nobody is notified.
PushQuietly ==
  /\ reader = "push"
  /\ replies' = Append(replies, inHand)
  /\ inHand' = None
  /\ reader' = "read"
  /\ UNCHANGED <<line, notified>>
  /\ ReaderAlone

PushReply ==
  /\ reader = "push"
  /\ replies' = Append(replies, inHand)
  /\ inHand' = None
  /\ reader' = "notify"
  /\ UNCHANGED <<line, notified>>
  /\ ReaderAlone

NotifyCaller ==
  /\ reader = "notify"
  /\ notified' = (notified \/ sender = "blocked")
  /\ reader' = "read"
  /\ UNCHANGED <<line, inHand, replies>>
  /\ ReaderAlone

\* An error code, when the buffer has no line left: there is no next read, and
\* run() returns.  It also returns when the io_context has been stopped.
ReadFails ==
  /\ reader = "read"
  /\ (port # "open" /\ line = <<>>) \/ stopped
  /\ reader' = "ended"
  /\ UNCHANGED <<line, inHand, replies, notified>>
  /\ ReaderAlone

-----------------------------------------------------------------------------
Device == Execute \/ SendMessage \/ Unplug
SendCommand == Write \/ WriteThrows \/ TestReplies \/ WakeUp \/ Timeout
               \/ JoinReader
Reader == ReadReply \/ ReadMessage \/ PushReply \/ NotifyCaller \/ ReadFails

\* Nothing is left to do.
PortRest ==
  /\ sender \in {"idle", "terminated", "gone"}
  /\ UNCHANGED portVars

PortNext == Device \/ OpenPort \/ BeginOperation \/ SendCommand
            \/ SpuriousWakeup \/ DestroyPort \/ Reader \/ PortRest

\* The two threads keep running; the device need not do anything.
PortFairness == WF_portVars(SendCommand) /\ WF_portVars(Reader)

PortSpec     == PortInit /\ [][PortNext]_portVars
FairPortSpec == PortSpec /\ PortFairness

-----------------------------------------------------------------------------
PortTypeOK ==
  /\ port \in {"closed", "open", "failed"}
  /\ todo \in Seq(Cmd) /\ executed \in 0 .. MaxCommands
  /\ line \in Seq(Line) /\ messages \in 0 .. MaxMessages
  /\ reader \in {"none", "read", "push", "notify", "ended"}
  /\ inHand \in Cmd \cup {None}
  /\ stopped \in BOOLEAN
  /\ replies \in Seq(Cmd)
  /\ sender \in {"new", "idle", "write", "test", "blocked", "terminated",
                 "join", "gone"}
  /\ left \in 0 .. 4
  /\ notified \in BOOLEAN
  /\ sent \in 0 .. MaxCommands /\ timeouts \in 0 .. MaxCommands
  /\ last \in [cmd : Cmd \cup {None}, reply : Cmd \cup {None}]

(* A caller is not left waiting for the timeout with a reply in the queue: *)
(* it has been notified of it, or the io thread is about to.               *)
NoLostReply ==
  sender = "blocked" /\ replies # <<>> => notified \/ reader = "notify"

(* A reply on the line reaches the queue, whatever messages of the device  *)
(* come before it, unless the line fails or the port is closed; and the    *)
(* destructor, which joins the thread that re-arms its own read, returns.  *)
ReaderKeepsUp ==
  /\ \A n \in Cmd :
       (\E k \in DOMAIN line : line[k] = n)
         ~> (\/ \E k \in DOMAIN replies : replies[k] = n
             \/ n <= last.reply
             \/ port # "open")
  /\ sender = "join" ~> sender = "gone"

-----------------------------------------------------------------------------
\* The replies among the lines, in their order.
RepliesOf(lines) ==
  LET first[k \in 0 .. Len(lines)] ==
        IF k = 0 THEN <<>>
        ELSE IF lines[k] = Message THEN first[k - 1]
        ELSE Append(first[k - 1], lines[k])
  IN  first[Len(lines)]

Channel == INSTANCE ReplyChannel WITH
  up      <- port = "open",
  replies <- replies \o (IF inHand = None THEN <<>> ELSE <<inHand>>)
                     \o RepliesOf(line),
  waiting <- sender \in {"test", "blocked"}

(* The reader thread, its queue and the condition variable together are a  *)
(* ReplyChannel: replies come through in the order of the commands, none   *)
(* twice and none from a message of the device, and of a failing line the  *)
(* last ones only are lost.                                                *)
KeepsOrder == Channel!ChannelSpec
=============================================================================
