---------------------------- MODULE StageProofs -----------------------------
(***************************************************************************)
(* Proofs about Stage, and about the ReplyChannel over which it talks to   *)
(* its device.                                                             *)
(***************************************************************************)
EXTENDS Stage, TLAPS

-----------------------------------------------------------------------------
(* The channel: how far replies are from their commands.  Outstanding is   *)
(* inductive with the types: the numbers of the replies that have not been *)
(* taken, and behind them those of the commands not yet executed, form one *)
(* interval.  With it, Accounting is inductive: a reply that is taken is   *)
(* the successor of the last one.                                          *)

IInv == ChannelTypeOK /\ Outstanding

(* The first reply that can be taken is the successor of the last one.     *)
LEMMA NextReply ==
  ASSUME IInv, replies # <<>>
  PROVE  Head(replies) = last.reply + 1
  <1>1. Len(replies) \in Nat /\ Len(replies) > 0
    BY DEF IInv, ChannelTypeOK
  <1> QED  BY <1>1 DEF IInv, ChannelTypeOK, Outstanding

(* Initially nothing is outstanding.                                       *)
LEMMA InitOutstanding == ChannelInit => IInv
  <1> SUFFICES ASSUME ChannelInit PROVE IInv
    OBVIOUS
  <1>1. ChannelTypeOK
    <2>1. <<>> \in Seq(Nat)
      OBVIOUS
    <2>2. [cmd |-> 0, reply |-> 0] \in [cmd : Nat, reply : Nat]
      OBVIOUS
    <2> QED  BY <2>1, <2>2 DEF ChannelInit, ChannelTypeOK
  <1>2. Len(todo) = 0 /\ Len(replies) = 0
    BY DEF ChannelInit
  <1>3. last.reply = 0 /\ sent = 0
    BY DEF ChannelInit
  <1> QED  BY <1>1, <1>2, <1>3 DEF IInv, Outstanding

(* Every step keeps the types.                                             *)
LEMMA StepTypes ==
  ChannelTypeOK /\ [ChannelNext]_channelVars => ChannelTypeOK'
  <1> SUFFICES ASSUME ChannelTypeOK, [ChannelNext]_channelVars
               PROVE  ChannelTypeOK'
    OBVIOUS
  <1> USE DEF ChannelTypeOK
  <1>1. CASE Connect
    BY <1>1 DEF Connect
  <1>2. CASE Send
    BY <1>2 DEF Send
  <1>3. CASE Execute
    <2>1. Head(todo) \in Nat /\ Tail(todo) \in Seq(Nat)
      BY <1>3 DEF Execute
    <2>2. Append(replies, Head(todo)) \in Seq(Nat)
      BY <2>1
    <2> QED  BY <1>3, <2>1, <2>2 DEF Execute
  <1>4. CASE Receive
    <2>1. Head(replies) \in Nat /\ Tail(replies) \in Seq(Nat)
      BY <1>4 DEF Receive
    <2>2. last' \in [cmd : Nat, reply : Nat]
      BY <1>4, <2>1 DEF Receive
    <2> QED  BY <1>4, <2>1, <2>2 DEF Receive
  <1>5. CASE GiveUp
    <2>1. timeouts' = timeouts + 1 /\ timeouts \in Nat
      BY <1>5 DEF GiveUp
    <2>2. timeouts' \in Nat
      BY <2>1
    <2>3. waiting' = FALSE /\ UNCHANGED <<up, todo, replies, sent, last>>
      BY <1>5 DEF GiveUp
    <2> QED  BY <2>2, <2>3
  <1>6. CASE Break
    <2>1. PICK k \in 0 .. Len(replies) : BreakAfter(k)
      BY <1>6 DEF Break
    <2>2. SubSeq(replies, 1, k) \in Seq(Nat) /\ <<>> \in Seq(Nat)
      OBVIOUS
    <2> QED  BY <2>1, <2>2 DEF BreakAfter
  <1>7. CASE UNCHANGED channelVars
    BY <1>7 DEF channelVars
  <1> QED
    BY <1>1, <1>2, <1>3, <1>4, <1>5, <1>6, <1>7 DEF ChannelNext

(* Every step keeps the outstanding numbers one interval.                  *)
LEMMA StepOutstanding == IInv /\ [ChannelNext]_channelVars => IInv'
  <1> SUFFICES ASSUME IInv, [ChannelNext]_channelVars
               PROVE  IInv'
    OBVIOUS
  <1> DEFINE Sum == last.reply + (Len(replies) + Len(todo))
  <1>t. ChannelTypeOK'
    BY StepTypes DEF IInv
  <1>n. /\ Len(replies) \in Nat /\ Len(todo) \in Nat
        /\ last.reply \in Nat /\ sent \in Nat
    BY DEF IInv, ChannelTypeOK
  <1>s. replies \in Seq(Nat) /\ todo \in Seq(Nat)
    BY DEF IInv, ChannelTypeOK
  <1>r. \A k \in 1 .. Len(replies) : replies[k] = last.reply + k
    BY DEF IInv, Outstanding
  <1>o. \A k \in 1 .. Len(todo) : todo[k] = last.reply + Len(replies) + k
    BY DEF IInv, Outstanding
  <1>u. Sum <= sent /\ (up => Sum = sent)
    BY DEF IInv, Outstanding
  <1> SUFFICES Outstanding'
    BY <1>t DEF IInv
  <1>1. CASE Connect
    <2>1. /\ sent = 0 /\ UNCHANGED <<todo, replies, sent, last>>
      BY <1>1 DEF Connect
    <2>2. Sum = 0
      BY <1>n, <1>u, <2>1
    <2> QED  BY <1>r, <1>o, <2>1, <2>2 DEF Outstanding
  <1>2. CASE Send
    <2>1. /\ todo' = Append(todo, sent + 1) /\ sent' = sent + 1
          /\ replies' = replies /\ last' = last
      BY <1>2 DEF Send
    <2>0. Sum = sent
      BY <1>2, <1>u DEF Send
    <2>2. Len(todo') = Len(todo) + 1
      BY <1>s, <2>1
    <2>3. Sum' = sent'
      BY <1>n, <2>0, <2>1, <2>2
    <2>4. \A k \in 1 .. Len(todo') : todo'[k] = last'.reply + Len(replies') + k
      <3> TAKE k \in 1 .. Len(todo')
      <3>1. CASE k = Len(todo) + 1
        <4>1. todo'[k] = sent + 1 /\ last'.reply = last.reply
          BY <1>s, <2>1, <3>1
        <4>2. sent + 1 = last.reply + Len(replies) + (Len(todo) + 1)
          BY <1>n, <2>0
        <4> QED  BY ONLY <2>1, <3>1, <4>1, <4>2
      <3>2. CASE k \in 1 .. Len(todo)
        BY <1>n, <1>s, <1>o, <2>1, <3>2
      <3> QED  BY <1>n, <2>2, <3>1, <3>2
    <2>5. Sum' <= sent'
      BY <1>n, <2>1, <2>3
    <2> QED  BY <1>r, <2>1, <2>3, <2>4, <2>5 DEF Outstanding
  <1>3. CASE Execute
    <2>1. /\ todo # <<>>
          /\ replies' = Append(replies, Head(todo)) /\ todo' = Tail(todo)
          /\ last' = last
      BY <1>3 DEF Execute
    <2>0. UNCHANGED <<up, sent>>
      BY <1>3 DEF Execute
    <2>2. Len(todo) > 0 /\ Head(todo) = todo[1]
      BY <1>s, <2>1
    <2>3. Head(todo) = last.reply + Len(replies) + 1
      BY <1>n, <1>o, <2>2
    <2>4. Len(replies') = Len(replies) + 1 /\ Len(todo') = Len(todo) - 1
      BY <1>s, <2>1, <2>2
    <2>5. Sum' = Sum
      <3>1. last'.reply = last.reply
        BY <2>1
      <3>2. Len(replies') + Len(todo') = Len(replies) + Len(todo)
        BY ONLY <1>n, <2>4
      <3> QED  BY ONLY <3>1, <3>2
    <2>6. \A k \in 1 .. Len(replies') : replies'[k] = last'.reply + k
      <3> TAKE k \in 1 .. Len(replies')
      <3>1. CASE k = Len(replies) + 1
        BY <1>n, <1>s, <2>1, <2>3, <3>1
      <3>2. CASE k \in 1 .. Len(replies)
        BY <1>n, <1>s, <1>r, <2>1, <3>2
      <3> QED  BY <1>n, <2>4, <3>1, <3>2
    <2>7. \A k \in 1 .. Len(todo') : todo'[k] = todo[k + 1]
      BY <1>n, <1>s, <2>1, <2>2, <2>4
    <2>8. \A k \in 1 .. Len(todo') : todo'[k] = last'.reply + Len(replies') + k
      <3> TAKE k \in 1 .. Len(todo')
      <3>1. k + 1 \in 1 .. Len(todo) /\ last'.reply = last.reply
        BY <1>n, <2>1, <2>2, <2>4
      <3>2. todo[k + 1] = last.reply + Len(replies) + (k + 1)
        BY <1>o, <3>1
      <3>3. todo'[k] = todo[k + 1] /\ k \in Nat
        BY <1>n, <2>4, <2>7
      <3> QED  BY ONLY <1>n, <2>4, <3>1, <3>2, <3>3, SMTT(30)
    <2> QED  BY <1>u, <2>0, <2>5, <2>6, <2>8 DEF Outstanding
  <1>4. CASE Receive
    <2>1. /\ replies # <<>> /\ replies' = Tail(replies)
          /\ last' = [cmd |-> sent, reply |-> Head(replies)]
          /\ UNCHANGED <<up, todo, sent>>
      BY <1>4 DEF Receive
    <2>2. Len(replies) > 0
      BY <1>s, <2>1
    <2>3. last'.reply = last.reply + 1
      BY <2>1, NextReply
    <2>4. Len(replies') = Len(replies) - 1
      BY <1>s, <2>1, <2>2
    <2>5. Sum' = Sum
      BY <1>n, <2>1, <2>3, <2>4
    <2>6. \A k \in 1 .. Len(replies') : replies'[k] = replies[k + 1]
      BY <1>n, <1>s, <2>1, <2>2, <2>4
    <2>7. \A k \in 1 .. Len(replies') : replies'[k] = last'.reply + k
      <3> TAKE k \in 1 .. Len(replies')
      <3>1. k + 1 \in 1 .. Len(replies)
        BY <1>n, <2>2, <2>4
      <3>2. replies[k + 1] = last.reply + (k + 1)
        BY <1>r, <3>1
      <3>3. replies'[k] = replies[k + 1] /\ k \in Nat
        BY <1>n, <2>4, <2>6
      <3> QED  BY ONLY <1>n, <2>3, <3>2, <3>3, SMTT(30)
    <2>8. \A k \in 1 .. Len(todo') : todo'[k] = last'.reply + Len(replies') + k
      BY <1>n, <1>o, <2>1, <2>3, <2>4
    <2> QED  BY <1>u, <2>1, <2>5, <2>7, <2>8 DEF Outstanding
  <1>5. CASE GiveUp
    <2>1. UNCHANGED <<up, todo, replies, sent, last>>
      BY <1>5 DEF GiveUp
    <2> QED  BY <1>r, <1>o, <1>u, <2>1 DEF Outstanding
  <1>6. CASE Break
    <2>1. PICK k \in 0 .. Len(replies) : BreakAfter(k)
      BY <1>6 DEF Break
    <2>2. /\ up' = FALSE /\ todo' = <<>> /\ replies' = SubSeq(replies, 1, k)
          /\ UNCHANGED <<sent, last>>
      BY <2>1 DEF BreakAfter
    <2>3. Len(replies') = k /\ \A i \in 1 .. k : replies'[i] = replies[i]
      BY <1>n, <1>s, <2>2
    <2>4. Len(todo') = 0
      BY <2>2
    <2>5. Sum' <= sent'
      BY <1>n, <1>u, <2>2, <2>3, <2>4
    <2>6. \A i \in 1 .. Len(replies') : replies'[i] = last'.reply + i
      BY <1>n, <1>r, <2>2, <2>3
    <2> QED  BY <2>2, <2>4, <2>5, <2>6 DEF Outstanding
  <1>7. CASE UNCHANGED channelVars
    BY <1>r, <1>o, <1>u, <1>7 DEF channelVars, Outstanding
  <1> QED
    BY <1>1, <1>2, <1>3, <1>4, <1>5, <1>6, <1>7 DEF ChannelNext

(* The replies that have not been taken and the commands that have not been *)
(* executed are one interval of numbers, whatever timed out.               *)
THEOREM OutstandingIsInterval == ChannelSpec => []IInv
  BY InitOutstanding, StepOutstanding, PTL DEF ChannelSpec

(* Every step keeps the account.                                           *)
LEMMA StepAccounting ==
  IInv /\ Accounting /\ [ChannelNext]_channelVars => Accounting'
  <1> SUFFICES ASSUME IInv, Accounting, [ChannelNext]_channelVars
               PROVE  Accounting'
    OBVIOUS
  <1> USE DEF Accounting
  <1>t. ChannelTypeOK
    BY DEF IInv
  <1>1. CASE Connect
    BY <1>1 DEF Connect
  <1>2. CASE Send
    BY <1>t, <1>2 DEF Send, ChannelTypeOK
  <1>3. CASE Execute
    BY <1>3 DEF Execute
  <1>4. CASE Receive
    <2>1. Head(replies) = last.reply + 1
      BY <1>4, NextReply DEF Receive
    <2> QED  BY <1>t, <1>4, <2>1 DEF Receive, ChannelTypeOK
  <1>5. CASE GiveUp
    BY <1>t, <1>5 DEF GiveUp, ChannelTypeOK
  <1>6. CASE Break
    BY <1>6 DEF Break, BreakAfter
  <1>7. CASE UNCHANGED channelVars
    BY <1>7 DEF channelVars
  <1> QED
    BY <1>1, <1>2, <1>3, <1>4, <1>5, <1>6, <1>7 DEF ChannelNext

(* Every command sent is answered, given up, or being waited for.          *)
THEOREM CommandsAreAccounted == ChannelSpec => []Accounting
  <1>1. ChannelInit => Accounting
    BY DEF ChannelInit, Accounting
  <1> QED
    BY <1>1, StepAccounting, OutstandingIsInterval, PTL DEF ChannelSpec

(* A command is answered with the reply to the command as many places      *)
(* before it as commands have timed out.                                   *)
LEMMA StepShift ==
  ASSUME IInv, Accounting, [ChannelNext]_channelVars, last' # last
  PROVE  last'.cmd - last'.reply = timeouts
  <1>1. Receive
    BY DEF ChannelNext, Connect, Send, Execute, GiveUp, Break, BreakAfter,
           channelVars
  <1>2. Head(replies) = last.reply + 1
    BY <1>1, NextReply DEF Receive
  <1>3. sent = last.reply + timeouts + 1
    BY <1>1 DEF Accounting, Receive
  <1> QED
    BY <1>1, <1>2, <1>3 DEF Receive, IInv, ChannelTypeOK

(* Timeouts shift the replies, and nothing ever shifts them back.          *)
THEOREM TimeoutsShiftForEver == ChannelSpec => ShiftIsTimeouts
  <1>1. IInv /\ Accounting /\ [ChannelNext]_channelVars
          => [last' # last => last'.cmd - last'.reply = timeouts]_channelVars
    BY StepShift
  <1> QED
    BY <1>1, OutstandingIsInterval, CommandsAreAccounted, PTL
       DEF ChannelSpec, ShiftIsTimeouts

-----------------------------------------------------------------------------
(* Every step of the stage is a step of the channel or leaves it alone.    *)
LEMMA StageStep == [StageNext]_stageVars => [ChannelNext]_channelVars
  <1> SUFFICES ASSUME [StageNext]_stageVars
               PROVE  [ChannelNext]_channelVars
    OBVIOUS
  <1>1. CASE Request
    BY <1>1 DEF Request, MoveToPosition, MoveForward, MoveBack, SetMoveStep,
                SetMax, SetZeroRequest, ResetPosition, SetLightBrightness,
                Take
  <1>2. CASE SendCommand
    BY <1>2 DEF SendCommand, ChannelNext
  <1>3. CASE TakeReply
    BY <1>3 DEF TakeReply, ChannelNext
  <1>4. CASE TimeOut
    BY <1>4 DEF TimeOut, ChannelNext
  <1>5. CASE Perform
    BY <1>5 DEF Perform, ChannelNext
  <1>6. CASE HandMove
    BY <1>6 DEF HandMove
  <1>7. CASE Unplug
    BY <1>7 DEF Unplug, ChannelNext, Break
  <1>8. CASE Rest \/ UNCHANGED stageVars
    BY <1>8 DEF Rest, stageVars
  <1> QED
    BY <1>1, <1>2, <1>3, <1>4, <1>5, <1>6, <1>7, <1>8 DEF StageNext

(* Whatever the requests, the device and the person at it do, the misc     *)
(* thread's commands and replies go over one ReplyChannel.                 *)
THEOREM StageUsesChannel == StageSpec => ChannelSpec
  <1>1. StageInit => ChannelInit
    BY DEF StageInit, ChannelInit
  <1> QED
    BY <1>1, StageStep, PTL DEF StageSpec, ChannelSpec

(* A position that get_position returns is the reply to the command as     *)
(* many places before it as commands have timed out since the set-up, and  *)
(* stays so: no later request of a client makes up for it.                 *)
THEOREM PositionsStayShifted == StageSpec => ShiftIsTimeouts
  BY StageUsesChannel, TimeoutsShiftForEver

-----------------------------------------------------------------------------
(* Types.  The commands of a request, and where they are.                  *)

Order ==
  [op   : {"MoveDistance", "MovePosition", "SetZero", "GetPosition",
           "SetLight"},
   axis : Axis, n : Int, must : BOOLEAN,
   part : {"request", "forward", "reset"}]

Reading == [Axis -> Int]

StageTypes ==
  /\ TypeOK
  /\ orders \in Seq(Order) /\ readings \in Seq(Reading)
  /\ plan \in Seq(Order)
  /\ waiting => plan # <<>>

\* Moves and new zeros are followed by a reading of the position.
Moves == {"MoveDistance", "MovePosition", "SetZero"}

ReadsAfterMoves(s) ==
  \A k \in DOMAIN s : s[k].op \in Moves =>
    \E l \in DOMAIN s : k < l /\ s[l].op = "GetPosition"

\* A forward move comes first.
ForwardFirst(s) ==
  \A k \in DOMAIN s : s[k].part = "forward" =>
    k = 1 /\ s[k].op = "MoveDistance"

\* How far the moves of a reset go, from the last to the first.
ResetDistance(j) == IF j = 1 THEN -2 ELSE IF j = 2 THEN 1 ELSE -Travel

IsMove(c, a, d) == c.op = "MoveDistance" /\ c.axis = a /\ c.n = d

\* Before a zero of a reset come as many of its moves as there is room for.
ResetMovesBefore(s) ==
  \A k \in DOMAIN s : s[k].part = "reset" =>
    /\ s[k].op = "SetZero"
    /\ \A j \in 1 .. 3 : j < k =>
         IsMove(s[k - j], s[k].axis, ResetDistance(j))

\* All of them are in the plan of a request.
WholeResets(s) == \A k \in DOMAIN s : s[k].part = "reset" => k > 3

PlanIsSound(s) ==
  /\ s \in Seq(Order)
  /\ ReadsAfterMoves(s) /\ ForwardFirst(s)
  /\ ResetMovesBefore(s) /\ WholeResets(s)

\* Commands not yet executed: with the device, and not yet sent.
Unsent == IF waiting THEN Tail(plan) ELSE plan
Coming == orders \o Unsent

\* Where the axis is, by how many of the moves before the zero are still to
\* be executed.
Homing(s) ==
  \A k \in DOMAIN s : s[k].part = "reset" =>
    /\ k \in {1, 3} => place[s[k].axis] = 0
    /\ k = 2 => place[s[k].axis] <= 1

OnTheWayHome(s) == ResetMovesBefore(s) /\ Homing(s)

HomeInv == up /\ handMoves = 0 => OnTheWayHome(Coming)

ReadPending == \E k \in DOMAIN plan : plan[k].op = "GetPosition"

KnownInv ==
  /\ ReadsAfterMoves(plan) /\ ForwardFirst(plan)
  /\ timeouts = 0 /\ orders # <<>> => waiting /\ orders[1] = plan[1]
  /\ timeouts = 0 /\ ~stray =>
       /\ ReadPending \/ known = Coordinate
       /\ replies # <<>> /\ plan[1].op = "GetPosition" =>
            readings[1] = Coordinate

ForwardInv ==
  plan # <<>> /\ plan[1].part = "forward" =>
    /\ known[plan[1].axis] + plan[1].n <= max[plan[1].axis]
    /\ up /\ timeouts = 0 /\ ~stray /\ replies = <<>> => known = Coordinate

(* The commands, by what the proofs need to know of them.                  *)
LEMMA Commands ==
  /\ \A a \in Axis, d \in Int :
       /\ MoveDistance(a, d) \in Order
       /\ MoveDistance(a, d).op = "MoveDistance"
       /\ MoveDistance(a, d).axis = a /\ MoveDistance(a, d).n = d
       /\ MoveDistance(a, d).part = "request"
       /\ MovePosition(a, d) \in Order /\ MovePosition(a, d).part = "request"
       /\ Forward(a, d) \in Order
       /\ Forward(a, d).op = "MoveDistance"
       /\ Forward(a, d).axis = a /\ Forward(a, d).n = d
       /\ Forward(a, d).part = "forward"
  /\ \A a \in Axis :
       /\ MustSetZero(a) \in Order /\ MustSetZero(a).part = "request"
       /\ HomeHere(a) \in Order /\ HomeHere(a).part = "reset"
       /\ HomeHere(a).op = "SetZero" /\ HomeHere(a).axis = a
  /\ GetPosition \in Order /\ GetPosition.op = "GetPosition"
  /\ GetPosition.part = "request"
  /\ SetLight \in Order /\ SetLight.op = "SetLight"
  /\ SetLight.part = "request"
  <1> USE DEF Command, Order, Axis
  <1>1. \A a \in Axis, d \in Int :
         /\ MoveDistance(a, d) \in Order
         /\ MoveDistance(a, d).op = "MoveDistance"
         /\ MoveDistance(a, d).axis = a /\ MoveDistance(a, d).n = d
         /\ MoveDistance(a, d).part = "request"
    BY DEF MoveDistance
  <1>2. \A a \in Axis, d \in Int :
         /\ MovePosition(a, d) \in Order /\ MovePosition(a, d).part = "request"
    BY DEF MovePosition
  <1>3. \A a \in Axis, d \in Int :
         /\ Forward(a, d) \in Order
         /\ Forward(a, d).op = "MoveDistance"
         /\ Forward(a, d).axis = a /\ Forward(a, d).n = d
         /\ Forward(a, d).part = "forward"
    <2> SUFFICES ASSUME NEW a \in Axis, NEW d \in Int
                 PROVE  /\ Forward(a, d) \in Order
                        /\ Forward(a, d).op = "MoveDistance"
                        /\ Forward(a, d).axis = a /\ Forward(a, d).n = d
                        /\ Forward(a, d).part = "forward"
      OBVIOUS
    <2>1. Forward(a, d) \in Order
      BY DEF Forward, MoveDistance
    <2>2. /\ Forward(a, d).op = "MoveDistance" /\ Forward(a, d).axis = a
          /\ Forward(a, d).n = d /\ Forward(a, d).part = "forward"
      BY DEF Forward, MoveDistance
    <2> QED
      BY <2>1, <2>2
  <1>4. \A a \in Axis :
         /\ MustSetZero(a) \in Order /\ MustSetZero(a).part = "request"
         /\ HomeHere(a) \in Order /\ HomeHere(a).part = "reset"
         /\ HomeHere(a).op = "SetZero" /\ HomeHere(a).axis = a
    <2> SUFFICES ASSUME NEW a \in Axis
                 PROVE  /\ MustSetZero(a) \in Order
                        /\ MustSetZero(a).part = "request"
                        /\ HomeHere(a) \in Order /\ HomeHere(a).part = "reset"
                        /\ HomeHere(a).op = "SetZero" /\ HomeHere(a).axis = a
      OBVIOUS
    <2>0. MustSetZero(a) \in Order
      <3>1. Command("SetZero", a, 0) \in Order
        OBVIOUS
      <3> QED
        BY <3>1 DEF MustSetZero
    <2>1. /\ MustSetZero(a).part = "request"
          /\ MustSetZero(a).op = "SetZero" /\ MustSetZero(a).axis = a
      BY DEF MustSetZero
    <2>2. HomeHere(a) \in Order
      BY <2>0, <2>1 DEF HomeHere
    <2>3. /\ HomeHere(a).part = "reset" /\ HomeHere(a).op = "SetZero"
          /\ HomeHere(a).axis = a
      BY <2>0, <2>1 DEF HomeHere
    <2> QED
      BY <2>0, <2>1, <2>2, <2>3
  <1>5. /\ GetPosition \in Order /\ GetPosition.op = "GetPosition"
        /\ GetPosition.part = "request"
        /\ SetLight \in Order /\ SetLight.op = "SetLight"
        /\ SetLight.part = "request"
    BY DEF GetPosition, SetLight
  <1> QED
    <2> HIDE DEF Command, Order, Axis
    <2> QED
      BY <1>1, <1>2, <1>3, <1>4, <1>5

(* A plan with no reset that ends with a reading.                          *)
EndsWithReading(s) ==
  /\ s \in Seq(Order) /\ Len(s) > 0
  /\ s[Len(s)].op = "GetPosition"
  /\ \A k \in DOMAIN s : s[k].part # "reset"
  /\ ForwardFirst(s)

\* A plan that ends with the reading of the position is sound.
LEMMA ShortPlans ==
  ASSUME NEW s, EndsWithReading(s)
  PROVE  PlanIsSound(s)
  <1> USE DEF EndsWithReading
  <1>1. ReadsAfterMoves(s)
    <2> SUFFICES ASSUME NEW k \in DOMAIN s, s[k].op \in Moves
                 PROVE  \E l \in DOMAIN s : k < l /\ s[l].op = "GetPosition"
      BY DEF ReadsAfterMoves
    <2>1. k # Len(s)
      BY DEF Moves
    <2> QED
      BY <2>1
  <1> QED
    BY <1>1 DEF PlanIsSound, ForwardFirst, ResetMovesBefore, WholeResets

(* Lists of two and of three.                                              *)
LEMMA Lists ==
  ASSUME NEW c \in Order, NEW d \in Order, NEW e \in Order
  PROVE  /\ <<c, d>> \in Seq(Order) /\ Len(<<c, d>>) = 2
         /\ DOMAIN <<c, d>> = {1, 2}
         /\ <<c, d, e>> \in Seq(Order) /\ Len(<<c, d, e>>) = 3
         /\ DOMAIN <<c, d, e>> = {1, 2, 3}
  OBVIOUS

(* The plans without a reset.                                              *)
LEMMA PlainPlans ==
  /\ PlanIsSound(<<>>)
  /\ PlanIsSound(<<SetLight>>)
  /\ PlanIsSound(<<MustSetZero(0), MustSetZero(1), GetPosition>>)
  /\ \A d, e \in Int :
       PlanIsSound(<<MovePosition(0, d), MovePosition(1, e), GetPosition>>)
  /\ \A a \in Axis, d \in Int :
       /\ PlanIsSound(<<MoveDistance(a, d), GetPosition>>)
       /\ PlanIsSound(<<Forward(a, d), GetPosition>>)
  <1> 0 \in Axis /\ 1 \in Axis
    BY DEF Axis
  <1>1. PlanIsSound(<<>>)
    BY DEF PlanIsSound, ReadsAfterMoves, ForwardFirst, ResetMovesBefore,
           WholeResets
  <1>2. PlanIsSound(<<SetLight>>)
    BY Commands DEF PlanIsSound, ReadsAfterMoves, ForwardFirst,
                    ResetMovesBefore, WholeResets, Moves
  <1>3. PlanIsSound(<<MustSetZero(0), MustSetZero(1), GetPosition>>)
    <2> DEFINE s == <<MustSetZero(0), MustSetZero(1), GetPosition>>
    <2>1. s \in Seq(Order) /\ Len(s) = 3 /\ DOMAIN s = {1, 2, 3}
      BY Commands, Lists
    <2>2. s[3].op = "GetPosition" /\ \A k \in {1, 2, 3} : s[k].part = "request"
      BY Commands
    <2> HIDE DEF s
    <2>4. EndsWithReading(s)
      BY <2>1, <2>2 DEF EndsWithReading, ForwardFirst
    <2>3. PlanIsSound(s)
      BY <2>4, ShortPlans
    <2> QED
      BY <2>3 DEF s
  <1>4. ASSUME NEW d \in Int, NEW e \in Int
        PROVE  PlanIsSound(<<MovePosition(0, d), MovePosition(1, e),
                             GetPosition>>)
    <2> DEFINE s == <<MovePosition(0, d), MovePosition(1, e), GetPosition>>
    <2>1. s \in Seq(Order) /\ Len(s) = 3 /\ DOMAIN s = {1, 2, 3}
      BY Commands, Lists
    <2>2. s[3].op = "GetPosition" /\ \A k \in {1, 2, 3} : s[k].part = "request"
      BY Commands
    <2> HIDE DEF s
    <2>4. EndsWithReading(s)
      BY <2>1, <2>2 DEF EndsWithReading, ForwardFirst
    <2>3. PlanIsSound(s)
      BY <2>4, ShortPlans
    <2> QED
      BY <2>3 DEF s
  <1>5. ASSUME NEW a \in Axis, NEW d \in Int,
               NEW c \in {MoveDistance(a, d), Forward(a, d)}
        PROVE  PlanIsSound(<<c, GetPosition>>)
    <2> DEFINE s == <<c, GetPosition>>
    <2>1. s \in Seq(Order) /\ Len(s) = 2 /\ DOMAIN s = {1, 2}
      BY Commands, Lists
    <2>2. /\ s[2].op = "GetPosition" /\ s[2].part = "request"
          /\ s[1].part # "reset" /\ s[1].op = "MoveDistance"
      BY Commands
    <2> HIDE DEF s
    <2>4. EndsWithReading(s)
      BY <2>1, <2>2 DEF EndsWithReading, ForwardFirst
    <2>3. PlanIsSound(s)
      BY <2>4, ShortPlans
    <2> QED
      BY <2>3 DEF s
  <1> QED
    BY <1>1, <1>2, <1>3, <1>4, <1>5

(* What s \o t is made of.                                                 *)
LEMMA Concat ==
  ASSUME NEW s \in Seq(Order), NEW t \in Seq(Order)
  PROVE  /\ s \o t \in Seq(Order)
         /\ Len(s) \in Nat /\ Len(t) \in Nat
         /\ Len(s \o t) = Len(s) + Len(t)
         /\ DOMAIN (s \o t) = 1 .. (Len(s) + Len(t))
         /\ \A k \in 1 .. Len(s) : (s \o t)[k] = s[k]
         /\ \A k \in 1 .. Len(t) : (s \o t)[Len(s) + k] = t[k]
  OBVIOUS

\* The commands of a reset of one axis.
IsReset(s, a) ==
  /\ s \in Seq(Order) /\ Len(s) = 4
  /\ \A j \in 1 .. 3 : IsMove(s[4 - j], a, ResetDistance(j))
  /\ \A k \in 1 .. 3 : s[k].part = "request"
  /\ s[4].op = "SetZero" /\ s[4].axis = a /\ s[4].part = "reset"

\* The orders of reset are what IsReset says of them.
LEMMA ResetIsReset ==
  ASSUME NEW a \in Axis
  PROVE  IsReset(Reset(a), a) /\ IsReset(Lenient(Reset(a)), a)
  <1> DEFINE w == MoveDistance(a, -Travel)
             x == MoveDistance(a, 1)
             y == MoveDistance(a, -2)
             z == HomeHere(a)
  <1>1. /\ w \in Order /\ IsMove(w, a, -Travel) /\ w.part = "request"
        /\ x \in Order /\ IsMove(x, a, 1) /\ x.part = "request"
        /\ y \in Order /\ IsMove(y, a, -2) /\ y.part = "request"
        /\ z \in Order /\ z.op = "SetZero" /\ z.axis = a /\ z.part = "reset"
    <2>1. -Travel \in Int /\ 1 \in Int /\ -2 \in Int
      BY StageAssumption DEF StageAssumption
    <2> QED
      BY <2>1, Commands DEF IsMove
  <1>2. Reset(a) = <<w, x, y, z>>
    BY DEF Reset
  <1> HIDE DEF w, x, y, z
  <1>3. IsReset(Reset(a), a)
    <2>1. <<w, x, y, z>> \in Seq(Order) /\ Len(<<w, x, y, z>>) = 4
      BY <1>1
    <2> QED
      BY <1>1, <1>2, <2>1 DEF IsReset, ResetDistance
  <1>4. ASSUME NEW c \in Order
        PROVE  /\ [c EXCEPT !.must = FALSE] \in Order
               /\ [c EXCEPT !.must = FALSE].op = c.op
               /\ [c EXCEPT !.must = FALSE].axis = c.axis
               /\ [c EXCEPT !.must = FALSE].n = c.n
               /\ [c EXCEPT !.must = FALSE].part = c.part
    BY DEF Order
  <1>5. IsReset(Lenient(Reset(a)), a)
    <2> DEFINE l == Lenient(Reset(a))
    <2>1. /\ DOMAIN l = 1 .. 4
          /\ \A k \in 1 .. 4 : l[k] = [Reset(a)[k] EXCEPT !.must = FALSE]
      <3>1. DOMAIN Reset(a) = 1 .. 4
        BY <1>3 DEF IsReset
      <3> QED
        BY <3>1 DEF Lenient
    <2>2. \A k \in 1 .. 4 : Reset(a)[k] \in Order
      <3>1. Reset(a) \in Seq(Order) /\ Len(Reset(a)) = 4
        BY <1>3 DEF IsReset
      <3> QED
        BY <3>1
    <2>3. \A k \in 1 .. 4 : l[k] \in Order
      BY <1>4, <2>1, <2>2
    <2>4. l \in Seq(Order) /\ Len(l) = 4
      <3>1. l = [k \in 1 .. 4 |-> l[k]]
        BY <1>3 DEF Lenient, IsReset
      <3> HIDE DEF l
      <3> QED
        BY <2>3, <3>1
    <2>5. \A k \in 1 .. 4 : /\ l[k].op = Reset(a)[k].op
                            /\ l[k].axis = Reset(a)[k].axis
                            /\ l[k].n = Reset(a)[k].n
                            /\ l[k].part = Reset(a)[k].part
      BY <1>4, <2>1, <2>2
    <2> HIDE DEF l
    <2>6. IsReset(l, a)
      BY <1>3, <2>4, <2>5 DEF IsReset, IsMove
    <2> QED
      BY <2>6 DEF l
  <1> QED
    BY <1>3, <1>5

(* Two resets and a reading.                                               *)
LEMMA ResetPlans ==
  ASSUME NEW a \in Axis, NEW b \in Axis, NEW p, NEW q, NEW t \in Seq(Order),
         IsReset(p, a), IsReset(q, b), Len(t) > 0, t[1].op = "GetPosition",
         \A k \in DOMAIN t : t[k].op \notin Moves /\ t[k].part = "request"
  PROVE  PlanIsSound(p \o q \o t)
  <1> DEFINE s == p \o q \o t
  <1>1. /\ p \in Seq(Order) /\ q \in Seq(Order) /\ t \in Seq(Order)
        /\ Len(p) = 4 /\ Len(q) = 4 /\ Len(t) \in Nat
    BY DEF IsReset
  <1> DEFINE r == p \o q
  <1>11. /\ r \in Seq(Order) /\ Len(r) = 8
        /\ \A k \in 1 .. 4 : r[k] = p[k] /\ r[4 + k] = q[k]
    <2>1. /\ r \in Seq(Order) /\ Len(r) = Len(p) + Len(q)
          /\ \A k \in 1 .. Len(p) : r[k] = p[k]
          /\ \A k \in 1 .. Len(q) : r[Len(p) + k] = q[k]
      BY ONLY <1>1, Concat
    <2> HIDE DEF r
    <2> QED
      BY ONLY <1>1, <2>1
  <1> HIDE DEF r
  <1>12. /\ r \o t \in Seq(Order) /\ Len(r \o t) = 8 + Len(t)
         /\ DOMAIN (r \o t) = 1 .. (8 + Len(t))
         /\ \A k \in 1 .. 8 : (r \o t)[k] = r[k]
         /\ \A k \in 1 .. Len(t) : (r \o t)[8 + k] = t[k]
    <2>1. /\ r \o t \in Seq(Order) /\ Len(r \o t) = Len(r) + Len(t)
          /\ DOMAIN (r \o t) = 1 .. (Len(r) + Len(t))
          /\ \A k \in 1 .. Len(r) : (r \o t)[k] = r[k]
          /\ \A k \in 1 .. Len(t) : (r \o t)[Len(r) + k] = t[k]
      BY ONLY <1>1, <1>11, Concat
    <2> QED
      BY ONLY <1>11, <2>1
  <1>2. /\ s \in Seq(Order) /\ Len(s) = 8 + Len(t)
        /\ DOMAIN s = 1 .. (8 + Len(t))
    BY <1>12 DEF r
  <1>3. /\ \A k \in 1 .. 4 : s[k] = p[k] /\ s[4 + k] = q[k]
        /\ \A k \in 1 .. Len(t) : s[8 + k] = t[k]
    <2>1. s = r \o t
      BY DEF r
    <2>2. \A k \in 1 .. 4 : k \in 1 .. 8 /\ 4 + k \in 1 .. 8
      OBVIOUS
    <2> HIDE DEF s
    <2> QED
      BY <1>11, <1>12, <2>1, <2>2
  <1>4. \A k \in DOMAIN s : k > 8 => k - 8 \in DOMAIN t /\ s[k] = t[k - 8]
    BY <1>1, <1>2, <1>3
  <1> HIDE DEF s
  <1>5. s[9].op = "GetPosition" /\ 9 \in DOMAIN s
    BY <1>1, <1>2, <1>3
  <1>6. ReadsAfterMoves(s)
    <2> SUFFICES ASSUME NEW k \in DOMAIN s, s[k].op \in Moves
                 PROVE  \E l \in DOMAIN s : k < l /\ s[l].op = "GetPosition"
      BY DEF ReadsAfterMoves
    <2>1. ~(k > 8)
      BY <1>4
    <2>2. k < 9
      BY <1>1, <1>2, <2>1
    <2> QED
      BY <1>5, <2>2
  <1>7. \A k \in DOMAIN s : s[k].part # "forward" /\
                            (s[k].part = "reset" => k \in {4, 8})
    <2> SUFFICES ASSUME NEW k \in DOMAIN s
                 PROVE  s[k].part # "forward" /\
                        (s[k].part = "reset" => k \in {4, 8})
      OBVIOUS
    <2>1. CASE k > 8
      BY <1>4, <2>1
    <2>2. CASE k \in 1 .. 4
      BY <1>3, <2>2 DEF IsReset
    <2>3. CASE k \in 5 .. 8
      <3>1. k - 4 \in 1 .. 4 /\ s[k] = q[k - 4]
        BY <1>3, <2>3
      <3> QED
        BY <2>3, <3>1 DEF IsReset
    <2> QED
      BY <1>1, <1>2, <2>1, <2>2, <2>3
  <1>8. ResetMovesBefore(s)
    <2> SUFFICES ASSUME NEW k \in DOMAIN s, s[k].part = "reset"
                 PROVE  /\ s[k].op = "SetZero"
                        /\ \A j \in 1 .. 3 : j < k =>
                             IsMove(s[k - j], s[k].axis, ResetDistance(j))
      BY DEF ResetMovesBefore
    <2>1. CASE k = 4
      BY <1>3, <2>1 DEF IsReset
    <2>2. CASE k = 8
      <3>1. s[8] = q[4] /\ \A j \in 1 .. 3 : s[8 - j] = q[4 - j]
        BY <1>3
      <3> QED
        BY <2>2, <3>1 DEF IsReset
    <2> QED
      BY <1>7, <2>1, <2>2
  <1>9. PlanIsSound(s)
    BY <1>2, <1>6, <1>7, <1>8 DEF PlanIsSound, ForwardFirst, WholeResets
  <1> QED
    BY <1>9 DEF s

\* What the server has tested before it takes a forward move.
ForwardFits(s) ==
  s # <<>> /\ s[1].part = "forward" =>
    /\ known[s[1].axis] + s[1].n <= max[s[1].axis]

\* A request whose plan is s.
TakesPlan(s) ==
  /\ PlanIsSound(s) /\ ForwardFits(s)
  /\ Take(s)
  /\ step' \in [Axis -> StepSize] /\ max' \in [Axis -> Limit]
  /\ s # <<>> => max' = max

(* The plan of every request is sound.                                     *)
LEMMA RequestPlans ==
  ASSUME StageTypes, Request
  PROVE  \E s : TakesPlan(s)
  <1>1. /\ step \in [Axis -> StepSize] /\ max \in [Axis -> Limit]
        /\ Target \subseteq Int /\ StepSize \subseteq Int
        /\ 0 \in Axis /\ 1 \in Axis
    BY StageAssumption DEF StageTypes, TypeOK, StageAssumption, Axis
  <1>2. \A s : PlanIsSound(s) /\ Take(s) /\ UNCHANGED <<step, max>>
                 /\ (s # <<>> => s[1].part # "forward")
               => TakesPlan(s)
    BY <1>1 DEF TakesPlan, ForwardFits
  <1>0. ASSUME NEW a \in Axis
        PROVE  /\ step[a] \in Int /\ -step[a] \in Int
               /\ max[a] \in Int /\ known[a] \in Int
    <2>1. step[a] \in StepSize /\ max[a] \in Limit
      BY <1>1
    <2>2. step[a] \in Int /\ max[a] \in Int
      BY <2>1, StageAssumption DEF StageAssumption
    <2>3. known[a] \in Int
      BY DEF StageTypes, TypeOK
    <2> QED
      BY <2>2, <2>3
  <1>3. CASE MoveToPosition
    <2>1. PICK p \in [Axis -> Target] :
            /\ Take(<<MovePosition(0, p[0]), MovePosition(1, p[1]),
                      GetPosition>>)
            /\ UNCHANGED <<step, max>>
      BY <1>3 DEF MoveToPosition
    <2>2. p[0] \in Int /\ p[1] \in Int
      BY <1>1
    <2> DEFINE s == <<MovePosition(0, p[0]), MovePosition(1, p[1]),
                      GetPosition>>
    <2>3. s[1].part = "request"
      BY <1>1, <2>2, Commands
    <2>4. PlanIsSound(s)
      BY <2>2, PlainPlans
    <2> HIDE DEF s
    <2> QED
      BY <1>2, <2>1, <2>3, <2>4 DEF s
  <1>4. CASE MoveForward
    <2>1. PICK a \in Axis :
            /\ Take(IF known[a] + step[a] > max[a]
                    THEN <<>> ELSE <<Forward(a, step[a]), GetPosition>>)
            /\ UNCHANGED <<step, max>>
      BY <1>4 DEF MoveForward
    <2>2. /\ step[a] \in Int
          /\ max[a] \in Int /\ known[a] \in Int
      BY <1>0
    <2>3. CASE known[a] + step[a] > max[a]
      BY <1>2, <2>1, <2>3, PlainPlans
    <2>4. CASE ~(known[a] + step[a] > max[a])
      <3> DEFINE s == <<Forward(a, step[a]), GetPosition>>
      <3>1. Take(s)
        BY <2>1, <2>4
      <3>2. PlanIsSound(s)
        BY <2>2, PlainPlans
      <3>3. s[1].axis = a /\ s[1].n = step[a] /\ s # <<>>
        BY <2>2, Commands
      <3> HIDE DEF s
      <3>4. ForwardFits(s)
        BY <2>2, <2>4, <3>3 DEF ForwardFits
      <3> QED
        BY <1>1, <2>1, <3>1, <3>2, <3>4 DEF TakesPlan
    <2> QED
      BY <2>3, <2>4
  <1>5. CASE MoveBack
    <2>1. PICK a \in Axis :
            /\ Take(<<MoveDistance(a, -step[a]), GetPosition>>)
            /\ UNCHANGED <<step, max>>
      BY <1>5 DEF MoveBack
    <2>2. -step[a] \in Int
      BY <1>0
    <2> DEFINE s == <<MoveDistance(a, -step[a]), GetPosition>>
    <2>3. s[1].part = "request"
      BY <2>2, Commands
    <2>4. PlanIsSound(s)
      BY <2>2, PlainPlans
    <2> HIDE DEF s
    <2> QED
      BY <1>2, <2>1, <2>3, <2>4 DEF s
  <1>6. CASE SetMoveStep
    <2>1. /\ Take(<<>>) /\ max' = max /\ step' \in [Axis -> StepSize]
      BY <1>1, <1>6 DEF SetMoveStep
    <2> QED
      BY <1>1, <2>1, PlainPlans DEF TakesPlan, ForwardFits
  <1>7. CASE SetMax
    <2>1. /\ Take(<<>>) /\ step' = step /\ max' \in [Axis -> Limit]
      BY <1>1, <1>7 DEF SetMax
    <2> QED
      BY <1>1, <2>1, PlainPlans DEF TakesPlan, ForwardFits
  <1>8. CASE SetZeroRequest
    <2> DEFINE s == <<MustSetZero(0), MustSetZero(1), GetPosition>>
    <2>1. Take(s) /\ UNCHANGED <<step, max>>
      BY <1>8 DEF SetZeroRequest
    <2>2. s[1].part = "request"
      BY <1>1, Commands
    <2>3. PlanIsSound(s)
      BY PlainPlans
    <2> HIDE DEF s
    <2> QED
      BY <1>2, <2>1, <2>2, <2>3
  <1>9. CASE ResetPosition
    <2> DEFINE t == <<GetPosition>>
               s == Reset(0) \o Reset(1) \o t
    <2>1. Take(s) /\ UNCHANGED <<step, max>>
      BY <1>9 DEF ResetPosition
    <2>2. /\ t \in Seq(Order) /\ Len(t) > 0 /\ t[1].op = "GetPosition"
          /\ \A k \in DOMAIN t : t[k].op \notin Moves /\ t[k].part = "request"
      BY Commands DEF Moves
    <2> HIDE DEF t
    <2>3. IsReset(Reset(0), 0) /\ IsReset(Reset(1), 1)
      BY <1>1, ResetIsReset
    <2>4. PlanIsSound(s)
      BY <1>1, <2>2, <2>3, ResetPlans
    <2>5. \A k \in DOMAIN s : s[k].part = "forward" => k = 1
      BY <2>4 DEF PlanIsSound, ForwardFirst
    <2>6. s # <<>> => s[1].part # "forward"
      <3>1. s[1] = Reset(0)[1]
        <4>1. /\ Reset(0) \in Seq(Order) /\ Reset(1) \in Seq(Order)
              /\ Len(Reset(0)) = 4
          BY <2>3 DEF IsReset
        <4> QED
          BY <2>2, <4>1
      <3> QED
        BY <2>3, <3>1 DEF IsReset
    <2> HIDE DEF s
    <2> QED
      BY <1>2, <2>1, <2>4, <2>6
  <1>10. CASE SetLightBrightness
    <2> DEFINE s == <<SetLight>>
    <2>1. Take(s) /\ UNCHANGED <<step, max>>
      BY <1>10 DEF SetLightBrightness
    <2>2. s[1].part = "request"
      BY Commands
    <2>3. PlanIsSound(s)
      BY PlainPlans
    <2> HIDE DEF s
    <2> QED
      BY <1>2, <2>1, <2>2, <2>3
  <1> QED
    BY <1>3, <1>4, <1>5, <1>6, <1>7, <1>8, <1>9, <1>10 DEF Request

(* So is the plan of the set-up, which is at work when the server starts.  *)
LEMMA SetUpIsSound == PlanIsSound(SetUp)
  <1> DEFINE t == <<GetPosition, SetLight>>
             p == Lenient(Reset(0))
             q == Lenient(Reset(1))
  <1>1. /\ t \in Seq(Order) /\ Len(t) > 0 /\ t[1].op = "GetPosition"
        /\ \A k \in DOMAIN t : t[k].op \notin Moves /\ t[k].part = "request"
    BY Commands DEF Moves
  <1>2. 0 \in Axis /\ 1 \in Axis
    BY DEF Axis
  <1>3. IsReset(p, 0) /\ IsReset(q, 1)
    BY <1>2, ResetIsReset
  <1> HIDE DEF t, p, q
  <1>4. PlanIsSound(p \o q \o t)
    BY <1>1, <1>2, <1>3, ResetPlans
  <1> QED
    BY <1>4 DEF SetUp, p, q, t

(* The end of a sequence.                                                  *)
LEMMA TailOf ==
  ASSUME NEW s \in Seq(Order), s # <<>>
  PROVE  /\ Head(s) \in Order /\ Head(s) = s[1] /\ Tail(s) \in Seq(Order)
         /\ Len(s) \in Nat \ {0} /\ Len(Tail(s)) = Len(s) - 1
         /\ DOMAIN Tail(s) = 1 .. (Len(s) - 1)
         /\ \A k \in 1 .. (Len(s) - 1) : Tail(s)[k] = s[k + 1]
  OBVIOUS

(* What the stage adds to the channel keeps its types, too.                *)
LEMMA StageTypesStep ==
  ASSUME StageTypes, [StageNext]_stageVars
  PROVE  StageTypes'
  <1>1. ChannelTypeOK'
    BY StageStep, StepTypes DEF StageTypes, TypeOK
  <1>2. /\ ChannelTypeOK
        /\ todo \in Seq(Nat) /\ replies \in Seq(Nat)
        /\ Len(orders) = Len(todo) /\ Len(readings) = Len(replies)
        /\ orders \in Seq(Order) /\ readings \in Seq(Reading)
        /\ plan \in Seq(Order)
    BY DEF StageTypes, TypeOK, ChannelTypeOK
  <1>3. CASE Request
    <2>1. PICK s : TakesPlan(s)
      BY <1>3, RequestPlans
    <2>2. /\ UNCHANGED <<todo, replies, orders, readings, place, zero, known,
                         handMoves, stray, waiting>>
          /\ requests' = requests + 1 /\ requests < MaxRequests
          /\ plan' = s /\ ~waiting
      BY <2>1 DEF TakesPlan, Take, channelVars, deviceVars, Idle
    <2>3. requests' \in 0 .. MaxRequests
      BY <2>2, StageAssumption DEF StageTypes, TypeOK, StageAssumption
    <2>4. s \in Seq(Order) /\ step' \in [Axis -> StepSize]
          /\ max' \in [Axis -> Limit]
      BY <2>1 DEF TakesPlan, PlanIsSound
    <2> QED
      BY <1>1, <2>2, <2>3, <2>4 DEF StageTypes, TypeOK
  <1>4. CASE SendCommand
    <2>1. /\ todo' = Append(todo, sent + 1)
          /\ orders' = Append(orders, Head(plan)) /\ plan # <<>>
          /\ UNCHANGED <<replies, readings, place, zero, handMoves, stray,
                         settingVars, plan, known>>
      BY <1>4 DEF SendCommand, Send
    <2>2. Head(plan) \in Order
      BY <1>2, <2>1, TailOf
    <2>3. orders' \in Seq(Order) /\ Len(orders') = Len(orders) + 1
      BY <1>2, <2>1, <2>2
    <2>4. Len(todo') = Len(todo) + 1
      <3>1. sent + 1 \in Nat
        BY <1>2 DEF ChannelTypeOK
      <3> QED
        BY <1>2, <2>1, <3>1
    <2> QED
      BY <1>1, <1>2, <2>1, <2>3, <2>4 DEF StageTypes, TypeOK, settingVars
  <1>5. CASE TakeReply
    <2>1. /\ replies # <<>> /\ replies' = Tail(replies) /\ waiting' = FALSE
          /\ readings' = Tail(readings)
          /\ known' \in {Head(readings), known}
          /\ plan' = Tail(plan) /\ waiting
          /\ UNCHANGED <<todo, orders, place, zero, handMoves, stray,
                         settingVars>>
      BY <1>5 DEF TakeReply, Receive
    <2>2. Len(replies') = Len(replies) - 1 /\ Len(replies) > 0
      BY <1>2, <2>1
    <2>3. readings # <<>>
      BY <1>2, <2>2
    <2>4. /\ Head(readings) \in Reading /\ Tail(readings) \in Seq(Reading)
          /\ Len(readings') = Len(readings) - 1
      BY <1>2, <2>1, <2>3
    <2>5. plan # <<>>
      BY <2>1 DEF StageTypes
    <2>6. plan' \in Seq(Order)
      BY <1>2, <2>1, <2>5, TailOf
    <2>7. known' \in [Axis -> Int]
      BY <2>1, <2>4 DEF StageTypes, TypeOK, Reading
    <2> QED
      BY <1>1, <1>2, <2>1, <2>2, <2>4, <2>6, <2>7
         DEF StageTypes, TypeOK, settingVars
  <1>6. CASE TimeOut
    <2>1. /\ waiting /\ waiting' = FALSE
          /\ plan' \in {<<>>, Tail(plan)}
          /\ UNCHANGED <<todo, replies, deviceVars, settingVars, known>>
      BY <1>6 DEF TimeOut, GiveUp
    <2>2. plan # <<>>
      BY <2>1 DEF StageTypes
    <2>3. plan' \in Seq(Order)
      BY <1>2, <2>1, <2>2, TailOf, PlainPlans DEF PlanIsSound
    <2> QED
      BY <1>1, <1>2, <2>1, <2>3
         DEF StageTypes, TypeOK, deviceVars, settingVars
  <1>7. CASE Perform
    <2> DEFINE c == Head(orders)
    <2>1. /\ todo # <<>> /\ todo' = Tail(todo)
          /\ replies' = Append(replies, Head(todo))
          /\ place' = [place EXCEPT ![c.axis] = PlaceAfter(c)]
          /\ zero' = IF c.op = "SetZero"
                     THEN [zero EXCEPT ![c.axis] = place[c.axis]] ELSE zero
          /\ readings' = Append(readings, ReplyText(c))
          /\ orders' = Tail(orders)
          /\ UNCHANGED <<waiting, handMoves, settingVars, plan, known>>
      BY <1>7 DEF Perform, Execute
    <2>2. Len(todo') = Len(todo) - 1 /\ Len(todo) > 0 /\ Head(todo) \in Nat
      BY <1>2, <2>1
    <2>3. orders # <<>>
      BY <1>2, <2>2
    <2>4. /\ c \in Order /\ orders' \in Seq(Order)
          /\ Len(orders') = Len(orders) - 1
      BY <1>2, <2>1, <2>3, TailOf
    <2>5. Len(replies') = Len(replies) + 1
      BY <1>2, <2>1, <2>2
    <2>6. /\ place \in [Axis -> Place] /\ zero \in [Axis -> Place]
          /\ Place \subseteq Int /\ c.axis \in Axis
      <3>1. c.axis \in Axis
        BY <2>4 DEF Order
      <3> QED
        BY <3>1, StageAssumption DEF StageTypes, TypeOK, Place
    <2>7. ReplyText(c) \in Reading
      <3>1. \A a \in Axis : place[a] \in Int /\ zero[a] \in Int
        BY <2>6
      <3>2. Coordinate \in Reading
        BY <3>1 DEF Coordinate, Reading
      <3>3. [a \in Axis |-> 0] \in Reading
        BY DEF Reading
      <3> QED
        BY <3>2, <3>3 DEF ReplyText
    <2>8. readings' \in Seq(Reading) /\ Len(readings') = Len(readings) + 1
      BY <1>2, <2>1, <2>7
    <2>9. PlaceAfter(c) \in Place
      <3>1. place[c.axis] \in Int /\ zero[c.axis] \in Int /\ c.n \in Int
        BY <2>4, <2>6 DEF Order
      <3>2. \A p \in Int : Clamp(p) \in Place
        BY StageAssumption DEF Clamp, Place, StageAssumption
      <3>3. /\ place[c.axis] + c.n \in Int /\ zero[c.axis] + c.n \in Int
            /\ place[c.axis] \in Place
        BY <2>6, <3>1
      <3> QED
        BY <3>2, <3>3 DEF PlaceAfter
    <2>10. place' \in [Axis -> Place] /\ zero' \in [Axis -> Place]
      BY <2>1, <2>6, <2>9
    <2>11. stray' \in BOOLEAN
      <3>1. stray' = (stray /\ c.op # "GetPosition")
        BY <1>7 DEF Perform
      <3> QED
        BY ONLY <3>1, Zenon
    <2> HIDE DEF c
    <2> QED
      BY <1>1, <1>2, <2>1, <2>2, <2>4, <2>5, <2>8, <2>10, <2>11
         DEF StageTypes, TypeOK, settingVars
  <1>8. CASE HandMove
    <2>1. /\ handMoves' \in 0 .. MaxHandMoves /\ stray' = TRUE
          /\ place' \in [Axis -> Place]
          /\ UNCHANGED <<channelVars, orders, readings, zero, settingVars,
                         plan, known>>
      BY <1>8, StageAssumption
         DEF HandMove, StageTypes, TypeOK, StageAssumption
    <2> QED
      BY <1>1, <1>2, <2>1 DEF StageTypes, TypeOK, channelVars, settingVars
  <1>9. CASE Unplug
    <2>1. PICK k \in 0 .. Len(replies) :
            BreakAfter(k) /\ readings' = SubSeq(readings, 1, k)
      BY <1>9 DEF Unplug
    <2>2. /\ todo' = <<>> /\ orders' = <<>>
          /\ replies' = SubSeq(replies, 1, k)
          /\ UNCHANGED <<waiting, place, zero, handMoves, stray, settingVars,
                         plan, known>>
      BY <1>9, <2>1 DEF Unplug, BreakAfter
    <2>3. /\ readings' \in Seq(Reading) /\ Len(readings') = k
          /\ Len(replies') = k
      BY <1>2, <2>1, <2>2
    <2>4. orders' \in Seq(Order) /\ Len(orders') = Len(todo')
      BY <2>2
    <2> QED
      BY <1>1, <1>2, <2>2, <2>3, <2>4 DEF StageTypes, TypeOK, settingVars
  <1>10. CASE Rest \/ UNCHANGED stageVars
    BY <1>1, <1>10 DEF Rest, stageVars, channelVars, deviceVars, settingVars,
                       StageTypes, TypeOK
  <1> QED
    BY <1>3, <1>4, <1>5, <1>6, <1>7, <1>8, <1>9, <1>10 DEF StageNext

(* Whatever the replies say and the device does, places stay within the    *)
(* travel, and every command still expected is one the server can send.    *)
THEOREM StageTypesHold == StageSpec => []StageTypes
  <1>1. StageInit => StageTypes
    <2> SUFFICES ASSUME StageInit PROVE StageTypes
      OBVIOUS
    <2>1. ChannelTypeOK
      <3>1. ChannelInit
        BY DEF StageInit, ChannelInit
      <3> QED
        BY <3>1, InitOutstanding DEF IInv
    <2>2. /\ <<>> \in Seq(Order) /\ <<>> \in Seq(Reading)
          /\ \A a \in Axis : TRUE
      OBVIOUS
    <2>3. /\ orders = <<>> /\ readings = <<>> /\ todo = <<>> /\ replies = <<>>
          /\ waiting = FALSE /\ plan = SetUp
          /\ place \in [Axis -> Place] /\ zero \in [Axis -> Place]
          /\ known \in [Axis -> Int]
          /\ requests = 0 /\ handMoves = 0 /\ stray = FALSE
      BY DEF StageInit
    <2>4. /\ step \in [Axis -> StepSize] /\ max \in [Axis -> Limit]
      BY DEF StageInit
    <2>5. 0 \in 0 .. MaxRequests /\ 0 \in 0 .. MaxHandMoves
      BY StageAssumption DEF StageAssumption
    <2>6. plan \in Seq(Order)
      BY <2>3, SetUpIsSound DEF PlanIsSound
    <2> QED
      BY <2>1, <2>2, <2>3, <2>4, <2>5, <2>6 DEF StageTypes, TypeOK
  <1> QED
    BY <1>1, StageTypesStep, PTL DEF StageSpec

(* As long as nothing has timed out, one command at a time is on its way   *)
(* to the device or back.                                                  *)
LEMMA OneCommand ==
  ASSUME StageTypes, IInv, Accounting, timeouts = 0
  PROVE  /\ ~waiting => orders = <<>> /\ replies = <<>>
         /\ orders # <<>> => waiting /\ replies = <<>> /\ Len(orders) = 1
         /\ replies # <<>> => waiting /\ orders = <<>> /\ Len(readings) = 1
  <1>1. /\ Len(orders) = Len(todo) /\ Len(readings) = Len(replies)
        /\ orders \in Seq(Order) /\ readings \in Seq(Reading)
        /\ todo \in Seq(Nat) /\ replies \in Seq(Nat)
    BY DEF StageTypes, TypeOK, ChannelTypeOK
  <1>2. /\ Len(orders) \in Nat /\ Len(replies) \in Nat
        /\ Len(orders) = 0 <=> orders = <<>>
        /\ Len(replies) = 0 <=> replies = <<>>
    BY <1>1
  <1>3. Len(replies) + Len(orders) <= IF waiting THEN 1 ELSE 0
    <2>1. last.reply \in Nat /\ sent \in Nat
      BY DEF IInv, ChannelTypeOK
    <2>2. last.reply + (Len(replies) + Len(orders)) <= sent
      BY <1>1 DEF IInv, Outstanding
    <2>3. sent = last.reply + (IF waiting THEN 1 ELSE 0)
      BY <2>1 DEF Accounting
    <2> QED
      BY <1>2, <2>1, <2>2, <2>3
  <1> QED
    BY <1>1, <1>2, <1>3

\* What a plan promises stays promised when its first command is done.
LEMMA TailKeeps ==
  ASSUME NEW s \in Seq(Order), s # <<>>, ReadsAfterMoves(s), ForwardFirst(s)
  PROVE  /\ ReadsAfterMoves(Tail(s)) /\ ForwardFirst(Tail(s))
         /\ \A k \in DOMAIN Tail(s) : Tail(s)[k].part # "forward"
  <1>1. /\ DOMAIN Tail(s) = 1 .. (Len(s) - 1) /\ DOMAIN s = 1 .. Len(s)
        /\ Len(s) \in Nat
        /\ \A k \in 1 .. (Len(s) - 1) : Tail(s)[k] = s[k + 1]
    BY TailOf
  <1>2. ReadsAfterMoves(Tail(s))
    <2> SUFFICES ASSUME NEW k \in DOMAIN Tail(s), Tail(s)[k].op \in Moves
                 PROVE  \E l \in DOMAIN Tail(s) :
                          k < l /\ Tail(s)[l].op = "GetPosition"
      BY DEF ReadsAfterMoves
    <2>1. k \in Nat /\ k + 1 \in DOMAIN s /\ s[k + 1].op \in Moves
      BY <1>1
    <2>2. PICK l \in DOMAIN s : k + 1 < l /\ s[l].op = "GetPosition"
      BY <2>1 DEF ReadsAfterMoves
    <2>3. l - 1 \in DOMAIN Tail(s) /\ k < l - 1 /\ Tail(s)[l - 1] = s[l]
      BY <1>1, <2>1, <2>2
    <2> QED
      BY <2>2, <2>3
  <1>3. \A k \in DOMAIN Tail(s) : Tail(s)[k].part # "forward"
    BY <1>1 DEF ForwardFirst
  <1> QED
    BY <1>2, <1>3 DEF ForwardFirst

\* A reading that is to come is still to come when another command is done.
LEMMA TailReads ==
  ASSUME NEW s \in Seq(Order), s # <<>>, s[1].op # "GetPosition",
         NEW l \in DOMAIN s, s[l].op = "GetPosition"
  PROVE  \E k \in DOMAIN Tail(s) : Tail(s)[k].op = "GetPosition"
  <1>1. /\ DOMAIN Tail(s) = 1 .. (Len(s) - 1) /\ DOMAIN s = 1 .. Len(s)
        /\ Len(s) \in Nat
        /\ \A k \in 1 .. (Len(s) - 1) : Tail(s)[k] = s[k + 1]
    BY TailOf
  <1>2. l # 1
    OBVIOUS
  <1>3. l - 1 \in DOMAIN Tail(s) /\ Tail(s)[l - 1] = s[l]
    BY <1>1, <1>2
  <1> QED
    BY <1>3

\* Steps that do not move the stage.
LEMMA SameCoordinate == UNCHANGED <<place, zero>> => Coordinate' = Coordinate
  BY DEF Coordinate

(* What the server knows stays true until the stage moves; before it does, *)
(* a reading of the position is planned.                                   *)
LEMMA KnownStep ==
  ASSUME StageTypes, StageTypes', IInv, Accounting, IInv', Accounting',
         KnownInv, [StageNext]_stageVars
  PROVE  KnownInv'
  <1>1. /\ plan \in Seq(Order) /\ orders \in Seq(Order)
        /\ readings \in Seq(Reading) /\ replies \in Seq(Nat)
        /\ Len(readings) = Len(replies)
        /\ timeouts \in Nat
    BY DEF StageTypes, TypeOK, ChannelTypeOK
  <1>2. CASE Request
    <2>1. PICK s : TakesPlan(s)
      BY <1>2, RequestPlans
    <2>2. /\ UNCHANGED <<timeouts, waiting, replies, orders, readings, stray,
                         known, place, zero>>
          /\ plan' = s /\ plan = <<>> /\ ~waiting
      BY <2>1 DEF TakesPlan, Take, Idle, channelVars, deviceVars
    <2>3. ReadsAfterMoves(plan') /\ ForwardFirst(plan')
      BY <2>1, <2>2 DEF TakesPlan, PlanIsSound
    <2>4. timeouts = 0 => orders = <<>> /\ replies = <<>>
      BY <2>2, OneCommand
    <2>5. timeouts = 0 /\ ~stray => known = Coordinate
      BY <2>2 DEF KnownInv, ReadPending
    <2> QED
      BY <2>2, <2>3, <2>4, <2>5, SameCoordinate DEF KnownInv
  <1>3. CASE SendCommand
    <2>1. /\ UNCHANGED <<plan, timeouts, replies, readings, stray, known,
                         place, zero>>
          /\ plan # <<>> /\ ~waiting /\ waiting'
          /\ orders' = Append(orders, Head(plan))
      BY <1>3 DEF SendCommand, Send
    <2>2. timeouts = 0 => orders' = <<plan[1]>>
      BY <1>1, <2>1, OneCommand
    <2>3. timeouts = 0 => orders'[1] = plan'[1]
      BY <2>1, <2>2
    <2> QED
      BY <2>1, <2>3, SameCoordinate DEF KnownInv, ReadPending
  <1>4. CASE TakeReply
    <2>1. /\ waiting /\ waiting' = FALSE /\ replies # <<>>
          /\ known' = IF Head(plan).op = "GetPosition"
                      THEN Head(readings) ELSE known
          /\ plan' = Tail(plan) /\ replies' = Tail(replies)
          /\ UNCHANGED <<timeouts, orders, stray, place, zero>>
      BY <1>4 DEF TakeReply, Receive
    <2>2. plan # <<>> /\ Head(plan) = plan[1]
      BY <1>1, <2>1, TailOf DEF StageTypes
    <2>3. ReadsAfterMoves(plan') /\ ForwardFirst(plan')
      BY <1>1, <2>1, <2>2, TailKeeps DEF KnownInv
    <2>4. timeouts = 0 => orders' = <<>> /\ replies' = <<>>
      <3> SUFFICES ASSUME timeouts = 0 PROVE orders' = <<>> /\ replies' = <<>>
        OBVIOUS
      <3>1. orders = <<>> /\ Len(replies) = 1
        BY <1>1, <2>1, OneCommand
      <3>2. Tail(replies) \in Seq(Nat) /\ Len(Tail(replies)) = 0
        BY <1>1, <2>1, <3>1
      <3> QED
        BY <2>1, <3>1, <3>2
    <2>5. ASSUME timeouts = 0, ~stray
          PROVE  ReadPending' \/ known' = Coordinate
      <3>1. CASE plan[1].op = "GetPosition"
        <4>1. readings[1] = Coordinate
          BY <2>1, <2>5, <3>1 DEF KnownInv
        <4>2. Head(readings) = readings[1]
          BY <1>1, <2>1, <2>5, OneCommand
        <4> QED
          BY <2>1, <2>2, <3>1, <4>1, <4>2
      <3>2. CASE plan[1].op # "GetPosition"
        <4>1. known' = known
          BY <2>1, <2>2, <3>2
        <4>2. CASE known = Coordinate
          BY <4>1, <4>2
        <4>3. CASE ReadPending
          BY <1>1, <2>1, <2>2, <3>2, <4>3, TailReads DEF ReadPending
        <4> QED
          BY <2>5, <4>2, <4>3 DEF KnownInv
      <3> QED
        BY <3>1, <3>2
    <2> QED
      BY <2>1, <2>3, <2>4, <2>5, SameCoordinate DEF KnownInv
  <1>5. CASE TimeOut
    <2>1. waiting /\ plan' \in {<<>>, Tail(plan)} /\ timeouts' = timeouts + 1
      BY <1>5 DEF TimeOut, GiveUp
    <2>2. plan # <<>>
      BY <2>1 DEF StageTypes
    <2>3. ReadsAfterMoves(plan') /\ ForwardFirst(plan')
      BY <1>1, <2>1, <2>2, TailKeeps, PlainPlans DEF KnownInv, PlanIsSound
    <2>4. timeouts' # 0
      BY <1>1, <2>1
    <2> QED
      BY <2>3, <2>4 DEF KnownInv
  <1>6. CASE Perform
    <2> DEFINE c == Head(orders)
    <2>1. /\ place' = [place EXCEPT ![c.axis] = PlaceAfter(c)]
          /\ zero' = IF c.op = "SetZero"
                     THEN [zero EXCEPT ![c.axis] = place[c.axis]] ELSE zero
          /\ readings' = Append(readings, ReplyText(c))
          /\ stray' = (stray /\ c.op # "GetPosition")
          /\ orders' = Tail(orders) /\ todo # <<>>
          /\ UNCHANGED <<timeouts, waiting, plan, known>>
      BY <1>6 DEF Perform, Execute
    <2>2. orders # <<>>
      BY <1>1, <2>1 DEF StageTypes, TypeOK, ChannelTypeOK
    <2>3. SUFFICES ASSUME timeouts = 0 PROVE KnownInv'
      BY <2>1 DEF KnownInv
    <2>4. /\ Len(orders) = 1 /\ replies = <<>> /\ readings = <<>>
          /\ orders[1] = plan[1] /\ waiting
      <3>1. Len(orders) = 1 /\ replies = <<>>
        BY <2>2, <2>3, OneCommand
      <3>2. readings = <<>>
        BY <1>1, <3>1
      <3> QED
        BY <2>2, <2>3, <3>1, <3>2 DEF KnownInv
    <2>5. c = plan[1] /\ orders' = <<>> /\ readings' = <<ReplyText(c)>>
      BY <1>1, <2>1, <2>2, <2>4
    <2>6. plan # <<>> /\ 1 \in DOMAIN plan /\ plan[1] \in Order
      BY <1>1, <2>4 DEF StageTypes
    <2>7. place \in [Axis -> Place] /\ zero \in [Axis -> Place]
      BY DEF StageTypes, TypeOK
    <2>8. c.op \notin Moves => UNCHANGED <<place, zero>>
      BY <2>1, <2>7 DEF PlaceAfter, Moves
    <2>9. CASE c.op \in Moves
      <3>1. ReadPending
        BY <2>5, <2>6, <2>9 DEF KnownInv, ReadsAfterMoves, ReadPending
      <3>2. plan'[1].op # "GetPosition"
        BY <2>1, <2>5, <2>9 DEF Moves
      <3> QED
        BY <2>1, <2>5, <3>1, <3>2 DEF KnownInv, ReadPending
    <2>10. CASE c.op = "GetPosition"
      <3>1. readings'[1] = Coordinate' /\ ReadPending
        BY <2>5, <2>6, <2>8, <2>10, SameCoordinate
           DEF ReplyText, Moves, ReadPending
      <3> QED
        BY <2>1, <2>5, <3>1 DEF KnownInv, ReadPending
    <2>11. CASE c.op \notin Moves /\ c.op # "GetPosition"
      <3>1. Coordinate' = Coordinate /\ (~stray' => ~stray)
        BY <2>1, <2>8, <2>11, SameCoordinate
      <3>2. plan'[1].op # "GetPosition"
        BY <2>1, <2>5, <2>11
      <3> QED
        BY <2>1, <2>3, <2>5, <3>1, <3>2 DEF KnownInv, ReadPending
    <2> QED
      BY <2>9, <2>10, <2>11
  <1>7. CASE HandMove
    BY <1>7 DEF HandMove, KnownInv, channelVars
  <1>8. CASE Unplug
    <2>1. PICK k \in 0 .. Len(replies) :
            BreakAfter(k) /\ readings' = SubSeq(readings, 1, k)
      BY <1>8 DEF Unplug
    <2>2. /\ orders' = <<>> /\ replies' = SubSeq(replies, 1, k)
          /\ UNCHANGED <<plan, timeouts, stray, known, place, zero>>
      BY <1>8, <2>1 DEF Unplug, BreakAfter
    <2>3. replies' # <<>> => replies # <<>> /\ readings'[1] = readings[1]
      BY <1>1, <2>1, <2>2
    <2> QED
      BY <2>2, <2>3, SameCoordinate DEF KnownInv, ReadPending
  <1>9. CASE Rest \/ UNCHANGED stageVars
    <2>1. UNCHANGED <<plan, orders, waiting, timeouts, stray, known, place,
                      zero, replies, readings>>
      BY <1>9 DEF Rest, stageVars, channelVars, deviceVars
    <2> QED
      BY <2>1, SameCoordinate DEF KnownInv, ReadPending
  <1> QED
    BY <1>2, <1>3, <1>4, <1>5, <1>6, <1>7, <1>8, <1>9 DEF StageNext

(* What was tested before a forward move still holds when it is executed.  *)
LEMMA ForwardStep ==
  ASSUME StageTypes, StageTypes', KnownInv, ForwardInv, [StageNext]_stageVars
  PROVE  ForwardInv'
  <1>1. plan \in Seq(Order)
    BY DEF StageTypes
  <1>2. CASE Request
    <2>1. PICK s : TakesPlan(s)
      BY <1>2, RequestPlans
    <2>2. /\ UNCHANGED <<timeouts, up, replies, stray, known, place, zero>>
          /\ plan' = s /\ plan = <<>>
      BY <2>1 DEF TakesPlan, Take, Idle, channelVars, deviceVars
    <2>3. timeouts = 0 /\ ~stray => known = Coordinate
      BY <2>2 DEF KnownInv, ReadPending
    <2>4. plan' # <<>> /\ plan'[1].part = "forward" =>
            known'[plan'[1].axis] + plan'[1].n <= max'[plan'[1].axis]
      BY <2>1, <2>2 DEF TakesPlan, ForwardFits
    <2> QED
      BY <2>2, <2>3, <2>4, SameCoordinate DEF ForwardInv
  <1>3. CASE SendCommand
    <2>1. UNCHANGED <<plan, known, max, up, timeouts, stray, replies, place,
                      zero>>
      BY <1>3 DEF SendCommand, Send, settingVars
    <2> QED
      BY <2>1, SameCoordinate DEF ForwardInv
  <1>4. CASE TakeReply \/ TimeOut
    <2>1. waiting /\ plan' \in {<<>>, Tail(plan)}
      BY <1>4 DEF TakeReply, TimeOut, Receive, GiveUp
    <2>2. plan # <<>>
      BY <2>1 DEF StageTypes
    <2>3. /\ \A k \in DOMAIN Tail(plan) : Tail(plan)[k].part # "forward"
          /\ Tail(plan) \in Seq(Order)
      BY <1>1, <2>2, TailKeeps, TailOf DEF KnownInv
    <2>4. plan' # <<>> => plan'[1].part # "forward"
      BY <2>1, <2>3
    <2> QED
      BY <2>4 DEF ForwardInv
  <1>5. CASE Perform
    <2>1. UNCHANGED <<plan, known, max>> /\ replies' # <<>>
      <3>1. /\ todo # <<>> /\ replies' = Append(replies, Head(todo))
            /\ UNCHANGED <<plan, known, max>>
        BY <1>5 DEF Perform, Execute, settingVars
      <3>2. /\ todo \in Seq(Nat) /\ replies \in Seq(Nat)
        BY DEF StageTypes, TypeOK, ChannelTypeOK
      <3> QED
        BY <3>1, <3>2
    <2> QED
      BY <2>1 DEF ForwardInv
  <1>6. CASE HandMove
    BY <1>6 DEF HandMove, ForwardInv, settingVars
  <1>7. CASE Unplug
    BY <1>7 DEF Unplug, BreakAfter, ForwardInv, settingVars
  <1>8. CASE Rest \/ UNCHANGED stageVars
    <2>1. UNCHANGED <<plan, known, max, up, timeouts, stray, replies, place,
                      zero>>
      BY <1>8 DEF Rest, stageVars, channelVars, deviceVars, settingVars
    <2> QED
      BY <2>1, SameCoordinate DEF ForwardInv
  <1> QED
    BY <1>2, <1>3, <1>4, <1>5, <1>6, <1>7, <1>8 DEF StageNext

-----------------------------------------------------------------------------
(* Reaching the limit switch.                                              *)

(* The commands of a new plan come with their moves.                       *)
LEMMA HomeAppend ==
  ASSUME NEW s \in Seq(Order), NEW t \in Seq(Order), OnTheWayHome(s),
         ResetMovesBefore(t), WholeResets(t)
  PROVE  OnTheWayHome(s \o t)
  <1> DEFINE r == s \o t
  <1>1. /\ Len(s) \in Nat /\ Len(t) \in Nat
        /\ DOMAIN r = 1 .. (Len(s) + Len(t))
        /\ DOMAIN s = 1 .. Len(s) /\ DOMAIN t = 1 .. Len(t)
        /\ \A k \in 1 .. Len(s) : r[k] = s[k]
        /\ \A k \in 1 .. Len(t) : r[Len(s) + k] = t[k]
    BY Concat
  <1> HIDE DEF r
  <1>2. ASSUME NEW k \in DOMAIN r, r[k].part = "reset"
        PROVE  /\ r[k].op = "SetZero"
               /\ \A j \in 1 .. 3 : j < k =>
                    IsMove(r[k - j], r[k].axis, ResetDistance(j))
               /\ k \in {1, 3} => place[r[k].axis] = 0
               /\ k = 2 => place[r[k].axis] <= 1
    <2>1. CASE k \in 1 .. Len(s)
      <3>1. r[k] = s[k] /\ \A j \in 1 .. 3 : j < k => r[k - j] = s[k - j]
        BY <1>1, <2>1
      <3> QED
        BY <1>1, <1>2, <2>1, <3>1 DEF OnTheWayHome, ResetMovesBefore, Homing
    <2>2. CASE k \notin 1 .. Len(s)
      <3>1. PICK m \in 1 .. Len(t) : k = Len(s) + m
        <4>1. k - Len(s) \in 1 .. Len(t) /\ k = Len(s) + (k - Len(s))
          BY <1>1, <2>2
        <4> QED
          BY <4>1
      <3>2. r[k] = t[m] /\ m \in DOMAIN t
        BY <1>1, <3>1
      <3>3. m > 3
        BY <1>2, <3>2 DEF WholeResets
      <3>4. ASSUME NEW j \in 1 .. 3
            PROVE  j < m /\ r[k - j] = t[m - j]
        <4>1. j < m /\ m - j \in 1 .. Len(t) /\ Len(s) + (m - j) = k - j
          BY <1>1, <3>1, <3>3
        <4> QED
          BY <1>1, <4>1
      <3>5. k > 3
        BY <1>1, <3>1, <3>3
      <3>6. /\ t[m].op = "SetZero"
            /\ \A j \in 1 .. 3 : j < m =>
                 IsMove(t[m - j], t[m].axis, ResetDistance(j))
        BY <1>2, <3>2 DEF ResetMovesBefore
      <3> QED
        BY <3>2, <3>4, <3>5, <3>6
    <2> QED
      BY <2>1, <2>2
  <1>3. OnTheWayHome(r)
    BY <1>2 DEF OnTheWayHome, ResetMovesBefore, Homing
  <1> QED
    BY <1>3 DEF r

(* Commands that are dropped take nothing from those before them.          *)
LEMMA HomePrefix ==
  ASSUME NEW s \in Seq(Order), NEW t \in Seq(Order), OnTheWayHome(s \o t)
  PROVE  OnTheWayHome(s)
  <1> DEFINE r == s \o t
  <1>1. /\ Len(s) \in Nat /\ Len(t) \in Nat
        /\ DOMAIN r = 1 .. (Len(s) + Len(t))
        /\ DOMAIN s = 1 .. Len(s)
        /\ \A k \in 1 .. Len(s) : r[k] = s[k]
    BY Concat
  <1>2. OnTheWayHome(r)
    OBVIOUS
  <1> HIDE DEF r
  <1>3. ASSUME NEW k \in DOMAIN s, s[k].part = "reset"
        PROVE  /\ s[k].op = "SetZero"
               /\ \A j \in 1 .. 3 : j < k =>
                    IsMove(s[k - j], s[k].axis, ResetDistance(j))
               /\ k \in {1, 3} => place[s[k].axis] = 0
               /\ k = 2 => place[s[k].axis] <= 1
    <2>1. k \in DOMAIN r /\ r[k] = s[k]
      BY <1>1
    <2>2. \A j \in 1 .. 3 : j < k => r[k - j] = s[k - j]
      BY <1>1
    <2> QED
      BY <1>2, <1>3, <2>1, <2>2 DEF OnTheWayHome, ResetMovesBefore, Homing
  <1> QED
    BY <1>3 DEF OnTheWayHome, ResetMovesBefore, Homing

(* A move brings the axis as near to the limit as the moves that are left  *)
(* need.                                                                   *)
LEMMA HomeMove ==
  ASSUME StageTypes, NEW s \in Seq(Order), s # <<>>, OnTheWayHome(s),
         place' = [place EXCEPT ![s[1].axis] = PlaceAfter(s[1])]
  PROVE  OnTheWayHome(Tail(s))'
  <1>1. /\ DOMAIN Tail(s) = 1 .. (Len(s) - 1) /\ DOMAIN s = 1 .. Len(s)
        /\ Len(s) \in Nat
        /\ \A k \in 1 .. (Len(s) - 1) : Tail(s)[k] = s[k + 1]
    BY TailOf
  <1>2. place \in [Axis -> 0 .. Travel] /\ Travel \in Nat /\ Travel >= 2
    BY StageAssumption DEF StageTypes, TypeOK, Place, StageAssumption
  <1>3. ASSUME NEW k \in DOMAIN Tail(s), Tail(s)[k].part = "reset"
        PROVE  /\ Tail(s)[k].op = "SetZero"
               /\ \A j \in 1 .. 3 : j < k =>
                    IsMove(Tail(s)[k - j], Tail(s)[k].axis, ResetDistance(j))
               /\ k \in {1, 3} => place'[Tail(s)[k].axis] = 0
               /\ k = 2 => place'[Tail(s)[k].axis] <= 1
    <2>1. /\ k \in Nat /\ k >= 1 /\ k + 1 \in DOMAIN s
          /\ Tail(s)[k] = s[k + 1] /\ s[k + 1].part = "reset"
      BY <1>1, <1>3
    <2> DEFINE a == s[k + 1].axis
    <2>2. /\ s[k + 1].op = "SetZero"
          /\ \A j \in 1 .. 3 : j < k + 1 =>
               IsMove(s[(k + 1) - j], a, ResetDistance(j))
          /\ k + 1 = 3 => place[a] = 0
          /\ k + 1 = 2 => place[a] <= 1
      BY <2>1 DEF OnTheWayHome, ResetMovesBefore, Homing
    <2>3. a \in Axis
      <3>1. s[k + 1] \in Order
        BY <2>1
      <3> QED
        BY <3>1 DEF Order
    <2> HIDE DEF a
    <2>4. \A j \in 1 .. 3 : j < k =>
            IsMove(Tail(s)[k - j], a, ResetDistance(j))
      <3> SUFFICES ASSUME NEW j \in 1 .. 3, j < k
                   PROVE  IsMove(Tail(s)[k - j], a, ResetDistance(j))
        OBVIOUS
      <3>1. /\ j < k + 1 /\ k - j \in 1 .. (Len(s) - 1)
            /\ (k - j) + 1 = (k + 1) - j
        BY <1>1, <2>1
      <3>2. Tail(s)[k - j] = s[(k + 1) - j]
        BY <1>1, <3>1
      <3> QED
        BY <2>2, <3>1, <3>2
    <2>5. ASSUME k \in 1 .. 3
          PROVE  place'[a] = Clamp(place[a] + ResetDistance(k))
      <3>1. IsMove(s[1], a, ResetDistance(k))
        <4>1. k < k + 1 /\ (k + 1) - k = 1
          BY <2>1
        <4> QED
          BY <2>2, <2>5, <4>1
      <3>2. PlaceAfter(s[1]) = Clamp(place[a] + ResetDistance(k))
        BY <3>1 DEF IsMove, PlaceAfter
      <3> QED
        BY <1>2, <2>3, <3>1, <3>2 DEF IsMove
    <2>6. place[a] \in 0 .. Travel
      BY <1>2, <2>3
    <2>7. /\ k \in {1, 3} => place'[a] = 0
          /\ k = 2 => place'[a] <= 1
      BY <1>2, <2>2, <2>5, <2>6 DEF Clamp, ResetDistance
    <2>8. Tail(s)[k].axis = a /\ Tail(s)[k].op = "SetZero"
      BY <2>1, <2>2 DEF a
    <2> QED
      BY <2>4, <2>7, <2>8
  <1> QED
    BY <1>3 DEF OnTheWayHome, ResetMovesBefore, Homing

(* The order of the commands is that in which they were planned, whoever   *)
(* holds them.                                                             *)
LEMMA SentInOrder ==
  ASSUME NEW s \in Seq(Order), NEW t \in Seq(Order), t # <<>>
  PROVE  Append(s, Head(t)) \o Tail(t) = s \o t
  <1> DEFINE l == Append(s, Head(t)) \o Tail(t)
             r == s \o t
  <1>1. /\ Head(t) \in Order /\ Head(t) = t[1] /\ Tail(t) \in Seq(Order)
        /\ Len(t) \in Nat \ {0} /\ Len(Tail(t)) = Len(t) - 1
        /\ \A k \in 1 .. (Len(t) - 1) : Tail(t)[k] = t[k + 1]
    BY TailOf
  <1>2. /\ Append(s, Head(t)) \in Seq(Order) /\ Len(s) \in Nat
        /\ Len(Append(s, Head(t))) = Len(s) + 1
        /\ \A k \in 1 .. Len(s) : Append(s, Head(t))[k] = s[k]
        /\ Append(s, Head(t))[Len(s) + 1] = t[1]
    BY <1>1
  <1>3. /\ l \in Seq(Order) /\ Len(l) = Len(s) + Len(t)
        /\ \A k \in 1 .. (Len(s) + 1) : l[k] = Append(s, Head(t))[k]
        /\ \A k \in 1 .. (Len(t) - 1) : l[(Len(s) + 1) + k] = Tail(t)[k]
    <2> DEFINE u == Append(s, Head(t))
               v == Tail(t)
    <2>1. u \in Seq(Order) /\ v \in Seq(Order)
      BY <1>1, <1>2
    <2>2. Len(u) = Len(s) + 1 /\ Len(v) = Len(t) - 1
      BY <1>1, <1>2
    <2> HIDE DEF u, v
    <2>3. /\ u \o v \in Seq(Order) /\ Len(u \o v) = Len(u) + Len(v)
          /\ \A k \in 1 .. Len(u) : (u \o v)[k] = u[k]
          /\ \A k \in 1 .. Len(v) : (u \o v)[Len(u) + k] = v[k]
      BY <2>1, Concat
    <2>4. Len(u \o v) = Len(s) + Len(t)
      BY <1>1, <1>2, <2>2, <2>3
    <2> QED
      BY <2>2, <2>3, <2>4 DEF u, v
  <1>4. /\ r \in Seq(Order) /\ Len(r) = Len(s) + Len(t)
        /\ \A k \in 1 .. Len(s) : r[k] = s[k]
        /\ \A k \in 1 .. Len(t) : r[Len(s) + k] = t[k]
    BY Concat
  <1> HIDE DEF l, r
  <1>5. \A k \in 1 .. (Len(s) + Len(t)) : l[k] = r[k]
    <2> SUFFICES ASSUME NEW k \in 1 .. (Len(s) + Len(t)) PROVE l[k] = r[k]
      OBVIOUS
    <2>1. CASE k \in 1 .. Len(s)
      <3>1. k \in 1 .. (Len(s) + 1)
        BY <1>2, <2>1
      <3>2. l[k] = Append(s, Head(t))[k]
        BY <1>3, <3>1
      <3> QED
        BY <1>2, <1>4, <2>1, <3>2
    <2>2. CASE k = Len(s) + 1
      BY <1>1, <1>2, <1>3, <1>4, <2>2
    <2>3. CASE k > Len(s) + 1
      <3>1. PICK m \in 1 .. (Len(t) - 1) : k = (Len(s) + 1) + m
        <4>1. /\ k - (Len(s) + 1) \in 1 .. (Len(t) - 1)
              /\ k = (Len(s) + 1) + (k - (Len(s) + 1))
          BY <1>1, <1>2, <2>3
        <4> QED
          BY <4>1
      <3>2. l[k] = t[m + 1]
        BY <1>1, <1>3, <3>1
      <3>3. m + 1 \in 1 .. Len(t) /\ k = Len(s) + (m + 1)
        BY <1>1, <1>2, <3>1
      <3> QED
        BY <1>4, <3>2, <3>3
    <2> QED
      BY <1>1, <1>2, <2>1, <2>2, <2>3
  <1>6. l = r
    BY <1>3, <1>4, <1>5
  <1> QED
    BY <1>6 DEF l, r

\* A device that is at work does the first of what is to come.
LEMMA DoneInOrder ==
  ASSUME NEW s \in Seq(Order), NEW t \in Seq(Order), s # <<>>
  PROVE  Tail(s) \o t = Tail(s \o t) /\ (s \o t)[1] = s[1] /\ s \o t # <<>>
  <1> DEFINE r == s \o t
             l == Tail(s) \o t
  <1>1. /\ Tail(s) \in Seq(Order)
        /\ Len(s) \in Nat \ {0} /\ Len(Tail(s)) = Len(s) - 1
        /\ \A k \in 1 .. (Len(s) - 1) : Tail(s)[k] = s[k + 1]
    BY TailOf
  <1>2. /\ r \in Seq(Order) /\ Len(r) = Len(s) + Len(t) /\ Len(t) \in Nat
        /\ \A k \in 1 .. Len(s) : r[k] = s[k]
        /\ \A k \in 1 .. Len(t) : r[Len(s) + k] = t[k]
    BY Concat
  <1>3. /\ l \in Seq(Order) /\ Len(l) = (Len(s) - 1) + Len(t)
        /\ \A k \in 1 .. (Len(s) - 1) : l[k] = Tail(s)[k]
        /\ \A k \in 1 .. Len(t) : l[(Len(s) - 1) + k] = t[k]
    <2> DEFINE u == Tail(s)
    <2>1. u \in Seq(Order) /\ Len(u) = Len(s) - 1
      BY <1>1
    <2> HIDE DEF u
    <2>2. /\ u \o t \in Seq(Order) /\ Len(u \o t) = Len(u) + Len(t)
          /\ \A k \in 1 .. Len(u) : (u \o t)[k] = u[k]
          /\ \A k \in 1 .. Len(t) : (u \o t)[Len(u) + k] = t[k]
      BY <2>1, Concat
    <2> QED
      BY <2>1, <2>2 DEF u
  <1> HIDE DEF l, r
  <1>4. r # <<>> /\ r[1] = s[1]
    BY <1>1, <1>2
  <1>5. /\ Tail(r) \in Seq(Order) /\ Len(Tail(r)) = Len(r) - 1
        /\ \A k \in 1 .. (Len(r) - 1) : Tail(r)[k] = r[k + 1]
    BY <1>2, <1>4, TailOf
  <1>6. ASSUME NEW k \in 1 .. (Len(r) - 1) PROVE l[k] = Tail(r)[k]
    <2>1. CASE k <= Len(s) - 1
      <3>1. k \in 1 .. (Len(s) - 1) /\ k + 1 \in 1 .. Len(s)
        BY <1>1, <1>2, <2>1
      <3>2. l[k] = s[k + 1]
        BY ONLY <1>1, <1>3, <3>1
      <3>3. r[k + 1] = s[k + 1] /\ Tail(r)[k] = r[k + 1]
        BY <1>2, <1>5, <3>1
      <3> QED
        BY ONLY <3>2, <3>3
    <2>2. CASE k > Len(s) - 1
      <3>1. PICK m \in 1 .. Len(t) : k = (Len(s) - 1) + m
        <4>1. /\ k - (Len(s) - 1) \in 1 .. Len(t)
              /\ k = (Len(s) - 1) + (k - (Len(s) - 1))
          BY <1>1, <1>2, <2>2
        <4> QED
          BY <4>1
      <3>2. l[k] = t[m]
        BY <1>3, <3>1
      <3>3. k + 1 = Len(s) + m
        BY <1>1, <3>1
      <3> QED
        BY <1>2, <1>5, <3>2, <3>3
    <2> QED
      BY <1>1, <1>2, <2>1, <2>2
  <1>7. l = Tail(r)
    <2>1. Len(l) = Len(Tail(r)) /\ Len(l) = Len(r) - 1
      BY <1>1, <1>2, <1>3, <1>5
    <2> QED
      BY <1>3, <1>5, <1>6, <2>1
  <1> QED
    BY <1>4, <1>7 DEF l, r

(* As long as the line is up and nobody has moved the stage by hand, every *)
(* zero of a reset that is to come has its moves before it, or has them    *)
(* behind it and the axis where they have brought it.                      *)
LEMMA HomeStep ==
  ASSUME StageTypes, StageTypes', HomeInv, [StageNext]_stageVars
  PROVE  HomeInv'
  <1>1. /\ orders \in Seq(Order) /\ plan \in Seq(Order)
        /\ waiting => plan # <<>> /\ Tail(plan) \in Seq(Order)
        /\ handMoves \in Nat
    BY TailOf DEF StageTypes, TypeOK
  <1>2. Unsent \in Seq(Order) /\ Coming \in Seq(Order)
    <2>1. Unsent \in Seq(Order)
      BY <1>1 DEF Unsent
    <2> QED
      BY <1>1, <2>1, Concat DEF Coming
  \* It is enough to know what is to come, and that it is on the way home.
  <1>3. ASSUME NEW t, Coming' = t, up /\ handMoves = 0 => OnTheWayHome(t),
               UNCHANGED <<place, up, handMoves>>
        PROVE  HomeInv'
    BY <1>3 DEF HomeInv, OnTheWayHome, ResetMovesBefore, Homing
  <1>4. CASE Request
    <2>1. PICK s : TakesPlan(s)
      BY <1>4, RequestPlans
    <2>2. /\ UNCHANGED <<orders, place, up, handMoves, waiting>>
          /\ plan' = s /\ plan = <<>> /\ ~waiting
      BY <2>1 DEF TakesPlan, Take, Idle, channelVars, deviceVars
    <2>3. Coming' = orders \o s /\ Coming = orders
      <3>1. Unsent' = s /\ Unsent = <<>>
        BY <2>2 DEF Unsent
      <3>2. orders \o <<>> = orders
        BY <1>1
      <3> QED
        BY <2>2, <3>1, <3>2 DEF Coming
    <2>4. s \in Seq(Order) /\ ResetMovesBefore(s) /\ WholeResets(s)
      BY <2>1 DEF TakesPlan, PlanIsSound
    <2>5. up /\ handMoves = 0 => OnTheWayHome(orders \o s)
      BY <1>1, <2>3, <2>4, HomeAppend DEF HomeInv
    <2> QED
      BY <1>3, <2>2, <2>3, <2>5
  <1>5. CASE SendCommand
    <2>1. /\ orders' = Append(orders, Head(plan)) /\ plan # <<>>
          /\ ~waiting /\ waiting' = TRUE
          /\ UNCHANGED <<plan, place, up, handMoves>>
      BY <1>5 DEF SendCommand, Send
    <2>2. Coming' = Coming
      <3>1. Coming' = Append(orders, Head(plan)) \o Tail(plan)
        BY <2>1 DEF Coming, Unsent
      <3>2. Coming = orders \o plan
        BY <2>1 DEF Coming, Unsent
      <3> QED
        BY <1>1, <2>1, <3>1, <3>2, SentInOrder
    <2> QED
      BY <1>3, <2>1, <2>2 DEF HomeInv
  <1>6. CASE TakeReply
    <2>1. /\ plan' = Tail(plan) /\ waiting /\ waiting' = FALSE
          /\ UNCHANGED <<orders, place, up, handMoves>>
      BY <1>6 DEF TakeReply, Receive
    <2>2. Coming' = Coming
      BY <2>1 DEF Coming, Unsent
    <2> QED
      BY <1>3, <2>1, <2>2 DEF HomeInv
  <1>7. CASE TimeOut
    <2>1. /\ plan' \in {<<>>, Tail(plan)} /\ waiting /\ waiting' = FALSE
          /\ UNCHANGED <<orders, place, up, handMoves>>
      BY <1>7 DEF TimeOut, GiveUp, deviceVars
    <2>2. CASE plan' = Tail(plan)
      <3>1. Coming' = Coming
        BY <2>1, <2>2 DEF Coming, Unsent
      <3> QED
        BY <1>3, <2>1, <3>1 DEF HomeInv
    <2>3. CASE plan' = <<>>
      <3>1. Coming' = orders
        <4>1. Unsent' = <<>> /\ orders \o <<>> = orders
          BY <1>1, <2>1, <2>3 DEF Unsent
        <4> QED
          BY <2>1, <4>1 DEF Coming
      <3>2. up /\ handMoves = 0 => OnTheWayHome(orders)
        BY <1>1, <1>2, HomePrefix DEF HomeInv, Coming
      <3> QED
        BY <1>3, <2>1, <3>1, <3>2
    <2> QED
      BY <2>1, <2>2, <2>3
  <1>8. CASE Perform
    <2>1. /\ orders' = Tail(orders) /\ todo # <<>>
          /\ place' = [place EXCEPT ![Head(orders).axis] =
                         PlaceAfter(Head(orders))]
          /\ UNCHANGED <<plan, waiting, up, handMoves>>
      BY <1>8 DEF Perform, Execute
    <2>2. orders # <<>> /\ Head(orders) = orders[1]
      BY <1>1, <2>1 DEF StageTypes, TypeOK, ChannelTypeOK
    <2>3. PICK s : s = Coming
      OBVIOUS
    <2>4. /\ Coming' = Tail(s) /\ s # <<>> /\ s[1] = Head(orders)
          /\ s \in Seq(Order)
      <3>1. Unsent' = Unsent
        BY <2>1 DEF Unsent
      <3> QED
        BY <1>1, <1>2, <2>1, <2>2, <2>3, <3>1, DoneInOrder DEF Coming
    <2>5. up /\ handMoves = 0 => OnTheWayHome(Tail(s))'
      BY <2>1, <2>3, <2>4, HomeMove DEF HomeInv
    <2> QED
      BY <2>1, <2>4, <2>5 DEF HomeInv, OnTheWayHome, ResetMovesBefore, Homing
  <1>9. CASE HandMove
    <2>1. handMoves' # 0
      BY <1>1, <1>9 DEF HandMove
    <2> QED
      BY <2>1 DEF HomeInv
  <1>10. CASE Unplug
    BY <1>10 DEF Unplug, BreakAfter, HomeInv
  <1>11. CASE Rest \/ UNCHANGED stageVars
    <2>1. UNCHANGED <<orders, plan, waiting, place, up, handMoves>>
      BY <1>11 DEF Rest, stageVars, channelVars, deviceVars
    <2>2. Coming' = Coming
      BY <2>1 DEF Coming, Unsent
    <2> QED
      BY <1>3, <2>1, <2>2 DEF HomeInv
  <1> QED
    BY <1>4, <1>5, <1>6, <1>7, <1>8, <1>9, <1>10, <1>11 DEF StageNext

StageInv == KnownInv /\ ForwardInv /\ HomeInv

(* What the server knows of the stage, what it has tested and what it has  *)
(* planned stay true of each other, for any travel, limits and requests.   *)
THEOREM StageInvHolds == StageSpec => []StageInv
  <1>1. StageInit => StageInv
    <2> SUFFICES ASSUME StageInit PROVE StageInv
      OBVIOUS
    <2>1. /\ orders = <<>> /\ replies = <<>> /\ plan = SetUp /\ ~waiting
          /\ PlanIsSound(SetUp)
      BY SetUpIsSound DEF StageInit
    <2> DEFINE t == <<GetPosition, SetLight>>
               p == Lenient(Reset(0))
               q == Lenient(Reset(1))
    <2>2. /\ SetUp \in Seq(Order) /\ SetUp = p \o q \o t
          /\ p \in Seq(Order) /\ q \in Seq(Order) /\ t \in Seq(Order)
          /\ Len(p) = 4 /\ Len(q) = 4 /\ IsReset(p, 0)
          /\ t[1].op = "GetPosition" /\ Len(t) = 2
      <3>1. 0 \in Axis /\ 1 \in Axis
        BY DEF Axis
      <3>2. /\ p \in Seq(Order) /\ q \in Seq(Order)
            /\ Len(p) = 4 /\ Len(q) = 4 /\ IsReset(p, 0)
        BY <3>1, ResetIsReset DEF IsReset
      <3>3. t \in Seq(Order) /\ t[1].op = "GetPosition" /\ Len(t) = 2
        BY Commands, Lists
      <3> QED
        BY <2>1, <3>2, <3>3 DEF SetUp, PlanIsSound
    <2> HIDE DEF p, q, t
    <2>3. SetUp[9] = t[1] /\ 9 \in DOMAIN SetUp /\ SetUp[1] = p[1]
      <3> DEFINE r == p \o q
      <3>1. r \in Seq(Order) /\ Len(r) = 8 /\ r[1] = p[1]
        <4>1. /\ r \in Seq(Order) /\ Len(r) = Len(p) + Len(q)
              /\ \A k \in 1 .. Len(p) : r[k] = p[k]
          BY ONLY <2>2, Concat
        <4> HIDE DEF r
        <4> QED
          BY ONLY <2>2, <4>1
      <3> HIDE DEF r
      <3>2. /\ DOMAIN (r \o t) = 1 .. 10
            /\ (r \o t)[1] = r[1] /\ (r \o t)[9] = t[1]
        <4>1. /\ DOMAIN (r \o t) = 1 .. (Len(r) + Len(t))
              /\ \A k \in 1 .. Len(r) : (r \o t)[k] = r[k]
              /\ \A k \in 1 .. Len(t) : (r \o t)[Len(r) + k] = t[k]
          BY ONLY <2>2, <3>1, Concat
        <4>2. Len(r) = 8 /\ Len(t) = 2
          BY ONLY <2>2, <3>1
        <4>3. /\ DOMAIN (r \o t) = 1 .. (8 + 2)
              /\ \A k \in 1 .. 8 : (r \o t)[k] = r[k]
              /\ \A k \in 1 .. 2 : (r \o t)[8 + k] = t[k]
          BY ONLY <4>1, <4>2
        <4>4. (r \o t)[8 + 1] = t[1] /\ (r \o t)[1] = r[1]
          BY ONLY <4>3
        <4> QED
          BY ONLY <4>3, <4>4
      <3>3. SetUp = r \o t
        BY <2>2 DEF r
      <3> QED
        BY ONLY <3>1, <3>2, <3>3
    <2>4. KnownInv
      BY <2>1, <2>2, <2>3 DEF KnownInv, PlanIsSound, ReadPending
    <2>5. ForwardInv
      BY <2>1, <2>2, <2>3 DEF ForwardInv, IsReset
    <2>6. HomeInv
      <3>1. Coming = plan
        BY <2>1, <2>2 DEF Coming, Unsent
      <3> QED
        BY <2>1, <3>1
           DEF HomeInv, OnTheWayHome, PlanIsSound, WholeResets, Homing
    <2> QED
      BY <2>4, <2>5, <2>6 DEF StageInv
  <1>2. ASSUME StageTypes, StageTypes', IInv, IInv', Accounting, Accounting',
               StageInv, [StageNext]_stageVars
        PROVE  StageInv'
    <2>1. KnownInv /\ ForwardInv /\ HomeInv
      BY <1>2 DEF StageInv
    <2>2. KnownInv'
      BY <1>2, <2>1, KnownStep
    <2>3. ForwardInv'
      BY <1>2, <2>1, <2>2, ForwardStep
    <2>4. HomeInv'
      BY <1>2, <2>1, HomeStep
    <2> QED
      BY <2>2, <2>3, <2>4 DEF StageInv
  <1>3. StageTypes /\ StageTypes' /\ IInv /\ IInv' /\ Accounting /\ Accounting'
          /\ StageInv /\ [StageNext]_stageVars => StageInv'
    BY <1>2
  <1>4. StageSpec => []IInv /\ []Accounting
    BY StageUsesChannel, OutstandingIsInterval, CommandsAreAccounted, PTL
  <1> QED
    BY <1>1, <1>3, <1>4, StageTypesHold, PTL DEF StageSpec

(* Between requests the server knows where the stage is, as long as no     *)
(* command has timed out and nobody has moved the stage by hand.           *)
THEOREM ServerKnowsPosition == StageSpec => []PositionKnown
  <1>1. StageInv => PositionKnown
    BY DEF StageInv, KnownInv, ReadPending, PositionKnown, Idle
  <1> QED
    BY <1>1, StageInvHolds, PTL

\* Only the device takes the first of its orders.
LEMMA PerformsIsPerform ==
  ASSUME StageTypes, [StageNext]_stageVars, NEW part, Performs(part)
  PROVE  /\ Perform /\ up /\ orders # <<>> /\ Head(orders) = orders[1]
         /\ orders[1] \in Order /\ orders[1].part = part
  <1>1. /\ orders \in Seq(Order) /\ plan \in Seq(Order) /\ orders # <<>>
        /\ orders' = Tail(orders) /\ up' /\ Head(orders).part = part
    BY DEF StageTypes, Performs
  <1>2. Len(orders') = Len(orders) - 1 /\ Len(orders) \in Nat \ {0}
    BY <1>1, TailOf
  <1>3. orders' # orders
    <2>1. Len(orders') # Len(orders)
      BY ONLY <1>2
    <2> QED
      BY ONLY <2>1
  <1>4. ~SendCommand
    <2> SUFFICES ASSUME SendCommand PROVE FALSE
      OBVIOUS
    <2>1. orders' = Append(orders, Head(plan)) /\ plan # <<>>
      BY DEF SendCommand
    <2>2. Len(orders') = Len(orders) + 1
      BY <1>1, <2>1, TailOf
    <2> QED
      BY <1>2, <2>2
  <1>5. ~Request
    BY <1>3, RequestPlans DEF TakesPlan, Take, deviceVars
  <1>6. Perform
    BY <1>1, <1>3, <1>4, <1>5
       DEF StageNext, TakeReply, TimeOut, HandMove, Unplug, BreakAfter, Rest,
           stageVars, deviceVars
  <1>7. up
    BY <1>1, <1>6 DEF Perform, Execute
  <1> QED
    BY <1>1, <1>6, <1>7, TailOf

(* Under the same conditions, a forward move that was not refused ends     *)
(* within the limit that was set, wherever the axis stops; a negative step *)
(* may end at the limit switch instead.                                    *)
THEOREM ForwardStaysWithinMax == StageSpec => ForwardWithinMax
  <1>1. ASSUME StageTypes, IInv, Accounting, StageInv, [StageNext]_stageVars,
               Performs("forward"), timeouts = 0, ~stray
        PROVE  LET a == Head(orders).axis IN WithinMax(a) \/ place'[a] = 0
    <2> DEFINE c == orders[1]
    <2>1. /\ Perform /\ up /\ orders # <<>> /\ Head(orders) = c
          /\ c \in Order /\ c.part = "forward"
      BY <1>1, PerformsIsPerform
    <2>2. plan # <<>> /\ plan[1] = c /\ replies = <<>> /\ plan \in Seq(Order)
      BY <1>1, <2>1, OneCommand DEF StageInv, KnownInv, StageTypes
    <2>3. /\ c.n \in Int /\ known[c.axis] + c.n <= max[c.axis]
          /\ known = Coordinate
      BY <1>1, <2>1, <2>2 DEF StageInv, ForwardInv, Order
    <2>4. c.op = "MoveDistance"
      BY <1>1, <2>1, <2>2 DEF StageInv, KnownInv, ForwardFirst
    <2>5. c.axis \in Axis
      BY <2>1 DEF Order
    <2>6. /\ place' = [place EXCEPT ![c.axis] = Clamp(place[c.axis] + c.n)]
          /\ zero' = zero /\ max' = max
      BY <2>1, <2>4 DEF Perform, PlaceAfter, settingVars
    <2> HIDE DEF c
    <2>7. /\ place[c.axis] \in Nat /\ zero[c.axis] \in Int
          /\ place'[c.axis] = Clamp(place[c.axis] + c.n)
          /\ Travel \in Nat
      <3>1. place[c.axis] \in Place /\ zero[c.axis] \in Place
        BY <1>1, <2>5 DEF StageTypes, TypeOK
      <3>2. place'[c.axis] = Clamp(place[c.axis] + c.n)
        BY <1>1, <2>5, <2>6 DEF StageTypes, TypeOK
      <3> QED
        BY <3>1, <3>2, StageAssumption DEF Place, StageAssumption
    <2>8. known[c.axis] = place[c.axis] - zero[c.axis]
      BY <2>3, <2>5 DEF Coordinate
    <2>9. max[c.axis] \in Int
      <3>1. max[c.axis] \in Limit
        BY <1>1, <2>5 DEF StageTypes, TypeOK
      <3>2. Limit \subseteq Int
        BY StageAssumption DEF StageAssumption
      <3> QED
        BY ONLY <3>1, <3>2
    <2>10. /\ place'[c.axis] \in Int
           /\ place'[c.axis] <= place[c.axis] + c.n \/ place'[c.axis] = 0
      BY <2>3, <2>7 DEF Clamp
    <2>11. \/ place'[c.axis] - zero[c.axis] <= max[c.axis]
           \/ place'[c.axis] = 0
      BY <2>3, <2>7, <2>8, <2>9, <2>10
    <2> QED
      BY <2>1, <2>6, <2>11 DEF WithinMax, c
  <1>2. StageTypes /\ IInv /\ Accounting /\ StageInv /\ [StageNext]_stageVars
          => [Performs("forward") /\ timeouts = 0 /\ ~stray
                => LET a == Head(orders).axis IN
                   WithinMax(a) \/ place'[a] = 0]_stageVars
    BY <1>1
  <1>3. StageSpec => []IInv /\ []Accounting
    BY StageUsesChannel, OutstandingIsInterval, CommandsAreAccounted, PTL
  <1> QED
    BY <1>2, <1>3, StageTypesHold, StageInvHolds, PTL
       DEF StageSpec, ForwardWithinMax

(* motion_control.h, reset: whatever has timed out, the zero it sets is    *)
(* the limit switch, unless the stage is moved by hand meanwhile.          *)
THEOREM ResetFindsLimit == StageSpec => ResetZeroIsLimit
  <1>1. ASSUME StageTypes, StageInv, [StageNext]_stageVars,
               Performs("reset"), handMoves = 0
        PROVE  zero'[Head(orders).axis] = 0
    <2> DEFINE c == orders[1]
    <2>1. /\ Perform /\ up /\ orders # <<>> /\ Head(orders) = c
          /\ c \in Order /\ c.part = "reset"
      BY <1>1, PerformsIsPerform
    <2>2. orders \in Seq(Order) /\ Unsent \in Seq(Order)
      <3>1. waiting => Tail(plan) \in Seq(Order)
        BY <1>1, TailOf DEF StageTypes
      <3> QED
        BY <1>1, <3>1 DEF StageTypes, Unsent
    <2>3. 1 \in DOMAIN Coming /\ Coming[1] = c
      BY <2>1, <2>2, Concat DEF Coming
    <2>4. c.op = "SetZero" /\ place[c.axis] = 0
      BY <1>1, <2>1, <2>3
         DEF StageInv, HomeInv, OnTheWayHome, ResetMovesBefore, Homing
    <2>5. c.axis \in Axis
      BY <2>1 DEF Order
    <2>6. zero' = [zero EXCEPT ![c.axis] = place[c.axis]]
      BY <2>1, <2>4 DEF Perform
    <2> QED
      BY <1>1, <2>1, <2>4, <2>5, <2>6 DEF StageTypes, TypeOK
  <1>2. StageTypes /\ StageInv /\ [StageNext]_stageVars
          => [Performs("reset") /\ handMoves = 0
                => zero'[Head(orders).axis] = 0]_stageVars
    BY <1>1
  <1> QED
    BY <1>2, StageTypesHold, StageInvHolds, PTL DEF StageSpec, ResetZeroIsLimit
=============================================================================
