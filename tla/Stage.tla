------------------------------- MODULE Stage --------------------------------
(***************************************************************************)
(* The stage: the coordinates of the camera as thread_misc keeps them      *)
(* (m_config_data->m_position_x/y), the commands by which it moves the     *)
(* stage over the serial port (motion_control_port), and where the device  *)
(* really is.  The misc thread executes one request at a time; each is a   *)
(* list of commands, sent one after the other over a ReplyChannel.         *)
(*                                                                         *)
(* A device coordinate is the place of the axis (0 is the limit switch,    *)
(* Travel the other end) less the place of its zero.                       *)
(***************************************************************************)
EXTENDS ReplyChannel

CONSTANTS
  Travel,       \* the places of an axis are 0 .. Travel
  Target,       \* coordinates that requests move to
  StepSize,     \* values of m_move_step_x/y
  Limit,        \* values of m_max_x/y
  MaxRequests,  \* bound: requests after the set-up
  MaxTimeouts,  \* bound: commands that time out while the line is up
  MaxHandMoves  \* bound: moves made at the device itself

ASSUME StageAssumption ==
  /\ Travel \in Nat /\ Travel >= 2
  /\ Target \subseteq Int /\ StepSize \subseteq Int /\ Limit \subseteq Int
  /\ MaxRequests \in Nat /\ MaxTimeouts \in Nat /\ MaxHandMoves \in Nat

Axis  == {0, 1}  \* axis 0 is y and axis 1 is x
Place == 0 .. Travel

VARIABLES
  orders,    \* what the commands of todo say
  readings,  \* the coordinates that are read out of the replies
  plan,      \* commands of the request that have not been answered
  place,     \* external: where each axis is
  zero,      \* external: the place of its coordinate 0
  known,     \* m_position_y, m_position_x
  step,      \* m_move_step_y, m_move_step_x
  max,       \* m_max_y, m_max_x
  requests,  \* requests so far
  handMoves, \* moves by hand so far
  stray      \* history: moved by hand since the position was last read

deviceVars  == <<orders, readings, place, zero, handMoves, stray>>
settingVars == <<step, max, requests>>
stageVars   == <<channelVars, deviceVars, settingVars, plan, known>>

Coordinate == [a \in Axis |-> place[a] - zero[a]]

-----------------------------------------------------------------------------
(* The commands of the requests.  A command that must succeed ends its     *)
(* request when it times out; the results of the others are ignored.       *)

Command(op, a, n) ==
  [op |-> op, axis |-> a, n |-> n, must |-> FALSE, part |-> "request"]

MoveDistance(a, d) == Command("MoveDistance", a, d)
MovePosition(a, p) == Command("MovePosition", a, p)
MustSetZero(a)     == [Command("SetZero", a, 0) EXCEPT !.must = TRUE]
HomeHere(a)        == [MustSetZero(a) EXCEPT !.part = "reset"]
Forward(a, d)      == [MoveDistance(a, d) EXCEPT !.part = "forward"]
GetPosition        == Command("GetPosition", 0, 0)
SetLight           == Command("SetLight", 0, 0)

\* Mutant: the limit is left and made the zero before it is reached again.
ResetEarly(a) ==
  <<MoveDistance(a, -Travel), MoveDistance(a, 1), HomeHere(a),
    MoveDistance(a, -2)>>

\* reset: 100000, 100 and 200 pulses are Travel (or more), 1 and 2.
Reset(a) ==
  <<MoveDistance(a, -Travel), MoveDistance(a, 1), MoveDistance(a, -2),
    HomeHere(a)>>

Lenient(commands) ==
  [k \in DOMAIN commands |-> [commands[k] EXCEPT !.must = FALSE]]

\* setup_motion_control, from behind open() on.
SetUp == Lenient(Reset(0)) \o Lenient(Reset(1)) \o <<GetPosition, SetLight>>

-----------------------------------------------------------------------------
StageInit ==
  /\ up = TRUE
  /\ todo = <<>> /\ replies = <<>> /\ sent = 0 /\ waiting = FALSE
  /\ timeouts = 0 /\ last = [cmd |-> 0, reply |-> 0]
  /\ orders = <<>> /\ readings = <<>>
  /\ plan = SetUp
  /\ place \in [Axis -> Place] /\ zero = place
  /\ known = [a \in Axis |-> 0]
  /\ step \in {[a \in Axis |-> s] : s \in StepSize}
  /\ max \in {[a \in Axis |-> m] : m \in Limit}
  /\ requests = 0 /\ handMoves = 0 /\ stray = FALSE

(* The misc thread takes a request.                                        *)

Idle == plan = <<>> /\ ~waiting

Take(commands) ==
  /\ Idle /\ requests < MaxRequests
  /\ requests' = requests + 1
  /\ plan' = commands
  /\ UNCHANGED <<channelVars, deviceVars, known>>

\* client_request_move_camera (move_to_position), _move_camera_by_index, and
\* each position of a run.  No target is tested against the limits.
MoveToPosition ==
  \E p \in [Axis -> Target] :
    /\ Take(<<MovePosition(0, p[0]), MovePosition(1, p[1]), GetPosition>>)
    /\ UNCHANGED <<step, max>>

\* Mutant: the limit of one axis is tested against the position of the other.
MoveForwardCrossed ==
  \E a \in Axis :
    /\ Take(IF known[1 - a] + step[a] > max[a]
            THEN <<>>
            ELSE <<Forward(a, step[a]), GetPosition>>)
    /\ UNCHANGED <<step, max>>

\* move_forward_y, move_forward_x: refused if they would pass the limit.  The
\* step and the limit are what a client has set, of either sign.
MoveForward ==
  \E a \in Axis :
    /\ Take(IF known[a] + step[a] > max[a]
            THEN <<>>
            ELSE <<Forward(a, step[a]), GetPosition>>)
    /\ UNCHANGED <<step, max>>

\* Mutant: the position is read before the stage has moved.
MoveBackUnread ==
  \E a \in Axis :
    /\ Take(<<GetPosition, MoveDistance(a, -step[a])>>)
    /\ UNCHANGED <<step, max>>

MoveBack ==
  \E a \in Axis :
    /\ Take(<<MoveDistance(a, -step[a]), GetPosition>>)
    /\ UNCHANGED <<step, max>>

SetMoveStep ==
  \E a \in Axis, s \in StepSize :
    /\ Take(<<>>)
    /\ step' = [step EXCEPT ![a] = s]
    /\ UNCHANGED max

SetMax ==
  \E a \in Axis, m \in Limit :
    /\ Take(<<>>)
    /\ max' = [max EXCEPT ![a] = m]
    /\ UNCHANGED step

SetZeroRequest ==
  /\ Take(<<MustSetZero(0), MustSetZero(1), GetPosition>>)
  /\ UNCHANGED <<step, max>>

ResetPosition ==
  /\ Take(Reset(0) \o Reset(1) \o <<GetPosition>>)
  /\ UNCHANGED <<step, max>>

SetLightBrightness ==
  /\ Take(<<SetLight>>)
  /\ UNCHANGED <<step, max>>

Request == MoveToPosition \/ MoveForward \/ MoveBack \/ SetMoveStep \/ SetMax
           \/ SetZeroRequest \/ ResetPosition \/ SetLightBrightness

(* send_command, for the first command of the plan.  On a line that is not *)
(* up the write throws and the process ends: there is no step.             *)

SendCommand ==
  /\ plan # <<>>
  /\ Send
  /\ orders' = Append(orders, Head(plan))
  /\ UNCHANGED <<readings, place, zero, handMoves, stray, settingVars, plan,
                 known>>

\* Whatever reply comes first is parsed as the answer to the command.
TakeReply ==
  /\ Receive
  /\ readings' = Tail(readings)
  /\ known' = IF Head(plan).op = "GetPosition" THEN Head(readings) ELSE known
  /\ plan' = Tail(plan)
  /\ UNCHANGED <<orders, place, zero, handMoves, stray, settingVars>>

\* get_position keeps the position it had, and returns true.
TimeOut ==
  /\ timeouts < MaxTimeouts \/ ~up
  /\ GiveUp
  /\ plan' = IF Head(plan).must THEN <<>> ELSE Tail(plan)
  /\ UNCHANGED <<deviceVars, settingVars, known>>

-----------------------------------------------------------------------------
(* The device.                                                             *)

\* An axis stops at its ends.
Clamp(p) == IF p < 0 THEN 0 ELSE IF p > Travel THEN Travel ELSE p

PlaceAfter(c) ==
  CASE c.op = "MoveDistance" -> Clamp(place[c.axis] + c.n)
    [] c.op = "MovePosition" -> Clamp(zero[c.axis] + c.n)
    [] OTHER -> place[c.axis]

\* atoi reads a reply that is no position as 0.
ReplyText(c) ==
  IF c.op = "GetPosition" THEN Coordinate ELSE [a \in Axis |-> 0]

Perform ==
  /\ Execute
  /\ LET c == Head(orders) IN
       /\ place' = [place EXCEPT ![c.axis] = PlaceAfter(c)]
       /\ zero' = IF c.op = "SetZero"
                  THEN [zero EXCEPT ![c.axis] = place[c.axis]]
                  ELSE zero
       /\ readings' = Append(readings, ReplyText(c))
       /\ stray' = (stray /\ c.op # "GetPosition")
  /\ orders' = Tail(orders)
  /\ UNCHANGED <<handMoves, settingVars, plan, known>>

\* Somebody moves the stage at the device.  The device says so with
\* "device_change_position", and the signal that the port emits for it is
\* connected to nothing.
HandMove ==
  /\ handMoves < MaxHandMoves
  /\ \E a \in Axis : \E p \in Place \ {place[a]} :
       place' = [place EXCEPT ![a] = p]
  /\ handMoves' = handMoves + 1
  /\ stray' = TRUE
  /\ UNCHANGED <<channelVars, orders, readings, zero, settingVars, plan,
                 known>>

Unplug ==
  /\ up
  /\ \E k \in 0 .. Len(replies) :
       /\ BreakAfter(k)
       /\ readings' = SubSeq(readings, 1, k)
  /\ orders' = <<>>
  /\ UNCHANGED <<place, zero, handMoves, stray, settingVars, plan, known>>

\* Nothing is left to do.
Rest == ~waiting /\ (plan = <<>> \/ ~up) /\ UNCHANGED stageVars

StageNext == Request \/ SendCommand \/ TakeReply \/ TimeOut \/ Perform
             \/ HandMove \/ Unplug \/ Rest

StageSpec == StageInit /\ [][StageNext]_stageVars

-----------------------------------------------------------------------------
TypeOK ==
  /\ ChannelTypeOK
  /\ Len(orders) = Len(todo) /\ Len(readings) = Len(replies)
  /\ place \in [Axis -> Place] /\ zero \in [Axis -> Place]
  /\ known \in [Axis -> Int]
  /\ step \in [Axis -> StepSize] /\ max \in [Axis -> Limit]
  /\ requests \in 0 .. MaxRequests /\ handMoves \in 0 .. MaxHandMoves
  /\ stray \in BOOLEAN

(* Between requests the server knows where the stage is, as long as no     *)
(* command has timed out and nobody has moved the stage by hand since the  *)
(* position was read.                                                      *)
PositionKnown ==
  Idle /\ timeouts = 0 /\ ~stray => known = Coordinate

\* A step of the device that executes a command of the given part.
Performs(part) ==
  orders # <<>> /\ Head(orders).part = part /\ orders' = Tail(orders) /\ up'

WithinMax(a) == place'[a] - zero'[a] <= max'[a]

(* Under the same conditions, a forward move that was not refused does not *)
(* take the stage past the limit that was set, unless its step is negative *)
(* and the limit switch at the other end stops it.                         *)
ForwardWithinMax ==
  [][Performs("forward") /\ timeouts = 0 /\ ~stray
       => LET a == Head(orders).axis IN
          WithinMax(a) \/ place'[a] = 0]_stageVars

(* motion_control.h, reset: the limit switch becomes the zero of the axis. *)
(* That is so whatever has timed out, for the commands are executed in     *)
(* order, but not if the stage is moved by hand meanwhile.                 *)
ResetZeroIsLimit ==
  [][Performs("reset") /\ handMoves = 0
       => zero'[Head(orders).axis] = 0]_stageVars
=============================================================================
