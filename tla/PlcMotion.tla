------------------------------ MODULE PlcMotion ------------------------------
(***************************************************************************)
(* motion_control_plc (motion_control_plc.cpp): the motion controller      *)
(* behind a PLC.  The calling thread (the misc thread) moves the axes; a   *)
(* thread of its own polls the start button.  Both talk to the PLC through *)
(* m_modbus_ctx, one transaction at a time, under m_plc_register_mutex.    *)
(*                                                                         *)
(* The PLC (external) starts a motion when a coil rises, some time later,  *)
(* and shows that an axis moves in a bit of its own.  A transaction may    *)
(* fail at any time; a write that failed may have been carried out.        *)
(*                                                                         *)
(* Positions are numbered by the operations that aim at them; a reset aims *)
(* at Zero.  Speeds are left out.                                          *)
(***************************************************************************)
EXTENDS Naturals, FiniteSets

CONSTANT MaxMoves  \* bound: moves and resets made

ASSUME PlcAssumption == MaxMoves \in Nat

Axis     == {0, 1}
Thread   == {"caller", "poll"}
Zero     == 0
Position == 0 .. MaxMoves

\* Each kind of motion has a coil of its own; reset's is for both axes.
Move   == [kind : {"distance", "position"}, axis : Axis]
Reset  == [kind |-> "reset", axis |-> 0]
Motion == Move \cup {Reset}
Axes(m) == IF m = Reset THEN Axis ELSE {m.axis}

VARIABLES
  link,      \* m_modbus_ctx is connected
  light,     \* m_serial, the port of the light source, is open
  mutex,     \* who holds m_plc_register_mutex
  busy,      \* the threads in the middle of a transaction
  register,  \* external: the parameter register of each motion
  coil,      \* external: the coils that are on
  axis,      \* external: "still", "due" (to start), or "moving"
  aim, at,   \* external: where each axis is going, and where it is
  caller,    \* where the calling thread is
  motion,    \* the motion it makes
  goal,      \* its number, the position it aims at
  look,      \* the axis SM looks at
  elapsed,   \* the time M waits (over ten seconds) has passed
  moves,     \* moves and resets so far
  poll,      \* where the polling thread is
  stopping,  \* m_stop_thread
  clean,     \* history: nothing has gone wrong in this operation
  failed     \* history: a write to a coil has failed

plcVars  == <<register, coil, axis, aim, at>>
callVars == <<caller, motion, goal, look, elapsed, moves, clean, failed>>
vars == <<link, light, mutex, busy, plcVars, callVars, poll, stopping>>

Init ==
  /\ link = FALSE /\ light = FALSE
  /\ mutex = "free" /\ busy = {}
  /\ register = [m \in Motion |-> Zero]
  /\ coil = {}
  /\ axis = [a \in Axis |-> "still"]
  /\ aim = [a \in Axis |-> Zero] /\ at = [a \in Axis |-> Zero]
  /\ caller = "new"
  /\ motion = Reset /\ goal = Zero /\ look = 0
  /\ elapsed = FALSE
  /\ moves = 0
  /\ poll = "none" /\ stopping = FALSE
  /\ clean = FALSE /\ failed = FALSE

-----------------------------------------------------------------------------
(* The PLC.                                                                *)

PlcOnly == UNCHANGED <<link, light, mutex, busy, register, coil, callVars,
                       poll, stopping>>

StartAxis(a) ==
  /\ axis[a] = "due"
  /\ axis' = [axis EXCEPT ![a] = "moving"]
  /\ UNCHANGED <<aim, at>>
  /\ PlcOnly

StopAxis(a) ==
  /\ axis[a] = "moving"
  /\ axis' = [axis EXCEPT ![a] = "still"]
  /\ at' = [at EXCEPT ![a] = aim[a]]
  /\ UNCHANGED aim
  /\ PlcOnly

\* A coil that rises starts its axes; one that is already in motion may take
\* the new aim or keep the old one.  A coil that was on already does nothing.
Rises(m) ==
  /\ coil' = coil \cup {m}
  /\ \E started \in SUBSET Axes(m) :
       /\ IF m \in coil THEN started = {}
            ELSE {a \in Axes(m) : axis[a] = "still"} \subseteq started
       /\ axis' = [a \in Axis |-> IF a \in started THEN "due" ELSE axis[a]]
       /\ aim' = [a \in Axis |-> IF a \in started THEN register[m] ELSE aim[a]]
  /\ UNCHANGED <<register, at>>

-----------------------------------------------------------------------------
(* Transactions.                                                           *)

Begins(t) == busy' = busy \cup {t}
Ends(t)   == busy' = busy \ {t}

\* A transaction of the calling thread: it takes the mutex, and the answer
\* gives it back.
Asking == {"speed", "target", "start", "moving", "clear", "position"}

Ask ==
  /\ caller \in Asking
  /\ mutex = "free"
  /\ mutex' = "caller"
  /\ Begins("caller")
  /\ UNCHANGED <<link, light, plcVars, callVars, poll, stopping>>

Answer(place) == caller = place /\ "caller" \in busy
Release ==
  /\ mutex' = "free"
  /\ Ends("caller")
  /\ UNCHANGED <<link, light, poll, stopping>>

-----------------------------------------------------------------------------
(* The calling thread.                                                     *)

CallerOnly == UNCHANGED <<mutex, busy, plcVars, poll>>

\* open: the port of the light, the connection to the PLC, the thread.  If it
\* fails the object is used all the same.
Open ==
  /\ caller = "new"
  /\ \/ UNCHANGED <<light, link, poll>>
     \/ light' = TRUE /\ UNCHANGED <<link, poll>>
     \/ light' = TRUE /\ link' = TRUE /\ poll' = "look"
  /\ caller' = "idle"
  /\ UNCHANGED <<mutex, busy, plcVars, motion, goal, look, elapsed, moves,
                 stopping, clean, failed>>

\* A reset has no parameters.
Begin ==
  /\ caller = "idle"
  /\ moves < MaxMoves
  /\ moves' = moves + 1
  /\ \E m \in Motion :
       /\ motion' = m
       /\ goal' = IF m = Reset THEN Zero ELSE moves + 1
       /\ caller' = IF m = Reset THEN "start" ELSE "speed"
       /\ clean' = (m \notin coil /\ \A a \in Axes(m) : axis[a] = "still")
  /\ CallerOnly
  /\ UNCHANGED <<link, light, look, elapsed, failed, stopping>>

\* HD: its result is ignored.
WriteSpeed ==
  /\ Answer("speed")
  /\ caller' = "target"
  /\ UNCHANGED <<plcVars, motion, goal, look, elapsed, moves, clean, failed>>
  /\ Release

WriteTarget ==
  /\ Answer("target")
  /\ \/ /\ link
        /\ register' = [register EXCEPT ![motion] = goal]
        /\ clean' \in {clean, FALSE}
     \/ UNCHANGED register /\ clean' = FALSE
  /\ caller' = "start"
  /\ UNCHANGED <<coil, axis, aim, at, motion, goal, look, elapsed, moves,
                 failed>>
  /\ Release

\* M(id, true).  A failure ends a reset; a move goes on to M(id, false).
WriteStart ==
  /\ Answer("start")
  /\ \/ /\ link
        /\ Rises(motion)
        /\ caller' = "settle"
        /\ UNCHANGED <<clean, failed>>
     \/ /\ (link /\ Rises(motion)) \/ UNCHANGED plcVars
        /\ caller' = IF motion = Reset THEN "idle" ELSE "clear"
        /\ clean' = FALSE /\ failed' = TRUE
  /\ UNCHANGED <<motion, goal, look, elapsed, moves>>
  /\ Release

\* The PLC is given 5 ms to start the motion.
Settle ==
  /\ caller = "settle"
  /\ clean' = (clean /\ \A a \in Axes(motion) : axis[a] # "due")
  /\ elapsed' = FALSE
  /\ caller' = "wait"
  /\ CallerOnly
  /\ UNCHANGED <<link, light, motion, goal, look, moves, failed, stopping>>

TimePasses ==
  /\ caller \in {"wait", "moving"} /\ ~elapsed
  /\ elapsed' = TRUE
  /\ CallerOnly
  /\ UNCHANGED <<link, light, caller, motion, goal, look, moves, clean,
                 failed, stopping>>

\* Mutant: the loop has no limit.
WaitForEver ==
  /\ caller = "wait"
  /\ caller' = "moving"
  /\ look' = motion.axis
  /\ CallerOnly
  /\ UNCHANGED <<link, light, motion, goal, elapsed, moves, clean, failed,
                 stopping>>

\* The head of the loop.  Giving up counts as having arrived.
WaitForAxes ==
  /\ caller = "wait"
  /\ IF elapsed THEN caller' = "clear" /\ clean' = FALSE /\ UNCHANGED look
                ELSE caller' = "moving" /\ look' = motion.axis
                     /\ UNCHANGED clean
  /\ CallerOnly
  /\ UNCHANGED <<link, light, motion, goal, elapsed, moves, failed, stopping>>

\* Mutant: a reset waits for one axis only.
LooksOnce == caller' = "clear" /\ UNCHANGED look

\* An axis that does not move, or that cannot be read: the other axis of a
\* reset is next, or the wait is over.
AxisIsDone ==
  IF motion = Reset /\ look = 0
    THEN look' = 1 /\ UNCHANGED caller
    ELSE caller' = "clear" /\ UNCHANGED look

ReadMoving ==
  /\ Answer("moving")
  /\ \/ /\ link
        /\ IF axis[look] = "moving" THEN caller' = "wait" /\ UNCHANGED look
                                    ELSE AxisIsDone
        /\ UNCHANGED clean
     \/ AxisIsDone /\ clean' = FALSE
  /\ UNCHANGED <<plcVars, motion, goal, elapsed, moves, failed>>
  /\ Release

\* Mutant: M(id) with a default of true for its second parameter.
ClearWritesOn ==
  /\ Answer("clear")
  /\ caller' = "idle"
  /\ coil' = IF link THEN coil \cup {motion} ELSE coil
  /\ UNCHANGED <<register, axis, aim, at, motion, goal, look, elapsed, moves,
                 clean, failed>>
  /\ Release

\* M(id, false).
WriteClear ==
  /\ Answer("clear")
  /\ \/ link /\ coil' = coil \ {motion} /\ UNCHANGED failed
     \/ /\ failed' = TRUE
        /\ coil' \in {coil} \cup (IF link THEN {coil \ {motion}} ELSE {})
  /\ caller' = "idle"
  /\ UNCHANGED <<register, axis, aim, at, motion, goal, look, elapsed, moves,
                 clean>>
  /\ Release

\* get_position holds the mutex over both of its transactions and returns
\* true whatever they return.
GetPosition ==
  /\ caller = "idle"
  /\ caller' = "position"
  /\ CallerOnly
  /\ UNCHANGED <<link, light, motion, goal, look, elapsed, moves, clean,
                 failed, stopping>>

\* Mutant: the mutex is given back after the first transaction.
ReadFirstUnlocks ==
  /\ Answer("position")
  /\ caller' = "position2"
  /\ UNCHANGED <<plcVars, motion, goal, look, elapsed, moves, clean, failed>>
  /\ Release

ReadFirst ==
  /\ Answer("position")
  /\ caller' = "position2"
  /\ Ends("caller")
  /\ UNCHANGED <<link, light, mutex, plcVars, motion, goal, look, elapsed,
                 moves, clean, failed, poll, stopping>>

AskSecond ==
  /\ caller = "position2" /\ "caller" \notin busy
  /\ Begins("caller")
  /\ UNCHANGED <<link, light, mutex, plcVars, callVars, poll, stopping>>

ReadSecond ==
  /\ Answer("position2")
  /\ caller' = "idle"
  /\ UNCHANGED <<plcVars, motion, goal, look, elapsed, moves, clean, failed>>
  /\ Release

\* set_light_source_param writes to a port of its own, without the mutex.
\* asio::write throws if that port fails, and nothing catches it.
SetLight ==
  /\ caller = "idle"
  /\ caller' \in {"terminated"} \cup (IF light THEN {"idle"} ELSE {})
  /\ CallerOnly
  /\ UNCHANGED <<link, light, motion, goal, look, elapsed, moves, clean,
                 failed, stopping>>

Destructor ==
  /\ caller = "idle"
  /\ stopping' = TRUE
  /\ caller' = "join"
  /\ CallerOnly
  /\ UNCHANGED <<link, light, motion, goal, look, elapsed, moves, clean,
                 failed>>

Join ==
  /\ caller = "join"
  /\ poll \in {"none", "ended"}
  /\ link' = FALSE
  /\ caller' = "gone"
  /\ CallerOnly
  /\ UNCHANGED <<light, motion, goal, look, elapsed, moves, clean, failed,
                 stopping>>

-----------------------------------------------------------------------------
(* The polling thread.  When it finds the switch closed, and more than a   *)
(* second after the last time, it emits post_device_request_start_process; *)
(* what becomes of that is in Server (OnDeviceRequestStartProcess).        *)

PollerOnly == UNCHANGED <<link, light, plcVars, callVars, stopping>>

PollLooks ==
  /\ poll = "look"
  /\ poll' = IF stopping THEN "ended" ELSE "lock"
  /\ UNCHANGED <<mutex, busy>>
  /\ PollerOnly

PollAsks ==
  /\ poll = "lock"
  /\ mutex = "free"
  /\ mutex' = "poll"
  /\ Begins("poll")
  /\ poll' = "read"
  /\ PollerOnly

PollAnswers ==
  /\ poll = "read"
  /\ mutex' = "free"
  /\ Ends("poll")
  /\ poll' = "look"
  /\ PollerOnly

-----------------------------------------------------------------------------
Plc        == \E a \in Axis : StartAxis(a) \/ StopAxis(a)
CallerWork == WriteSpeed \/ WriteTarget \/ WriteStart \/ Settle \/ WaitForAxes
              \/ ReadMoving \/ WriteClear \/ ReadFirst \/ AskSecond
              \/ ReadSecond \/ Join
PollWork   == PollLooks \/ PollAsks \/ PollAnswers

\* Nothing is left to do.
Rest ==
  /\ caller \in {"idle", "terminated", "gone"}
  /\ UNCHANGED vars

Next == Plc \/ Open \/ Begin \/ GetPosition \/ SetLight \/ Destructor
        \/ Ask \/ CallerWork \/ TimePasses \/ PollWork \/ Rest

\* Each thread keeps running and each transaction ends, modbus having a
\* timeout.  The mutex is not fair, but the polling thread sleeps 10 ms without
\* it after each transaction.  The PLC need not do anything.
Fairness == /\ WF_vars(CallerWork) /\ WF_vars(PollWork)
            /\ WF_vars(TimePasses) /\ SF_vars(Ask)

Spec     == Init /\ [][Next]_vars
FairSpec == Spec /\ Fairness

-----------------------------------------------------------------------------
TypeOK ==
  /\ link \in BOOLEAN /\ light \in BOOLEAN /\ stopping \in BOOLEAN
  /\ mutex \in Thread \cup {"free"} /\ busy \subseteq Thread
  /\ register \in [Motion -> Position]
  /\ coil \subseteq Motion
  /\ axis \in [Axis -> {"still", "due", "moving"}]
  /\ aim \in [Axis -> Position] /\ at \in [Axis -> Position]
  /\ caller \in Asking \cup {"new", "idle", "settle", "wait", "position2",
                             "join", "gone", "terminated"}
  /\ motion \in Motion /\ goal \in Position /\ look \in Axis
  /\ moves \in 0 .. MaxMoves
  /\ poll \in {"none", "look", "lock", "read", "ended"}
  /\ elapsed \in BOOLEAN /\ clean \in BOOLEAN /\ failed \in BOOLEAN

(* At most one transaction is on m_modbus_ctx at any time: every function  *)
(* that uses it holds m_plc_register_mutex, HSD by way of its caller.      *)
OneTransaction ==
  /\ Cardinality(busy) <= 1
  /\ \A t \in busy : mutex = t

(* An operation in which nothing went wrong has moved its axes where it    *)
(* was asked to: the axes stood still and its coil was off at the          *)
(* beginning, no transaction failed, the PLC began the motion within 5 ms  *)
(* and ended it before M gave up.  (Without one of these it reports        *)
(* success all the same.)                                                  *)
CleanMovesArrive ==
  caller \in {"idle", "clear"} /\ clean =>
    \A a \in Axes(motion) : axis[a] = "still" /\ at[a] = goal

(* Between operations every coil is off, as the next motion needs it to    *)
(* be, unless a write to a coil has failed.                                *)
CoilsAreOff == caller = "idle" /\ ~failed => coil = {}

(* Each operation returns, even if the PLC never ends the motion or never  *)
(* begins it, and though the polling thread keeps taking the mutex; and so *)
(* does the destructor, which joins that thread.                           *)
OperationEnds ==
  /\ caller \in Asking \cup {"settle", "wait", "position2"} ~> caller = "idle"
  /\ caller = "join" ~> caller = "gone"
=============================================================================
