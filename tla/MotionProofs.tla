----------------------------- MODULE MotionProofs ----------------------------
(* The motion controllers.  The PLC is used by two threads and moves in    *)
(* its own time; the first proofs say what m_plc_register_mutex and the    *)
(* writes to the coils make of that, for any number of motions.  The       *)
(* others are about the serial port: the reader thread, its queue and its  *)
(* condition variable are a ReplyChannel, for any number of commands.      *)
EXTENDS PlcMotion, SerialPort, FiniteSetTheorems, SequenceTheorems,
        NaturalsInduction, WellFoundedInduction, TLAPS

(* Motions move one axis, except that a reset moves both.                  *)
LEMMA MotionAxes ==
  /\ Reset \in Motion /\ Reset.axis = 0 /\ Axes(Reset) = Axis
  /\ \A m \in Motion : m.axis \in Axes(m) /\ Axes(m) \subseteq Axis
  /\ \A m \in Motion : m # Reset => Axes(m) = {m.axis} /\ m.axis \in Axis
  BY DEF Motion, Reset, Move, Axes, Axis

-----------------------------------------------------------------------------
(* Type correctness.                                                       *)

(* The PLC's steps keep the types.                                          *)
LEMMA TypePlc == TypeOK /\ Plc => TypeOK'
  <1> SUFFICES ASSUME TypeOK, NEW a \in Axis, StartAxis(a) \/ StopAxis(a)
               PROVE  TypeOK'
    BY DEF Plc
  <1> USE DEF TypeOK, PlcOnly, callVars
  <1>1. CASE StartAxis(a)
    BY <1>1 DEF StartAxis
  <1>2. CASE StopAxis(a)
    BY <1>2 DEF StopAxis
  <1> QED
    BY <1>1, <1>2

(* A coil that rises keeps the PLC well typed.                             *)
LEMMA TypeRises ==
  ASSUME TypeOK, NEW m \in Motion, Rises(m)
  PROVE  /\ coil' \subseteq Motion
         /\ register' = register /\ at' = at
         /\ axis' \in [Axis -> {"still", "due", "moving"}]
         /\ aim' \in [Axis -> Position]
  <1>1. PICK started \in SUBSET Axes(m) :
          /\ axis' = [a \in Axis |->
                        IF a \in started THEN "due" ELSE axis[a]]
          /\ aim' = [a \in Axis |->
                       IF a \in started THEN register[m] ELSE aim[a]]
    BY DEF Rises
  <1> QED
    BY <1>1 DEF TypeOK, Rises

(* The calling thread's transactions.                                      *)
LEMMA TypeWrite ==
  TypeOK /\ (WriteSpeed \/ WriteTarget \/ WriteStart \/ WriteClear) => TypeOK'
  <1> SUFFICES ASSUME TypeOK,
                      WriteSpeed \/ WriteTarget \/ WriteStart \/ WriteClear
               PROVE  TypeOK'
    OBVIOUS
  <1> USE DEF Release, Ends, Asking, Thread, plcVars
  <1>1. CASE WriteSpeed
    BY <1>1 DEF WriteSpeed, TypeOK
  <1>2. CASE WriteTarget
    BY <1>2 DEF WriteTarget, TypeOK
  <1>3. CASE WriteStart
    <2>1. CASE Rises(motion)
      <3>1. motion \in Motion
        BY DEF TypeOK
      <3> QED
        BY <1>3, <2>1, <3>1, TypeRises DEF WriteStart, TypeOK
    <2>2. CASE UNCHANGED plcVars
      BY <1>3, <2>2 DEF WriteStart, TypeOK
    <2> QED
      BY <1>3, <2>1, <2>2 DEF WriteStart
  <1>4. CASE WriteClear
    BY <1>4 DEF WriteClear, TypeOK
  <1> QED
    BY <1>1, <1>2, <1>3, <1>4

(* So do the calling thread's other transactions.                           *)
LEMMA TypeRead ==
  TypeOK /\ (Ask \/ ReadMoving \/ ReadFirst \/ AskSecond \/ ReadSecond)
    => TypeOK'
  <1> SUFFICES ASSUME TypeOK,
                      Ask \/ ReadMoving \/ ReadFirst \/ AskSecond \/ ReadSecond
               PROVE  TypeOK'
    OBVIOUS
  <1> USE DEF TypeOK, Release, Begins, Ends, Asking, Thread, plcVars, callVars
  <1>1. CASE Ask
    BY <1>1 DEF Ask
  <1>2. CASE ReadMoving
    <2>1. look' \in Axis /\ caller' \in {"moving", "wait", "clear"}
      BY <1>2 DEF ReadMoving, AxisIsDone, Axis, Answer
    <2>2. clean' \in BOOLEAN
      BY <1>2 DEF ReadMoving
    <2> QED
      BY <1>2, <2>1, <2>2 DEF ReadMoving
  <1>3. CASE ReadFirst
    BY <1>3 DEF ReadFirst
  <1>4. CASE AskSecond
    BY <1>4 DEF AskSecond
  <1>5. CASE ReadSecond
    BY <1>5 DEF ReadSecond
  <1> QED
    BY <1>1, <1>2, <1>3, <1>4, <1>5

(* What the calling thread does between transactions.                      *)
LEMMA TypeBetween ==
  TypeOK /\ (Open \/ Begin \/ GetPosition \/ SetLight \/ Destructor
             \/ Settle \/ TimePasses \/ WaitForAxes \/ Join) => TypeOK'
  <1> SUFFICES ASSUME TypeOK,
                      Open \/ Begin \/ GetPosition \/ SetLight \/ Destructor
                      \/ Settle \/ TimePasses \/ WaitForAxes \/ Join
               PROVE  TypeOK'
    OBVIOUS
  <1> USE PlcAssumption DEF TypeOK, CallerOnly, Asking, plcVars
  <1>1. CASE Open
    BY <1>1 DEF Open
  <1>2. CASE Begin
    BY <1>2 DEF Begin, Position, Zero
  <1>3. CASE GetPosition
    BY <1>3 DEF GetPosition
  <1>4. CASE SetLight
    BY <1>4 DEF SetLight
  <1>5. CASE Destructor
    BY <1>5 DEF Destructor
  <1>6. CASE Settle
    BY <1>6 DEF Settle
  <1>7. CASE TimePasses
    BY <1>7 DEF TimePasses
  <1>8. CASE WaitForAxes
    BY <1>8, MotionAxes DEF WaitForAxes, Axis
  <1>9. CASE Join
    BY <1>9 DEF Join
  <1> QED
    BY <1>1, <1>2, <1>3, <1>4, <1>5, <1>6, <1>7, <1>8, <1>9

(* So does the polling thread.                                              *)
LEMMA TypePoll == TypeOK /\ PollWork => TypeOK'
  BY DEF TypeOK, PollWork, PollLooks, PollAsks, PollAnswers, PollerOnly,
         Begins, Ends, Thread, plcVars, callVars

(* The type invariant of PlcMotion.                                        *)
THEOREM PlcTypeCorrect == Spec => []TypeOK
  <1>1. Init => TypeOK
    <2> SUFFICES ASSUME Init PROVE TypeOK
      OBVIOUS
    <2>1. Zero \in Position /\ 0 \in Axis /\ 0 \in 0 .. MaxMoves
      BY PlcAssumption DEF Position, Zero, Axis
    <2>2. /\ register \in [Motion -> Position]
          /\ axis \in [Axis -> {"still", "due", "moving"}]
          /\ aim \in [Axis -> Position] /\ at \in [Axis -> Position]
      BY <2>1 DEF Init
    <2>3. motion \in Motion /\ goal \in Position /\ look \in Axis
      BY <2>1, MotionAxes DEF Init
    <2> QED
      BY <2>1, <2>2, <2>3 DEF Init, TypeOK
  <1>2. TypeOK /\ [Next]_vars => TypeOK'
    <2> SUFFICES ASSUME TypeOK, [Next]_vars PROVE TypeOK'
      OBVIOUS
    <2>1. CASE Next
      BY <2>1, TypePlc, TypeWrite, TypeRead, TypeBetween, TypePoll
         DEF Next, CallerWork, Rest, TypeOK, vars, plcVars, callVars
    <2>2. CASE UNCHANGED vars
      BY <2>2 DEF TypeOK, vars, plcVars, callVars
    <2> QED
      BY <2>1, <2>2
  <1> QED
    BY <1>1, <1>2, PTL DEF Spec

-----------------------------------------------------------------------------
(* m_plc_register_mutex.                                                   *)

\* Only its holder is in a transaction.  get_position keeps it from the first
\* transaction to the second.
Mutexed ==
  /\ busy \subseteq {mutex}
  /\ "caller" \in busy => caller \in Asking \cup {"position2"}
  /\ caller = "position2" => mutex = "caller"
  /\ poll = "read" => mutex = "poll"

(* The calling thread takes the mutex before each transaction, or has kept  *)
(* it.                                                                      *)
LEMMA MutexedCaller ==
  TypeOK /\ Mutexed /\ (CallerWork \/ Ask) => Mutexed'
  <1> SUFFICES ASSUME TypeOK, Mutexed, CallerWork \/ Ask PROVE Mutexed'
    OBVIOUS
  <1> USE DEF TypeOK, Thread, Mutexed, Asking, Answer, Release, Begins, Ends
  <1>1. CASE Ask
    BY <1>1 DEF Ask, callVars
  <1>2. CASE WriteSpeed \/ WriteTarget
    BY <1>2 DEF WriteSpeed, WriteTarget
  <1>3. CASE WriteStart
    BY <1>3 DEF WriteStart
  <1>4. CASE Settle \/ WaitForAxes \/ Join
    BY <1>4 DEF Settle, WaitForAxes, Join, CallerOnly
  <1>5. CASE ReadMoving
    BY <1>5 DEF ReadMoving, AxisIsDone
  <1>6. CASE WriteClear
    BY <1>6 DEF WriteClear
  <1>7. CASE ReadFirst
    BY <1>7 DEF ReadFirst
  <1>8. CASE AskSecond
    BY <1>8 DEF AskSecond, callVars
  <1>9. CASE ReadSecond
    BY <1>9 DEF ReadSecond
  <1> QED
    BY <1>1, <1>2, <1>3, <1>4, <1>5, <1>6, <1>7, <1>8, <1>9 DEF CallerWork

(* Between transactions it does not hold the mutex.                         *)
LEMMA MutexedRest ==
  TypeOK /\ Mutexed
    /\ (Plc \/ Open \/ Begin \/ GetPosition \/ SetLight \/ Destructor
        \/ TimePasses \/ Rest) => Mutexed'
  <1> SUFFICES ASSUME TypeOK, Mutexed,
                      Plc \/ Open \/ Begin \/ GetPosition \/ SetLight
                      \/ Destructor \/ TimePasses \/ Rest
               PROVE  Mutexed'
    OBVIOUS
  <1> USE DEF Mutexed, Asking, CallerOnly
  <1>1. CASE Plc
    BY <1>1 DEF Plc, StartAxis, StopAxis, PlcOnly, callVars
  <1>2. CASE Open
    BY <1>2 DEF Open
  <1>3. CASE Begin
    BY <1>3 DEF Begin
  <1>4. CASE GetPosition \/ SetLight \/ Destructor
    BY <1>4 DEF GetPosition, SetLight, Destructor
  <1>5. CASE TimePasses \/ Rest
    BY <1>5 DEF TimePasses, Rest, vars, callVars
  <1> QED
    BY <1>1, <1>2, <1>3, <1>4, <1>5

(* The polling thread holds the mutex over its one transaction.             *)
LEMMA MutexedPoll == TypeOK /\ Mutexed /\ PollWork => Mutexed'
  BY DEF TypeOK, Thread, Mutexed, Asking, PollWork, PollLooks, PollAsks,
         PollAnswers, PollerOnly, Begins, Ends, callVars

(* The mutex is held in every transaction.                                  *)
LEMMA MutexedHolds == Spec => []Mutexed
  <1>1. Init => Mutexed
    BY DEF Init, Mutexed
  <1>2. TypeOK /\ Mutexed /\ [Next]_vars => Mutexed'
    <2> SUFFICES ASSUME TypeOK, Mutexed, [Next]_vars PROVE Mutexed'
      OBVIOUS
    <2>1. CASE Next
      BY <2>1, MutexedCaller, MutexedRest, MutexedPoll DEF Next
    <2>2. CASE UNCHANGED vars
      BY <2>2 DEF Mutexed, vars, callVars
    <2> QED
      BY <2>1, <2>2
  <1> QED
    BY <1>1, <1>2, PlcTypeCorrect, PTL DEF Spec

(* Two transactions never share m_modbus_ctx, however the two threads      *)
(* interleave.                                                             *)
THEOREM TransactionsAreSerial == Spec => []OneTransaction
  <1>1. TypeOK /\ Mutexed => OneTransaction
    <2> SUFFICES ASSUME TypeOK, Mutexed PROVE OneTransaction
      OBVIOUS
    <2>1. busy = {} \/ busy = {mutex}
      BY DEF Mutexed
    <2>2. Cardinality(busy) <= 1
      BY <2>1, FS_EmptySet, FS_Singleton
    <2> QED
      BY <2>2 DEF OneTransaction, Mutexed
  <1> QED
    BY <1>1, MutexedHolds, PlcTypeCorrect, PTL

-----------------------------------------------------------------------------
(* The coils.                                                              *)

\* As long as no write to a coil has failed, the only coil that is ever on is
\* that of the motion being made.
CoilOfMotion ==
  ~failed => \/ coil = {}
             \/ /\ coil = {motion}
                /\ caller \in {"settle", "wait", "moving", "clear"}

(* Only a write that fails leaves a coil on behind a motion.                *)
LEMMA CoilCaller == CoilOfMotion /\ (CallerWork \/ Ask) => CoilOfMotion'
  <1> SUFFICES ASSUME CoilOfMotion, CallerWork \/ Ask PROVE CoilOfMotion'
    OBVIOUS
  <1> USE DEF CoilOfMotion, Answer, plcVars, callVars
  <1>1. CASE Ask
    BY <1>1 DEF Ask
  <1>2. CASE WriteSpeed \/ WriteTarget
    BY <1>2 DEF WriteSpeed, WriteTarget
  <1>3. CASE WriteStart
    BY <1>3 DEF WriteStart, Rises
  <1>4. CASE Settle \/ WaitForAxes \/ Join
    BY <1>4 DEF Settle, WaitForAxes, Join, CallerOnly
  <1>5. CASE ReadMoving
    BY <1>5 DEF ReadMoving, AxisIsDone
  <1>6. CASE WriteClear
    BY <1>6 DEF WriteClear
  <1>7. CASE ReadFirst \/ AskSecond \/ ReadSecond
    BY <1>7 DEF ReadFirst, AskSecond, ReadSecond
  <1> QED
    BY <1>1, <1>2, <1>3, <1>4, <1>5, <1>6, <1>7 DEF CallerWork

(* Nothing else touches the coils.                                          *)
LEMMA CoilRest ==
  CoilOfMotion
    /\ (Plc \/ Open \/ Begin \/ GetPosition \/ SetLight \/ Destructor
        \/ TimePasses \/ PollWork \/ Rest) => CoilOfMotion'
  <1> SUFFICES ASSUME CoilOfMotion,
                      Plc \/ Open \/ Begin \/ GetPosition \/ SetLight
                      \/ Destructor \/ TimePasses \/ PollWork \/ Rest
               PROVE  CoilOfMotion'
    OBVIOUS
  <1> USE DEF CoilOfMotion, CallerOnly, plcVars, callVars
  <1>1. CASE Plc
    BY <1>1 DEF Plc, StartAxis, StopAxis, PlcOnly
  <1>2. CASE Open
    BY <1>2 DEF Open
  <1>3. CASE Begin
    BY <1>3 DEF Begin
  <1>4. CASE GetPosition \/ SetLight \/ Destructor
    BY <1>4 DEF GetPosition, SetLight, Destructor
  <1>5. CASE TimePasses \/ Rest
    BY <1>5 DEF TimePasses, Rest, vars
  <1>6. CASE PollWork
    BY <1>6 DEF PollWork, PollLooks, PollAsks, PollAnswers, PollerOnly
  <1> QED
    BY <1>1, <1>2, <1>3, <1>4, <1>5, <1>6

(* No other coil is on, unless a write has failed.                          *)
LEMMA CoilHolds == Spec => []CoilOfMotion
  <1>1. Init => CoilOfMotion
    BY DEF Init, CoilOfMotion
  <1>2. CoilOfMotion /\ [Next]_vars => CoilOfMotion'
    <2> SUFFICES ASSUME CoilOfMotion, [Next]_vars PROVE CoilOfMotion'
      OBVIOUS
    <2>1. CASE Next
      BY <2>1, CoilCaller, CoilRest DEF Next
    <2>2. CASE UNCHANGED vars
      BY <2>2 DEF CoilOfMotion, vars, plcVars, callVars
    <2> QED
      BY <2>1, <2>2
  <1> QED
    BY <1>1, <1>2, PTL DEF Spec

(* M sets the coil of each motion off again on every path, so the next     *)
(* motion finds it off, unless the write itself has failed.                *)
THEOREM MotionsLeaveCoilsOff == Spec => []CoilsAreOff
  <1>1. CoilOfMotion => CoilsAreOff
    BY DEF CoilOfMotion, CoilsAreOff
  <1> QED
    BY <1>1, CoilHolds, PTL

-----------------------------------------------------------------------------
(* Arrival.                                                                *)

\* A reset aims at Zero: it has no register that anything writes.
ResetAimsAtZero ==
  /\ register[Reset] = Zero
  /\ motion = Reset => goal = Zero
  /\ caller \in {"speed", "target"} => motion # Reset

Arriving(a) == aim[a] = goal /\ (axis[a] = "still" => at[a] = goal)
Arrived(a)  == axis[a] = "still" /\ at[a] = goal
Resting     == {"clear", "idle", "position", "position2", "terminated",
                "join", "gone"}

\* Where a motion in which nothing has gone wrong stands.
UnderWay ==
  clean =>
    /\ caller \in {"speed", "target", "start"} =>
         motion \notin coil /\ \A a \in Axes(motion) : axis[a] = "still"
    /\ caller = "start" => register[motion] = goal
    /\ caller \in {"settle", "wait", "moving"} =>
         \A a \in Axes(motion) : Arriving(a)
    /\ caller \in {"wait", "moving"} =>
         \A a \in Axes(motion) : axis[a] # "due"
    /\ caller = "moving" =>
         /\ look \in Axes(motion)
         /\ motion = Reset /\ look = 1 => Arrived(0)
    /\ caller \in Resting => \A a \in Axes(motion) : Arrived(a)
    /\ caller # "new"

Arrival == ResetAimsAtZero /\ UnderWay

(* The PLC's own steps bring an axis that is under way to where it goes.   *)
LEMMA ArrivalPlc == TypeOK /\ Arrival /\ Plc => Arrival'
  <1> SUFFICES ASSUME TypeOK, Arrival,
                      NEW b \in Axis, StartAxis(b) \/ StopAxis(b)
               PROVE  Arrival'
    BY DEF Plc
  <1> USE DEF Arrival, ResetAimsAtZero
  <1>1. ResetAimsAtZero'
    BY DEF StartAxis, StopAxis, PlcOnly, callVars
  <1>2. CASE StartAxis(b)
    BY <1>1, <1>2, MotionAxes
       DEF TypeOK, StartAxis, PlcOnly, callVars, UnderWay, Arriving, Arrived,
           Resting
  <1>3. CASE StopAxis(b)
    BY <1>1, <1>3, MotionAxes
       DEF TypeOK, StopAxis, PlcOnly, callVars, UnderWay, Arriving, Arrived,
           Resting
  <1> QED
    BY <1>2, <1>3

(* A coil that rises with its axes at rest aims each at its register.      *)
LEMMA RiseAims ==
  ASSUME TypeOK, Rises(motion), motion \notin coil,
         \A a \in Axes(motion) : axis[a] = "still"
  PROVE  \A a \in Axes(motion) :
           axis'[a] = "due" /\ aim'[a] = register[motion]
  <1>1. motion \in Motion /\ Axes(motion) \subseteq Axis
    BY MotionAxes DEF TypeOK
  <1>2. PICK started \in SUBSET Axes(motion) :
          /\ {a \in Axes(motion) : axis[a] = "still"} \subseteq started
          /\ axis' = [a \in Axis |->
                        IF a \in started THEN "due" ELSE axis[a]]
          /\ aim' = [a \in Axis |->
                       IF a \in started THEN register[motion] ELSE aim[a]]
    BY DEF Rises
  <1> QED
    BY <1>1, <1>2

(* The calling thread writes the target before it starts the motion, and   *)
(* gives the motion up as not clean when something goes wrong.             *)
LEMMA ArrivalWrite ==
  TypeOK /\ Arrival /\ (WriteSpeed \/ WriteTarget \/ WriteStart \/ WriteClear)
    => Arrival'
  <1> SUFFICES ASSUME TypeOK, Arrival,
                      WriteSpeed \/ WriteTarget \/ WriteStart \/ WriteClear
               PROVE  Arrival'
    OBVIOUS
  <1> USE DEF Arrival, ResetAimsAtZero, UnderWay, Arriving, Arrived, Resting,
              Answer, plcVars
  <1>1. CASE WriteSpeed
    BY <1>1 DEF WriteSpeed
  <1>2. CASE WriteTarget
    <2>1. /\ caller = "target" /\ caller' = "start" /\ motion # Reset
          /\ UNCHANGED <<motion, goal, coil, axis, aim, at>>
      BY <1>2 DEF WriteTarget
    <2>2. ResetAimsAtZero'
      BY <1>2, <2>1, MotionAxes DEF WriteTarget, TypeOK
    <2>3. clean' => clean
      BY <1>2 DEF WriteTarget, TypeOK
    <2>4. clean' => register' = [register EXCEPT ![motion] = goal]
      BY <1>2 DEF WriteTarget
    <2>5. clean' => register'[motion] = goal
      BY <2>4 DEF TypeOK
    <2> QED
      BY <2>1, <2>2, <2>3, <2>5
  <1>3. CASE WriteStart
    <2>1. CASE clean'
      <3>1. link /\ Rises(motion) /\ clean /\ caller' = "settle"
            /\ UNCHANGED <<motion, goal>>
        BY <1>3, <2>1 DEF WriteStart
      <3>2. register' = register
        BY <3>1 DEF Rises
      <3> QED
        BY <1>3, <3>1, <3>2, RiseAims DEF WriteStart
    <2>2. CASE ~clean'
      BY <1>3, <2>2 DEF WriteStart, Rises
    <2> QED
      BY <2>1, <2>2
  <1>4. CASE WriteClear
    BY <1>4 DEF WriteClear
  <1> QED
    BY <1>1, <1>2, <1>3, <1>4

(* The wait ends only when every axis of the motion has been seen at rest. *)
LEMMA ArrivalWait ==
  TypeOK /\ Arrival /\ (Settle \/ TimePasses \/ WaitForAxes \/ ReadMoving)
    => Arrival'
  <1> SUFFICES ASSUME TypeOK, Arrival,
                      Settle \/ TimePasses \/ WaitForAxes \/ ReadMoving
               PROVE  Arrival'
    OBVIOUS
  <1> USE DEF Arrival, ResetAimsAtZero, UnderWay, Arriving, Arrived, Resting,
              Answer, CallerOnly, plcVars
  <1>1. CASE Settle
    BY <1>1 DEF Settle
  <1>2. CASE TimePasses
    BY <1>2 DEF TimePasses
  <1>3. CASE WaitForAxes
    BY <1>3, MotionAxes DEF WaitForAxes, TypeOK
  <1>4. CASE ReadMoving
    <2>1. CASE ~clean'
      BY <1>4, <2>1 DEF ReadMoving, AxisIsDone
    <2>2. CASE clean' /\ axis[look] = "moving"
      BY <1>4, <2>2 DEF ReadMoving
    <2>3. CASE clean' /\ axis[look] # "moving"
      <3>1. AxisIsDone /\ clean /\ UNCHANGED <<plcVars, motion, goal>>
        BY <1>4, <2>3 DEF ReadMoving
      <3>2. caller = "moving" /\ look \in Axes(motion) /\ Arrived(look)
        BY <1>4, <2>3, <3>1, MotionAxes DEF ReadMoving, TypeOK
      <3>3. CASE motion = Reset /\ look = 0
        BY <1>4, <3>1, <3>2, <3>3, MotionAxes
           DEF ReadMoving, AxisIsDone, Axis
      <3>4. CASE ~(motion = Reset /\ look = 0)
        <4>1. \A a \in Axes(motion) : Arrived(a)
          BY <3>1, <3>2, <3>4, MotionAxes DEF TypeOK, Axis
        <4> QED
          BY <1>4, <3>1, <3>2, <3>4, <4>1 DEF ReadMoving, AxisIsDone
      <3> QED
        BY <3>3, <3>4
    <2> QED
      BY <2>1, <2>2, <2>3
  <1> QED
    BY <1>1, <1>2, <1>3, <1>4

(* The other operations leave the axes alone, and a new motion is clean    *)
(* only if it finds them at rest.                                          *)
LEMMA ArrivalRest ==
  TypeOK /\ Arrival
    /\ (Open \/ Begin \/ GetPosition \/ SetLight \/ Destructor \/ Ask
        \/ ReadFirst \/ AskSecond \/ ReadSecond \/ Join \/ PollWork \/ Rest)
    => Arrival'
  <1> SUFFICES ASSUME TypeOK, Arrival,
                      Open \/ Begin \/ GetPosition \/ SetLight \/ Destructor
                      \/ Ask \/ ReadFirst \/ AskSecond \/ ReadSecond \/ Join
                      \/ PollWork \/ Rest
               PROVE  Arrival'
    OBVIOUS
  <1> USE DEF Arrival, ResetAimsAtZero, UnderWay, Arriving, Arrived, Resting,
              CallerOnly, plcVars, callVars
  <1>1. CASE Open
    BY <1>1 DEF Open
  <1>2. CASE Begin
    <2>1. PICK m \in Motion :
            /\ motion' = m
            /\ goal' = IF m = Reset THEN Zero ELSE moves + 1
            /\ caller' = IF m = Reset THEN "start" ELSE "speed"
            /\ clean' = (m \notin coil /\ \A a \in Axes(m) : axis[a] = "still")
      BY <1>2 DEF Begin
    <2>2. UNCHANGED plcVars
      BY <1>2 DEF Begin
    <2>3. ResetAimsAtZero'
      BY <2>1, <2>2
    <2>4. caller' \in {"speed", "start"} /\ (caller' = "start" => m = Reset)
      BY <2>1
    <2>5. clean' => m \notin coil /\ \A a \in Axes(m) : axis[a] = "still"
      BY <2>1, Zenon
    <2>6. UnderWay'
      BY <2>1, <2>2, <2>3, <2>4, <2>5
    <2> QED
      BY <2>3, <2>6
  <1>3. CASE GetPosition \/ SetLight \/ Destructor
    BY <1>3 DEF GetPosition, SetLight, Destructor
  <1>4. CASE Ask
    BY <1>4 DEF Ask
  <1>5. CASE ReadFirst \/ AskSecond \/ ReadSecond
    BY <1>5 DEF ReadFirst, AskSecond, ReadSecond, Answer, Release
  <1>6. CASE Join
    BY <1>6 DEF Join
  <1>7. CASE PollWork
    BY <1>7 DEF PollWork, PollLooks, PollAsks, PollAnswers, PollerOnly
  <1>8. CASE Rest
    BY <1>8 DEF Rest, vars
  <1> QED
    BY <1>1, <1>2, <1>3, <1>4, <1>5, <1>6, <1>7, <1>8

(* A clean motion is always on its way to its goal or there.                *)
LEMMA ArrivalHolds == Spec => []Arrival
  <1>1. Init => Arrival
    BY MotionAxes DEF Init, Arrival, ResetAimsAtZero, UnderWay
  <1>2. TypeOK /\ Arrival /\ [Next]_vars => Arrival'
    <2> SUFFICES ASSUME TypeOK, Arrival, [Next]_vars PROVE Arrival'
      OBVIOUS
    <2>1. CASE Next
      BY <2>1, ArrivalPlc, ArrivalWrite, ArrivalWait, ArrivalRest
         DEF Next, CallerWork
    <2>2. CASE UNCHANGED vars
      BY <2>2 DEF Arrival, ResetAimsAtZero, UnderWay, Arriving, Arrived,
                  vars, plcVars, callVars
    <2> QED
      BY <2>1, <2>2
  <1> QED
    BY <1>1, <1>2, PlcTypeCorrect, PTL DEF Spec

(* A motion in which nothing goes wrong ends where the calling thread      *)
(* asked, although that thread only ever samples whether the axes move.    *)
THEOREM CleanMotionsArrive == Spec => []CleanMovesArrive
  <1>1. Arrival => CleanMovesArrive
    BY DEF Arrival, UnderWay, Arrived, Resting, CleanMovesArrive
  <1> QED
    BY <1>1, ArrivalHolds, PTL

-----------------------------------------------------------------------------
(* The serial port.  Its types, for which the commands of an operation     *)
(* must fit, and what is known of the reader's hand and of a port that has *)
(* not been opened.                                                        *)

Waiting == sender \in {"test", "blocked"}

CommandsFit ==
  /\ sent + left <= MaxCommands
  /\ sender = "write" => left > 0
  /\ timeouts <= sent
  /\ Waiting => timeouts < sent

Hands ==
  /\ reader = "push" <=> inHand # None
  /\ sender = "new" => port = "closed" /\ reader = "none" /\ sent = 0

PortInv == PortTypeOK /\ CommandsFit /\ Hands

(* What the proofs use of the constants.                                   *)
LEMMA PortConstants ==
  /\ MaxCommands \in Nat /\ MaxMessages \in Nat
  /\ None \notin Cmd /\ Message \notin Cmd /\ None # Message
  /\ Cmd \subseteq Nat /\ Line \subseteq Nat /\ Cmd \subseteq Line
  BY SerialPortAssumption DEF SerialPortAssumption, Cmd, None, Message, Line

(* The device's steps keep the invariant.                                  *)
LEMMA PortDevice == PortInv /\ Device => PortInv'
  <1> SUFFICES ASSUME PortInv, Device PROVE PortInv'
    OBVIOUS
  <1> USE PortConstants
      DEF PortInv, PortTypeOK, CommandsFit, Hands, Waiting, readerVars,
          senderVars
  <1>1. CASE Execute
    <2>1. Head(todo) \in Cmd /\ Tail(todo) \in Seq(Cmd)
      BY <1>1 DEF Execute
    <2>2. Head(todo) \in Line /\ line \in Seq(Line)
      BY <2>1
    <2>3. Append(line, Head(todo)) \in Seq(Line)
      BY ONLY <2>2
    <2>4. Head(todo) \in 0 .. MaxCommands
      BY <2>1 DEF Cmd
    <2> QED
      BY <1>1, <2>1, <2>3, <2>4 DEF Execute
  <1>2. CASE SendMessage
    <2>1. Append(line, Message) \in Seq(Line)
      BY DEF Line
    <2> QED
      BY <1>2, <2>1 DEF SendMessage
  <1>3. CASE Unplug
    <2>1. line' \in Seq(Line)
      BY <1>3 DEF Unplug
    <2> QED
      BY <1>3, <2>1 DEF Unplug
  <1> QED
    BY <1>1, <1>2, <1>3 DEF Device

(* A reply is taken by a command that has not timed out.                   *)
LEMMA PortTake ==
  ASSUME PortInv, TakeReply, Waiting
  PROVE  /\ replies' \in Seq(Cmd)
         /\ last' \in [cmd : Cmd \cup {None}, reply : Cmd \cup {None}]
         /\ sender' \in {"write", "idle"}
         /\ sender' = "write" => left > 0
  <1> USE PortConstants DEF PortInv, PortTypeOK, CommandsFit
  <1>1. Head(replies) \in Cmd /\ Tail(replies) \in Seq(Cmd)
    BY DEF TakeReply
  <1>2. sent \in Cmd
    BY DEF Cmd
  <1> QED
    BY <1>1, <1>2 DEF TakeReply, NextCommand

(* The steps of the thread that sends keep the invariant.                  *)
LEMMA PortSender ==
  PortInv /\ (OpenPort \/ BeginOperation \/ SendCommand \/ SpuriousWakeup
              \/ DestroyPort) => PortInv'
  <1> SUFFICES ASSUME PortInv,
                      OpenPort \/ BeginOperation \/ SendCommand
                      \/ SpuriousWakeup \/ DestroyPort
               PROVE  PortInv'
    OBVIOUS
  <1> USE PortConstants
      DEF PortInv, PortTypeOK, CommandsFit, Hands, Waiting, deviceVars,
          readerVars, senderVars, SenderAlone
  <1>1. CASE OpenPort
    BY <1>1 DEF OpenPort
  <1>2. CASE BeginOperation
    BY <1>2 DEF BeginOperation
  <1>3. CASE Write
    <2>1. sent + 1 \in Cmd
      BY <1>3 DEF Write, Cmd
    <2>2. Append(todo, sent + 1) \in Seq(Cmd)
      BY <2>1
    <2> QED
      BY <1>3, <2>2 DEF Write
  <1>4. CASE TestReplies
    <2>1. CASE TakeReply /\ UNCHANGED notified
      BY <1>4, <2>1, PortTake DEF TestReplies
    <2>2. CASE ~TakeReply
      BY <1>4, <2>2 DEF TestReplies
    <2> QED
      BY <1>4, <2>1, <2>2 DEF TestReplies
  <1>5. CASE Timeout
    <2>1. CASE TakeReply /\ UNCHANGED timeouts
      BY <1>5, <2>1, PortTake DEF Timeout
    <2>2. CASE /\ replies = <<>>
               /\ timeouts' = timeouts + 1
               /\ NextCommand
               /\ UNCHANGED <<replies, last>>
      BY <1>5, <2>2 DEF Timeout, NextCommand
    <2> QED
      BY <1>5, <2>1, <2>2 DEF Timeout
  <1>6. CASE WriteThrows \/ WakeUp \/ SpuriousWakeup \/ JoinReader
    BY <1>6 DEF WriteThrows, WakeUp, SpuriousWakeup, JoinReader
  <1>7. CASE DestroyPort
    BY <1>7 DEF DestroyPort
  <1> QED
    BY <1>1, <1>2, <1>3, <1>4, <1>5, <1>6, <1>7 DEF SendCommand

(* The io thread's steps keep the invariant.                               *)
LEMMA PortReader == PortInv /\ Reader => PortInv'
  <1> SUFFICES ASSUME PortInv, Reader PROVE PortInv'
    OBVIOUS
  <1> USE PortConstants
      DEF PortInv, PortTypeOK, CommandsFit, Hands, Waiting, readerVars,
          senderVars, ReaderAlone
  <1>1. CASE ReadReply
    <2>1. Head(line) \in Cmd /\ Tail(line) \in Seq(Line)
      BY <1>1 DEF ReadReply, Line
    <2> QED
      BY <1>1, <2>1 DEF ReadReply
  <1>2. CASE ReadMessage
    BY <1>2 DEF ReadMessage
  <1>3. CASE PushReply
    <2>1. Append(replies, inHand) \in Seq(Cmd)
      BY <1>3 DEF PushReply
    <2> QED
      BY <1>3, <2>1 DEF PushReply
  <1>4. CASE NotifyCaller
    <2>1. notified' \in BOOLEAN
      BY <1>4 DEF NotifyCaller
    <2> QED
      BY <1>4, <2>1 DEF NotifyCaller
  <1>5. CASE ReadFails
    BY <1>5 DEF ReadFails
  <1> QED
    BY <1>1, <1>2, <1>3, <1>4, <1>5 DEF Reader

(* Every step keeps the invariant,                                         *)
LEMMA PortStep == PortInv /\ [PortNext]_portVars => PortInv'
  <1> SUFFICES ASSUME PortInv, [PortNext]_portVars PROVE PortInv'
    OBVIOUS
  <1>1. CASE PortRest \/ UNCHANGED portVars
    BY <1>1 DEF PortRest, portVars, PortInv, PortTypeOK, CommandsFit, Hands,
                Waiting, deviceVars, readerVars, senderVars
  <1> QED
    BY <1>1, PortDevice, PortSender, PortReader DEF PortNext

(* which therefore always holds.                                           *)
LEMMA PortHolds == PortSpec => []PortInv
  <1>1. PortInit => PortInv
    <2> SUFFICES ASSUME PortInit PROVE PortInv
      OBVIOUS
    <2>1. todo \in Seq(Cmd) /\ line \in Seq(Line) /\ replies \in Seq(Cmd)
      BY DEF PortInit
    <2>2. last \in [cmd : Cmd \cup {None}, reply : Cmd \cup {None}]
      BY DEF PortInit
    <2>3. inHand \in Cmd \cup {None} /\ inHand = None
      BY DEF PortInit
    <2>4. 0 \in 0 .. MaxCommands /\ 0 \in 0 .. MaxMessages /\ 0 \in 0 .. 4
      BY PortConstants
    <2>5. PortTypeOK
      BY <2>1, <2>2, <2>3, <2>4 DEF PortInit, PortTypeOK
    <2>6. CommandsFit
      BY PortConstants DEF PortInit, CommandsFit, Waiting
    <2>7. Hands
      BY DEF PortInit, Hands
    <2> QED
      BY <2>5, <2>6, <2>7 DEF PortInv
  <1> QED
    BY <1>1, PortStep, PTL DEF PortSpec

(* However many commands, messages and timeouts there are, and whatever    *)
(* becomes of the line, the variables of the port keep their types.        *)
THEOREM PortTypeCorrect == PortSpec => []PortTypeOK
  <1>1. PortInv => PortTypeOK
    BY DEF PortInv
  <1> QED
    BY <1>1, PortHolds, PTL

(* A caller that blocks has seen an empty queue, and each reply that comes *)
(* after that is followed by a notification.                               *)
THEOREM RepliesWake == PortSpec => []NoLostReply
  <1>1. PortInit => NoLostReply
    BY DEF PortInit, NoLostReply
  <1>2. NoLostReply /\ [PortNext]_portVars => NoLostReply'
    <2> SUFFICES ASSUME NoLostReply, [PortNext]_portVars,
                        sender' = "blocked", replies' # <<>>
                 PROVE  notified' \/ reader' = "notify"
      BY DEF NoLostReply
    <2> USE DEF NoLostReply, deviceVars, readerVars, senderVars, SenderAlone,
                ReaderAlone
    <2>1. CASE Device
      BY <2>1 DEF Device, Execute, SendMessage, Unplug
    <2>2. CASE OpenPort \/ BeginOperation \/ SpuriousWakeup \/ DestroyPort
      BY <2>2 DEF OpenPort, BeginOperation, SpuriousWakeup, DestroyPort
    <2>3. CASE SendCommand
      BY <2>3 DEF SendCommand, Write, WriteThrows, TestReplies, TakeReply,
                  NextCommand, WakeUp, Timeout, JoinReader
    <2>4. CASE Reader
      BY <2>4 DEF Reader, ReadReply, ReadMessage, PushReply, NotifyCaller,
                  ReadFails
    <2>5. CASE PortRest \/ UNCHANGED portVars
      BY <2>5 DEF PortRest, portVars
    <2> QED
      BY <2>1, <2>2, <2>3, <2>4, <2>5 DEF PortNext
  <1> QED
    BY <1>1, <1>2, PTL DEF PortSpec

(* RepliesOf, by induction: a set of natural numbers that has a member has *)
(* a least one.                                                              *)
LEMMA LeastNumber ==
  ASSUME NEW T \in SUBSET Nat, T # {}
  PROVE  \E m \in T : \A k \in T : m <= k
  <1>1. PICK m \in T : \A k \in T : <<k, m>> \notin OpToRel(<, Nat)
    BY WFMin, NatLessThanWellFounded, Zenon
  <1>2. \A k \in T : ~(k < m)
    BY <1>1, Zenon DEF OpToRel
  <1> QED
    BY <1>2

\* The recursive function of RepliesOf, up to the n-th line.
IsFirst(f, lines, n) ==
  f = [k \in 0 .. n |->
         IF k = 0 THEN <<>>
         ELSE IF lines[k] = Message THEN f[k - 1]
         ELSE Append(f[k - 1], lines[k])]

(* There is one, however many lines there are.                             *)
LEMMA FirstExists ==
  ASSUME NEW lines, NEW n \in Nat
  PROVE  \E f : IsFirst(f, lines, n)
  <1> DEFINE T == {m \in Nat : ~ \E f : IsFirst(f, lines, m)}
  <1>1. CASE T = {}
    BY <1>1
  <1>2. CASE T # {}
    <2>1. PICK m \in T : \A k \in T : m <= k
      BY <1>2, LeastNumber
    <2>2. CASE m = 0
      <3>1. IsFirst([k \in 0 .. 0 |-> <<>>], lines, 0)
        BY DEF IsFirst
      <3> QED
        BY <2>2, <3>1
    <2>3. CASE m # 0
      <3>1. m - 1 \in Nat /\ m - 1 \notin T /\ m \in Nat
        BY <2>1, <2>3
      <3>2. PICK g : IsFirst(g, lines, m - 1)
        BY <3>1
      <3> DEFINE taken == IF lines[m] = Message THEN g[m - 1]
                         ELSE Append(g[m - 1], lines[m])
                 f == [k \in 0 .. m |-> IF k = m THEN taken ELSE g[k]]
      <3>3. ASSUME NEW k \in 0 .. m
            PROVE  f[k] = IF k = 0 THEN <<>>
                          ELSE IF lines[k] = Message THEN f[k - 1]
                          ELSE Append(f[k - 1], lines[k])
        <4>1. CASE k = m
          <5>1. k # 0 /\ k - 1 \in 0 .. m /\ k - 1 # m /\ f[k - 1] = g[k - 1]
            BY <2>3, <3>1, <4>1
          <5>2. f[k] = taken
            BY <4>1
          <5> HIDE DEF f
          <5> QED
            BY <4>1, <5>1, <5>2
        <4>2. CASE k # m
          <5>1. /\ k \in 0 .. m - 1 /\ f[k] = g[k]
                /\ k # 0 => /\ k - 1 \in 0 .. m /\ k - 1 # m
                            /\ f[k - 1] = g[k - 1]
            BY <3>1, <4>2
          <5>2. g[k] = IF k = 0 THEN <<>>
                       ELSE IF lines[k] = Message THEN g[k - 1]
                       ELSE Append(g[k - 1], lines[k])
            BY <3>2, <5>1 DEF IsFirst
          <5> HIDE DEF f
          <5> QED
            BY <5>1, <5>2
        <4> QED
          BY <4>1, <4>2
      <3>4. f = [k \in 0 .. m |-> f[k]]
        OBVIOUS
      <3> HIDE DEF f
      <3>5. IsFirst(f, lines, m)
        BY <3>3, <3>4 DEF IsFirst
      <3> QED
        BY <2>1, <3>5
    <2> QED
      BY <2>2, <2>3
  <1> QED
    BY <1>1, <1>2

(* Two of them agree as far as their lines do.                             *)
LEMMA FirstOfSame ==
  ASSUME NEW s, NEW t, NEW n \in Nat, NEW m \in Nat, NEW f, NEW g,
         IsFirst(f, s, n), IsFirst(g, t, m),
         NEW l \in Nat, l <= n, l <= m, \A k \in 1 .. l : s[k] = t[k]
  PROVE  f[l] = g[l]
  <1> DEFINE T == {k \in 0 .. l : f[k] # g[k]}
  <1>1. CASE T = {}
    BY <1>1
  <1>2. CASE T # {}
    <2>1. PICK k \in T : \A j \in T : k <= j
      <3>1. T \in SUBSET Nat
        OBVIOUS
      <3> HIDE DEF T
      <3> QED
        BY <1>2, <3>1, LeastNumber
    <2>2. k \in 0 .. l /\ k \in 0 .. n /\ k \in 0 .. m /\ f[k] # g[k]
      BY <2>1
    <2>3. /\ f[k] = IF k = 0 THEN <<>> ELSE IF s[k] = Message THEN f[k - 1]
                                       ELSE Append(f[k - 1], s[k])
          /\ g[k] = IF k = 0 THEN <<>> ELSE IF t[k] = Message THEN g[k - 1]
                                       ELSE Append(g[k - 1], t[k])
      BY <2>2 DEF IsFirst
    <2>4. k # 0
      BY <2>2, <2>3
    <2>5. k \in 1 .. l /\ k - 1 \in 0 .. l /\ k - 1 \notin T
      BY <2>1, <2>2, <2>4
    <2> QED
      BY <2>2, <2>3, <2>4, <2>5
  <1> QED
    BY <1>1, <1>2

(* RepliesOf is the last value of its recursive function.                  *)
LEMMA RepliesOfIs ==
  ASSUME NEW lines, Len(lines) \in Nat
  PROVE  \E f : IsFirst(f, lines, Len(lines))
                /\ RepliesOf(lines) = f[Len(lines)]
  BY FirstExists DEF RepliesOf, IsFirst

(* No lines, no replies.                                                   *)
LEMMA RepliesOfNone ==
  RepliesOf(<<>>) = <<>>
  <1>1. Len(<<>>) = 0
    OBVIOUS
  <1>2. PICK f : IsFirst(f, <<>>, 0) /\ RepliesOf(<<>>) = f[0]
    BY <1>1, RepliesOfIs
  <1> QED
    BY <1>2 DEF IsFirst

(* A line that is added adds a reply unless it is a message.               *)
LEMMA RepliesOfAppend ==
  ASSUME NEW s \in Seq(Nat), NEW e \in Nat
  PROVE  RepliesOf(Append(s, e)) = IF e = Message THEN RepliesOf(s)
                                   ELSE Append(RepliesOf(s), e)
  <1> DEFINE t == Append(s, e)
             n == Len(s)
  <1>1. /\ n \in Nat /\ Len(t) = n + 1 /\ t[n + 1] = e
        /\ \A k \in 1 .. n : s[k] = t[k]
    OBVIOUS
  <1> HIDE DEF t, n
  <1>2. PICK f : IsFirst(f, s, n) /\ RepliesOf(s) = f[n]
    BY <1>1, RepliesOfIs DEF n
  <1>3. PICK g : IsFirst(g, t, n + 1) /\ RepliesOf(t) = g[n + 1]
    BY <1>1, RepliesOfIs
  <1>4. f[n] = g[n]
    BY <1>1, <1>2, <1>3, FirstOfSame
  <1>5. g[n + 1] = IF t[n + 1] = Message THEN g[n] ELSE Append(g[n], t[n + 1])
    <2>1. n + 1 \in 0 .. n + 1 /\ n + 1 # 0 /\ (n + 1) - 1 = n
      BY <1>1
    <2> QED
      BY <1>3, <2>1 DEF IsFirst
  <1> QED
    BY <1>1, <1>2, <1>3, <1>4, <1>5 DEF t

(* The values of the recursive function are sequences,                     *)
LEMMA FirstIsSeq ==
  ASSUME NEW s \in Seq(Nat), NEW f, IsFirst(f, s, Len(s)),
         NEW l \in 0 .. Len(s)
  PROVE  f[l] \in Seq(Nat)
  <1> DEFINE T == {k \in 0 .. Len(s) : f[k] \notin Seq(Nat)}
  <1>1. CASE T = {}
    BY <1>1
  <1>2. CASE T # {}
    <2>1. PICK k \in T : \A j \in T : k <= j
      <3>1. T \in SUBSET Nat
        OBVIOUS
      <3> HIDE DEF T
      <3> QED
        BY <1>2, <3>1, LeastNumber
    <2>2. k \in 0 .. Len(s) /\ f[k] \notin Seq(Nat) /\ Len(s) \in Nat
      BY <2>1
    <2>3. f[k] = IF k = 0 THEN <<>> ELSE IF s[k] = Message THEN f[k - 1]
                                    ELSE Append(f[k - 1], s[k])
      BY <2>2 DEF IsFirst
    <2>4. k # 0
      BY <2>2, <2>3
    <2>5. k - 1 \in 0 .. Len(s) /\ k - 1 \notin T /\ k \in 1 .. Len(s)
      BY <2>1, <2>2, <2>4
    <2>6. f[k - 1] \in Seq(Nat) /\ s[k] \in Nat
      BY <2>5
    <2> QED
      BY <2>2, <2>3, <2>4, <2>6
  <1> QED
    BY <1>1, <1>2

(* and so are the replies.                                                 *)
LEMMA RepliesOfType ==
  ASSUME NEW s \in Seq(Nat)
  PROVE  RepliesOf(s) \in Seq(Nat)
  <1>1. Len(s) \in Nat /\ Len(s) \in 0 .. Len(s)
    OBVIOUS
  <1>2. PICK f : IsFirst(f, s, Len(s)) /\ RepliesOf(s) = f[Len(s)]
    BY <1>1, RepliesOfIs
  <1> QED
    BY <1>1, <1>2, FirstIsSeq

(* Appending to the end of two sequences.                                  *)
LEMMA AppendConcat ==
  ASSUME NEW u \in Seq(Nat), NEW v \in Seq(Nat), NEW e \in Nat
  PROVE  Append(u \o v, e) = u \o Append(v, e)
  <1>1. <<e>> \in Seq(Nat) /\ u \o v \in Seq(Nat)
    OBVIOUS
  <1>2. Append(v, e) = v \o <<e>> /\ Append(u \o v, e) = (u \o v) \o <<e>>
    BY <1>1, AppendIsConcat
  <1> QED
    BY <1>1, <1>2, ConcatAssociative

(* The first line, and the replies of the others.                          *)
LEMMA RepliesOfTail ==
  ASSUME NEW s \in Seq(Nat), s # <<>>
  PROVE  RepliesOf(s) = IF Head(s) = Message THEN RepliesOf(Tail(s))
                        ELSE <<Head(s)>> \o RepliesOf(Tail(s))
  <1> DEFINE t == Tail(s)
             n == Len(s)
             h == IF Head(s) = Message THEN <<>> ELSE <<Head(s)>>
  <1>1. /\ n \in Nat /\ n >= 1 /\ t \in Seq(Nat) /\ Len(t) = n - 1
        /\ Head(s) = s[1] /\ Head(s) \in Nat
        /\ \A k \in 1 .. n - 1 : t[k] = s[k + 1] /\ t[k] \in Nat
    OBVIOUS
  <1>2. h \in Seq(Nat)
    BY <1>1
  <1> HIDE DEF t, n
  <1>3. PICK f : IsFirst(f, s, n) /\ RepliesOf(s) = f[n]
    BY <1>1, RepliesOfIs DEF n
  <1>4. PICK g : IsFirst(g, t, n - 1) /\ RepliesOf(t) = g[n - 1]
    <2>1. Len(t) \in Nat
      BY <1>1
    <2> QED
      BY <1>1, <2>1, RepliesOfIs
  <1>5. f[1] = h
    <2>1. f[0] = <<>> /\ f[1] = IF s[1] = Message THEN f[0]
                                ELSE Append(f[0], s[1])
      <3>1. 0 \in 0 .. n /\ 1 \in 0 .. n /\ 1 - 1 = 0 /\ 1 # 0
        BY <1>1
      <3>2. \A k \in 0 .. n :
              f[k] = IF k = 0 THEN <<>> ELSE IF s[k] = Message THEN f[k - 1]
                                        ELSE Append(f[k - 1], s[k])
        BY <1>3 DEF IsFirst
      <3>3. f[0] = <<>>
        BY <3>1, <3>2
      <3>4. f[1] = IF s[1] = Message THEN f[1 - 1] ELSE Append(f[1 - 1], s[1])
        BY <3>1, <3>2
      <3> QED
        BY <3>1, <3>3, <3>4
    <2> QED
      BY <1>1, <2>1
  <1> HIDE DEF h
  <1>6. ASSUME NEW k \in 0 .. n - 1
        PROVE  f[k + 1] = h \o g[k]
    <2> DEFINE T == {j \in 0 .. n - 1 : f[j + 1] # h \o g[j]}
    <2>1. CASE T = {}
      BY <2>1
    <2>2. CASE T # {}
      <3>1. PICK j \in T : \A i \in T : j <= i
        <4>1. T \in SUBSET Nat
          BY <1>1
        <4> HIDE DEF T
        <4> QED
          BY <2>2, <4>1, LeastNumber
      <3>2. /\ j \in Nat /\ j <= n - 1 /\ j \in 0 .. n - 1
            /\ j + 1 \in 0 .. n /\ j + 1 # 0 /\ (j + 1) - 1 = j
            /\ f[j + 1] # h \o g[j]
        BY <1>1, <3>1
      <3>3. f[j + 1] = IF s[j + 1] = Message THEN f[j]
                       ELSE Append(f[j], s[j + 1])
        BY <1>3, <3>2 DEF IsFirst
      <3>4. g[j] = IF j = 0 THEN <<>> ELSE IF t[j] = Message THEN g[j - 1]
                                      ELSE Append(g[j - 1], t[j])
        BY <1>4, <3>2 DEF IsFirst
      <3>5. j # 0
        <4> SUFFICES ASSUME j = 0 PROVE FALSE
          OBVIOUS
        <4>1. g[0] = <<>> /\ f[1] # h \o g[0]
          BY <3>2, <3>4
        <4>2. h \o <<>> = h
          BY <1>2
        <4> QED
          BY <1>5, <4>1, <4>2
      <3>6. /\ j - 1 \in 0 .. n - 1 /\ j - 1 \notin T
            /\ j \in 1 .. n - 1 /\ (j - 1) + 1 = j
        <4>1. /\ j - 1 \in 0 .. n - 1 /\ j \in 1 .. n - 1
              /\ (j - 1) + 1 = j /\ ~(j <= j - 1)
          BY ONLY <1>1, <3>2, <3>5
        <4>2. j - 1 \notin T
          BY ONLY <3>1, <4>1
        <4> QED
          BY <4>1, <4>2
      <3>7. f[j] = h \o g[j - 1]
        BY <3>6
      <3>8. t[j] = s[j + 1] /\ t[j] \in Nat
        BY <1>1, <3>6
      <3>9. g[j - 1] \in Seq(Nat)
        BY <1>1, <1>4, <3>6, FirstIsSeq
      <3>10. Append(h \o g[j - 1], t[j]) = h \o Append(g[j - 1], t[j])
        <4>1. \A u, v \in Seq(Nat), e \in Nat :
                Append(u \o v, e) = u \o Append(v, e)
          BY AppendConcat
        <4>2. h \in Seq(Nat)
          BY <1>2
        <4>3. t[j] \in Nat
          BY <3>8
        <4> QED
          BY ONLY <4>1, <4>2, <4>3, <3>9
      <3> QED
        BY <3>2, <3>3, <3>4, <3>5, <3>7, <3>8, <3>10
    <2> QED
      BY <2>1, <2>2
  <1>7. RepliesOf(s) = h \o RepliesOf(t)
    <2>1. n - 1 \in 0 .. n - 1 /\ (n - 1) + 1 = n
      BY <1>1
    <2> QED
      BY <1>3, <1>4, <1>6, <2>1
  <1>8. <<>> \o RepliesOf(t) = RepliesOf(t)
    BY <1>1, RepliesOfType
  <1> QED
    BY <1>7, <1>8 DEF h, t

-----------------------------------------------------------------------------
(* The port is a ReplyChannel.  Its queue of replies is what the reader    *)
(* has queued, what it holds, and what is still on the line.               *)

Held == IF inHand = None THEN <<>> ELSE <<inHand>>

Coming == replies \o Held \o RepliesOf(line)

(* Commands and lines are numbers.                                         *)
LEMMA SeqOfNumbers ==
  /\ \A s \in Seq(Cmd) : s \in Seq(Nat)
  /\ \A s \in Seq(Line) : s \in Seq(Nat)
  <1>1. ASSUME NEW s \in Seq(Cmd) PROVE s \in Seq(Nat)
    <2>1. /\ Len(s) \in Nat /\ s \in [1 .. Len(s) -> Cmd]
          /\ Cmd \subseteq Nat
      BY LenProperties, PortConstants
    <2>2. s \in [1 .. Len(s) -> Nat]
      BY ONLY <2>1
    <2> QED
      BY <2>1, <2>2, SeqDef
  <1>2. ASSUME NEW s \in Seq(Line) PROVE s \in Seq(Nat)
    <2>1. /\ Len(s) \in Nat /\ s \in [1 .. Len(s) -> Line]
          /\ Line \subseteq Nat
      BY LenProperties, PortConstants
    <2>2. s \in [1 .. Len(s) -> Nat]
      BY ONLY <2>1
    <2> QED
      BY <2>1, <2>2, SeqDef
  <1> QED
    BY <1>1, <1>2

(* What is coming is a sequence of numbers, and so are its parts.          *)
LEMMA ComingTypes ==
  ASSUME PortInv
  PROVE  /\ replies \in Seq(Nat) /\ todo \in Seq(Nat) /\ line \in Seq(Nat)
         /\ Held \in Seq(Nat) /\ RepliesOf(line) \in Seq(Nat)
         /\ replies \o Held \in Seq(Nat)
         /\ Message \in Nat /\ inHand \in Nat
  <1>1. Cmd \subseteq Nat /\ Line \subseteq Nat /\ Message \in Nat
    BY PortConstants DEF Message
  <1>2. replies \in Seq(Nat)
    BY SeqOfNumbers DEF PortInv, PortTypeOK
  <1>3. todo \in Seq(Nat)
    BY SeqOfNumbers DEF PortInv, PortTypeOK
  <1>4. line \in Seq(Nat)
    BY SeqOfNumbers DEF PortInv, PortTypeOK
  <1>5. inHand \in Nat
    BY <1>1 DEF PortInv, PortTypeOK, None
  <1>6. Held \in Seq(Nat)
    BY <1>5 DEF Held
  <1>7. replies \o Held \in Seq(Nat)
    BY <1>2, <1>6
  <1> QED
    BY <1>1, <1>2, <1>3, <1>4, <1>5, <1>6, <1>7, RepliesOfType

(* What is coming begins with the queue, if that is not empty.             *)
LEMMA HeadConcat ==
  ASSUME NEW u \in Seq(Nat), NEW v \in Seq(Nat), u # <<>>
  PROVE  /\ u \o v # <<>>
         /\ Head(u \o v) = Head(u)
         /\ Tail(u \o v) = Tail(u) \o v
  OBVIOUS

(* Prefixes.                                                               *)
IsPrefixOf(u, v) == \E k \in 0 .. Len(v) : u = SubSeq(v, 1, k)

LEMMA PrefixGrows ==
  ASSUME NEW u \in Seq(Nat), NEW v \in Seq(Nat), NEW e \in Nat,
         IsPrefixOf(u, v)
  PROVE  IsPrefixOf(u, Append(v, e))
  <1>1. PICK k \in 0 .. Len(v) : u = SubSeq(v, 1, k)
    BY DEF IsPrefixOf
  <1>2. k \in 0 .. Len(Append(v, e))
        /\ SubSeq(Append(v, e), 1, k) = SubSeq(v, 1, k)
    OBVIOUS
  <1> QED
    BY <1>1, <1>2 DEF IsPrefixOf

LEMMA PrefixConcat ==
  ASSUME NEW u \in Seq(Nat), NEW v \in Seq(Nat), NEW w \in Seq(Nat),
         IsPrefixOf(v, w)
  PROVE  IsPrefixOf(u \o v, u \o w)
  <1>1. PICK k \in 0 .. Len(w) : v = SubSeq(w, 1, k)
    BY DEF IsPrefixOf
  <1>2. Len(u) + k \in 0 .. Len(u \o w)
        /\ SubSeq(u \o w, 1, Len(u) + k) = u \o SubSeq(w, 1, k)
    OBVIOUS
  <1> QED
    BY <1>1, <1>2 DEF IsPrefixOf

(* The replies among the first lines are the first of the replies.         *)
LEMMA RepliesOfPrefix ==
  ASSUME NEW s \in Seq(Nat), NEW k \in 0 .. Len(s)
  PROVE  /\ SubSeq(s, 1, k) \in Seq(Nat)
         /\ IsPrefixOf(RepliesOf(SubSeq(s, 1, k)), RepliesOf(s))
  <1> DEFINE n == Len(s)
             t == SubSeq(s, 1, k)
  <1>1. /\ n \in Nat /\ k \in Nat /\ k <= n /\ n \in 0 .. n
        /\ t \in Seq(Nat) /\ Len(t) = k
        /\ \A j \in 1 .. k : s[j] = t[j]
    OBVIOUS
  <1> HIDE DEF n, t
  <1>2. PICK f : IsFirst(f, s, n) /\ RepliesOf(s) = f[n]
    BY <1>1, RepliesOfIs DEF n
  <1>3. PICK g : IsFirst(g, t, k) /\ RepliesOf(t) = g[k]
    BY <1>1, RepliesOfIs
  <1>4. f[k] = g[k]
    <2>1. IsFirst(f, s, n) /\ IsFirst(g, t, k) /\ k <= k
      BY <1>1, <1>2, <1>3
    <2> QED
      BY <1>1, <2>1, FirstOfSame
  <1>5. \A l \in 0 .. n : f[l] \in Seq(Nat)
    BY <1>2, FirstIsSeq DEF n
  <1>6. ASSUME NEW l \in k .. n
        PROVE  IsPrefixOf(f[k], f[l])
    <2> DEFINE T == {j \in k .. n : ~IsPrefixOf(f[k], f[j])}
    <2>1. CASE T = {}
      BY <2>1
    <2>2. CASE T # {}
      <3>1. PICK m \in T : \A j \in T : m <= j
        <4>1. T \in SUBSET Nat
          BY <1>1
        <4> HIDE DEF T
        <4> QED
          BY <2>2, <4>1, LeastNumber
      <3>2. /\ m \in k .. n /\ m \in Nat /\ m \in 0 .. n
            /\ ~IsPrefixOf(f[k], f[m])
        BY <1>1, <3>1
      <3>3. m # k
        <4>1. k \in 0 .. n
          BY <1>1
        <4>2. f[k] \in Seq(Nat)
          BY <1>5, <4>1
        <4>3. Len(f[k]) \in 0 .. Len(f[k])
              /\ SubSeq(f[k], 1, Len(f[k])) = f[k]
          BY <4>2
        <4>4. IsPrefixOf(f[k], f[k])
          BY <4>3 DEF IsPrefixOf
        <4> QED
          BY <3>2, <4>4
      <3>4. /\ m - 1 \in k .. n /\ m - 1 \in 0 .. n /\ ~(m <= m - 1)
            /\ m # 0 /\ k \in 0 .. n /\ m \in 1 .. n
        BY ONLY <1>1, <3>2, <3>3
      <3>5. m - 1 \notin T
        BY ONLY <3>1, <3>4
      <3>6. IsPrefixOf(f[k], f[m - 1])
        BY <3>4, <3>5
      <3>7. f[m] = IF s[m] = Message THEN f[m - 1]
                   ELSE Append(f[m - 1], s[m])
        BY <1>2, <3>2, <3>4 DEF IsFirst
      <3>8. f[k] \in Seq(Nat) /\ f[m - 1] \in Seq(Nat) /\ s[m] \in Nat
        BY <1>5, <3>4 DEF n
      <3>9. IsPrefixOf(f[k], Append(f[m - 1], s[m]))
        BY <3>6, <3>8, PrefixGrows
      <3> QED
        BY <3>2, <3>6, <3>7, <3>9
    <2> QED
      BY <2>1, <2>2
  <1>7. n \in k .. n
    BY <1>1
  <1>8. IsPrefixOf(f[k], f[n])
    BY <1>6, <1>7
  <1> QED
    BY <1>1, <1>2, <1>3, <1>4, <1>8 DEF t

(* Concatenation of sequences of numbers is associative.                   *)
LEMMA NumbersAssociative ==
  ASSUME NEW u \in Seq(Nat), NEW v \in Seq(Nat), NEW w \in Seq(Nat)
  PROVE  u \o (v \o w) = (u \o v) \o w
  OBVIOUS

(* The steps of which the channel sees nothing.                            *)
LEMMA PortStutters ==
  ASSUME PortInv,
         \/ BeginOperation \/ WriteThrows \/ WakeUp \/ SpuriousWakeup
         \/ JoinReader \/ NotifyCaller \/ ReadFails \/ PortRest
         \/ UNCHANGED portVars
  PROVE  UNCHANGED <<port, todo, replies, inHand, line, sent, timeouts, last>>
         /\ Waiting' = Waiting
  BY DEF BeginOperation, WriteThrows, WakeUp, SpuriousWakeup, JoinReader,
         NotifyCaller, ReadFails, PortRest, portVars, deviceVars, readerVars,
         senderVars, SenderAlone, ReaderAlone, Waiting

(* The io thread, and a message of the device, move nothing but the place  *)
(* at which a reply is.                                                    *)
LEMMA ReaderMoves ==
  ASSUME PortInv, ReadReply \/ ReadMessage \/ PushReply \/ SendMessage
  PROVE  /\ UNCHANGED <<port, todo, sent, timeouts, last>>
         /\ Waiting' = Waiting
         /\ Coming' = Coming
  <1>1. UNCHANGED <<port, todo, sent, timeouts, last, sender>>
    BY DEF ReadReply, ReadMessage, PushReply, SendMessage, ReaderAlone,
           senderVars
  <1>2. Coming' = Coming
    <2>1. CASE ReadReply
      <3>1. /\ inHand = None /\ inHand' = Head(line) /\ line' = Tail(line)
            /\ replies' = replies /\ line # <<>> /\ Head(line) # Message
        BY <2>1 DEF ReadReply, PortInv, Hands
      <3>2. inHand' # None
        BY <2>1, <3>1, PortConstants
        DEF PortInv, PortTypeOK, Line, Cmd, None, Message
      <3>3. RepliesOf(line) = <<Head(line)>> \o RepliesOf(line')
        BY <3>1, ComingTypes, RepliesOfTail
      <3>4. Held = <<>> /\ Held' = <<Head(line)>>
        BY <3>1, <3>2 DEF Held
      <3>5. replies \o <<>> = replies
        BY ComingTypes
      <3>6. RepliesOf(line') \in Seq(Nat) /\ <<Head(line)>> \in Seq(Nat)
        <4>1. Tail(line) \in Seq(Nat) /\ Head(line) \in Nat
          BY <3>1, ComingTypes
        <4>2. RepliesOf(Tail(line)) \in Seq(Nat)
          BY <4>1, RepliesOfType
        <4> QED
          BY <3>1, <4>1, <4>2
      <3>7. replies \o (<<Head(line)>> \o RepliesOf(line'))
              = (replies \o <<Head(line)>>) \o RepliesOf(line')
        <4>1. replies \in Seq(Nat)
          BY ComingTypes
        <4> QED
          BY <3>6, <4>1, NumbersAssociative
      <3> QED
        BY <3>1, <3>3, <3>4, <3>5, <3>7 DEF Coming
    <2>2. CASE ReadMessage
      <3>1. /\ inHand' = inHand /\ line' = Tail(line)
            /\ replies' = replies /\ line # <<>> /\ Head(line) = Message
        BY <2>2 DEF ReadMessage, readerVars
      <3>2. RepliesOf(line) = RepliesOf(line')
        BY <3>1, ComingTypes, RepliesOfTail
      <3> QED
        BY <3>1, <3>2 DEF Coming, Held
    <2>3. CASE PushReply
      <3>1. /\ inHand # None /\ inHand' = None /\ line' = line
            /\ replies' = Append(replies, inHand)
        BY <2>3 DEF PushReply, PortInv, Hands
      <3>2. Held = <<inHand>> /\ Held' = <<>>
        BY <3>1 DEF Held
      <3>3. /\ Append(replies, inHand) \in Seq(Nat)
            /\ Append(replies, inHand) = replies \o <<inHand>>
            /\ Append(replies, inHand) \o <<>> = Append(replies, inHand)
        BY ComingTypes, AppendIsConcat
      <3> QED
        BY <3>1, <3>2, <3>3 DEF Coming
    <2>4. CASE SendMessage
      <3>1. /\ inHand' = inHand /\ replies' = replies
            /\ line' = Append(line, Message)
        BY <2>4 DEF SendMessage, readerVars
      <3>2. RepliesOf(line') = RepliesOf(line)
        BY <3>1, ComingTypes, RepliesOfAppend
      <3> QED
        BY <3>1, <3>2 DEF Coming, Held
    <2> QED
      BY <2>1, <2>2, <2>3, <2>4
  <1> QED
    BY <1>1, <1>2 DEF Waiting

(* Every step of the port is a step of the channel or leaves it as it is.  *)
LEMMA StepChannel ==
  PortInv /\ [PortNext]_portVars
    => [Channel!ChannelNext]_(Channel!channelVars)
  <1> SUFFICES ASSUME PortInv, [PortNext]_portVars
               PROVE  Channel!ChannelNext \/ UNCHANGED Channel!channelVars
    OBVIOUS
  <1> USE DEF Channel!channelVars, Channel!ChannelNext
  <1>1. CASE OpenPort
    <2>1. /\ UNCHANGED <<todo, replies, inHand, line, sent, timeouts, last>>
          /\ sender = "new" /\ sender' = "idle"
          /\ port' = "open" \/ port' = port
      BY <1>1 DEF OpenPort, deviceVars
    <2>2. CASE port' = "open"
      <3>1. port = "closed" /\ sent = 0
        BY <2>1 DEF PortInv, Hands
      <3>2. Channel!Connect
        BY <2>1, <2>2, <3>1 DEF Channel!Connect
      <3> QED
        BY <3>2
    <2>3. CASE port' = port
      BY <2>1, <2>3
    <2> QED
      BY <2>1, <2>2, <2>3
  <1>2. CASE Write
    <2>1. UNCHANGED <<replies, inHand, line>>
      BY <1>2 DEF Write, readerVars
    <2>2. Channel!Send
      BY <1>2, <2>1 DEF Write, Channel!Send
    <2> QED
      BY <2>2
  <1>3. CASE Execute
    <2>1. /\ UNCHANGED <<port, replies, inHand, sender, sent, timeouts, last>>
          /\ todo # <<>> /\ todo' = Tail(todo)
          /\ line' = Append(line, Head(todo))
      BY <1>3 DEF Execute, readerVars, senderVars
    <2>2. Head(todo) \in Nat /\ Head(todo) # Message
      <3>1. Head(todo) \in Cmd
        BY <2>1 DEF PortInv, PortTypeOK
      <3> QED
        BY <3>1, PortConstants
    <2>3. RepliesOf(line') = Append(RepliesOf(line), Head(todo))
      BY <2>1, <2>2, ComingTypes, RepliesOfAppend
    <2>4. Coming' = Append(Coming, Head(todo))
      <3>1. /\ replies \o Held \in Seq(Nat) /\ RepliesOf(line) \in Seq(Nat)
        BY ComingTypes
      <3>2. Append((replies \o Held) \o RepliesOf(line), Head(todo))
              = (replies \o Held) \o Append(RepliesOf(line), Head(todo))
        BY <3>1, <2>2, AppendConcat
      <3> QED
        BY <2>1, <2>3, <3>2 DEF Coming, Held
    <2>5. Channel!Execute
      BY <2>1, <2>4 DEF Channel!Execute, Coming, Held
    <2> QED
      BY <2>5
  <1>4. CASE (TestReplies \/ Timeout) /\ TakeReply
    <2>1. /\ UNCHANGED <<port, todo, inHand, line, sent, timeouts>>
          /\ sender \in {"test", "blocked"} /\ sender' \in {"write", "idle"}
          /\ replies # <<>> /\ replies' = Tail(replies)
          /\ last' = [cmd |-> sent, reply |-> Head(replies)]
      BY <1>4 DEF TestReplies, Timeout, TakeReply, NextCommand, SenderAlone,
                  deviceVars, readerVars
    <2>2. Coming # <<>> /\ Head(Coming) = Head(replies)
          /\ Coming' = Tail(Coming)
      <3>1. /\ replies \in Seq(Nat) /\ Held \in Seq(Nat)
            /\ RepliesOf(line) \in Seq(Nat) /\ replies \o Held \in Seq(Nat)
        BY ComingTypes
      <3>2. /\ replies \o Held # <<>>
            /\ Head(replies \o Held) = Head(replies)
            /\ Tail(replies \o Held) = Tail(replies) \o Held
        BY <2>1, <3>1, HeadConcat
      <3>3. /\ Coming # <<>>
            /\ Head(Coming) = Head(replies \o Held)
            /\ Tail(Coming) = Tail(replies \o Held) \o RepliesOf(line)
        BY <3>1, <3>2, HeadConcat DEF Coming
      <3> QED
        BY <2>1, <3>2, <3>3 DEF Coming, Held
    <2>3. Channel!Receive
      BY <2>1, <2>2 DEF Channel!Receive, Coming, Held
    <2> QED
      BY <2>3
  <1>5. CASE TestReplies /\ ~TakeReply
    <2>1. /\ UNCHANGED <<port, todo, replies, inHand, line, sent, timeouts,
                         last>>
          /\ sender = "test" /\ sender' = "blocked"
      BY <1>5 DEF TestReplies, SenderAlone, deviceVars, readerVars
    <2> QED
      BY <2>1
  <1>6. CASE Timeout /\ ~TakeReply
    <2>1. /\ UNCHANGED <<port, todo, replies, inHand, line, sent, last>>
          /\ sender = "blocked" /\ sender' \in {"write", "idle"}
          /\ timeouts' = timeouts + 1
      BY <1>6 DEF Timeout, NextCommand, SenderAlone, deviceVars, readerVars
    <2>2. Channel!GiveUp
      BY <2>1 DEF Channel!GiveUp
    <2> QED
      BY <2>2
  <1>7. CASE Unplug \/ DestroyPort
    <2>1. /\ UNCHANGED <<replies, inHand, sent, timeouts, last>>
          /\ port' # "open" /\ todo' = <<>>
          /\ Waiting' = Waiting
      BY <1>7 DEF Unplug, DestroyPort, readerVars, senderVars, Waiting
    <2>2. PICK k \in 0 .. Len(line) : line' = SubSeq(line, 1, k)
      <3>1. line \in Seq(Nat)
        BY ComingTypes
      <3>2. 0 \in 0 .. Len(line) /\ SubSeq(line, 1, 0) = <<>>
        BY <3>1
      <3>3. CASE Unplug
        BY <3>3 DEF Unplug
      <3>4. CASE DestroyPort
        BY <3>2, <3>4 DEF DestroyPort
      <3> QED
        BY <1>7, <3>3, <3>4
    <2>3. /\ RepliesOf(line') \in Seq(Nat)
          /\ IsPrefixOf(RepliesOf(line'), RepliesOf(line))
      <3>1. line \in Seq(Nat)
        BY ComingTypes
      <3>2. /\ SubSeq(line, 1, k) \in Seq(Nat)
            /\ IsPrefixOf(RepliesOf(SubSeq(line, 1, k)), RepliesOf(line))
        BY <3>1, RepliesOfPrefix
      <3>3. RepliesOf(SubSeq(line, 1, k)) \in Seq(Nat)
        BY <3>2, RepliesOfType
      <3> QED
        BY <2>2, <3>2, <3>3
    <2>4. IsPrefixOf((replies \o Held) \o RepliesOf(line'),
                     (replies \o Held) \o RepliesOf(line))
      <3>1. replies \o Held \in Seq(Nat) /\ RepliesOf(line) \in Seq(Nat)
        BY ComingTypes
      <3> QED
        BY <2>3, <3>1, PrefixConcat
    <2>5. IsPrefixOf(Coming', Coming)
      BY <2>1, <2>4 DEF Coming, Held
    <2>6. PICK m \in 0 .. Len(Coming) : Coming' = SubSeq(Coming, 1, m)
      BY <2>5 DEF IsPrefixOf
    <2>7. Channel!BreakAfter(m)
      BY <2>1, <2>6 DEF Channel!BreakAfter, Coming, Held, Waiting
    <2>8. Channel!Break
      BY <2>6, <2>7 DEF Channel!Break, Coming, Held
    <2> QED
      BY <2>8
  <1>8. CASE ReadReply \/ ReadMessage \/ PushReply \/ SendMessage
    BY <1>8, ReaderMoves DEF Coming, Held, Waiting
  <1>9. CASE \/ BeginOperation \/ WriteThrows \/ WakeUp \/ SpuriousWakeup
             \/ JoinReader \/ NotifyCaller \/ ReadFails \/ PortRest
             \/ UNCHANGED portVars
    BY <1>9, PortStutters DEF Waiting
  <1> QED
    BY <1>1, <1>2, <1>3, <1>4, <1>5, <1>6, <1>7, <1>8, <1>9
    DEF PortNext, Device, SendCommand, Reader

(* Whatever the threads, the device and the line do, the caller of         *)
(* send_command sees a ReplyChannel: the replies come in the order of the  *)
(* commands, none twice and none from a message, and of a failing line     *)
(* only the last ones are lost.                                            *)
THEOREM RepliesKeepOrder == PortSpec => KeepsOrder
  <1>1. PortInit => Channel!ChannelInit
    <2> SUFFICES ASSUME PortInit PROVE Channel!ChannelInit
      OBVIOUS
    <2>1. RepliesOf(line) = <<>> /\ replies = <<>> /\ inHand = None
      BY RepliesOfNone DEF PortInit
    <2>2. <<>> \o <<>> = <<>>
      OBVIOUS
    <2> QED
      BY <2>1, <2>2 DEF PortInit, Channel!ChannelInit, None
  <1> QED
    BY <1>1, PortHolds, StepChannel, PTL
    DEF PortSpec, KeepsOrder, Channel!ChannelSpec
=============================================================================
