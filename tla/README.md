# Fiber end-face inspection server: TLA+ models and proofs

The repository is the backend of an inspection station for fiber end faces: a
Qt server process that opens a camera, moves it over a stage, triggers images,
focuses, runs a detector on the images and answers the requests of several
front-end clients. This directory holds TLA+ models of the parts in which
threads meet, the TLC configurations that check them, and TLAPS proofs of the
properties that matter most. Paths below are relative to the repository's
`src/` directory. `PROJECT.json` maps each definition to the lines it models.

## 1. Inventory

### Threads

| thread | runs | code |
|---|---|---|
| main (Qt event loop) | sockets, requests, replies, stop(), delivery of stream frames and of the device's start button | `fiber_end_server/server.cpp` |
| misc | every command that touches a device, the inspection run, calibration | `fiber_end_server/thread_misc.cpp` on `work_threads.cpp` |
| device enumeration | lists the cameras | `fiber_end_server/thread_device_enum.cpp` on `work_threads.cpp` |
| camera driver | calls `stream_callback` for each frame | `device_camera/camera_dvp2.cpp` |
| grab worker | polls an MVS camera for frames | `device_camera/grab_worker.cpp` |
| serial io | reads replies and messages of the motion controller | `motion_control/motion_control_port.cpp` |
| poll | reads the start button through the PLC | `motion_control/motion_control_plc.cpp` |
| focus worker | works on the images of a focusing pass | `auto_focus/thread_calc_image_clarity.cpp` |

### Components

**fiber_end_server** - state: `m_clients`, `m_map_request_id_to_socket`, the
two worker threads. Operations: a connection comes or goes, a request arrives
(`onReadyRead` -> `process_request`), a result is posted
(`on_*_task_finished` -> `send_process_result`), `stop()`. Other threads reach
it through its event queue; it reads `m_is_processing` and writes
`m_terminate` of thread_misc directly. Hard: the busy gate and what follows it
are separate steps; replies cross the event queue while the entry they need is
erased; shutdown. Correct if: replies go only to connected sockets, the
finishing message is the last of its request, a refused request has no effect,
the gate opens again, stop() ends.

**thread_misc** - state: `m_camera`, `m_fiber_end_detector`, the photo
positions, `m_stream_request_id`, `m_is_processing`, `m_terminate`. Operations:
one branch of `process_task` per command, `start_process`, `auto_calibration`.
Hard: long tasks interrupted by a flag of another thread, members used after
they were closed, branches that never answer. Correct if: the busy flag follows
the work, a run can be stopped and only the run meant is stopped, each run is
answered.

**thread_base** - state: task queue, mutex, wait condition, `m_running`.
Correct if: tasks are executed once and in order, no wakeup is lost, the
destructor finishes the queue and returns.

**thread_device_enum, device_manager** - the list of devices and its lock.
`get_device_info` returns a raw pointer that the other thread may delete.

**dvp2_camera** - state: the device,
`m_is_grab_running`, `m_frame_ready`, `m_image`. `trigger_once` waits for a
frame that `stream_callback` stores from the driver's thread. Correct if:
`m_image` is not raced, the image returned is the one triggered, a frame in
time is not missed, the flags agree with the device.

**mvs_camera** - state: the device handle, a worker thread with four atomic
flags. `start_grab` makes or resumes the worker, `stop_grab` pauses it, `close`
ends it; each polls a flag until the worker has answered. Correct if: the
stream is not stopped nor the device closed under the worker's call of the
driver, each wait ends, no worker outlives its camera.

**motion_control_port** - state: the port, the reply queue, the io thread.
`send_command` writes and waits for a reply. Correct if: replies are neither
lost nor doubled, the reply is that of the command, the destructor returns.

**the stage** - state: `m_position_x/y`, the move steps and limits in
thread_misc; the zero and the place of each axis in the device. Hard: the
coordinates are what was read last, over a line whose replies may be late.
Correct if: the coordinates reported are where the stage is, a forward move
stays within the limit, a reset makes the limit switch the zero.

**motion_control_plc** - state: the modbus connection and its mutex, the polling
thread; in the PLC, registers and coils. `M(id, true)` raises a coil, waits
until the axes are still, and `M(id, false)` clears it. Correct if: one
transaction at a time, a move reported done is done, coils are off between
moves, each operation and the destructor return.

**auto_focus2 and thread_calc_image_clarity** - state: the image queue, the
task type, `m_capture`, `m_calculate_finish`, the clarity cache. A pass moves
the camera and waits for the worker to finish. Correct if: each pass ends, and
works on its own images only; of each fiber end the sharpest image is found and
the images around it are kept; the regions of several cameras are kept apart.

**image_shared_memory** - state: the next slot, the frame counter, a map of
segments; outside, the segments and their locks, which outlive the process.
Two threads write, clients read, all may die. Correct if: an image stays whole
until its slot's turn comes again, frame ids order the images, no half image is
read, no lock stays taken.

**configuration, algorithms, device_enum, event_bus,
common, camera_factory** - files; calls into the detector; vendor enumeration; a helper bus.

### What the components correspond to

| component | module | status |
|---|---|---|
| fiber_end_server | ServerState, ServerMain, Server | modelled |
| thread_misc | ServerState, ServerMisc, Server; Stage; SharedImage | partly: control, stage coordinates, writing of images; not parameters and results of algorithms |
| thread_base | TaskQueue, WorkThread | modelled |
| thread_device_enum | Server (`EnumTask`, `EnumFault`) | partly: not the device list |
| dvp2_camera | Camera | partly: grab, trigger and stream; not the parameters |
| mvs_camera | MvsCamera | partly: open, grab, close and the worker; not the parameters |
| motion_control_port | SerialPort, ReplyChannel, Stage | partly: the exchange and the commands; not `close` and `read_reply`, which nothing calls |
| motion_control_plc | PlcMotion | partly: motion, positions, polling; not speeds and units |
| auto_focus2 | FocusWorker | partly: the passes and their waits; not the geometry |
| thread_calc_image_clarity | FocusWorker, FocusTask | partly: thread, queue, flags; the task of a focusing pass; not the calibrations' tasks |
| image_shared_memory | SharedImage | modelled |
| the rest | - | see section 7 |

Two modules are abstract: `TaskQueue`, implemented by WorkThread, and
`ReplyChannel`, implemented by SerialPort and used by Stage, whose commands are
what travels over it.

## 2. The server (ServerState, ServerMain, ServerMisc, Server)

`ServerState` declares the constants and the state the threads share.
`ServerMain` is the main thread, `ServerMisc` the misc thread, and `Server`
composes them with the enumeration thread and states the properties.

State and code:

- `conn`, `wire`: a socket is new, in `m_clients`, or gone; the requests it has
  written. `readAll` returns any non-empty prefix; a prefix of more than one
  request does not parse and becomes the empty object (`Parsed`).
- `requests` is `m_map_request_id_to_socket`; `NoId` is the empty request id,
  which `send_process_result` sends to all clients.
- `events` is the main thread's queue of `post_task_finished` signals; `finish`
  is their `task_finish` field, true when absent.
- `queue`, `enumQueue` are the task queues of the two workers. The condition
  variable below them is the subject of WorkThread; here a task is taken in one
  step, which is what TaskQueue promises.
- `main`, `current`: the busy gate (`onReadyRead`), the dispatch, and the store
  to `m_terminate` are separate steps, because the misc thread may run between
  them; `stop()` is three steps.
- `pc`, `task`, `pos`: most branches of `process_task` are one step.
  `start_process` and `auto_calibration` are cut where they touch
  `m_is_processing`, `m_terminate` or post.
- `camera`: null, closed, or open in one of two trigger modes. A driver call on
  an open camera may fail; on a closed one it does. `get_trigger_mode` answers
  continuous when its call fails, also for a camera in mode once
  (`TriggerModes`).
- `frames` counts the stream frames that the driver's thread has emitted
  (`PostStreamImage`) and the main thread has not taken. `on_stream_image_ready`
  posts such a frame even if the camera has been closed or changed its mode.
- `runs`, `slipped`, `answer` are history variables.
- A call through a null `m_camera` or `m_fiber_end_detector`, an index into an
  empty list, and any use of what `~thread_misc` has freed end the process
  (`main = "crashed"`). Undefined behaviour may of course do something else;
  the model makes no claim after it.
- `JoinMiscThread` closes the sockets; it may pass over some, because a socket
  that disconnects at once is taken out of the list the loop runs over.

Commands with a boolean parameter are two commands here (`start_process` /
`stop_process`, `start_grab` / `stop_grab`).

Runs:

| run | asks | bounds |
|---|---|---|
| server_commands | the busy flag, routing of replies, order of the finishing message, requests that are refused, over all 21 commands | 2 clients, 2 requests, 1 photo position, 1 frame |
| server_process | what passes the busy gate around a run; when `m_terminate` can be set; under fairness, that runs end, starts are answered, and stop ends the process | 1 client, 2 requests, 1 press |
| server_stop_refused | violation, see section 6 | |

The properties are worded in `Server`. What they show: `m_is_processing` is
exact (`ProcessingFlag`), so the guard at the head of `start_process` is dead
code; one request at most can slip past the gate into a run
(`AtMostOneSlips`), because the main thread handles one at a time; a stop only
takes effect by winning a race with the start of a run (`StopOnlyByRace`); no
message follows the one that erases its route (`FinishIsLast`).

Two requests are enough for the pairs that matter: one to be executed and one
that races with it, is refused, or disconnects; a press of the button gives a
third source of work that avoids the gate. A third request repeats the second,
since no state but the flags and devices, which two commands already vary,
connects requests. `MaxEvents = 2` lets a reply overtake or follow another. The
theorems hold for all values. Clients are symmetric where no liveness is
checked.

Fairness: `WF` on each thread's work, i.e. the operating system schedules every
thread and every driver call returns (they do: each has a timeout). Clients,
camera frames and the button owe nothing. A worker that would exceed
`MaxEvents` waits, except in `stop()`, where nobody drains the events; that
wait is an artefact of the bound and never outlasts the main thread's fairness.

## 3. The worker thread (TaskQueue, WorkThread)

`TaskQueue` is the promise: tasks begin in the order added, one at a time, and
the thread ends only when stopped with nothing left. `WorkThread` has the mutex
and the wait condition of `work_threads.cpp` with one action per critical step:
`add_task` (lock, enqueue, wake and unlock), `run` (lock, test, wait, dequeue,
unlock, process), `stop`, and the join of the destructor. `KeepsPromise`
is the refinement. Run work_thread (4 tasks) also checks lost wakeups, and
under `WF` of both threads that queued tasks are processed and the destructor
returns (`WorkEnds`). Four tasks allow a queue with one being added, two waiting
and one executing; the theorems cover any number.

The model is of `thread_base` alone. That the derived destructors run before it
is part of Server (`ReleaseMembers`, `EnumFault`).

## 4. The devices

**Camera.** `trigger_once` (caller) against `stream_callback` (driver), with
late frames, lost frames, frames of continuous mode, time running out, and a
notification that falls between the test and the wait (the callback sets the
atomic without the mutex). An image is the number of the trigger it came from.
`InTimeIsReturned` is what saves the code from its lost notification:
`wait_for` evaluates the predicate once more when the time is over. `Camera`
omits that `close_camera` disconnects the signal of streamed frames, so it
allows more frames than the code delivers. Run camera: 3 triggers, 2 frames in
flight, so that a frame may be late by one and by two triggers.

**MvsCamera.** The misc thread opens the camera, starts, stops and closes it in
any order and deletes it; the worker's loop is one action per load and store of
its flags. `StoppedIsQuiet` is the point of the handshake: once the worker has
said that it is paused, it is not at the driver's `GetImageBuffer` until it is
resumed, so neither the stream is stopped nor the device closed under it. That
depends on start_grab waiting for the worker to take `m_is_paused` back; else
a stop right after a start takes the old answer for its own.
`OrphanNeedsNoHandle` says in which case alone a worker is left behind: `close`
returns early without a handle, `start_grab` does not ask for one. The worker's
slot is called directly by `started`, before the thread's event loop, whose
`exec` the worker's `quit` makes return at once. Run mvs_camera: 6 calls, so
that a second start, stop and close can follow the first. `WF` of both threads;
the driver's call has a timeout. (camera_factory does not make this class at
present: its line for MVS devices is commented out.)

**SerialPort and ReplyChannel.** The device and line are external: commands are
executed in order and answered once, possibly late, and the cable may be
pulled. A reply is the number of the command it answers, which the code cannot
see. `ReplyChannel` is what `send_command` makes of that: a caller that waits
takes the first reply there is, or gives up. SerialPort has the io thread that
reads, tells replies from messages, queues and notifies outside the lock, and
the caller's test, wait, wakeup and timeout. When the cable is pulled, a prefix
of the lines on their way is in the buffer and still read. It implements the
channel with
`replies` being the queue, the reply in the io thread's hand and those on the
line (`KeepsOrder`). What late replies do is said once, of the channel:
`ShiftIsTimeouts`, each timeout shifts all later replies by one place for ever.
A write to a dead port throws (`WriteThrows`) and ends the process. Run
serial_port: 5 commands, so that `reset` (4 commands) can follow a command that
timed out; 2 messages. The `io_context` runs on the io thread, hence `WF` on
its handlers; the device owes nothing, the caller's wait has a timeout.

**Stage.** Each request that moves the stage is the list of commands it sends
(`plan`), executed over a ReplyChannel by a device with two axes that stop at
their ends. `known` is `m_position_y`, `m_position_x`; `get_position` changes
it to whatever the first reply says, a reply that is no position being read by
`atoi` as 0, and leaves it alone after a timeout. Commands whose result decides
over the rest of the request have `must`. The model begins behind a successful
`open()` with the resets, one reading and the light of `setup_motion_control`,
at whatever place the stage was left. Somebody may move the stage at the device;
the port emits a signal for that which nothing is connected to.
`PositionKnown` and `ForwardWithinMax` name the two conditions under which the
coordinates, and the limit check made with them, are worth something: no timeout
ever, and no move by hand since the last reading. `ResetZeroIsLimit` needs
neither timeouts to be absent nor replies to be right, because the device
executes in order. Steps and limits are what a client has set, integers of
either sign; with a negative step a "forward" move goes towards the switch, and
may stop there although the limit is below zero. That `int` may overflow in the
check of the limit is not modelled. Run stage: places 0 .. 3, steps and limits
-1 and 1, targets -1, 1 and 2; 100000 pulses are the whole travel, 100 are one
place and 200 are two. 2 requests behind the set-up (10 commands), 2 timeouts and 1 move
by hand: a late reply in the set-up meets both kinds of request, and so do two.

**PlcMotion.** `distance_move_*`, `position_move_*` and `reset` of the calling
thread, one action per transaction and per branch of the wait in `M`;
`get_position`, which holds the mutex over two transactions; the light, which
has a port of its own; and the polling thread. The PLC is external: a rising
coil makes its axes due, they move when it likes, and a transaction may fail,
a failed write having been carried out or not. A position is the number of the
operation that aims at it. `clean` says that nothing went wrong in an operation
and `failed` that a write to a coil did; both are history. `CleanMovesArrive`
says under which conditions a move that is reported done is done, which is what
the three ways out of the wait (axis still, read error, time over) leave of it.
Run plc_motion: 2 moves, so that one can follow another that was left in motion
or whose coil stayed on. Fairness: `WF` of each thread (modbus has a timeout)
and of the time `M` waits; `SF` of taking the mutex, because the polling thread
sleeps 10 ms without it after each transaction. The PLC owes nothing.

**FocusWorker.** A pass (`reset_*`, capture on, wait, capture off, results),
`add_image` in the main thread, and `run()`. An image is the number of its
pass. Unguarded containers used by two threads may end the process (`Fault`).
`process_task` compares `m_task_type` up to four times, one step each, while a
reset may write it: an image may match nothing (`MatchesNone`), and then
`m_calculate_finish` stays as it is. `FinishWhenIdle` is the invariant behind
the wait loop of `get_focus_images`, which ends only if that flag is set again:
it is false behind an image only after the reset to "calculate", which does not
set it and whose pass does not wait for it. That each of the some twenty returns
of `process_*_task` sets the flag was read in the code; in the model they are
one action, `ProcessEnds`. A wakeup that was slept through shows in `PassEnds`
too. A wait loop that is left too early, because the worker took the last image
between two of its loads, is a behaviour of the model, and of the code: the
results are then read under the worker's hand (`Fault`).
`FewStaleImages` bounds what a reset lets through: the
image in the worker's hand and the one being added. Run focus_worker: 3 passes
and 4 images, one more than a pass needs to see two stale images.
`PassEnds` assumes that images come to an end (`MaxImages`): the wait loop
samples three values one after the other and could in principle always come at
the wrong moment while images keep arriving.

**FocusTask.** What the worker does with an image of a pass:
`process_auto_focus_task` and `st_cache_image`, one image a step, which is
sound because only the worker's thread runs it (FocusWorker). A clarity is a
number, an image is its camera and its number. Detection gives a camera 0 or
more fiber ends or fails; when each camera has some, every fiber end of every
camera is a region, and the arrays of regions are shared by the cameras with an
offset (`GetStartIndex`). `seen` records the images and clarities of each
region, and the properties say from that whole sequence what the incremental
code should have kept: the sharpest image and the window around it
(`WindowAroundFocus`, except after a maximum that came when the cache was
closed), and that no pass succeeds before each region is `CacheSize` images past
its best (`FinishedMeansPast`). `OneFailureIsAll` says when a pass fails and
what one failing camera does to the others: nothing is ever evaluated.
Run focus_task: two cameras, the greater id first, with one and two fiber ends;
cache size 1 (15 in the code), 3 clarities, 7 images and 2 passes: one to two
images to set up, and five for a region to rise, fall, rise late and close.

**SharedImage.** `write_image` with a step for each load and store of
`m_index`, `m_frame_counter` and the map, and for the segment's lock, copy and
unlock; two threads of the server execute it, because streamed frames are
written by the main thread and triggered images by the misc thread, to the same
object. A client attaches, locks, copies, unlocks, and never detaches.
`QSharedMemory` is external: a segment lives while some process holds it, its
lock belongs to the object (so two threads of the server pass it together and
mix their images), and a lock whose holder dies stays taken. Server and client
may die at any step and start again. What holds: an image written alone is
whole until the third write after it begins, though other writes race for the
index (`SurvivesTwoWrites`); frame ids order the images written alone
(`FrameIdsIncrease`); half an image is never read unless two threads wrote at a
time (`NoTornRead`); a lock is only left behind by a death (`LockIsReleased`).
Run shared_image: both threads (symmetric), 1 client, 4 images, one more than
there are segments, 1 death.

## 5. Proofs

All are checked by TLAPS for every value of the constants. Every safety property
that a run checks is stated by one of them.

**ServerProofs** (from `ServerAssumption`: bounds are naturals, `NoClient` is
no client, at least one event fits).

| theorem | states |
|---|---|
| TypeCorrect | `Spec => []TypeOK` |
| FlagFollowsThread | `Spec => []ProcessingFlag` |
| GateLeaksOnce | `Spec => []AtMostOneSlips` |
| StopNeedsRace | `Spec => StopOnlyByRace` |
| RepliesGoToConnected | `Spec => []RoutedToConnected` |
| IdsAreTracked | `Spec => []IdInv` |
| RefusalIsFinal | `Spec => []RefusedNeverRuns` |
| FinishComesLast | `Spec => []FinishIsLast` |

`TypeOK` is inductive by itself, and is the base of the others.
`ProcessingFlag` is inductive relative to it: only the actions that move `pc`
into or out of `BusyPlace` write the flag. `AtMostOneSlips`
is stated so as to be inductive with the types: it counts the requests that
slipped together with the one that still may, and each dispatch turns one into
the other. `StopOnlyByRace` needs `RunSinceGate`: a request in dispatch carries
the number of runs begun when it passed the gate; if a run is on by now, it
began since. The lemmas `MainGate`, `MiscPeriod` and `OthersPeriod` say once
what each thread may do to the variables these invariants are about.

`RefusedNeverRuns` and `FinishIsLast` are not inductive: that a refused request
does not run depends on its id being nowhere else, and that a message is the
last one on nobody working under its id. `IdInv` follows every id: `OnePlace`,
it is at a client, in a queue, in dispatch or in a task, in one of these and
once; `Fresh`, an id no client has used left no trace; `Settled`, an id that was
refused, streams or has finished is in none of the places a task begins from;
`LastFinish`, which is `FinishIsLast` for the event queue. Each action takes an
id from one place to the next, and a disconnection only takes ids away.

**WorkThreadProofs** (from `WorkThreadAssumption`).

| theorem | states |
|---|---|
| MutexDiscipline | `Spec => [](TypeOK /\ Locking)` |
| NoWakeupIsLost | `Spec => []NoLostWakeup` |
| ThreadKeepsPromise | `Spec => KeepsPromise` |

`Locking` says who holds the mutex at each place; with the types it is
inductive, and from it follow the other two: a waiting worker not yet woken saw
an empty queue under the mutex, and whoever has added since holds it still. The
refinement maps each step to one of TaskQueue or to a stutter.

**StageProofs** (the channel: no assumptions; the stage: from
`StageAssumption`: targets, steps and limits are integers, and the travel is at
least the steps of a reset).

| theorem | states |
|---|---|
| OutstandingIsInterval | `ChannelSpec => []IInv` (types and `Outstanding`) |
| CommandsAreAccounted | `ChannelSpec => []Accounting` |
| TimeoutsShiftForEver | `ChannelSpec => ShiftIsTimeouts` |
| StageUsesChannel | `StageSpec => ChannelSpec` |
| PositionsStayShifted | `StageSpec => ShiftIsTimeouts` |
| StageTypesHold | `StageSpec => []StageTypes` (`TypeOK`, and the types of the queues) |
| StageInvHolds | `StageSpec => []StageInv` |
| ServerKnowsPosition | `StageSpec => []PositionKnown` |
| ForwardStaysWithinMax | `StageSpec => ForwardWithinMax` |
| ResetFindsLimit | `StageSpec => ResetZeroIsLimit` |

`ShiftIsTimeouts` is about a step, and needs to know which reply is first:
`Outstanding`, replies and commands to do are one interval of numbers behind the
last reply taken. That is inductive with the types; each action takes the
interval from one end, or moves the border between its two parts. `Accounting`
then gives the difference: commands sent are those answered, given up, or
waited for. Stage inherits both, since each of its steps is a step of the
channel or leaves it alone.

The last three are about what a request has still to do, so `StageInv` is about
its plan. `KnownInv`: every move in the plan has a reading behind it, and
without a timeout the server has no more than one command out; so either a
reading is still to come, and it will be true, or the position is known.
`ForwardInv`: a forward move is the first of its plan, and until it is executed
the position it was tested against holds. `HomeInv`: of the commands not yet
executed, with the device or with the server, each zero of a reset has its
three moves before it, and the axis is where the ones already executed have
taken it: `-Travel` ends at the switch from wherever it began, one step forward
and two back end there again. This part needs neither replies nor timeouts.

**MvsCameraProofs** (from `MvsCameraAssumption`).

| theorem | states |
|---|---|
| HandshakeHolds | `Spec => [](Handshake /\ Handles)` |
| QuietWhenStopped | `Spec => []StoppedIsQuiet` |
| OrphansHaveNoHandle | `Spec => []OrphanNeedsNoHandle` |

`StoppedIsQuiet` is not inductive: that the worker is not on its way to the
driver when it has said so depends on what the caller did before. `Handshake`
says for each place of either side what the flags can be; in particular
`~m_paused` with `m_is_paused` occurs only while the caller waits in
`start_grab`.

**CameraProofs** (`Handover` from no assumptions, the types and the order from
`CameraAssumption`: the bounds are naturals).

| theorem | states |
|---|---|
| HandoverHolds | `Spec => []Handover` |
| ImageIsNotTorn | `Spec => []NoImageRace` |
| FramesInTimeCount | `Spec => []InTimeIsReturned` |
| CameraTypeOK | `Spec => []TypeOK` |
| PipelineHolds | `Spec => []Pipeline` |
| ImagesComeInOrder | `Spec => []ImagesInOrder` |

`Handover` is what makes `m_frame_ready` do for a lock: while a call waits, a
frame that is ready has left the callback, and one that came in time stays ready
until the call returns. It needs no types. `Pipeline` is the order of all the
places in which a frame can be: what calls have returned is older than
`m_image`, that older than the frame in the callback, and that older than the
frames on their way, which are in order and not newer than the last trigger.
With `Handover`, `m_image` is returned before it is overwritten or never.

**MotionProofs** (PlcMotion from `PlcAssumption`, SerialPort from
`SerialPortAssumption`: the bounds are naturals).

| theorem | states |
|---|---|
| PlcTypeCorrect | `Spec => []TypeOK` |
| TransactionsAreSerial | `Spec => []OneTransaction` |
| MotionsLeaveCoilsOff | `Spec => []CoilsAreOff` |
| CleanMotionsArrive | `Spec => []CleanMovesArrive` |
| PortTypeCorrect | `PortSpec => []PortTypeOK` |
| RepliesWake | `PortSpec => []NoLostReply` |
| RepliesKeepOrder | `PortSpec => KeepsOrder` |

None of the three about the PLC is inductive. `Mutexed` adds to `OneTransaction` that the
caller keeps the mutex between the two transactions of `get_position`;
`CoilOfMotion` says which coil is on in the middle of a motion; `Arrival`
follows a motion from its target over the start of the axes to the sampling of
the axes one by one: an axis in motion is going to the goal, one that was seen
at rest is there, and a reset aims at `Zero` because nothing writes its register.

The port's types need that the commands of an operation fit, and that an
unopened port has no reader (`PortInv`). `NoLostReply` is inductive by itself.
For the refinement, what is coming to the caller is the queue, then the reply in
the reader's hand, then the replies among the lines on the way; the reader only
moves the borders between them. What the recursive function `RepliesOf` makes of
a line with one more at its end or one less at its front is proved by induction,
in the form the provers can use: of a set of numbers that has a member, one is
the least (`LeastNumber`, from the well-founded induction of the library).

**SharedImageProofs** (from `SharedImageAssumption`, and `HolderAssumption`: a
client is neither the server nor a mark for a free or lost lock).

| theorem | states |
|---|---|
| SharedInvariant | `Spec => [](TypeOK /\ Inv)` |
| LocksAreReleased | `Spec => []LockIsReleased` |
| ReadsAreWhole | `Spec => []NoTornRead` |
| AloneImagesHold | `Spec => []AloneImages` |
| ImagesSurvive | `Spec => []SurvivesTwoWrites` |
| FrameIdsGrow | `Spec => []FrameIdsIncrease` |

`NoTornRead` needs three more facts: half an image is under a lock of the server,
living or dead, or in no segment (`TornIsLocked`); a client holds the segment it
reads, so that a death does not free the lock under it (`ClientHolds`); and
without an overlap one thread writes (`OneWrites`). `LockIsReleased` is inductive
with the types and `Busy`.

`SurvivesTwoWrites` is about an image, two writes later. `AloneImages` follows
it from its own write on: while it is written alone, it is the last one begun,
and `m_index` passes from its segment to the next one (`AloneInv`); then, as
long as fewer than three writes have begun, no thread has its segment, and after
the first of them `m_index` is not there either, so that two racing writes do
not come back to it (`KeptFor`). `CountedFor` says the same of the counter:
increments may be lost, but only behind the frame id of an image written alone.

**FocusProofs** (FocusWorker from `FocusAssumption`, FocusTask from
`FocusTaskAssumption`: camera ids are numbers, the cache holds at least one
image, and an image in which a clarity is calculated has one greater than zero).

| theorem | states |
|---|---|
| WorkerTypes | `Spec => []WorkerInv` |
| FinishIsSet | `Spec => []FinishWhenIdle` |
| StaleImagesAreFew | `Spec => []FewStaleImages` |
| TaskHolds | `TaskSpec => []TaskInv` |
| WindowIsRight | `TaskSpec => []WindowAroundFocus` |
| SuccessIsPast | `TaskSpec => []FinishedMeansPast` |
| FailureIsShared | `TaskSpec => []OneFailureIsAll` |
| CamerasApart | `TaskSpec => []RegionsApart` |

`FinishWhenIdle` needs `NotPassed`: as long as the flag is false and the worker
compares, the type is not one it has compared already, unless it is
"calculate"; each other reset sets the flag.

`FewStaleImages` counts what has been worked on; `StaleInv` counts with it the
images of earlier passes that still may be: the worker's, the one being added,
and that one at the head of the queue. Behind the head there is none, because
the main thread adds one image at a time. The task's invariant says of each
region that its result and its cache are a function of the sequence of its
images (`Follows`): the result is the last maximum, the count is how many images
came after it, up to the size of the cache, and the cache is the window that
ends there, unless a maximum came late. Each image is one step of that function,
with three cases: a maximum, an image behind one, an image after the cache has
closed. That regions of two cameras do not overlap is a matter of
cardinalities: `get_start_index` is the number of fiber ends of the cameras
before, and those of one camera fit between its start and the next camera's.

Only model-checked: all liveness, since fairness and `ENABLED` are out of the
prover's reach: `GateReopens`, `StartIsAnswered` and `StopServerEnds` of Server,
`WorkEnds` of WorkThread, `ReaderKeepsUp` of SerialPort, `OperationEnds` of
PlcMotion, `PassEnds` of FocusWorker and `CallsReturn` of MvsCamera. No module
declares a RECURSIVE operator; recursive functions are used instead.

## 6. Where code and documentation disagree

| run | what it shows |
|---|---|
| server_stop_refused | docs/PROTOCOL.md says stop_process interrupts a run; the busy gate refuses every request during a run, that one too |

Also seen, not runs of their own, most of them at the edge of a property that
does hold:

- A stop that passed the gate before a run sets `m_terminate` after that run has
  cleared it; the next run is then aborted at its first position
  (`thread_misc.cpp:1084`; `StopOnlyByRace` says when the flag can be set).
- `~thread_misc` deletes camera, detector and motion control before
  `~thread_base` stops the thread that uses them (`thread_misc.cpp:18`; in the
  model the process crashes, which `StopServerEnds` allows).
- `stop()` calls `disconnectFromHost` in a loop over `m_clients`, from which
  `onDisconnected` removes the socket at once when nothing is left to write
  (`server.cpp:69-75`); the loop may then pass over a client.
- A run on a closed camera inspects nothing and reports success
  (`thread_misc.cpp:1019`).
- `close()` leaves `m_is_grab_running` set; a later `start_grab` does nothing
  and reports success (`camera_dvp2.cpp:63`).
- `motion_control_port.h:58` says of `send_command` that true means the device
  has finished; after one timeout it takes a late reply and returns true before
  that (`ShiftIsTimeouts`). A timeout of the light, which waits for one second
  only, is enough to shift the coordinates read from then on.
- After a timeout, or after a move by hand, the limit is checked against a
  position that is no longer true, and a forward move goes past it
  (`thread_misc.cpp:557`; `ForwardWithinMax` says when not). No target of
  `move_to_position` is checked at all.
- `thread_calc_image_clarity.h:45` says that `m_focus_index` is the position of
  the sharpest image in the cache; `set_finished_count` stores the size behind
  the push, one more than that, and the index is not adjusted when the cache
  drops its front. Its getter has no caller. A maximum that comes when the
  cache is closed is not cached at all, though it is the result.
- `reset_auto_focus` does not clear `m_cache_images`; a pass that never sets up
  its regions leaves those of the pass before.
- Two writers of the server may take one slot, mix two images in it and
  announce both; a client that dies while it copies leaves the segment locked,
  and the thread that writes to it next waits for ever; while a client holds a
  segment, a server started again cannot create it and every third image fails.

Further: several branches of `process_task` post nothing
(`auto_focus`, `update_server_parameter`, `trigger_once` without a camera, a
move by index in continuous mode), so the client's entry stays in the map;
messages that arrive joined are dropped; the driver's frame that comes after
its trigger timed out is returned by the next trigger; `auto_focus2` has no
destructor, so its worker is never stopped by it. The comment on the wait of
`M` (`motion_control_plc.cpp:234`, it returns when the motion is over) does not
hold when a read fails, the motion begins more than 5 ms late or takes more
than the wait allows; and `reset` does not clear its coil after a failed write, so
that the next reset may be no rising edge, move nothing and report success.
`PlcMotion` states what does hold. The class `auto_focus` that
thread_misc includes (`auto_focus/auto_focus.h`) is not in the repository;
FocusWorker models `auto_focus2`, which is, and Server only its call.
`thread_misc.cpp:95-96` calls `get_position` with two arguments where it has
three, and uses `.` on the pointer `m_config_data`: neither compiles as it stands; the initial state takes the evident meaning.

## 7. What is not modelled

- device_manager: a list under a lock, each call one critical section; a model
  would say that again. The pointer its `get_device_info` hands out is used by
  the cameras while the list may be replaced; what that use does is the
  driver's.
- camera_factory: a choice by name, without state.
- Of thread_calc_image_clarity, the tasks of the two calibrations and of the
  pixel adjustment: they evaluate one image at a time and keep no cache.
- `auto_focus2`'s geometry, and the pointer to the camera it keeps after the
  camera was opened again.
- event_bus, configuration, common: small helpers and file I/O; nothing in the
  server uses event_bus.
- thread_algorithm, thread_motion_control: skeletons that nothing starts.
- device_enum, the detector and the DVP2, MVS and Modbus libraries: external;
  their effects are nondeterministic choices where they are called.
- Image contents, JSON, speeds and units of the stage, exposure-like parameters, and
  wording of messages: data no property depends on.

## 8. Plan

1. Done: Server, WorkThread/TaskQueue, ReplyChannel, Stage, MvsCamera, Camera,
   PlcMotion, SerialPort, SharedImage, FocusWorker and FocusTask, each with
   theorems for all the safety properties its runs check.
2. The path of an image from the trigger to a client, as a composition of
   Camera and SharedImage; a run of Server that moves a Stage.
