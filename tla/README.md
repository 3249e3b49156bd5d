# A verification project for the KISTAR hand and FR3 arm controller

The repository drives a Franka FR3 arm and a KISTAR hand from one real-time
process ("RT process", C++), which talks EtherCAT to the hand and libfranka to
the arm, and from a ROS 2 bridge node, which passes commands to the RT process
through System V shared memory. A Python orchestrator takes trajectories that a planning PC sends as
action goals, runs each as a grasp sequence of arm and hand, and publishes the targets
to the bridge. This directory holds TLA+ models of that system,
the TLC configurations that check them and TLAPS proofs about them.

Contents: [inventory](#inventory) · [modules](#modules-and-the-code-they-model) ·
[runs](#runs) · [proofs](#proofs) · [what the code disagrees with](#where-code-and-documents-disagree) ·
[limits](#what-is-not-modelled) · [plan](#plan)

## Inventory

Sizes: about 3 500 hand-written lines (Ethercat_setting 495, the bridge node 405,
franka_right_arm 337, hdf5_logger 273, fk_solver, shm, the orchestrator 985, small
tools); the 24 000 lines of `src/soem_lib` are SOEM, a vendored EtherCAT master, most of
it for other operating systems and for protocols this program does not use.

| Component | State it keeps | Operations | Talks to |
|---|---|---|---|
| Shared memory (`inc/shm.h`, `src/shm.cpp`) | `SHMmsgs` (hand targets and feedback, `Arm_j_tar`, `Arm_Speed_Factor`, attach count) and `ArmTrajBuf` (`state`, `len`, `q`, `t`) | attach with clean start, detach with removal | everything below |
| Arm controller thread (`franka_right_arm.cpp`) | connection, last target, copy of a trajectory | connect, resync, poll, execute a trajectory, point-to-point move, recover from exceptions | shared memory, libfranka |
| Control callback (same file, in `executeTrajFromShm`) | elapsed time | one joint command per control period | libfranka |
| EtherCAT threads (`Ethercat_setting.cpp`: `ecatthread`, `ecatcheck`, `ethercat_run`) | `dorun`, `wkc`, slave states, DC offset | cyclic exchange, supervision of slaves, start and shutdown | SOEM, shared memory |
| Bridge node (`kistar_hand_bridge_node.cpp`) | attached pointers, publishers | seven subscription handlers and a timer on one executor thread | ROS topics, shared memory |
| Orchestrator (`planning_orchestrator.py`) | active goal, busy flag, abort and start events, copy of the pose | action server, grasp sequence, keys `s` and `t`, abort and hold | action client, arm and hand topics |
| SOEM: port (`oshw/linux/nicdrv.c`, `ethercatbase.c`) | 16 frame buffers and their states, one raw socket, two mutexes, the index stack of the process data | take an index, send, wait with repetition, release; send and receive process data | the threads of the RT process, the network |
| SOEM: mailbox (`ethercatcoe.c`, `ethercatmain.c`) | mailbox counter, repeat bit, segment toggle | read an object of a slave at start-up | the slaves |
| SOEM: configuration (`ethercatconfig.c`) | slave list, FMMUs, process image, segments, expected working counter | map the image, walk slaves through their states, reconfigure and recover one | the slaves, the EtherCAT threads |
| HDF5 logger (`hdf5_logger.cpp`) | one growing dataset per signal | open, append, close | nothing: its calls are commented out |
| Hand kinematics (`fk_solver.cpp`) | none | forward kinematics | – |
| Printers and tools (`shm_print.cpp`, `scripts/*.cpp`, `whitepc_*.py`) | none | display, `reset_arm_traj` rewrites the trajectory buffer | shared memory |

**What is hard.** There is no lock between processes: `g_shm_mutex` belongs to the
RT process and `shm_mutex_` to the bridge, so every handshake rests on the order of
single-word accesses. The trajectory buffer is handed over by a state word
(IDLE, PENDING, EXECUTING, DONE) that both sides write unconditionally. The
segments outlive the processes, so each side can die and come back to whatever the
other has left. libfranka reports failure by exceptions from any call, in the
middle of a motion. A motion is a blocking call: commands change under it.
EtherCAT start-up, shutdown and slave recovery are shared between unsynchronised
threads, over a socket whose answers are told apart by an eight-bit index only; frames
are late, lost and asked for again at two levels (the port and the mailbox); the orchestrator aborts from any point of a sequence that runs in another
thread.

**What correctness means, part by part.**
- *Arm controller*: it follows only what passed validation; a publication is
  executed at most once and, if publishers take turns, exactly as published or not
  at all; it never moves without a command; it never leaves a publisher waiting; it
  ends where `Arm_j_tar` says.
- *Control callback*: commands within joint limits, on the polygon through the
  waypoints, without jumps; the motion finishes, and finishes at rest.
- *Bridge*: what it writes can be read as one message; parameters are in range.
- *Shared memory*: nobody's data is wiped by another's start, the last one out
  removes the segment, and nobody is left on a removed one.
- *Hand link*: the hand and the bridge end up with what the other side said last; a
  servo that is switched on does not run to an older target.
- *EtherCAT*: a start of the exchange that is lost is noticed, the supervision forgets
  no slave, disturbs none that works, and brings a lost one back to OPERATIONAL.
- *SOEM port*: an index has one user, who gets the answer to his own request, whoever
  has read it from the socket.
- *SOEM mailbox*: a read that succeeds has the whole object in order, and returns.
- *SOEM image*: every slave has its own bits, a frame holds whole slaves, and a
  complete working counter means that all data are of this cycle; each hand's window is
  its own.
- *Orchestrator*: one goal at a time, every goal ended exactly once, no motion
  command after an abort's hold.

`PROJECT.json` lists every hazard at its line, with the properties that cover it.

## Modules and the code they model

| Module | Lines of the code | What it is |
|---|---|---|
| `ArmShm` | `inc/shm.h`, `src/shm.cpp` | the shared words of the arm; constants and their assumptions |
| `ArmBridge` | the arm handlers of the bridge node | decoding a message and writing it word by word |
| `FrankaArm` | `franka_control_thread_R` and what it calls | the controller, one action per shared access or blocking call |
| `ArmSystem` | – | both over one memory, crashes and restarts, history variables, properties |
| `ArmMailbox` | – | the abstract specification: a one-slot mailbox |
| `ArmInvariants` | – | the inductive invariants |
| `TrajFollow` | the control callback in `executeTrajFromShm` | elapsed time to command, as exact fractions |
| `Orchestrator` | `planning_orchestrator.py`: the action server, the keys, the sequence | one action per call that another thread can come between |
| `OrchestratorInvariants` | – | its properties and its inductive invariant |
| `ShmSegment` | `src/shm.cpp`: `init_shm`, `deleteSharedMemory` | the life of a segment, one action per system call or access to `process_num` |
| `HandLink` | the hand handlers and the publisher of the bridge node; the body of the cycle of `ecatthread` | extends `ShmSegment` with the hand's words and both ends' accesses to them |
| `EthercatMaster` | `Ethercat_setting.cpp`; of SOEM the functions it calls on the slave list | start-up, shutdown, cyclic exchange, supervision, and the line of slaves |
| `EcPort` | `oshw/linux/nicdrv.c`; the senders and receivers of `ethercatmain.c` and `ethercatbase.c` | buffers, indexes and the socket, for the cyclic thread and for callers of primitives |
| `SdoRead` | `ecx_SDOread` (`ethercatcoe.c`), `ecx_mbxempty`, `ecx_mbxsend`, `ecx_mbxreceive` (`ethercatmain.c`) | reading an object over the mailbox |
| `IoMap` | `ecx_config_map_group` and its helpers (`ethercatconfig.c`), the process data exchange (`ethercatmain.c`), the windows of the hands (`Ethercat_setting.cpp`) | the process image, its frames, a cycle |
| `HandInvariants`, `EthercatInvariants`, `PortInvariants`, `SdoInvariants`, `IoMapInvariants` | – | their properties |
| `ArmSystemProof`, `TrajFollowProof`, `OrchestratorProof`, `EthercatMasterProof`, `HandProof`, `PortProof`, `SdoProof`, `IoMapProof` | – | the proofs |
| `MCArmSystem`, `MCTrajFollow`, `MCOrchestrator`, `MCHand`, `MCEthercat`, `MCPort`, `MCSdo`, `MCIoMap` | – | small instances for TLC |

**Atomicity.** One step reads or writes one word of shared memory: one joint of one
waypoint, one time, `len`, `state`, one joint of `Arm_j_tar`. A mutex taken in the
code does not make a step larger, because the only other writer never takes the same
one. The variable `pc` of `FrankaArm` names the shared access or libfranka call that
comes next, `bpc` of `ArmBridge` the next write of the handler in progress:

| `pc` | where |
|---|---|
| `connect` | constructing `franka::Robot`, `readOnce` |
| `sync` … `sync_len` | bringing `Arm_j_tar`, the speed and the trajectory state in line (249–261) |
| `poll` | the test for PENDING (274) |
| `mark` … `copy_t`, `reject` | the copy and validation of `executeTrajFromShm` (123–163) |
| `follow`, `abort` | inside `robot.control`; its exception handler (165–205) |
| `done`, `resync` | DONE, then `Arm_j_tar` := last waypoint (207–212) |
| `reread` | `readOnce` after a motion |
| `target`, `speed`, `move` | point-to-point: read the target, the speed, run the motion |
| `handler` | the catch clauses of the thread |
| `down` | the process is not running |

The mutex `g_shm_mutex` is taken by the other threads of the RT process only to read
(printing) or to write words that are not in the model.

**Data.** A joint value is one of a few numbers. `InLimits[j]` are those within the
limits of joint `j`; `Far` are the pairs further apart than `kTargetEps`; both are
what the code's comparisons tell apart. `NaN` is a model value for which both
comparisons of the bridge's clamp are false. A joint name in a message is the number
of the joint, or 0 for a name the node does not know.

**The robot.** libfranka is external, modelled from its use: `robot.control` is one
blocking step. A followed trajectory ends at its last waypoint (`FollowEnd`), a
point-to-point motion at its target if the arm can be there (`MoveEnd`); a target out
of reach is refused (`MoveRefused`); any call may throw (`RobotFault`), and then the
arm stands at any configuration within its limits.

**The callback.** `TrajFollow` is the inside of `follow`. `lerp7` treats the joints
alike, so one joint is enough; a command is the exact fraction `num / den`, so that
the properties compare by multiplication and no rounding is modelled. The first waypoint may
have any time, as nothing checks it. Before that time the code extends the first segment
backwards (`Segment` finds none and takes 1); with a single waypoint it reads `times[1]` and
`waypoints[1]` behind the vectors: any value of `Junk`.

**The orchestrator.** A multi-threaded executor with a reentrant callback group runs an execute
callback for every accepted goal, the goal callbacks and the cancel callbacks side by
side; a further thread reads the terminal. `pc[g]` is the place of goal `g`'s execute
callback and `stage[g]` the stage of the grasp sequence (1 to 7 as in the code's
header), because stages share their helpers: `_wait_q_close` serves 1 and 7,
`_ramp_hand` 2, 3 and 5. `cancel[g]` and `key` are the places of the other threads.

| `pc` | where |
|---|---|
| `ready` … `prepare` | the goal is accepted; the event is cleared, the handle stored (`_execute_follow_joint`) |
| `waitCancel`, `waitAbort`, `waitStart`, `waited` | the loop of `--require-terminal-s`, test by test, and the test behind it |
| `clear` | the event is cleared a second time |
| `publish`, `near`, `look` | stages 1 and 7: the target, the deadline and the event, the pose |
| `servo`, `mode`, `ramp`, `turn`, `ramped` | stages 2, 3 and 5: the hand |
| `sample` … `sampled` | stage 4: `_run_trajectory` |
| `settle`, `close`, `closed` | stage 6 |
| `end`, `cancel`, `result` | the result, and the transition of the goal's handle |
| `release`, `forget` | the `finally` clause: `_goal_busy`, then `_active_goal_handle` |

`abort` is `abort_event`, `busy` and `handle` are `_goal_busy` and `_active_goal_handle`.
`gst` is the status rclpy keeps of a handle (external): a transition that is not legal
raises and changes nothing, which is `Finish`. Reading the copy of the pose and
publishing it is one step of `Hold`, since the copy only lags. The test of the event
between stages and the one that opens the next helper are merged where nothing happens
between them. Where the arm goes is external: when a state message comes, the arm has
got to the last target. Joint data, the
names of fields and of joints, and waiting times are left out; a loop that waits may
give up at any turn. `did` and `late` are history: what the sequence of a goal has
achieved, and how many targets went out since the event was set.

**The segment and the hand.** In `ShmSegment`, `pc[c]` is the place of client `c` – a
thread of the RT process, its main thread, or the bridge – in `init_shm` (`get`,
`attach`, `check`, `wipe`, `inc`) or in `deleteSharedMemory` (`dec`, `cmp`, `rm`, `exit`);
`at[c]` is the segment it has got. A segment that was removed stays usable for those
who are attached, as System V has it, while the key leads nowhere or to a new one. Each
process starts, stops in an orderly way, or dies at any point, when its mappings go and
its count stays. `HandLink` carries on from `on`: `bpc` is the handler of the bridge in
progress, `epc` the next access of `ecatthread` in its cycle (`recv`, `servo`, `mode`,
`tar`, `pos`, `send`). A target message is its number, written to each word; messages of
servo and mode are integers of which the lowest eight bits arrive. A frame, in either
direction, passes or is lost. The hand is operational here; its states are in
`EthercatMaster`.

**The EtherCAT master.** Three threads and no lock: `pcM` is `ethercat_run`, `pcC`
`ecatthread`, `pcK` `ecatcheck` with its loop variable `slave`. A step is one exchange on
the bus with the assignments that depend on it, or one access to a variable of another
thread (`dorun`, `wkc`, `docheckstate`, `ec_slave[i].state`, `islost`). The slaves are `al`,
`addr` and `fmmu`; an exchange reaches the first `reach` of them. `Line` cuts and restores
the cable, takes the power from a slave, drops one to SAFE_OP or PRE_OP with an error, and
runs the watchdog of the outputs. Retries inside an exchange are the port's business; a
lost frame is a cut and a restoration around it. `dorun` counts cycles: its sign is kept.

**The port.** A step of `EcPort` is one access to `rxbufstat`, one `send` or one `recv`, or
what is done under a mutex up to such an access. `getindex_mutex` and `rx_mutex` are the
only locks; `rxbufstat` is written outside both. A frame is the number of its request and
of its sending; those on the line form a set, out of which any may come next or be lost.

**The mailbox.** A step of `SdoRead` is one primitive with the decisions behind it; a timer
may have run out whenever it is asked, and a primitive may fail before or after its
effect. The slave keeps to the mailbox protocol (external): it takes one request at a time,
answers when its outgoing mailbox is free, and puts its last message back when the repeat
bit is toggled; a request that is written twice by the retries of a primitive arrives
once, by its counter. `clean` is a history of the present read: no older answer was due when it
asked, no request of it arrived although its writing was reported as failed, and no
timer of its own ran out.

**The process image.** A step of `IoMap` maps one FMMU, closes a slave or a direction, sends
the frames of a cycle, or takes one back. `fmmus` are the FMMUs programmed, with logical
address, bits and physical address, `segments` the sizes of the frames, `served` a
history of what was exchanged in this cycle. Each frame and each slave may fail in a cycle.

**History.** `posted`, `fresh` and `commanded` in `ArmSystem` are written for the
properties and read by no action. `fresh`: the last publication was not picked up
yet. `commanded`: the bridge has written a joint target since the controller last
began to overwrite `Arm_j_tar` itself. `doubled` in `EthercatMaster`: two slaves have had one
address at some time. `HealthySpared` is exempt from then on and not only while it is so: a state read
at an address that two slaves had may be the one's, which then loses its power and with it the
address, while the request to go to INIT is still to come and reaches the other, healthy one. It takes more faults
than the run allows.

**Mutants.** Next to some definitions stands a second one whose comment starts with
"Mutant:". It is the same definition with a plausible bug; nothing uses it in the
specification. For each property `PROJECT.json` names a mutant that breaks it, which
shows that the property depends on the code and not on the shape of the model.

## Runs

Passing runs:

| Run | Question | Properties |
|---|---|---|
| `arm_free` | What does the controller guarantee when publishers send anything at any time, with an exception and a crash? | `TypeOK`, `FollowedIsValidated`, `StartsOnce`, `NoSpontaneousMove`, `SpeedInRange`, `BufferReleased`, `Settles` |
| `arm_mailbox` | Is the buffer a one-slot mailbox for publishers that take turns, through exceptions and crashes? | `FollowsPosted`, `MailSpec` |
| `traj_follow` | Does the callback command the interpolated path, without jumps, to rest, and how far does validating the waypoints bound what it commands? | `FirstCommandDecides`, `OnPath`, `NoJump`, `FinishesAtRest`, `Ends` |
| `orch_safe` | What do two goals, two interruptions and `s` do to the order of the grasp sequence? | `TypeOK`, `OneOwner`, `ClosesAtGrasp`, `SucceededIsComplete`, `StopsSoon` |
| `orch_live` | Does every accepted goal end, and free the server for the next? | `GoalEnds`, `WaitCanBeLeft` |
| `hand` | Do all processes stay on one segment through starts, stops and crashes, and do commands and states get through it? | `Together`, `WipesNobody`, `ArmedWithTarget`, `Delivered` |
| `ecat` | Do start-up, exchange and supervision get along without a lock, and does the line recover from faults? | `MasterTypeOK`, `NotForgotten`, `LostStartIsSeen`, `HealthySpared`, `Recovers` |
| `port` | Do threads that share frame buffers and a socket get their own answers, with frames late, overtaken, lost and repeated? | `Exclusive`, `OwnAnswer`, `AnswerKept` |
| `sdo` | Is an object read over the mailbox whole, with frames lost, repeated and timers running out, and does the read return? | `ReadExact`, `LeavesNothing`, `ReadReturns` |
| `iomap` | Is every slave's share of the process image its own, cut into frames whole, and is a complete working counter proof of fresh data? | `WellMapped`, `FramesFit`, `CompleteIsFresh`, `OwnWindow` |

What the newer ones show: `hand`: a leaked count keeps a segment alive but divides nobody
(`Together`), and the first thread's clean start comes before anything is written. `ecat`: although
`ethercat_run` and `ecatthread` write the variables that `ecatcheck` goes by, whatever
it misses in one pass it finds in a later one; what recovery cannot repair is named by
`Stuck`, and nothing else is missing. `port`: rather than by comparing answers with
requests, the port is right because an index comes round only after all others; `OwnAnswer`
says exactly how late a frame must be to be taken for another's answer. `sdo`: the toggle of
the repeat bit makes lost answers harmless; lost requests and expired timers
are not (`clean`). `iomap`: the working counter vouches for the data unless a slave of a few bits
lies across two frames.

Runs that end in a violation show a statement of a comment or a document that the
code does not keep: see [below](#where-code-and-documents-disagree).

**Instance and bounds.**
- `NJ = 2`, `MaxPts = 2`. Two joints are enough for a configuration to be torn or
  half synchronised, and for two joint limits to differ: joint 2 does not reach 0.0,
  as joints 4 and 6 of the FR3 do not, so zeros are a target it cannot take. Two
  waypoints are enough for an ordering of times, a partial copy and a change of
  length. Handlers and copies loop over joints and waypoints in the same way
  whatever their number; for the proved properties the number is arbitrary.
- The trajectories sent: a good one, one with its names swapped and a value beyond
  joint 2's limits, one with a missing position, one whose times do not increase,
  one out of limits at its last waypoint. `arm_free` uses all of them, and speeds below, within and above
  the range and NaN; `arm_mailbox` those that matter to its question.
- `MaxSent` (2 or 3 messages): one to overtake another, a third to come after the
  buffer went through a whole cycle. `MaxFaults = 1`, `MaxCrashes = 1`: an exception or a
  death at every point, followed by a complete recovery. `sent`, `faults` and
  `crashes` are the only counters and these bounds the only guards not in the code.
- `TrajFollow`: up to 4 waypoints in −1..2 at times up to `Horizon` = 6, the first at any of them, and
  behind a single one `Junk` = {−3, 0, 7}, positions and times in range and out of it; periods of
  one and two ticks (libfranka reports a longer one after a lost packet), `Grace` = 2
  for the 50 ms. `Grace` is at least a period, as 50 ms are many periods;
  `FinishesAtRest` needs that.
- `Orchestrator`: two valid goals in `orch_safe` (interchangeable, so declared
  symmetric), a valid and an invalid one in `orch_live`, where symmetry would not be sound.
  `MaxAborts` = 2: presses of `t` and cancel requests, so that one can follow an abort
  that is being served. `Last`, `Steps` and `Tries` = 1: every loop of samples, ramp steps
  and polls has a first, a further and a last turn. Both settings of
  `--require-terminal-s` are initial states.
- `HandLink`: two threads of the RT process (`ecat`, and `other` for the arm and printing
  threads, which attach in the same way), two joints. `MaxStarts` = 3: both processes up and
  one of them again; `MaxSegs` = 2: one segment removed and made anew. `MaxSent` = 2: a
  command and one that overtakes it. `ServoMsgs` = {0, 257}: off, and a number that is 1 in
  eight bits only.
- `EthercatMaster`: two slaves, one to fail and one to be spared (the code drives one or two
  hands); `MaxFaults` = 2, so that the second can fall into the recovery from the first, and
  `MaxEarlyFaults` = 1 of them while `ethercat_run` starts or stops.
  `ecat_power` needs one slave and one fault.
- `EcPort`: three of the sixteen buffers, so that the search comes round; `Segments` = 1, the one frame
  of two hands' data; a caller of primitives beside the cyclic thread; four requests, one more
  than there are buffers; two sendings of each; `send` may fail.
- `SdoRead`: two subindexes of one index, one value in a single answer and one with two
  further segments; two reads, so that the first can leave something to the second; three failed
  exchanges, one to lose an answer, one its repetition, and one more; one emergency message.
- `IoMap`: every bus of four slaves out of seven kinds: a hand (two bytes out, three in), one with a
  few bits in both directions, one with five output bits, one with two sync managers with a gap, one
  with two side by side, one without data, and one with two gaps and with more inputs than a frame takes, for
  which `Covered` and the limit of a segment are not claimed. `Limit` = 4 bytes for `EC_MAXLRWDATA`, so that a bus needs
  several frames. In each cycle any frame and any slave may fail, with LRW and without.

**Assumptions on the environment**, which no code enforces and which only the named
runs make:
- `OneAtATime` (`arm_mailbox`): a trajectory message arrives only while the state is
  IDLE or DONE. `arm_torn` shows what happens otherwise.
- `Orderly` (`hand`): a process starts or stops only while the other does neither. A crash may come at
  any time. Without it, two processes that start together wipe each other's words, and one that
  starts while the last one leaves is left on a removed segment.

**Fairness** (`FairSpec`). In `ArmSystem` (`arm_free`): weak fairness of `Bridge` – a
handler that was called runs on, since nothing in it blocks – and of `Arm` – the controller
thread is scheduled and libfranka's calls return or throw. Nothing obliges messages to
arrive, exceptions to be thrown, or a process to die or be started again.
`BufferReleased` excuses runs in which a process died (EXECUTING then stays until an exception). `Settles` says where the arm ends when
messages and exceptions have stopped; the budgets make them stop. In `TrajFollow`
fairness is that libfranka keeps calling the callback. In `Orchestrator` it is weak
fairness of each execute callback, each cancel callback and the terminal thread once a
key was pressed: the executor has a thread for each, and nothing in them blocks for good. Nobody
has to press a key, cancel or send a goal, and state messages may stay out.
In `HandLink` handlers that were called run on, the timer fires and the cycle goes on (weak); the line does not lose every frame for ever
(strong fairness of an exchange that succeeds); the segment's clients need not start or stop.
In `EthercatMaster` it is weak fairness of each of the three threads, none of which blocks
for good since every exchange has a timeout, and of plugging a pulled cable in again,
without which nothing could recover; faults need not happen and nobody has to press Ctrl+C. In
`SdoRead` the master goes on, timers run out, and the slave serves its mailbox; losses
are bounded by `MaxLosses`. `EcPort` and `IoMap` are checked for safety only and have no fairness.

Deadlock is checked in all runs of `ArmSystem`, `Orchestrator` and `IoMap`, which never stop. The callback does
stop, after `MotionFinished` or an exception, and so does the RT process, after Ctrl+C;
in `hand`, `port` and `sdo` the bounds on starts, requests and reads end the run. These do not check
it.

## Proofs

All are checked by TLAPS for arbitrary constants within the named assumptions
(`SizeAssumption`, `ValAssumption`, `FarAssumption`, `SpeedAssumption`,
`MsgAssumption`, `FaultAssumption`, `CrashAssumption`; `FollowAssumption`;
`OrchestratorAssumption`; `NAssumption`, `FaultsAssumption`; `ThreadsAssumption`, `SegmentBounds`,
`HandAssumption`; `PortAssumption`; `SdoAssumption`; `IoMapAssumption`), so for seven joints, a thousand waypoints, any messages, any
number of faults and crashes, any number of goals, samples and aborts, of slaves, of
threads, of starts, of frame buffers and requests, of objects, segments and lost frames, and of sync managers with
any addresses and bits.
`PortAssumption` says that the threads are finitely many, without which a full set of
buffers would be nothing out of the ordinary.

| Theorem | States |
|---|---|
| `ArmSystemProof!TypeCorrect` | `Spec => []TypeOK` |
| `ArmSystemProof!FollowedIsValid` | `Spec => []FollowedIsValidated` |
| `ArmSystemProof!NoSecondStart` | `Spec => []StartsOnce` |
| `ArmSystemProof!StaysStill` | `Spec => []NoSpontaneousMove` |
| `ArmSystemProof!SpeedKept` | `Spec => []SpeedInRange` |
| `ArmSystemProof!PostedIsFollowed` | `OneAtATime` implies `Spec => []FollowsPosted` |
| `ArmSystemProof!BufferIsMailbox` | `OneAtATime` implies `Spec => MailSpec` (the buffer implements the mailbox) |
| `TrajFollowProof!CommandsAreFractions` | `Spec => []FollowTypeOK` |
| `TrajFollowProof!StaysWithinLimits` | `Spec => []FirstCommandDecides` |
| `TrajFollowProof!TracesPath` | `Spec => []OnPath` |
| `TrajFollowProof!NeverJumps` | `Spec => NoJump` |
| `TrajFollowProof!EndsAtRest` | `Spec => FinishesAtRest` |
| `OrchestratorProof!OrchestratorTypes` | `Spec => []TypeOK` |
| `OrchestratorProof!OneGoalAtATime` | `Spec => []OneOwner` |
| `OrchestratorProof!ClosesOnlyAtGrasp` | `Spec => []ClosesAtGrasp` |
| `OrchestratorProof!SucceededMeansComplete` | `Spec => []SucceededIsComplete` |
| `OrchestratorProof!AbortStopsSoon` | `Spec => []StopsSoon` |
| `HandProof!HandTypes` | `Orderly` implies `Spec => []HandTypeOK` |
| `HandProof!SegmentShared` | `Orderly` implies `Spec => []Together` |
| `HandProof!NobodyWiped` | `Orderly` implies `Spec => []WipesNobody` |
| `HandProof!ArmedWithItsTarget` | `Orderly` implies `Spec => []ArmedWithTarget` |
| `EthercatMasterProof!MasterTypes` | `Spec => []MasterTypeOK` |
| `EthercatMasterProof!NoSlaveForgotten` | `Spec => []NotForgotten` |
| `EthercatMasterProof!LostStartSeen` | `Spec => []LostStartIsSeen` |
| `EthercatMasterProof!SparesHealthy` | `Spec => HealthySpared` |
| `PortProof!PortTypes` | `Spec => []PortTypeOK` |
| `PortProof!IndexExclusive` | `Spec => []Exclusive` |
| `PortProof!AnswersKept` | `Spec => AnswerKept` |
| `PortProof!AnswerIsOwn` | `Spec => []OwnAnswer` |
| `SdoProof!ReadIsExact` | `Spec => []ReadExact` |
| `SdoProof!NothingLeft` | `Spec => []LeavesNothing` |
| `IoMapProof!MappedWell` | `Spec => []WellMapped` |
| `IoMapProof!FramesDoFit` | `Spec => []FramesFit` |
| `IoMapProof!FreshWhenComplete` | `Spec => []CompleteIsFresh` |
| `IoMapProof!WindowsAreOwn` | `Spec => []OwnWindow` |

*The arm.* None of the properties is inductive. `SafetyInv` adds three parts.
`CopyInv` says which rows of the copy have been validated at each label: a row may be
accepted while later rows are still being rewritten by the bridge, and only the fact
that validation looks at the copy makes that harmless. `StillInv` follows the pose
through the places where `Arm_j_tar`, `last_target` and `target` are copied from one
another joint by joint: while nobody has sent a target, `Arm_j_tar` is the pose as far as
the cursor has come. `CursorInv` says that cursors are at their start between
passes. `TypeOK` itself needs `CopyInv`: the pose after a trajectory is its last
waypoint, which is reachable because it was validated.

*The mailbox.* `HandshakeInv` is inductive together with `SafetyInv`. `OwnerInv`: the state
word says who may touch the buffer, and because messages come only in IDLE or DONE, the
bridge is never writing while something is pending or the controller is between picking a
trajectory up and being done with it. This is where `OneAtATime` is used, and the
only place. `BufferInv` describes the buffer as the bridge fills it, row by
row and joint by joint; the length may also be 0, which the reconnection writes at
the wrong moment. `ReadInv` describes the copy as far as the cursor has come. When the copy
is complete both ends agree, which is `FollowsPosted`. For the refinement,
`MailStep` restates the mailbox's next-state relation over the mapped variables, and each step of
the bridge (`BridgeMail`) or the controller (`ArmMail`) is shown to be one.

*The callback.* No theorem assumes when a trajectory begins. From the first time on, a segment is found for every time
before the end (`SegmentFound`, by the greatest waypoint time that has passed, from
`HasGreatest`), and a linear interpolation stays between its ends (`LerpBounded`): the validated waypoints
bound the command. Before the first time no segment contains the elapsed time (`SegmentBefore`) and the
line through the first two waypoints goes on backwards; a line that is within the limits at time 0 and at
the first waypoint is so in between (`LineBounded`, `LerpBefore`). That is `FirstCommandDecides`: with two
waypoints or more the limits depend on the first command alone, which nobody validates, and with
one waypoint there is no claim before its time. `OnPath` needs that times are ordered as a
whole (`TimesOrdered`), which the code checks only between neighbours. For `NoJump`, `CommandsApart` compares the commands at
two times of which the later may be any number of segments on: within one segment by its slope
(`SameSegment`), else by way of the waypoints between (`WaypointsApart`, by the least counterexample, and
`AcrossSegments`). Times before the first waypoint belong to the first segment (`SegmentBefore`). `FinishesAtRest`
rests on a control period being no longer than the grace period.

*The orchestrator.* `OrchInv` is inductive. `OwnerInv` is the root: a callback that has
not released `_goal_busy` is alone, so nobody else clears the event or sends targets of
the sequence. Therefore an event that cut a loop short is still set when the test behind the
loop looks, which is why `DoneInv` may say that a stage is entered with
the stages before it complete, and why `_ramp_hand` and `_run_trajectory` can do
without a return value. `GraspInv` carries the arm's target from the last sample to the closing of the
hand: only holds come in between. For `StopsSoon`, `Left(g)` counts the targets that can
still go out before the next look at the event, and `LateInv` bounds what has gone out and what is left
together.

*The segment and the hand.* `SegInv` is inductive. `Turns` is the discipline of `Orderly`;
`Counted` says that `process_num` is never less than the number of processes in use, each of which counts
as soon as the last of its threads has attached, so that a decrement to 0 is the last
one's. Nothing locks the counting: threads of the RT process that attach together lose counts of each
other, and `Registers` says why `Counted` survives that: a value on the way between reading and
writing never leaves out the other process, and who stops has the count as it is. `Alone` says that whoever
wipes or removes has no other process beside him, and `Holds` that whoever uses a segment uses the one under the key. Together they give
`SegmentShared` and `NobodyWiped`. For `ArmedWithItsTarget`, `Clean` adds that a wipe
still to come within the RT process finds targets of zero, `Below` that targets only grow
within the segment, and `Behind` follows a target from the segment through `kistar_tx` to
the hand: what is behind the cursor of `ecatthread` was read after the servo word.

*The EtherCAT master.* `StartInv` says what has not happened yet at each place of
`ethercat_run`; with the cyclic thread at `start` or with `dorun` zero, `wkc` is 0, which gives
`LostStartSeen`. `PassInv` is the invariant of the loop of `ecatcheck`: as long as
`docheckstate` stays FALSE, every slave the loop has passed reads OPERATIONAL and counts as
found. `ethercat_run` writes the states only before that or on its way down, when the property
makes no claim. For `HealthySpared`, `HInv` is about the time between the reading of a slave and the
decision about it. `ReadInv`: a slave that this pass has read in a state for which it will be reset, and has
not come to yet, is not OPERATIONAL, and is not in SAFE_OP either while `ethercat_run` has a request
for OPERATIONAL still to write. It cannot have risen in between, because the supervision
itself raises only the slave it is at. `WriteInv`: such a request acknowledges no error. That a read at an
address is a read of the slave to which the list gives it needs `AdrInv`, and this is what the exemption of
the property is for.

*The port.* `TypeInv` says who holds the locks at which place (`Locked`, `Storing`) and what
a thread that sends still has to send (`Sending`, `Phase`). `ExInv` adds the reason for
`Exclusive`: a buffer in somebody's hands is not empty, and the search takes
an empty one under its lock, unless all are in use or a failed send has emptied it. `SentInv` adds that a
buffer that was sent on is neither empty nor allocated anew while its owner waits, which is `AnswerKept`:
whoever reads the frame finds the buffer marked as sent and stores the answer.

`OwnAnswer` is a counting argument. `Coming` is the index at which the search will look next, `Ahead(i, Coming)` the
number of indexes that it has come past since it gave out `i`. Each of these was given out since, which
made a request, or is leaked, or was in somebody's hands when the search came by; threads can hold at
most `Spread` indexes while one of them looks for another (`TakenBound`). `Round` is the inductive
form: as long as the search is in its first round after request `r`, the indexes behind it and those in hands ahead of it
are at most the requests since `r` plus `Spread` plus the leaked ones behind it. When `i` comes
up again, everything is behind, and the bound of the property remains. `CircleInv` says so of every trace
a request has left, on the line, in a buffer or on the stack of the process data, and `FarInv` of every
two requests that meet in one index. The bound is what the code's sixteen buffers are worth: with `ethercat_run` and
`ecatcheck` beside the cyclic thread and one frame of process data, a frame that is taken for another's answer has been
under way for at least fourteen requests, less the leaked buffers.

*The mailbox.* `Places` is what holds whatever happens to the line. `CleanInv` says that
while a read is clean, what belongs to it is in one place at a time: the request in the slave's mailbox or in its
hands (`Asked`), or the answer, which stays the slave's last message until the master has it, or was
replaced by an emergency message (`Answered`). `Bits` keeps the two repeat bits in step, so that a toggle can
bring back the last message but not an older one. The parts copied are always a front of the object
(`Front`), and the slave's upload stands at the next one; when it is at the end, nothing is due.

*The process image.* The mapping is a loop within a loop, and `IndInv` has a part for each of the things it
counts. `WalkInv`: before there are bits enough, what has been counted is what lies before `SMc`, although the
counters go on from one FMMU to the next; `SMc` never runs past the last sync manager while something is unmapped.
`ImageInv`: every FMMU ends before the place, in bits, that the mapping has come to (`Before`), so that the next one
begins behind it; `Apart` follows. `OwnerInv`: a slave of a few bits has one FMMU. `PhysInv` is about a plain slave between
two FMMUs: what has been mapped is what lies before `SMc`, and there is a gap right before it, so that the
next gap would be the second. Without `Plain` it fails: the FMMU behind a second gap gets the
bytes of the first one added to its length.

`SegInv` ties the segments to the image: what has been added ends at `oLogAddr`, and while a slave is mapped the image is
ahead of it by what is mapped of this slave, plus at most the byte of bits before it. With it `CutInv` can say that the end of a segment is never
within a slave that has bytes of its own: a segment is closed only between two of them. `LimitInv` and `OffsetInv` follow the sizes
of the segments and the place where the inputs begin. `HandInv` gives the addresses of the hands as long as only hands
have been mapped, which needs that no bits are left over.

For the cycle, `StackInv` says that frames begin and end where a segment does or where outputs and inputs meet
(`Edges`), which for LWR needs that the last frame is cut off at the end of the outputs (`Truncated`) and for LRD that the
first begins within a segment (`Shifted`), and that no two frames hold the same bytes in one direction (`Later`).
So a frame has all of a slave's data in a direction or none (`AllOrNone`), and it adds to the working counter one or two
for every slave that exchanges them, and for nobody twice (`Exchange`): `FreshInv`. A complete counter then leaves no slave
out, because a subset of the same size is the set.

The sums over sync managers, frames and segments are recursive functions here (`Upto`). What such a function is for every
argument is shown from its defining equation, by the least argument for which something else would hold (`SumsExist`,
`UptoIs`, `UptoGrows`, `UptoAgree`).

*Model-checked only.* Liveness (`BufferReleased`, `Settles`, `Ends`, `GoalEnds`,
`WaitCanBeLeft`, `Delivered`, `Recovers`, `ReadReturns`) is out of the
prover's reach. Every other property of the passing runs is proved.

## Where code and documents disagree

| Run | The text | What happens |
|---|---|---|
| `arm_torn` | "Copy trajectory locally under lock (bridge may update SHM during copy)" (`franka_right_arm.cpp:127`) | the two processes use different mutexes; two publications in a row, and the robot follows waypoints of both |
| `ecat_power` | "OK : all slaves resumed OPERATIONAL." (`Ethercat_setting.cpp:377`), and "only try if no config address" (`ethercatconfig.c:1567`), the case `ec_recover_slave` is for | if all slaves have lost their power (one hand, one loss), the broadcast of `ec_readstate` is answered with one state by all of them, no slave reads as lost, and `ec_reconfig_slave` asks an address nobody has, for ever |

More follows from the models and has no run of its own. `PROJECT.json` names the hazard for
most of it.

*Arm.* On connecting, the state is read and IDLE is written after it
(`franka_right_arm.cpp:254`): a publication between the two is wiped out, although PENDING says
"waiting for C++ to pick up" (`shm.h:28`). A trajectory that does not start at time 0 is
extended backwards from its first segment, where `ROS2_USAGE.md:137` says that the process interpolates between
waypoints, and the example of `:144-145` starts at 2 s: the robot is commanded to a point that far
before the first waypoint, wherever it stands and whatever the limits are. A single
waypoint with a time above 0, which `:135` allows, makes the callback read behind the
vectors, and nothing bounds its commands. `FirstCommandDecides` and `NoJump` say what remains true;
without their hypothesis on the first time TLC finds both cases. A refused trajectory makes
`executeTrajFromShm` return zeros instead of "the final joint positions"
(`franka_right_arm.cpp:123`); `NoSpontaneousMove` shows that no motion comes of it
unless a target was sent. EXECUTING survives the death of the process that wrote it.
`Arm_j_tar` can be read half old, half new, and the resync after a trajectory (210) can
overwrite half of a target that is just being written; `Settles` shows that the arm ends
where `Arm_j_tar` says in the end, which in the second case may stay a mixture.

*Orchestrator.* The abort event is cleared a second time (`planning_orchestrator.py:587`)
after the goal's handle is known to the terminal: a `t` before that aborts the handle, and the
sequence runs on to its end, although "t" is to hold at once (line 14). The test of the event and the
publication are two steps (667, 683): a hold between them is replaced by the target
of the sequence, and nobody holds again; `StopsSoon` bounds that. A `t` before the first state
message "holds" the arm at seven zeros.

*Shared segment.* `deleteSharedMemory` does not detach. The RT process attaches three times and
counts down once, so `process_num` never returns to 0 after an orderly shutdown, the segment is never
removed, and the next start finds the words of the last one – `servo_on` = 1 and the old targets
included. `ArmedWithTarget` bounds what then happens: the hand gets a target of
the segment that is not older than the one there when the servo was switched on.

*EtherCAT.* `dorun` is a cycle counter of type `int`: after 2^31 cycles of 1 ms
(25 days) it is negative and the exchange stops. `ec_slave[0].state` is a request while
`ethercat_run` changes states (453, 492) and a result when `ecatcheck` calls `ec_readstate`: after
the request of SAFE_OP at shutdown the supervision may put slaves back to OPERATIONAL.
`ec_reconfig_slave` ignores whether its FMMUs were written, and `ec_recover_slave` leaves a
slave that is cut off at the wrong moment with the temporary address, or two with one
address: `Stuck` names what is not repaired. `add_timespec` (106) carries only what is more than a
second: with exactly one second `clock_nanosleep` (221) refuses, its result is ignored, and one
cycle starts early. The integral of the DC regulator has no bound.

*Port.* A late frame of an earlier request is taken for the answer when the
index has come round (`OwnAnswer` says when). A `send` that fails marks the buffer empty under the caller that
waits for it, and the index is handed out again; `getindex` with all buffers in use returns a used one
(`nicdrv.c:234`). Another thread's test of the buffer and its store (431) run without the lock of
`setbufstat`: in between the owner may give up, and the buffer stays RCVD with no owner
(`Leaked`).

*Mailbox.* The loop over the segments sends before it reads and has no limit (`ethercatcoe.c:213`): with
both mailboxes full (`Embrace`) it never ends, nor if the slave has gone. The counter of an answer is
never compared, and of the object only the index, not the subindex: a late answer for another
subindex is accepted. An answer too long for the caller's buffer ends the read and leaves the slave in the
upload it has begun. The toggle bit of a segment is not looked at: a request that arrived though its
sending failed, and then a lost answer, leave a hole in a read that "succeeds".

*Process image.* A slave of a few bits that crosses a byte may lie across two frames and is then counted
by both, although "a single ESC can only contribute once" (`ethercatconfig.c:1007`): the working
counter reaches what is expected while another slave is silent. Three sync managers
with gaps, and some with bits that are not whole bytes, are mapped wrongly, as the byte counter is not reset
for the next FMMU. `ActiveHands` (`Ethercat_setting.cpp:435`) is at least one even if no hand fits, hands that are not the
first slaves get the windows of others (there is a warning only), and nobody compares the image
with the 4096 bytes of `IOmap`.

## What is not modelled

- Of the orchestrator: the mode without an action server (`--traj-topic`), the field
  names of the `whitepc` messages, the reordering of joint names, and the arm behind the
  topics, which `ArmSystem` models from the other side.
- Rounding, the shape of a point-to-point motion, robot dynamics: no property here is about them.
- The joint states the controller writes for the bridge's publisher, and of the hand's
  state all words but the joint positions: they are copied in the same loop.
- The DC regulator `ec_sync` and `add_timespec`: arithmetic on the time to sleep, without
  control state.
- The tool `reset_arm_traj`: run by hand, it zeroes the trajectory buffer at once.
- Memory ordering: a step per word is sequential consistency. The words are
  `volatile`, without fences; on the x86 machine the project runs on, stores of one
  processor are seen in order, which is what the handover needs. Reordering by the compiler of non-volatile
  accesses is not modelled.
- Hand kinematics, printing and inspection: no control state.
- HDF5 logger: its construction and its call are commented out, nothing of it runs.
- The test goal sender (`scripts`): one goal of `Orchestrator`.
- SOEM beyond what is listed above: access to the EEPROM (SII), reading the PDO
  assignment (which sits on the reads of `SdoRead`), writing objects, the set-up of distributed clocks,
  the redundant second port, which this program does not open, the drivers of seven other operating systems and the headers
  of their libraries, and FoE, SoE and EoE, which nobody calls. These are most of the repository's lines:
  the share of all lines that the modules cover stays small for that reason.

## Plan

In order of importance to the system:

1. *Done*: `ArmShm`, `ArmBridge`, `FrankaArm`, `ArmSystem`, `ArmMailbox`, `TrajFollow`,
   `Orchestrator`, and their theorems.
2. *Done*: `ShmSegment` and `HandLink`, with their theorems.
3. *Done*: `EthercatMaster`, with its theorems.
4. *Done*: SOEM below it: `EcPort` with its theorems, `SdoRead`, `IoMap`.
5. *Done*: the remaining safety properties of the callback, the master, the port and the mailbox: `NoJump`,
   `HealthySpared`, `AnswerKept`, `OwnAnswer`, `ReadExact`, `LeavesNothing`, and those of `IoMap`.
6. An abstract action server (one goal at a time, each ended once) that `Orchestrator`
   implements, and a composition of the orchestrator's arm targets with the bridge.
7. `reset_arm_traj` as a third process of `ArmSystem`; object writes and the reading
   of the PDO assignment on top of `SdoRead`.
