------------------------------ MODULE FrankaArm ------------------------------
(***************************************************************************)
(* franka_control_thread_R of the RT process and the functions it calls:   *)
(* it connects to the robot, then polls shared memory for a trajectory     *)
(* (which takes priority) or a changed point-to-point target.  pc names    *)
(* the next access to shared memory, or the libfranka call in progress.    *)
(* A robot.control call is one blocking step of the environment (MoveEnd,  *)
(* FollowEnd, RobotFault); TrajFollow models its inside.                   *)
(***************************************************************************)
EXTENDS ArmShm

CONSTANT MaxFaults      \* bound on the exceptions libfranka throws

ASSUME FaultAssumption == MaxFaults \in Nat

VARIABLES
    pc,
    pose,               \* the joint positions the robot reports
    last_target,        \* what isTargetChanged compares a new target with
    target,             \* readRightArmTargetFromShm's result
    spd,                \* the speed factor given to the motion generator
    n, wp, tm,          \* len, waypoints, times: executeTrajFromShm's copy
    ci, cj,             \* waypoint and joint of the next access
    faults              \* exceptions so far, at most MaxFaults

copyVars == <<n, wp, tm, ci>>
armVars  == <<pc, pose, last_target, target, spd, n, wp, tm, ci, cj, faults>>

Connecting == {"connect", "sync", "sync_speed", "sync_state", "sync_idle", "sync_len"}
Executing  == {"mark", "len", "copy", "copy_t", "reject", "follow", "abort", "done", "resync"}
Moving     == {"target", "speed", "move"}
Label      == Connecting \cup Executing \cup Moving
                \cup {"poll", "reread", "handler", "down"}

FrankaTypeOK ==
    /\ pc \in Label
    /\ pose \in Reachable
    /\ last_target \in Config
    /\ target \in Config
    /\ spd \in Speed
    /\ n \in 0 .. MaxPts
    /\ wp \in [Pts -> Config]
    /\ tm \in [Pts -> Int]
    /\ ci \in Pts
    /\ cj \in Joints
    /\ faults \in Nat

FrankaInit ==
    /\ pc = "connect"
    /\ pose \in Reachable
    /\ last_target = ZeroConfig /\ target = ZeroConfig /\ spd = DefaultSpeed
    /\ n = 0 /\ wp = BlankQ /\ tm = BlankT
    /\ ci = 1 /\ cj = 1
    /\ faults = 0

\* The locals of executeTrajFromShm go out of scope.
DropCopy == n' = 0 /\ wp' = BlankQ /\ tm' = BlankT /\ ci' = 1

\* Mutant: the loop runs one joint too far.
NextJointTooFar(l) ==
    IF cj <= NJ THEN cj' = cj + 1 /\ pc' = pc
                ELSE cj' = 1 /\ pc' = l

\* The cursor moves to the next joint, and past the last one control goes to l.
NextJoint(l) ==
    IF cj < NJ THEN cj' = cj + 1 /\ pc' = pc
               ELSE cj' = 1 /\ pc' = l
-----------------------------------------------------------------------------
(* Tests the code makes on its own copies                                  *)

isTargetChanged(a, b) == \E j \in Joints : <<a[j], b[j]>> \in Far

validateWaypoint(q) == \A j \in Joints : q[j] \in InLimits[j]

\* The time of waypoint i against the one before it.
validTime(t, i) == t[i] >= 0 /\ (i > 1 => t[i] > t[i - 1])

\* Mutant: no test for NaN.
sanitizeRangeOnly(s) ==
    CASE s # NaN /\ s < MinSpeed -> MinSpeed
      [] s # NaN /\ s > MaxSpeed -> MaxSpeed
      [] OTHER -> s

sanitizeSpeedFactor(s) ==
    CASE s = NaN -> DefaultSpeed
      [] s # NaN /\ s < MinSpeed -> MinSpeed
      [] s # NaN /\ s > MaxSpeed -> MaxSpeed
      [] OTHER -> s
-----------------------------------------------------------------------------
(* Connecting: Arm_j_tar, the speed and the trajectory state are brought   *)
(* in line with the robot before the first poll                            *)

\* Mutant: Arm_j_tar is left as it was found.
ConnectOnly ==
    /\ pc = "connect"
    /\ last_target' = pose
    /\ pc' = "sync_speed"
    /\ UNCHANGED <<pose, target, spd, copyVars, cj, faults, shmVars>>

Connect ==
    /\ pc = "connect"
    /\ last_target' = pose
    /\ pc' = "sync"
    /\ UNCHANGED <<pose, target, spd, copyVars, cj, faults, shmVars>>

SyncTarget ==
    /\ pc = "sync"
    /\ Arm_j_tar' = [Arm_j_tar EXCEPT ![cj] = pose[cj]]
    /\ NextJoint("sync_speed")
    /\ UNCHANGED <<pose, last_target, target, spd, copyVars, faults, trajVars, Arm_Speed_Factor>>

SyncSpeed ==
    /\ pc = "sync_speed"
    /\ Arm_Speed_Factor' = DefaultSpeed
    /\ pc' = "sync_state"
    /\ UNCHANGED <<pose, last_target, target, spd, copyVars, cj, faults, trajVars, Arm_j_tar>>

SyncState ==
    /\ pc = "sync_state"
    /\ pc' = IF trajState \in {ARM_TRAJ_PENDING, ARM_TRAJ_EXECUTING} THEN "poll" ELSE "sync_idle"
    /\ UNCHANGED <<pose, last_target, target, spd, copyVars, cj, faults, shmVars>>

SyncIdle ==
    /\ pc = "sync_idle"
    /\ trajState' = ARM_TRAJ_IDLE
    /\ pc' = "sync_len"
    /\ UNCHANGED <<pose, last_target, target, spd, copyVars, cj, faults, trajLen, trajQ, trajT, tarVars>>

SyncLen ==
    /\ pc = "sync_len"
    /\ trajLen' = 0
    /\ pc' = "poll"
    /\ UNCHANGED <<pose, last_target, target, spd, copyVars, cj, faults, trajState, trajQ, trajT, tarVars>>
-----------------------------------------------------------------------------
(* The poll loop and executeTrajFromShm                                    *)

Poll ==
    /\ pc = "poll"
    /\ pc' = IF trajState = ARM_TRAJ_PENDING THEN "mark" ELSE "target"
    /\ UNCHANGED <<pose, last_target, target, spd, copyVars, cj, faults, shmVars>>

\* Mutant: the state stays PENDING until the copy is made.
MarkLater ==
    /\ pc = "mark"
    /\ pc' = "len"
    /\ UNCHANGED <<pose, last_target, target, spd, copyVars, cj, faults, shmVars>>

Mark ==
    /\ pc = "mark"
    /\ trajState' = ARM_TRAJ_EXECUTING
    /\ pc' = "len"
    /\ UNCHANGED <<pose, last_target, target, spd, copyVars, cj, faults, trajLen, trajQ, trajT, tarVars>>

ReadLen ==
    /\ pc = "len"
    /\ n' = trajLen
    /\ pc' = IF trajLen \in Pts THEN "copy" ELSE "reject"
    /\ UNCHANGED <<pose, last_target, target, spd, wp, tm, ci, cj, faults, shmVars>>

CopyQ ==
    /\ pc = "copy"
    /\ wp' = [wp EXCEPT ![ci][cj] = trajQ[ci][cj]]
    /\ NextJoint("copy_t")
    /\ UNCHANGED <<pose, last_target, target, spd, n, tm, ci, faults, shmVars>>

\* Mutant: the buffer's row is validated instead of the copied one.
CopyTBufferChecked ==
    /\ pc = "copy_t"
    /\ tm' = [tm EXCEPT ![ci] = trajT[ci]]
    /\ IF validateWaypoint(trajQ[ci]) /\ validTime(tm', ci)
       THEN IF ci < n THEN ci' = ci + 1 /\ pc' = "copy"
                      ELSE ci' = ci /\ pc' = "follow"
       ELSE ci' = ci /\ pc' = "reject"
    /\ UNCHANGED <<pose, last_target, target, spd, n, wp, cj, faults, shmVars>>

\* The time is read, then waypoint and time are validated as copied.
CopyT ==
    /\ pc = "copy_t"
    /\ tm' = [tm EXCEPT ![ci] = trajT[ci]]
    /\ IF validateWaypoint(wp[ci]) /\ validTime(tm', ci)
       THEN IF ci < n THEN ci' = ci + 1 /\ pc' = "copy"
                      ELSE ci' = ci /\ pc' = "follow"
       ELSE ci' = ci /\ pc' = "reject"
    /\ UNCHANGED <<pose, last_target, target, spd, n, wp, cj, faults, shmVars>>

\* Mutant: an early return that does not write DONE.
RejectSilently ==
    /\ pc = "reject"
    /\ last_target' = ZeroConfig
    /\ pc' = "reread"
    /\ DropCopy
    /\ UNCHANGED <<pose, target, spd, cj, faults, shmVars>>

\* `return {}`: the caller stores the zeros as its last target.
Reject ==
    /\ pc = "reject"
    /\ trajState' = ARM_TRAJ_DONE
    /\ last_target' = ZeroConfig
    /\ pc' = "reread"
    /\ DropCopy
    /\ UNCHANGED <<pose, target, spd, cj, faults, trajLen, trajQ, trajT, tarVars>>

FollowEnd ==
    /\ pc = "follow"
    /\ pose' = wp[n]
    /\ pc' = "done"
    /\ UNCHANGED <<last_target, target, spd, copyVars, cj, faults, shmVars>>

\* markTrajectoryDone before the exception is rethrown.
Abort ==
    /\ pc = "abort"
    /\ trajState' = ARM_TRAJ_DONE
    /\ pc' = "handler"
    /\ DropCopy
    /\ UNCHANGED <<pose, last_target, target, spd, cj, faults, trajLen, trajQ, trajT, tarVars>>

WriteDone ==
    /\ pc = "done"
    /\ trajState' = ARM_TRAJ_DONE
    /\ pc' = "resync"
    /\ UNCHANGED <<pose, last_target, target, spd, copyVars, cj, faults, trajLen, trajQ, trajT, tarVars>>

Resync ==
    /\ pc = "resync"
    /\ Arm_j_tar' = [Arm_j_tar EXCEPT ![cj] = wp[n][cj]]
    /\ NextJoint("reread")
    /\ IF cj < NJ THEN UNCHANGED <<last_target, copyVars>>
                  ELSE last_target' = wp[n] /\ DropCopy
    /\ UNCHANGED <<pose, target, spd, faults, trajVars, Arm_Speed_Factor>>

Reread ==
    /\ pc = "reread"
    /\ pc' = "poll"
    /\ UNCHANGED <<pose, last_target, target, spd, copyVars, cj, faults, shmVars>>
-----------------------------------------------------------------------------
(* Point-to-point                                                          *)

ReadTarget ==
    /\ pc = "target"
    /\ target' = [target EXCEPT ![cj] = Arm_j_tar[cj]]
    /\ NextJoint(IF isTargetChanged(target', last_target) THEN "speed" ELSE "poll")
    /\ UNCHANGED <<pose, last_target, spd, copyVars, faults, shmVars>>

ReadSpeed ==
    /\ pc = "speed"
    /\ spd' = sanitizeSpeedFactor(Arm_Speed_Factor)
    /\ pc' = "move"
    /\ UNCHANGED <<pose, last_target, target, copyVars, cj, faults, shmVars>>

\* Mutant: after the motion, last_target is what Arm_j_tar holds by then.
MoveEndReload ==
    /\ pc = "move"
    /\ target \in Reachable
    /\ pose' = target
    /\ last_target' = Arm_j_tar
    /\ pc' = "reread"
    /\ UNCHANGED <<target, spd, copyVars, cj, faults, shmVars>>

\* The robot can only arrive where its limits let it.
MoveEnd ==
    /\ pc = "move"
    /\ target \in Reachable
    /\ pose' = target
    /\ last_target' = target
    /\ pc' = "reread"
    /\ UNCHANGED <<target, spd, copyVars, cj, faults, shmVars>>
-----------------------------------------------------------------------------
(* Exceptions: thrown by the connection, by readOnce or by robot.control;  *)
(* the arm stops wherever it got to                                        *)

Unwind ==
    /\ pose' \in (IF pc \in {"move", "follow"} THEN Reachable ELSE {pose})
    /\ pc' = IF pc = "follow" THEN "abort" ELSE "handler"
    /\ UNCHANGED <<last_target, target, spd, copyVars, cj, shmVars>>

RobotFault ==
    /\ pc \in {"connect", "poll", "reread", "follow", "move"}
    /\ faults < MaxFaults
    /\ faults' = faults + 1
    /\ Unwind

\* The robot does not accept a target outside its limits.
MoveRefused ==
    /\ pc = "move"
    /\ target \notin Reachable
    /\ faults' = faults
    /\ Unwind

Handler ==
    /\ pc = "handler"
    /\ trajState' = ARM_TRAJ_DONE
    /\ pc' = "connect"
    /\ UNCHANGED <<pose, last_target, target, spd, copyVars, cj, faults, trajLen, trajQ, trajT, tarVars>>

\* The process dies: the robot stops, the locals are gone, the segments stay.
FrankaReset ==
    /\ pc' = "down"
    /\ pose' \in (IF pc \in {"move", "follow"} THEN Reachable ELSE {pose})
    /\ last_target' = ZeroConfig /\ target' = ZeroConfig /\ spd' = DefaultSpeed
    /\ cj' = 1 /\ DropCopy
    /\ UNCHANGED <<faults, shmVars>>

FrankaStart ==
    /\ pc = "down"
    /\ pc' = "connect"
    /\ UNCHANGED <<pose, last_target, target, spd, copyVars, cj, faults, shmVars>>

Follow == FollowEnd \/ Abort \/ WriteDone \/ Resync

Sync == SyncTarget \/ SyncSpeed \/ SyncState \/ SyncIdle \/ SyncLen

FrankaWork ==
    \/ Connect \/ Sync
    \/ Poll \/ Mark \/ ReadLen \/ CopyQ \/ CopyT \/ Reject \/ Follow \/ Reread
    \/ ReadTarget \/ ReadSpeed \/ MoveEnd \/ MoveRefused
    \/ Handler
=============================================================================
