--------------------------- MODULE ArmSystemProof ---------------------------
(***************************************************************************)
(* Proofs about ArmSystem, for every number of joints and waypoints, every *)
(* set of values and messages, and every bound.                            *)
(***************************************************************************)
EXTENDS ArmInvariants, WellFoundedInduction, SequenceTheorems, TLAPS

USE SizeAssumption, ValAssumption, FarAssumption, SpeedAssumption, MsgAssumption,
    FaultAssumption, CrashAssumption

(***************************************************************************)
(* Decoding                                                                *)
(***************************************************************************)

\* The search for a name in a message stops at the first position it finds.
LEMMA HasLeast ==
  ASSUME NEW S, S \subseteq Nat, S # {}
  PROVE  \E k \in S : \A l \in S : k <= l
<1>1. PICK k \in S : \A l \in S : ~(<<l, k>> \in OpToRel(<, Nat))
  BY NatLessThanWellFounded, WFMin
<1>2. \A l \in S : ~(l < k)
  BY <1>1 DEF OpToRel
<1> QED
  BY <1>2

\* FirstOf, the first position at which a name is found, exists.
LEMMA FirstOfIn ==
  ASSUME NEW S, S \subseteq Nat, S # {}
  PROVE  FirstOf(S) \in S
BY HasLeast DEF FirstOf

\* Decode gives a trajectory that fits the buffer, whatever names and
\* positions the message has.
LEMMA DecodeType ==
  ASSUME NEW m \in TrajMsgs, Len(m.points) \in Pts
  PROVE  Decode(m) \in Traj
<1>1. m \in TrajMsg
  BY DEF MsgAssumption
<1>a. m.points \in Seq([positions : Seq(Val), time : Int])
  BY <1>1 DEF TrajMsg
<1>b. ASSUME NEW i \in Pts, i <= Len(m.points)
      PROVE  m.points[i] \in [positions : Seq(Val), time : Int]
  <2>1. i \in 1 .. Len(m.points)
    BY <1>a, <1>b DEF Pts
  <2> QED
    BY <1>a, <2>1, ElementOfSeq
<1>2. Resolve(m) \in [Joints -> Nat \ {0}]
  <2>1. ASSUME NEW j \in Joints, Named(m, j) # {}
        PROVE  FirstOf(Named(m, j)) \in Nat \ {0}
    <3>1. Named(m, j) \subseteq Nat \ {0}
      BY <1>1 DEF Named, TrajMsg
    <3> QED
      BY <2>1, <3>1, FirstOfIn
  <2> QED
    BY <2>1 DEF Resolve, Joints
<1>3. ASSUME NEW i \in Pts, i <= Len(m.points), NEW j \in Joints
      PROVE  Position(m.points[i], Resolve(m)[j]) \in Val
  BY <1>2, <1>3, <1>b DEF Position, ValAssumption
<1>4. ASSUME NEW i \in Pts, i <= Len(m.points)
      PROVE  m.points[i].time \in Int
  BY <1>4, <1>b
<1> QED
  BY <1>3, <1>4 DEF Decode, Traj, Config, ZeroConfig, ValAssumption

\* The constant configurations and copies have their types.
LEMMA BlankType ==
  /\ ZeroConfig \in Config
  /\ BlankQ \in [Pts -> Config]
  /\ BlankT \in [Pts -> Int]
  /\ NoTraj \in Traj
  /\ 1 \in Pts /\ 1 \in Joints
BY DEF ZeroConfig, BlankQ, BlankT, NoTraj, Traj, Config, Pts, Joints, ValAssumption, SizeAssumption

(***************************************************************************)
(* Types                                                                   *)
(***************************************************************************)

\* A waypoint that passed validation is a configuration the arm can be in.
LEMMA ValidIsReachable ==
  ASSUME NEW q \in Config, validateWaypoint(q)
  PROVE  q \in Reachable
BY DEF validateWaypoint, Reachable

\* The zeroed segments and the fresh processes satisfy the invariant.
LEMMA InitSafety == Init => SafetyInv
<1> SUFFICES ASSUME Init PROVE SafetyInv
  OBVIOUS
<1> USE BlankType DEF Init, ShmInit, BridgeInit, FrankaInit
<1>1. TypeOK
  <2>1. ShmTypeOK
    BY DEF ShmTypeOK, Speed, SizeAssumption, SpeedAssumption
  <2>2. BridgeTypeOK
    BY DEF BridgeTypeOK
  <2>3. FrankaTypeOK
    BY DEF FrankaTypeOK, Label, Connecting, Speed, SizeAssumption, SpeedAssumption
  <2> QED
    BY <2>1, <2>2, <2>3 DEF TypeOK
<1>2. CopyInv /\ StartsOnce /\ CursorInv /\ StillInv
  BY DEF CopyInv, StartsOnce, CursorInv, StillInv, ARM_TRAJ_IDLE, ARM_TRAJ_PENDING
<1> QED
  BY <1>1, <1>2 DEF SafetyInv

\* The handlers of the bridge write what fits the buffer.
LEMMA BridgeTypes ==
  ASSUME TypeOK, BridgeArrival \/ BridgeWork \/ BridgeReset
  PROVE  ShmTypeOK' /\ BridgeTypeOK'
<1> USE BlankType DEF TypeOK, ShmTypeOK, BridgeTypeOK, trajVars, tarVars, shmVars
<1>1. CASE \E m \in TrajMsgs : BeginTrajectory(m)
  BY <1>1, DecodeType DEF BeginTrajectory
<1>2. CASE \E m \in TargetMsgs : BeginTarget(m)
  <2>1. PICK m \in TargetMsgs : BeginTarget(m)
    BY <1>2
  <2>2. [j \in Joints |-> m[j]] \in Config
    BY <2>1, ElementOfSeq DEF BeginTarget, Config, Joints, MsgAssumption
  <2> QED
    BY <2>1, <2>2 DEF BeginTarget
<1>3. CASE \E s \in SpeedMsgs : SetSpeed(s)
  <2>1. PICK s \in SpeedMsgs : SetSpeed(s)
    BY <1>3
  <2>2. ClampSpeed(s) \in Speed
    BY <2>1 DEF ClampSpeed, Speed, MsgAssumption, SpeedAssumption
  <2> QED
    BY <2>1, <2>2 DEF SetSpeed
<1>4. CASE WriteLen
  <2>1. pub.len \in 0 .. MaxPts
    BY DEF Traj, Pts, SizeAssumption
  <2> QED
    BY <1>4, <2>1 DEF WriteLen
<1>5. CASE WriteQ
  <2>1. pub.q[bi][bj] \in Val
    BY DEF Traj, Config
  <2>2. trajQ' \in [Pts -> Config]
    BY <1>5, <2>1 DEF WriteQ, Config
  <2>3. bj' \in Joints
    BY <1>5 DEF WriteQ, Joints, SizeAssumption
  <2> QED
    BY <1>5, <2>2, <2>3 DEF WriteQ
<1>6. CASE WriteT
  <2>1. pub.t[bi] \in Int /\ pub.len \in Pts
    BY DEF Traj
  <2>2. trajT' \in [Pts -> Int]
    BY <1>6, <2>1 DEF WriteT
  <2>3. bi' \in Pts
    BY <1>6, <2>1 DEF WriteT, Pts, SizeAssumption
  <2> QED
    BY <1>6, <2>2, <2>3 DEF WriteT
<1>7. CASE Publish
  BY <1>7 DEF Publish
<1>8. CASE WriteTarget
  BY <1>8 DEF WriteTarget, Config, Joints, SizeAssumption
<1>9. CASE BridgeReset
  BY <1>9 DEF BridgeReset
<1> QED
  BY <1>1, <1>2, <1>3, <1>4, <1>5, <1>6, <1>7, <1>8, <1>9 DEF BridgeArrival, BridgeWork

\* The controller's copies and the pose keep their types; that the arm ends a
\* trajectory where it can be rests on the validation of the copy.
LEMMA FrankaTypes ==
  ASSUME TypeOK, CopyInv, FrankaWork \/ RobotFault \/ FrankaReset \/ FrankaStart
  PROVE  ShmTypeOK' /\ FrankaTypeOK'
<1> USE BlankType DEF TypeOK, ShmTypeOK, FrankaTypeOK, trajVars, tarVars, shmVars, copyVars
<1>a. pose \in Config
  BY DEF Reachable
<1>b. \A l \in Label : NextJoint(l) => cj' \in Joints /\ pc' \in Label
  BY DEF NextJoint, Joints, SizeAssumption
<1>c. ("connect" \in Label /\ "sync" \in Label /\ "sync_speed" \in Label /\ "sync_state" \in Label
       /\ "sync_idle" \in Label /\ "sync_len" \in Label)
      /\ ("mark" \in Label /\ "len" \in Label /\ "copy" \in Label /\ "copy_t" \in Label
       /\ "reject" \in Label /\ "follow" \in Label /\ "abort" \in Label /\ "done" \in Label
       /\ "resync" \in Label)
      /\ ("target" \in Label /\ "speed" \in Label /\ "move" \in Label
       /\ "poll" \in Label /\ "reread" \in Label /\ "handler" \in Label /\ "down" \in Label)
  BY DEF Label, Connecting, Executing, Moving
<1>d. DefaultSpeed \in Speed
  BY DEF Speed, SpeedAssumption
<1>1. CASE Connect
  BY <1>1, <1>a, <1>c DEF Connect
<1>2. CASE SyncTarget
  <2>1. Arm_j_tar' \in Config
    BY <1>2, <1>a DEF SyncTarget, Config
  <2> QED
    BY <1>2, <2>1, <1>b, <1>c DEF SyncTarget
<1>3. CASE SyncSpeed
  BY <1>3, <1>c, <1>d DEF SyncSpeed
<1>4. CASE SyncState
  BY <1>4, <1>c DEF SyncState
<1>5. CASE SyncIdle
  BY <1>5, <1>c DEF SyncIdle
<1>6. CASE SyncLen
  BY <1>6, <1>c DEF SyncLen, SizeAssumption
<1>7. CASE Poll
  BY <1>7, <1>c DEF Poll
<1>8. CASE Mark
  BY <1>8, <1>c DEF Mark
<1>9. CASE ReadLen
  BY <1>9, <1>c DEF ReadLen
<1>10. CASE CopyQ
  <2>1. wp' \in [Pts -> Config]
    BY <1>10 DEF CopyQ, Config
  <2> QED
    BY <1>10, <2>1, <1>b, <1>c DEF CopyQ
<1>11. CASE CopyT
  <2>1. tm' \in [Pts -> Int]
    BY <1>11 DEF CopyT
  <2>2. ci' \in Pts
    BY <1>11 DEF CopyT, Pts, SizeAssumption
  <2> QED
    BY <1>11, <2>1, <2>2, <1>c DEF CopyT
<1>12. CASE Reject
  BY <1>12, <1>c DEF Reject, DropCopy, SizeAssumption
<1>13. CASE FollowEnd
  <2>1. n \in Pts /\ validateWaypoint(wp[n])
    BY <1>13 DEF FollowEnd, CopyInv, ValidRow, Pts, SizeAssumption
  <2>2. wp[n] \in Reachable
    BY <2>1, ValidIsReachable
  <2> QED
    BY <1>13, <2>2, <1>c DEF FollowEnd
<1>14. CASE Abort
  BY <1>14, <1>c DEF Abort, DropCopy, SizeAssumption
<1>15. CASE WriteDone
  BY <1>15, <1>c DEF WriteDone
<1>16. CASE Resync
  <2>1. n \in Pts /\ wp[n] \in Config
    BY <1>16 DEF Resync, CopyInv
  <2>2. Arm_j_tar' \in Config
    BY <1>16, <2>1 DEF Resync, Config
  <2>3. cj' \in Joints /\ pc' \in Label
    BY <1>16, <1>b, <1>c DEF Resync
  <2>4. last_target' \in Config
    BY <1>16, <2>1 DEF Resync
  <2>5. n' \in 0 .. MaxPts /\ wp' \in [Pts -> Config] /\ tm' \in [Pts -> Int] /\ ci' \in Pts
    BY <1>16 DEF Resync, DropCopy, SizeAssumption
  <2>6. UNCHANGED <<pose, target, spd, faults, trajVars, Arm_Speed_Factor>>
    BY <1>16 DEF Resync
  <2> QED
    BY <2>2, <2>3, <2>4, <2>5, <2>6
<1>17. CASE Reread
  BY <1>17, <1>c DEF Reread
<1>18. CASE ReadTarget
  <2>1. target' \in Config
    BY <1>18 DEF ReadTarget, Config
  <2>2. cj' \in Joints /\ pc' \in Label
    BY <1>18, <1>b, <1>c DEF ReadTarget
  <2> QED
    BY <1>18, <2>1, <2>2 DEF ReadTarget
<1>19. CASE ReadSpeed
  <2>1. sanitizeSpeedFactor(Arm_Speed_Factor) \in Speed
    BY DEF sanitizeSpeedFactor, Speed, SpeedAssumption
  <2> QED
    BY <1>19, <2>1, <1>c DEF ReadSpeed
<1>20. CASE MoveEnd
  BY <1>20, <1>c DEF MoveEnd
<1>21. CASE MoveRefused \/ RobotFault
  BY <1>21, <1>c DEF MoveRefused, RobotFault, Unwind
<1>22. CASE Handler
  BY <1>22, <1>c DEF Handler
<1>23. CASE FrankaReset
  BY <1>23, <1>c, <1>d DEF FrankaReset, DropCopy, SizeAssumption
<1>24. CASE FrankaStart
  BY <1>24, <1>c DEF FrankaStart
<1> QED
  BY <1>1, <1>2, <1>3, <1>4, <1>5, <1>6, <1>7, <1>8, <1>9, <1>10, <1>11, <1>12, <1>13, <1>14,
     <1>15, <1>16, <1>17, <1>18, <1>19, <1>20, <1>21, <1>22, <1>23, <1>24
  DEF FrankaWork, Sync, Follow

\* Types, system-wide: the copy's invariant is needed for the pose.
LEMMA TypeStep ==
  ASSUME TypeOK, CopyInv, [Next]_vars
  PROVE  TypeOK'
<1> USE DEF TypeOK
<1>1. ASSUME BridgeArrival \/ BridgeWork \/ BridgeReset, UNCHANGED armVars
      PROVE  ShmTypeOK' /\ BridgeTypeOK' /\ FrankaTypeOK'
  BY <1>1, BridgeTypes DEF armVars, copyVars, FrankaTypeOK
<1>2. ASSUME FrankaWork \/ RobotFault \/ FrankaReset \/ FrankaStart, UNCHANGED bridgeVars
      PROVE  ShmTypeOK' /\ BridgeTypeOK' /\ FrankaTypeOK'
  BY <1>2, FrankaTypes DEF bridgeVars, BridgeTypeOK
<1>3. CASE Arrival
  BY <1>1, <1>3 DEF Arrival, history
<1>4. CASE Bridge
  BY <1>1, <1>4 DEF Bridge, HandOver, TargetWrite, BufferWrite, BridgeWork, BridgeTypeOK, history
<1>5. CASE Arm
  BY <1>2, <1>5 DEF Arm, ArmPickUp, ArmClaimTarget, ArmStep, FrankaWork, Follow, history
<1>6. CASE Fault
  BY <1>2, <1>6 DEF Fault, history
<1>7. CASE RtCrash
  BY <1>2, <1>7 DEF RtCrash, history
<1>8. CASE RtStart
  BY <1>2, <1>8 DEF RtStart, history
<1>9. CASE BridgeCrash
  BY <1>1, <1>9 DEF BridgeCrash, history
<1>10. CASE UNCHANGED vars
  BY <1>10 DEF vars, history, shmVars, trajVars, tarVars, bridgeVars, armVars, copyVars,
               ShmTypeOK, BridgeTypeOK, FrankaTypeOK
<1> QED
  BY <1>3, <1>4, <1>5, <1>6, <1>7, <1>8, <1>9, <1>10 DEF Next

(***************************************************************************)
(* The copy of the trajectory                                              *)
(***************************************************************************)

\* Rows are validated from the copy itself, in the order of the cursor.
LEMMA CopyStep ==
  ASSUME TypeOK, CopyInv, CursorInv, [Next]_vars
  PROVE  CopyInv'
<1> USE DEF TypeOK, FrankaTypeOK, CopyInv
<1>1. CASE UNCHANGED <<pc, n, wp, tm, ci>>
  BY <1>1 DEF ValidRow, validateWaypoint, validTime
<1>2. CASE pc' \notin {"copy", "copy_t", "follow", "done", "resync"}
  BY <1>2
<1>3. CASE ReadLen
  BY <1>3 DEF ReadLen, CursorInv, Pts, SizeAssumption
<1>4. CASE CopyQ
  <2>1. \A i \in 1 .. ci - 1 : ValidRow(i)'
    BY <1>4 DEF CopyQ, ValidRow, validateWaypoint, validTime, Pts
  <2> QED
    BY <1>4, <2>1 DEF CopyQ, NextJoint
<1>5. CASE CopyT
  <2>1. wp' = wp /\ n' = n /\ tm' \in [Pts -> Int]
    BY <1>5 DEF CopyT, ShmTypeOK
  <2>2. \A i \in 1 .. ci - 1 : i \in Pts /\ tm'[i] = tm[i]
    BY <1>5 DEF CopyT, Pts, SizeAssumption
  <2>3. \A i \in 1 .. ci - 1 : ValidRow(i)'
    <3> SUFFICES ASSUME NEW i \in 1 .. ci - 1
                 PROVE  ValidRow(i)'
      OBVIOUS
    <3>1. ValidRow(i)
      BY <1>5 DEF CopyT
    <3>2. i > 1 => i - 1 \in 1 .. ci - 1
      BY DEF Pts
    <3> QED
      BY <2>1, <2>2, <3>1, <3>2 DEF ValidRow, validateWaypoint, validTime
  <2>4. pc' # "reject" => \A i \in {ci} : ValidRow(i)'
    BY <1>5 DEF CopyT, ValidRow, validateWaypoint
  <2>5. pc' # "reject" => \A i \in 1 .. ci : ValidRow(i)'
    BY <2>3, <2>4 DEF Pts
  <2>6. CASE ci < n
    BY <1>5, <2>1, <2>5, <2>6 DEF CopyT, Pts, SizeAssumption
  <2>7. CASE ~(ci < n)
    BY <1>5, <2>1, <2>5, <2>7 DEF CopyT, Pts, SizeAssumption
  <2> QED
    BY <2>6, <2>7
<1>6. CASE FollowEnd \/ WriteDone
  BY <1>6 DEF FollowEnd, WriteDone, copyVars, ValidRow, validateWaypoint, validTime
<1>7. CASE Resync
  <2>1. CASE cj < NJ
    BY <1>7, <2>1 DEF Resync, NextJoint, copyVars, ValidRow, validateWaypoint, validTime
  <2>2. CASE ~(cj < NJ)
    BY <1>7, <2>2 DEF Resync, NextJoint
  <2> QED
    BY <2>1, <2>2
<1>8. [Next]_vars =>
        \/ UNCHANGED <<pc, n, wp, tm, ci>>
        \/ pc' \notin {"copy", "copy_t", "follow", "done", "resync"}
        \/ ReadLen \/ CopyQ \/ CopyT \/ FollowEnd \/ WriteDone \/ Resync
  <2>1. Arrival \/ Bridge \/ BridgeCrash => UNCHANGED <<pc, n, wp, tm, ci>>
    BY DEF Arrival, Bridge, HandOver, TargetWrite, BufferWrite, BridgeCrash, armVars
  <2>2. UNCHANGED vars => UNCHANGED <<pc, n, wp, tm, ci>>
    BY DEF vars, armVars
  <2>3. SyncTarget => pc' \notin {"copy", "copy_t", "follow", "done", "resync"}
    BY DEF SyncTarget, NextJoint
  <2>4. ReadTarget => pc' \notin {"copy", "copy_t", "follow", "done", "resync"}
    BY DEF ReadTarget, NextJoint
  <2>5. Connect \/ SyncSpeed \/ SyncState \/ SyncIdle \/ SyncLen \/ Poll \/ Mark \/ Reject \/ Abort
          \/ Reread \/ ReadSpeed \/ MoveEnd \/ Handler \/ RobotFault \/ MoveRefused
          \/ FrankaReset \/ FrankaStart
        => pc' \notin {"copy", "copy_t", "follow", "done", "resync"}
    BY DEF Connect, SyncSpeed, SyncState, SyncIdle, SyncLen, Poll, Mark, Reject, Abort, Reread,
           ReadSpeed, MoveEnd, Handler, RobotFault, MoveRefused, Unwind, FrankaReset, FrankaStart
  <2> QED
    BY <2>1, <2>2, <2>3, <2>4, <2>5
    DEF Next, Arm, ArmPickUp, ArmClaimTarget, ArmStep, Sync, Fault, RtCrash, RtStart
<1> QED
  BY <1>1, <1>2, <1>3, <1>4, <1>5, <1>6, <1>7, <1>8

(***************************************************************************)
(* Executions and publications                                             *)
(***************************************************************************)

\* PENDING is written with fresh, and both go together when Mark picks up.
LEMMA StartsStep ==
  ASSUME StartsOnce, [Next]_vars
  PROVE  StartsOnce'
<1> USE DEF StartsOnce, ARM_TRAJ_IDLE, ARM_TRAJ_PENDING, ARM_TRAJ_EXECUTING, ARM_TRAJ_DONE
<1>1. CASE Arrival \/ BridgeCrash \/ Fault \/ RtCrash \/ RtStart \/ UNCHANGED vars
  BY <1>1 DEF Arrival, BridgeArrival, BeginTrajectory, BeginTarget, SetSpeed, BridgeCrash, BridgeReset,
              Fault, RobotFault, Unwind, RtCrash, FrankaReset, RtStart, FrankaStart,
              vars, shmVars, trajVars, armVars, history
<1>2. CASE Bridge
  BY <1>2 DEF Bridge, HandOver, Publish, TargetWrite, WriteTarget, BufferWrite, WriteLen, WriteQ,
              WriteT, armVars, trajVars, history
<1>3. CASE ArmPickUp
  BY <1>3 DEF ArmPickUp, Mark
<1>4. CASE ArmClaimTarget
  BY <1>4 DEF ArmClaimTarget, Connect, WriteDone, shmVars, trajVars
<1>5. CASE ArmStep
  <2>1. fresh' = fresh
    BY <1>5 DEF ArmStep, history
  <2>2. CASE Sync
    BY <2>1, <2>2 DEF Sync, SyncTarget, SyncSpeed, SyncState, SyncIdle, SyncLen, NextJoint,
                      shmVars, trajVars
  <2>3. CASE Poll
    BY <2>1, <2>3 DEF Poll, shmVars, trajVars
  <2>4. CASE ReadLen \/ CopyQ \/ CopyT \/ Reject \/ FollowEnd \/ Abort \/ Resync \/ Reread
    BY <2>1, <2>4 DEF ReadLen, CopyQ, CopyT, Reject, FollowEnd, Abort, Resync, Reread, NextJoint,
                      shmVars, trajVars
  <2>5. CASE ReadTarget \/ ReadSpeed \/ MoveEnd \/ MoveRefused \/ Handler
    BY <2>1, <2>5 DEF ReadTarget, ReadSpeed, MoveEnd, MoveRefused, Unwind, Handler, NextJoint,
                      shmVars, trajVars
  <2> QED
    BY <1>5, <2>2, <2>3, <2>4, <2>5 DEF ArmStep
<1> QED
  BY <1>1, <1>2, <1>3, <1>4, <1>5 DEF Next, Arm

(***************************************************************************)
(* Cursors                                                                 *)
(***************************************************************************)

\* Every loop over joints and waypoints leaves its cursor at the start.
LEMMA CursorStep ==
  ASSUME TypeOK, CursorInv, [Next]_vars
  PROVE  CursorInv'
<1> USE DEF CursorInv
<1>1. CASE Arrival \/ Bridge \/ BridgeCrash
  <2>1. UNCHANGED <<pc, cj, ci, wp, tm>>
    BY <1>1 DEF Arrival, Bridge, HandOver, TargetWrite, BufferWrite, BridgeCrash, armVars
  <2>2. CASE Arrival
    BY <2>1, <2>2 DEF Arrival, BridgeArrival, BeginTrajectory, BeginTarget, SetSpeed
  <2>3. CASE Bridge
    BY <2>1, <2>3 DEF Bridge, HandOver, Publish, TargetWrite, WriteTarget, BufferWrite, WriteLen,
                      WriteQ, WriteT, TypeOK, BridgeTypeOK, Traj, Pts, SizeAssumption
  <2>4. CASE BridgeCrash
    BY <2>1, <2>4 DEF BridgeCrash, BridgeReset
  <2> QED
    BY <1>1, <2>2, <2>3, <2>4
<1>2. CASE Arm \/ Fault \/ RtCrash \/ RtStart
  <2>1. UNCHANGED <<bpc, bi, bj, pub>>
    BY <1>2 DEF Arm, ArmPickUp, ArmClaimTarget, ArmStep, Fault, RtCrash, RtStart, bridgeVars
  <2>2. CASE Connect \/ Sync
    BY <2>1, <2>2 DEF Connect, Sync, SyncTarget, SyncSpeed, SyncState, SyncIdle, SyncLen,
                      NextJoint, copyVars
  <2>3. CASE Poll \/ Mark \/ ReadLen \/ CopyQ \/ CopyT
    BY <2>1, <2>3 DEF Poll, Mark, ReadLen, CopyQ, CopyT, NextJoint, copyVars
  <2>4. CASE Reject \/ FollowEnd \/ Abort \/ WriteDone \/ Resync \/ Reread
    BY <2>1, <2>4 DEF Reject, FollowEnd, Abort, WriteDone, Resync, Reread, DropCopy, NextJoint, copyVars
  <2>5. CASE ReadTarget \/ ReadSpeed \/ MoveEnd
    BY <2>1, <2>5 DEF ReadTarget, ReadSpeed, MoveEnd, NextJoint, copyVars
  <2>6. CASE MoveRefused \/ RobotFault \/ Handler \/ FrankaReset \/ FrankaStart
    BY <2>1, <2>6 DEF MoveRefused, RobotFault, Unwind, Handler, FrankaReset, FrankaStart, DropCopy, copyVars
  <2> QED
    BY <1>2, <2>2, <2>3, <2>4, <2>5, <2>6
    DEF Arm, ArmPickUp, ArmClaimTarget, ArmStep, Fault, RtCrash, RtStart
<1>3. CASE UNCHANGED vars
  BY <1>3 DEF vars, armVars, bridgeVars
<1> QED
  BY <1>1, <1>2, <1>3 DEF Next

(***************************************************************************)
(* Standing still                                                          *)
(***************************************************************************)

\* Two configurations that agree in every joint are the same.
LEMMA SameConfig ==
  ASSUME NEW a \in Config, NEW b \in Config, \A j \in Joints : a[j] = b[j]
  PROVE  a = b
BY DEF Config

\* Writing or reading one joint extends the agreement by that joint.
LEMMA OneMoreJoint ==
  ASSUME NEW a \in Config, NEW b \in Config, NEW k \in Joints,
         \A j \in 1 .. k - 1 : a[j] = b[j]
  PROVE  /\ \A j \in 1 .. k : [a EXCEPT ![k] = b[k]][j] = b[j]
         /\ k = NJ => [a EXCEPT ![k] = b[k]] = b
<1>1. \A j \in 1 .. k : [a EXCEPT ![k] = b[k]][j] = b[j]
  BY DEF Config, Joints, SizeAssumption
<1>2. [a EXCEPT ![k] = b[k]] \in Config
  BY DEF Config
<1>3. k = NJ => [a EXCEPT ![k] = b[k]] = b
  BY <1>1, <1>2, SameConfig DEF Joints
<1> QED
  BY <1>1, <1>3

\* While no target is commanded, Arm_j_tar follows the pose and never the other
\* way round.
LEMMA StillStep ==
  ASSUME SafetyInv, [Next]_vars
  PROVE  StillInv'
<1> USE DEF SafetyInv, TypeOK, FrankaTypeOK, ShmTypeOK, StillInv
<1>0. pose \in Config /\ Arm_j_tar \in Config /\ target \in Config /\ cj \in Joints
  BY DEF Reachable
<1>1. CASE UNCHANGED <<pc, pose, last_target, target, n, wp, cj, Arm_j_tar, commanded>>
  BY <1>1
<1>2. CASE TargetWrite
  BY <1>2 DEF TargetWrite, armVars
<1>3. CASE ArmClaimTarget
  <2>1. CASE Connect
    BY <1>3, <2>1 DEF ArmClaimTarget, Connect, CursorInv, shmVars, tarVars
  <2>2. CASE WriteDone
    BY <1>3, <2>2 DEF ArmClaimTarget, WriteDone, CursorInv, copyVars, tarVars
  <2> QED
    BY <1>3, <2>1, <2>2 DEF ArmClaimTarget
<1>4. CASE SyncTarget /\ commanded' = commanded
  <2>1. last_target = pose /\ UNCHANGED <<pose, last_target>>
    BY <1>4 DEF SyncTarget
  <2>2. CASE commanded
    BY <1>4, <2>1, <2>2 DEF SyncTarget, NextJoint
  <2>3. CASE ~commanded
    <3>1. /\ \A j \in 1 .. cj : Arm_j_tar'[j] = pose[j]
          /\ cj = NJ => Arm_j_tar' = pose
      <4>1. Arm_j_tar' = [Arm_j_tar EXCEPT ![cj] = pose[cj]]
        BY <1>4 DEF SyncTarget
      <4>2. \A j \in 1 .. cj - 1 : Arm_j_tar[j] = pose[j]
        BY <1>4, <2>3 DEF SyncTarget
      <4> HIDE DEF SafetyInv, TypeOK, FrankaTypeOK, ShmTypeOK, StillInv
      <4> QED
        BY <4>1, <4>2, <1>0, OneMoreJoint
    <3>2. CASE cj < NJ
      BY <1>4, <2>1, <2>3, <3>1, <3>2 DEF SyncTarget, NextJoint, Joints, SizeAssumption
    <3>3. CASE ~(cj < NJ)
      BY <1>4, <2>1, <2>3, <3>1, <3>3 DEF SyncTarget, NextJoint, Joints, SizeAssumption
    <3> QED
      BY <3>2, <3>3
  <2> QED
    BY <2>2, <2>3
<1>5. CASE Resync /\ commanded' = commanded
  <2>1. pose = wp[n] /\ pose' = pose
    BY <1>5 DEF Resync
  <2>2. CASE commanded
    BY <1>5, <2>1, <2>2 DEF Resync, NextJoint, copyVars
  <2>3. CASE ~commanded
    <3>1. /\ \A j \in 1 .. cj : Arm_j_tar'[j] = pose[j]
          /\ cj = NJ => Arm_j_tar' = pose
      <4>1. Arm_j_tar' = [Arm_j_tar EXCEPT ![cj] = pose[cj]]
        BY <1>5, <2>1 DEF Resync
      <4>2. \A j \in 1 .. cj - 1 : Arm_j_tar[j] = pose[j]
        BY <1>5, <2>3 DEF Resync
      <4> HIDE DEF SafetyInv, TypeOK, FrankaTypeOK, ShmTypeOK, StillInv
      <4> QED
        BY <4>1, <4>2, <1>0, OneMoreJoint
    <3>2. CASE cj < NJ
      BY <1>5, <2>1, <2>3, <3>1, <3>2 DEF Resync, NextJoint, copyVars, Joints, SizeAssumption
    <3>3. CASE ~(cj < NJ)
      BY <1>5, <2>1, <2>3, <3>1, <3>3 DEF Resync, NextJoint, Joints, SizeAssumption
    <3> QED
      BY <3>2, <3>3
  <2> QED
    BY <2>2, <2>3
<1>6. CASE ReadTarget /\ commanded' = commanded
  <2>1. UNCHANGED <<pose, Arm_j_tar>>
    BY <1>6 DEF ReadTarget, shmVars, tarVars
  <2>2. CASE commanded
    BY <1>6, <2>1, <2>2 DEF ReadTarget, NextJoint
  <2>3. CASE ~commanded
    <3>1. /\ \A j \in 1 .. cj : target'[j] = pose[j]
          /\ cj = NJ => target' = pose
      BY <1>6, <2>3, <1>0, OneMoreJoint DEF ReadTarget
    <3> QED
      <4>1. CASE cj < NJ
        BY <1>6, <2>1, <2>3, <3>1, <4>1 DEF ReadTarget, NextJoint, Joints
      <4>2. CASE ~(cj < NJ)
        <5>1. pc' \in {"speed", "poll"}
          BY <1>6, <4>2 DEF ReadTarget, NextJoint
        <5> QED
          BY <1>6, <2>1, <2>3, <3>1, <4>2, <5>1 DEF ReadTarget, Joints, SizeAssumption
      <4> QED
        BY <4>1, <4>2
  <2> QED
    BY <2>2, <2>3
<1>7. CASE (SyncSpeed \/ SyncState \/ SyncIdle \/ SyncLen) /\ commanded' = commanded
  BY <1>7 DEF SyncSpeed, SyncState, SyncIdle, SyncLen, shmVars, tarVars
<1>8. CASE (Poll \/ Mark \/ ReadLen \/ CopyQ \/ CopyT \/ Reject \/ Reread) /\ commanded' = commanded
  BY <1>8 DEF Poll, Mark, ReadLen, CopyQ, CopyT, Reject, Reread, NextJoint, CursorInv, shmVars, tarVars
<1>9. CASE (FollowEnd \/ Abort \/ Handler) /\ commanded' = commanded
  BY <1>9 DEF FollowEnd, Abort, Handler, copyVars
<1>10. CASE (ReadSpeed \/ MoveEnd) /\ commanded' = commanded
  BY <1>10 DEF ReadSpeed, MoveEnd, shmVars, tarVars
<1>11. CASE (MoveRefused \/ RobotFault \/ FrankaReset \/ FrankaStart) /\ commanded' = commanded
  BY <1>11 DEF MoveRefused, RobotFault, Unwind, FrankaReset, FrankaStart
<1>12. Arrival \/ HandOver \/ BufferWrite \/ BridgeCrash \/ UNCHANGED vars
         => UNCHANGED <<pc, pose, last_target, target, n, wp, cj, Arm_j_tar, commanded>>
  BY DEF Arrival, BridgeArrival, BeginTrajectory, BeginTarget, SetSpeed, HandOver, Publish,
         BufferWrite, WriteLen, WriteQ, WriteT, BridgeCrash, BridgeReset, vars, shmVars, tarVars,
         armVars, history
<1> QED
  BY <1>1, <1>2, <1>3, <1>4, <1>5, <1>6, <1>7, <1>8, <1>9, <1>10, <1>11, <1>12
  DEF Next, Bridge, Arm, ArmPickUp, ArmStep, Sync, Fault, RtCrash, RtStart, history

(***************************************************************************)
(* Theorems                                                                *)
(***************************************************************************)

\* The five parts hold together from one step to the next.
LEMMA SafetyStep == SafetyInv /\ [Next]_vars => SafetyInv'
BY TypeStep, CopyStep, StartsStep, CursorStep, StillStep DEF SafetyInv

\* The inductive invariant of controller and bridge.
THEOREM Safety == Spec => []SafetyInv
BY InitSafety, SafetyStep, PTL DEF Spec

\* Every value the two processes and the shared words hold has its type.
THEOREM TypeCorrect == Spec => []TypeOK
<1>1. SafetyInv => TypeOK
  BY DEF SafetyInv
<1> QED
  BY Safety, <1>1, PTL

\* Whatever the bridge does to the buffer meanwhile, the robot follows only
\* waypoints within the joint limits at times that increase from 0.
THEOREM FollowedIsValid == Spec => []FollowedIsValidated
<1>1. SafetyInv => FollowedIsValidated
  BY DEF SafetyInv, CopyInv, FollowedIsValidated, ValidRow
<1> QED
  BY Safety, <1>1, PTL

\* No publication is executed twice, across exceptions and restarts.
THEOREM NoSecondStart == Spec => []StartsOnce
<1>1. SafetyInv => StartsOnce
  BY DEF SafetyInv
<1> QED
  BY Safety, <1>1, PTL

\* Point-to-point mode never moves an arm that nobody commanded.
THEOREM StaysStill == Spec => []NoSpontaneousMove
<1>1. SafetyInv => NoSpontaneousMove
  <2> SUFFICES ASSUME SafetyInv, pc = "move", ~commanded
               PROVE  ~isTargetChanged(target, pose)
    BY DEF NoSpontaneousMove
  <2>1. target = pose /\ \A j \in Joints : target[j] \in Val
    BY DEF SafetyInv, TypeOK, FrankaTypeOK, StillInv, Config
  <2> QED
    BY <2>1 DEF isTargetChanged, FarAssumption
<1> QED
  BY Safety, <1>1, PTL

\* The speed given to the motion generator is within its range, whatever a
\* speed message holds: NaN passes the bridge, and the controller's test stops it.
THEOREM SpeedKept == Spec => []SpeedInRange
<1>1. Init => SpeedInRange
  BY DEF Init, FrankaInit, SpeedInRange
<1>2. SpeedInRange /\ TypeOK /\ [Next]_vars => SpeedInRange'
  <2> SUFFICES ASSUME SpeedInRange, TypeOK, [Next]_vars
               PROVE  SpeedInRange'
    OBVIOUS
  <2>1. CASE ReadSpeed
    <3>1. spd' = sanitizeSpeedFactor(Arm_Speed_Factor) /\ Arm_Speed_Factor \in Speed
      BY <2>1 DEF ReadSpeed, TypeOK, ShmTypeOK
    <3> QED
      BY <3>1 DEF sanitizeSpeedFactor, Speed, SpeedInRange, SpeedAssumption
  <2>2. CASE pc' # "move"
    BY <2>2 DEF SpeedInRange
  <2>3. CASE UNCHANGED <<pc, spd>>
    BY <2>3 DEF SpeedInRange
  <2>4. [Next]_vars => ReadSpeed \/ pc' # "move" \/ UNCHANGED <<pc, spd>>
    <3>1. Connect \/ Sync \/ Poll \/ Mark \/ ReadLen \/ CopyQ \/ CopyT \/ Reject => pc' # "move"
      BY DEF Connect, Sync, SyncTarget, SyncSpeed, SyncState, SyncIdle, SyncLen, Poll, Mark, ReadLen,
             CopyQ, CopyT, Reject, NextJoint
    <3>2. FollowEnd \/ Abort \/ WriteDone \/ Resync \/ Reread \/ ReadTarget \/ MoveEnd => pc' # "move"
      BY DEF FollowEnd, Abort, WriteDone, Resync, Reread, ReadTarget, MoveEnd, NextJoint
    <3>3. RobotFault \/ MoveRefused \/ Handler \/ FrankaReset \/ FrankaStart => pc' # "move"
      BY DEF RobotFault, MoveRefused, Unwind, Handler, FrankaReset, FrankaStart
    <3> QED
      BY <3>1, <3>2, <3>3
      DEF Next, Arrival, Bridge, HandOver, TargetWrite, BufferWrite, BridgeCrash, Arm, ArmPickUp,
          ArmClaimTarget, ArmStep, Fault, RtCrash, RtStart, vars, armVars
  <2> QED
    BY <2>1, <2>2, <2>3, <2>4
<1> QED
  BY <1>1, <1>2, TypeCorrect, PTL DEF Spec

-----------------------------------------------------------------------------
(***************************************************************************)
(* When publishers send one trajectory at a time, the robot follows what   *)
(* was posted, and the buffer implements the one-slot mailbox.             *)
(***************************************************************************)


(***************************************************************************)
(* Who owns the buffer                                                     *)
(***************************************************************************)

\* The state word keeps the bridge out of the buffer while the controller has
\* it, because messages come only in IDLE or DONE.
LEMMA OwnerStep ==
  ASSUME OneAtATime, OwnerInv, [Next]_vars
  PROVE  OwnerInv'
<1> USE DEF OwnerInv, Writing, Executing, ARM_TRAJ_IDLE, ARM_TRAJ_PENDING, ARM_TRAJ_EXECUTING,
            ARM_TRAJ_DONE
<1>1. CASE Arrival
  BY <1>1 DEF Arrival, BridgeArrival, BeginTrajectory, BeginTarget, SetSpeed, shmVars, trajVars, armVars
<1>2. CASE Bridge
  BY <1>2 DEF Bridge, HandOver, Publish, TargetWrite, WriteTarget, BufferWrite, WriteLen, WriteQ,
              WriteT, armVars, trajVars
<1>3. CASE Arm \/ Fault \/ RtCrash \/ RtStart
  <2>1. bpc' = bpc
    BY <1>3 DEF Arm, ArmPickUp, ArmClaimTarget, ArmStep, Fault, RtCrash, RtStart, bridgeVars
  <2>2. CASE Connect \/ Sync
    BY <2>1, <2>2 DEF Connect, Sync, SyncTarget, SyncSpeed, SyncState, SyncIdle, SyncLen, NextJoint,
                      shmVars, trajVars
  <2>3. CASE Poll \/ Mark
    BY <2>1, <2>3 DEF Poll, Mark, shmVars, trajVars
  <2>4. CASE ReadLen \/ CopyQ \/ CopyT \/ FollowEnd \/ Reread
    BY <2>1, <2>4 DEF ReadLen, CopyQ, CopyT, FollowEnd, Reread, NextJoint, shmVars, trajVars
  <2>5. CASE Reject \/ Abort \/ WriteDone \/ Resync \/ Handler
    BY <2>1, <2>5 DEF Reject, Abort, WriteDone, Resync, Handler, NextJoint, trajVars
  <2>6. CASE ReadTarget \/ ReadSpeed \/ MoveEnd
    BY <2>1, <2>6 DEF ReadTarget, ReadSpeed, MoveEnd, NextJoint, shmVars, trajVars
  <2>7. CASE MoveRefused \/ RobotFault \/ FrankaReset \/ FrankaStart
    BY <2>1, <2>7 DEF MoveRefused, RobotFault, Unwind, FrankaReset, FrankaStart, shmVars, trajVars
  <2> QED
    BY <1>3, <2>2, <2>3, <2>4, <2>5, <2>6, <2>7
    DEF Arm, ArmPickUp, ArmClaimTarget, ArmStep, Fault, RtCrash, RtStart
<1>4. CASE BridgeCrash
  BY <1>4 DEF BridgeCrash, BridgeReset, armVars, shmVars, trajVars
<1>5. CASE UNCHANGED vars
  BY <1>5 DEF vars, bridgeVars, armVars, shmVars, trajVars
<1> QED
  BY <1>1, <1>2, <1>3, <1>4, <1>5 DEF Next

\* While the bridge writes, nothing is pending and the controller is nowhere
\* between picking a trajectory up and being done with it.
LEMMA WriterAlone ==
  ASSUME OwnerInv, Writing
  PROVE  /\ trajState # ARM_TRAJ_PENDING
         /\ pc \notin {"mark", "len", "copy", "copy_t", "reject", "follow", "abort", "done"}
BY DEF OwnerInv, Executing, ARM_TRAJ_IDLE, ARM_TRAJ_PENDING, ARM_TRAJ_EXECUTING, ARM_TRAJ_DONE

(***************************************************************************)
(* What is in the buffer                                                   *)
(***************************************************************************)

\* A decoded message has nothing behind its last waypoint.
LEMMA DecodeBlank ==
  ASSUME NEW m \in TrajMsgs, Len(m.points) \in Pts
  PROVE  BlankAfter(Decode(m))
BY DEF BlankAfter, Decode, Pts

\* The same for the trajectory that stands for none.
LEMMA NoTrajBlank == BlankAfter(NoTraj)
BY DEF BlankAfter, NoTraj, BlankQ, BlankT, Pts

\* The cursors of the bridge and the length it writes, as numbers.
LEMMA BridgeCursors ==
  ASSUME BridgeTypeOK
  PROVE  /\ NJ \in Nat /\ bj \in 1 .. NJ
         /\ MaxPts \in Nat /\ bi \in 1 .. MaxPts
         /\ pub.len \in 1 .. MaxPts
         /\ \A i \in 1 .. bi : i \in Pts
BY DEF BridgeTypeOK, Traj, Pts, Joints, SizeAssumption

\* The bridge writes row after row, each joint by joint.
LEMMA BufferBridgeStep ==
  ASSUME OneAtATime, TypeOK, CursorInv, OwnerInv, BufferInv, Arrival \/ Bridge \/ BridgeCrash
  PROVE  BufferInv'
<1> USE DEF TypeOK, BridgeTypeOK, ShmTypeOK, BufferInv
<1>1. CASE Arrival
  <2>1. CASE \E m \in TrajMsgs : BeginTrajectory(m)
    BY <1>1, <2>1, DecodeBlank
    DEF Arrival, BeginTrajectory, shmVars, trajVars, armVars, history, LenOf, RowsOf, BlankAfter
  <2>2. CASE \E m \in TargetMsgs : BeginTarget(m)
    BY <1>1, <2>2
    DEF Arrival, BeginTarget, shmVars, trajVars, armVars, history, LenOf, RowsOf, BlankAfter
  <2>3. CASE \E s \in SpeedMsgs : SetSpeed(s)
    BY <1>1, <2>3 DEF Arrival, SetSpeed, trajVars, armVars, history, LenOf, RowsOf, BlankAfter
  <2> QED
    BY <1>1, <2>1, <2>2, <2>3 DEF Arrival, BridgeArrival
<1>2. CASE BufferWrite /\ WriteLen
  <2>1. UNCHANGED <<pub, posted, bi, bj, trajQ, trajT, trajState, pc>>
    BY <1>2 DEF BufferWrite, WriteLen, history, armVars
  <2>2. bpc' = "q" /\ bi = 1 /\ bj = 1 /\ trajLen' = pub.len
    BY <1>2 DEF WriteLen, CursorInv
  <2>3. trajState # ARM_TRAJ_PENDING /\ pc \notin {"len", "copy", "copy_t"}
    BY <1>2, WriterAlone DEF Writing, WriteLen
  <2> QED
    BY <2>1, <2>2, <2>3 DEF LenOf, RowsOf, BlankAfter
<1>3. CASE BufferWrite /\ WriteQ
  <2>1. UNCHANGED <<pub, posted, bi, trajLen, trajT, trajState, pc>>
    BY <1>3 DEF BufferWrite, WriteQ, history, armVars
  <2>2. trajState # ARM_TRAJ_PENDING /\ pc \notin {"len", "copy", "copy_t"}
    BY <1>3, WriterAlone DEF Writing, WriteQ
  <2>3. pub.q[bi] \in Config /\ trajQ[bi] \in Config
    BY DEF Traj
  <2>4. trajQ' = [trajQ EXCEPT ![bi] = [trajQ[bi] EXCEPT ![bj] = pub.q[bi][bj]]]
    BY <1>3 DEF WriteQ
  <2>5. /\ \A j \in 1 .. bj : trajQ'[bi][j] = pub.q[bi][j]
        /\ bj = NJ => trajQ'[bi] = pub.q[bi]
    <3>1. \A j \in 1 .. bj - 1 : trajQ[bi][j] = pub.q[bi][j]
      BY <1>3 DEF WriteQ
    <3>2. trajQ'[bi] = [trajQ[bi] EXCEPT ![bj] = pub.q[bi][bj]]
      BY <2>4
    <3> HIDE DEF BufferInv, ShmTypeOK
    <3> HIDE ValAssumption, FarAssumption, SpeedAssumption, MsgAssumption, FaultAssumption, CrashAssumption
    <3> QED
      BY <2>3, <3>1, <3>2, OneMoreJoint
  <2>6. RowsOf(pub, bi - 1)'
    BY <1>3, <2>1, <2>4 DEF WriteQ, RowsOf, Pts, SizeAssumption
  <2>7. LenOf(pub)'
    BY <1>3, <2>1 DEF WriteQ, LenOf
  <2>10. bj \in 1 .. NJ /\ NJ \in Nat
    BY BridgeCursors
  <2>8. CASE bj < NJ
    <3>1. bpc' = "q" /\ bj' = bj + 1
      BY <1>3, <2>8 DEF WriteQ
    <3> QED
      BY <2>1, <2>2, <2>5, <2>6, <2>7, <3>1 DEF BlankAfter, Joints, RowsOf
  <2>9. CASE ~(bj < NJ)
    <3>1. bpc' = "t" /\ bj = NJ
      BY <1>3, <2>9, <2>10 DEF WriteQ
    <3> QED
      BY <2>1, <2>2, <2>5, <2>6, <2>7, <3>1 DEF BlankAfter, RowsOf
  <2> QED
    BY <2>8, <2>9
<1>4. CASE BufferWrite /\ WriteT
  <2>1. UNCHANGED <<pub, posted, bj, trajLen, trajQ, trajState, pc>>
    BY <1>4 DEF BufferWrite, WriteT, history, armVars
  <2>2. trajState # ARM_TRAJ_PENDING /\ pc \notin {"len", "copy", "copy_t"}
    BY <1>4, WriterAlone DEF Writing, WriteT
  <2>3. RowsOf(pub, bi - 1) /\ trajQ[bi] = pub.q[bi] /\ LenOf(pub) /\ bi <= pub.len /\ bj = 1
    BY <1>4 DEF WriteT, CursorInv
  <2>4. trajT' = [trajT EXCEPT ![bi] = pub.t[bi]]
    BY <1>4 DEF WriteT
  <2>5. bi \in Nat \ {0} /\ pub.len \in Nat
    BY DEF Pts, Traj, SizeAssumption
  <2>6. \A i \in 1 .. bi : trajQ'[i] = pub.q[i] /\ trajT'[i] = pub.t[i]
    <3>1. \A i \in 1 .. bi : i \in Pts
      BY BridgeCursors
    <3> QED
      BY <2>1, <2>3, <2>4, <2>5, <3>1 DEF RowsOf
  <2>7. LenOf(pub)'
    BY <2>1, <2>3 DEF LenOf
  <2>8. CASE bi < pub.len
    <3>1. bpc' = "q" /\ bi' = bi + 1
      BY <1>4, <2>8 DEF WriteT
    <3> QED
      BY <2>1, <2>2, <2>3, <2>5, <2>6, <2>7, <3>1 DEF BlankAfter, RowsOf
  <2>9. CASE ~(bi < pub.len)
    <3>1. bpc' = "publish" /\ bi = pub.len
      BY <1>4, <2>9, <2>3, <2>5 DEF WriteT
    <3> QED
      BY <2>1, <2>2, <2>6, <2>7, <3>1 DEF BlankAfter, RowsOf
  <2> QED
    BY <2>8, <2>9
<1>5. CASE HandOver
  <2>1. posted' = pub /\ pub' = NoTraj /\ bpc' = "idle"
    BY <1>5 DEF HandOver, Publish
  <2>2. BlankAfter(pub)' /\ BlankAfter(posted)'
    BY <2>1, NoTrajBlank DEF BlankAfter
  <2>3. LenOf(posted)' /\ RowsOf(posted, posted.len)'
    BY <1>5, <2>1 DEF HandOver, Publish, LenOf, RowsOf
  <2> QED
    BY <2>1, <2>2, <2>3
<1>6. CASE TargetWrite
  <2>1. UNCHANGED <<pub, posted, trajVars, pc>> /\ bpc \notin {"q", "t", "publish"}
        /\ bpc' \notin {"q", "t", "publish"}
    BY <1>6 DEF TargetWrite, WriteTarget, armVars
  <2> QED
    BY <2>1 DEF trajVars, LenOf, RowsOf, BlankAfter
<1>7. CASE BridgeCrash
  <2>1. UNCHANGED <<posted, trajVars, pc>> /\ bpc' = "idle" /\ pub' = NoTraj
    BY <1>7 DEF BridgeCrash, BridgeReset, shmVars, history, armVars
  <2> QED
    BY <2>1, NoTrajBlank DEF trajVars, LenOf, RowsOf, BlankAfter
<1> QED
  BY <1>1, <1>2, <1>3, <1>4, <1>5, <1>6, <1>7 DEF Bridge, BufferWrite

\* The controller writes nothing into the rows, and of the length only 0.
LEMMA ArmLeavesRows ==
  ASSUME Arm \/ Fault \/ RtCrash \/ RtStart
  PROVE  /\ UNCHANGED <<bpc, pub, bi, bj, posted, trajQ, trajT>>
         /\ trajLen' \in {trajLen, 0}
<1>1. UNCHANGED <<bpc, pub, bi, bj, posted>>
  BY DEF Arm, ArmPickUp, ArmClaimTarget, ArmStep, Fault, RtCrash, RtStart, bridgeVars, history
<1>2. CASE Connect \/ Sync \/ Poll \/ Mark \/ ReadLen \/ CopyQ \/ CopyT \/ Reject
  BY <1>1, <1>2 DEF Connect, Sync, SyncTarget, SyncSpeed, SyncState, SyncIdle, SyncLen, Poll, Mark,
                    ReadLen, CopyQ, CopyT, Reject, shmVars, trajVars
<1>3. CASE FollowEnd \/ Abort \/ WriteDone \/ Resync \/ Reread \/ ReadTarget \/ ReadSpeed \/ MoveEnd
  BY <1>1, <1>3 DEF FollowEnd, Abort, WriteDone, Resync, Reread, ReadTarget, ReadSpeed, MoveEnd,
                    shmVars, trajVars
<1>4. CASE MoveRefused \/ RobotFault \/ Handler \/ FrankaReset \/ FrankaStart
  BY <1>1, <1>4 DEF MoveRefused, RobotFault, Unwind, Handler, FrankaReset, FrankaStart, shmVars, trajVars
<1> QED
  BY <1>2, <1>3, <1>4 DEF Arm, ArmPickUp, ArmClaimTarget, ArmStep, Fault, RtCrash, RtStart

\* The controller reads the buffer only once it has found it pending.
LEMMA ReadsPending ==
  ASSUME OwnerInv, Arm \/ Fault \/ RtCrash \/ RtStart,
         trajState' = ARM_TRAJ_PENDING \/ pc' \in {"len", "copy", "copy_t"}
  PROVE  trajState = ARM_TRAJ_PENDING \/ pc \in {"len", "copy", "copy_t"}
<1> USE DEF ARM_TRAJ_IDLE, ARM_TRAJ_PENDING, ARM_TRAJ_EXECUTING, ARM_TRAJ_DONE
<1>1. CASE Connect \/ Sync \/ Poll
  BY <1>1 DEF Connect, Sync, SyncTarget, SyncSpeed, SyncState, SyncIdle, SyncLen, Poll, NextJoint,
              shmVars, trajVars
<1>2. CASE Mark
  BY <1>2 DEF Mark, OwnerInv
<1>3. CASE ReadLen \/ CopyQ \/ CopyT
  BY <1>3 DEF ReadLen, CopyQ, CopyT
<1>4. CASE Reject \/ FollowEnd \/ Abort \/ WriteDone \/ Resync \/ Reread
  BY <1>4 DEF Reject, FollowEnd, Abort, WriteDone, Resync, Reread, NextJoint, shmVars, trajVars
<1>5. CASE ReadTarget \/ ReadSpeed \/ MoveEnd
  BY <1>5 DEF ReadTarget, ReadSpeed, MoveEnd, NextJoint, shmVars, trajVars
<1>6. CASE MoveRefused \/ RobotFault \/ Handler \/ FrankaReset \/ FrankaStart
  BY <1>6 DEF MoveRefused, RobotFault, Unwind, Handler, FrankaReset, FrankaStart, shmVars, trajVars
<1> QED
  BY <1>1, <1>2, <1>3, <1>4, <1>5, <1>6
  DEF Arm, ArmPickUp, ArmClaimTarget, ArmStep, Fault, RtCrash, RtStart

\* What is in the buffer stays what the bridge says it is.
LEMMA BufferStep ==
  ASSUME OneAtATime, TypeOK, CursorInv, OwnerInv, BufferInv, [Next]_vars
  PROVE  BufferInv'
<1>1. CASE Arm \/ Fault \/ RtCrash \/ RtStart
  <2>1. /\ UNCHANGED <<bpc, pub, bi, bj, posted, trajQ, trajT>>
        /\ trajLen' \in {trajLen, 0}
    BY <1>1, ArmLeavesRows
  <2>2. trajState' = ARM_TRAJ_PENDING \/ pc' \in {"len", "copy", "copy_t"}
          => trajState = ARM_TRAJ_PENDING \/ pc \in {"len", "copy", "copy_t"}
    BY <1>1, ReadsPending
  <2> QED
    BY <2>1, <2>2 DEF BufferInv, LenOf, RowsOf, BlankAfter
<1>2. CASE UNCHANGED vars
  BY <1>2 DEF vars, bridgeVars, armVars, shmVars, trajVars, history, BufferInv, LenOf, RowsOf, BlankAfter
<1> QED
  BY <1>1, <1>2, BufferBridgeStep DEF Next

(***************************************************************************)
(* What the controller has read                                            *)
(***************************************************************************)

\* The bridge leaves the copy alone, and publishes nothing while it is made.
LEMMA CopyUndisturbed ==
  ASSUME OwnerInv, Arrival \/ Bridge \/ BridgeCrash \/ UNCHANGED vars
  PROVE  /\ UNCHANGED <<pc, n, wp, tm, ci, cj>>
         /\ pc \in {"len", "copy", "copy_t", "follow"} => posted' = posted
<1>1. UNCHANGED <<pc, n, wp, tm, ci, cj>>
  BY DEF Arrival, Bridge, HandOver, TargetWrite, BufferWrite, BridgeCrash, vars, armVars
<1>2. HandOver => pc \notin {"len", "copy", "copy_t", "follow"}
  BY WriterAlone DEF HandOver, Publish, Writing
<1>3. ~HandOver => posted' = posted
  BY DEF Arrival, Bridge, TargetWrite, BufferWrite, BridgeCrash, vars, history
<1> QED
  BY <1>1, <1>2, <1>3

\* The copy agrees with what was posted, as far as the cursor has come.
LEMMA ReadStep ==
  ASSUME TypeOK, CopyInv, CursorInv, OwnerInv, BufferInv, ReadInv, [Next]_vars
  PROVE  ReadInv'
<1>1. CASE Arrival \/ Bridge \/ BridgeCrash \/ UNCHANGED vars
  BY <1>1, CopyUndisturbed DEF ReadInv
<1>2. CASE pc' \notin {"copy", "copy_t"}
  BY <1>2 DEF ReadInv
<1>3. CASE ArmStep /\ ReadLen /\ pc' = "copy"
  <2>1. posted' = posted /\ UNCHANGED <<wp, tm, ci, cj>> /\ n' = trajLen /\ trajLen \in Pts
    BY <1>3 DEF ArmStep, ReadLen, history
  <2>2. ci = 1 /\ cj = 1 /\ wp = BlankQ /\ tm = BlankT
    BY <1>3 DEF ReadLen, CursorInv
  <2>3. trajLen = posted.len
    BY <1>3, <2>1 DEF ReadLen, BufferInv, LenOf, Pts
  <2> QED
    BY <1>3, <2>1, <2>2, <2>3 DEF ReadInv, BlankQ, BlankT, Pts
<1>4. CASE ArmStep /\ CopyQ
  <2>1. UNCHANGED <<posted, n, tm, ci>> /\ pc = "copy"
    BY <1>4 DEF ArmStep, CopyQ, history
  <2>2. wp' = [wp EXCEPT ![ci] = [wp[ci] EXCEPT ![cj] = posted.q[ci][cj]]]
    <3>1. ci \in 1 .. posted.len /\ RowsOf(posted, posted.len)
      BY <2>1 DEF ReadInv, BufferInv, CopyInv, TypeOK, FrankaTypeOK, Pts
    <3> QED
      BY <1>4, <3>1 DEF CopyQ, RowsOf
  <2>3. /\ wp[ci] \in Config /\ posted.q[ci] \in Config /\ cj \in Joints /\ ci \in Pts
        /\ wp \in [Pts -> Config] /\ cj \in 1 .. NJ /\ NJ \in Nat /\ ci \in Nat
    BY DEF TypeOK, FrankaTypeOK, Traj, Joints, Pts
  <2>4. /\ \A j \in 1 .. cj : wp'[ci][j] = posted.q[ci][j]
        /\ cj = NJ => wp'[ci] = posted.q[ci]
    <3>1. \A j \in 1 .. cj - 1 : wp[ci][j] = posted.q[ci][j]
      BY <2>1 DEF ReadInv
    <3>2. wp'[ci] = [wp[ci] EXCEPT ![cj] = posted.q[ci][cj]]
      BY <2>2, <2>3
    <3> HIDE ValAssumption, FarAssumption, SpeedAssumption, MsgAssumption, FaultAssumption, CrashAssumption
    <3> QED
      BY <2>3, <3>1, <3>2, OneMoreJoint
  <2>5. /\ n = posted.len
        /\ \A i \in 1 .. ci - 1 : wp'[i] = posted.q[i] /\ tm'[i] = posted.t[i]
        /\ \A i \in Pts : (i > ci => wp'[i] = ZeroConfig) /\ (i >= ci => tm'[i] = 0)
    BY <2>1, <2>2, <2>3 DEF ReadInv, Pts
  <2>6. CASE cj < NJ
    <3>1. pc' = "copy" /\ cj' = cj + 1
      BY <1>4, <2>1, <2>6 DEF CopyQ, NextJoint
    <3> QED
      BY <2>1, <2>3, <2>4, <2>5, <3>1 DEF ReadInv
  <2>7. CASE ~(cj < NJ)
    <3>1. pc' = "copy_t" /\ cj = NJ
      BY <1>4, <2>3, <2>7 DEF CopyQ, NextJoint
    <3> QED
      BY <2>1, <2>4, <2>5, <3>1 DEF ReadInv
  <2> QED
    BY <2>6, <2>7
<1>5. CASE ArmStep /\ CopyT
  <2>1. UNCHANGED <<posted, n, wp, cj>> /\ pc = "copy_t" /\ cj = 1
    BY <1>5 DEF ArmStep, CopyT, CursorInv, history
  <2>2. /\ ci \in 1 .. posted.len /\ n = posted.len /\ posted.len \in Nat /\ ci \in Pts
        /\ RowsOf(posted, posted.len) /\ wp[ci] = posted.q[ci]
    BY <2>1 DEF ReadInv, BufferInv, CopyInv, TypeOK, FrankaTypeOK, Pts, Traj
  <2>3. tm' = [tm EXCEPT ![ci] = posted.t[ci]]
    BY <1>5, <2>2 DEF CopyT, RowsOf
  <2>4. \A i \in 1 .. ci : wp'[i] = posted.q[i] /\ tm'[i] = posted.t[i]
    <3>1. \A i \in 1 .. ci - 1 : wp[i] = posted.q[i] /\ tm[i] = posted.t[i]
      BY <2>1 DEF ReadInv
    <3>2. tm \in [Pts -> Int] /\ \A i \in 1 .. ci : i \in Pts
      BY <2>2 DEF TypeOK, FrankaTypeOK, Pts
    <3> QED
      BY <2>1, <2>2, <2>3, <3>1, <3>2
  <2>5. \A i \in Pts : i > ci => wp'[i] = ZeroConfig /\ tm'[i] = 0
    BY <2>1, <2>2, <2>3 DEF ReadInv, TypeOK, FrankaTypeOK, Pts
  <2>6. CASE pc' = "copy"
    <3>1. ci' = ci + 1 /\ ci < n
      BY <1>5, <2>6 DEF CopyT
    <3> QED
      BY <2>1, <2>2, <2>4, <2>5, <2>6, <3>1 DEF ReadInv, Pts
  <2>7. pc' # "copy_t"
    BY <1>5 DEF CopyT
  <2> QED
    BY <1>2, <2>6, <2>7
<1>6. [Next]_vars =>
        \/ Arrival \/ Bridge \/ BridgeCrash \/ UNCHANGED vars
        \/ pc' \notin {"copy", "copy_t"}
        \/ ArmStep /\ (ReadLen \/ CopyQ \/ CopyT)
  <2>1. Connect \/ Sync \/ Poll \/ Mark \/ Reject \/ FollowEnd \/ Abort => pc' \notin {"copy", "copy_t"}
    BY DEF Connect, Sync, SyncTarget, SyncSpeed, SyncState, SyncIdle, SyncLen, Poll, Mark, Reject,
           FollowEnd, Abort, NextJoint
  <2>2. WriteDone \/ Resync \/ Reread \/ ReadTarget \/ ReadSpeed \/ MoveEnd => pc' \notin {"copy", "copy_t"}
    BY DEF WriteDone, Resync, Reread, ReadTarget, ReadSpeed, MoveEnd, NextJoint
  <2>3. RobotFault \/ MoveRefused \/ Handler \/ FrankaReset \/ FrankaStart => pc' \notin {"copy", "copy_t"}
    BY DEF RobotFault, MoveRefused, Unwind, Handler, FrankaReset, FrankaStart
  <2> QED
    BY <2>1, <2>2, <2>3 DEF Next, Arm, ArmPickUp, ArmClaimTarget, ArmStep, Fault, RtCrash, RtStart
<1>7. ReadLen => pc' \in {"copy", "reject"}
  BY DEF ReadLen
<1> QED
  BY <1>1, <1>2, <1>3, <1>4, <1>5, <1>6, <1>7

(***************************************************************************)
(* What the robot follows                                                  *)
(***************************************************************************)

\* The last row of the copy completes it: beyond its length both the copy and
\* the trajectory posted are blank.
LEMMA FollowsStep ==
  ASSUME TypeOK, CopyInv, OwnerInv, BufferInv, ReadInv, FollowsPosted, [Next]_vars
  PROVE  FollowsPosted'
<1>1. CASE Arrival \/ Bridge \/ BridgeCrash \/ UNCHANGED vars
  BY <1>1, CopyUndisturbed DEF FollowsPosted, InHand
<1>2. CASE pc' # "follow"
  BY <1>2 DEF FollowsPosted
<1>3. CASE ArmStep /\ CopyT /\ pc' = "follow"
  <2>0. ci \in Pts /\ ci \in Nat /\ n \in Nat
    BY DEF TypeOK, FrankaTypeOK, Pts
  <2>1. UNCHANGED <<posted, n, wp>> /\ pc = "copy_t" /\ ci >= n
    BY <1>3, <2>0 DEF ArmStep, CopyT, history
  <2>2. /\ ci = n /\ n = posted.len /\ ci \in 1 .. posted.len /\ RowsOf(posted, posted.len)
        /\ wp[ci] = posted.q[ci] /\ BlankAfter(posted)
    BY <2>1 DEF ReadInv, BufferInv, CopyInv, TypeOK, FrankaTypeOK, Pts
  <2>3. tm' = [tm EXCEPT ![ci] = posted.t[ci]]
    BY <1>3, <2>2 DEF CopyT, RowsOf
  <2>4. /\ wp \in [Pts -> Config] /\ tm \in [Pts -> Int]
        /\ posted \in [len : Pts, q : [Pts -> Config], t : [Pts -> Int]]
    BY DEF TypeOK, FrankaTypeOK, Traj
  <2>5. \A i \in Pts : wp[i] = posted.q[i] /\ tm'[i] = posted.t[i]
    <3> SUFFICES ASSUME NEW i \in Pts
                 PROVE  wp[i] = posted.q[i] /\ tm'[i] = posted.t[i]
      OBVIOUS
    <3>1. CASE i < ci
      <4>1. i \in 1 .. ci - 1 /\ i # ci
        BY <2>0, <3>1 DEF Pts
      <4>2. wp[i] = posted.q[i] /\ tm[i] = posted.t[i]
        BY <2>1, <4>1 DEF ReadInv
      <4> QED
        BY <2>3, <2>4, <4>1, <4>2
    <3>2. CASE i = ci
      BY <2>2, <2>3, <2>4, <3>2
    <3>3. CASE i > ci
      BY <2>1, <2>2, <2>3, <2>4, <3>3 DEF ReadInv, BlankAfter, Pts
    <3> QED
      BY <3>1, <3>2, <3>3, <2>2 DEF Pts
  <2>6. wp = posted.q /\ tm' = posted.t
    BY <2>3, <2>4, <2>5
  <2> QED
    BY <2>1, <2>2, <2>4, <2>6 DEF FollowsPosted, InHand
<1>4. [Next]_vars =>
        \/ Arrival \/ Bridge \/ BridgeCrash \/ UNCHANGED vars
        \/ pc' # "follow"
        \/ ArmStep /\ CopyT
  <2>1. Connect \/ Sync \/ Poll \/ Mark \/ ReadLen \/ CopyQ \/ Reject \/ FollowEnd \/ Abort => pc' # "follow"
    BY DEF Connect, Sync, SyncTarget, SyncSpeed, SyncState, SyncIdle, SyncLen, Poll, Mark, ReadLen,
           CopyQ, Reject, FollowEnd, Abort, NextJoint
  <2>2. WriteDone \/ Resync \/ Reread \/ ReadTarget \/ ReadSpeed \/ MoveEnd => pc' # "follow"
    BY DEF WriteDone, Resync, Reread, ReadTarget, ReadSpeed, MoveEnd, NextJoint
  <2>3. RobotFault \/ MoveRefused \/ Handler \/ FrankaReset \/ FrankaStart => pc' # "follow"
    BY DEF RobotFault, MoveRefused, Unwind, Handler, FrankaReset, FrankaStart
  <2> QED
    BY <2>1, <2>2, <2>3 DEF Next, Arm, ArmPickUp, ArmClaimTarget, ArmStep, Fault, RtCrash, RtStart
<1> QED
  BY <1>1, <1>2, <1>3, <1>4

\* The empty buffer of the start satisfies the handshake.
LEMMA InitHandshake == Init => HandshakeInv
BY NoTrajBlank
DEF Init, ShmInit, BridgeInit, FrankaInit, HandshakeInv, OwnerInv, BufferInv, ReadInv, FollowsPosted,
    Writing, Executing, ARM_TRAJ_IDLE, ARM_TRAJ_PENDING, BlankAfter

\* The inductive invariant of the handover, on top of SafetyInv.
THEOREM Handshake ==
  ASSUME OneAtATime
  PROVE  Spec => [](SafetyInv /\ HandshakeInv)
<1>1. Init => SafetyInv /\ HandshakeInv
  BY InitSafety, InitHandshake
<1>2. (SafetyInv /\ HandshakeInv) /\ [Next]_vars => (SafetyInv /\ HandshakeInv)'
  <2> SUFFICES ASSUME SafetyInv, HandshakeInv, [Next]_vars
               PROVE  SafetyInv' /\ HandshakeInv'
    OBVIOUS
  <2>1. SafetyInv'
    BY SafetyStep
  <2>2. TypeOK /\ CopyInv /\ CursorInv /\ OwnerInv /\ BufferInv /\ ReadInv /\ FollowsPosted
    BY DEF SafetyInv, HandshakeInv
  <2>3. OwnerInv' /\ BufferInv' /\ ReadInv' /\ FollowsPosted'
    BY <2>2, OwnerStep, BufferStep, ReadStep, FollowsStep
  <2> QED
    BY <2>1, <2>3 DEF HandshakeInv
<1> QED
  BY <1>1, <1>2, PTL DEF Spec

\* With one trajectory at a time the robot follows the trajectory posted last,
\* whole, for all that the copy is made word by word and without a common lock.
THEOREM PostedIsFollowed ==
  ASSUME OneAtATime
  PROVE  Spec => []FollowsPosted
<1>1. HandshakeInv => FollowsPosted
  BY DEF HandshakeInv
<1> QED
  BY Handshake, <1>1, PTL

(***************************************************************************)
(* The mailbox                                                             *)
(***************************************************************************)

\* The box and the slot as the refinement mapping sees them.
Box  == IF Waiting THEN {posted} ELSE {}
Slot == IF pc = "follow" THEN {InHand} ELSE {}

\* What a step of the mailbox is, in terms of the two.
MailStep ==
  \/ Box' = Box /\ Slot' = Slot
  \/ Box = {} /\ Slot = {} /\ Slot' = Slot /\ \E x \in Box' : x \in Traj /\ Box' = {x}
  \/ Box # {} /\ Slot = {} /\ Slot' = Box /\ Box' = {}
  \/ Box # {} /\ Box' = {} /\ Slot' = Slot
  \/ Slot # {} /\ Slot' = {} /\ Box' = Box

\* MailStep is the next-state relation of ArmMailbox under the mapping.
LEMMA MailStepRefines == MailStep => [Mail!MailNext]_(Mail!mailVars)
BY DEF MailStep, Box, Slot, Mail!MailNext, Mail!Post, Mail!Run, Mail!Drop, Mail!Finish, Mail!mailVars

\* Steps of the bridge: only the hand-over is seen, and it finds the mailbox
\* empty.
LEMMA BridgeMail ==
  ASSUME TypeOK, OwnerInv, Arrival \/ Bridge \/ BridgeCrash \/ UNCHANGED vars
  PROVE  MailStep
<1> USE DEF ARM_TRAJ_IDLE, ARM_TRAJ_PENDING, ARM_TRAJ_EXECUTING, ARM_TRAJ_DONE
<1>1. CASE HandOver
  <2>1. Box = {} /\ Slot = {}
    BY <1>1, WriterAlone DEF HandOver, Publish, Writing, Box, Slot, Waiting
  <2>2. posted' = pub /\ pub \in Traj /\ trajState' = ARM_TRAJ_PENDING /\ pc' = pc
    BY <1>1 DEF HandOver, Publish, TypeOK, BridgeTypeOK, armVars
  <2>3. Box' = {pub} /\ Slot' = {}
    BY <2>1, <2>2 DEF Box, Slot, Waiting
  <2> QED
    BY <2>1, <2>2, <2>3 DEF MailStep
<1>2. CASE ~HandOver
  <2>1. UNCHANGED <<pc, n, wp, tm, posted, trajState>>
    BY <1>2 DEF Arrival, BridgeArrival, BeginTrajectory, BeginTarget, SetSpeed, Bridge, TargetWrite,
                WriteTarget, BufferWrite, WriteLen, WriteQ, WriteT, BridgeCrash, BridgeReset, vars,
                shmVars, trajVars, armVars, history
  <2> QED
    BY <2>1 DEF MailStep, Box, Slot, Waiting, InHand
<1> QED
  BY <1>1, <1>2

\* Steps of the controller outside the copy and the motion: the box keeps what
\* it has, or is emptied by a write of IDLE or DONE.
LEMMA QuietMail ==
  ASSUME OwnerInv, posted' = posted, pc # "follow", pc' # "follow",
         pc' \in {"mark", "len", "copy", "copy_t", "reject"} => Waiting,
         trajState' = ARM_TRAJ_PENDING => trajState = ARM_TRAJ_PENDING
  PROVE  MailStep
<1>1. Slot = {} /\ Slot' = {}
  BY DEF Slot
<1>2. Waiting' => Waiting
  BY DEF Waiting
<1>3. Box' = Box \/ (Box # {} /\ Box' = {})
  BY <1>2 DEF Box
<1> QED
  BY <1>1, <1>3 DEF MailStep

\* Steps of the controller: accepting the copy runs what is in the box, and
\* every end of the motion is the end of the run.
LEMMA ArmMail ==
  ASSUME OwnerInv, FollowsPosted', Arm \/ Fault \/ RtCrash \/ RtStart
  PROVE  MailStep
<1> USE DEF ARM_TRAJ_IDLE, ARM_TRAJ_PENDING, ARM_TRAJ_EXECUTING, ARM_TRAJ_DONE
<1>0. posted' = posted
  BY DEF Arm, ArmPickUp, ArmClaimTarget, ArmStep, Fault, RtCrash, RtStart, history
<1>1. CASE CopyT /\ pc' = "follow"
  <2>1. trajState' = trajState /\ trajState = ARM_TRAJ_EXECUTING /\ pc = "copy_t"
    BY <1>1 DEF CopyT, OwnerInv, Executing, shmVars, trajVars
  <2>2. Box = {posted} /\ Slot = {} /\ Box' = {}
    BY <1>1, <2>1 DEF Box, Slot, Waiting
  <2>3. Slot' = {posted}
    BY <1>0, <1>1 DEF Slot, FollowsPosted
  <2> QED
    BY <2>2, <2>3 DEF MailStep
<1>2. CASE pc = "follow"
  <2>1. FollowEnd \/ RobotFault \/ FrankaReset
    BY <1>2 DEF Arm, ArmPickUp, Mark, ArmClaimTarget, Connect, WriteDone, ArmStep, Sync, SyncTarget,
                SyncSpeed, SyncState, SyncIdle, SyncLen, Poll, ReadLen, CopyQ, CopyT, Reject, Abort,
                Resync, Reread, ReadTarget, ReadSpeed, MoveEnd, MoveRefused, Handler, Fault, RtCrash,
                RtStart, FrankaStart
  <2>2. pc' \in {"done", "abort", "down"} /\ trajState' = trajState
    BY <1>2, <2>1 DEF FollowEnd, RobotFault, Unwind, FrankaReset, shmVars, trajVars
  <2>3. trajState = ARM_TRAJ_EXECUTING
    BY <1>2 DEF OwnerInv, Executing
  <2>4. Box = {} /\ Box' = {} /\ Slot # {} /\ Slot' = {}
    BY <1>2, <2>2, <2>3 DEF Box, Slot, Waiting
  <2> QED
    BY <2>4 DEF MailStep
<1>3. CASE pc # "follow" /\ ~(CopyT /\ pc' = "follow")
  <2>1. /\ pc' # "follow"
        /\ pc' \in {"mark", "len", "copy", "copy_t", "reject"} => Waiting
        /\ trajState' = ARM_TRAJ_PENDING => trajState = ARM_TRAJ_PENDING
    <3>1. CASE Connect \/ Sync
      BY <3>1 DEF Connect, Sync, SyncTarget, SyncSpeed, SyncState, SyncIdle, SyncLen, NextJoint,
                  shmVars, trajVars
    <3>2. CASE Poll \/ Mark \/ ReadLen
      BY <3>2 DEF Poll, Mark, ReadLen, Waiting, shmVars, trajVars
    <3>3. CASE CopyQ \/ CopyT
      BY <1>3, <3>3 DEF CopyQ, CopyT, NextJoint, Waiting, shmVars, trajVars
    <3>4. CASE Reject \/ Abort \/ WriteDone \/ Resync \/ Reread \/ Handler
      BY <3>4 DEF Reject, Abort, WriteDone, Resync, Reread, Handler, NextJoint, shmVars, trajVars
    <3>5. CASE ReadTarget \/ ReadSpeed \/ MoveEnd
      BY <3>5 DEF ReadTarget, ReadSpeed, MoveEnd, NextJoint, shmVars, trajVars
    <3>6. CASE MoveRefused \/ RobotFault \/ FrankaReset \/ FrankaStart
      BY <1>3, <3>6 DEF MoveRefused, RobotFault, Unwind, FrankaReset, FrankaStart, shmVars, trajVars
    <3>7. ~FollowEnd
      BY <1>3 DEF FollowEnd
    <3> QED
      BY <3>1, <3>2, <3>3, <3>4, <3>5, <3>6, <3>7
      DEF Arm, ArmPickUp, ArmClaimTarget, ArmStep, Fault, RtCrash, RtStart
  <2> QED
    BY <1>0, <1>3, <2>1, QuietMail
<1> QED
  BY <1>1, <1>2, <1>3

\* The buffer implements a mailbox of one slot: what is posted is run once, as
\* posted, or dropped, through exceptions and crashes of both processes.
THEOREM BufferIsMailbox ==
  ASSUME OneAtATime
  PROVE  Spec => MailSpec
<1>1. Init => Mail!MailInit
  BY DEF Init, ShmInit, FrankaInit, Mail!MailInit, Waiting, ARM_TRAJ_IDLE, ARM_TRAJ_PENDING
<1>2. (SafetyInv /\ HandshakeInv) /\ (SafetyInv /\ HandshakeInv)' /\ [Next]_vars
        => [Mail!MailNext]_(Mail!mailVars)
  <2> SUFFICES ASSUME SafetyInv, HandshakeInv, HandshakeInv', [Next]_vars
               PROVE  [Mail!MailNext]_(Mail!mailVars)
    OBVIOUS
  <2>1. TypeOK /\ OwnerInv /\ FollowsPosted'
    BY DEF SafetyInv, HandshakeInv
  <2>2. MailStep
    BY <2>1, BridgeMail, ArmMail DEF Next
  <2> QED
    BY <2>2, MailStepRefines
<1>3. Spec => [](SafetyInv /\ HandshakeInv)
  BY Handshake
<1> QED
  BY <1>1, <1>2, <1>3, PTL DEF Spec, MailSpec, Mail!MailSpec
=============================================================================
