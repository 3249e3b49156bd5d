------------------------------- MODULE ArmShm -------------------------------
(***************************************************************************)
(* The part of the two System V shared memory segments through which the   *)
(* ROS 2 bridge drives the arm: the trajectory buffer (struct ArmTrajBuf)  *)
(* and the two command words of SHMmsgs (Arm_j_tar, Arm_Speed_Factor).     *)
(*                                                                         *)
(* The only locks the code takes (g_shm_mutex in the RT process,           *)
(* shm_mutex_ in the bridge) are process-local, so between processes the   *)
(* unit of atomicity is one aligned machine word: one joint of one         *)
(* waypoint, one time, len, state.  Each word is read or written by a step *)
(* of its own in the modules that use this one.                            *)
(***************************************************************************)
EXTENDS Integers, Sequences, FiniteSets

CONSTANTS
    NJ,             \* Arm_DOF
    MaxPts,         \* ARM_TRAJ_MAX_PTS
    Val,            \* the joint values told apart
    Zero,           \* 0.0: what memset, `return {}` and a missing position give
    InLimits,       \* [j] |-> the values within the limits of joint j
    Far,            \* the pairs <<a, b>> with |a - b| > kTargetEps
    MinSpeed, MaxSpeed, DefaultSpeed,   \* kMinSpeedFactor, kMaxSpeedFactor, kDefaultSpeedFactor
    NaN             \* a double that compares false with every double

Joints == 1 .. NJ
Pts    == 1 .. MaxPts
Speed  == Int \cup {NaN}

ASSUME SizeAssumption == NJ \in Nat \ {0} /\ MaxPts \in Nat \ {0}

ASSUME ValAssumption ==
    /\ Zero \in Val
    /\ InLimits \in [Joints -> SUBSET Val]
    /\ \A j \in Joints : InLimits[j] # {}

\* |a - a| is 0 or NaN, neither of which is > kTargetEps.
ASSUME FarAssumption ==
    /\ Far \subseteq Val \X Val
    /\ \A v \in Val : <<v, v>> \notin Far

ASSUME SpeedAssumption ==
    /\ MinSpeed \in Int /\ MaxSpeed \in Int /\ DefaultSpeed \in Int
    /\ MinSpeed <= DefaultSpeed /\ DefaultSpeed <= MaxSpeed
    /\ NaN \notin Int

Config == [Joints -> Val]                           \* std::array<double, 7>
Traj   == [len : Pts, q : [Pts -> Config], t : [Pts -> Int]]

ZeroConfig == [j \in Joints |-> Zero]
BlankQ     == [i \in Pts |-> ZeroConfig]
BlankT     == [i \in Pts |-> 0]

\* The configurations the arm can be in: its own limits hold it there.
Reachable == {c \in Config : \A j \in Joints : c[j] \in InLimits[j]}

ARM_TRAJ_IDLE      == 0
ARM_TRAJ_PENDING   == 1
ARM_TRAJ_EXECUTING == 2
ARM_TRAJ_DONE      == 3

VARIABLES
    trajState, trajLen, trajQ, trajT,   \* ArmTrajBuf: state, len, q, t
    Arm_j_tar, Arm_Speed_Factor         \* SHMmsgs

trajVars == <<trajState, trajLen, trajQ, trajT>>
tarVars  == <<Arm_j_tar, Arm_Speed_Factor>>
shmVars  == <<trajVars, tarVars>>

ShmTypeOK ==
    /\ trajState \in {ARM_TRAJ_IDLE, ARM_TRAJ_PENDING, ARM_TRAJ_EXECUTING, ARM_TRAJ_DONE}
    /\ trajLen \in 0 .. MaxPts
    /\ trajQ \in [Pts -> Config]
    /\ trajT \in [Pts -> Int]
    /\ Arm_j_tar \in Config
    /\ Arm_Speed_Factor \in Speed

\* The "clean start" of init_shm and init_arm_traj_shm: the segments zeroed,
\* the speed factor preset.
ShmInit ==
    /\ trajState = ARM_TRAJ_IDLE
    /\ trajLen = 0
    /\ trajQ = BlankQ
    /\ trajT = BlankT
    /\ Arm_j_tar = ZeroConfig
    /\ Arm_Speed_Factor = DefaultSpeed
=============================================================================
