------------------------------ MODULE ArmBridge ------------------------------
(***************************************************************************)
(* The handlers of kistar_hand_bridge_node that command the arm.  One      *)
(* executor thread runs them (rclcpp::spin), so at most one is in          *)
(* progress; bpc says which, and each of its writes to shared memory is a  *)
(* step of its own.                                                        *)
(***************************************************************************)
EXTENDS ArmShm

CONSTANTS
    TrajMsgs,       \* the JointTrajectory messages that may arrive
    TargetMsgs,     \* the Float64MultiArray target messages that may arrive
    SpeedMsgs,      \* the Float64 speed messages that may arrive
    OneAtATime,     \* TRUE: the publishers send a trajectory only when none is
                    \* pending or executing (no code enforces it)
    MaxSent         \* bound on the messages handled

\* A joint name is the number of the joint it names, or 0 for any other name.
TrajMsg ==
    [joint_names : Seq(0 .. NJ), points : Seq([positions : Seq(Val), time : Int])]

ASSUME MsgAssumption ==
    /\ TrajMsgs \subseteq TrajMsg
    /\ TargetMsgs \subseteq Seq(Val)
    /\ SpeedMsgs \subseteq Speed
    /\ OneAtATime \in BOOLEAN
    /\ MaxSent \in Nat

NoTraj == [len |-> 1, q |-> BlankQ, t |-> BlankT]   \* no trajectory in hand

VARIABLES
    bpc,            \* where the handler is
    pub,            \* the trajectory being written, with the joints in SHM order
    btar,           \* the target being written
    bi, bj,         \* waypoint and joint about to be written
    sent            \* messages handled so far, at most MaxSent

bridgeVars == <<bpc, pub, btar, bi, bj, sent>>

BridgeTypeOK ==
    /\ bpc \in {"idle", "len", "q", "t", "publish", "target"}
    /\ pub \in Traj
    /\ btar \in Config
    /\ bi \in Pts
    /\ bj \in Joints
    /\ sent \in Nat

BridgeInit ==
    /\ bpc = "idle"
    /\ pub = NoTraj
    /\ btar = ZeroConfig
    /\ bi = 1 /\ bj = 1
    /\ sent = 0
-----------------------------------------------------------------------------
(* Decoding a message                                                      *)

FirstOf(S) == CHOOSE k \in S : \A l \in S : k <= l

Named(m, j) == {k \in 1 .. Len(m.joint_names) : m.joint_names[k] = j}

\* idx[j]: by name when every joint is named, positional otherwise.
Resolve(m) ==
    IF \A j \in Joints : Named(m, j) # {}
    THEN [j \in Joints |-> FirstOf(Named(m, j))]
    ELSE [j \in Joints |-> j]

Position(p, src) == IF src <= Len(p.positions) THEN p.positions[src] ELSE Zero

Decode(m) ==
    LET n == Len(m.points)
    IN  [len |-> n,
         q   |-> [i \in Pts |-> IF i <= n
                                THEN [j \in Joints |-> Position(m.points[i], Resolve(m)[j])]
                                ELSE ZeroConfig],
         t   |-> [i \in Pts |-> IF i <= n THEN m.points[i].time ELSE 0]]

\* NaN passes: it is neither below the minimum nor above the maximum.
ClampSpeed(s) ==
    CASE s # NaN /\ s < MinSpeed -> MinSpeed
      [] s # NaN /\ s > MaxSpeed -> MaxSpeed
      [] OTHER -> s
-----------------------------------------------------------------------------
(* on_franka_trajectory                                                    *)

\* The handler itself never looks at trajState.  The last conjunct is the
\* assumption about the publishers that OneAtATime switches on.
BeginTrajectory(m) ==
    /\ bpc = "idle" /\ sent < MaxSent
    /\ Len(m.points) \in Pts
    /\ OneAtATime => trajState \in {ARM_TRAJ_IDLE, ARM_TRAJ_DONE}
    /\ bpc' = "len"
    /\ pub' = Decode(m)
    /\ sent' = sent + 1
    /\ UNCHANGED <<btar, bi, bj, shmVars>>

\* Mutant: the state is written before the waypoints.
WriteLenPending ==
    /\ bpc = "len"
    /\ trajLen' = pub.len
    /\ trajState' = ARM_TRAJ_PENDING
    /\ bpc' = "q"
    /\ UNCHANGED <<pub, btar, bi, bj, sent, trajQ, trajT, tarVars>>

WriteLen ==
    /\ bpc = "len"
    /\ trajLen' = pub.len
    /\ bpc' = "q"
    /\ UNCHANGED <<pub, btar, bi, bj, sent, trajState, trajQ, trajT, tarVars>>

WriteQ ==
    /\ bpc = "q"
    /\ trajQ' = [trajQ EXCEPT ![bi][bj] = pub.q[bi][bj]]
    /\ IF bj < NJ THEN bj' = bj + 1 /\ bpc' = bpc
                  ELSE bj' = 1 /\ bpc' = "t"
    /\ UNCHANGED <<pub, btar, bi, sent, trajState, trajLen, trajT, tarVars>>

WriteT ==
    /\ bpc = "t"
    /\ trajT' = [trajT EXCEPT ![bi] = pub.t[bi]]
    /\ IF bi < pub.len THEN bi' = bi + 1 /\ bpc' = "q"
                       ELSE bi' = 1 /\ bpc' = "publish"
    /\ UNCHANGED <<pub, btar, bj, sent, trajState, trajLen, trajQ, tarVars>>

Publish ==
    /\ bpc = "publish"
    /\ trajState' = ARM_TRAJ_PENDING
    /\ bpc' = "idle"
    /\ pub' = NoTraj
    /\ UNCHANGED <<btar, bi, bj, sent, trajLen, trajQ, trajT, tarVars>>
-----------------------------------------------------------------------------
(* on_franka_target and on_franka_speed                                    *)

BeginTarget(m) ==
    /\ bpc = "idle" /\ sent < MaxSent
    /\ Len(m) = NJ
    /\ bpc' = "target"
    /\ btar' = [j \in Joints |-> m[j]]
    /\ sent' = sent + 1
    /\ UNCHANGED <<pub, bi, bj, shmVars>>

WriteTarget ==
    /\ bpc = "target"
    /\ Arm_j_tar' = [Arm_j_tar EXCEPT ![bj] = btar[bj]]
    /\ IF bj < NJ THEN bj' = bj + 1 /\ UNCHANGED <<bpc, btar>>
                  ELSE bj' = 1 /\ bpc' = "idle" /\ btar' = ZeroConfig
    /\ UNCHANGED <<pub, bi, sent, trajVars, Arm_Speed_Factor>>

SetSpeed(s) ==
    /\ bpc = "idle" /\ sent < MaxSent
    /\ Arm_Speed_Factor' = ClampSpeed(s)
    /\ sent' = sent + 1
    /\ UNCHANGED <<bpc, pub, btar, bi, bj, trajVars, Arm_j_tar>>

\* The node dies; the next one starts with no handler in progress.
BridgeReset ==
    /\ bpc' = "idle" /\ pub' = NoTraj /\ btar' = ZeroConfig
    /\ bi' = 1 /\ bj' = 1
    /\ UNCHANGED <<sent, shmVars>>

BridgeArrival ==
    \/ \E m \in TrajMsgs : BeginTrajectory(m)
    \/ \E m \in TargetMsgs : BeginTarget(m)
    \/ \E s \in SpeedMsgs : SetSpeed(s)

BridgeWork == WriteLen \/ WriteQ \/ WriteT \/ Publish \/ WriteTarget
=============================================================================
