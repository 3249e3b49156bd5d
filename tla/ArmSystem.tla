------------------------------ MODULE ArmSystem ------------------------------
(***************************************************************************)
(* The bridge's arm handlers and the arm controller over one shared        *)
(* memory, each of them able to die and to be started again while the      *)
(* segments live on.                                                       *)
(***************************************************************************)
EXTENDS FrankaArm, ArmBridge

CONSTANT MaxCrashes     \* bound on the deaths of the two processes

ASSUME CrashAssumption == MaxCrashes \in Nat

VARIABLES
    crashes,
    \* History, read by no action:
    posted,             \* the trajectory published last, as decoded
    fresh,              \* it was published and no execution has started since
    commanded           \* the bridge wrote a target joint since the controller
                        \* last began to write Arm_j_tar itself

history == <<posted, fresh, commanded>>
vars    == <<shmVars, bridgeVars, armVars, crashes, history>>

TypeOK ==
    /\ ShmTypeOK /\ BridgeTypeOK /\ FrankaTypeOK
    /\ crashes \in Nat
    /\ posted \in Traj
    /\ fresh \in BOOLEAN /\ commanded \in BOOLEAN

Init ==
    /\ ShmInit /\ BridgeInit /\ FrankaInit
    /\ crashes = 0
    /\ posted = NoTraj /\ fresh = FALSE /\ commanded = FALSE
-----------------------------------------------------------------------------
Arrival == BridgeArrival /\ UNCHANGED <<armVars, crashes, history>>

\* The last write of on_franka_trajectory hands the buffer over.
HandOver ==
    /\ Publish
    /\ posted' = pub /\ fresh' = TRUE
    /\ UNCHANGED <<armVars, crashes, commanded>>

TargetWrite ==
    /\ WriteTarget
    /\ commanded' = TRUE
    /\ UNCHANGED <<armVars, crashes, posted, fresh>>

BufferWrite ==
    /\ WriteLen \/ WriteQ \/ WriteT
    /\ UNCHANGED <<armVars, crashes, history>>

Bridge == HandOver \/ TargetWrite \/ BufferWrite

\* Mark consumes the publication; Connect and WriteDone are the points from
\* which the controller overwrites Arm_j_tar with the pose of the arm.
ArmPickUp ==
    /\ Mark
    /\ fresh' = FALSE
    /\ UNCHANGED <<bridgeVars, crashes, posted, commanded>>

ArmClaimTarget ==
    /\ Connect \/ WriteDone
    /\ commanded' = FALSE
    /\ UNCHANGED <<bridgeVars, crashes, posted, fresh>>

ArmStep ==
    /\ \/ Sync \/ Poll \/ ReadLen \/ CopyQ \/ CopyT \/ Reject
       \/ FollowEnd \/ Abort \/ Resync \/ Reread
       \/ ReadTarget \/ ReadSpeed \/ MoveEnd \/ MoveRefused \/ Handler
    /\ UNCHANGED <<bridgeVars, crashes, history>>

Arm == ArmPickUp \/ ArmClaimTarget \/ ArmStep

Fault == RobotFault /\ UNCHANGED <<bridgeVars, crashes, history>>

RtCrash ==
    /\ pc # "down" /\ crashes < MaxCrashes
    /\ FrankaReset
    /\ crashes' = crashes + 1
    /\ UNCHANGED <<bridgeVars, history>>

RtStart == FrankaStart /\ UNCHANGED <<bridgeVars, crashes, history>>

BridgeCrash ==
    /\ crashes < MaxCrashes
    /\ BridgeReset
    /\ crashes' = crashes + 1
    /\ UNCHANGED <<armVars, history>>

Next == Arrival \/ Bridge \/ Arm \/ Fault \/ RtCrash \/ RtStart \/ BridgeCrash

Spec == Init /\ [][Next]_vars

\* A handler that was called runs on, and so does the controller thread;
\* libfranka calls return or throw.  Nothing obliges messages to arrive,
\* exceptions to be thrown, or processes to die or to be started again.
Fairness == WF_vars(Bridge) /\ WF_vars(Arm)

FairSpec == Spec /\ Fairness
-----------------------------------------------------------------------------
(* Properties                                                              *)

InHand == [len |-> n, q |-> wp, t |-> tm]

\* What the robot is made to follow has passed validation as a whole, however
\* the bridge rewrites the buffer between the reads (executeTrajFromShm
\* validates its own copy, row by row as it copies).
FollowedIsValidated ==
    pc = "follow" =>
        /\ n \in Pts
        /\ \A i \in 1 .. n : validateWaypoint(wp[i]) /\ validTime(tm, i)

\* Every execution consumes a publication of its own: none is started twice,
\* not by a second poll, not after an exception and not by a restarted process
\* (Mark takes the state out of PENDING before anything else happens).
StartsOnce ==
    /\ pc = "mark" => fresh
    /\ trajState = ARM_TRAJ_PENDING => fresh

\* Point-to-point mode moves the arm away from where it stands only when some
\* target message was written: neither connecting, nor the end of a
\* trajectory, nor a rejected one sets it in motion (the sync of Arm_j_tar at
\* lines 249-250 and 210-211 and last_target keep it still).
NoSpontaneousMove ==
    (pc = "move" /\ ~commanded) => ~isTargetChanged(target, pose)

\* The trajectory being followed is the one published last, whole
\* (executeTrajFromShm copies it "under lock").
FollowsPosted == pc = "follow" => InHand = posted

\* What a speed message asks for cannot take the generator out of its range:
\* NaN passes the bridge's clamp and is stopped by sanitizeSpeedFactor only.
SpeedInRange == pc = "move" => spd \in MinSpeed .. MaxSpeed

\* A publisher that waits for the buffer gets it back: what is pending or
\* executing ends, through DONE at every exit of executeTrajFromShm and in the
\* exception handlers, unless a process died.
BufferReleased ==
    trajState \in {ARM_TRAJ_PENDING, ARM_TRAJ_EXECUTING}
        ~> (trajState \in {ARM_TRAJ_IDLE, ARM_TRAJ_DONE} \/ crashes > 0)

\* When messages and exceptions stop, the arm ends where Arm_j_tar says, or
\* Arm_j_tar is out of its reach: no interleaving of the bridge's writes with
\* the controller's reads, resyncs and rejects leaves a target unserved.
Settles ==
    <>[](\/ pc = "down"
         \/ Arm_j_tar \notin Reachable
         \/ ~isTargetChanged(Arm_j_tar, pose))
-----------------------------------------------------------------------------
(* The mailbox that publishers see when they use it one trajectory at a    *)
(* time: a publication leaves the box when its copy is accepted.           *)

Waiting == \/ pc \in {"mark", "len", "copy", "copy_t", "reject"}
           \/ trajState = ARM_TRAJ_PENDING

Mail == INSTANCE ArmMailbox WITH
            Trajs   <- Traj,
            box     <- IF Waiting THEN {posted} ELSE {},
            running <- IF pc = "follow" THEN {InHand} ELSE {}

\* The buffer implements the mailbox under OneAtATime, whatever crashes and
\* exceptions do to the two processes.
MailSpec == Mail!MailSpec
-----------------------------------------------------------------------------
(* What comments and documentation say                                     *)

\* "Copy trajectory locally under lock (bridge may update SHM during copy)"
\* (franka_right_arm.cpp:127): what is followed is a message somebody sent.
FollowsSomeMessage ==
    pc = "follow" => \E m \in TrajMsgs : InHand = Decode(m)
=============================================================================
