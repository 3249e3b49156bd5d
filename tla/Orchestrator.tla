---------------------------- MODULE Orchestrator ----------------------------
(***************************************************************************)
(* scripts/planning_orchestrator.py: the action server that turns one      *)
(* FollowJointTrajectory goal into a grasp sequence, with the three ways   *)
(* to interfere with it: the keys of the terminal, cancel requests, and    *)
(* further goals.  Four kinds of threads share abort_event,                *)
(* start_seq_event, _goal_busy, _active_goal_handle and the goal handles:  *)
(* one execute callback per accepted goal, the cancel callbacks and the    *)
(* goal callbacks of the multi-threaded executor, and the stdin thread.    *)
(*                                                                         *)
(* A pose of the arm is a name.  Joint data, timing and printing are left  *)
(* out; the status of a goal handle, which rclpy keeps, is gst.            *)
(***************************************************************************)
EXTENDS Naturals

CONSTANTS
    Goals, Valid,       \* the goals sent, and those that pass validation
    None,
    Start, Zero, Safe,  \* poses: where the arm is, seven zeros, franka_safe
    Last,               \* last sample of _run_trajectory
    Steps,              \* last step of a hand ramp
    Tries,              \* bound on the polls before pose_wait_timeout
    MaxAborts           \* bound on the presses of t and the cancel requests

ASSUME OrchestratorAssumption ==
    /\ Valid \subseteq Goals /\ None \notin Goals
    /\ Last \in Nat /\ Steps \in Nat /\ Tries \in Nat /\ MaxAborts \in Nat

VARIABLES
    require_terminal_s, \* command line option
    abort, start_seq,   \* the two events
    busy, handle,       \* _goal_busy, _active_goal_handle
    gst,                \* status of every goal handle
    pc, stage, k, ok,   \* the execute callback of every goal: place, stage
                        \* of the sequence, loop counter, value returned
    cancel,             \* the cancel callback of every goal
    key, key_gh,        \* the stdin thread, and the handle it has read
    aborts,             \* presses of t and cancel requests so far
    cmd,                \* arm target published last: by whom, which pose
    mode,               \* hand mode set last
    franka_q,           \* the backend's copy of the arm's pose
    \* History, read by no action:
    did,                \* what the sequence of every goal has achieved so far
    late                \* targets published since abort was set, holds aside

flags  == <<require_terminal_s, start_seq, busy, handle>>
locals == <<stage, k, ok>>
stdin  == <<key, key_gh>>
others == <<cancel, stdin, aborts>>
data   == <<cmd, mode, franka_q, did, late>>
vars   == <<flags, abort, gst, pc, locals, others, data>>

Running  == {"executing", "canceling"}
Active   == {"accepted"} \cup Running
Terminal == {"succeeded", "aborted", "canceled"}
Statuses == {"new", "rejected"} \cup Active \cup Terminal

InWait     == {"waitCancel", "waitAbort", "waitStart"}
InSequence == {"publish", "near", "look", "servo", "mode", "ramp",
               "turn", "ramped", "sample", "move", "last", "sampled",
               "settle", "close", "closed"}
Places     == {"idle", "ready", "handle", "prepare", "waited", "clear", "end",
               "cancel", "result", "release", "forget", "over"}
              \cup InWait \cup InSequence

Point(g, n) == <<g, n>>
Poses       == {Start, Zero, Safe} \cup (Goals \X (0..Last))
Milestones  == {"safe", "grasp", "path", "saved", "closed", "home"}

ThreadTypeOK ==
    /\ require_terminal_s \in BOOLEAN
    /\ abort \in BOOLEAN /\ start_seq \in BOOLEAN /\ busy \in BOOLEAN
    /\ handle \in Goals \cup {None} /\ key_gh \in Goals \cup {None}
    /\ gst \in [Goals -> Statuses] /\ pc \in [Goals -> Places]
    /\ cancel \in [Goals -> {"no", "asked", "hold", "move", "done"}]
    /\ key \in {"read", "hold", "look", "abort"} /\ aborts \in Nat

SequenceTypeOK ==
    /\ stage \in [Goals -> 0..7] /\ k \in [Goals -> Nat]
    /\ ok \in [Goals -> BOOLEAN]
    /\ did \in [Goals -> SUBSET Milestones] /\ late \in Nat

TargetTypeOK ==
    /\ cmd \in [by : {"none", "sequence", "hold"}, pose : Poses]
    /\ mode \in {"none", "circular", "position"}
    /\ franka_q \in Poses

TypeOK == ThreadTypeOK /\ SequenceTypeOK /\ TargetTypeOK

Init ==
    /\ require_terminal_s \in BOOLEAN
    /\ abort = FALSE /\ start_seq = FALSE /\ busy = FALSE /\ handle = None
    /\ gst = [g \in Goals |-> "new"]
    /\ pc = [g \in Goals |-> "idle"] /\ stage = [g \in Goals |-> 0]
    /\ k = [g \in Goals |-> 0] /\ ok = [g \in Goals |-> FALSE]
    /\ cancel = [g \in Goals |-> "no"]
    /\ key = "read" /\ key_gh = None /\ aborts = 0
    /\ cmd = [by |-> "none", pose |-> Start] /\ mode = "none"
    /\ franka_q = Zero
    /\ did = [g \in Goals |-> {}] /\ late = 0
-----------------------------------------------------------------------------
(* Steps shared by the threads.                                            *)

At(g, place)   == pc[g] = place
Goto(g, place) == pc' = [pc EXCEPT ![g] = place]

\* Event.set and Event.clear.
SetAbort   == abort' = TRUE /\ late' = IF abort THEN late ELSE 0
ClearAbort == abort' = FALSE /\ late' = 0

\* One message of the sequence goes out.
Sent           == late' = IF abort THEN late + 1 ELSE 0
PublishArm(p)  == cmd' = [by |-> "sequence", pose |-> p] /\ Sent
\* hold_franka publishes the copy of the pose.  That copy is read under its
\* lock first; it only ever lags, so one step gives the same commands.
Hold           == cmd' = [by |-> "hold", pose |-> franka_q]

\* Transitions of a goal handle; an illegal one raises and leaves it alone.
Finish(g, status, from) ==
    gst' = IF gst[g] \in from THEN [gst EXCEPT ![g] = status] ELSE gst
-----------------------------------------------------------------------------
(* The action server of rclpy.                                             *)

\* Mutant: the flag is set but not tested.
GoalCallbackUntested(g) ==
    /\ gst[g] = "new" /\ g \in Valid
    /\ gst' = [gst EXCEPT ![g] = "accepted"]
    /\ busy' = TRUE
    /\ Goto(g, "ready")
    /\ UNCHANGED <<require_terminal_s, start_seq, handle, abort, locals,
                   others, data>>

\* _goal_callback: validation, then test-and-set of _goal_busy under its lock.
GoalCallback(g) ==
    /\ gst[g] = "new"
    /\ IF g \in Valid /\ ~busy
       THEN /\ gst' = [gst EXCEPT ![g] = "accepted"]
            /\ busy' = TRUE
            /\ Goto(g, "ready")
       ELSE /\ gst' = [gst EXCEPT ![g] = "rejected"]
            /\ UNCHANGED <<busy, pc>>
    /\ UNCHANGED <<require_terminal_s, start_seq, handle, abort, locals,
                   others, data>>

\* A cancel request of an active goal reaches the callback, which may run
\* after the goal has ended; what it returns moves the goal to CANCELING.
CancelRequest(g) ==
    /\ gst[g] \in {"accepted", "executing"} /\ cancel[g] = "no"
    /\ aborts < MaxAborts /\ aborts' = aborts + 1
    /\ cancel' = [cancel EXCEPT ![g] = "asked"]
    /\ UNCHANGED <<flags, abort, gst, pc, locals, stdin, data>>

CancelSet(g) ==
    /\ cancel[g] = "asked"
    /\ SetAbort
    /\ cancel' = [cancel EXCEPT ![g] = "hold"]
    /\ UNCHANGED <<flags, gst, pc, locals, stdin, aborts, cmd, mode,
                   franka_q, did>>

CancelHold(g) ==
    /\ cancel[g] = "hold"
    /\ Hold
    /\ cancel' = [cancel EXCEPT ![g] = "move"]
    /\ UNCHANGED <<flags, abort, gst, pc, locals, stdin, aborts, mode,
                   franka_q, did, late>>

CancelMove(g) ==
    /\ cancel[g] = "move"
    /\ Finish(g, "canceling", {"accepted", "executing"})
    /\ cancel' = [cancel EXCEPT ![g] = "done"]
    /\ UNCHANGED <<flags, abort, pc, locals, stdin, aborts, data>>

Cancel(g) == CancelSet(g) \/ CancelHold(g) \/ CancelMove(g)
-----------------------------------------------------------------------------
(* The stdin thread.                                                       *)

PressS ==
    /\ key = "read"
    /\ start_seq' = TRUE
    /\ UNCHANGED <<require_terminal_s, busy, handle, abort, gst, pc, locals,
                   others, data>>

\* goal_abort_from_user, in four steps.
PressT ==
    /\ key = "read" /\ aborts < MaxAborts
    /\ SetAbort
    /\ key' = "hold" /\ aborts' = aborts + 1
    /\ UNCHANGED <<flags, gst, pc, locals, cancel, key_gh, cmd, mode,
                   franka_q, did>>

KeyHold ==
    /\ key = "hold"
    /\ Hold
    /\ key' = "look"
    /\ UNCHANGED <<flags, abort, gst, pc, locals, cancel, key_gh, aborts,
                   mode, franka_q, did, late>>

KeyLook ==
    /\ key = "look"
    /\ key_gh' = handle /\ key' = "abort"
    /\ UNCHANGED <<flags, abort, gst, pc, locals, cancel, aborts, data>>

KeyAbort ==
    /\ key = "abort"
    /\ IF key_gh # None THEN Finish(key_gh, "aborted", Active) ELSE gst' = gst
    /\ key' = "read" /\ key_gh' = None
    /\ UNCHANGED <<flags, abort, pc, locals, cancel, aborts, data>>

Key == KeyHold \/ KeyLook \/ KeyAbort
-----------------------------------------------------------------------------
(* _execute_follow_joint, up to the sequence.                              *)

\* rclpy moves the goal to EXECUTING, unless it is being cancelled already,
\* and calls the callback, which clears the event first.
Execute(g) ==
    /\ At(g, "ready")
    /\ Finish(g, "executing", {"accepted"})
    /\ ClearAbort
    /\ Goto(g, "handle")
    /\ UNCHANGED <<flags, locals, others, cmd, mode, franka_q, did>>

StoreHandle(g) ==
    /\ At(g, "handle")
    /\ handle' = g
    /\ Goto(g, "prepare")
    /\ UNCHANGED <<require_terminal_s, start_seq, busy, abort, gst, locals,
                   others, data>>

\* args_ns is always there: main attaches it before the executor spins.
Prepare(g) ==
    /\ At(g, "prepare")
    /\ IF require_terminal_s
       THEN start_seq' = FALSE /\ Goto(g, "waitCancel")
       ELSE start_seq' = start_seq /\ Goto(g, "clear")
    /\ UNCHANGED <<require_terminal_s, busy, handle, abort, gst, locals,
                   others, data>>

\* Mutant: the loop does not look at the event.
WaitDeaf(g) ==
    /\ \/ /\ At(g, "waitCancel") /\ start_seq' = start_seq
          /\ Goto(g, IF gst[g] = "canceling" THEN "cancel" ELSE "waitStart")
       \/ /\ At(g, "waitStart") /\ start_seq' = FALSE
          /\ Goto(g, IF start_seq THEN "clear" ELSE "waitCancel")
    /\ UNCHANGED <<require_terminal_s, busy, handle, abort, gst, locals,
                   others, data>>

\* The loop that waits for S tests one thing after the other.
Wait(g) ==
    /\ \/ /\ At(g, "waitCancel")
          /\ Goto(g, IF gst[g] = "canceling" THEN "cancel" ELSE "waitAbort")
          /\ start_seq' = start_seq
       \/ /\ At(g, "waitAbort")
          /\ Goto(g, IF abort THEN "result" ELSE "waitStart")
          /\ start_seq' = start_seq
       \/ /\ At(g, "waitStart")
          /\ Goto(g, IF start_seq THEN "waited" ELSE "waitCancel")
          /\ start_seq' = FALSE
       \/ /\ At(g, "waited")
          /\ Goto(g, IF gst[g] = "canceling" THEN "cancel" ELSE "clear")
          /\ start_seq' = start_seq
    /\ UNCHANGED <<require_terminal_s, busy, handle, abort, gst, locals,
                   others, data>>

\* The event is cleared once more and _run_full_sequence begins.
Begin(g) ==
    /\ At(g, "clear")
    /\ ClearAbort
    /\ Goto(g, "publish") /\ stage' = [stage EXCEPT ![g] = 1]
    /\ UNCHANGED <<flags, gst, k, ok, others, cmd, mode, franka_q, did>>
-----------------------------------------------------------------------------
(* _run_full_sequence: stages 1 and 7 send the arm to franka_safe, 2, 3    *)
(* and 5 ramp the hand, 4 is the trajectory, 6 closes the hand.            *)

env == <<flags, abort, gst, others, franka_q>>

NextStage(g, s, place) ==
    /\ Goto(g, place)
    /\ stage' = [stage EXCEPT ![g] = s] /\ k' = [k EXCEPT ![g] = 0]
Count(g)      == k' = [k EXCEPT ![g] = @ + 1]
Return(g, v)  == NextStage(g, 0, "end") /\ ok' = [ok EXCEPT ![g] = v]
Reached(g, m) == did' = [did EXCEPT ![g] = @ \cup {m}]

\* The first message to franka_safe, and those that the wait repeats.
PublishSafe(g) ==
    /\ At(g, "publish")
    /\ PublishArm(Safe)
    /\ Goto(g, "near")
    /\ UNCHANGED <<env, locals, mode, did>>

\* Mutant: the poll looks at the deadline only.
NearBlind(g) ==
    /\ At(g, "near")
    /\ IF k[g] < Tries THEN Goto(g, "look") /\ Count(g) /\ UNCHANGED <<stage, ok>>
                       ELSE Return(g, FALSE)
    /\ UNCHANGED <<env, cmd, mode, did, late>>

\* Mutant: the last wait takes its deadline for an arrival.
NearLenient(g) ==
    /\ At(g, "near")
    /\ IF ~abort /\ k[g] < Tries
       THEN Goto(g, "look") /\ Count(g) /\ UNCHANGED <<stage, ok>>
       ELSE Return(g, ~abort /\ stage[g] = 7)
    /\ UNCHANGED <<env, cmd, mode, did, late>>

\* _wait_q_close: deadline and event, then the pose, then the target again.
Near(g) ==
    /\ At(g, "near")
    /\ \/ Return(g, FALSE)
       \/ /\ ~abort /\ k[g] < Tries
          /\ Goto(g, "look") /\ Count(g) /\ UNCHANGED <<stage, ok>>
    /\ UNCHANGED <<env, cmd, mode, did, late>>

Look(g) ==
    /\ At(g, "look")
    /\ \/ /\ franka_q # Safe
          /\ Goto(g, "publish") /\ UNCHANGED <<locals, did>>
       \/ /\ franka_q = Safe /\ stage[g] = 1
          /\ NextStage(g, 2, "servo") /\ Reached(g, "safe") /\ UNCHANGED ok
       \/ /\ franka_q = Safe /\ stage[g] = 7
          /\ Return(g, TRUE) /\ Reached(g, "home")
    /\ UNCHANGED <<env, cmd, mode, late>>

SetServo(g) ==
    /\ At(g, "servo")
    /\ Sent
    /\ Goto(g, "mode")
    /\ UNCHANGED <<env, locals, cmd, mode, did>>

\* Before stage 2 the event is tested here, too; the test that opens the ramp
\* has the same outcome.
SetMode(g) ==
    /\ At(g, "mode")
    /\ mode' = IF stage[g] = 2 THEN "circular" ELSE "position"
    /\ Sent
    /\ Goto(g, "ramp")
    /\ UNCHANGED <<env, locals, cmd, did>>

\* _ramp_hand, which returns without a value whether it was aborted or not.
Ramp(g) ==
    /\ At(g, "ramp")
    /\ Goto(g, IF abort THEN "ramped" ELSE "turn")
    /\ UNCHANGED <<env, locals, cmd, mode, did, late>>

RampTo(s) == CASE s = 3 -> {"grasp"} [] s = 5 -> {"saved"} [] OTHER -> {}

Turn(g) ==
    /\ At(g, "turn")
    /\ Sent
    /\ IF k[g] < Steps
       THEN Count(g) /\ Goto(g, "ramp") /\ UNCHANGED did
       ELSE /\ UNCHANGED k
            /\ Goto(g, "ramped")
            /\ did' = [did EXCEPT ![g] = @ \cup RampTo(stage[g])]
    /\ UNCHANGED <<env, stage, ok, cmd, mode>>

\* Mutant: whoever has served the abort clears the event.
SampleConsumes(g) ==
    /\ At(g, "sample")
    /\ IF abort THEN Hold /\ ClearAbort /\ Goto(g, "sampled")
                ELSE Goto(g, "move") /\ UNCHANGED <<cmd, abort, late>>
    /\ UNCHANGED <<flags, gst, others, franka_q, locals, mode, did>>

\* _run_trajectory: an abort holds the arm and returns.
Sample(g) ==
    /\ At(g, "sample")
    /\ IF abort THEN Hold /\ Goto(g, "sampled")
                ELSE Goto(g, "move") /\ UNCHANGED cmd
    /\ UNCHANGED <<env, locals, mode, did, late>>

\* Mutant: one sample too many.
MoveTooFar(g) ==
    /\ At(g, "move")
    /\ PublishArm(Point(g, k[g]))
    /\ IF k[g] <= Last THEN Count(g) /\ Goto(g, "sample")
                       ELSE UNCHANGED k /\ Goto(g, "last")
    /\ UNCHANGED <<env, stage, ok, mode, did>>

Move(g) ==
    /\ At(g, "move")
    /\ PublishArm(Point(g, k[g]))
    /\ IF k[g] < Last THEN Count(g) /\ Goto(g, "sample")
                      ELSE UNCHANGED k /\ Goto(g, "last")
    /\ UNCHANGED <<env, stage, ok, mode, did>>

MoveLast(g) ==
    /\ At(g, "last")
    /\ PublishArm(Point(g, Last))
    /\ Goto(g, "sampled") /\ Reached(g, "path")
    /\ UNCHANGED <<env, locals, mode>>

\* Stage 6 sends the snapshot, closed by hand_close_delta, after post_wait.
Close(g) ==
    /\ At(g, "close")
    /\ Sent
    /\ Goto(g, "closed") /\ Reached(g, "closed")
    /\ UNCHANGED <<env, locals, cmd, mode>>

\* `if abort.is_set(): return False`, between the stages and before the close.
Test(g) ==
    /\ pc[g] \in {"ramped", "sampled", "settle", "closed"}
    /\ \/ abort /\ Return(g, FALSE)
       \/ /\ ~abort /\ UNCHANGED ok
          /\ \/ At(g, "ramped") /\ stage[g] = 2 /\ NextStage(g, 3, "ramp")
             \/ At(g, "ramped") /\ stage[g] = 3 /\ NextStage(g, 4, "sample")
             \/ At(g, "sampled") /\ NextStage(g, 5, "mode")
             \/ At(g, "ramped") /\ stage[g] = 5 /\ NextStage(g, 6, "settle")
             \/ At(g, "settle") /\ NextStage(g, 6, "close")
             \/ At(g, "closed") /\ NextStage(g, 7, "publish")
    /\ UNCHANGED <<env, cmd, mode, did, late>>

Sequence(g) ==
    \/ PublishSafe(g) \/ Near(g) \/ Look(g)
    \/ SetServo(g) \/ SetMode(g) \/ Ramp(g) \/ Turn(g)
    \/ Sample(g) \/ Move(g) \/ MoveLast(g)
    \/ Close(g) \/ Test(g)
-----------------------------------------------------------------------------
(* _execute_follow_joint, after the sequence.                              *)

\* is_cancel_requested, then the transition: other threads come in between.
End(g) ==
    /\ At(g, "end")
    /\ Goto(g, IF gst[g] = "canceling" THEN "cancel" ELSE "result")
    /\ UNCHANGED <<flags, abort, gst, locals, others, data>>

\* Mutant: the flag is released after the transition, outside `finally`.
ConcludeRaises(g) ==
    /\ \/ /\ At(g, "cancel") /\ Finish(g, "canceled", {"canceling"})
          /\ Goto(g, IF gst[g] = "canceling" THEN "release" ELSE "over")
       \/ /\ At(g, "result")
          /\ Finish(g, IF ok[g] THEN "succeeded" ELSE "aborted", Running)
          /\ Goto(g, IF gst[g] \in Running THEN "release" ELSE "over")
    /\ UNCHANGED <<flags, abort, locals, others, data>>

\* succeed, abort and canceled raise if the goal has ended meanwhile; the
\* finally clause runs in any case.
Conclude(g) ==
    /\ \/ At(g, "cancel") /\ Finish(g, "canceled", {"canceling"})
       \/ /\ At(g, "result")
          /\ Finish(g, IF ok[g] THEN "succeeded" ELSE "aborted", Running)
    /\ Goto(g, "release")
    /\ UNCHANGED <<flags, abort, locals, others, data>>

Release(g) ==
    /\ At(g, "release")
    /\ busy' = FALSE
    /\ Goto(g, "forget")
    /\ UNCHANGED <<require_terminal_s, start_seq, handle, abort, gst,
                   locals, others, data>>

\* The callback returns: its locals are gone.
Forget(g) ==
    /\ At(g, "forget")
    /\ handle' = None
    /\ Goto(g, "over")
    /\ ok' = [ok EXCEPT ![g] = FALSE] /\ did' = [did EXCEPT ![g] = {}]
    /\ UNCHANGED <<require_terminal_s, start_seq, busy, abort, gst, stage,
                   k, others, cmd, mode, franka_q, late>>

Callback(g) ==
    \/ Execute(g) \/ StoreHandle(g) \/ Prepare(g) \/ Wait(g) \/ Begin(g)
    \/ Sequence(g)
    \/ End(g) \/ Conclude(g) \/ Release(g) \/ Forget(g)
-----------------------------------------------------------------------------
(* A message with the state of the arm: once it has got there, the arm is  *)
(* where the last target says; at first it is somewhere else.              *)

OnArmState ==
    /\ franka_q' = cmd.pose \/ (franka_q = Zero /\ franka_q' = Start)
    /\ UNCHANGED <<flags, abort, gst, pc, locals, others, cmd, mode, did,
                   late>>

Next ==
    \/ \E g \in Goals : GoalCallback(g) \/ CancelRequest(g) \/ Cancel(g)
    \/ \E g \in Goals : Callback(g)
    \/ PressS \/ PressT \/ Key
    \/ OnArmState

Spec == Init /\ [][Next]_vars

\* Threads that have something to do are scheduled.  Nobody has to press a
\* key, to cancel or to send a goal, and state messages may stay out.
Fairness ==
    /\ \A g \in Goals : WF_vars(Callback(g)) /\ WF_vars(Cancel(g))
    /\ WF_vars(Key)

FairSpec == Spec /\ Fairness
=============================================================================
