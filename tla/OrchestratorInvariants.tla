----------------------- MODULE OrchestratorInvariants -----------------------
(***************************************************************************)
(* What Orchestrator promises, and the inductive invariant behind the      *)
(* safety part of it.                                                      *)
(***************************************************************************)
EXTENDS Orchestrator
-----------------------------------------------------------------------------

\* A callback owns the orchestrator from the goal's acceptance until it
\* releases _goal_busy.
Owns(g) == pc[g] \notin {"idle", "forget", "over"}

\* One goal at a time: never do two callbacks drive the arm and the hand,
\* although the goals are tested in one thread and executed in others.
OneOwner == \A g, h \in Goals : Owns(g) /\ Owns(h) => g = h

\* The hand closes only after this goal's own trajectory has been sent to the
\* end and the hand has been put in place, and then the arm's target is the
\* trajectory's last pose or a hold: an abort that cuts a step short is still
\* set when the step that follows looks for it.
ClosesAtGrasp ==
    \A g \in Goals : "closed" \in did[g] =>
        /\ {"safe", "grasp", "path", "saved"} \subseteq did[g]
        /\ At(g, "closed") => /\ mode = "position"
                              /\ cmd.by = "hold" \/ cmd.pose = Point(g, Last)

\* A goal that is reported as succeeded went through all seven stages, and
\* the arm was seen at franka_safe at the end.
SucceededIsComplete ==
    \A g \in Goals : gst[g] = "succeeded" /\ ~At(g, "over") => did[g] = Milestones

\* After abort_event has been set, and unless it is cleared for a new
\* sequence, at most two more targets go out: no step of the sequence repeats
\* without looking at the event.
StopsSoon == late <= 2

\* Without --require-terminal-s every accepted goal gets its result, and the
\* orchestrator is free for the next, whichever exit the callback takes.
GoalEnds ==
    \A g \in Goals : gst[g] = "accepted" /\ ~require_terminal_s
                        ~> gst[g] \in Terminal /\ ~busy

\* A goal that waits for S can be got rid of: t and cancel requests, which set
\* the event, end the wait without S.
WaitCanBeLeft == \A g \in Goals : pc[g] \in InWait /\ abort ~> At(g, "over")

-----------------------------------------------------------------------------
(* The inductive invariant                                                 *)

\* Only an owner steps, clears the event or sends a target, and there is one.
OwnerInv == OneOwner /\ \A g \in Goals : Owns(g) => busy

\* Which stages a place of the sequence belongs to.
StagesAt(place) ==
    CASE place \in {"publish", "near", "look"}           -> {1, 7}
      [] place = "servo"                                 -> {2}
      [] place = "mode"                                  -> {2, 5}
      [] place \in {"ramp", "turn", "ramped"}            -> {2, 3, 5}
      [] place \in {"sample", "move", "last", "sampled"} -> {4}
      [] place \in {"settle", "close", "closed"}         -> {6}
      [] OTHER                                           -> 0..7

StageInv ==
    \A g \in Goals : /\ stage[g] \in StagesAt(pc[g])
                     /\ pc[g] \in {"sample", "move"} => k[g] <= Last

\* A stage is entered with the ones before it done; a loop that was cut short
\* leaves the event set.
Milestone(g, m, s) == pc[g] \in InSequence /\ stage[g] >= s => m \in did[g]

DoneInv ==
    \A g \in Goals :
        /\ Milestone(g, "safe", 2) /\ Milestone(g, "grasp", 4)
        /\ Milestone(g, "path", 5) /\ Milestone(g, "saved", 6)
        /\ Milestone(g, "closed", 7)
        /\ pc[g] = "ramped" /\ ~abort => RampTo(stage[g]) \subseteq did[g]
        /\ pc[g] = "sampled" /\ ~abort => "path" \in did[g]
        /\ pc[g] = "closed" => "closed" \in did[g]
        /\ "closed" \in did[g] => {"safe", "grasp", "path", "saved"} \subseteq did[g]

\* The value True and the status succeeded stand for a complete sequence.
ResultInv ==
    \A g \in Goals :
        /\ gst[g] = "new" => pc[g] = "idle"
        /\ ok[g] => did[g] = Milestones
                    /\ pc[g] \in {"end", "cancel", "result", "release", "forget"}
        /\ gst[g] = "succeeded" /\ pc[g] # "over" => did[g] = Milestones

\* From the end of the trajectory to stage 7 the arm's target does not change,
\* except into a hold.
AtGrasp(g) == cmd.by = "hold" \/ cmd.pose = Point(g, Last)

GraspInv ==
    \A g \in Goals :
        /\ pc[g] \in InSequence /\ stage[g] \in {5, 6} => AtGrasp(g)
        /\ pc[g] = "sampled" /\ ~abort => AtGrasp(g)
        /\ pc[g] \in InSequence /\ stage[g] \in {5, 6} /\ pc[g] # "mode"
             => mode = "position"

\* How many targets may still go out before the event is looked at.
Left(g) ==
    CASE pc[g] \in {"publish", "turn", "last", "close"} -> 1
      [] pc[g] = "look"  -> IF stage[g] = 1 THEN 2 ELSE 1
      [] pc[g] = "servo" -> 2
      [] pc[g] = "mode"  -> 1
      [] pc[g] = "move"  -> IF k[g] < Last THEN 1 ELSE 2
      [] OTHER           -> 0

LateInv ==
    /\ ~abort => late = 0
    /\ late <= 2
    /\ \A g \in Goals : abort /\ Owns(g) => late + Left(g) <= 2

OrchInv == TypeOK /\ OwnerInv /\ StageInv /\ DoneInv /\ ResultInv /\ GraspInv /\ LateInv
=============================================================================
