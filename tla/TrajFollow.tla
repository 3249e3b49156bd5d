----------------------------- MODULE TrajFollow -----------------------------
(***************************************************************************)
(* Inside robot.control in executeTrajFromShm: the callback that turns the *)
(* copied trajectory into a joint command at every control period.  One    *)
(* joint stands for the seven, which lerp7 treats alike.  Times are ticks, *)
(* positions integers, and a command is the fraction num / den.            *)
(***************************************************************************)
EXTENDS Integers

CONSTANTS
    MaxPts,         \* ARM_TRAJ_MAX_PTS
    Lower, Upper,   \* the joint's limits
    Horizon,        \* bound on the times of the waypoints
    Grace,          \* the 50 ms between the end of the path and MotionFinished
    Periods,        \* the control periods libfranka may report (0 at the first)
    VMax,           \* a speed the publisher's trajectories keep to, see NoJump
    Junk            \* what the memory behind the two vectors may hold

ASSUME FollowAssumption ==
    /\ MaxPts \in Nat \ {0} /\ Horizon \in Nat /\ Grace \in Nat
    /\ Lower \in Int /\ Upper \in Int /\ Lower <= Upper
    /\ Periods \subseteq Nat \ {0}
    /\ \A p \in Periods : p <= Grace
    /\ VMax \in Nat
    /\ Junk \subseteq Int

VARIABLES
    len, q, t,      \* waypoints and times, as copied and validated
    elapsed,
    cmd,            \* the command returned last
    st              \* "entered", "moving", "finished" or "thrown"

traj == <<len, q, t>>
vars == <<traj, elapsed, cmd, st>>

UpTo(k) == 1 .. k

Fraction == [num : Int, den : Nat \ {0}]

FollowTypeOK ==
    /\ len \in UpTo(MaxPts)
    /\ q \in [UpTo(len) -> Lower .. Upper]
    /\ t \in [UpTo(len) -> 0 .. Horizon]
    /\ elapsed \in Nat
    /\ cmd \in Fraction
    /\ st \in {"entered", "moving", "finished", "thrown"}

\* validateWaypoint and the test of the times let these trajectories through: one
\* waypoint or more, the first at any time.
Init ==
    /\ len \in UpTo(MaxPts)
    /\ q \in [UpTo(len) -> Lower .. Upper]
    /\ t \in [UpTo(len) -> 0 .. Horizon]
    /\ \A i \in UpTo(len) : i > 1 => t[i] > t[i - 1]
    /\ elapsed = 0
    /\ cmd = [num |-> q[1], den |-> 1]
    /\ st = "entered"
-----------------------------------------------------------------------------
total_dur == t[len]

\* Mutant: the comparison with the end of the segment is missing.
ContainingHalf(e) == {i \in 1 .. len - 1 : e >= t[i]}

\* The segments that contain e; from the first time to the end there is one.
Containing(e) == {i \in 1 .. len - 1 : e >= t[i] /\ e < t[i + 1]}

\* Mutant: the last segment unless one contains e.
SegmentOrLast(e) ==
    IF Containing(e) = {} THEN IF len > 2 THEN len - 1 ELSE 1
    ELSE CHOOSE i \in Containing(e) : \A k \in Containing(e) : i <= k

\* The search for the segment: 1 unless a later one contains e.
Segment(e) == IF Containing(e) = {} THEN 1
              ELSE CHOOSE i \in Containing(e) : \A k \in Containing(e) : i <= k

\* Mutant: from the end of the segment to its start.
LerpBackwards(a, b, s, u, e) ==
    IF u > s THEN [num |-> b * (u - s) + (e - s) * (a - b), den |-> u - s]
             ELSE [num |-> a, den |-> 1]

\* lerp7 from a at time s to b at time u; alpha is 0 when they coincide.
Lerp(a, b, s, u, e) ==
    IF u > s THEN [num |-> a * (u - s) + (e - s) * (b - a), den |-> u - s]
             ELSE [num |-> a, den |-> 1]

\* The commands the callback may return at e.  With one waypoint there is no
\* second one: waypoints[1] and times[1] are read past the end of the vectors.
Desired(e) ==
    IF e >= total_dur THEN {[num |-> q[len], den |-> 1]}
    ELSE LET i == Segment(e)
         IN  IF i < len THEN {Lerp(q[i], q[i + 1], t[i], t[i + 1], e)}
             ELSE {Lerp(q[1], b, t[1], u, e) : b \in Junk, u \in Junk}

\* Mutant: no grace period.
CallbackCurt(p) ==
    /\ elapsed' = elapsed + p
    /\ cmd' \in Desired(elapsed')
    /\ st' = IF elapsed' >= total_dur THEN "finished" ELSE "moving"
    /\ UNCHANGED traj

\* Mutant: the time is restarted with every call.
CallbackStuck(p) ==
    /\ elapsed' = p
    /\ cmd' \in Desired(elapsed')
    /\ st' = IF elapsed' >= total_dur + Grace THEN "finished" ELSE "moving"
    /\ UNCHANGED traj

Callback(p) ==
    /\ elapsed' = elapsed + p
    /\ cmd' \in Desired(elapsed')
    /\ st' = IF elapsed' >= total_dur + Grace THEN "finished" ELSE "moving"
    /\ UNCHANGED traj

\* libfranka calls the callback first with a period of 0.
FirstCall == st = "entered" /\ Callback(0)

NextCall == st = "moving" /\ \E p \in Periods : Callback(p)

\* robot.control throws; FrankaArm has what follows.
Throw ==
    /\ st \in {"entered", "moving"}
    /\ st' = "thrown"
    /\ UNCHANGED <<traj, elapsed, cmd>>

Next == FirstCall \/ NextCall \/ Throw

Spec == Init /\ [][Next]_vars

\* libfranka keeps calling.
FairSpec == Spec /\ WF_vars(FirstCall \/ NextCall)
-----------------------------------------------------------------------------
Commanding == st \in {"moving", "finished"}

WithinLimits(c) == Lower * c.den <= c.num /\ c.num <= Upper * c.den

\* The command at time 0: the first segment extended backwards.
FirstCommand == Lerp(q[1], q[2], t[1], t[2], 0)

\* From the first waypoint's time on, the validated waypoints keep every command
\* within the limits, one waypoint or many.  Before that time no waypoint bounds
\* it: with two waypoints or more it keeps the limits if the first command does,
\* which nobody validates.
FirstCommandDecides ==
    Commanding /\ (t[1] <= elapsed \/ (len > 1 /\ WithinLimits(FirstCommand)))
        => WithinLimits(cmd)

\* The search and lerp7 give the polygon through the waypoints: on every
\* segment, its two ends included, the command is the point the elapsed time
\* says, and the last waypoint afterwards.
OnPath ==
    Commanding =>
        /\ \A i \in 1 .. len - 1 :
             t[i] <= elapsed /\ elapsed <= t[i + 1]
               => (cmd.num - q[i] * cmd.den) * (t[i + 1] - t[i])
                    = cmd.den * (elapsed - t[i]) * (q[i + 1] - q[i])
        /\ elapsed >= total_dur => cmd.num = q[len] * cmd.den

Abs(x) == IF x < 0 THEN -x ELSE x

\* When no segment is steeper than VMax, no two commands are further apart than
\* VMax allows in the time between them: before the first waypoint, over the
\* corners and over the end of the path as well.  One waypoint gives no segment,
\* and nothing bounds the commands before its time.
NoJump ==
    [][ (st = "moving" /\ Commanding' /\ (len > 1 \/ t[1] <= elapsed) /\
          \A i \in 1 .. len - 1 : Abs(q[i + 1] - q[i]) <= VMax * (t[i + 1] - t[i]))
        => Abs(cmd'.num * cmd.den - cmd.num * cmd'.den)
             <= VMax * (elapsed' - elapsed) * cmd.den * cmd'.den ]_vars

\* MotionFinished is returned at rest: the command before it was the last
\* waypoint already, as it is itself ("Finish 50 ms after the end").
FinishesAtRest ==
    [][ st = "moving" /\ st' = "finished"
        => cmd.num = q[len] * cmd.den /\ cmd'.num = q[len] * cmd'.den ]_vars

\* The motion comes to an end.
Ends == <>(st \in {"finished", "thrown"})
=============================================================================
