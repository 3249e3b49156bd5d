---------------------------- MODULE MCArmSystem ----------------------------
(* A small instance of ArmSystem: two joints, two waypoints.  Joint 2 does *)
(* not reach 0.0, as joints 4 and 6 of the FR3 do not.                     *)
EXTENDS ArmInvariants, TLC

mcVal      == 0 .. 3
mcInLimits == <<{0, 1, 2}, {1, 2}>>
mcFar      == {p \in mcVal \X mcVal : p[1] # p[2]}

Pt(q, t) == [positions |-> q, time |-> t]

Good  == [joint_names |-> <<1, 2>>, points |-> <<Pt(<<1, 1>>, 1), Pt(<<2, 2>>, 2)>>]
Swap  == [joint_names |-> <<2, 1>>, points |-> <<Pt(<<1, 0>>, 1), Pt(<<2, 1>>, 3)>>]
Short == [joint_names |-> <<>>,     points |-> <<Pt(<<1>>, 1)>>]
Stall == [joint_names |-> <<1, 0>>, points |-> <<Pt(<<1, 2>>, 2), Pt(<<2, 1>>, 2)>>]
Wide  == [joint_names |-> <<1, 2>>, points |-> <<Pt(<<1, 1>>, 1), Pt(<<3, 1>>, 2)>>]

mcTwoTraj    == {Good, Swap}
mcMailTrajs  == {Good, Swap, Stall, Short}
mcLiveTrajs  == {Good, Wide}
mcTargetMsgs == {<<1, 2>>, <<2, 1>>}
mcLiveTargets == {<<1, 2>>, <<0, 0>>}
mcNone       == {}
mcSpeedMsgs  == {0, 5, 2000, NaN}
=============================================================================
