------------------------------- MODULE MCHand -------------------------------
(* Two threads of the RT process and the bridge, two joints.               *)
EXTENDS HandInvariants, TLC

CONSTANT other

mcRtThreads == {ecat, other}
mcServo     == {0, 257}
mcMode      == {2}
=============================================================================
