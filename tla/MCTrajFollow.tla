---------------------------- MODULE MCTrajFollow ----------------------------
(* A few waypoints within -1..2 at small times; periods of one tick and,   *)
(* after a lost packet, of two.                                            *)
EXTENDS TrajFollow

mcLower   == -1
mcPeriods == {1, 2}
mcJunk    == {-3, 0, 7}
=============================================================================
