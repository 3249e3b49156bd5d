------------------------------- MODULE MCSdo -------------------------------
(* Two subindexes of one index, one of them in segments.                   *)
EXTENDS SdoInvariants, TLC

mcObjects == {<<1, 1>>, <<1, 2>>}
mcParts   == [o \in mcObjects |-> IF o[2] = 1 THEN 0 ELSE 2]
=============================================================================
