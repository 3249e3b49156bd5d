--------------------------- MODULE MCOrchestrator ---------------------------
(* Two valid goals and one that is refused.                                *)
EXTENDS OrchestratorInvariants, TLC

CONSTANTS g1, g2, bad

mcTwo    == {g1, g2}
mcOne    == {g1}
mcOneBad == {g1, bad}
mcSym   == Permutations({g1, g2})
=============================================================================
