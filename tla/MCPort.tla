------------------------------- MODULE MCPort -------------------------------
(* Three of the sixteen buffers, so that the search comes round.           *)
EXTENDS PortInvariants, TLC

CONSTANTS ecatcheck, ecat, none
mcCallers == {ecatcheck}
=============================================================================
