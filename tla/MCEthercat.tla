----------------------------- MODULE MCEthercat -----------------------------
(* A line of N slaves (the code drives one or two hands).                  *)
EXTENDS EthercatInvariants, TLC
=============================================================================
