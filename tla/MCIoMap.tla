------------------------------ MODULE MCIoMap ------------------------------
(* Hands of two bytes out and three in, terminals of a few bits, a slave with
   two sync managers side by side and two with a gap, one without data, and one
   with two gaps and more inputs than a frame takes. *)
EXTENDS IoMapInvariants, TLC

SM(start, bits) == [start |-> start, bits |-> bits]

mcLayouts == {
    [out |-> <<SM(0, 16)>>, in |-> <<SM(8, 24)>>],
    [out |-> <<SM(0, 4)>>, in |-> <<SM(8, 6)>>],
    [out |-> <<SM(0, 5)>>, in |-> <<>>],
    [out |-> <<>>, in |-> <<SM(0, 8), SM(4, 16)>>],
    [out |-> <<SM(0, 8), SM(1, 16)>>, in |-> <<>>],
    [out |-> <<SM(0, 8), SM(2, 8), SM(4, 8)>>, in |-> <<SM(8, 40)>>],
    [out |-> <<>>, in |-> <<>>]}
=============================================================================
