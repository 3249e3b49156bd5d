--------------------------- MODULE SdoInvariants ---------------------------
(***************************************************************************)
(* The properties of SdoRead.                                              *)
(***************************************************************************)
EXTENDS SdoRead

Whole(o) == [k \in 1 .. Parts[o] + 1 |-> <<o, k - 1>>]

\* A read that succeeds has copied the object that was asked for, every part
\* once and in order, whatever frames were lost on the way of the answers: if
\* no older answer was due when it asked, none of its requests arrived although
\* it was taken for lost, and no timer of its own ran out.
ReadExact == pc = "idle" /\ ok /\ clean => value = Whole(obj)

\* Such a read leaves nothing behind that the next one could take for its
\* answer.
LeavesNothing == pc = "idle" /\ ok /\ clean => sm0 = NONE /\ NothingDue

\* The slave cannot answer because its last message has not been read, and the
\* loop over the segments, which does not read before it has sent, cannot send.
Embrace == notlast /\ sm0 # NONE /\ sm1 # NONE

\* Every read returns when the losses end, however often its timers run out,
\* unless both mailboxes are full: the loop over the segments has no limit.
ReadReturns == pc # "idle" ~> pc = "idle" \/ Embrace
=============================================================================
