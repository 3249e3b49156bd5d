----------------------------- MODULE ArmMailbox -----------------------------
(***************************************************************************)
(* What the trajectory buffer promises to publishers that use it one       *)
(* trajectory at a time: a mailbox of one slot.  A trajectory posted is    *)
(* run once, as posted, or dropped; it is never run twice, altered, or run *)
(* together with another.                                                  *)
(***************************************************************************)
CONSTANT Trajs      \* the trajectories

VARIABLES
    box,            \* {} or the one trajectory waiting
    running         \* {} or the one trajectory the robot follows

mailVars == <<box, running>>

MailInit == box = {} /\ running = {}

Post ==
    /\ box = {} /\ running = {}
    /\ \E t \in box' : t \in Trajs /\ box' = {t}
    /\ UNCHANGED running

Run == box # {} /\ running = {} /\ running' = box /\ box' = {}

\* An invalid trajectory is refused; an exception or a reconnection empties
\* the box.
Drop == box # {} /\ box' = {} /\ UNCHANGED running

Finish == running # {} /\ running' = {} /\ UNCHANGED box

MailNext == Post \/ Run \/ Drop \/ Finish

MailSpec == MailInit /\ [][MailNext]_mailVars
=============================================================================
