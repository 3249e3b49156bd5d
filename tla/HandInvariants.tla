--------------------------- MODULE HandInvariants ---------------------------
(* What the shared segment and the hand commands in it promise.            *)
EXTENDS HandLink

\* Type correctness of the segments, of the threads and of the hand.
HandTypeOK ==
    /\ key \in 0 .. MaxSegs /\ made \in 0 .. MaxSegs
    /\ num \in [Segs -> Int]
    /\ pc \in [Clients -> {"down", "on"} \cup Starting \cup Stopping]
    /\ at \in [Clients -> 0 .. MaxSegs] /\ seen \in [Clients -> Int]
    /\ starts \in 0 .. MaxStarts /\ sent \in 0 .. MaxSent
    /\ words \in [Segs -> [servo : Byte, mode : Byte, tar : Targets, pos : Targets, armed : Targets]]
    /\ bpc \in {"idle", "tar", "read"} /\ bj \in Joints /\ bmsg \in 0 .. MaxSent
    /\ bread \in Targets
    /\ epc \in {"recv", "servo", "mode", "tar", "pos", "send"} /\ ej \in Joints
    /\ {tx, hand} \subseteq [status1 : {0, 65535}, status2 : Byte, tar : Targets, armed : Targets]
    /\ rx \in Targets /\ hpos \in Targets
    /\ flight \in Targets \cup {NoFrame}

\* All that are attached and done with init_shm share the segment that the key
\* leads to: no deleteSharedMemory has removed it under a process in use.
Together ==
    \A c, d \in Clients \ {main} :
        pc[c] = "on" /\ pc[d] = "on" => at[c] = at[d] /\ at[c] # 0

\* The clean start of a process never wipes what another one has written.
WipesNobody ==
    \A c, d \in Clients \ {main} :
        pc[c] = "wipe" /\ Process(d) # Process(c) /\ at[c] = at[d] => pc[d] # "on"

\* When the servo is switched on with a target in place, the hand does not get one
\* that is older: ecatthread reads servo_on before the targets (lines 229-242).
ArmedWithTarget ==
    hand.status1 # 0 => \A j \in Joints : hand.tar[j] >= hand.armed[j]

\* Both ways end at the same place: once nobody sends, starts or stops any more,
\* the hand has the last command in shared memory, and the bridge publishes where
\* the hand is.
Told      == /\ hand.tar = words[E].tar /\ hand.status2 = words[E].mode
             /\ (hand.status1 # 0) = (words[E].servo = 1)
Heard     == bread = hpos
Delivered == <>[](pc[ecat] = "on" /\ pc[bridge] = "on" => Told /\ Heard)
=============================================================================
