------------------------- MODULE EthercatInvariants -------------------------
(* What the supervision of the slaves in EthercatMaster promises.          *)
EXTENDS EthercatMaster

MainLabels == {"init", "config", "safeop", "askop", "writeop", "dorun", "checkop",
               "isop", "running", "asksafe", "writesafe", "close", "exited"}
ChkLabels  == {"idle", "brd", "fprd", "visit", "init", "preop", "safeop", "fmmu",
                "lost", "setadr"}

\* Type correctness of the master and of the slaves.
MasterTypeOK ==
    /\ pcM \in MainLabels
    /\ pcC \in {"start", "first", "unsent", "sent"}
    /\ pcK \in ChkLabels
    /\ slave \in Slaves
    /\ wkc \in Int
    /\ dorun \in {-1, 0, 1}
    /\ expectedWKC \in {0, 3 * N}
    /\ slstate \in [0 .. N -> 0 .. 31]
    /\ islost \in [Slaves -> BOOLEAN]
    /\ docheckstate \in BOOLEAN /\ passed \in BOOLEAN /\ doubled \in BOOLEAN
    /\ sock \in BOOLEAN
    /\ al \in [Slaves -> AlStates]
    /\ addr \in [Slaves -> 0 .. N + 1]
    /\ fmmu \in [Slaves -> BOOLEAN]
    /\ reach \in 0 .. N
    /\ faults \in 0 .. MaxFaults

\* ethercat_run is on its way down without ever having run (line 466).
GaveUp == pcM \in {"asksafe", "writesafe", "close", "exited"}

\* ecatcheck forgets no slave: when it goes to sleep with docheckstate FALSE, the
\* state it has of every slave is OPERATIONAL and none is marked lost - whatever
\* the slaves have done meanwhile, and although ethercat_run reads and writes
\* ec_slave[] at the same time.
NotForgotten ==
    pcK = "idle" /\ passed /\ ~docheckstate /\ ~GaveUp
      => \A s \in Slaves : slstate[s] = EC_STATE_OPERATIONAL /\ ~islost[s]

\* ecatthread may clear dorun after ethercat_run has set it (lines 203 and 455), and
\* then the cyclic exchange never starts.  At least the work counter does not
\* look complete, so that ecatcheck goes on asking.
LostStartIsSeen ==
    pcM \in {"checkop", "isop", "running"} /\ dorun = 0 => wkc < expectedWKC

\* The supervision resets no slave that works: a slave in OPERATIONAL is sent to
\* INIT only by a loss of power of its own - until a slave that was cut off in the
\* middle of ec_recover_slave has come back with the address of another: what is read
\* at that address may then be the state of the one and the request reach the other.
HealthySpared ==
    [][\A s \in Slaves : al[s] = EC_STATE_OPERATIONAL /\ al'[s] = EC_STATE_INIT /\ pcM' = pcM
                            => addr'[s] = NoAdr \/ doubled]_vars

\* Nothing is left to do: every slave works and the work counter says so.
AllOperational ==
    /\ \A s \in Slaves : al[s] = EC_STATE_OPERATIONAL
    /\ wkc = expectedWKC

\* What the recovery cannot repair: a slave cut off while it had the temporary
\* address, or (Twins) that of another, or one that was cut off just before its
\* FMMUs were written and is OPERATIONAL without them, and a line on which every
\* slave has lost its power: then the broadcast of ec_readstate is answered by all,
\* no slave counts as lost, and ec_reconfig_slave asks an address nobody has.
Stuck ==
    \/ \A s \in Slaves : al[s] = EC_STATE_INIT /\ addr[s] = NoAdr
    \/ \E s \in Slaves : addr[s] \notin {s, NoAdr}
    \/ \E s \in Slaves : al[s] = EC_STATE_OPERATIONAL /\ ~fmmu[s]

\* Once the faults are over, ecatcheck brings every slave back to OPERATIONAL and
\* the process data flow again - unless the exchange has been stopped, the
\* program ends, or a slave is stuck for the reasons above.
Recovers == <>[](AllOperational \/ Stuck \/ dorun < 1 \/ pcM # "running")

\* The same without the exception of Stuck: "OK : all slaves resumed OPERATIONAL."
\* (line 377), and ec_recover_slave is there for a slave with "no config address".
ResumesOperational == <>[](AllOperational \/ dorun < 1 \/ pcM # "running")
=============================================================================
