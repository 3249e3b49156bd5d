--------------------------- MODULE EthercatMaster ---------------------------
(***************************************************************************)
(* The three threads of the RT process that share the EtherCAT master:     *)
(* ethercat_run (start-up and shutdown), ecatthread (the cyclic exchange)  *)
(* and ecatcheck (supervision and recovery of the slaves), with the SOEM   *)
(* functions they call on ec_slave[] and the line of slaves they drive.    *)
(*                                                                         *)
(* None of the shared variables is protected.  A step is one exchange on   *)
(* the bus with the assignments that follow it, or one access to a shared  *)
(* variable.  The process data of the hands are in HandLink, the frames of *)
(* an exchange in EcPort: here an exchange reaches the first `reach`       *)
(* slaves of the line, and an exchange that is lost is one for which the   *)
(* line is cut and restored around it.                                     *)
(***************************************************************************)
EXTENDS Integers, FiniteSets

CONSTANTS
    N,              \* ec_slavecount once ec_config has run
    MaxFaults,      \* bound on what the line and its slaves may do unasked,
    MaxEarlyFaults  \* ... and while ethercat_run is starting or stopping

ASSUME NAssumption == N \in Nat \ {0}
ASSUME FaultsAssumption == MaxFaults \in Nat /\ MaxEarlyFaults \in 0 .. MaxFaults

Slaves == 1 .. N

\* The AL states, and the bit that is ERROR when read and ACK when written.
EC_STATE_NONE        == 0
EC_STATE_INIT        == 1
EC_STATE_PRE_OP      == 2
EC_STATE_SAFE_OP     == 4
EC_STATE_OPERATIONAL == 8
EC_STATE_ERROR       == 16
EC_STATE_ACK         == 16
EC_NOFRAME           == -1

NoAdr       == 0        \* a slave after power-on; the configured address of slave s is s
EC_TEMPNODE == N + 1

Bases    == {EC_STATE_INIT, EC_STATE_PRE_OP, EC_STATE_SAFE_OP, EC_STATE_OPERATIONAL}
AlStates == Bases \cup {b + EC_STATE_ERROR : b \in Bases}

VARIABLES
    pcM,            \* ethercat_run
    pcC,            \* ecatthread
    pcK, slave,     \* ecatcheck and its loop variable
    dorun,          \* 0, or the sign of the cycle counter
    wkc, expectedWKC,
    slstate,        \* ec_slave[0 .. N].state
    islost, docheckstate,
    sock,           \* the port is open
    al, addr, fmmu, \* the slaves: AL status, station address, FMMUs programmed
    reach,          \* how many slaves of the line a frame passes
    faults,
    passed,         \* history: ecatcheck has completed a pass
    doubled         \* history: two slaves have had one address

mainVars == <<pcM, expectedWKC, sock>>
cycVars  == <<pcC, dorun, wkc>>
chkVars  == <<pcK, slave, islost, docheckstate, passed, doubled>>
devVars  == <<al, addr, fmmu>>
lineVars == <<reach, faults>>
vars     == <<mainVars, cycVars, chkVars, slstate, devVars, lineVars>>

-----------------------------------------------------------------------------
(* The bus.                                                                *)

\* How a slave answers a request on AL control: INIT always, otherwise one
\* step up or any number down; an error must be acknowledged first.
React(a, req) ==
    LET base == a % EC_STATE_ERROR
        want == req % EC_STATE_ERROR
    IN  IF want = EC_STATE_INIT THEN EC_STATE_INIT
        ELSE IF a >= EC_STATE_ERROR /\ req < EC_STATE_ACK THEN a
        ELSE IF want \in Bases /\ want <= 2 * base THEN want
        ELSE base + EC_STATE_ERROR

Hit(adr) == IF sock THEN {s \in 1 .. reach : addr[s] = adr} ELSE {}
Passed   == IF sock THEN 1 .. reach ELSE {}

\* FPRD of the AL status: 0 without an answer; of two slaves with one address
\* the farther one answers last.
FPRD(adr) == IF Hit(adr) = {} THEN 0
             ELSE al[CHOOSE s \in Hit(adr) : \A r \in Hit(adr) : r <= s]

\* FPWR and BWR of AL control.
FPWR(adr, req) == al' = [s \in Slaves |-> IF s \in Hit(adr) THEN React(al[s], req) ELSE al[s]]
BWR(req)       == al' = [s \in Slaves |-> IF s \in Passed THEN React(al[s], req) ELSE al[s]]

\* BRD of the AL status: the bitwise OR of all that answer.
BRD ==
    LET Bit(b) == IF \E s \in Passed : al[s] % EC_STATE_ERROR = b THEN b ELSE 0
    IN  Bit(1) + Bit(2) + Bit(4) + Bit(8)
          + (IF \E s \in Passed : al[s] >= EC_STATE_ERROR THEN EC_STATE_ERROR ELSE 0)

\* What an LRW of the process image adds to its work counter: outputs twice,
\* inputs once; a slave that is not operational takes no outputs.
Serving(st) == {s \in 1 .. reach : fmmu[s] /\ al[s] % EC_STATE_ERROR = st}
Work == 3 * Cardinality(Serving(EC_STATE_OPERATIONAL)) + Cardinality(Serving(EC_STATE_SAFE_OP))

\* The end of ecx_readstate, after the broadcast has not settled the matter.
FprdStates == [s \in Slaves |-> FPRD(s)]
Lowest(st) == LET L == {st[s] % EC_STATE_ERROR : s \in Slaves}
              IN  CHOOSE l \in L : \A m \in L : l <= m

\* The broadcast settles it: every slave answered, all alike, no error.
BrdSettles == Cardinality(Passed) >= N /\ BRD \in Bases

\* The first half of ecx_readstate.
ReadBroadcast ==
    LET base == BRD % EC_STATE_ERROR
    IN  slstate' = [s \in 0 .. N |->
                      IF s = 0 THEN IF base \in Bases THEN base ELSE slstate[0]
                      ELSE IF BrdSettles THEN base ELSE slstate[s]]

\* The second half.
ReadEach == slstate' = [s \in 0 .. N |-> IF s = 0 THEN Lowest(FprdStates) ELSE FPRD(s)]

\* Two slaves answer to one address.
Twins == \E r, s \in Slaves : r # s /\ addr[r] = addr[s] /\ addr[r] # NoAdr

-----------------------------------------------------------------------------
Init ==
    /\ pcM = "init" /\ pcC = "start" /\ pcK = "idle"
    /\ dorun = 0 /\ wkc = 0 /\ expectedWKC = 0
    /\ slave = 1 /\ islost = [s \in Slaves |-> FALSE]
    /\ docheckstate = FALSE /\ passed = FALSE /\ doubled = FALSE
    /\ slstate = [s \in 0 .. N |-> EC_STATE_NONE]
    /\ sock = FALSE
    /\ al = [s \in Slaves |-> EC_STATE_INIT]
    /\ addr = [s \in Slaves |-> NoAdr]
    /\ fmmu = [s \in Slaves |-> FALSE]
    /\ reach = N /\ faults = 0

Alive == pcM # "exited"
Fault ==
    /\ Alive /\ pcM # "init"
    /\ faults < (IF pcM = "running" THEN MaxFaults ELSE MaxEarlyFaults)
    /\ faults' = faults + 1

-----------------------------------------------------------------------------
(* ethercat_run                                                            *)

MainGoes(from, to) == pcM = from /\ pcM' = to
MainOnly == UNCHANGED <<cycVars, chkVars, lineVars>>

\* ec_init: the socket is opened, or the function returns and main with it.
EcInit ==
    /\ \/ MainGoes("init", "config") /\ sock' = TRUE
       \/ MainGoes("init", "exited") /\ UNCHANGED sock
    /\ UNCHANGED <<expectedWKC, slstate, devVars>> /\ MainOnly

\* ec_config and ec_configdc: every slave has its address and its FMMUs and
\* has been asked for SAFE_OP, from which it may Drop.  No slave: ec_close, return.
EcConfig ==
    /\ \/ /\ MainGoes("config", "safeop")
          /\ reach = N
          /\ addr' = [s \in Slaves |-> s]
          /\ fmmu' = [s \in Slaves |-> TRUE]
          /\ al' = [s \in Slaves |-> EC_STATE_SAFE_OP]
          /\ UNCHANGED sock
       \/ MainGoes("config", "exited") /\ sock' = FALSE /\ UNCHANGED devVars
    /\ UNCHANGED <<expectedWKC, slstate>> /\ MainOnly

\* ec_statecheck(0, EC_STATE_SAFE_OP), ec_readstate and the work counter that all
\* slaves together make: until it is set ecatcheck sleeps, so that this can be one step.
FirstStates ==
    /\ MainGoes("safeop", "askop")
    /\ expectedWKC' = 3 * N
    /\ slstate' = [s \in 0 .. N |->
                     IF s = 0 THEN IF BrdSettles THEN BRD ELSE Lowest(FprdStates)
                     ELSE FPRD(s)]
    /\ UNCHANGED <<sock, devVars>> /\ MainOnly

\* ec_slave[0].state = ...: a variable that ec_readstate of ecatcheck writes too.
SetRequest(from, to, st) ==
    /\ MainGoes(from, to)
    /\ slstate' = [slstate EXCEPT ![0] = st]
    /\ UNCHANGED <<expectedWKC, sock, devVars>> /\ MainOnly

\* ec_writestate(0)
WriteRequest(from, to) ==
    /\ MainGoes(from, to)
    /\ BWR(slstate[0])
    /\ UNCHANGED <<expectedWKC, sock, slstate, addr, fmmu>> /\ MainOnly

StartExchange ==
    /\ MainGoes("dorun", "checkop")
    /\ dorun' = 1
    /\ UNCHANGED <<expectedWKC, sock, pcC, wkc, chkVars, slstate, devVars, lineVars>>

\* ec_statecheck(0, EC_STATE_OPERATIONAL): until it is reached, or the time is up.
CheckOperational ==
    /\ MainGoes("checkop", "isop")
    /\ slstate' = [slstate EXCEPT ![0] = BRD]
    /\ UNCHANGED <<expectedWKC, sock, devVars>> /\ MainOnly

\* The branch on ec_slave[0].state; the other one reads the states again and
\* reports them before it goes the same way down.
IsOperational ==
    /\ \/ slstate[0] = EC_STATE_OPERATIONAL /\ MainGoes("isop", "running") /\ UNCHANGED slstate
       \/ /\ slstate[0] # EC_STATE_OPERATIONAL
          /\ MainGoes("isop", "asksafe")
          /\ \/ ReadEach
             \/ BrdSettles /\ ReadBroadcast
    /\ UNCHANGED <<expectedWKC, sock, devVars>> /\ MainOnly

\* signal_callback_handler sets the flag that the busy loop of line 466 waits for;
\* nothing else reads it.
StopRunning ==
    /\ MainGoes("running", "asksafe")
    /\ UNCHANGED <<expectedWKC, sock, slstate, devVars>> /\ MainOnly

\* ec_close, then main returns and the process ends with its threads.
EcClose ==
    /\ MainGoes("close", "exited")
    /\ sock' = FALSE
    /\ UNCHANGED <<expectedWKC, slstate, devVars>> /\ MainOnly

Main ==
    \/ EcInit \/ EcConfig \/ FirstStates
    \/ SetRequest("askop", "writeop", EC_STATE_OPERATIONAL)
    \/ WriteRequest("writeop", "dorun")
    \/ StartExchange \/ CheckOperational \/ IsOperational
    \/ SetRequest("asksafe", "writesafe", EC_STATE_SAFE_OP)
    \/ WriteRequest("writesafe", "close")
    \/ EcClose

-----------------------------------------------------------------------------
(* ecatthread                                                              *)

CycOnly == UNCHANGED <<mainVars, chkVars, slstate, devVars, reach>>

CycZero ==
    /\ Alive /\ pcC = "start"
    /\ dorun' = 0 /\ pcC' = "first"
    /\ UNCHANGED <<wkc, faults>> /\ CycOnly

\* ec_send_processdata sends nothing before ec_config has mapped the group, and
\* nothing without a socket.
AfterSend == IF sock /\ expectedWKC > 0 THEN "sent" ELSE "unsent"

CycFirst ==
    /\ Alive /\ pcC = "first"
    /\ pcC' = AfterSend
    /\ UNCHANGED <<dorun, wkc, faults>> /\ CycOnly

\* Mutant: the frame is received before dorun is looked at.
CycExchangeIdle ==
    /\ Alive /\ pcC \in {"unsent", "sent"}
    /\ wkc' = IF pcC = "unsent" \/ reach = 0 THEN EC_NOFRAME ELSE Work
    /\ pcC' = AfterSend
    /\ UNCHANGED <<dorun, faults>> /\ CycOnly

\* One cycle: the work counter of the frame sent in the cycle before, dorun++ and
\* the next frame.  dorun is an int that cycles of 1 ms carry past INT_MAX in 25
\* days: the builds wrap it to a negative value.
CycExchange ==
    /\ Alive /\ pcC \in {"unsent", "sent"} /\ dorun > 0
    /\ wkc' = IF pcC = "unsent" \/ reach = 0 THEN EC_NOFRAME ELSE Work
    /\ \/ dorun' = 1 /\ UNCHANGED faults
       \/ dorun' = -1 /\ Fault
    /\ pcC' = AfterSend /\ CycOnly

Cyc == CycZero \/ CycFirst \/ CycExchange

-----------------------------------------------------------------------------
(* ecatcheck                                                               *)

ChkAt(at) == Alive /\ pcK = at
ChkGoes(from, to) == ChkAt(from) /\ pcK' = to
ChkOnly == UNCHANGED <<mainVars, cycVars, lineVars>> /\ doubled' = (doubled \/ Twins')

ChkWake ==
    /\ ChkGoes("idle", "brd")
    /\ wkc < expectedWKC \/ docheckstate
    /\ docheckstate' = FALSE
    /\ UNCHANGED <<slave, islost, passed, slstate, devVars>> /\ ChkOnly

ChkBroadcast ==
    /\ ChkAt("brd")
    /\ pcK' = (IF BrdSettles THEN "visit" ELSE "fprd")
    /\ ReadBroadcast
    /\ slave' = 1
    /\ UNCHANGED <<islost, docheckstate, passed, devVars>> /\ ChkOnly

ChkFprd ==
    /\ ChkGoes("fprd", "visit")
    /\ ReadEach
    /\ UNCHANGED <<slave, islost, docheckstate, passed, devVars>> /\ ChkOnly

\* The slave under the loop: nothing to do.
VisitFine ==
    /\ ChkGoes("visit", "lost")
    /\ slstate[slave] = EC_STATE_OPERATIONAL
    /\ UNCHANGED <<slave, islost, docheckstate, passed, slstate, devVars>> /\ ChkOnly

\* Mutant: the request is sent without the ACK bit.
VisitRequestNoAck(seen, req) ==
    /\ ChkGoes("visit", "lost")
    /\ slstate[slave] = seen
    /\ docheckstate' = TRUE
    /\ slstate' = [slstate EXCEPT ![slave] = req]
    /\ FPWR(slave, req % EC_STATE_ACK)
    /\ UNCHANGED <<slave, islost, passed, addr, fmmu>> /\ ChkOnly

\* SAFE_OP + ERROR is acknowledged, SAFE_OP is asked for OPERATIONAL; the answer
\* is not looked at.
VisitRequest(seen, req) ==
    /\ ChkGoes("visit", "lost")
    /\ slstate[slave] = seen
    /\ docheckstate' = TRUE
    /\ slstate' = [slstate EXCEPT ![slave] = req]
    /\ FPWR(slave, req)
    /\ UNCHANGED <<slave, islost, passed, addr, fmmu>> /\ ChkOnly

\* Mutant: a slave without an answer is configured anew as well.
VisitReconfigSilent ==
    /\ ChkAt("visit")
    /\ slstate[slave] \notin {EC_STATE_SAFE_OP, EC_STATE_OPERATIONAL,
                              EC_STATE_SAFE_OP + EC_STATE_ERROR}
    /\ docheckstate' = TRUE
    /\ FPWR(slave, EC_STATE_INIT)
    /\ pcK' = (IF Hit(slave) = {} THEN "lost" ELSE "init")
    /\ UNCHANGED <<slave, islost, passed, slstate, addr, fmmu>> /\ ChkOnly

\* ec_reconfig_slave begins: the slave is sent to INIT, and given up for this
\* pass if it does not answer.
VisitReconfig ==
    /\ ChkAt("visit")
    /\ slstate[slave] \notin {EC_STATE_NONE, EC_STATE_SAFE_OP, EC_STATE_OPERATIONAL,
                              EC_STATE_SAFE_OP + EC_STATE_ERROR}
    /\ docheckstate' = TRUE
    /\ FPWR(slave, EC_STATE_INIT)
    /\ pcK' = (IF Hit(slave) = {} THEN "lost" ELSE "init")
    /\ UNCHANGED <<slave, islost, passed, slstate, addr, fmmu>> /\ ChkOnly

\* ec_statecheck of the slave, which stores what it read last.
Checked == slstate' = [slstate EXCEPT ![slave] = FPRD(slave)]
Reached(st) == FPRD(slave) % EC_STATE_ERROR = st

\* ec_reconfig_slave goes on with its next request when the state asked for was
\* reached; otherwise it returns what was read, which is 0 only without an answer.
ReconfigStep(at, st, req, to) ==
    /\ ChkAt(at)
    /\ Checked
    /\ \/ Reached(st) /\ pcK' = to /\ FPWR(slave, req) /\ UNCHANGED islost
       \/ /\ ~Reached(st) /\ pcK' = "lost" /\ UNCHANGED al
          /\ islost' = [islost EXCEPT ![slave] = @ /\ FPRD(slave) = EC_STATE_NONE]
    /\ UNCHANGED <<slave, docheckstate, passed, addr, fmmu>> /\ ChkOnly

\* ec_statecheck for SAFE_OP, whose result is what ec_reconfig_slave returns ...
ReconfigSafe ==
    /\ ChkGoes("safeop", "fmmu")
    /\ Checked
    /\ islost' = [islost EXCEPT ![slave] = @ /\ FPRD(slave) = EC_STATE_NONE]
    /\ UNCHANGED <<slave, docheckstate, passed, devVars>> /\ ChkOnly

\* ... and the FMMUs, whatever it was; whether they arrive is not looked at.
ReconfigFmmu ==
    /\ ChkGoes("fmmu", "lost")
    /\ fmmu' = [s \in Slaves |-> fmmu[s] \/ s \in Hit(slave)]
    /\ UNCHANGED <<slave, islost, docheckstate, passed, slstate, al, addr>> /\ ChkOnly

\* Mutant: docheckstate is not set for a slave without an answer.
VisitSilentUnmarked ==
    /\ ChkGoes("visit", "lost")
    /\ slstate[slave] = EC_STATE_NONE
    /\ IF islost[slave] THEN UNCHANGED <<slstate, islost>>
       ELSE /\ Checked
            /\ islost' = [islost EXCEPT ![slave] = FPRD(slave) = EC_STATE_NONE]
    /\ UNCHANGED <<slave, docheckstate, passed, devVars>> /\ ChkOnly

\* No answer in ec_readstate: one more look before the slave counts as lost.
VisitSilent ==
    /\ ChkGoes("visit", "lost")
    /\ slstate[slave] = EC_STATE_NONE
    /\ docheckstate' = TRUE
    /\ IF islost[slave] THEN UNCHANGED <<slstate, islost>>
       ELSE /\ Checked
            /\ islost' = [islost EXCEPT ![slave] = FPRD(slave) = EC_STATE_NONE]
    /\ UNCHANGED <<slave, passed, devVars>> /\ ChkOnly

\* Mutant: the loop runs one slave too far.
NextSlaveTooFar ==
    IF slave <= N THEN slave' = slave + 1 /\ pcK' = "visit" /\ UNCHANGED passed
    ELSE slave' = 1 /\ pcK' = "idle" /\ passed' = TRUE

\* The loop goes on to the next slave, or the pass is over.
NextSlave ==
    IF slave < N THEN slave' = slave + 1 /\ pcK' = "visit" /\ UNCHANGED passed
    ELSE slave' = 1 /\ pcK' = "idle" /\ passed' = TRUE

NotLost ==
    /\ ChkAt("lost")
    /\ ~islost[slave]
    /\ NextSlave
    /\ UNCHANGED <<islost, docheckstate, slstate, devVars>> /\ ChkOnly

Found ==
    /\ ChkAt("lost")
    /\ islost[slave] /\ slstate[slave] # EC_STATE_NONE
    /\ islost' = [islost EXCEPT ![slave] = FALSE]
    /\ NextSlave
    /\ UNCHANGED <<docheckstate, slstate, devVars>> /\ ChkOnly

\* ec_recover_slave reads the address by position: its own address is success,
\* no address is a slave to be given one, everything else is left alone.
Probe ==
    /\ ChkAt("lost")
    /\ islost[slave] /\ slstate[slave] = EC_STATE_NONE
    /\ LET there == sock /\ slave <= reach
       IN  \/ /\ there /\ addr[slave] = slave
              /\ islost' = [islost EXCEPT ![slave] = FALSE]
              /\ NextSlave /\ UNCHANGED addr
           \/ /\ there /\ addr[slave] = NoAdr
              /\ addr' = [s \in Slaves |-> IF s = slave THEN EC_TEMPNODE
                                           ELSE IF s \in Hit(EC_TEMPNODE) THEN NoAdr
                                           ELSE addr[s]]
              /\ pcK' = "setadr"
              /\ UNCHANGED <<slave, islost, passed>>
           \/ /\ ~there \/ addr[slave] \notin {slave, NoAdr}
              /\ NextSlave /\ UNCHANGED <<islost, addr>>
    /\ UNCHANGED <<docheckstate, slstate, al, fmmu>> /\ ChkOnly

\* The slave at the temporary address is the one expected and gets its address
\* back, or it no longer answers; a last write that gets no frame back returns
\* EC_NOFRAME, which is not 0 either.
SetAddress ==
    /\ ChkAt("setadr")
    /\ addr' = [s \in Slaves |-> IF s \in Hit(EC_TEMPNODE) THEN slave ELSE addr[s]]
    /\ \/ islost' = [islost EXCEPT ![slave] = Hit(EC_TEMPNODE) = {}]
       \/ reach = 0 /\ islost' = [islost EXCEPT ![slave] = FALSE]
    /\ NextSlave
    /\ UNCHANGED <<docheckstate, slstate, al, fmmu>> /\ ChkOnly

Chk ==
    \/ ChkWake \/ ChkBroadcast \/ ChkFprd \/ VisitFine \/ VisitSilent
    \/ VisitRequest(EC_STATE_SAFE_OP + EC_STATE_ERROR, EC_STATE_SAFE_OP + EC_STATE_ACK)
    \/ VisitRequest(EC_STATE_SAFE_OP, EC_STATE_OPERATIONAL)
    \/ VisitReconfig
    \/ ReconfigStep("init", EC_STATE_INIT, EC_STATE_PRE_OP, "preop")
    \/ ReconfigStep("preop", EC_STATE_PRE_OP, EC_STATE_SAFE_OP, "safeop")
    \/ ReconfigSafe \/ ReconfigFmmu
    \/ NotLost \/ Found \/ Probe \/ SetAddress

-----------------------------------------------------------------------------
(* The line and its slaves.                                                *)

DevOnly == UNCHANGED <<mainVars, cycVars, chkVars, slstate>>

\* A cable is pulled: the slaves behind it no longer see a frame.
Cut ==
    /\ Fault
    /\ reach' \in 0 .. (reach - 1)
    /\ UNCHANGED devVars /\ DevOnly

Restore ==
    /\ Alive /\ reach < N
    /\ reach' = N
    /\ UNCHANGED <<faults, devVars>> /\ DevOnly

\* A slave loses its power and comes back with nothing configured.
PowerCycle(s) ==
    /\ Fault
    /\ al' = [al EXCEPT ![s] = EC_STATE_INIT]
    /\ addr' = [addr EXCEPT ![s] = NoAdr]
    /\ fmmu' = [fmmu EXCEPT ![s] = FALSE]
    /\ UNCHANGED reach /\ DevOnly

\* A slave falls back by itself.
Drop(s) ==
    /\ Fault
    /\ al[s] \in {EC_STATE_SAFE_OP, EC_STATE_OPERATIONAL}
    /\ \E st \in {EC_STATE_SAFE_OP, EC_STATE_PRE_OP} : al' = [al EXCEPT ![s] = st + EC_STATE_ERROR]
    /\ UNCHANGED <<reach, addr, fmmu>> /\ DevOnly

\* The watchdog of the outputs, while they do not come.
Watchdog(s) ==
    /\ Alive
    /\ al[s] = EC_STATE_OPERATIONAL
    /\ s > reach \/ dorun < 1
    /\ al' = [al EXCEPT ![s] = EC_STATE_SAFE_OP + EC_STATE_ERROR]
    /\ UNCHANGED <<lineVars, addr, fmmu>> /\ DevOnly

Line == Cut \/ Restore \/ \E s \in Slaves : PowerCycle(s) \/ Drop(s) \/ Watchdog(s)

-----------------------------------------------------------------------------
Next == Main \/ StopRunning \/ Cyc \/ Chk \/ Line

Spec == Init /\ [][Next]_vars

\* The threads run; a cable that was pulled is plugged in again.  Nobody has to
\* press Ctrl+C.
FairSpec == Spec /\ WF_vars(Main) /\ WF_vars(Cyc) /\ WF_vars(Chk) /\ WF_vars(Restore)
=============================================================================
