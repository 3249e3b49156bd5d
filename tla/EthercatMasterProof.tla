------------------------ MODULE EthercatMasterProof ------------------------
(***************************************************************************)
(* Proofs about EthercatMaster, for any number of slaves and of faults.     *)
(***************************************************************************)
EXTENDS EthercatInvariants, WellFoundedInduction, FiniteSetTheorems, TLAPS

USE NAssumption, FaultsAssumption

\* Which slaves are known to work.
Fine(s) == slstate[s] = EC_STATE_OPERATIONAL /\ ~islost[s]

\* What ethercat_run has set by the time it asks for OPERATIONAL, and that nothing
\* else moves before.
StartInv ==
    /\ pcM \in {"init", "config", "safeop"}
         => /\ pcK = "idle" /\ ~passed /\ ~docheckstate
            /\ expectedWKC = 0 /\ wkc = 0
    /\ pcM \in {"init", "config", "safeop", "askop", "writeop", "dorun"} => dorun = 0
    /\ pcM \notin {"init", "config", "safeop", "exited"} => expectedWKC = 3 * N
    /\ pcC \in {"start", "first"} => wkc = 0
    /\ dorun = 0 => wkc = 0

\* The progress of a pass in which docheckstate has stayed FALSE: every slave that
\* the loop has left behind works.
PassInv ==
    ~docheckstate /\ ~GaveUp
      => /\ pcK = "idle" /\ passed => \A s \in Slaves : Fine(s)
         /\ pcK \in {"visit", "lost"} => \A s \in Slaves : s < slave => Fine(s)
         /\ pcK = "lost" => slstate[slave] = EC_STATE_OPERATIONAL
         /\ pcK \notin {"init", "preop", "safeop", "fmmu", "setadr"}
         /\ pcK = "fprd" => slave = 1

IInv == MasterTypeOK /\ StartInv /\ PassInv

-----------------------------------------------------------------------------
(* Types of what is read from the bus.                                     *)

LEMMA Numbers ==
  /\ N \in Int /\ Slaves \subseteq 1 .. N /\ 1 \in Slaves
  /\ AlStates = {1, 2, 4, 8, 17, 18, 20, 24}
  /\ Bases = {1, 2, 4, 8}
  /\ EC_STATE_ERROR = 16 /\ EC_STATE_ACK = 16 /\ EC_STATE_NONE = 0 /\ EC_STATE_INIT = 1
  /\ EC_STATE_PRE_OP = 2 /\ EC_STATE_SAFE_OP = 4 /\ EC_STATE_OPERATIONAL = 8
  /\ EC_NOFRAME = -1
BY DEF Slaves, AlStates, Bases, EC_STATE_ERROR, EC_STATE_ACK, EC_STATE_NONE, EC_STATE_INIT,
       EC_STATE_PRE_OP, EC_STATE_SAFE_OP, EC_STATE_OPERATIONAL, EC_NOFRAME

\* The state without its error bit is a base state.
LEMMA BaseType ==
  ASSUME NEW a \in AlStates
  PROVE  a % 16 \in {1, 2, 4, 8} /\ a \in 0 .. 31
<1>1. a \in {1, 2, 4, 8, 17, 18, 20, 24}
  BY Numbers
<1>2. 1 % 16 = 1 /\ 2 % 16 = 2 /\ 4 % 16 = 4 /\ 8 % 16 = 8 /\ 17 % 16 = 1 /\ 18 % 16 = 2
      /\ 20 % 16 = 4 /\ 24 % 16 = 8
  OBVIOUS
<1> QED
  BY <1>1, <1>2

\* Whatever is asked, a slave is in one of the AL states afterwards.
LEMMA ReactType ==
  ASSUME NEW a \in AlStates, NEW req
  PROVE  React(a, req) \in AlStates
BY BaseType, Numbers DEF React, Bases, AlStates

\* The lowest state of the slaves is that of one of them.
LEMMA HasLeast ==
  ASSUME NEW S, S \subseteq Nat, S # {}
  PROVE  \E k \in S : \A l \in S : k <= l
<1>1. PICK k \in S : \A l \in S : ~(<<l, k>> \in OpToRel(<, Nat))
  BY NatLessThanWellFounded, WFMin
<1>2. \A l \in S : ~(l < k)
  BY <1>1 DEF OpToRel
<1> QED
  BY <1>2

\* Of the slaves that answer to an address, the last one on the bus is heard.
LEMMA HasGreatest ==
  ASSUME NEW b \in Nat, NEW S, S \subseteq 0 .. b, S # {}
  PROVE  \E k \in S : \A l \in S : l <= k
<1> DEFINE D == {b - l : l \in S}
<1>1. D \subseteq Nat /\ \A l \in S : b - l \in D
  OBVIOUS
<1>2. PICK d \in D : \A e \in D : d <= e
  <2> HIDE DEF D
  <2> QED
    BY <1>1, HasLeast
<1>3. PICK k \in S : d = b - k
  BY <1>2
<1>4. \A l \in S : b - k <= b - l
  BY <1>1, <1>2, <1>3, Zenon
<1>5. \A l \in S : l \in Int /\ (b - k <= b - l => l <= k)
  BY <1>3
<1> QED
  BY <1>4, <1>5

\* A read of the AL status gives one of them, or 0.
LEMMA FprdType ==
  ASSUME MasterTypeOK, NEW adr
  PROVE  FPRD(adr) \in 0 .. 31
<1>1. CASE Hit(adr) = {}
  BY <1>1 DEF FPRD
<1>2. CASE Hit(adr) # {}
  <2>1. N \in Nat /\ Hit(adr) \subseteq 0 .. N /\ Hit(adr) \subseteq Slaves
    BY DEF Hit, MasterTypeOK, Slaves
  <2>2. \E s \in Hit(adr) : \A r \in Hit(adr) : r <= s
    BY <1>2, <2>1, HasGreatest
  <2> DEFINE f == CHOOSE s \in Hit(adr) : \A r \in Hit(adr) : r <= s
  <2>3. f \in Hit(adr)
    BY <2>2
  <2>4. al[f] \in AlStates
    BY <2>1, <2>3 DEF MasterTypeOK
  <2>5. FPRD(adr) = al[f]
    BY <1>2 DEF FPRD
  <2> QED
    BY <2>4, <2>5, BaseType
<1> QED
  BY <1>1, <1>2

LEMMA BrdType == BRD \in 0 .. 31
<1> DEFINE Bit(b) == IF \E s \in Passed : al[s] % EC_STATE_ERROR = b THEN b ELSE 0
           err == IF \E s \in Passed : al[s] >= EC_STATE_ERROR THEN EC_STATE_ERROR ELSE 0
<1>1. Bit(1) \in 0 .. 1 /\ Bit(2) \in 0 .. 2 /\ Bit(4) \in 0 .. 4 /\ Bit(8) \in 0 .. 8
      /\ err \in 0 .. 16
  BY Numbers
<1>2. BRD = Bit(1) + Bit(2) + Bit(4) + Bit(8) + err
  BY DEF BRD
<1> QED
  <2> HIDE DEF Bit, err
  <2> QED
    BY <1>1, <1>2

LEMMA LowestType ==
  ASSUME MasterTypeOK
  PROVE  Lowest(FprdStates) \in 0 .. 31 /\ Lowest(FprdStates) < 16
<1> DEFINE L == {FprdStates[s] % EC_STATE_ERROR : s \in Slaves}
<1>1. \A s \in Slaves : FprdStates[s] % EC_STATE_ERROR \in 0 .. 15
  BY FprdType, Numbers DEF FprdStates
<1>2. L \subseteq Nat /\ L # {} /\ L \subseteq 0 .. 15
  BY <1>1, Numbers
<1>3. \E l \in L : \A m \in L : l <= m
  <2> HIDE DEF L
  <2> QED
    BY <1>2, HasLeast
<1>4. Lowest(FprdStates) \in L
  BY <1>3 DEF Lowest
<1> QED
  BY <1>2, <1>4

LEMMA WorkType ==
  ASSUME MasterTypeOK
  PROVE  Work \in Int
<1>1. \A st : IsFiniteSet(Serving(st))
  <2>1. IsFiniteSet(1 .. reach)
    BY FS_Interval DEF MasterTypeOK
  <2> QED
    BY <2>1, FS_Subset DEF Serving
<1> QED
  BY <1>1, FS_CardinalityType DEF Work

-----------------------------------------------------------------------------
(* The invariant is inductive.                                             *)

\* The two halves of ecx_readstate keep the type of ec_slave[].state.
LEMMA ReadTypes ==
  ASSUME MasterTypeOK, ReadBroadcast \/ ReadEach
  PROVE  slstate' \in [0 .. N -> 0 .. 31]
<1>1. ASSUME ReadBroadcast
      PROVE  slstate' \in [0 .. N -> 0 .. 31]
  <2>1. BRD % 16 \in 0 .. 31
    BY BrdType
  <2> QED
    BY <1>1, <2>1, Numbers DEF ReadBroadcast, MasterTypeOK
<1>2. ASSUME ReadEach
      PROVE  slstate' \in [0 .. N -> 0 .. 31]
  BY <1>2, FprdType, LowestType DEF ReadEach
<1> QED
  BY <1>1, <1>2

\* A request on AL control keeps the type of the slaves' states.
LEMMA WriteTypes ==
  ASSUME MasterTypeOK, NEW adr, NEW req, FPWR(adr, req) \/ BWR(req)
  PROVE  al' \in [Slaves -> AlStates]
BY ReactType DEF FPWR, BWR, MasterTypeOK

\* The steps of ethercat_run.
LEMMA MainStep ==
  ASSUME IInv, Main \/ StopRunning
  PROVE  IInv'
<1> USE Numbers DEF MainGoes, MainOnly, cycVars, chkVars, lineVars, devVars, MainLabels, GaveUp,
       StartInv, PassInv, IInv, Fine
<1>1. CASE EcInit
  BY <1>1 DEF EcInit, MasterTypeOK
<1>2. CASE EcConfig
  <2>0. \A s \in Slaves : s \in 0 .. N + 1 /\ EC_STATE_SAFE_OP \in AlStates
    BY DEF Slaves
  <2>1. al' \in [Slaves -> AlStates] /\ addr' \in [Slaves -> 0 .. N + 1] /\ fmmu' \in [Slaves -> BOOLEAN]
    <3>1. CASE UNCHANGED devVars
      BY <3>1 DEF MasterTypeOK
    <3>2. CASE /\ addr' = [s \in Slaves |-> s] /\ fmmu' = [s \in Slaves |-> TRUE]
               /\ al' = [s \in Slaves |-> EC_STATE_SAFE_OP]
      <4>1. addr' \in [Slaves -> 0 .. N + 1]
        BY ONLY <3>2, <2>0
      <4>2. al' \in [Slaves -> AlStates]
        BY ONLY <3>2, Numbers
      <4>3. fmmu' \in [Slaves -> BOOLEAN]
        BY ONLY <3>2
      <4> QED
        BY ONLY <4>1, <4>2, <4>3
    <3> QED
      BY <1>2, <3>1, <3>2 DEF EcConfig
  <2>2. MasterTypeOK'
    BY <1>2, <2>1 DEF EcConfig, MasterTypeOK
  <2> QED
    BY <1>2, <2>2 DEF EcConfig, MasterTypeOK
<1>3. CASE FirstStates
  <2>1. slstate' \in [0 .. N -> 0 .. 31]
    BY <1>3, FprdType, BrdType, LowestType DEF FirstStates
  <2>2. MasterTypeOK'
    BY <1>3, <2>1 DEF FirstStates, MasterTypeOK
  <2>3. PassInv' /\ StartInv'
    BY <1>3 DEF FirstStates
  <2> QED
    BY <2>2, <2>3
<1>4. ASSUME NEW from, NEW to, NEW st \in 0 .. 31, SetRequest(from, to, st),
             <<from, to>> \in {<<"askop", "writeop">>, <<"asksafe", "writesafe">>}
      PROVE  IInv'
  <2>1. MasterTypeOK'
    BY <1>4 DEF SetRequest, MasterTypeOK
  <2>2. \A s \in Slaves : slstate'[s] = slstate[s]
    BY <1>4 DEF SetRequest, MasterTypeOK
  <2>3. PassInv' /\ StartInv'
    BY <1>4, <2>2 DEF SetRequest, MasterTypeOK
  <2> QED
    BY <2>1, <2>3
<1>5. ASSUME NEW from, NEW to, WriteRequest(from, to),
             <<from, to>> \in {<<"writeop", "dorun">>, <<"writesafe", "close">>}
      PROVE  IInv'
  <2>1. al' \in [Slaves -> AlStates]
    BY <1>5, WriteTypes DEF WriteRequest
  <2>2. MasterTypeOK'
    BY <1>5, <2>1 DEF WriteRequest, MasterTypeOK
  <2>3. PassInv' /\ StartInv'
    BY <1>5 DEF WriteRequest
  <2> QED
    BY <2>2, <2>3
<1>6. CASE StartExchange
  BY <1>6 DEF StartExchange, MasterTypeOK
<1>7. CASE CheckOperational
  <2>1. MasterTypeOK'
    BY <1>7, BrdType DEF CheckOperational, MasterTypeOK
  <2>2. \A s \in Slaves : slstate'[s] = slstate[s]
    BY <1>7 DEF CheckOperational, MasterTypeOK
  <2>3. PassInv' /\ StartInv'
    BY <1>7, <2>2 DEF CheckOperational, MasterTypeOK
  <2> QED
    BY <2>1, <2>3
<1>8. CASE IsOperational
  <2>1. slstate' \in [0 .. N -> 0 .. 31]
    BY <1>8, ReadTypes DEF IsOperational, MasterTypeOK
  <2>2. MasterTypeOK'
    BY <1>8, <2>1 DEF IsOperational, MasterTypeOK
  <2>3. PassInv' /\ StartInv'
    BY <1>8 DEF IsOperational
  <2> QED
    BY <2>2, <2>3
<1>9. CASE EcClose \/ StopRunning
  BY <1>9 DEF EcClose, StopRunning, MasterTypeOK
<1> QED
  BY <1>1, <1>2, <1>3, <1>4, <1>5, <1>6, <1>7, <1>8, <1>9 DEF Main

\* The steps of ecatthread.
LEMMA CycStep ==
  ASSUME IInv, Cyc
  PROVE  IInv'
<1> USE Numbers DEF CycOnly, mainVars, chkVars, devVars, GaveUp, StartInv, PassInv, IInv, Fine, Alive
<1>1. CASE CycZero
  BY <1>1 DEF CycZero, MasterTypeOK
<1>2. CASE CycFirst
  BY <1>2 DEF CycFirst, AfterSend, MasterTypeOK
<1>3. CASE CycExchange
  <2>1. wkc' \in Int
    BY <1>3, WorkType DEF CycExchange
  <2>2. MasterTypeOK'
    BY <1>3, <2>1 DEF CycExchange, AfterSend, Fault, MasterTypeOK
  <2>3. dorun > 0 /\ dorun' \in {1, -1} /\ pcC' \in {"unsent", "sent"}
    BY <1>3 DEF CycExchange, AfterSend
  <2>4. PassInv' /\ StartInv'
    BY <1>3, <2>3 DEF CycExchange
  <2> QED
    BY <2>2, <2>4
<1> QED
  BY <1>1, <1>2, <1>3 DEF Cyc

\* What a step of the line writes.
LEMMA LineTypes ==
  ASSUME MasterTypeOK, Line
  PROVE  /\ al' \in [Slaves -> AlStates] /\ addr' \in [Slaves -> 0 .. N + 1]
         /\ fmmu' \in [Slaves -> BOOLEAN]
         /\ reach' \in 0 .. N /\ faults' \in 0 .. MaxFaults
<1> USE Numbers DEF DevOnly, lineVars
<1>1. CASE Cut \/ Restore
  BY <1>1 DEF Cut, Restore, Fault, devVars, MasterTypeOK
<1>2. ASSUME NEW s \in Slaves, PowerCycle(s)
      PROVE  /\ al' \in [Slaves -> AlStates] /\ addr' \in [Slaves -> 0 .. N + 1]
             /\ fmmu' \in [Slaves -> BOOLEAN]
             /\ reach' \in 0 .. N /\ faults' \in 0 .. MaxFaults
  BY <1>2 DEF PowerCycle, Fault, MasterTypeOK, NoAdr
<1>3. ASSUME NEW s \in Slaves, Drop(s)
      PROVE  /\ al' \in [Slaves -> AlStates] /\ addr' = addr /\ fmmu' = fmmu
             /\ reach' \in 0 .. N /\ faults' \in 0 .. MaxFaults
  BY <1>3 DEF Drop, Fault, MasterTypeOK
<1>4. ASSUME NEW s \in Slaves, Watchdog(s)
      PROVE  /\ al' \in [Slaves -> AlStates] /\ addr' = addr /\ fmmu' = fmmu
             /\ reach' \in 0 .. N /\ faults' \in 0 .. MaxFaults
  BY <1>4 DEF Watchdog, MasterTypeOK
<1> QED
  BY <1>1, <1>2, <1>3, <1>4 DEF Line, MasterTypeOK

\* The steps of the line and its slaves.
LEMMA LineStep ==
  ASSUME IInv, Line
  PROVE  IInv'
<1> USE Numbers DEF DevOnly, mainVars, cycVars, chkVars, devVars, lineVars, GaveUp, StartInv,
       PassInv, IInv, Fine
<1>1. PassInv' /\ StartInv' /\ slstate' = slstate
  BY DEF Line, Cut, Restore, PowerCycle, Drop, Watchdog
<1>2. UNCHANGED <<pcM, pcC, pcK, slave, wkc, dorun, expectedWKC, slstate, islost, docheckstate,
                  passed, doubled, sock>>
  BY DEF Line, Cut, Restore, PowerCycle, Drop, Watchdog
<1>3. MasterTypeOK'
  BY <1>2, LineTypes DEF MasterTypeOK
<1> QED
  BY <1>1, <1>3

\* Everything a step of ecatcheck leaves alone.
LEMMA ChkFrame ==
  ASSUME IInv, Chk
  PROVE  /\ UNCHANGED <<pcM, pcC, wkc, dorun, expectedWKC, sock, reach, faults>>
         /\ pcM \notin {"init", "config", "safeop"}
         /\ doubled' = (doubled \/ Twins') /\ doubled' \in BOOLEAN
<1>1. UNCHANGED <<mainVars, cycVars, lineVars>> /\ doubled' = (doubled \/ Twins')
  BY DEF Chk, ChkWake, ChkBroadcast, ChkFprd, VisitFine, VisitSilent, VisitRequest, VisitReconfig,
         ReconfigStep, ReconfigSafe, ReconfigFmmu, NotLost, Found, Probe, SetAddress, ChkOnly
<1>2. pcK = "idle" => wkc < expectedWKC \/ docheckstate
  BY DEF Chk, ChkWake, ChkBroadcast, ChkFprd, VisitFine, VisitSilent, VisitRequest, VisitReconfig,
         ReconfigStep, ReconfigSafe, ReconfigFmmu, NotLost, Found, Probe, SetAddress, ChkGoes, ChkAt
<1>3. pcM \notin {"init", "config", "safeop"}
  BY <1>2 DEF IInv, StartInv
<1>4. doubled' \in BOOLEAN
  BY <1>1, Zenon
<1> QED
  BY <1>1, <1>3, <1>4 DEF mainVars, cycVars, lineVars

\* What is left to show of a step of ecatcheck.
LEMMA ChkSuffices ==
  ASSUME IInv, Chk, PassInv',
         pcK' \in ChkLabels, slave' \in Slaves, slstate' \in [0 .. N -> 0 .. 31],
         islost' \in [Slaves -> BOOLEAN], docheckstate' \in BOOLEAN, passed' \in BOOLEAN,
         al' \in [Slaves -> AlStates], addr' \in [Slaves -> 0 .. N + 1],
         fmmu' \in [Slaves -> BOOLEAN]
  PROVE  IInv'
<1>1. MasterTypeOK'
  BY ChkFrame DEF IInv, MasterTypeOK
<1>2. StartInv'
  BY ChkFrame DEF IInv, StartInv
<1> QED
  BY <1>1, <1>2 DEF IInv

\* The end of the loop body, when the slave under the loop works or
\* docheckstate is set.
LEMMA NextSlaveStep ==
  ASSUME MasterTypeOK, PassInv, NextSlave, pcM' = pcM, docheckstate' = docheckstate,
         pcK = "lost" \/ docheckstate \/ GaveUp,
         ~docheckstate /\ ~GaveUp => slstate' = slstate /\ islost'[slave] = FALSE
            /\ \A s \in Slaves : s # slave => islost'[s] = islost[s]
  PROVE  /\ PassInv' /\ pcK' \in ChkLabels /\ slave' \in Slaves /\ passed' \in BOOLEAN
<1>1. slave \in 1 .. N /\ N \in Nat /\ 1 \in 1 .. N /\ passed \in BOOLEAN
  BY DEF MasterTypeOK, Slaves
<1>2. \/ slave < N /\ slave' = slave + 1 /\ pcK' = "visit" /\ passed' = passed
      \/ slave = N /\ slave' = 1 /\ pcK' = "idle" /\ passed' = TRUE
  BY <1>1 DEF NextSlave
<1>3. pcK' \in ChkLabels /\ slave' \in Slaves /\ passed' \in BOOLEAN
  <2>1. slave' \in Slaves
    BY ONLY <1>1, <1>2 DEF Slaves
  <2>2. passed' \in BOOLEAN
    BY <1>1, <1>2, Zenon
  <2>3. pcK' \in ChkLabels
    BY ONLY <1>2 DEF ChkLabels
  <2> QED
    BY <2>1, <2>2, <2>3
<1>4. CASE docheckstate \/ GaveUp
  <2>1. docheckstate' \/ GaveUp'
    BY <1>4 DEF GaveUp
  <2> QED
    BY <2>1, <1>3 DEF PassInv
<1>5. CASE ~docheckstate /\ ~GaveUp
  <2>1. \A s \in Slaves : s < slave => Fine(s)
    BY <1>5 DEF PassInv
  <2>2. slstate[slave] = EC_STATE_OPERATIONAL /\ pcK = "lost"
    BY <1>5 DEF PassInv
  <2>3. \A s \in Slaves : s <= slave => Fine(s)'
    BY <1>1, <1>5, <2>1, <2>2 DEF Fine, Slaves
  <2>4. \A s \in Slaves : (s < slave' \/ pcK' = "idle") => s <= slave
    BY <1>1, <1>2 DEF Slaves
  <2>5. pcK' \in {"visit", "idle"} /\ ~GaveUp'
    BY <1>2, <1>5 DEF GaveUp
  <2> QED
    BY <1>3, <2>3, <2>4, <2>5 DEF PassInv
<1> QED
  BY <1>3, <1>4, <1>5

\* The steps of ecatcheck.
LEMMA ChkStep ==
  ASSUME IInv, Chk
  PROVE  IInv'
<1> USE Numbers
<1>0. pcM' = pcM /\ MasterTypeOK /\ PassInv
  BY ChkFrame DEF IInv
<1>1. CASE ChkWake
  <2>1. PassInv'
    BY <1>0, <1>1 DEF ChkWake, ChkGoes, ChkAt, PassInv
  <2> QED
    BY <1>0, <1>1, <2>1, ChkSuffices DEF ChkWake, ChkGoes, MasterTypeOK, ChkLabels, devVars
<1>2. CASE ChkBroadcast
  <2>1. slstate' \in [0 .. N -> 0 .. 31]
    BY <1>0, <1>2, ReadTypes DEF ChkBroadcast
  <2>2. PassInv'
    BY <1>0, <1>2 DEF ChkBroadcast, ChkAt, PassInv, GaveUp, Slaves
  <2> QED
    BY <1>0, <1>2, <2>1, <2>2, ChkSuffices DEF ChkBroadcast, MasterTypeOK, ChkLabels, devVars
<1>3. CASE ChkFprd
  <2>1. slstate' \in [0 .. N -> 0 .. 31]
    BY <1>0, <1>3, ReadTypes DEF ChkFprd
  <2>2. PassInv'
    BY <1>0, <1>3 DEF ChkFprd, ChkGoes, ChkAt, PassInv, GaveUp, Slaves
  <2> QED
    BY <1>0, <1>3, <2>1, <2>2, ChkSuffices DEF ChkFprd, ChkGoes, MasterTypeOK, ChkLabels, devVars
<1>4. CASE VisitFine
  <2>1. PassInv'
    BY <1>0, <1>4 DEF VisitFine, ChkGoes, ChkAt, PassInv, GaveUp, Fine
  <2> QED
    BY <1>0, <1>4, <2>1, ChkSuffices DEF VisitFine, ChkGoes, MasterTypeOK, ChkLabels, devVars
<1>5. CASE VisitSilent
  <2>1. PassInv' /\ docheckstate'
    BY <1>0, <1>5 DEF VisitSilent, PassInv, GaveUp
  <2>2. slstate' \in [0 .. N -> 0 .. 31] /\ islost' \in [Slaves -> BOOLEAN]
    <3>1. CASE islost[slave]
      BY <1>0, <1>5, <3>1 DEF VisitSilent, MasterTypeOK
    <3>2. CASE ~islost[slave]
      <4>1. Checked /\ islost' = [islost EXCEPT ![slave] = FPRD(slave) = EC_STATE_NONE]
        BY <1>5, <3>2 DEF VisitSilent
      <4>2. slstate' \in [0 .. N -> 0 .. 31]
        BY <1>0, <4>1, FprdType DEF Checked, MasterTypeOK
      <4>3. islost' \in [Slaves -> BOOLEAN]
        BY <1>0, <4>1, Zenon DEF MasterTypeOK
      <4> QED
        BY <4>2, <4>3
    <3> QED
      BY <3>1, <3>2
  <2> QED
    BY <1>0, <1>5, <2>1, <2>2, ChkSuffices DEF VisitSilent, ChkGoes, MasterTypeOK, ChkLabels, devVars
<1>6. ASSUME NEW seen, NEW req \in 0 .. 31, VisitRequest(seen, req)
      PROVE  IInv'
  <2>1. PassInv' /\ docheckstate'
    BY <1>0, <1>6 DEF VisitRequest, PassInv, GaveUp
  <2>2. slstate' \in [0 .. N -> 0 .. 31]
    BY <1>0, <1>6 DEF VisitRequest, MasterTypeOK
  <2>3. al' \in [Slaves -> AlStates]
    BY <1>0, <1>6, WriteTypes DEF VisitRequest
  <2> QED
    BY <1>0, <1>6, <2>1, <2>2, <2>3, ChkSuffices DEF VisitRequest, ChkGoes, MasterTypeOK, ChkLabels
<1>7. CASE VisitReconfig
  <2>1. PassInv' /\ docheckstate'
    BY <1>0, <1>7 DEF VisitReconfig, PassInv, GaveUp
  <2>2. al' \in [Slaves -> AlStates]
    BY <1>0, <1>7, WriteTypes DEF VisitReconfig
  <2> QED
    BY <1>0, <1>7, <2>1, <2>2, ChkSuffices DEF VisitReconfig, MasterTypeOK, ChkLabels
<1>8. ASSUME NEW at \in {"init", "preop"}, NEW st, NEW req, NEW to \in ChkLabels,
             ReconfigStep(at, st, req, to)
      PROVE  IInv'
  <2>0. docheckstate \/ GaveUp
    BY <1>0, <1>8 DEF ReconfigStep, ChkAt, PassInv
  <2>1. PassInv'
    BY <1>0, <1>8, <2>0 DEF ReconfigStep, PassInv, GaveUp
  <2>2. slstate' \in [0 .. N -> 0 .. 31]
    BY <1>0, <1>8, FprdType DEF ReconfigStep, Checked, MasterTypeOK
  <2>3. al' \in [Slaves -> AlStates]
    BY <1>0, <1>8, WriteTypes DEF ReconfigStep, MasterTypeOK
  <2>4. islost' \in [Slaves -> BOOLEAN] /\ pcK' \in ChkLabels
    BY <1>0, <1>8 DEF ReconfigStep, MasterTypeOK, ChkLabels
  <2> QED
    BY <1>0, <1>8, <2>1, <2>2, <2>3, <2>4, ChkSuffices DEF ReconfigStep, MasterTypeOK
<1>9. CASE ReconfigSafe
  <2>0. docheckstate \/ GaveUp
    BY <1>0, <1>9 DEF ReconfigSafe, ChkGoes, ChkAt, PassInv
  <2>1. PassInv'
    BY <1>0, <1>9, <2>0 DEF ReconfigSafe, PassInv, GaveUp
  <2>2. slstate' \in [0 .. N -> 0 .. 31]
    BY <1>0, <1>9, FprdType DEF ReconfigSafe, Checked, MasterTypeOK
  <2>3. islost' \in [Slaves -> BOOLEAN] /\ pcK' \in ChkLabels
    BY <1>0, <1>9 DEF ReconfigSafe, ChkGoes, MasterTypeOK, ChkLabels
  <2> QED
    BY <1>0, <1>9, <2>1, <2>2, <2>3, ChkSuffices DEF ReconfigSafe, MasterTypeOK, devVars
<1>10. CASE ReconfigFmmu
  <2>0. docheckstate \/ GaveUp
    BY <1>0, <1>10 DEF ReconfigFmmu, ChkGoes, ChkAt, PassInv
  <2>1. PassInv'
    BY <1>0, <1>10, <2>0 DEF ReconfigFmmu, PassInv, GaveUp
  <2>2. fmmu' \in [Slaves -> BOOLEAN] /\ pcK' \in ChkLabels
    BY <1>0, <1>10 DEF ReconfigFmmu, ChkGoes, MasterTypeOK, ChkLabels
  <2> QED
    BY <1>0, <1>10, <2>1, <2>2, ChkSuffices DEF ReconfigFmmu, MasterTypeOK
<1>11. CASE NotLost
  <2>1. PassInv' /\ pcK' \in ChkLabels /\ slave' \in Slaves /\ passed' \in BOOLEAN
    BY <1>0, <1>11, NextSlaveStep DEF NotLost, ChkAt, MasterTypeOK
  <2> QED
    BY <1>0, <1>11, <2>1, ChkSuffices DEF NotLost, MasterTypeOK, devVars
<1>12. CASE Found
  <2>1. islost' \in [Slaves -> BOOLEAN] /\ islost'[slave] = FALSE
        /\ \A s \in Slaves : s # slave => islost'[s] = islost[s]
    BY <1>0, <1>12 DEF Found, MasterTypeOK
  <2>2. PassInv' /\ pcK' \in ChkLabels /\ slave' \in Slaves /\ passed' \in BOOLEAN
    BY <1>0, <1>12, <2>1, NextSlaveStep DEF Found, ChkAt
  <2> QED
    BY <1>0, <1>12, <2>1, <2>2, ChkSuffices DEF Found, MasterTypeOK, devVars
<1>13. CASE Probe
  <2>0. docheckstate \/ GaveUp
    BY <1>0, <1>13 DEF Probe, ChkAt, PassInv
  <2>1. islost' \in [Slaves -> BOOLEAN] /\ addr' \in [Slaves -> 0 .. N + 1]
    <3>1. EC_TEMPNODE \in 0 .. N + 1 /\ NoAdr \in 0 .. N + 1
      BY DEF EC_TEMPNODE, NoAdr
    <3>2. islost' = [islost EXCEPT ![slave] = FALSE] \/ islost' = islost
      BY <1>13 DEF Probe
    <3>3. \/ addr' = addr
          \/ addr' = [s \in Slaves |-> IF s = slave THEN EC_TEMPNODE
                                       ELSE IF s \in Hit(EC_TEMPNODE) THEN NoAdr ELSE addr[s]]
      BY <1>13 DEF Probe
    <3>4. islost \in [Slaves -> BOOLEAN] /\ addr \in [Slaves -> 0 .. N + 1]
      BY <1>0 DEF MasterTypeOK
    <3>5. addr' \in [Slaves -> 0 .. N + 1]
      BY ONLY <3>1, <3>3, <3>4
    <3>6. islost' \in [Slaves -> BOOLEAN]
      BY ONLY <3>2, <3>4
    <3> QED
      BY <3>5, <3>6
  <2>2. PassInv' /\ pcK' \in ChkLabels /\ slave' \in Slaves /\ passed' \in BOOLEAN
    <3>1. CASE NextSlave
      BY <1>0, <1>13, <2>0, <3>1, NextSlaveStep DEF Probe, ChkAt
    <3>2. CASE pcK' = "setadr" /\ UNCHANGED <<slave, passed>>
      <4>1. docheckstate' \/ GaveUp'
        BY <1>0, <1>13, <2>0 DEF Probe, GaveUp
      <4> QED
        BY <1>0, <3>2, <4>1 DEF MasterTypeOK, ChkLabels, PassInv
    <3> QED
      BY <1>13, <3>1, <3>2 DEF Probe
  <2> QED
    BY <1>0, <1>13, <2>1, <2>2, ChkSuffices DEF Probe, MasterTypeOK
<1>14. CASE SetAddress
  <2>0. docheckstate \/ GaveUp
    BY <1>0, <1>14 DEF SetAddress, ChkAt, PassInv
  <2>1. islost' \in [Slaves -> BOOLEAN] /\ addr' \in [Slaves -> 0 .. N + 1]
    <3>1. addr' \in [Slaves -> 0 .. N + 1]
      BY <1>0, <1>14 DEF SetAddress, MasterTypeOK, Slaves
    <3>2. islost' \in [Slaves -> BOOLEAN]
      <4>1. islost \in [Slaves -> BOOLEAN]
        BY <1>0 DEF MasterTypeOK
      <4>2. PICK b \in BOOLEAN : islost' = [islost EXCEPT ![slave] = b]
        <5>1. (Hit(EC_TEMPNODE) = {}) \in BOOLEAN
          BY Zenon
        <5> QED
          BY ONLY <1>14, <5>1, Zenon DEF SetAddress
      <4> QED
        BY ONLY <4>1, <4>2
    <3> QED
      BY <3>1, <3>2
  <2>2. PassInv' /\ pcK' \in ChkLabels /\ slave' \in Slaves /\ passed' \in BOOLEAN
    BY <1>0, <1>14, <2>0, NextSlaveStep DEF SetAddress
  <2> QED
    BY <1>0, <1>14, <2>1, <2>2, ChkSuffices DEF SetAddress, MasterTypeOK
<1>15. /\ EC_STATE_SAFE_OP + EC_STATE_ACK \in 0 .. 31 /\ EC_STATE_OPERATIONAL \in 0 .. 31
       /\ {"preop", "safeop"} \subseteq ChkLabels
  BY DEF ChkLabels
<1> QED
  BY <1>1, <1>2, <1>3, <1>4, <1>5, <1>6, <1>7, <1>8, <1>9, <1>10, <1>11, <1>12, <1>13, <1>14, <1>15
  DEF Chk

-----------------------------------------------------------------------------
LEMMA Initially == ASSUME Init PROVE IInv
<1>1. MasterTypeOK
  <2>1. /\ al \in [Slaves -> AlStates] /\ addr \in [Slaves -> 0 .. N + 1]
        /\ reach \in 0 .. N /\ faults \in 0 .. MaxFaults
    BY Numbers DEF Init, NoAdr
  <2>2. fmmu \in [Slaves -> BOOLEAN] /\ islost \in [Slaves -> BOOLEAN]
    BY DEF Init
  <2>3. slstate \in [0 .. N -> 0 .. 31]
    BY Numbers DEF Init
  <2>4. /\ pcM \in MainLabels /\ pcK \in ChkLabels /\ slave \in Slaves
        /\ pcC \in {"start", "first", "unsent", "sent"}
    BY Numbers DEF Init, MainLabels, ChkLabels
  <2>5. wkc \in Int /\ dorun \in {-1, 0, 1} /\ expectedWKC \in {0, 3 * N}
    BY DEF Init
  <2>6. docheckstate \in BOOLEAN /\ passed \in BOOLEAN /\ sock \in BOOLEAN
        /\ doubled \in BOOLEAN
    BY Zenon DEF Init
  <2> QED
    BY <2>1, <2>2, <2>3, <2>4, <2>5, <2>6 DEF MasterTypeOK
<1> QED
  BY <1>1 DEF Init, IInv, StartInv, PassInv

LEMMA Preserved == ASSUME IInv, [Next]_vars PROVE IInv'
<1>1. CASE UNCHANGED vars
  BY <1>1 DEF vars, mainVars, cycVars, chkVars, devVars, lineVars, IInv, MasterTypeOK, StartInv,
     PassInv, GaveUp, Fine
<1> QED
  BY <1>1, MainStep, CycStep, ChkStep, LineStep DEF Next

LEMMA Invariance == Spec => []IInv
BY Initially, Preserved, PTL DEF Spec

\* Type correctness of the three threads and of the slaves.
THEOREM MasterTypes == Spec => []MasterTypeOK
<1>1. IInv => MasterTypeOK
  BY DEF IInv
<1> QED
  BY <1>1, Invariance, PTL

\* ecatcheck forgets no slave, however many there are and whatever they do.
THEOREM NoSlaveForgotten == Spec => []NotForgotten
<1>1. IInv => NotForgotten
  BY DEF IInv, PassInv, NotForgotten, Fine
<1> QED
  BY <1>1, Invariance, PTL

\* A start of the exchange that was lost never looks like a complete exchange.
THEOREM LostStartSeen == Spec => []LostStartIsSeen
<1>1. IInv => LostStartIsSeen
  BY DEF IInv, StartInv, LostStartIsSeen, MasterTypeOK
<1> QED
  BY <1>1, Invariance, PTL

-----------------------------------------------------------------------------
(* No slave that works is reset.  What ecatcheck has read of a slave is used  *)
(* some time later, when the loop comes to it; meanwhile only a request of    *)
(* ethercat_run can have raised the slave, and ec_slave[0].state, which that  *)
(* request takes from both threads, decides to which state.                   *)

\* The slaves that this pass has read and has still to visit.
Pending(i) == \/ pcK = "visit" /\ i >= slave
              \/ pcK \in {"init", "preop", "safeop", "fmmu", "lost", "setadr"} /\ i > slave

\* The states for which ecatcheck does not reset a slave.
Spared == {EC_STATE_NONE, EC_STATE_SAFE_OP, EC_STATE_OPERATIONAL,
           EC_STATE_SAFE_OP + EC_STATE_ERROR}

\* ethercat_run has still to write a request that may raise a slave in SAFE_OP.
Asks == \/ pcM \in {"askop", "writeop"}
        \/ pcM = "writesafe" /\ slstate[0] = EC_STATE_OPERATIONAL

Down(s) == al[s] # EC_STATE_OPERATIONAL /\ (Asks => al[s] # EC_STATE_SAFE_OP)

\* A slave that is going to be reset does not work, nor is it about to.
ReadInv == ~doubled => \A i, s \in Slaves :
             Pending(i) /\ slstate[i] \notin Spared /\ addr[s] = i => Down(s)

\* What ethercat_run is about to write acknowledges no error.
WriteInv == pcM \in {"writeop", "writesafe"} => slstate[0] < EC_STATE_ERROR

AdrInv == Twins => doubled

HInv == IInv /\ ReadInv /\ WriteInv /\ AdrInv

LEMMA SparedIs == Spared = {0, 4, 8, 20}
BY Numbers DEF Spared

\* When the broadcast settles the matter, every slave is in the state it returned.
LEMMA SettledAll ==
  ASSUME MasterTypeOK, BrdSettles, NEW s \in Slaves
  PROVE  al[s] = BRD /\ BRD \in {1, 2, 4, 8}
<1> USE Numbers
<1> DEFINE Bit(b) == IF \E r \in Passed : al[r] % EC_STATE_ERROR = b THEN b ELSE 0
           err == IF \E r \in Passed : al[r] >= EC_STATE_ERROR THEN EC_STATE_ERROR ELSE 0
<1>1. s \in Passed
  <2>1. Cardinality(Passed) >= N /\ reach \in 0 .. N
    BY DEF BrdSettles, MasterTypeOK
  <2>2. sock
    <3>1. Cardinality({}) = 0
      BY FS_EmptySet
    <3> QED
      BY <2>1, <3>1 DEF Passed
  <2>3. Cardinality(1 .. reach) = reach
    BY <2>1, FS_Interval
  <2>4. reach = N
    BY <2>1, <2>2, <2>3 DEF Passed
  <2> QED
    BY <2>2, <2>4 DEF Passed, Slaves
<1>2. BRD = Bit(1) + Bit(2) + Bit(4) + Bit(8) + err /\ BRD \in {1, 2, 4, 8}
  BY DEF BRD, BrdSettles
<1>3. /\ Bit(1) \in {0, 1} /\ Bit(2) \in {0, 2} /\ Bit(4) \in {0, 4} /\ Bit(8) \in {0, 8}
      /\ err \in {0, 16}
  OBVIOUS
<1>4. al[s] \in AlStates /\ al[s] % 16 \in {1, 2, 4, 8}
  BY BaseType DEF MasterTypeOK
<1>5. /\ al[s] % 16 = 1 => Bit(1) = 1
      /\ al[s] % 16 = 2 => Bit(2) = 2
      /\ al[s] % 16 = 4 => Bit(4) = 4
      /\ al[s] % 16 = 8 => Bit(8) = 8
      /\ al[s] >= 16 => err = 16
  BY <1>1
<1>6. al[s] < 16 /\ al[s] % 16 = BRD
  <2> HIDE DEF Bit, err
  <2>1. Bit(1) + Bit(2) + Bit(4) + Bit(8) + err \in {1, 2, 4, 8}
    BY <1>2
  <2>2. al[s] \in Int
    BY <1>4
  <2>3. err = 0
    BY <1>3, <2>1
  <2> QED
    BY <1>2, <1>3, <1>4, <1>5, <2>1, <2>2, <2>3
<1> QED
  BY <1>2, <1>4, <1>6

\* As long as every address belongs to one slave, what the reads leave in
\* ec_slave[i].state is no reason to reset a slave that works.
LEMMA ReadsTrue ==
  ASSUME MasterTypeOK, ~Twins, ReadEach \/ (BrdSettles /\ ReadBroadcast),
         NEW i \in Slaves, NEW s \in Slaves, addr[s] = i, slstate'[i] \notin Spared
  PROVE  al[s] \notin {EC_STATE_SAFE_OP, EC_STATE_OPERATIONAL}
<1> USE Numbers, SparedIs
<1>0. i \in 0 .. N /\ i # 0
  BY DEF Slaves
<1>1. CASE ReadEach
  <2>1. slstate'[i] = FPRD(i)
    BY <1>0, <1>1 DEF ReadEach
  <2>2. Hit(i) # {} /\ Hit(i) \subseteq Slaves
    BY <2>1 DEF FPRD, Hit, MasterTypeOK, Slaves
  <2>3. \A r \in Hit(i) : r = s
    BY <1>0, <2>2 DEF Hit, Twins, NoAdr
  <2>4. Hit(i) = {s}
    BY <2>2, <2>3
  <2>5. FPRD(i) = al[CHOOSE t \in {s} : \A r \in {s} : r <= t]
    BY <2>2, <2>4 DEF FPRD
  <2>6. (CHOOSE t \in {s} : \A r \in {s} : r <= t) = s
    <3>1. \A r \in {s} : r <= s
      BY DEF Slaves
    <3> QED
      BY <3>1
  <2> QED
    BY <2>1, <2>5, <2>6
<1>2. CASE BrdSettles /\ ReadBroadcast
  <2>1. BRD \in {1, 2, 4, 8} /\ al[s] = BRD
    BY <1>2, SettledAll
  <2>2. slstate'[i] = BRD % 16
    BY <1>0, <1>2 DEF ReadBroadcast
  <2> QED
    BY <2>1, <2>2
<1> QED
  BY <1>1, <1>2

\* Which requests take a slave to OPERATIONAL, and which take it from there to INIT.
LEMMA Raised ==
  ASSUME NEW a \in AlStates, NEW req \in 0 .. 15, React(a, req) = EC_STATE_OPERATIONAL
  PROVE  a = EC_STATE_OPERATIONAL \/ (a = EC_STATE_SAFE_OP /\ req = EC_STATE_OPERATIONAL)
<1> USE Numbers
<1>1. req % 16 = req
  OBVIOUS
<1>2. a \in {1, 2, 4, 8, 17, 18, 20, 24} /\ a % 16 \in {1, 2, 4, 8}
  BY BaseType
<1>3. CASE a >= 16
  BY <1>1, <1>2, <1>3 DEF React
<1>4. CASE a < 16
  <2>1. a \in {1, 2, 4, 8} /\ a % 16 = a
    BY <1>2, <1>4
  <2> QED
    BY <1>1, <1>4, <2>1 DEF React
<1> QED
  BY <1>2, <1>3, <1>4

LEMMA NotReset ==
  ASSUME NEW req \in {2, 4, 8, 20}
  PROVE  React(EC_STATE_OPERATIONAL, req) # EC_STATE_INIT
BY Numbers DEF React

\* What is to be shown of a step that reads no states.
LEMMA ReadKept ==
  ASSUME ReadInv, doubled => doubled',
         \A i \in Slaves : Pending(i)' => Pending(i) /\ slstate'[i] = slstate[i],
         \A i, s \in Slaves : Pending(i)' /\ addr'[s] = i => addr[s] = i /\ (Down(s) => Down(s)')
  PROVE  ReadInv'
BY DEF ReadInv

\* What a step that reads the states leaves to show.
LEMMA ReadAnew ==
  ASSUME MasterTypeOK, AdrInv, doubled => doubled', ReadEach \/ (BrdSettles /\ ReadBroadcast),
         UNCHANGED <<al, addr>>
  PROVE  ReadInv'
<1> SUFFICES ASSUME ~doubled', NEW i \in Slaves, NEW s \in Slaves,
                    slstate'[i] \notin Spared, addr'[s] = i
             PROVE  Down(s)'
  BY DEF ReadInv, Spared
<1>1. ~Twins
  BY DEF AdrInv
<1>2. al[s] \notin {EC_STATE_SAFE_OP, EC_STATE_OPERATIONAL}
  BY <1>1, ReadsTrue
<1> QED
  BY <1>2 DEF Down

\* ... for the steps of ethercat_run,
LEMMA MainHealth ==
  ASSUME HInv, Main \/ StopRunning
  PROVE  ReadInv' /\ WriteInv' /\ AdrInv'
<1> USE Numbers DEF MainGoes, MainOnly, chkVars
<1>0. MasterTypeOK /\ StartInv /\ ReadInv /\ WriteInv /\ AdrInv /\ doubled' = doubled
      /\ pcK' = pcK /\ slave' = slave
  BY DEF HInv, IInv, Main, StopRunning, EcInit, EcConfig, FirstStates, SetRequest, WriteRequest,
         StartExchange, CheckOperational, IsOperational, EcClose
<1>1. ASSUME pcM \in {"init", "config", "safeop"}
      PROVE  ReadInv'
  <2>1. pcK' = "idle"
    BY <1>0, <1>1 DEF StartInv
  <2>2. \A i \in Slaves : ~Pending(i)'
    BY <2>1 DEF Pending
  <2> QED
    BY <2>2 DEF ReadInv
<1>2. AdrInv'
  <2>1. CASE addr' = addr
    BY <1>0, <2>1 DEF AdrInv, Twins
  <2>2. CASE addr' = [s \in Slaves |-> s]
    BY <2>2 DEF AdrInv, Twins
  <2> QED
    BY <2>1, <2>2 DEF Main, StopRunning, EcInit, EcConfig, FirstStates, SetRequest, WriteRequest,
         StartExchange, CheckOperational, IsOperational, EcClose, devVars
<1>3. CASE EcInit \/ EcConfig \/ FirstStates
  <2>1. WriteInv' /\ pcM \in {"init", "config", "safeop"}
    BY <1>3 DEF EcInit, EcConfig, FirstStates, WriteInv
  <2> QED
    BY <1>1, <1>2, <2>1
<1>4. ASSUME NEW from, NEW to, NEW st, SetRequest(from, to, st),
             <<from, to, st>> \in {<<"askop", "writeop", EC_STATE_OPERATIONAL>>,
                                   <<"asksafe", "writesafe", EC_STATE_SAFE_OP>>}
      PROVE  ReadInv' /\ WriteInv'
  <2>1. slstate'[0] = st /\ \A i \in Slaves : slstate'[i] = slstate[i]
    BY <1>0, <1>4 DEF SetRequest, MasterTypeOK, Slaves
  <2>2. WriteInv'
    BY <1>4, <2>1 DEF SetRequest, WriteInv
  <2>3. Asks' => Asks
    BY <1>4, <2>1 DEF SetRequest, Asks
  <2>4. ReadInv'
    BY <1>0, <1>4, <2>1, <2>3, ReadKept DEF SetRequest, Pending, Down, devVars
  <2> QED
    BY <2>2, <2>4
<1>5. ASSUME NEW from, NEW to, WriteRequest(from, to),
             <<from, to>> \in {<<"writeop", "dorun">>, <<"writesafe", "close">>}
      PROVE  ReadInv' /\ WriteInv'
  <2>1. slstate[0] \in 0 .. 15
    <3>1. slstate[0] \in 0 .. 31
      BY <1>0 DEF MasterTypeOK
    <3>2. slstate[0] < 16
      BY <1>0, <1>5 DEF WriteRequest, WriteInv
    <3> QED
      BY <3>1, <3>2
  <2>2. ASSUME NEW s \in Slaves, Down(s) PROVE Down(s)'
    <3>1. al'[s] \in {al[s], React(al[s], slstate[0])} /\ al[s] \in AlStates
      BY <1>0, <1>5 DEF WriteRequest, BWR, MasterTypeOK
    <3>2. slstate[0] = EC_STATE_OPERATIONAL => Asks
      BY <1>5 DEF WriteRequest, Asks
    <3>3. al'[s] # EC_STATE_OPERATIONAL
      BY <2>1, <2>2, <3>1, <3>2, Raised DEF Down
    <3>4. ~Asks'
      BY <1>5 DEF WriteRequest, Asks
    <3> QED
      BY <3>3, <3>4 DEF Down
  <2>3. ReadInv'
    BY <1>0, <1>5, <2>2, ReadKept DEF WriteRequest, Pending
  <2>4. WriteInv'
    BY <1>5 DEF WriteRequest, WriteInv
  <2> QED
    BY <2>3, <2>4
<1>6. CASE StartExchange \/ CheckOperational \/ EcClose \/ StopRunning
  <2>1. /\ \A i \in Slaves : slstate'[i] = slstate[i]
        /\ UNCHANGED <<al, addr>> /\ pcM' \notin {"askop", "writeop", "writesafe"}
    BY <1>0, <1>6 DEF StartExchange, CheckOperational, EcClose, StopRunning, devVars, MasterTypeOK,
       Slaves
  <2>2. WriteInv' /\ ~Asks'
    BY <2>1 DEF WriteInv, Asks
  <2>3. ReadInv'
    BY <1>0, <2>1, <2>2, ReadKept DEF Pending, Down
  <2> QED
    BY <1>2, <2>2, <2>3
<1>7. CASE IsOperational
  <2>1. WriteInv' /\ ~Asks' /\ UNCHANGED <<al, addr>>
    BY <1>7 DEF IsOperational, WriteInv, Asks, devVars
  <2>2. CASE UNCHANGED slstate
    <3>1. ReadInv'
      BY <1>0, <2>1, <2>2, ReadKept DEF Pending, Down
    <3> QED
      BY <1>2, <2>1, <3>1
  <2>3. CASE ReadEach \/ (BrdSettles /\ ReadBroadcast)
    BY <1>0, <1>2, <2>1, <2>3, ReadAnew
  <2> QED
    BY <1>7, <2>2, <2>3 DEF IsOperational
<1> QED
  BY <1>2, <1>3, <1>4, <1>5, <1>6, <1>7 DEF Main

\* ... of ecatthread and of the line,
LEMMA OtherHealth ==
  ASSUME HInv, Cyc \/ Line
  PROVE  ReadInv' /\ WriteInv' /\ AdrInv'
<1> USE Numbers DEF mainVars, chkVars
<1>0. MasterTypeOK /\ ReadInv /\ WriteInv /\ AdrInv
  BY DEF HInv, IInv
<1>1. UNCHANGED <<pcM, pcK, slave, doubled, slstate>>
  BY DEF Cyc, CycZero, CycFirst, CycExchange, CycOnly, Line, Cut, Restore, PowerCycle, Drop,
         Watchdog, DevOnly
<1>2. ASSUME NEW s \in Slaves
      PROVE  /\ addr'[s] \in {addr[s], NoAdr}
             /\ al'[s] \in {al[s], EC_STATE_INIT, EC_STATE_SAFE_OP + EC_STATE_ERROR,
                            EC_STATE_PRE_OP + EC_STATE_ERROR}
  <2>1. CASE Cyc \/ Cut \/ Restore
    BY <2>1 DEF Cyc, CycZero, CycFirst, CycExchange, CycOnly, Cut, Restore, devVars
  <2>2. ASSUME NEW r \in Slaves, PowerCycle(r) \/ Drop(r) \/ Watchdog(r)
        PROVE  /\ addr'[s] \in {addr[s], NoAdr}
               /\ al'[s] \in {al[s], EC_STATE_INIT, EC_STATE_SAFE_OP + EC_STATE_ERROR,
                              EC_STATE_PRE_OP + EC_STATE_ERROR}
    BY <1>0, <2>2 DEF PowerCycle, Drop, Watchdog, MasterTypeOK
  <2> QED
    BY <2>1, <2>2 DEF Line
<1>3. WriteInv'
  BY <1>0, <1>1 DEF WriteInv
<1>4. AdrInv'
  BY <1>0, <1>1, <1>2 DEF AdrInv, Twins
<1>5. \A s \in Slaves : Down(s) => Down(s)'
  BY <1>1, <1>2 DEF Down, Asks
<1>6. ReadInv'
  <2>1. \A i, s \in Slaves : addr'[s] = i => addr[s] = i
    BY <1>2 DEF NoAdr, Slaves
  <2> QED
    BY <1>0, <1>1, <1>5, <2>1, ReadKept DEF Pending
<1> QED
  BY <1>3, <1>4, <1>6

\* ... and of ecatcheck.
LEMMA ChkHealth ==
  ASSUME HInv, Chk
  PROVE  ReadInv' /\ WriteInv' /\ AdrInv'
<1> USE Numbers
<1>0. /\ MasterTypeOK /\ ReadInv /\ WriteInv /\ AdrInv /\ IInv
      /\ pcM' = pcM /\ doubled' = (doubled \/ Twins') /\ reach' = reach /\ sock' = sock
  BY ChkFrame DEF HInv, IInv
<1>1. AdrInv' /\ (doubled => doubled')
  BY <1>0 DEF AdrInv
<1>2. slave \in Slaves /\ slave \in 1 .. N /\ slstate \in [0 .. N -> 0 .. 31]
  BY <1>0 DEF MasterTypeOK, Slaves
<1>3. ASSUME slstate'[0] = slstate[0]
      PROVE  WriteInv' /\ (Asks' <=> Asks)
  BY <1>0, <1>3 DEF WriteInv, Asks
\* A step at the slave under the loop.
<1>4. ASSUME slstate'[0] = slstate[0],
             \A i \in Slaves : Pending(i)' => Pending(i) /\ i # slave /\ slstate'[i] = slstate[i],
             \A s \in Slaves : addr'[s] \in Slaves /\ addr'[s] # slave
                 => addr'[s] = addr[s] /\ al'[s] = al[s]
      PROVE  ReadInv' /\ WriteInv'
  <2>1. \A i, s \in Slaves : Pending(i)' /\ addr'[s] = i
                               => addr[s] = i /\ (Down(s) => Down(s)')
    BY <1>3, <1>4 DEF Down
  <2> QED
    BY <1>0, <1>1, <1>3, <1>4, <2>1, ReadKept
<1>5. CASE ChkWake
  <2>1. \A i \in Slaves : ~Pending(i)'
    BY <1>5 DEF ChkWake, ChkGoes, Pending
  <2> QED
    BY <1>1, <1>3, <1>5, <2>1 DEF ChkWake, ReadInv
<1>6. CASE ChkBroadcast \/ ChkFprd
  <2>1. ReadEach \/ ReadBroadcast
    BY <1>6 DEF ChkBroadcast, ChkFprd
  <2>2. slstate'[0] < 16 \/ slstate'[0] = slstate[0]
    <3>1. CASE ReadEach
      BY <1>0, <3>1, LowestType DEF ReadEach
    <3>2. CASE ReadBroadcast
      BY <3>2 DEF ReadBroadcast
    <3> QED
      BY <2>1, <3>1, <3>2
  <2>3. WriteInv'
    BY <1>0, <2>2 DEF WriteInv
  <2>4. ReadInv'
    <3>1. CASE ReadEach \/ (BrdSettles /\ ReadBroadcast)
      BY <1>0, <1>1, <1>6, <3>1, ReadAnew DEF ChkBroadcast, ChkFprd, devVars
    <3>2. CASE ChkBroadcast /\ ~BrdSettles
      <4>1. \A i \in Slaves : ~Pending(i)'
        BY <3>2 DEF ChkBroadcast, Pending
      <4> QED
        BY <4>1 DEF ReadInv
    <3> QED
      BY <1>6, <3>1, <3>2 DEF ChkBroadcast, ChkFprd
  <2> QED
    BY <1>1, <2>3, <2>4
\* Every other step leaves the pass with the slaves behind the one under the loop.
<1>7. ASSUME pcK \in {"visit", "init", "preop", "safeop", "fmmu", "lost", "setadr"},
             (slave' = slave /\ pcK' # "visit") \/ (pcK # "visit" /\ NextSlave)
      PROVE  \A i \in Slaves : Pending(i)' => Pending(i) /\ i # slave
  <2> SUFFICES ASSUME NEW i \in Slaves, Pending(i)'
               PROVE  Pending(i) /\ i # slave
    OBVIOUS
  <2>1. i \in Int /\ slave \in Int /\ (i >= slave + 1 => i > slave) /\ (i > slave => i >= slave /\ i # slave)
    BY <1>2 DEF Slaves
  <2>2. CASE slave' = slave /\ pcK' # "visit"
    BY <1>7, <2>1, <2>2 DEF Pending
  <2>3. CASE pcK # "visit" /\ NextSlave
    BY <1>7, <2>1, <2>3 DEF Pending, NextSlave
  <2> QED
    BY <1>7, <2>2, <2>3
<1>8. ASSUME NEW req, FPWR(slave, req), addr' = addr
      PROVE  \A s \in Slaves : addr'[s] \in Slaves /\ addr'[s] # slave
                 => addr'[s] = addr[s] /\ al'[s] = al[s]
  BY <1>8 DEF FPWR, Hit
<1>9. CASE VisitFine
  BY <1>0, <1>1, <1>4, <1>7, <1>9 DEF VisitFine, ChkGoes, ChkAt, devVars
<1>10. CASE VisitSilent
  <2>1. \A i \in 0 .. N : i # slave => slstate'[i] = slstate[i]
    BY <1>2, <1>10 DEF VisitSilent, Checked
  <2>2. \A i \in Slaves : Pending(i)' => Pending(i) /\ i # slave
    BY <1>7, <1>10 DEF VisitSilent, ChkGoes, ChkAt
  <2> QED
    BY <1>1, <1>2, <1>4, <1>10, <2>1, <2>2 DEF VisitSilent, devVars, Slaves
<1>11. ASSUME NEW seen, NEW req, VisitRequest(seen, req)
       PROVE  ReadInv' /\ WriteInv'
  <2>1. \A i \in 0 .. N : i # slave => slstate'[i] = slstate[i]
    BY <1>2, <1>11 DEF VisitRequest
  <2>2. \A i \in Slaves : Pending(i)' => Pending(i) /\ i # slave
    BY <1>7, <1>11 DEF VisitRequest, ChkGoes, ChkAt
  <2> QED
    BY <1>1, <1>2, <1>4, <1>8, <1>11, <2>1, <2>2 DEF VisitRequest, Slaves
<1>12. CASE VisitReconfig
  <2>1. \A i \in Slaves : Pending(i)' => Pending(i) /\ i # slave
    BY <1>7, <1>12 DEF VisitReconfig, ChkAt
  <2> QED
    BY <1>1, <1>4, <1>8, <1>12, <2>1 DEF VisitReconfig
<1>13. ASSUME NEW at \in {"init", "preop"}, NEW st, NEW req, NEW to \in {"preop", "safeop"},
              ReconfigStep(at, st, req, to)
       PROVE  ReadInv' /\ WriteInv'
  <2>1. \A i \in 0 .. N : i # slave => slstate'[i] = slstate[i]
    BY <1>2, <1>13 DEF ReconfigStep, Checked
  <2>2. \A i \in Slaves : Pending(i)' => Pending(i) /\ i # slave
    BY <1>7, <1>13 DEF ReconfigStep, ChkAt
  <2>3. \A s \in Slaves : addr'[s] \in Slaves /\ addr'[s] # slave
                 => addr'[s] = addr[s] /\ al'[s] = al[s]
    BY <1>8, <1>13 DEF ReconfigStep
  <2> QED
    BY <1>1, <1>2, <1>4, <2>1, <2>2, <2>3 DEF Slaves
<1>14. CASE ReconfigSafe \/ ReconfigFmmu
  <2>1. \A i \in 0 .. N : i # slave => slstate'[i] = slstate[i]
    BY <1>2, <1>14 DEF ReconfigSafe, ReconfigFmmu, Checked
  <2>2. \A i \in Slaves : Pending(i)' => Pending(i) /\ i # slave
    BY <1>7, <1>14 DEF ReconfigSafe, ReconfigFmmu, ChkGoes, ChkAt
  <2>3. UNCHANGED <<al, addr>>
    BY <1>14 DEF ReconfigSafe, ReconfigFmmu, devVars
  <2> QED
    BY <1>1, <1>2, <1>4, <2>1, <2>2, <2>3 DEF Slaves
<1>15. CASE NotLost \/ Found
  <2>1. \A i \in Slaves : Pending(i)' => Pending(i) /\ i # slave
    BY <1>7, <1>15 DEF NotLost, Found, ChkAt
  <2>2. UNCHANGED <<slstate, al, addr>>
    BY <1>15 DEF NotLost, Found, devVars
  <2> QED
    BY <1>1, <1>4, <2>1, <2>2
<1>16. CASE Probe \/ SetAddress
  <2>1. \A i \in Slaves : Pending(i)' => Pending(i) /\ i # slave
    BY <1>7, <1>16 DEF Probe, SetAddress, ChkAt
  <2>2. UNCHANGED <<slstate, al>>
    BY <1>16 DEF Probe, SetAddress
  <2>3. EC_TEMPNODE \notin Slaves /\ NoAdr \notin Slaves
    BY DEF EC_TEMPNODE, NoAdr, Slaves
  <2>4. ASSUME NEW s \in Slaves, addr'[s] \in Slaves, addr'[s] # slave
        PROVE  addr'[s] = addr[s]
    <3>1. CASE Probe
      BY <2>3, <2>4, <3>1 DEF Probe
    <3>2. CASE SetAddress
      BY <2>3, <2>4, <3>2 DEF SetAddress
    <3> QED
      BY <1>16, <3>1, <3>2
  <2> QED
    BY <1>1, <1>4, <2>1, <2>2, <2>4
<1> QED
  BY <1>1, <1>5, <1>6, <1>9, <1>10, <1>11, <1>12, <1>13, <1>14, <1>15, <1>16 DEF Chk

LEMMA Health == Spec => []HInv
<1>1. Init => HInv
  <2>1. Init => IInv
    BY Initially
  <2>2. Init => ReadInv /\ WriteInv /\ AdrInv
    BY DEF Init, ReadInv, Pending, WriteInv, AdrInv, Twins
  <2> QED
    BY <2>1, <2>2 DEF HInv
<1>2. HInv /\ [Next]_vars => HInv'
  <2> SUFFICES ASSUME HInv, [Next]_vars PROVE HInv'
    OBVIOUS
  <2>1. IInv'
    BY Preserved DEF HInv
  <2>2. CASE UNCHANGED vars
    BY <2>1, <2>2 DEF vars, mainVars, cycVars, chkVars, devVars, lineVars, HInv, ReadInv, Pending,
       Down, Asks, WriteInv, AdrInv, Twins
  <2> QED
    BY <2>1, <2>2, MainHealth, OtherHealth, ChkHealth DEF Next, HInv
<1> QED
  BY <1>1, <1>2, PTL DEF Spec

\* The supervision resets no slave that works, as long as no address has had two.
THEOREM SparesHealthy == Spec => HealthySpared
<1> DEFINE Spares == \A s \in Slaves :
       al[s] = EC_STATE_OPERATIONAL /\ al'[s] = EC_STATE_INIT /\ pcM' = pcM
         => addr'[s] = NoAdr \/ doubled
<1>1. HInv /\ [Next]_vars => [Spares]_vars
  <2> SUFFICES ASSUME HInv, Next, NEW s \in Slaves, al[s] = EC_STATE_OPERATIONAL,
                      al'[s] = EC_STATE_INIT, pcM' = pcM
               PROVE  addr'[s] = NoAdr \/ doubled
    OBVIOUS
  <2> USE Numbers
  <2>0. MasterTypeOK /\ ReadInv /\ slave \in Slaves
    BY DEF HInv, IInv, MasterTypeOK
  <2>1. ~(Main \/ StopRunning)
    BY DEF Main, StopRunning, EcInit, EcConfig, FirstStates, SetRequest, WriteRequest,
         StartExchange, CheckOperational, IsOperational, EcClose, MainGoes
  <2>2. ~Cyc
    BY DEF Cyc, CycZero, CycFirst, CycExchange, CycOnly, devVars
  <2>3. ASSUME Line PROVE addr'[s] = NoAdr
    BY <2>0, <2>3 DEF Line, Cut, Restore, PowerCycle, Drop, Watchdog, devVars, MasterTypeOK
  <2>4. ASSUME NEW req \in {2, 4, 8, 20}, NEW adr, FPWR(adr, req) PROVE FALSE
    BY <2>4, NotReset DEF FPWR
  <2>5. ASSUME VisitReconfig PROVE doubled
    <3>1. s \in Hit(slave) /\ slave >= slave
      BY <2>0, <2>5 DEF VisitReconfig, FPWR, Slaves
    <3>2. addr[s] = slave /\ Pending(slave) /\ slstate[slave] \notin Spared
      BY <2>5, <3>1 DEF VisitReconfig, ChkAt, Hit, Pending, Spared
    <3> QED
      BY <2>0, <3>2 DEF ReadInv, Down
  <2>6. ~(ChkWake \/ ChkBroadcast \/ ChkFprd \/ VisitFine \/ VisitSilent \/ ReconfigSafe
           \/ ReconfigFmmu \/ NotLost \/ Found \/ Probe \/ SetAddress)
    BY DEF ChkWake, ChkBroadcast, ChkFprd, VisitFine, VisitSilent, ReconfigSafe, ReconfigFmmu,
           NotLost, Found, Probe, SetAddress, devVars
  <2>7. ASSUME NEW seen, NEW req \in {8, 20}, VisitRequest(seen, req) PROVE FALSE
    BY <2>4, <2>7 DEF VisitRequest
  <2>8. ASSUME NEW at, NEW st, NEW req \in {2, 4}, NEW to, ReconfigStep(at, st, req, to) PROVE FALSE
    BY <2>4, <2>8 DEF ReconfigStep
  <2> QED
    BY <2>1, <2>2, <2>3, <2>5, <2>6, <2>7, <2>8 DEF Next, Chk
<1>2. Spec => [][Spares]_vars
  BY <1>1, Health, PTL DEF Spec
<1> QED
  BY <1>2 DEF HealthySpared
=============================================================================
