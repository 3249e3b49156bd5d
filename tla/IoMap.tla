------------------------------- MODULE IoMap --------------------------------
(***************************************************************************)
(* The process image: how ec_config lays the outputs and inputs of all     *)
(* slaves out in one logical address space (ethercatconfig.c), cuts it     *)
(* into segments, and how ec_send_processdata and ec_receive_processdata   *)
(* exchange it frame by frame (ethercatmain.c); and the windows that the   *)
(* RT process takes for its hands in it.                                   *)
(*                                                                         *)
(* A step maps one FMMU, ends one slave or one direction, sends all frames *)
(* of a cycle, or takes one frame back.  The IOmap begins at logical       *)
(* address 0 (group 0).  Two things are left out because nothing here can  *)
(* tell: the datagram for the clocks in the first frame, whose working     *)
(* counter starts the sum instead of being added to 0, and the limit of    *)
(* EC_MAXIOSEGMENTS (64) segments.                                         *)
(***************************************************************************)
EXTENDS Integers, Sequences, FiniteSets, FiniteSetsExt

CONSTANTS
    N,          \* slaves, by their position on the bus
    Layouts,    \* what a slave may be: [out, in] of its sync managers,
                \* each a sequence of [start, bits] in physical memory
    Limit,      \* bytes of process data in one frame
    WriteNum, ReadNum,  \* bytes of a hand in either direction
    kHandNum

ASSUME IoMapAssumption ==
    /\ N \in Nat \ {0} /\ Limit \in Nat \ {0} /\ kHandNum \in Nat \ {0}
    /\ WriteNum \in Nat \ {0} /\ ReadNum \in Nat \ {0}
    /\ \A l \in Layouts : \A d \in {"out", "in"} : l[d] \in Seq([start : Nat, bits : Nat])

VARIABLES
    dev,            \* [1 .. N -> Layouts]
    blockLRW,       \* a slave does not bear LRW
    pc, slave,
    SMc, FMMUdone, ByteCount, BitCount,     \* in the mapping of one slave
    LogAddr, BitPos, oLogAddr,
    fmmus,
    segments, segmentsize,                  \* IOsegment, and the one being filled
    outputsWKC, inputsWKC,
    Obytes, Isegment, Ioffset,
    stack,          \* frames sent and not yet received
    wkc,
    served          \* history: <<fmmu, address>> exchanged in this cycle

walkVars == <<SMc, FMMUdone, ByteCount, BitCount>>
segVars  == <<segments, segmentsize, oLogAddr>>
sumVars  == <<outputsWKC, inputsWKC, Obytes, Isegment, Ioffset>>
mapVars  == <<walkVars, LogAddr, BitPos, fmmus, segVars, sumVars, slave>>
vars     == <<dev, blockLRW, pc, mapVars, stack, wkc, served>>

Slaves == 1 .. N
Len8(bits) == (bits + 7) \div 8
Least(a, b) == IF a < b THEN a ELSE b

\* The sums of the first k of a sequence of numbers, for every k.
Upto(lens) ==
    LET sum[k \in 0 .. Len(lens)] == IF k = 0 THEN 0 ELSE sum[k - 1] + lens[k] IN sum
Total(lens) == Upto(lens)[Len(lens)]

\* Obits and Ibits, and Obytes and Ibytes: 0 for a slave of less than 8 bits.
Bits(s, d)  == Total([k \in DOMAIN dev[s][d] |-> dev[s][d][k].bits])
Bytes(s, d) == IF Bits(s, d) > 7 THEN Len8(Bits(s, d)) ELSE 0
SMlength(s, d, k) == Len8(dev[s][d][k].bits)
SMbytes(s, d)     == Upto([k \in DOMAIN dev[s][d] |-> SMlength(s, d, k)])
EndAddr(s, d, k)  == dev[s][d][k].start + SMlength(s, d, k)

Init ==
    /\ dev \in [Slaves -> Layouts] /\ blockLRW \in BOOLEAN
    /\ pc = "out" /\ slave = 1
    /\ SMc = 1 /\ FMMUdone = 0 /\ ByteCount = 0 /\ BitCount = 0
    /\ LogAddr = 0 /\ BitPos = 0 /\ oLogAddr = 0
    /\ fmmus = {} /\ segments = <<>> /\ segmentsize = 0
    /\ outputsWKC = 0 /\ inputsWKC = 0 /\ Obytes = 0 /\ Isegment = 1 /\ Ioffset = 0
    /\ stack = <<>> /\ wkc = 0 /\ served = {}

-----------------------------------------------------------------------------
(* ecx_config_create_output_mappings, ecx_config_create_input_mappings     *)

Mapping == pc \in {"out", "in"} /\ slave \in Slaves
Unmapped == Bits(slave, pc) > 0 /\ FMMUdone < Len8(Bits(slave, pc))

RunBytes(m) == SMbytes(slave, pc)[m] - SMbytes(slave, pc)[SMc - 1]

\* The sync managers from SMc on that share an FMMU: up to a gap in the physical
\* memory, or until there are bits enough.
RunEnd ==
    LET ends == {m \in SMc .. Len(dev[slave][pc]) :
                    \/ m = Len(dev[slave][pc])
                    \/ BitCount + 8 * RunBytes(m) >= Bits(slave, pc)
                    \/ dev[slave][pc][m + 1].start > EndAddr(slave, pc, m)} IN
    CHOOSE m \in ends : \A k \in ends : m <= k

Fmmu(from, startbit, length, endbit) ==
    [slave |-> slave, dir |-> pc, phys |-> dev[slave][pc][SMc].start,
     from |-> from, startbit |-> startbit, length |-> length, endbit |-> endbit]

\* Slaves of less than 8 bits are packed.
MapBits ==
    LET last == BitPos + Bits(slave, pc) - 1
        end  == LogAddr + last \div 8 IN
    /\ fmmus' = fmmus \cup {Fmmu(LogAddr, BitPos, end - LogAddr + 1, last % 8)}
    /\ FMMUdone' = FMMUdone + end - LogAddr + 1
    /\ LogAddr' = LogAddr + (last + 1) \div 8 /\ BitPos' = (last + 1) % 8

\* Mutant: a byte that bits were packed into is not left.
MapBytesNotAligned ==
    LET size == Least(ByteCount', Bytes(slave, pc) - FMMUdone) IN
    /\ fmmus' = fmmus \cup {Fmmu(LogAddr, 0, size, 7)}
    /\ FMMUdone' = FMMUdone + size
    /\ LogAddr' = LogAddr + size /\ BitPos' = 0

\* The others begin at a byte of their own.
MapBytes ==
    LET from == IF BitPos > 0 THEN LogAddr + 1 ELSE LogAddr
        size == Least(ByteCount', Bytes(slave, pc) - FMMUdone) IN
    /\ fmmus' = fmmus \cup {Fmmu(from, 0, size, 7)}
    /\ FMMUdone' = FMMUdone + size
    /\ LogAddr' = from + size /\ BitPos' = 0

\* One FMMU.  ByteCount and BitCount are those of all FMMUs of the slave.
MapFmmu ==
    /\ Mapping /\ Unmapped
    /\ ByteCount' = ByteCount + RunBytes(RunEnd) /\ BitCount' = BitCount + 8 * RunBytes(RunEnd)
    /\ SMc' = IF BitCount' < Bits(slave, pc) THEN RunEnd + 1 ELSE RunEnd
    /\ IF Bytes(slave, pc) = 0 THEN MapBits ELSE MapBytes
    /\ UNCHANGED <<dev, blockLRW, pc, slave, segVars, sumVars, stack, wkc, served>>

-----------------------------------------------------------------------------
(* ecx_main_config_map_group                                               *)

\* Mutant: a segment is filled before the next one begins.
AddFilling(diff) ==
    /\ oLogAddr' = LogAddr'
    /\ IF segmentsize + diff > Limit
       THEN segments' = Append(segments, Limit) /\ segmentsize' = segmentsize + diff - Limit
       ELSE segmentsize' = segmentsize + diff /\ UNCHANGED segments

\* Bytes are added to the segment, or begin the next one.
Add(diff) ==
    /\ oLogAddr' = LogAddr'
    /\ IF segmentsize + diff > Limit
       THEN segments' = Append(segments, segmentsize) /\ segmentsize' = diff
       ELSE segmentsize' = segmentsize + diff /\ UNCHANGED segments

SlaveDone ==
    /\ Mapping /\ ~Unmapped
    /\ slave' = slave + 1 /\ SMc' = 1
    /\ FMMUdone' = 0 /\ ByteCount' = 0 /\ BitCount' = 0
    /\ UNCHANGED LogAddr
    /\ LET has == IF Bits(slave, pc) > 0 THEN 1 ELSE 0 IN
       /\ IF has = 1 THEN Add(LogAddr - oLogAddr) ELSE UNCHANGED segVars
       /\ outputsWKC' = outputsWKC + (IF pc = "out" THEN has ELSE 0)
       /\ inputsWKC' = inputsWKC + (IF pc = "in" THEN has ELSE 0)
    /\ UNCHANGED <<dev, blockLRW, pc, BitPos, fmmus, Obytes, Isegment, Ioffset,
                   stack, wkc, served>>

\* A last byte that is not full is a byte.
Pad ==
    /\ BitPos' = 0
    /\ IF BitPos > 0 THEN LogAddr' = LogAddr + 1 /\ Add(1)
       ELSE UNCHANGED <<LogAddr, segVars>>

OutputsDone ==
    /\ pc = "out" /\ slave > N /\ pc' = "in" /\ slave' = 1
    /\ Pad
    /\ Obytes' = LogAddr' /\ Isegment' = Len(segments') + 1 /\ Ioffset' = segmentsize'
    /\ UNCHANGED <<dev, blockLRW, walkVars, fmmus, outputsWKC, inputsWKC,
                   stack, wkc, served>>

InputsDone ==
    /\ pc = "in" /\ slave > N /\ pc' = "close" /\ slave' = 1
    /\ Pad
    /\ UNCHANGED <<dev, blockLRW, walkVars, fmmus, sumVars, stack, wkc, served>>

\* The segment being filled is the last one; the mapping is complete.
CloseSegment ==
    /\ pc = "close" /\ pc' = "send"
    /\ segments' = Append(segments, segmentsize)
    /\ UNCHANGED <<dev, blockLRW, walkVars, LogAddr, BitPos, oLogAddr, fmmus,
                   segmentsize, sumVars, slave, stack, wkc, served>>

Map == MapFmmu \/ SlaveDone \/ OutputsDone \/ InputsDone \/ CloseSegment

Ibytes == LogAddr - Obytes
expectedWKC == outputsWKC * 2 + inputsWKC

-----------------------------------------------------------------------------
(* ecx_main_send_processdata, ecx_receive_processdata_group                *)

\* Frames of the given lengths from an address on.
Frames(cmd, origin, lens) ==
    [k \in DOMAIN lens |->
        [cmd |-> cmd, len |-> lens[k],
         from |-> origin + Upto(lens)[k - 1]]]

\* The inputs begin within a segment that the outputs have begun.
LRDFrames ==
    IF Ibytes = 0 THEN <<>>
    ELSE Frames("LRD", Obytes,
                <<segments[Isegment] - Ioffset>>
                    \o SubSeq(segments, Isegment + 1, Len(segments)))

LWRFrames ==
    IF Obytes = 0 THEN <<>>
    ELSE LET left(k) == Obytes - Upto(segments)[k - 1]
             last == CHOOSE k \in DOMAIN segments : left(k) > 0 /\ left(k) <= segments[k] IN
         Frames("LWR", 0, [k \in 1 .. last |-> Least(segments[k], left(k))])

Send ==
    /\ pc = "send" /\ pc' = "receive"
    /\ stack' = IF LogAddr = 0 THEN <<>>
                ELSE IF blockLRW THEN LRDFrames \o LWRFrames
                ELSE Frames("LRW", 0, segments)
    /\ wkc' = 0 /\ served' = {}
    /\ UNCHANGED <<dev, blockLRW, mapVars>>

FrameArea(f) == f.from .. f.from + f.len - 1
Area(m)  == m.from .. m.from + m.length - 1
Meets(m, f) == Area(m) \cap FrameArea(f) # {}
Does(m, f)  == f.cmd = "LRW" \/ f.cmd = IF m.dir = "out" THEN "LWR" ELSE "LRD"

\* A slave counts a frame once for its inputs and, in an LRW, twice for its
\* outputs.
Counts(s, f, dir) == \E m \in fmmus : m.slave = s /\ m.dir = dir /\ Does(m, f) /\ Meets(m, f)
Counter(S, f) ==
    Cardinality({s \in S : Counts(s, f, "in")})
    + (IF f.cmd = "LRW" THEN 2 ELSE 1) * Cardinality({s \in S : Counts(s, f, "out")})

Exchanged(S, f) ==
    UNION {{<<m, a>> : a \in Area(m) \cap FrameArea(f)} : m \in {m \in fmmus : m.slave \in S /\ Does(m, f)}}

\* Mutant: what an LRD counts is doubled as well.
ReceiveDoubled ==
    /\ pc = "receive" /\ stack # <<>> /\ stack' = Tail(stack)
    /\ LET f == Head(stack) IN
       \/ UNCHANGED <<wkc, served>>
       \/ \E S \in SUBSET Slaves :
             /\ wkc' = wkc + (IF f.cmd = "LRW" THEN 1 ELSE 2) * Counter(S, f)
             /\ served' = served \cup Exchanged(S, f)
    /\ UNCHANGED <<dev, blockLRW, pc, mapVars>>

\* The next frame of the stack: it does not come back, or the slaves of a set
\* that is up have exchanged their data with it.
Receive ==
    /\ pc = "receive" /\ stack # <<>> /\ stack' = Tail(stack)
    /\ LET f == Head(stack) IN
       \/ UNCHANGED <<wkc, served>>
       \/ \E S \in SUBSET Slaves :
             /\ wkc' = wkc + (IF f.cmd = "LWR" THEN 2 ELSE 1) * Counter(S, f)
             /\ served' = served \cup Exchanged(S, f)
    /\ UNCHANGED <<dev, blockLRW, pc, mapVars>>

\* ecatthread goes on to its next cycle.
NextCycle ==
    /\ pc = "receive" /\ stack = <<>> /\ pc' = "send"
    /\ UNCHANGED <<dev, blockLRW, mapVars, stack, wkc, served>>

-----------------------------------------------------------------------------
(* ethercat_run, ecatthread: the windows of the hands                      *)

\* Mutant: the hands that are configured, whatever is on the bus.
ActiveHandsAll == kHandNum

ActiveHands ==
    Max({1, Min({kHandNum, Obytes \div WriteNum, Ibytes \div ReadNum})})

\* Hand h, from 1, is written at outputs[WriteNum * (h - 1)] and read at inputs[...].
TxWindow(h) == WriteNum * (h - 1) .. WriteNum * h - 1
RxWindow(h) == Obytes + ReadNum * (h - 1) .. Obytes + ReadNum * h - 1

Next == Map \/ Send \/ Receive \/ NextCycle

Spec == Init /\ [][Next]_vars
=============================================================================
