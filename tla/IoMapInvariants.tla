-------------------------- MODULE IoMapInvariants --------------------------
(***************************************************************************)
(* The properties of IoMap.                                                *)
(***************************************************************************)
EXTENDS IoMap

Mapped == pc \in {"send", "receive"}

\* The bits of the IOmap that an FMMU takes: eight times the address, plus the bit.
BitArea(m) == 8 * m.from + m.startbit .. 8 * (m.from + m.length - 1) + m.endbit

\* The bytes of physical memory that an FMMU maps, and those of a sync manager.
Phys(m) == m.phys .. m.phys + m.length - 1
SMArea(s, d, k) == dev[s][d][k].start .. EndAddr(s, d, k) - 1

Apart ==
    /\ \A m, n \in fmmus : m # n => BitArea(m) \cap BitArea(n) = {}
    /\ \A m \in fmmus : Area(m) \subseteq
          IF m.dir = "out" THEN 0 .. Obytes - 1 ELSE Obytes .. LogAddr - 1

Covered(s, d) ==
    UNION {Phys(m) : m \in {m \in fmmus : m.slave = s /\ m.dir = d}}
        = UNION {SMArea(s, d, k) : k \in DOMAIN dev[s][d]}

\* What the byte counter, which goes on counting at the next FMMU, gets right: one
\* gap at most, each sync manager behind the one before it, and none that ends
\* within a byte.
Gap(s, d, k) == dev[s][d][k + 1].start > EndAddr(s, d, k)
Plain(s, d) ==
    /\ Bytes(s, d) = SMbytes(s, d)[Len(dev[s][d])]
    /\ \A k \in 1 .. Len(dev[s][d]) - 1 : dev[s][d][k + 1].start >= EndAddr(s, d, k)
    /\ \A j, k \in 1 .. Len(dev[s][d]) - 1 : Gap(s, d, j) /\ Gap(s, d, k) => j = k

\* No two FMMUs share a bit of the IOmap, though small slaves share its bytes, and
\* no output lies among the inputs.  The sync managers of a slave that is mapped
\* byte by byte are mapped whole, and nothing beside them, whether an FMMU serves
\* one of them or several, if they are plain.
WellMapped ==
    Mapped => /\ Apart
              /\ \A s \in Slaves, d \in {"out", "in"} : Bytes(s, d) > 0 /\ Plain(s, d) => Covered(s, d)

\* Its data cross from one frame to the next.
Split(m) == \E k \in DOMAIN segments :
    m.from < Upto(segments)[k] /\ Upto(segments)[k] < m.from + m.length

\* The working counter reaches the expected value only if every slave has exchanged
\* all its outputs and inputs in this cycle: no frame that failed and no slave that
\* is silent is made up for by another, unless a slave of a few bits lies across two
\* frames and is counted in both.
CompleteIsFresh ==
    /\ pc = "receive" /\ stack = <<>> /\ wkc >= expectedWKC
    /\ \A m \in fmmus : ~Split(m)
    => served = UNION {{<<m, a>> : a \in Area(m)} : m \in fmmus}

\* The frames hold the whole image, none is longer than the limit unless a slave has
\* as much in one direction, and no slave that has bytes of its own is cut by the
\* end of a frame.
FramesFit ==
    Mapped => /\ Total(segments) = LogAddr
              /\ (\A s \in Slaves, d \in {"out", "in"} : Bytes(s, d) < Limit)
                    => \A k \in DOMAIN segments : segments[k] <= Limit
              /\ \A m \in fmmus : Split(m) => Bytes(m.slave, m.dir) = 0

Region(s, d) == UNION {Area(m) : m \in {m \in fmmus : m.slave = s /\ m.dir = d}}

IsHand(s) == Bits(s, "out") = 8 * WriteNum /\ Bits(s, "in") = 8 * ReadNum

\* What the RT process writes and reads for a hand lies in the outputs and in the
\* inputs, if at least one hand fits in (without one it still serves one); and it is
\* mapped to that hand, if the hands come first on the bus, whatever follows them.
OwnWindow ==
    Mapped => \A h \in 1 .. ActiveHands :
        /\ Obytes >= WriteNum /\ Ibytes >= ReadNum =>
              /\ TxWindow(h) \subseteq 0 .. Obytes - 1
              /\ RxWindow(h) \subseteq Obytes .. LogAddr - 1
        /\ (\A s \in 1 .. Least(h, N) : IsHand(s)) =>
              /\ h <= N
              /\ Region(h, "out") = TxWindow(h)
              /\ Region(h, "in") = RxWindow(h)
=============================================================================
