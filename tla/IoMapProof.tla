----------------------------- MODULE IoMapProof -----------------------------
(***************************************************************************)
(* Proofs about IoMap, for any number of slaves, any sync managers and any *)
(* length of a frame.                                                      *)
(***************************************************************************)
EXTENDS IoMapInvariants, WellFoundedInduction, SequenceTheorems, FiniteSetTheorems, TLAPS

LEMMA Constants ==
  /\ N \in Nat \ {0} /\ Limit \in Nat \ {0} /\ kHandNum \in Nat \ {0}
  /\ WriteNum \in Nat \ {0} /\ ReadNum \in Nat \ {0}
BY IoMapAssumption

USE Constants

Dirs == {"out", "in"}

FmmuType == [slave : Slaves, dir : Dirs, phys : Nat, from : Nat, startbit : 0 .. 7,
             length : Nat, endbit : 0 .. 7]

TypeInv ==
    /\ dev \in [Slaves -> Layouts] /\ blockLRW \in BOOLEAN
    /\ pc \in {"out", "in", "close", "send", "receive"} /\ slave \in 1 .. N + 1
    /\ SMc \in Nat \ {0} /\ FMMUdone \in Nat /\ ByteCount \in Nat /\ BitCount \in Nat
    /\ LogAddr \in Nat /\ oLogAddr \in Nat /\ BitPos \in 0 .. 7
    /\ fmmus \subseteq FmmuType
    /\ segments \in Seq(Nat) /\ segmentsize \in Nat
    /\ outputsWKC \in Nat /\ inputsWKC \in Nat
    /\ Obytes \in Nat /\ Isegment \in Nat \ {0} /\ Ioffset \in Nat
    /\ wkc \in Nat

\* The loop over the sync managers of a slave: what has been counted is what lies
\* before SMc, until there are bits enough, and then the loop is over.
AtStart == SMc = 1 /\ FMMUdone = 0 /\ ByteCount = 0 /\ BitCount = 0
WalkInv ==
    IF ~Mapping THEN AtStart ELSE
    /\ BitCount = 8 * ByteCount
    /\ SMc <= Len(dev[slave][pc]) + 1
    /\ BitCount < Bits(slave, pc) =>
          SMc <= Len(dev[slave][pc]) /\ ByteCount = SMbytes(slave, pc)[SMc - 1]
    /\ BitCount >= Bits(slave, pc) => FMMUdone >= Len8(Bits(slave, pc))
    /\ Bits(slave, pc) = 0 => FMMUdone = 0
    /\ Bytes(slave, pc) > 0 => FMMUdone <= Bytes(slave, pc)

\* Every FMMU lies before the place the mapping has come to.
Before(m) == 8 * (m.from + m.length - 1) + m.endbit < 8 * LogAddr + BitPos
ImageInv ==
    /\ \A m \in fmmus : Before(m)
    /\ \A m, n \in fmmus : m # n => BitArea(m) \cap BitArea(n) = {}
    /\ pc = "out" => \A m \in fmmus : m.dir = "out"
    /\ pc # "out" => /\ Obytes <= LogAddr
                     /\ \A m \in fmmus : IF m.dir = "out" THEN m.from + m.length <= Obytes
                                                         ELSE m.from >= Obytes
    /\ pc \notin Dirs => BitPos = 0

\* Whose they are; a slave of a few bits has one.
Of(s, d) == {m \in fmmus : m.slave = s /\ m.dir = d}
OwnerInv ==
    /\ \A m \in fmmus : /\ Bits(m.slave, m.dir) > 0
                        /\ m.dir = pc => m.slave <= slave
    /\ \A m, n \in fmmus :
          m.slave = n.slave /\ m.dir = n.dir /\ Bytes(m.slave, m.dir) = 0 => m = n
    /\ Mapping /\ FMMUdone = 0 /\ Bytes(slave, pc) = 0 => Of(slave, pc) = {}

-----------------------------------------------------------------------------
(* The segments.                                                           *)

\* What has been added to a segment ends at oLogAddr; a slave mapped byte by byte
\* leaves a byte of bits behind it.
SegInv ==
    /\ pc \in Dirs \cup {"close"} => Total(segments) + segmentsize = oLogAddr
    /\ Mapped => Total(segments) = oLogAddr
    /\ ~Mapping => oLogAddr = LogAddr
    /\ Mapping =>
          IF Bytes(slave, pc) > 0
          THEN /\ LogAddr - oLogAddr - FMMUdone \in {0, 1}
               /\ LogAddr - oLogAddr - FMMUdone = 1 \/ FMMUdone > 0 => BitPos = 0
          ELSE /\ LogAddr - oLogAddr \in {0, 1}
               /\ FMMUdone = 0 => LogAddr = oLogAddr

\* No slave that has bytes of its own lies on both sides of the end of a segment.
Cuts == {Upto(segments)[k] : k \in 0 .. Len(segments)}
Beside(c, s, d) == \/ \A m \in Of(s, d) : m.from + m.length <= c
                   \/ \A m \in Of(s, d) : m.from >= c
CutInv ==
    /\ \A c \in Cuts : c <= oLogAddr
    /\ \A c \in Cuts, s \in Slaves, d \in Dirs : Bytes(s, d) > 0 => Beside(c, s, d)
    /\ \A m \in fmmus : Bytes(m.slave, m.dir) > 0 =>
          IF m.dir = pc /\ m.slave = slave
          THEN m.from >= oLogAddr /\ m.from + m.length <= LogAddr
          ELSE m.from + m.length <= oLogAddr

Small == \A s \in Slaves, d \in Dirs : Bytes(s, d) < Limit
LimitInv == Small => segmentsize <= Limit /\ \A k \in DOMAIN segments : segments[k] <= Limit

\* The inputs begin Ioffset bytes into segment Isegment.
OffsetInv ==
    pc # "out" =>
      /\ Isegment <= Len(segments) + 1 /\ (Mapped => Isegment <= Len(segments))
      /\ Upto(segments)[Isegment - 1] + Ioffset = Obytes
      /\ Isegment <= Len(segments) => Ioffset <= segments[Isegment]
      /\ ~Mapped /\ Isegment = Len(segments) + 1 => Ioffset <= segmentsize

-----------------------------------------------------------------------------
(* The physical memory, and the hands.                                     *)

Ready(s, d) == \/ pc = d /\ s < slave
               \/ pc # "out" /\ d = "out"
               \/ pc \notin Dirs

PhysOf(s, d) == UNION {Phys(m) : m \in Of(s, d)}
SMsOf(s, d, n) == UNION {SMArea(s, d, k) : k \in 1 .. n}
PhysInv ==
    /\ Mapping /\ Bytes(slave, pc) > 0 /\ Plain(slave, pc) =>
          IF BitCount < Bits(slave, pc)
          THEN /\ FMMUdone = ByteCount /\ (SMc > 1 => Gap(slave, pc, SMc - 1))
               /\ PhysOf(slave, pc) = SMsOf(slave, pc, SMc - 1)
          ELSE PhysOf(slave, pc) = SMsOf(slave, pc, Len(dev[slave][pc]))
    /\ \A s \in Slaves, d \in Dirs :
          Ready(s, d) /\ Bytes(s, d) > 0 /\ Plain(s, d) => Covered(s, d)

\* The first n slaves are hands.
Hands(n)    == \A s \in 1 .. n : IsHand(s)
Width(d)    == IF d = "out" THEN WriteNum ELSE ReadNum
Start(s, d) == (IF d = "out" THEN 0 ELSE Obytes) + Width(d) * (s - 1)
HandInv ==
    /\ pc \in Dirs /\ Hands(Least(slave, N)) => BitPos = 0 /\ LogAddr = Start(slave, pc) + FMMUdone
    /\ Mapping /\ Hands(slave) =>
          Region(slave, pc) = Start(slave, pc) .. Start(slave, pc) + FMMUdone - 1
    /\ \A s \in Slaves, d \in Dirs :
          Ready(s, d) /\ Hands(s) => Region(s, d) = Start(s, d) .. Start(s, d) + Width(d) - 1
    /\ pc # "out" /\ Hands(N) => Obytes = WriteNum * N

-----------------------------------------------------------------------------
(* The working counter.                                                    *)

Has(d) == {s \in Slaves : Bits(s, d) > 0}
CountInv ==
    /\ outputsWKC = Cardinality({s \in Has("out") : Ready(s, "out")})
    /\ inputsWKC = Cardinality({s \in Has("in") : Ready(s, "in")})

\* A frame begins and ends at the end of a segment, or between outputs and inputs, and
\* no two hold the same bytes in the same direction.
FrameType == [cmd : {"LRW", "LRD", "LWR"}, len : Nat, from : Nat]
Edges(f) == {f.from, f.from + f.len}
Later(f, g) == f.from + f.len <= g.from \/ {f.cmd, g.cmd} = {"LRD", "LWR"}
Framed(frames) ==
    /\ frames \in Seq(FrameType)
    /\ \A k \in DOMAIN frames : Edges(frames[k]) \subseteq Cuts \cup {Obytes}
    /\ \A j, k \in DOMAIN frames : j < k => Later(frames[j], frames[k])
StackInv == IF pc = "receive" THEN Framed(stack) ELSE stack = <<>>

\* What has been exchanged is not in the frames to come; each slave whose data in one
\* direction have been exchanged accounts for one count, or for two.
All(d)   == {s \in Has(d) : \A m \in Of(s, d) : \A a \in Area(m) : <<m, a>> \in served}
FreshInv ==
    pc = "receive" =>
      /\ \A p \in served : p[1] \in fmmus /\ p[2] \in Area(p[1]) /\ p = <<p[1], p[2]>>
      /\ \A p \in served, k \in DOMAIN stack : Does(p[1], stack[k]) => p[2] \notin FrameArea(stack[k])
      /\ (\A m \in fmmus : ~Split(m)) => wkc <= 2 * Cardinality(All("out")) + Cardinality(All("in"))

-----------------------------------------------------------------------------
(* Sums                                                                    *)

\* The loop that stops at the first index it finds finds one.
LEMMA HasLeast ==
  ASSUME NEW S, S \subseteq Nat, S # {}
  PROVE  \E k \in S : \A l \in S : k <= l
<1>1. PICK k \in S : \A l \in S : ~(<<l, k>> \in OpToRel(<, Nat))
  BY NatLessThanWellFounded, WFMin
<1>2. \A l \in S : ~(l < k)
  BY <1>1 DEF OpToRel
<1> QED
  BY <1>2

\* The defining equation of the sums of the first k, as the solution of which the
\* recursive function is chosen, has one.
LEMMA SumsExist ==
  ASSUME NEW n \in Nat, NEW v \in [1 .. n -> Int]
  PROVE  \E f : f = [k \in 0 .. n |-> IF k = 0 THEN 0 ELSE f[k - 1] + v[k]]
<1> DEFINE Sums(m) == {f \in [0 .. m -> Int] :
                          f[0] = 0 /\ \A k \in 1 .. m : f[k] = f[k - 1] + v[k]}
           S == {m \in 0 .. n : Sums(m) = {}}
<1>1. S = {}
  <2> SUFFICES ASSUME S # {} PROVE FALSE
    OBVIOUS
  <2>1. PICK m \in S : \A l \in S : m <= l
    <3> S \subseteq Nat
      OBVIOUS
    <3> HIDE DEF S
    <3> QED
      BY HasLeast
  <2>2. m \in 0 .. n /\ Sums(m) = {}
    BY <2>1
  <2>3. m # 0
    <3> DEFINE z == [k \in 0 .. 0 |-> 0]
    <3>1. z \in Sums(0)
      OBVIOUS
    <3> QED
      BY <2>2, <3>1
  <2>4. m - 1 \in 0 .. n /\ m - 1 \notin S
    <3>1. m - 1 \in 0 .. n /\ ~(m <= m - 1)
      BY <2>2, <2>3
    <3> HIDE DEF S
    <3> QED
      BY <2>1, <3>1
  <2>5. PICK f : f \in Sums(m - 1)
    BY <2>4
  <2> DEFINE g == [k \in 0 .. m |-> IF k = m THEN f[m - 1] + v[m] ELSE f[k]]
  <2>6. f \in [0 .. m - 1 -> Int] /\ f[0] = 0 /\ \A k \in 1 .. m - 1 : f[k] = f[k - 1] + v[k]
    BY <2>5
  <2>7. f[m - 1] + v[m] \in Int
    BY <2>2, <2>3, <2>6
  <2>8. g \in [0 .. m -> Int] /\ g[0] = 0
    BY <2>2, <2>3, <2>6, <2>7
  <2>9. \A k \in 1 .. m : g[k] = g[k - 1] + v[k]
    BY <2>2, <2>3, <2>6, <2>7
  <2>10. g \in Sums(m)
    BY <2>8, <2>9
  <2> QED
    BY <2>2, <2>10
<1>2. PICK f : f \in Sums(n)
  <2>1. n \in 0 .. n
    OBVIOUS
  <2> HIDE DEF Sums
  <2> QED
    BY <1>1, <2>1
<1>3. f \in [0 .. n -> Int] /\ f[0] = 0 /\ \A k \in 1 .. n : f[k] = f[k - 1] + v[k]
  BY <1>2
<1> DEFINE h == [k \in 0 .. n |-> IF k = 0 THEN 0 ELSE f[k - 1] + v[k]]
<1>4. \A k \in 0 .. n : h[k] = f[k]
  BY <1>3
<1>5. f = h
  BY <1>3, <1>4
<1> QED
  BY <1>5

LEMMA UptoIs ==
  ASSUME NEW n \in Nat, NEW v \in [1 .. n -> Int]
  PROVE  /\ Len(v) = n /\ DOMAIN Upto(v) = 0 .. n /\ Upto(v)[0] = 0
         /\ \A k \in 1 .. n : Upto(v)[k] = Upto(v)[k - 1] + v[k]
<1>1. Len(v) = n
  OBVIOUS
<1> DEFINE U == CHOOSE f : f = [k \in 0 .. n |-> IF k = 0 THEN 0 ELSE f[k - 1] + v[k]]
<1>2. Upto(v) = U
  BY <1>1 DEF Upto
<1>3. U = [k \in 0 .. n |-> IF k = 0 THEN 0 ELSE U[k - 1] + v[k]]
  BY SumsExist
<1> HIDE DEF U
<1> QED
  BY <1>1, <1>2, <1>3

\* The sums are numbers, and grow with k if what is summed is natural.
LEMMA UptoInt ==
  ASSUME NEW n \in Nat, NEW v \in [1 .. n -> Int], NEW k \in 0 .. n
  PROVE  Upto(v)[k] \in Int
<1> DEFINE S == {m \in 0 .. n : Upto(v)[m] \notin Int}
<1> SUFFICES ASSUME S # {} PROVE FALSE
  OBVIOUS
<1>1. PICK m \in S : \A l \in S : m <= l
  <2> S \subseteq Nat
    OBVIOUS
  <2> HIDE DEF S
  <2> QED
    BY HasLeast
<1>2. m # 0
  BY <1>1, UptoIs
<1>3. m \in 1 .. n /\ m - 1 \in 0 .. n /\ m - 1 \notin S
  BY <1>1, <1>2
<1>4. Upto(v)[m] = Upto(v)[m - 1] + v[m] /\ Upto(v)[m - 1] \in Int
  BY <1>3, UptoIs
<1> QED
  BY <1>1, <1>3, <1>4

LEMMA UptoGrows ==
  ASSUME NEW n \in Nat, NEW v \in [1 .. n -> Nat], NEW i \in 0 .. n, NEW j \in i .. n
  PROVE  Upto(v)[i] <= Upto(v)[j]
<1>a. v \in [1 .. n -> Int] /\ \A m \in 0 .. n : Upto(v)[m] \in Int
  <2>1. v \in [1 .. n -> Int]
    OBVIOUS
  <2> QED
    BY <2>1, UptoInt
<1> DEFINE S == {m \in i .. n : ~(Upto(v)[i] <= Upto(v)[m])}
<1> SUFFICES ASSUME S # {} PROVE FALSE
  OBVIOUS
<1>1. PICK m \in S : \A l \in S : m <= l
  <2> S \subseteq Nat
    OBVIOUS
  <2> HIDE DEF S
  <2> QED
    BY HasLeast
<1>2. m # i
  BY <1>a, <1>1
<1>3. m \in 1 .. n /\ m - 1 \in i .. n /\ m - 1 \notin S
  BY <1>1, <1>2
<1>4. Upto(v)[m] = Upto(v)[m - 1] + v[m] /\ Upto(v)[i] <= Upto(v)[m - 1]
  BY <1>a, <1>3, UptoIs
<1> QED
  BY <1>a, <1>1, <1>3, <1>4

LEMMA UptoNat ==
  ASSUME NEW n \in Nat, NEW v \in [1 .. n -> Nat]
  PROVE  Upto(v) \in [0 .. n -> Nat]
<1>1. v \in [1 .. n -> Int]
  OBVIOUS
<1>2. \A k \in 0 .. n : Upto(v)[k] \in Int /\ Upto(v)[0] <= Upto(v)[k]
  BY <1>1, UptoInt, UptoGrows
<1>3. DOMAIN Upto(v) = 0 .. n /\ Upto(v)[0] = 0
  BY <1>1, UptoIs
<1>4. Upto(v) = [k \in 0 .. n |-> Upto(v)[k]]
  <2>1. \E f : f = [k \in 0 .. n |-> IF k = 0 THEN 0 ELSE f[k - 1] + v[k]]
    BY <1>1, SumsExist
  <2>2. Len(v) = n
    OBVIOUS
  <2> DEFINE U == CHOOSE f : f = [k \in 0 .. n |-> IF k = 0 THEN 0 ELSE f[k - 1] + v[k]]
  <2>3. U = [k \in 0 .. n |-> IF k = 0 THEN 0 ELSE U[k - 1] + v[k]]
    BY <2>1
  <2>4. Upto(v) = U
    BY <2>2 DEF Upto
  <2> HIDE DEF U
  <2> QED
    BY <2>3, <2>4
<1> QED
  BY <1>2, <1>3, <1>4


\* Sequences that agree up to k have the same sum up to k.
LEMMA UptoAgree ==
  ASSUME NEW n \in Nat, NEW v \in [1 .. n -> Int], NEW m \in Nat, NEW w \in [1 .. m -> Int],
         NEW k \in Nat, k <= n, k <= m, \A j \in 1 .. k : v[j] = w[j]
  PROVE  Upto(v)[k] = Upto(w)[k]
<1> DEFINE S == {j \in 0 .. k : Upto(v)[j] # Upto(w)[j]}
<1> SUFFICES ASSUME S # {} PROVE FALSE
  OBVIOUS
<1>1. PICK j \in S : \A l \in S : j <= l
  <2> S \subseteq Nat
    OBVIOUS
  <2> HIDE DEF S
  <2> QED
    BY HasLeast
<1>2. j # 0
  BY <1>1, UptoIs
<1>3. j \in 1 .. k /\ j - 1 \in 0 .. k /\ ~(j <= j - 1)
  BY <1>1, <1>2
<1>4. j - 1 \notin S
  <2> HIDE DEF S
  <2> QED
    BY <1>1, <1>3
<1>5. Upto(v)[j] = Upto(v)[j - 1] + v[j] /\ Upto(w)[j] = Upto(w)[j - 1] + w[j]
  <2>1. j \in 1 .. n /\ j \in 1 .. m
    BY <1>3
  <2> QED
    BY <2>1, UptoIs
<1> QED
  BY <1>1, <1>3, <1>4, <1>5

LEMMA UptoAppend ==
  ASSUME NEW v \in Seq(Nat), NEW x \in Nat
  PROVE  /\ Append(v, x) \in Seq(Nat) /\ Len(Append(v, x)) = Len(v) + 1
         /\ \A k \in 0 .. Len(v) : Upto(Append(v, x))[k] = Upto(v)[k]
         /\ Upto(Append(v, x))[Len(v) + 1] = Total(v) + x
<1> DEFINE n == Len(v)
           w == Append(v, x)
<1>1. n \in Nat /\ v \in [1 .. n -> Int] /\ w \in Seq(Nat) /\ Len(w) = n + 1
      /\ w \in [1 .. n + 1 -> Int]
  <2>1. w \in Seq(Nat) /\ Len(w) = n + 1
    BY AppendProperties
  <2>2. w \in [1 .. n + 1 -> Nat]
    <3> HIDE DEF w
    <3> QED
      BY <2>1
  <2>3. w \in [1 .. n + 1 -> Int]
    <3> HIDE DEF w
    <3> QED
      BY <2>2
  <2> QED
    BY <2>1, <2>3
<1>2. \A j \in 1 .. n : w[j] = v[j]
  OBVIOUS
<1>3. w[n + 1] = x
  OBVIOUS
<1> HIDE DEF w
<1>4. \A k \in 0 .. n : Upto(w)[k] = Upto(v)[k]
  <2> SUFFICES ASSUME NEW k \in 0 .. n PROVE Upto(w)[k] = Upto(v)[k]
    OBVIOUS
  <2>1. k \in Nat /\ k <= n /\ k <= n + 1 /\ n + 1 \in Nat
        /\ \A j \in 1 .. k : w[j] = v[j]
    BY <1>1, <1>2
  <2> HIDE DEF n
  <2> QED
    BY <1>1, <2>1, UptoAgree
<1>5. Upto(w)[n + 1] = Upto(w)[n] + w[n + 1]
  <2>1. n + 1 \in Nat /\ n + 1 \in 1 .. n + 1 /\ (n + 1) - 1 = n
    BY <1>1
  <2> HIDE DEF n
  <2> QED
    BY <1>1, <2>1, UptoIs
<1> QED
  BY <1>1, <1>3, <1>4, <1>5 DEF Total, w

\* The sums of a sequence of natural numbers.
LEMMA UptoSeq ==
  ASSUME NEW v \in Seq(Nat)
  PROVE  /\ Upto(v) \in [0 .. Len(v) -> Nat] /\ Upto(v)[0] = 0 /\ Total(v) \in Nat
         /\ \A k \in 1 .. Len(v) : Upto(v)[k] = Upto(v)[k - 1] + v[k]
         /\ \A i, j \in 0 .. Len(v) : i <= j => Upto(v)[i] <= Upto(v)[j]
<1> DEFINE n == Len(v)
<1>1. n \in Nat /\ v \in [1 .. n -> Nat] /\ v \in [1 .. n -> Int]
  OBVIOUS
<1> HIDE DEF n
<1>2. Upto(v) \in [0 .. n -> Nat] /\ Upto(v)[0] = 0
      /\ \A k \in 1 .. n : Upto(v)[k] = Upto(v)[k - 1] + v[k]
  BY <1>1, UptoNat, UptoIs
<1>3. \A i, j \in 0 .. n : i <= j => Upto(v)[i] <= Upto(v)[j]
  <2> SUFFICES ASSUME NEW i \in 0 .. n, NEW j \in 0 .. n, i <= j
               PROVE  Upto(v)[i] <= Upto(v)[j]
    OBVIOUS
  <2>1. j \in i .. n
    BY <1>1
  <2> QED
    BY <1>1, <2>1, UptoGrows
<1>4. Total(v) \in Nat
  BY <1>1, <1>2 DEF Total, n
<1> QED
  BY <1>2, <1>3, <1>4 DEF n

-----------------------------------------------------------------------------
(* Sync managers                                                           *)

LEMMA EighthIs ==
  ASSUME NEW b \in Nat
  PROVE  Len8(b) \in Nat /\ 8 * Len8(b) >= b /\ 8 * Len8(b) <= b + 7
BY DEF Len8

\* The bytes of the sync managers of a slave, and its bits.
LEMMA SlaveIs ==
  ASSUME TypeInv, NEW s \in Slaves, NEW d \in Dirs
  PROVE  LET n == Len(dev[s][d]) IN
         /\ n \in Nat /\ DOMAIN dev[s][d] = 1 .. n
         /\ \A k \in 1 .. n : /\ dev[s][d][k].start \in Nat /\ dev[s][d][k].bits \in Nat
                              /\ SMlength(s, d, k) = Len8(dev[s][d][k].bits)
                              /\ SMlength(s, d, k) \in Nat /\ EndAddr(s, d, k) \in Nat
         /\ SMbytes(s, d) \in [0 .. n -> Nat] /\ SMbytes(s, d)[0] = 0
         /\ \A k \in 1 .. n : SMbytes(s, d)[k] = SMbytes(s, d)[k - 1] + SMlength(s, d, k)
         /\ \A i, j \in 0 .. n : i <= j => SMbytes(s, d)[i] <= SMbytes(s, d)[j]
         /\ Bits(s, d) \in Nat /\ 8 * SMbytes(s, d)[n] >= Bits(s, d)
         /\ Bytes(s, d) \in Nat
         /\ IF Bits(s, d) > 7 THEN Bytes(s, d) = Len8(Bits(s, d)) ELSE Bytes(s, d) = 0
<1> DEFINE sms == dev[s][d]
           n == Len(sms)
           B == [k \in DOMAIN sms |-> sms[k].bits]
           L == [k \in DOMAIN sms |-> SMlength(s, d, k)]
<1>1. dev[s] \in Layouts
  BY DEF TypeInv
<1>2. sms \in Seq([start : Nat, bits : Nat])
  BY <1>1, IoMapAssumption DEF Dirs
<1>3. n \in Nat /\ DOMAIN sms = 1 .. n
      /\ \A k \in 1 .. n : sms[k].start \in Nat /\ sms[k].bits \in Nat
  <2> HIDE DEF sms
  <2>1. n \in Nat /\ DOMAIN sms = 1 .. n
        /\ \A k \in 1 .. n : sms[k] \in [start : Nat, bits : Nat]
    <3> DEFINE R == [start : Nat, bits : Nat]
    <3> HIDE DEF R
    <3> SUFFICES n \in Nat /\ DOMAIN sms = 1 .. n /\ \A k \in 1 .. n : sms[k] \in R
      BY DEF R
    <3>1. sms \in Seq(R)
      BY <1>2 DEF R
    <3>2. n \in Nat /\ sms \in [1 .. n -> R] /\ DOMAIN sms = 1 .. n
      BY <3>1, LenProperties
    <3> QED
      BY <3>2
  <2> QED
    BY <2>1
<1>4. \A k \in 1 .. n : /\ SMlength(s, d, k) = Len8(sms[k].bits)
                        /\ SMlength(s, d, k) \in Nat /\ EndAddr(s, d, k) \in Nat
  <2> SUFFICES ASSUME NEW k \in 1 .. n
               PROVE  /\ SMlength(s, d, k) = Len8(sms[k].bits)
                      /\ SMlength(s, d, k) \in Nat /\ EndAddr(s, d, k) \in Nat
    OBVIOUS
  <2>1. SMlength(s, d, k) = Len8(sms[k].bits) /\ SMlength(s, d, k) \in Nat
    BY <1>3, EighthIs DEF SMlength
  <2>2. EndAddr(s, d, k) = sms[k].start + SMlength(s, d, k)
    BY DEF EndAddr
  <2> QED
    BY <1>3, <2>1, <2>2
<1>5. B \in [1 .. n -> Nat] /\ L \in [1 .. n -> Nat]
      /\ \A k \in 1 .. n : B[k] = sms[k].bits /\ L[k] = SMlength(s, d, k)
  BY <1>3, <1>4
<1>6. B \in Seq(Nat) /\ L \in Seq(Nat) /\ Len(B) = n /\ Len(L) = n
  <2> HIDE DEF B, L, n
  <2>1. \A f \in [1 .. n -> Nat] : f \in Seq(Nat) /\ Len(f) = n
    BY <1>3
  <2> QED
    BY <1>5, <2>1
<1> HIDE DEF B, L
<1>7. SMbytes(s, d) = Upto(L) /\ Bits(s, d) = Upto(B)[n]
  BY <1>6 DEF SMbytes, Bits, Total, B, L
<1> HIDE DEF n
<1>8. /\ SMbytes(s, d) \in [0 .. n -> Nat] /\ SMbytes(s, d)[0] = 0
      /\ \A k \in 1 .. n : SMbytes(s, d)[k] = SMbytes(s, d)[k - 1] + SMlength(s, d, k)
      /\ \A i, j \in 0 .. n : i <= j => SMbytes(s, d)[i] <= SMbytes(s, d)[j]
      /\ Upto(B) \in [0 .. n -> Nat] /\ Upto(B)[0] = 0
      /\ \A k \in 1 .. n : Upto(B)[k] = Upto(B)[k - 1] + sms[k].bits
  <2> HIDE DEF sms
  <2>1. /\ Upto(L) \in [0 .. n -> Nat] /\ Upto(L)[0] = 0
        /\ \A k \in 1 .. n : Upto(L)[k] = Upto(L)[k - 1] + L[k]
        /\ \A i, j \in 0 .. n : i <= j => Upto(L)[i] <= Upto(L)[j]
    BY <1>6, UptoSeq
  <2>2. /\ Upto(B) \in [0 .. n -> Nat] /\ Upto(B)[0] = 0
        /\ \A k \in 1 .. n : Upto(B)[k] = Upto(B)[k - 1] + B[k]
    BY <1>6, UptoSeq
  <2> QED
    BY <1>5, <1>7, <2>1, <2>2
<1>9. \A k \in 0 .. n : 8 * SMbytes(s, d)[k] >= Upto(B)[k]
  <2> DEFINE S == {k \in 0 .. n : ~(8 * SMbytes(s, d)[k] >= Upto(B)[k])}
  <2> SUFFICES ASSUME S # {} PROVE FALSE
    OBVIOUS
  <2>1. PICK k \in S : \A l \in S : k <= l
    <3> S \subseteq Nat
      OBVIOUS
    <3> HIDE DEF S
    <3> QED
      BY HasLeast
  <2>2. k \in 0 .. n /\ ~(8 * SMbytes(s, d)[k] >= Upto(B)[k])
    BY <2>1
  <2>3. k # 0
    BY <1>8, <2>2
  <2>4. k \in 1 .. n /\ k - 1 \in 0 .. n /\ ~(k <= k - 1)
    BY <1>3, <2>2, <2>3
  <2>5. k - 1 \notin S
    <3> HIDE DEF S
    <3> QED
      BY <2>1, <2>4
  <2>6. 8 * SMbytes(s, d)[k - 1] >= Upto(B)[k - 1]
    BY <2>4, <2>5
  <2>7. 8 * SMlength(s, d, k) >= sms[k].bits
    BY <1>3, <1>4, <2>4, EighthIs
  <2> HIDE DEF S, sms
  <2> DEFINE a == SMbytes(s, d)[k - 1]
             b == Upto(B)[k - 1]
             l == SMlength(s, d, k)
             c == sms[k].bits
  <2>8. a \in Nat /\ b \in Nat /\ l \in Nat /\ c \in Nat
        /\ SMbytes(s, d)[k] = a + l /\ Upto(B)[k] = b + c
    BY <1>3, <1>4, <1>8, <2>4
  <2> QED
    BY <2>2, <2>6, <2>7, <2>8
<1>10. Bits(s, d) \in Nat /\ 8 * SMbytes(s, d)[n] >= Bits(s, d)
  <2>1. n \in 0 .. n
    BY <1>3
  <2> QED
    BY <1>7, <1>8, <1>9, <2>1
<1>11. Bytes(s, d) \in Nat
       /\ IF Bits(s, d) > 7 THEN Bytes(s, d) = Len8(Bits(s, d)) ELSE Bytes(s, d) = 0
  BY <1>10, EighthIs DEF Bytes
<1> QED
  BY <1>3, <1>4, <1>8, <1>10, <1>11 DEF n

-----------------------------------------------------------------------------
(* One FMMU.                                                               *)

\* The run of sync managers from SMc on ends at the first one at which it may.
RunStops(m) == \/ m = Len(dev[slave][pc])
               \/ 8 * SMbytes(slave, pc)[m] >= Bits(slave, pc)
               \/ Gap(slave, pc, m)

LEMMA RunIs ==
  ASSUME TypeInv, WalkInv, Mapping, Unmapped
  PROVE  /\ slave \in Slaves /\ pc \in Dirs
         /\ BitCount < Bits(slave, pc) /\ ByteCount = SMbytes(slave, pc)[SMc - 1]
         /\ SMc \in 1 .. Len(dev[slave][pc]) /\ RunEnd \in SMc .. Len(dev[slave][pc])
         /\ RunStops(RunEnd) /\ \A k \in SMc .. RunEnd - 1 : ~RunStops(k)
         /\ ByteCount + RunBytes(RunEnd) = SMbytes(slave, pc)[RunEnd]
<1> DEFINE n == Len(dev[slave][pc])
           U == SMbytes(slave, pc)
           E == {m \in SMc .. n : \/ m = n
                                  \/ BitCount + 8 * RunBytes(m) >= Bits(slave, pc)
                                  \/ dev[slave][pc][m + 1].start > EndAddr(slave, pc, m)}
<1>1. slave \in Slaves /\ pc \in Dirs
  BY DEF Mapping, Dirs
<1>2. n \in Nat /\ U \in [0 .. n -> Nat] /\ Bits(slave, pc) \in Nat
  BY <1>1, SlaveIs
<1>3. BitCount = 8 * ByteCount /\ BitCount < Bits(slave, pc) /\ ByteCount = U[SMc - 1]
      /\ SMc \in 1 .. n
  <2>1. ~(BitCount >= Bits(slave, pc))
    <3>1. Len8(Bits(slave, pc)) \in Nat /\ FMMUdone \in Nat /\ FMMUdone < Len8(Bits(slave, pc))
      BY <1>2, EighthIs DEF Unmapped, TypeInv
    <3>2. BitCount >= Bits(slave, pc) => FMMUdone >= Len8(Bits(slave, pc))
      BY DEF WalkInv
    <3> HIDE DEF U, n
    <3> QED
      BY <3>1, <3>2
  <2>2. BitCount \in Nat /\ SMc \in Nat \ {0}
    BY DEF TypeInv
  <2> QED
    BY <1>2, <2>1, <2>2 DEF WalkInv
<1>4. RunEnd = CHOOSE m \in E : \A k \in E : m <= k
  BY DEF RunEnd
<1>5. n \in E /\ E \subseteq Nat
  BY <1>2, <1>3
<1>6. RunEnd \in E /\ \A k \in E : RunEnd <= k
  <2>1. \E m \in E : \A k \in E : m <= k
    <3> HIDE DEF E
    <3> QED
      BY <1>5, HasLeast
  <2> HIDE DEF E
  <2> QED
    BY <1>4, <2>1
<1>7. \A m \in SMc .. n : /\ U[m] \in Nat /\ U[SMc - 1] \in Nat
                          /\ ByteCount + RunBytes(m) = U[m]
                          /\ BitCount + 8 * RunBytes(m) = 8 * U[m]
  <2> SUFFICES ASSUME NEW m \in SMc .. n
               PROVE  /\ U[m] \in Nat /\ U[SMc - 1] \in Nat
                      /\ ByteCount + RunBytes(m) = U[m]
                      /\ BitCount + 8 * RunBytes(m) = 8 * U[m]
    OBVIOUS
  <2>1. U[m] \in Nat /\ U[SMc - 1] \in Nat
    BY <1>2, <1>3
  <2>2. RunBytes(m) = U[m] - U[SMc - 1]
    BY DEF RunBytes
  <2> HIDE DEF U
  <2> QED
    BY <1>3, <2>1, <2>2
<1>8. E = {m \in SMc .. n : RunStops(m)}
  BY <1>7 DEF RunStops, Gap
<1> HIDE DEF E, n, U
<1>9. RunEnd \in SMc .. n /\ RunStops(RunEnd)
  BY <1>6, <1>8
<1>10. \A k \in SMc .. RunEnd - 1 : ~RunStops(k)
  <2> SUFFICES ASSUME NEW k \in SMc .. RunEnd - 1, RunStops(k) PROVE FALSE
    OBVIOUS
  <2>1. k \in SMc .. n /\ ~(RunEnd <= k)
    BY <1>2, <1>3, <1>9
  <2> QED
    BY <1>6, <1>8, <2>1
<1> QED
  BY <1>1, <1>3, <1>7, <1>9, <1>10 DEF n, U

\* A slave of a few bits takes the next ones.
BitsMapped(m) ==
    /\ Bits(slave, pc) \in 1 .. 7 /\ FMMUdone = 0 /\ FMMUdone' = m.length /\ m.length >= 1
    /\ m.from = LogAddr /\ m.startbit = BitPos /\ LogAddr' \in LogAddr .. LogAddr + 1
    /\ 8 * LogAddr' + BitPos' = 8 * LogAddr + BitPos + Bits(slave, pc)
    /\ 8 * (m.from + m.length - 1) + m.endbit = 8 * LogAddr' + BitPos' - 1

\* The others take bytes, up to all that have been counted.
BytesMapped(m) ==
    /\ m.from = (IF BitPos > 0 THEN LogAddr + 1 ELSE LogAddr)
    /\ m.startbit = 0 /\ m.endbit = 7
    /\ m.length = Least(SMbytes(slave, pc)[RunEnd], Bytes(slave, pc) - FMMUdone)
    /\ FMMUdone' = FMMUdone + m.length /\ LogAddr' = m.from + m.length /\ BitPos' = 0

Mapped1(m) ==
    /\ m \in FmmuType /\ fmmus' = fmmus \cup {m}
    /\ m.slave = slave /\ m.dir = pc /\ m.phys = dev[slave][pc][SMc].start
    /\ IF Bytes(slave, pc) = 0 THEN BitsMapped(m) ELSE BytesMapped(m)

LEMMA EighthOf ==
  ASSUME NEW x \in 0 .. 14
  PROVE  x \div 8 \in 0 .. 1 /\ x % 8 \in 0 .. 7 /\ x = 8 * (x \div 8) + (x % 8)
<1>1. x \in Nat /\ x < 15
  OBVIOUS
<1>2. x % 8 \in 0 .. 7 /\ x = 8 * (x \div 8) + (x % 8) /\ x \div 8 \in Int
  BY <1>1, SMTT(60)
<1> QED
  BY <1>1, <1>2

LEMMA MapStep ==
  ASSUME TypeInv, WalkInv, MapFmmu
  PROVE  /\ SMc \in 1 .. Len(dev[slave][pc]) /\ RunEnd \in SMc .. Len(dev[slave][pc])
         /\ ByteCount' = SMbytes(slave, pc)[RunEnd] /\ BitCount' = 8 * ByteCount'
         /\ LogAddr' \in Nat /\ BitPos' \in 0 .. 7 /\ FMMUdone' \in Nat /\ ByteCount' \in Nat
         /\ \E m : Mapped1(m)
<1> DEFINE n == Len(dev[slave][pc])
           U == SMbytes(slave, pc)
           b == Bits(slave, pc)
<1>1. slave \in Slaves /\ pc \in Dirs /\ SMc \in 1 .. n /\ RunEnd \in SMc .. n
      /\ ByteCount + RunBytes(RunEnd) = U[RunEnd]
  BY RunIs DEF MapFmmu
<1>2. n \in Nat /\ U \in [0 .. n -> Nat] /\ b \in Nat /\ Bytes(slave, pc) \in Nat
      /\ dev[slave][pc][SMc].start \in Nat
      /\ IF b > 7 THEN Bytes(slave, pc) = Len8(b) ELSE Bytes(slave, pc) = 0
  BY <1>1, SlaveIs
<1>3. RunEnd \in 0 .. n /\ U[RunEnd] \in Nat /\ ByteCount \in Nat /\ RunBytes(RunEnd) \in Int
      /\ BitCount = 8 * ByteCount
  <2>1. RunEnd \in 0 .. n
    BY <1>1, <1>2
  <2> QED
    <3>1. BitCount = 8 * ByteCount
      BY DEF WalkInv, MapFmmu
    <3>2. U[RunEnd] \in Nat /\ ByteCount \in Nat
      BY <1>2, <2>1 DEF TypeInv
    <3>3. SMc - 1 \in 0 .. n
      BY <1>1, <1>2
    <3>4. RunBytes(RunEnd) = U[RunEnd] - U[SMc - 1] /\ U[SMc - 1] \in Nat
      BY <1>2, <3>3 DEF RunBytes
    <3> HIDE DEF U, n
    <3> QED
      BY <1>1, <2>1, <3>1, <3>2, <3>4
<1> HIDE DEF n, U, b
<1>4. ByteCount' = U[RunEnd] /\ BitCount' = 8 * ByteCount' /\ ByteCount' \in Nat
  BY <1>1, <1>3 DEF MapFmmu
<1>5. FMMUdone \in Nat /\ LogAddr \in Nat /\ BitPos \in 0 .. 7 /\ fmmus \subseteq FmmuType
      /\ b > 0 /\ FMMUdone < Len8(b)
  BY DEF TypeInv, MapFmmu, Unmapped, b
<1>6. CASE Bytes(slave, pc) = 0
  <2> DEFINE last == BitPos + b - 1
             end  == LogAddr + last \div 8
             m == Fmmu(LogAddr, BitPos, end - LogAddr + 1, last % 8)
  <2>1. b \in 1 .. 7 /\ FMMUdone = 0
    BY <1>2, <1>5, <1>6 DEF Len8
  <2>2. fmmus' = fmmus \cup {m} /\ FMMUdone' = FMMUdone + end - LogAddr + 1
        /\ LogAddr' = LogAddr + (last + 1) \div 8 /\ BitPos' = (last + 1) % 8
    BY <1>6 DEF MapFmmu, MapBits, b
  <2>3. last \in 0 .. 13 /\ last \div 8 \in 0 .. 1 /\ last % 8 \in 0 .. 7
        /\ last = 8 * (last \div 8) + (last % 8)
        /\ (last + 1) \div 8 \in 0 .. 1 /\ (last + 1) % 8 \in 0 .. 7
        /\ last + 1 = 8 * ((last + 1) \div 8) + ((last + 1) % 8)
    <3>1. last \in 0 .. 13 /\ last \in 0 .. 14 /\ last + 1 \in 0 .. 14
      BY <1>5, <2>1
    <3> HIDE DEF last
    <3> QED
      BY <3>1, EighthOf
  <2> HIDE DEF last
  <2>4. m.slave = slave /\ m.dir = pc /\ m.phys = dev[slave][pc][SMc].start
        /\ m.from = LogAddr /\ m.startbit = BitPos /\ m.endbit = last % 8
        /\ m.length = last \div 8 + 1
    BY <1>5, <2>3 DEF Fmmu
  <2>5. m \in FmmuType
    BY <1>1, <1>2, <1>5, <2>3, <2>4 DEF FmmuType, Fmmu
  <2> HIDE DEF m
  <2>6. BitsMapped(m) /\ LogAddr' \in Nat /\ BitPos' \in 0 .. 7 /\ FMMUdone' \in Nat
    <3>1. last + 1 = BitPos + b
      BY <1>5, <2>1 DEF last
    <3>2. FMMUdone' = m.length /\ m.length >= 1 /\ LogAddr' \in LogAddr .. LogAddr + 1
          /\ BitPos' \in 0 .. 7
      BY <1>5, <2>1, <2>2, <2>3, <2>4
    <3>3. 8 * LogAddr' + BitPos' = 8 * LogAddr + (last + 1)
      BY <1>5, <2>2, <2>3
    <3>4. 8 * (m.from + m.length - 1) + m.endbit = 8 * LogAddr + last
      BY <1>5, <2>3, <2>4
    <3>5. last \in Int /\ b \in Int
      BY <1>2, <2>3
    <3> QED
      BY <1>5, <2>1, <2>4, <3>1, <3>2, <3>3, <3>4, <3>5 DEF BitsMapped, b
  <2>7. Mapped1(m)
    BY <1>6, <2>2, <2>4, <2>5, <2>6 DEF Mapped1
  <2> QED
    BY <1>1, <1>4, <2>6, <2>7 DEF n, U
<1>7. CASE Bytes(slave, pc) # 0
  <2> DEFINE from == IF BitPos > 0 THEN LogAddr + 1 ELSE LogAddr
             size == Least(ByteCount', Bytes(slave, pc) - FMMUdone)
             m == Fmmu(from, 0, size, 7)
  <2>1. fmmus' = fmmus \cup {m} /\ FMMUdone' = FMMUdone + size
        /\ LogAddr' = from + size /\ BitPos' = 0
    BY <1>7 DEF MapFmmu, MapBytes
  <2>2. Bytes(slave, pc) - FMMUdone \in Nat /\ size \in Nat /\ from \in Nat
    BY <1>2, <1>4, <1>5, <1>7 DEF Least
  <2>3. size = Least(U[RunEnd], Bytes(slave, pc) - FMMUdone)
    BY <1>4
  <2> HIDE DEF size
  <2>4. m.slave = slave /\ m.dir = pc /\ m.phys = dev[slave][pc][SMc].start
        /\ m.from = from /\ m.startbit = 0 /\ m.endbit = 7 /\ m.length = size
    BY DEF Fmmu
  <2>5. m \in FmmuType
    BY <1>1, <1>2, <2>2 DEF FmmuType, Fmmu
  <2> HIDE DEF m
  <2>6. BytesMapped(m)
    BY <2>1, <2>3, <2>4 DEF BytesMapped, U
  <2>7. Mapped1(m)
    BY <1>7, <2>1, <2>4, <2>5, <2>6 DEF Mapped1
  <2> QED
    BY <1>1, <1>4, <1>5, <2>1, <2>2, <2>7 DEF n, U
<1> QED
  BY <1>6, <1>7

-----------------------------------------------------------------------------
(* What a step leaves alone, and what it does to the segments.             *)

LEMMA SameDev ==
  ASSUME dev' = dev
  PROVE  /\ \A s, d : /\ Bits(s, d)' = Bits(s, d) /\ Bytes(s, d)' = Bytes(s, d)
                      /\ SMbytes(s, d)' = SMbytes(s, d) /\ Plain(s, d)' = Plain(s, d)
                      /\ IsHand(s)' = IsHand(s) /\ Hands(s)' = Hands(s) /\ Has(d)' = Has(d)
         /\ \A s, d, k : /\ Gap(s, d, k)' = Gap(s, d, k) /\ SMArea(s, d, k)' = SMArea(s, d, k)
                         /\ SMsOf(s, d, k)' = SMsOf(s, d, k)
<1>1. \A s, d : Bits(s, d)' = Bits(s, d)
  BY DEF Bits
<1>2. \A s, d : Bytes(s, d)' = Bytes(s, d)
  BY <1>1 DEF Bytes
<1>3. \A s, d, k : SMlength(s, d, k)' = SMlength(s, d, k) /\ EndAddr(s, d, k)' = EndAddr(s, d, k)
  BY DEF SMlength, EndAddr
<1>4. \A s, d : SMbytes(s, d)' = SMbytes(s, d)
  BY DEF SMbytes, SMlength
<1>5. \A s, d, k : Gap(s, d, k)' = Gap(s, d, k) /\ SMArea(s, d, k)' = SMArea(s, d, k)
  BY <1>3 DEF Gap, SMArea
<1>6. \A s, d : Plain(s, d)' = Plain(s, d)
  BY <1>2, <1>3, <1>4, <1>5 DEF Plain
<1>7. \A s : IsHand(s)' = IsHand(s)
  BY <1>1 DEF IsHand
<1>8. \A s, d : Hands(s)' = Hands(s) /\ Has(d)' = Has(d)
  BY <1>1, <1>7 DEF Hands, Has
<1>9. \A s, d, k : SMsOf(s, d, k)' = SMsOf(s, d, k)
  BY <1>5 DEF SMsOf
<1> QED
  BY <1>1, <1>2, <1>4, <1>5, <1>6, <1>7, <1>8, <1>9

Cycle == Send \/ Receive \/ NextCycle

LEMMA CycleSteps ==
  ASSUME Cycle
  PROVE  /\ pc \in {"send", "receive"} /\ pc' \in {"send", "receive"}
         /\ UNCHANGED <<dev, blockLRW, mapVars>>
BY DEF Cycle, Send, Receive, NextCycle

\* The segments after a step: the sums up to the old ones are the same, and a new
\* one ends where what had been added ended.
Grown == /\ segments' \in Seq(Nat) /\ Len(segments) <= Len(segments')
         /\ \A k \in 1 .. Len(segments) : segments'[k] = segments[k]
         /\ \A k \in 0 .. Len(segments) : Upto(segments')[k] = Upto(segments)[k]
         /\ Len(segments') = Len(segments)
            \/ /\ Len(segments') = Len(segments) + 1
               /\ segments'[Len(segments')] = segmentsize
               /\ Total(segments') = Total(segments) + segmentsize

LEMMA Closed ==
  ASSUME segments \in Seq(Nat), segmentsize \in Nat, segments' = Append(segments, segmentsize)
  PROVE  Grown /\ Len(segments') = Len(segments) + 1
<1>1. Len(segments) \in Nat /\ \A k \in 1 .. Len(segments) : segments'[k] = segments[k]
  BY AppendProperties
<1>2. segments' \in Seq(Nat) /\ Len(segments') = Len(segments) + 1
      /\ segments'[Len(segments) + 1] = segmentsize
  BY AppendProperties
<1>3. /\ \A k \in 0 .. Len(segments) : Upto(segments')[k] = Upto(segments)[k]
      /\ Upto(segments')[Len(segments) + 1] = Total(segments) + segmentsize
  BY UptoAppend
<1>4. Total(segments') = Total(segments) + segmentsize
  BY <1>2, <1>3 DEF Total
<1> QED
  BY <1>1, <1>2, <1>3, <1>4 DEF Grown

LEMMA Unchanged ==
  ASSUME segments \in Seq(Nat), segments' = segments
  PROVE  Grown
<1>1. Len(segments) \in Nat
  OBVIOUS
<1> QED
  BY <1>1 DEF Grown

LEMMA Added ==
  ASSUME segments \in Seq(Nat), segmentsize \in Nat, NEW diff \in Nat, Add(diff)
  PROVE  /\ Grown /\ segmentsize' \in Nat /\ oLogAddr' = LogAddr'
         /\ Total(segments') + segmentsize' = Total(segments) + segmentsize + diff
         /\ Len(segments') = Len(segments) => segmentsize <= segmentsize'
         /\ diff <= Limit => segmentsize' <= Limit
<1>1. Total(segments) \in Nat /\ Len(segments) \in Nat
  BY UptoSeq
<1>2. CASE segmentsize + diff > Limit
  <2>1. segments' = Append(segments, segmentsize) /\ segmentsize' = diff /\ oLogAddr' = LogAddr'
    BY <1>2 DEF Add
  <2>2. Grown /\ Len(segments') = Len(segments) + 1
    BY <2>1, Closed
  <2>3. Total(segments') = Total(segments) + segmentsize
    BY <1>1, <2>2 DEF Grown
  <2> QED
    BY <1>1, <2>1, <2>2, <2>3
<1>3. CASE ~(segmentsize + diff > Limit)
  <2>1. segments' = segments /\ segmentsize' = segmentsize + diff /\ oLogAddr' = LogAddr'
    BY <1>3 DEF Add
  <2>2. Grown
    BY <2>1, Unchanged
  <2>3. Total(segments') = Total(segments)
    BY <2>1
  <2> QED
    BY <1>1, <1>3, <2>1, <2>2, <2>3
<1> QED
  BY <1>2, <1>3

\* What each step of the mapping does to them.
LEMMA SegmentStep ==
  ASSUME TypeInv, SegInv, WalkInv, SlaveDone \/ OutputsDone \/ InputsDone \/ CloseSegment
  PROVE  /\ Grown /\ segmentsize' \in Nat /\ oLogAddr' \in Nat /\ LogAddr' \in Nat
         /\ LogAddr <= LogAddr' /\ oLogAddr <= oLogAddr'
         /\ oLogAddr' = LogAddr'
         /\ pc # "close" => Total(segments') + segmentsize' = oLogAddr'
         /\ pc = "close" => Total(segments') = oLogAddr' /\ Len(segments') = Len(segments) + 1
         /\ Len(segments') = Len(segments) => segmentsize <= segmentsize'
         /\ Total(segments) + segmentsize = oLogAddr
<1> USE DEF TypeInv
<1>1. Total(segments) \in Nat /\ Total(segments) + segmentsize = oLogAddr
  <2>1. pc \in Dirs \cup {"close"}
    BY DEF SlaveDone, OutputsDone, InputsDone, CloseSegment, Mapping, Dirs
  <2> QED
    BY <2>1, UptoSeq DEF SegInv
<1>2. CASE SlaveDone
  <2>1. Mapping /\ ~Unmapped /\ LogAddr' = LogAddr /\ pc # "close" /\ slave \in Slaves /\ pc \in Dirs
    BY <1>2 DEF SlaveDone, Mapping, Dirs
  <2>2. Bytes(slave, pc) \in Nat /\ Bits(slave, pc) \in Nat
    BY <2>1, SlaveIs
  <2>3. LogAddr - oLogAddr \in Nat
    BY <2>1, <2>2 DEF SegInv
  <2>4. CASE Bits(slave, pc) > 0
    <3>1. Add(LogAddr - oLogAddr)
      BY <1>2, <2>4 DEF SlaveDone
    <3> QED
      BY <1>1, <2>1, <2>3, <3>1, Added
  <2>5. CASE ~(Bits(slave, pc) > 0)
    <3>1. segments' = segments /\ segmentsize' = segmentsize /\ oLogAddr' = oLogAddr
      BY <1>2, <2>5 DEF SlaveDone, segVars
    <3>2. Bits(slave, pc) = 0 /\ FMMUdone = 0 /\ Bytes(slave, pc) = 0
      BY <2>1, <2>2, <2>5 DEF WalkInv, Bytes
    <3>3. oLogAddr = LogAddr
      BY <2>1, <3>2 DEF SegInv
    <3> QED
      BY <1>1, <2>1, <3>1, <3>3, Unchanged
  <2> QED
    BY <2>4, <2>5
<1>3. CASE OutputsDone \/ InputsDone
  <2>1. ~Mapping /\ pc # "close" /\ Pad
    BY <1>3 DEF OutputsDone, InputsDone, Mapping, Slaves
  <2>2. oLogAddr = LogAddr
    BY <2>1 DEF SegInv
  <2>3. CASE BitPos > 0
    <3>1. LogAddr' = LogAddr + 1 /\ Add(1)
      BY <2>1, <2>3 DEF Pad
    <3> QED
      BY <1>1, <2>1, <2>2, <3>1, Added
  <2>4. CASE ~(BitPos > 0)
    <3>1. segments' = segments /\ segmentsize' = segmentsize /\ oLogAddr' = oLogAddr
          /\ LogAddr' = LogAddr
      BY <2>1, <2>4 DEF Pad, segVars
    <3> QED
      BY <1>1, <2>1, <2>2, <3>1, Unchanged
  <2> QED
    BY <2>3, <2>4
<1>4. CASE CloseSegment
  <2>1. ~Mapping /\ pc = "close" /\ segments' = Append(segments, segmentsize)
        /\ segmentsize' = segmentsize /\ oLogAddr' = oLogAddr /\ LogAddr' = LogAddr
    BY <1>4 DEF CloseSegment, Mapping
  <2>2. Grown /\ Len(segments') = Len(segments) + 1 /\ Len(segments) \in Nat
    BY <2>1, Closed
  <2>3. Total(segments') = Total(segments) + segmentsize
    BY <2>2 DEF Grown
  <2> QED
    BY <1>1, <2>1, <2>2, <2>3 DEF SegInv
<1> QED
  BY <1>2, <1>3, <1>4

-----------------------------------------------------------------------------
(* Types                                                                   *)

LEMMA SlavesFinite ==
  ASSUME NEW S, S \subseteq Slaves
  PROVE  IsFiniteSet(S) /\ Cardinality(S) \in Nat
<1>1. IsFiniteSet(Slaves)
  BY FS_Interval DEF Slaves
<1>2. IsFiniteSet(S)
  BY <1>1, FS_Subset
<1> QED
  BY <1>2, FS_CardinalityType

LEMMA CounterNat ==
  ASSUME NEW S \in SUBSET Slaves, NEW f
  PROVE  Counter(S, f) \in Nat
<1>1. \A d : Cardinality({s \in S : Counts(s, f, d)}) \in Nat
  <2> TAKE d
  <2> DEFINE C == {s \in S : Counts(s, f, d)}
  <2>1. C \subseteq Slaves
    OBVIOUS
  <2> HIDE DEF C
  <2> QED
    BY <2>1, SlavesFinite
<1> DEFINE ci == Cardinality({s \in S : Counts(s, f, "in")})
           co == Cardinality({s \in S : Counts(s, f, "out")})
<1>2. ci \in Nat /\ co \in Nat
  BY <1>1
<1>3. Counter(S, f) = ci + (IF f.cmd = "LRW" THEN 2 ELSE 1) * co
  BY DEF Counter
<1> HIDE DEF ci, co
<1> QED
  BY <1>2, <1>3

LEMMA InitType == Init => TypeInv
<1> SUFFICES ASSUME Init PROVE TypeInv
  OBVIOUS
<1>1. Slaves = 1 .. N /\ 1 \in 1 .. N + 1 /\ << >> \in Seq(Nat)
  BY DEF Slaves
<1> QED
  BY <1>1 DEF Init, TypeInv

LEMMA TypeStep ==
  ASSUME TypeInv, WalkInv, SegInv, [Next]_vars
  PROVE  TypeInv'
<1> USE DEF TypeInv
<1>1. CASE MapFmmu
  <2>1. PICK m : Mapped1(m)
    BY <1>1, MapStep
  <2>2. fmmus' \subseteq FmmuType
    BY <2>1 DEF Mapped1
  <2>3. LogAddr' \in Nat /\ BitPos' \in 0 .. 7 /\ FMMUdone' \in Nat /\ ByteCount' \in Nat
        /\ BitCount' \in Nat /\ RunEnd \in Nat /\ RunEnd >= 1
    BY <1>1, MapStep
  <2>4. SMc' \in Nat \ {0}
    BY <1>1, <2>3 DEF MapFmmu
  <2> QED
    BY <1>1, <2>2, <2>3, <2>4 DEF MapFmmu, segVars, sumVars
<1>2. CASE SlaveDone
  <2>1. segments' \in Seq(Nat) /\ segmentsize' \in Nat /\ oLogAddr' \in Nat /\ LogAddr' \in Nat
    BY <1>2, SegmentStep DEF Grown
  <2>2. slave' \in 1 .. N + 1
    BY <1>2 DEF SlaveDone, Mapping, Slaves
  <2>3. outputsWKC' \in Nat /\ inputsWKC' \in Nat
    BY <1>2 DEF SlaveDone
  <2> QED
    BY <1>2, <2>1, <2>2, <2>3 DEF SlaveDone
<1>3. CASE OutputsDone \/ InputsDone
  <2>1. segments' \in Seq(Nat) /\ segmentsize' \in Nat /\ oLogAddr' \in Nat /\ LogAddr' \in Nat
    BY <1>3, SegmentStep DEF Grown
  <2>2. slave' \in 1 .. N + 1 /\ BitPos' \in 0 .. 7
        /\ pc' \in {"out", "in", "close", "send", "receive"}
    BY <1>3 DEF OutputsDone, InputsDone, Pad
  <2>3. Obytes' \in Nat /\ Isegment' \in Nat \ {0} /\ Ioffset' \in Nat
    <3>1. Len(segments') \in Nat
      BY <2>1
    <3> QED
      BY <1>3, <2>1, <3>1 DEF OutputsDone, InputsDone, sumVars
  <2> QED
    BY <1>3, <2>1, <2>2, <2>3 DEF OutputsDone, InputsDone, sumVars, walkVars
<1>4. CASE CloseSegment
  <2>1. segments' \in Seq(Nat) /\ segmentsize' \in Nat /\ oLogAddr' \in Nat /\ LogAddr' \in Nat
    BY <1>4, SegmentStep DEF Grown
  <2> QED
    BY <1>4, <2>1 DEF CloseSegment, sumVars, walkVars
<1>5. CASE Cycle
  <2>1. wkc' \in Nat
    BY <1>5, CounterNat DEF Cycle, Send, Receive, NextCycle
  <2>2. UNCHANGED <<dev, blockLRW, mapVars>> /\ pc' \in {"send", "receive"}
    BY <1>5, CycleSteps
  <2> QED
    BY <2>1, <2>2 DEF mapVars, walkVars, segVars, sumVars
<1>6. CASE UNCHANGED vars
  BY <1>6 DEF vars, mapVars, walkVars, segVars, sumVars
<1> QED
  BY <1>1, <1>2, <1>3, <1>4, <1>5, <1>6 DEF Next, Map, Cycle

-----------------------------------------------------------------------------
(* The mapping of one slave                                                *)

\* At its start the loop has counted nothing.
LEMMA Begins ==
  ASSUME TypeInv, dev' = dev, AtStart', slave' \in Slaves, pc' \in Dirs
  PROVE  WalkInv'
<1> DEFINE t == slave'
           d == pc'
           n == Len(dev[t][d])
           U == SMbytes(t, d)
           b == Bits(t, d)
<1>1. n \in Nat /\ U[0] = 0 /\ b \in Nat /\ 8 * U[n] >= b /\ Bytes(t, d) \in Nat
  BY SlaveIs
<1>2. SMbytes(slave, pc)' = U /\ Bits(slave, pc)' = b /\ Bytes(slave, pc)' = Bytes(t, d)
  BY SameDev
<1>3. SMc' = 1 /\ FMMUdone' = 0 /\ ByteCount' = 0 /\ BitCount' = 0
  BY DEF AtStart
<1>4. b > 0 => n >= 1
  <2> SUFFICES ASSUME b > 0, n = 0 PROVE FALSE
    BY <1>1
  <2> HIDE DEF U, b, n
  <2> QED
    BY <1>1
<1>5. b = 0 => Len8(b) = 0
  BY DEF Len8
<1>6. Mapping'
  BY DEF Mapping, Dirs
<1>7. dev'[slave'][pc'] = dev[t][d]
  OBVIOUS
<1> HIDE DEF U, b
<1>8. U[SMc' - 1] = 0
  BY <1>1, <1>3
<1>9. /\ BitCount' = 8 * ByteCount' /\ SMc' <= n + 1
      /\ BitCount' < b => SMc' <= n /\ ByteCount' = U[SMc' - 1]
      /\ BitCount' >= b => FMMUdone' >= Len8(b)
      /\ b = 0 => FMMUdone' = 0
      /\ Bytes(t, d) > 0 => FMMUdone' <= Bytes(t, d)
  <2> HIDE DEF n, t, d
  <2> QED
    BY <1>1, <1>3, <1>4, <1>5, <1>8
<1> QED
  BY <1>2, <1>6, <1>9 DEF WalkInv

LEMMA WalkInit == Init /\ TypeInv => WalkInv
<1> SUFFICES ASSUME Init, TypeInv PROVE WalkInv
  OBVIOUS
<1> DEFINE n == Len(dev[slave][pc])
           U == SMbytes(slave, pc)
           b == Bits(slave, pc)
<1>1. slave \in Slaves /\ pc \in Dirs
  BY DEF Init, Slaves, Dirs
<1>2. n \in Nat /\ U[0] = 0 /\ b \in Nat /\ 8 * U[n] >= b /\ Bytes(slave, pc) \in Nat
  BY <1>1, SlaveIs
<1>3. SMc = 1 /\ FMMUdone = 0 /\ ByteCount = 0 /\ BitCount = 0 /\ Mapping
  BY <1>1 DEF Init, Mapping, Dirs
<1>4. b = 0 => Len8(b) = 0
  BY DEF Len8
<1>5. b > 0 => n >= 1
  <2> SUFFICES ASSUME b > 0, n = 0 PROVE FALSE
    BY <1>2
  <2> HIDE DEF U, b, n
  <2> QED
    BY <1>2
<1> HIDE DEF U, b
<1>6. U[SMc - 1] = 0
  BY <1>2, <1>3
<1>7. /\ BitCount = 8 * ByteCount /\ SMc <= n + 1
      /\ BitCount < b => SMc <= n /\ ByteCount = U[SMc - 1]
      /\ BitCount >= b => FMMUdone >= Len8(b)
      /\ b = 0 => FMMUdone = 0
      /\ Bytes(slave, pc) > 0 => FMMUdone <= Bytes(slave, pc)
  <2> HIDE DEF n
  <2> QED
    BY <1>2, <1>3, <1>4, <1>5, <1>6
<1> QED
  BY <1>3, <1>7 DEF WalkInv, U, b

LEMMA WalkStep ==
  ASSUME TypeInv, WalkInv, TypeInv', [Next]_vars
  PROVE  WalkInv'
<1>1. CASE MapFmmu
  <2> DEFINE n == Len(dev[slave][pc])
             U == SMbytes(slave, pc)
             b == Bits(slave, pc)
             B == Bytes(slave, pc)
             e == RunEnd
  <2>1. slave \in Slaves /\ pc \in Dirs /\ Mapping /\ Unmapped
        /\ SMc \in 1 .. n /\ e \in SMc .. n
    BY <1>1, RunIs DEF MapFmmu
  <2>2. n \in Nat /\ U \in [0 .. n -> Nat] /\ b \in Nat /\ 8 * U[n] >= b /\ B \in Nat
        /\ IF b > 7 THEN B = Len8(b) ELSE B = 0
    BY <2>1, SlaveIs
  <2>3. PICK m : Mapped1(m)
    BY <1>1, MapStep
  <2>4. ByteCount' = U[e] /\ BitCount' = 8 * ByteCount'
    BY <1>1, MapStep
  <2>5. dev' = dev /\ slave' = slave /\ pc' = pc /\ Mapping'
        /\ SMc' = IF BitCount' < b THEN e + 1 ELSE e
    BY <1>1, <2>1 DEF MapFmmu, Mapping
  <2>6. SMbytes(slave, pc)' = U /\ Bits(slave, pc)' = b /\ Bytes(slave, pc)' = B
        /\ dev'[slave'][pc'] = dev[slave][pc]
    BY <2>5, SameDev
  <2>7. b > 0 /\ FMMUdone \in Nat /\ FMMUdone < Len8(b) /\ Len8(b) \in Nat
        /\ 8 * Len8(b) >= b /\ 8 * Len8(b) <= b + 7 /\ (B > 0 => FMMUdone <= B)
    BY <2>1, <2>2, EighthIs DEF Unmapped, TypeInv, WalkInv
  <2>8. U[e] \in Nat /\ SMc' - 1 \in Int
    BY <2>1, <2>2, <2>5
  <2> HIDE DEF U, b, B, n, e
  <2>9. BitCount' < b => SMc' <= n /\ ByteCount' = U[SMc' - 1]
    <3> SUFFICES ASSUME BitCount' < b PROVE SMc' <= n /\ ByteCount' = U[SMc' - 1]
      OBVIOUS
    <3>1. SMc' = e + 1 /\ SMc' - 1 = e
      BY <2>1, <2>2, <2>5
    <3>2. e # n
      BY <2>2, <2>4
    <3> QED
      BY <2>1, <2>2, <2>4, <3>1, <3>2
  <2>10. SMc' <= n + 1
    BY <2>1, <2>2, <2>5
  <2>11. (BitCount' >= b => FMMUdone' >= Len8(b)) /\ (B > 0 => FMMUdone' <= B)
    <3>1. CASE B = 0
      <4>1. b \in 1 .. 7 /\ FMMUdone' = m.length /\ m.length >= 1 /\ m.length \in Nat
        BY <2>3, <3>1 DEF Mapped1, BitsMapped, B, b, FmmuType
      <4> QED
        BY <2>7, <3>1, <4>1
    <3>2. CASE B # 0
      <4>1. m.length = Least(U[e], B - FMMUdone) /\ FMMUdone' = FMMUdone + m.length
        BY <2>3, <3>2 DEF Mapped1, BytesMapped, B, U, e
      <4>2. B = Len8(b) /\ B - FMMUdone \in Nat
        BY <2>2, <2>7, <3>2
      <4>3. BitCount' >= b => U[e] >= B
        <5>1. b \in Nat
          BY <2>2
        <5> QED
          BY <2>4, <2>7, <2>8, <4>2, <5>1
      <4> QED
        BY <2>7, <2>8, <4>1, <4>2, <4>3 DEF Least
    <3> QED
      BY <3>1, <3>2
  <2> QED
    BY <2>4, <2>5, <2>6, <2>7, <2>9, <2>10, <2>11 DEF WalkInv, n
<1>2. CASE SlaveDone
  <2>1. AtStart' /\ dev' = dev /\ pc' = pc /\ pc \in Dirs
    BY <1>2 DEF SlaveDone, AtStart, Mapping, Dirs
  <2>2. CASE slave' \in Slaves
    BY <2>1, <2>2, Begins
  <2>3. CASE slave' \notin Slaves
    BY <2>1, <2>3 DEF WalkInv, Mapping
  <2> QED
    BY <2>2, <2>3
<1>3. CASE OutputsDone \/ InputsDone \/ CloseSegment \/ Cycle
  <2>1. ~Mapping
    BY <1>3, CycleSteps DEF OutputsDone, InputsDone, CloseSegment, Mapping, Slaves
  <2>2. AtStart'
    <3>1. UNCHANGED walkVars
      BY <1>3, CycleSteps DEF OutputsDone, InputsDone, CloseSegment, mapVars
    <3> QED
      BY <2>1, <3>1 DEF WalkInv, AtStart, walkVars
  <2>3. CASE OutputsDone
    <3>1. dev' = dev /\ slave' = 1 /\ 1 \in Slaves /\ pc' \in Dirs
      BY <2>3 DEF OutputsDone, Dirs, Slaves
    <3> QED
      BY <2>2, <3>1, Begins
  <2>4. CASE InputsDone \/ CloseSegment \/ Cycle
    <3>1. ~Mapping'
      BY <2>4, CycleSteps DEF InputsDone, CloseSegment, Mapping
    <3> QED
      BY <2>2, <3>1 DEF WalkInv
  <2> QED
    BY <1>3, <2>3, <2>4
<1>4. CASE UNCHANGED vars
  <2>1. dev' = dev /\ pc' = pc /\ slave' = slave /\ UNCHANGED walkVars
    BY <1>4 DEF vars, mapVars
  <2> QED
    BY <2>1, SameDev DEF WalkInv, Mapping, AtStart, walkVars
<1> QED
  BY <1>1, <1>2, <1>3, <1>4 DEF Next, Map, Cycle

-----------------------------------------------------------------------------
(* The image                                                               *)

\* The steps that map no FMMU, and where they leave the mapping.
LEMMA NoFmmu ==
  ASSUME SlaveDone \/ OutputsDone \/ InputsDone \/ CloseSegment \/ Cycle \/ UNCHANGED vars
  PROVE  /\ fmmus' = fmmus /\ dev' = dev
         /\ \/ SlaveDone /\ LogAddr' = LogAddr /\ BitPos' = BitPos /\ pc' = pc /\ Obytes' = Obytes
            \/ /\ OutputsDone \/ InputsDone
               /\ LogAddr' = (IF BitPos > 0 THEN LogAddr + 1 ELSE LogAddr) /\ BitPos' = 0
            \/ /\ CloseSegment \/ Cycle
               /\ LogAddr' = LogAddr /\ BitPos' = BitPos /\ Obytes' = Obytes
               /\ pc \notin Dirs /\ pc' \notin Dirs
            \/ UNCHANGED vars /\ LogAddr' = LogAddr /\ BitPos' = BitPos /\ pc' = pc
               /\ Obytes' = Obytes
<1>1. CASE SlaveDone
  BY <1>1 DEF SlaveDone
<1>2. CASE OutputsDone \/ InputsDone
  BY <1>2 DEF OutputsDone, InputsDone, Pad
<1>3. CASE CloseSegment
  BY <1>3 DEF CloseSegment, sumVars, Dirs
<1>4. CASE Cycle
  BY <1>4, CycleSteps DEF mapVars, sumVars, Dirs
<1>5. CASE UNCHANGED vars
  BY <1>5 DEF vars, mapVars, sumVars
<1> QED
  BY <1>1, <1>2, <1>3, <1>4, <1>5

LEMMA StepsAre ==
  ASSUME [Next]_vars
  PROVE  \/ MapFmmu
         \/ SlaveDone \/ OutputsDone \/ InputsDone \/ CloseSegment \/ Cycle \/ UNCHANGED vars
BY DEF Next, Map, Cycle

\* What is mapped next lies behind what has been.
LEMMA NewBehind ==
  ASSUME TypeInv, TypeInv', WalkInv, MapFmmu, NEW m, Mapped1(m)
  PROVE  /\ 8 * LogAddr + BitPos <= 8 * m.from + m.startbit /\ LogAddr <= m.from
         /\ 8 * (m.from + m.length - 1) + m.endbit < 8 * LogAddr' + BitPos'
         /\ 8 * LogAddr + BitPos <= 8 * LogAddr' + BitPos'
         /\ LogAddr <= LogAddr'
<1>1. LogAddr \in Nat /\ BitPos \in 0 .. 7 /\ LogAddr' \in Nat /\ BitPos' \in 0 .. 7
      /\ m.from \in Nat /\ m.length \in Nat /\ m.startbit \in 0 .. 7 /\ m.endbit \in 0 .. 7
  BY DEF TypeInv, Mapped1, FmmuType
<1>2. CASE Bytes(slave, pc) = 0
  <2>1. BitsMapped(m)
    BY <1>2 DEF Mapped1
  <2>2. m.from = LogAddr /\ m.startbit = BitPos /\ LogAddr' \in LogAddr .. LogAddr + 1
    BY <2>1 DEF BitsMapped
  <2>3. \E b \in 1 .. 7 : 8 * LogAddr' + BitPos' = 8 * LogAddr + BitPos + b
    BY <2>1 DEF BitsMapped
  <2>4. 8 * (m.from + m.length - 1) + m.endbit = 8 * LogAddr' + BitPos' - 1
    BY <2>1 DEF BitsMapped
  <2>5. 8 * LogAddr + BitPos <= 8 * LogAddr' + BitPos'
    <3>1. PICK b \in 1 .. 7 : 8 * LogAddr' + BitPos' = 8 * LogAddr + BitPos + b
      BY <2>3
    <3>2. 8 * LogAddr + BitPos \in Int
      BY <1>1
    <3> QED
      BY <3>1, <3>2
  <2>6. 8 * (m.from + m.length - 1) + m.endbit < 8 * LogAddr' + BitPos'
    BY <1>1, <2>4
  <2>7. 8 * LogAddr + BitPos <= 8 * m.from + m.startbit /\ LogAddr <= m.from
    BY <1>1, <2>2
  <2>8. LogAddr <= LogAddr'
    BY <1>1, <2>2
  <2> QED
    BY <2>5, <2>6, <2>7, <2>8
<1>3. CASE Bytes(slave, pc) # 0
  <2>1. BytesMapped(m)
    BY <1>3 DEF Mapped1
  <2> QED
    BY <1>1, <2>1 DEF BytesMapped
<1> QED
  BY <1>2, <1>3

LEMMA ImageStep ==
  ASSUME TypeInv, TypeInv', WalkInv, ImageInv, [Next]_vars
  PROVE  ImageInv'
<1>0. LogAddr \in Nat /\ LogAddr' \in Nat /\ BitPos \in 0 .. 7 /\ BitPos' \in 0 .. 7
      /\ Obytes \in Nat /\ Obytes' \in Nat
      /\ \A m \in fmmus : m.from \in Nat /\ m.length \in Nat /\ m.endbit \in 0 .. 7
                          /\ m.startbit \in 0 .. 7
  BY DEF TypeInv, FmmuType
<1>1. CASE MapFmmu
  <2>1. PICK m : Mapped1(m)
    BY <1>1, MapStep
  <2>2. fmmus' = fmmus \cup {m} /\ m.dir = pc /\ pc' = pc /\ pc \in Dirs /\ Obytes' = Obytes
        /\ m.from \in Nat /\ m.length \in Nat /\ m.startbit \in 0 .. 7 /\ m.endbit \in 0 .. 7
    BY <1>1, <2>1 DEF Mapped1, MapFmmu, Mapping, Dirs, sumVars, FmmuType
  <2>3. /\ 8 * LogAddr + BitPos <= 8 * m.from + m.startbit /\ LogAddr <= m.from
        /\ 8 * (m.from + m.length - 1) + m.endbit < 8 * LogAddr' + BitPos'
        /\ 8 * LogAddr + BitPos <= 8 * LogAddr' + BitPos'
        /\ LogAddr <= LogAddr'
    BY <1>1, <2>1, NewBehind
  <2>4. \A n \in fmmus : 8 * (n.from + n.length - 1) + n.endbit < 8 * LogAddr + BitPos
    BY DEF ImageInv, Before
  <2>5. \A n \in fmmus' : Before(n)'
    <3>1. \A n \in fmmus : 8 * (n.from + n.length - 1) + n.endbit < 8 * LogAddr' + BitPos'
      <4> TAKE n \in fmmus
      <4>1. 8 * (n.from + n.length - 1) + n.endbit \in Int
            /\ 8 * (n.from + n.length - 1) + n.endbit < 8 * LogAddr + BitPos
        BY <1>0, <2>4
      <4>2. 8 * LogAddr + BitPos \in Int /\ 8 * LogAddr' + BitPos' \in Int
        BY <1>0
      <4> HIDE <1>0
      <4> QED
        BY <2>3, <4>1, <4>2
    <3> QED
      BY <2>2, <2>3, <3>1 DEF Before
  <2>6. \A n \in fmmus : BitArea(m) \cap BitArea(n) = {}
    <3> SUFFICES ASSUME NEW n \in fmmus, NEW a, a \in BitArea(m), a \in BitArea(n) PROVE FALSE
      OBVIOUS
    <3>1. a \in Int /\ 8 * m.from + m.startbit <= a
      BY <2>2 DEF BitArea
    <3>2. a <= 8 * (n.from + n.length - 1) + n.endbit
      BY <1>0 DEF BitArea
    <3> QED
      BY <1>0, <2>2, <2>3, <2>4, <3>1, <3>2
  <2>7. \A k, n \in fmmus' : k # n => BitArea(k) \cap BitArea(n) = {}
    BY <2>2, <2>6 DEF ImageInv
  <2>8. pc' = "out" => \A n \in fmmus' : n.dir = "out"
    BY <2>2 DEF ImageInv
  <2>9. pc' # "out" => /\ Obytes' <= LogAddr'
                       /\ \A n \in fmmus' : IF n.dir = "out" THEN n.from + n.length <= Obytes'
                                                             ELSE n.from >= Obytes'
    BY <1>0, <2>2, <2>3 DEF ImageInv
  <2> QED
    BY <2>2, <2>5, <2>7, <2>8, <2>9 DEF ImageInv, BitArea
<1>2. CASE SlaveDone \/ OutputsDone \/ InputsDone \/ CloseSegment \/ Cycle \/ UNCHANGED vars
  <2>1. fmmus' = fmmus /\ LogAddr <= LogAddr' /\ 8 * LogAddr + BitPos <= 8 * LogAddr' + BitPos'
    <3>1. fmmus' = fmmus /\ \/ LogAddr' = LogAddr /\ BitPos' = BitPos
                            \/ /\ LogAddr' = IF BitPos > 0 THEN LogAddr + 1 ELSE LogAddr
                               /\ BitPos' = 0
      BY <1>2, NoFmmu
    <3>2. LogAddr \in Nat /\ LogAddr' \in Nat /\ BitPos \in 0 .. 7 /\ BitPos' \in 0 .. 7
      BY <1>0
    <3>3. CASE LogAddr' = LogAddr /\ BitPos' = BitPos
      BY <3>1, <3>2, <3>3
    <3>4. CASE LogAddr' = LogAddr + 1 /\ BitPos' = 0
      BY <3>1, <3>2, <3>4
    <3>5. CASE LogAddr' = LogAddr /\ BitPos' = 0 /\ ~(BitPos > 0)
      BY <3>1, <3>2, <3>5
    <3> QED
      BY <3>1, <3>3, <3>4, <3>5
  <2>2. \A m \in fmmus' : Before(m)'
    <3> SUFFICES ASSUME NEW m \in fmmus
                 PROVE  8 * (m.from + m.length - 1) + m.endbit < 8 * LogAddr' + BitPos'
      BY <2>1 DEF Before
    <3>1. 8 * (m.from + m.length - 1) + m.endbit \in Int
          /\ 8 * (m.from + m.length - 1) + m.endbit < 8 * LogAddr + BitPos
      BY <1>0 DEF ImageInv, Before
    <3>2. 8 * LogAddr + BitPos \in Int /\ 8 * LogAddr' + BitPos' \in Int
      BY <1>0
    <3> QED
      BY <2>1, <3>1, <3>2
  <2>3. pc' = "out" => \A m \in fmmus' : m.dir = "out"
    <3>1. pc' = "out" => pc = "out"
      BY <1>2, NoFmmu DEF OutputsDone, InputsDone, Dirs
    <3> QED
      BY <2>1, <3>1 DEF ImageInv
  <2>4. pc' # "out" => /\ Obytes' <= LogAddr'
                       /\ \A m \in fmmus' : IF m.dir = "out" THEN m.from + m.length <= Obytes'
                                                             ELSE m.from >= Obytes'
    <3>1. CASE OutputsDone
      <4>1. pc = "out" /\ Obytes' = LogAddr'
            /\ LogAddr' = IF BitPos > 0 THEN LogAddr + 1 ELSE LogAddr
        BY <3>1 DEF OutputsDone, Pad
      <4>2. \A m \in fmmus : m.dir = "out" /\ m.from + m.length <= Obytes'
        <5> SUFFICES ASSUME NEW m \in fmmus
                     PROVE  m.dir = "out" /\ m.from + m.length <= Obytes'
          OBVIOUS
        <5>1. 8 * (m.from + m.length - 1) + m.endbit < 8 * LogAddr + BitPos /\ m.dir = "out"
          BY <4>1 DEF ImageInv, Before
        <5> QED
          BY <1>0, <4>1, <5>1
      <4> QED
        BY <1>0, <2>1, <4>1, <4>2
    <3>2. CASE ~OutputsDone
      <4>1. (pc' # "out" => pc # "out") /\ Obytes' = Obytes
        BY <1>2, <3>2, NoFmmu DEF InputsDone, sumVars, Dirs
      <4> QED
        BY <1>0, <2>1, <4>1 DEF ImageInv
    <3> QED
      BY <3>1, <3>2
  <2>5. pc' \notin Dirs => BitPos' = 0
    <3>1. CASE OutputsDone \/ InputsDone
      BY <3>1 DEF OutputsDone, InputsDone, Pad
    <3>2. CASE ~(OutputsDone \/ InputsDone)
      <4>1. BitPos' = BitPos /\ (pc' \notin Dirs => pc \notin Dirs)
        BY <1>2, <3>2, NoFmmu
      <4> QED
        BY <4>1 DEF ImageInv
    <3> QED
      BY <3>1, <3>2
  <2>6. \A m, n \in fmmus' : m # n => (BitArea(m) \cap BitArea(n) = {})'
    BY <2>1 DEF ImageInv, BitArea
  <2> QED
    BY <2>2, <2>3, <2>4, <2>5, <2>6 DEF ImageInv
<1> QED
  BY <1>1, <1>2, StepsAre

LEMMA OwnerStep ==
  ASSUME TypeInv, TypeInv', WalkInv, ImageInv, OwnerInv, [Next]_vars
  PROVE  OwnerInv'
<1>0. slave \in Int /\ \A m \in fmmus : m.slave \in Slaves /\ m.dir \in Dirs /\ m.slave \in Int
  <2>1. slave \in Int /\ \A s \in Slaves : s \in Int
    BY DEF TypeInv, Slaves
  <2>2. \A m \in fmmus : m.slave \in Slaves /\ m.dir \in Dirs
    BY DEF TypeInv, FmmuType
  <2> QED
    BY <2>1, <2>2
<1>1. CASE MapFmmu
  <2>1. PICK m : Mapped1(m)
    BY <1>1, MapStep
  <2>2. fmmus' = fmmus \cup {m} /\ m.dir = pc /\ m.slave = slave /\ pc' = pc /\ slave' = slave
        /\ dev' = dev /\ Bits(slave, pc) > 0 /\ Mapping
    BY <1>1, <2>1 DEF Mapped1, MapFmmu, Unmapped
  <2>3. Bytes(slave, pc) = 0 => FMMUdone = 0 /\ FMMUdone' # 0 /\ Of(slave, pc) = {}
    <3> SUFFICES ASSUME Bytes(slave, pc) = 0
                 PROVE  FMMUdone = 0 /\ FMMUdone' # 0 /\ Of(slave, pc) = {}
      OBVIOUS
    <3>1. FMMUdone = 0 /\ FMMUdone' = m.length /\ m.length >= 1 /\ m.length \in Nat
      BY <2>1 DEF Mapped1, BitsMapped, FmmuType
    <3> QED
      BY <2>2, <3>1 DEF OwnerInv
  <2>4. \A n \in fmmus' : Bits(n.slave, n.dir) > 0 /\ (n.dir = pc' => n.slave <= slave')
    BY <1>0, <2>2 DEF OwnerInv
  <2>5. \A k, n \in fmmus' :
           k.slave = n.slave /\ k.dir = n.dir /\ Bytes(k.slave, k.dir) = 0 => k = n
    BY <2>2, <2>3 DEF OwnerInv, Of
  <2> QED
    BY <2>2, <2>3, <2>4, <2>5, SameDev DEF OwnerInv
<1>2. CASE SlaveDone \/ OutputsDone \/ InputsDone \/ CloseSegment \/ Cycle \/ UNCHANGED vars
  <2>1. fmmus' = fmmus /\ dev' = dev
    BY <1>2, NoFmmu
  <2>2. \A m \in fmmus : m.dir = pc' => m.slave <= slave' /\ (m.slave # slave' \/ UNCHANGED vars)
    <3>1. CASE SlaveDone
      BY <1>0, <3>1 DEF SlaveDone, OwnerInv
    <3>2. CASE OutputsDone
      BY <1>0, <3>2 DEF OutputsDone, ImageInv
    <3>3. CASE InputsDone \/ CloseSegment \/ Cycle
      BY <1>0, <3>3, CycleSteps DEF InputsDone, CloseSegment, Dirs
    <3>4. CASE UNCHANGED vars
      BY <3>4 DEF OwnerInv, vars, mapVars
    <3> QED
      BY <1>2, <3>1, <3>2, <3>3, <3>4
  <2>3. Of(slave', pc') = {} \/ UNCHANGED vars
    BY <2>2 DEF Of
  <2>4. \A s, d : Of(s, d)' = Of(s, d)
    BY <2>1 DEF Of
  <2>5. \A m \in fmmus' : Bits(m.slave, m.dir)' > 0 /\ (m.dir = pc' => m.slave <= slave')
    BY <2>1, <2>2, SameDev DEF OwnerInv
  <2>6. \A m, n \in fmmus' :
          m.slave = n.slave /\ m.dir = n.dir /\ Bytes(m.slave, m.dir)' = 0 => m = n
    BY <2>1, SameDev DEF OwnerInv
  <2>7. (Mapping /\ FMMUdone = 0 /\ Bytes(slave, pc) = 0 => Of(slave, pc) = {})'
    <3>1. CASE UNCHANGED vars
      <4>1. UNCHANGED <<Mapping, FMMUdone>> /\ slave' = slave /\ pc' = pc
        BY <3>1 DEF vars, mapVars, walkVars, Mapping
      <4> QED
        BY <2>1, <2>4, <4>1, SameDev DEF OwnerInv
    <3>2. CASE ~UNCHANGED vars
      BY <2>3, <2>4, <3>2
    <3> QED
      BY <3>1, <3>2
  <2> QED
    BY <2>5, <2>6, <2>7 DEF OwnerInv
<1> QED
  BY <1>1, <1>2, StepsAre

LEMMA SegStep ==
  ASSUME TypeInv, TypeInv', WalkInv, WalkInv', SegInv, [Next]_vars
  PROVE  SegInv'
<1>1. CASE MapFmmu
  <2>1. PICK m : Mapped1(m)
    BY <1>1, MapStep
  <2>2. pc' = pc /\ slave' = slave /\ dev' = dev /\ segments' = segments /\ Mapping /\ Mapping'
        /\ segmentsize' = segmentsize /\ oLogAddr' = oLogAddr /\ pc \in Dirs
    BY <1>1 DEF MapFmmu, segVars, Mapping, Dirs
  <2>3. LogAddr \in Nat /\ LogAddr' \in Nat /\ oLogAddr \in Nat /\ BitPos \in 0 .. 7
        /\ FMMUdone \in Nat /\ FMMUdone' \in Nat /\ m.length \in Nat
    BY <2>1 DEF TypeInv, Mapped1, FmmuType
  <2>4. IF Bytes(slave, pc) > 0
        THEN /\ LogAddr' - oLogAddr - FMMUdone' \in {0, 1}
             /\ BitPos' = 0
        ELSE /\ LogAddr' - oLogAddr \in {0, 1}
             /\ FMMUdone' > 0
    <3>1. CASE Bytes(slave, pc) = 0
      <4>1. BitsMapped(m) /\ LogAddr = oLogAddr
        BY <2>1, <2>2, <3>1 DEF Mapped1, BitsMapped, SegInv
      <4>2. LogAddr' \in LogAddr .. LogAddr + 1 /\ FMMUdone' = m.length /\ m.length >= 1
        BY <4>1 DEF BitsMapped
      <4>3. LogAddr' - oLogAddr \in {0, 1} /\ FMMUdone' > 0
        <5>1. LogAddr' = LogAddr \/ LogAddr' = LogAddr + 1
          BY <2>3, <4>2
        <5>2. FMMUdone' > 0
          BY <2>3, <4>2
        <5>3. PICK a \in Nat : a = LogAddr'
          BY <2>3
        <5>4. a - oLogAddr \in {0, 1}
          <6>1. a = LogAddr \/ a = LogAddr + 1
            BY <5>1, <5>3
          <6>2. oLogAddr \in Nat /\ LogAddr = oLogAddr
            BY <2>3, <4>1
          <6> QED
            BY <6>1, <6>2
        <5> QED
          BY <5>2, <5>3, <5>4
      <4> QED
        BY <3>1, <4>3
    <3>2. CASE Bytes(slave, pc) > 0
      <4>1. BytesMapped(m) /\ LogAddr - oLogAddr - FMMUdone \in {0, 1}
            /\ (LogAddr - oLogAddr - FMMUdone = 1 => BitPos = 0)
        BY <2>1, <2>2, <3>2 DEF Mapped1, SegInv
      <4> QED
        BY <2>3, <3>2, <4>1 DEF BytesMapped
    <3>3. Bytes(slave, pc) \in Nat
      BY <2>2, SlaveIs DEF Mapping
    <3> QED
      BY <3>1, <3>2, <3>3
  <2>5. Bytes(slave, pc)' = Bytes(slave, pc)
    BY <2>2, SameDev
  <2>6. FMMUdone' > 0 => FMMUdone' # 0
    BY <2>3
  <2>7. Total(segments) + segmentsize = oLogAddr
    BY <2>2 DEF SegInv
  <2> QED
    BY <2>2, <2>4, <2>5, <2>6, <2>7 DEF SegInv, Mapped, Dirs
<1>2. CASE SlaveDone \/ OutputsDone \/ InputsDone \/ CloseSegment
  <2>1. oLogAddr' = LogAddr' /\ LogAddr' \in Nat
        /\ (pc # "close" => Total(segments') + segmentsize' = oLogAddr')
        /\ (pc = "close" => Total(segments') = oLogAddr')
    BY <1>2, SegmentStep
  <2>2. IF pc = "close" THEN pc' = "send" ELSE pc' \in Dirs \cup {"close"}
    BY <1>2 DEF SlaveDone, OutputsDone, InputsDone, CloseSegment, Mapping, Dirs
  <2>3. FMMUdone' = 0
    <3>1. CASE SlaveDone
      BY <3>1 DEF SlaveDone
    <3>2. CASE ~SlaveDone
      <4>1. ~Mapping /\ FMMUdone' = FMMUdone
        BY <1>2, <3>2 DEF OutputsDone, InputsDone, CloseSegment, Mapping, Slaves, walkVars
      <4> QED
        BY <4>1 DEF WalkInv, AtStart
    <3> QED
      BY <3>1, <3>2
  <2>4. LogAddr' - oLogAddr' = 0 /\ LogAddr' - oLogAddr' - FMMUdone' = 0 /\ ~(FMMUdone' > 0)
    <3>1. PICK a \in Nat : a = LogAddr'
      BY <2>1
    <3>2. a - a = 0 /\ a - a - 0 = 0 /\ ~(0 > 0)
      OBVIOUS
    <3>3. oLogAddr' = a
      BY <2>1, <3>1
    <3> QED
      BY <2>3, <3>1, <3>2, <3>3
  <2>5. (pc \in Dirs \cup {"close"} => Total(segments) + segmentsize = oLogAddr)'
    BY <2>1, <2>2 DEF Dirs
  <2>6. (Mapped => Total(segments) = oLogAddr)'
    BY <2>1, <2>2 DEF Mapped, Dirs
  <2>7. (IF Bytes(slave, pc) > 0
         THEN /\ LogAddr - oLogAddr - FMMUdone \in {0, 1}
              /\ LogAddr - oLogAddr - FMMUdone = 1 \/ FMMUdone > 0 => BitPos = 0
         ELSE /\ LogAddr - oLogAddr \in {0, 1}
              /\ FMMUdone = 0 => LogAddr = oLogAddr)'
    <3>1. LogAddr' - oLogAddr' - FMMUdone' \in {0, 1} /\ LogAddr' - oLogAddr' \in {0, 1}
          /\ LogAddr' - oLogAddr' - FMMUdone' # 1
      BY <2>4
    <3>2. oLogAddr' = LogAddr'
      BY <2>1
    <3> QED
      BY <2>4, <3>1, <3>2
  <2> QED
    BY <2>1, <2>5, <2>6, <2>7 DEF SegInv
<1>3. CASE Cycle
  <2>1. UNCHANGED mapVars /\ dev' = dev /\ pc \in {"send", "receive"} /\ pc' \in {"send", "receive"}
    BY <1>3, CycleSteps
  <2> QED
    BY <2>1 DEF SegInv, mapVars, segVars, Mapped, Mapping, Dirs
<1>4. CASE UNCHANGED vars
  <2>1. dev' = dev /\ pc' = pc /\ slave' = slave /\ UNCHANGED segVars /\ FMMUdone' = FMMUdone
        /\ LogAddr' = LogAddr /\ BitPos' = BitPos
    BY <1>4 DEF vars, mapVars, walkVars
  <2> QED
    BY <2>1, SameDev DEF SegInv, Mapping, Mapped, segVars
<1> QED
  BY <1>1, <1>2, <1>3, <1>4, StepsAre

-----------------------------------------------------------------------------
(* The ends of the segments                                                *)

LEMMA CutsNat ==
  ASSUME segments \in Seq(Nat)
  PROVE  Cuts \subseteq Nat /\ 0 \in Cuts /\ Total(segments) \in Cuts
<1>1. Len(segments) \in Nat /\ Upto(segments) \in [0 .. Len(segments) -> Nat]
      /\ Upto(segments)[0] = 0
  BY UptoSeq
<1>2. 0 \in 0 .. Len(segments) /\ Len(segments) \in 0 .. Len(segments)
  BY <1>1
<1> QED
  BY <1>1, <1>2 DEF Cuts, Total

LEMMA CutsGrow ==
  ASSUME segments \in Seq(Nat), segmentsize \in Nat, Grown
  PROVE  Cuts' \subseteq Cuts \cup {Total(segments) + segmentsize}
<1> SUFFICES ASSUME NEW k \in 0 .. Len(segments')
             PROVE  Upto(segments')[k] \in Cuts \cup {Total(segments) + segmentsize}
  BY DEF Cuts
<1>1. Len(segments) \in Nat /\ Len(segments') \in Nat
  BY DEF Grown
<1>2. CASE k \in 0 .. Len(segments)
  BY <1>2 DEF Grown, Cuts
<1>3. CASE k \notin 0 .. Len(segments)
  <2>1. k = Len(segments') /\ Total(segments') = Total(segments) + segmentsize
    BY <1>1, <1>3 DEF Grown
  <2> QED
    BY <2>1 DEF Total
<1> QED
  BY <1>2, <1>3

LEMMA CutStep ==
  ASSUME TypeInv, TypeInv', WalkInv, ImageInv, OwnerInv, SegInv, CutInv, [Next]_vars
  PROVE  CutInv'
<1>0. /\ LogAddr \in Nat /\ LogAddr' \in Nat /\ oLogAddr \in Nat /\ oLogAddr' \in Nat
      /\ Cuts \subseteq Nat /\ slave \in Int
      /\ \A m \in fmmus : m.from \in Nat /\ m.length \in Nat /\ m.slave \in Slaves /\ m.dir \in Dirs
  <2>1. Cuts \subseteq Nat
    BY CutsNat DEF TypeInv
  <2>2. \A m \in fmmus : m.from \in Nat /\ m.length \in Nat /\ m.slave \in Slaves /\ m.dir \in Dirs
    BY DEF TypeInv, FmmuType
  <2> QED
    BY <2>1, <2>2 DEF TypeInv
<1>1. CASE MapFmmu
  <2>1. PICK m : Mapped1(m)
    BY <1>1, MapStep
  <2>2. fmmus' = fmmus \cup {m} /\ m.dir = pc /\ m.slave = slave /\ pc' = pc /\ slave' = slave
        /\ dev' = dev /\ segments' = segments /\ oLogAddr' = oLogAddr /\ Mapping
        /\ m.from \in Nat /\ m.length \in Nat
    BY <1>1, <2>1 DEF Mapped1, MapFmmu, segVars, FmmuType
  <2>3. LogAddr <= m.from /\ LogAddr <= LogAddr'
    BY <1>1, <2>1, NewBehind
  <2>4. Cuts' = Cuts
    BY <2>2 DEF Cuts
  <2>5. Bytes(slave, pc) > 0 => oLogAddr <= LogAddr /\ m.from + m.length <= LogAddr'
    <3> SUFFICES ASSUME Bytes(slave, pc) > 0
                 PROVE  oLogAddr <= LogAddr /\ m.from + m.length <= LogAddr'
      OBVIOUS
    <3>1. LogAddr - oLogAddr - FMMUdone \in {0, 1} /\ FMMUdone \in Nat
      BY <2>2 DEF SegInv, TypeInv
    <3>2. Bytes(slave, pc) # 0
      OBVIOUS
    <3>3. m.from + m.length = LogAddr'
      BY <2>1, <3>2 DEF Mapped1, BytesMapped
    <3> QED
      BY <1>0, <3>1, <3>3
  <2>6. \A n \in fmmus' : Bytes(n.slave, n.dir) > 0 =>
          IF n.dir = pc /\ n.slave = slave
          THEN n.from >= oLogAddr /\ n.from + n.length <= LogAddr'
          ELSE n.from + n.length <= oLogAddr
    <3> SUFFICES ASSUME NEW n \in fmmus', Bytes(n.slave, n.dir) > 0
                 PROVE  IF n.dir = pc /\ n.slave = slave
                        THEN n.from >= oLogAddr /\ n.from + n.length <= LogAddr'
                        ELSE n.from + n.length <= oLogAddr
      OBVIOUS
    <3>1. CASE n = m
      BY <1>0, <2>2, <2>3, <2>5, <3>1
    <3>2. CASE n # m
      <4>1. n \in fmmus
        BY <2>2, <3>2
      <4>2. IF n.dir = pc /\ n.slave = slave
            THEN n.from >= oLogAddr /\ n.from + n.length <= LogAddr
            ELSE n.from + n.length <= oLogAddr
        BY <4>1 DEF CutInv
      <4> QED
        BY <1>0, <2>3, <4>1, <4>2
    <3> QED
      BY <3>1, <3>2
  <2>7. \A c \in Cuts, s \in Slaves, d \in Dirs : Bytes(s, d) > 0 => Beside(c, s, d)'
    <3> SUFFICES ASSUME NEW c \in Cuts, NEW s \in Slaves, NEW d \in Dirs, Bytes(s, d) > 0
                 PROVE  Beside(c, s, d)'
      OBVIOUS
    <3>1. CASE s = slave /\ d = pc
      <4>1. c \in Nat /\ c <= oLogAddr
        BY <1>0 DEF CutInv
      <4>2. \A n \in fmmus' : n.slave = s /\ n.dir = d => n.from >= c
        <5> SUFFICES ASSUME NEW n \in fmmus', n.slave = s, n.dir = d PROVE n.from >= c
          OBVIOUS
        <5>1. n.from >= oLogAddr /\ n.from \in Nat
          BY <1>0, <2>2, <2>6, <3>1
        <5> QED
          BY <1>0, <4>1, <5>1
      <4> QED
        BY <4>2 DEF Beside, Of
    <3>2. CASE ~(s = slave /\ d = pc)
      <4>1. Of(s, d)' = Of(s, d)
        BY <2>2, <3>2 DEF Of
      <4> QED
        BY <4>1 DEF Beside, CutInv
    <3> QED
      BY <3>1, <3>2
  <2> QED
    BY <2>2, <2>4, <2>6, <2>7, SameDev DEF CutInv
<1>2. CASE SlaveDone \/ OutputsDone \/ InputsDone \/ CloseSegment
  <2>1. Grown /\ oLogAddr' = LogAddr' /\ LogAddr <= LogAddr' /\ oLogAddr <= oLogAddr'
        /\ Total(segments) + segmentsize = oLogAddr
    BY <1>2, SegmentStep
  <2>2. fmmus' = fmmus /\ dev' = dev
    BY <1>2, NoFmmu
  <2>3. Cuts' \subseteq Cuts \cup {oLogAddr}
    BY <2>1, CutsGrow DEF TypeInv
  <2>4. \A m \in fmmus : Bytes(m.slave, m.dir) > 0 =>
           m.from + m.length <= oLogAddr' /\ ~(m.dir = pc' /\ m.slave = slave')
    <3> SUFFICES ASSUME NEW m \in fmmus, Bytes(m.slave, m.dir) > 0
                 PROVE  m.from + m.length <= oLogAddr' /\ ~(m.dir = pc' /\ m.slave = slave')
      OBVIOUS
    <3>1. IF m.dir = pc /\ m.slave = slave
          THEN m.from >= oLogAddr /\ m.from + m.length <= LogAddr
          ELSE m.from + m.length <= oLogAddr
      BY DEF CutInv
    <3>2. m.from + m.length <= oLogAddr'
      BY <1>0, <2>1, <3>1
    <3>3. ~(m.dir = pc' /\ m.slave = slave')
      <4>1. m.slave \in Int
        BY <1>0 DEF Slaves
      <4>2. CASE SlaveDone
        <5>1. pc' = pc /\ slave' = slave + 1
          BY <4>2 DEF SlaveDone
        <5>2. m.dir = pc => m.slave <= slave
          BY DEF OwnerInv
        <5> QED
          BY <1>0, <4>1, <5>1, <5>2
      <4>3. CASE OutputsDone
        BY <4>3 DEF OutputsDone, ImageInv
      <4>4. CASE InputsDone \/ CloseSegment
        BY <1>0, <4>4 DEF InputsDone, CloseSegment, Dirs
      <4> QED
        BY <1>2, <4>2, <4>3, <4>4
    <3> QED
      BY <3>2, <3>3
  <2>5. \A c \in Cuts' : c <= oLogAddr'
    <3> SUFFICES ASSUME NEW c \in Cuts' PROVE c <= oLogAddr'
      OBVIOUS
    <3>1. c \in Nat /\ c <= oLogAddr
      BY <1>0, <2>3 DEF CutInv
    <3> QED
      BY <1>0, <2>1, <3>1
  <2>6. \A s, d : Bytes(s, d)' = Bytes(s, d) /\ Of(s, d)' = Of(s, d)
    BY <2>2, SameDev DEF Of
  <2>7. \A c \in Cuts', s \in Slaves, d \in Dirs : Bytes(s, d) > 0 => Beside(c, s, d)
    <3> SUFFICES ASSUME NEW c \in Cuts', NEW s \in Slaves, NEW d \in Dirs, Bytes(s, d) > 0
                 PROVE  Beside(c, s, d)
      OBVIOUS
    <3>1. CASE c \in Cuts
      BY <3>1 DEF CutInv
    <3>2. CASE c \notin Cuts
      <4>1. c = oLogAddr
        BY <2>3, <3>2
      <4>2. CASE s = slave /\ d = pc
        BY <4>1, <4>2 DEF CutInv, Beside, Of
      <4>3. CASE ~(s = slave /\ d = pc)
        BY <4>1, <4>3 DEF CutInv, Beside, Of
      <4> QED
        BY <4>2, <4>3
    <3> QED
      BY <3>1, <3>2
  <2>8. \A c, s, d : Beside(c, s, d)' = Beside(c, s, d)
    BY <2>6 DEF Beside
  <2>9. \A m \in fmmus' : Bytes(m.slave, m.dir)' > 0 =>
           m.from + m.length <= oLogAddr' /\ ~(m.dir = pc' /\ m.slave = slave')
    BY <2>2, <2>4, <2>6
  <2>10. \A c \in Cuts', s \in Slaves, d \in Dirs : Bytes(s, d)' > 0 => Beside(c, s, d)'
    BY <2>6, <2>7, <2>8
  <2> QED
    BY <2>5, <2>9, <2>10 DEF CutInv
<1>3. CASE Cycle \/ UNCHANGED vars
  <2>1. fmmus' = fmmus /\ dev' = dev /\ segments' = segments /\ oLogAddr' = oLogAddr
        /\ LogAddr' = LogAddr /\ slave' = slave /\ (pc' = pc \/ (pc \notin Dirs /\ pc' \notin Dirs))
    BY <1>3, CycleSteps DEF mapVars, segVars, vars, Dirs
  <2>2. \A s, d : Bytes(s, d)' = Bytes(s, d) /\ Of(s, d)' = Of(s, d)
    BY <2>1, SameDev DEF Of
  <2>3. Cuts' = Cuts
    BY <2>1 DEF Cuts
  <2>4. \A c, s, d : Beside(c, s, d)' = Beside(c, s, d)
    BY <2>2 DEF Beside
  <2>5. \A m \in fmmus : (m.dir = pc' /\ m.slave = slave') <=> (m.dir = pc /\ m.slave = slave)
    BY <1>0, <2>1
  <2> QED
    BY <2>1, <2>2, <2>3, <2>4, <2>5 DEF CutInv
<1> QED
  BY <1>1, <1>2, <1>3, StepsAre

LEMMA LimitStep ==
  ASSUME TypeInv, TypeInv', WalkInv, SegInv, LimitInv, [Next]_vars
  PROVE  LimitInv'
<1>0. segments \in Seq(Nat) /\ segmentsize \in Nat /\ Len(segments) \in Nat
  BY DEF TypeInv
<1>1. dev' = dev
  BY StepsAre, NoFmmu DEF MapFmmu
<1>2. Small' = Small
  BY <1>1, SameDev DEF Small
<1> SUFFICES ASSUME Small
             PROVE  segmentsize' <= Limit /\ \A k \in DOMAIN segments' : segments'[k] <= Limit
  BY <1>2 DEF LimitInv
<1>3. segmentsize <= Limit /\ \A k \in 1 .. Len(segments) : segments[k] <= Limit
  BY <1>0 DEF LimitInv
<1>4. Grown => \A k \in DOMAIN segments' : segments'[k] <= Limit
  <2> SUFFICES ASSUME Grown, NEW k \in DOMAIN segments' PROVE segments'[k] <= Limit
    OBVIOUS
  <2>1. segments' \in Seq(Nat) /\ Len(segments') \in Nat /\ k \in 1 .. Len(segments')
    BY DEF Grown
  <2>2. CASE k \in 1 .. Len(segments)
    BY <1>3, <2>2 DEF Grown
  <2>3. CASE k \notin 1 .. Len(segments)
    <3>1. k = Len(segments') /\ segments'[Len(segments')] = segmentsize
      BY <1>0, <2>1, <2>3 DEF Grown
    <3> QED
      BY <1>3, <3>1
  <2> QED
    BY <2>2, <2>3
<1>5. CASE SlaveDone \/ OutputsDone \/ InputsDone \/ CloseSegment
  <2>1. Grown
    BY <1>5, SegmentStep
  <2>2. segmentsize' <= Limit
    <3>1. CASE SlaveDone
      <4>1. Mapping /\ slave \in Slaves /\ pc \in Dirs /\ LogAddr' = LogAddr
        BY <3>1 DEF SlaveDone, Mapping, Dirs
      <4>2. CASE Bits(slave, pc) > 0
        <5>1. Add(LogAddr - oLogAddr)
          BY <3>1, <4>2 DEF SlaveDone
        <5>2. Bytes(slave, pc) < Limit /\ Bytes(slave, pc) \in Nat
          BY <4>1, SlaveIs DEF Small
        <5>3. LogAddr - oLogAddr \in Nat /\ LogAddr - oLogAddr <= Limit
          <6>1. LogAddr \in Nat /\ oLogAddr \in Nat /\ FMMUdone \in Nat
                /\ (Bytes(slave, pc) > 0 => FMMUdone <= Bytes(slave, pc))
                /\ (Bytes(slave, pc) > 0 => LogAddr - oLogAddr - FMMUdone \in {0, 1})
                /\ (~(Bytes(slave, pc) > 0) => LogAddr - oLogAddr \in {0, 1})
            BY <4>1 DEF TypeInv, WalkInv, SegInv
          <6> QED
            BY <5>2, <6>1
        <5> QED
          BY <1>0, <5>1, <5>3, Added
      <4>3. CASE ~(Bits(slave, pc) > 0)
        BY <1>3, <3>1, <4>3 DEF SlaveDone, segVars
      <4> QED
        BY <4>2, <4>3
    <3>2. CASE OutputsDone \/ InputsDone
      <4>1. Pad
        BY <3>2 DEF OutputsDone, InputsDone
      <4>2. CASE BitPos > 0
        <5>1. Add(1)
          BY <4>1, <4>2 DEF Pad
        <5> QED
          BY <1>0, <5>1, Added
      <4>3. CASE ~(BitPos > 0)
        BY <1>3, <4>1, <4>3 DEF Pad, segVars
      <4> QED
        BY <4>2, <4>3
    <3>3. CASE CloseSegment
      BY <1>3, <3>3 DEF CloseSegment
    <3> QED
      BY <1>5, <3>1, <3>2, <3>3
  <2> QED
    BY <1>4, <2>1, <2>2
<1>6. CASE MapFmmu \/ Cycle \/ UNCHANGED vars
  <2>1. segments' = segments /\ segmentsize' = segmentsize
    BY <1>6, CycleSteps DEF MapFmmu, segVars, vars, mapVars
  <2> QED
    BY <1>0, <1>3, <2>1
<1> QED
  BY <1>5, <1>6, StepsAre

LEMMA OffsetStep ==
  ASSUME TypeInv, TypeInv', WalkInv, SegInv, OffsetInv, [Next]_vars
  PROVE  OffsetInv'
<1>0. segments \in Seq(Nat) /\ segments' \in Seq(Nat) /\ segmentsize \in Nat /\ segmentsize' \in Nat
      /\ Len(segments) \in Nat /\ Len(segments') \in Nat /\ Isegment \in Nat \ {0} /\ Ioffset \in Nat
  <2>1. segments \in Seq(Nat) /\ segments' \in Seq(Nat)
    BY DEF TypeInv
  <2>2. segmentsize \in Nat /\ segmentsize' \in Nat /\ Isegment \in Nat \ {0} /\ Ioffset \in Nat
    BY DEF TypeInv
  <2>3. Len(segments) \in Nat /\ Len(segments') \in Nat
    BY <2>1, LenProperties
  <2> QED
    BY <2>1, <2>2, <2>3
<1>1. CASE OutputsDone
  <2>1. pc' = "in" /\ Obytes' = LogAddr' /\ Isegment' = Len(segments') + 1 /\ Ioffset' = segmentsize'
    BY <1>1 DEF OutputsDone
  <2>2. Total(segments') + segmentsize' = LogAddr'
    <3>1. pc # "close"
      BY <1>1 DEF OutputsDone
    <3> QED
      BY <1>1, <3>1, SegmentStep
  <2>3. PICK i \in Nat : i = Len(segments')
    BY <1>0
  <2>4. Isegment' = i + 1 /\ i + 1 - 1 = i /\ ~(i + 1 <= i) /\ i + 1 <= i + 1
    BY <2>1, <2>3
  <2>5. Upto(segments')[Isegment' - 1] + Ioffset' = Obytes'
    <3>1. Upto(segments')[i + 1 - 1] = Total(segments')
      BY <2>3, <2>4 DEF Total
    <3>2. Upto(segments')[Isegment' - 1] = Total(segments')
      BY <2>4, <3>1
    <3> QED
      BY <2>1, <2>2, <3>2
  <2>6. Ioffset' <= segmentsize'
    BY <1>0, <2>1
  <2>7. Isegment' <= Len(segments') + 1 /\ ~(Isegment' <= Len(segments'))
    BY <2>3, <2>4
  <2>8. ~Mapped'
    BY <2>1 DEF Mapped
  <2> QED
    BY <2>5, <2>6, <2>7, <2>8 DEF OffsetInv
<1>2. CASE SlaveDone \/ InputsDone \/ CloseSegment
  <2>1. Grown /\ Isegment' = Isegment /\ Ioffset' = Ioffset /\ Obytes' = Obytes
        /\ (Len(segments') = Len(segments) => segmentsize <= segmentsize')
    <3>1. Isegment' = Isegment /\ Ioffset' = Ioffset /\ Obytes' = Obytes
      BY <1>2 DEF SlaveDone, InputsDone, CloseSegment, sumVars
    <3> QED
      BY <1>2, <3>1, SegmentStep
  <2>2. ~Mapped /\ (pc' # "out" => pc # "out")
    BY <1>2 DEF SlaveDone, InputsDone, CloseSegment, Mapping, Mapped
  <2>3. Mapped' => Len(segments') = Len(segments) + 1
    <3> SUFFICES ASSUME Mapped' PROVE Len(segments') = Len(segments) + 1
      OBVIOUS
    <3>1. CloseSegment
      BY <1>2 DEF SlaveDone, InputsDone, Mapping, Mapped
    <3>2. pc = "close"
      BY <3>1 DEF CloseSegment
    <3> QED
      BY <3>1, <3>2, SegmentStep
  <2> SUFFICES ASSUME pc # "out"
               PROVE  /\ Isegment <= Len(segments') + 1 /\ (Mapped' => Isegment <= Len(segments'))
                      /\ Upto(segments')[Isegment - 1] + Ioffset = Obytes
                      /\ Isegment <= Len(segments') => Ioffset <= segments'[Isegment]
                      /\ ~Mapped' /\ Isegment = Len(segments') + 1 => Ioffset <= segmentsize'
    BY <2>1, <2>2 DEF OffsetInv
  <2>4. Isegment <= Len(segments) + 1 /\ Upto(segments)[Isegment - 1] + Ioffset = Obytes
        /\ (Isegment <= Len(segments) => Ioffset <= segments[Isegment])
        /\ (Isegment = Len(segments) + 1 => Ioffset <= segmentsize)
    BY <2>2 DEF OffsetInv
  <2>5. Isegment - 1 \in 0 .. Len(segments)
    BY <1>0, <2>4
  <2>6. Upto(segments')[Isegment - 1] = Upto(segments)[Isegment - 1]
    BY <2>1, <2>5 DEF Grown
  <2>7. PICK l \in Nat : l = Len(segments')
    BY <1>0
  <2>8. l = Len(segments) \/ (l = Len(segments) + 1 /\ segments'[l] = segmentsize)
    BY <2>1, <2>7 DEF Grown
  <2>9. Isegment <= l + 1 /\ (l = Len(segments) + 1 => Isegment <= l)
    BY <1>0, <2>4, <2>8
  <2>10. Isegment <= l => Ioffset <= segments'[Isegment]
    <3> SUFFICES ASSUME Isegment <= l PROVE Ioffset <= segments'[Isegment]
      OBVIOUS
    <3>1. CASE Isegment <= Len(segments)
      <4>1. Isegment \in 1 .. Len(segments)
        BY <1>0, <3>1
      <4>2. segments'[Isegment] = segments[Isegment]
        BY <2>1, <4>1 DEF Grown
      <4> QED
        BY <2>4, <3>1, <4>2
    <3>2. CASE ~(Isegment <= Len(segments))
      <4>1. Isegment = Len(segments) + 1
        BY <1>0, <2>4, <3>2
      <4>2. l = Len(segments) + 1
        BY <1>0, <2>8, <4>1
      <4> QED
        BY <2>4, <2>8, <4>1, <4>2
    <3> QED
      BY <3>1, <3>2
  <2>11. ~Mapped' /\ Isegment = l + 1 => Ioffset <= segmentsize'
    <3> SUFFICES ASSUME Isegment = l + 1 PROVE Ioffset <= segmentsize'
      OBVIOUS
    <3>1. l = Len(segments)
      BY <1>0, <2>8, <2>9
    <3>2. Ioffset <= segmentsize /\ segmentsize <= segmentsize'
      BY <2>1, <2>4, <2>7, <3>1
    <3> QED
      BY <1>0, <3>2
  <2>12. Mapped' => Isegment <= l
    BY <2>3, <2>7, <2>9
  <2> QED
    BY <2>4, <2>6, <2>7, <2>9, <2>10, <2>11, <2>12
<1>3. CASE MapFmmu \/ Cycle \/ UNCHANGED vars
  <2>1. segments' = segments /\ segmentsize' = segmentsize /\ UNCHANGED sumVars
        /\ (pc' = pc \/ (pc \in {"send", "receive"} /\ pc' \in {"send", "receive"}))
    BY <1>3, CycleSteps DEF MapFmmu, segVars, vars, mapVars
  <2> QED
    BY <2>1 DEF OffsetInv, sumVars, Mapped
<1> QED
  BY <1>1, <1>2, <1>3, StepsAre

-----------------------------------------------------------------------------
(* Slaves that are done                                                    *)

LEMMA ReadyStep ==
  ASSUME TypeInv, [Next]_vars, NEW s \in Slaves, NEW d \in Dirs
  PROVE  IF SlaveDone THEN Ready(s, d)' <=> Ready(s, d) \/ (s = slave /\ d = pc)
                      ELSE Ready(s, d)' <=> Ready(s, d)
<1>0. s \in Int /\ 1 <= s /\ s <= N /\ slave \in Int /\ d \in {"out", "in"}
  BY DEF TypeInv, Slaves, Dirs
<1>1. CASE SlaveDone
  <2>1. pc' = pc /\ slave' = slave + 1 /\ pc \in Dirs
    BY <1>1 DEF SlaveDone, Mapping, Dirs
  <2>2. s < slave + 1 <=> s < slave \/ s = slave
    BY <1>0
  <2> QED
    BY <1>1, <2>1, <2>2 DEF Ready
<1>2. CASE OutputsDone
  <2>1. pc = "out" /\ pc' = "in" /\ slave' = 1 /\ slave > N /\ s < slave /\ ~(s < 1) /\ ~SlaveDone
    BY <1>0, <1>2 DEF OutputsDone, SlaveDone, Mapping, Slaves
  <2> QED
    BY <1>0, <2>1 DEF Ready, Dirs
<1>3. CASE InputsDone
  <2>1. pc = "in" /\ pc' = "close" /\ slave > N /\ s < slave /\ ~SlaveDone
    BY <1>0, <1>3 DEF InputsDone, SlaveDone, Mapping, Slaves
  <2> QED
    BY <1>0, <2>1 DEF Ready, Dirs
<1>4. CASE MapFmmu \/ CloseSegment \/ Cycle \/ UNCHANGED vars
  <2>1. slave' = slave /\ (pc' = pc \/ (pc \notin Dirs /\ pc' \notin Dirs))
    BY <1>4, CycleSteps DEF MapFmmu, CloseSegment, vars, mapVars, Dirs
  <2>2. Ready(s, d)' <=> Ready(s, d)
    BY <2>1 DEF Ready, Dirs
  <2>3. ~SlaveDone \/ slave' # slave
    BY <1>0 DEF SlaveDone
  <2> QED
    BY <2>1, <2>2, <2>3
<1> QED
  BY <1>1, <1>2, <1>3, <1>4, StepsAre

LEMMA CountStep ==
  ASSUME TypeInv, CountInv, [Next]_vars
  PROVE  CountInv'
<1> DEFINE D(d) == {s \in Has(d) : Ready(s, d)}
<1>0. dev' = dev /\ slave \in Int /\ \A d : Has(d) \subseteq Slaves
  BY StepsAre, NoFmmu DEF MapFmmu, TypeInv, Has
<1>1. \A d : IsFiniteSet(D(d)) /\ Cardinality(D(d)) \in Nat
  <2> TAKE d
  <2>1. D(d) \subseteq Slaves
    BY <1>0
  <2> HIDE DEF D
  <2> QED
    BY <2>1, SlavesFinite
<1>2. CASE SlaveDone
  <2>1. slave \in Slaves /\ pc \in Dirs
    BY <1>2 DEF SlaveDone, Mapping, Dirs
  <2>2. \A d \in Dirs : \A s \in Slaves : Ready(s, d)' <=> Ready(s, d) \/ (s = slave /\ d = pc)
    BY <1>2, ReadyStep
  <2>3. ~Ready(slave, pc)
    BY <1>0, <2>1 DEF Ready, Dirs
  <2>4. \A d \in Dirs : D(d)' = IF Bits(slave, d) > 0 /\ d = pc THEN D(d) \cup {slave} ELSE D(d)
    <3> TAKE d \in Dirs
    <3>1. Has(d)' = Has(d)
      BY <1>0, SameDev
    <3>2. slave \in Has(d) <=> Bits(slave, d) > 0
      BY <2>1 DEF Has
    <3> QED
      BY <1>0, <2>1, <2>2, <3>1, <3>2
  <2>5. \A d \in Dirs : Cardinality(D(d)') =
           Cardinality(D(d)) + (IF Bits(slave, d) > 0 /\ d = pc THEN 1 ELSE 0)
    <3> TAKE d \in Dirs
    <3>1. CASE Bits(slave, d) > 0 /\ d = pc
      <4>1. slave \notin D(d)
        BY <2>3, <3>1
      <4>2. D(d)' = D(d) \cup {slave}
        BY <2>4, <3>1
      <4>3. Cardinality(D(d) \cup {slave}) = Cardinality(D(d)) + 1
        <5> HIDE DEF D
        <5> QED
          BY <1>1, <4>1, FS_AddElement
      <4> QED
        BY <3>1, <4>2, <4>3
    <3>2. CASE ~(Bits(slave, d) > 0 /\ d = pc)
      <4>1. D(d)' = D(d)
        BY <2>4, <3>2
      <4> HIDE DEF D
      <4> QED
        BY <1>1, <3>2, <4>1
    <3> QED
      BY <3>1, <3>2
  <2>6. outputsWKC' = outputsWKC + (IF Bits(slave, "out") > 0 /\ "out" = pc THEN 1 ELSE 0)
    BY <1>2 DEF SlaveDone, TypeInv
  <2>7. inputsWKC' = inputsWKC + (IF Bits(slave, "in") > 0 /\ "in" = pc THEN 1 ELSE 0)
    BY <1>2 DEF SlaveDone, TypeInv
  <2>8. outputsWKC = Cardinality(D("out")) /\ inputsWKC = Cardinality(D("in"))
    BY DEF CountInv
  <2>9. outputsWKC' = Cardinality(D("out")') /\ inputsWKC' = Cardinality(D("in")')
    <3> HIDE DEF D
    <3> QED
      BY <2>5, <2>6, <2>7, <2>8 DEF Dirs
  <2> QED
    BY <2>9 DEF CountInv
<1>3. CASE ~SlaveDone
  <2>1. outputsWKC' = outputsWKC /\ inputsWKC' = inputsWKC
    <3>1. MapFmmu \/ OutputsDone \/ InputsDone \/ CloseSegment \/ Cycle \/ UNCHANGED vars
      BY <1>3, StepsAre
    <3> QED
      BY <3>1, CycleSteps
         DEF MapFmmu, OutputsDone, InputsDone, CloseSegment, vars, mapVars, sumVars
  <2>2. \A d \in Dirs : \A s \in Slaves : Ready(s, d)' <=> Ready(s, d)
    BY <1>3, ReadyStep
  <2>3. \A d \in Dirs : D(d)' = D(d)
    <3> TAKE d \in Dirs
    <3>1. Has(d)' = Has(d)
      BY <1>0, SameDev
    <3> QED
      BY <1>0, <2>2, <3>1
  <2> QED
    BY <2>1, <2>3 DEF CountInv, Dirs
<1> QED
  BY <1>2, <1>3

-----------------------------------------------------------------------------
(* The physical memory                                                     *)

\* A run of sync managers without a gap is one piece of the physical memory.
LEMMA Contiguous ==
  ASSUME TypeInv, NEW s \in Slaves, NEW d \in Dirs, Plain(s, d),
         NEW i \in 1 .. Len(dev[s][d]), NEW j \in i .. Len(dev[s][d]),
         \A k \in i .. j - 1 : ~Gap(s, d, k)
  PROVE  /\ dev[s][d][i].start + SMbytes(s, d)[j] = EndAddr(s, d, j) + SMbytes(s, d)[i - 1]
         /\ UNION {SMArea(s, d, k) : k \in i .. j} = dev[s][d][i].start .. EndAddr(s, d, j) - 1
<1> DEFINE n == Len(dev[s][d])
           U == SMbytes(s, d)
           st(k) == dev[s][d][k].start
           A(k) == UNION {SMArea(s, d, l) : l \in i .. k}
           Good(k) == st(i) + U[k] = EndAddr(s, d, k) + U[i - 1] /\ A(k) = st(i) .. EndAddr(s, d, k) - 1
                      /\ st(i) <= EndAddr(s, d, k)
           S == {k \in i .. j : ~Good(k)}
<1>1. n \in Nat /\ i \in 1 .. n /\ j \in i .. n /\ i \in Nat /\ j \in Nat
  BY SlaveIs
<1>2. \A k \in 1 .. n : /\ st(k) \in Nat /\ SMlength(s, d, k) \in Nat /\ EndAddr(s, d, k) \in Nat
                        /\ EndAddr(s, d, k) = st(k) + SMlength(s, d, k)
                        /\ U[k] = U[k - 1] + SMlength(s, d, k)
                        /\ U[k] \in Nat /\ U[k - 1] \in Nat
  <2> TAKE k \in 1 .. n
  <2>1. k \in 0 .. n /\ k - 1 \in 0 .. n
    BY <1>1
  <2>2. st(k) \in Nat /\ SMlength(s, d, k) \in Nat /\ EndAddr(s, d, k) \in Nat
        /\ U[k] = U[k - 1] + SMlength(s, d, k)
    BY SlaveIs
  <2>3. U \in [0 .. n -> Nat]
    BY SlaveIs
  <2> QED
    BY <2>1, <2>2, <2>3 DEF EndAddr
<1>3. \A k \in i .. j : k # i => st(k) = EndAddr(s, d, k - 1)
  <2> SUFFICES ASSUME NEW k \in i .. j, k # i PROVE st(k) = EndAddr(s, d, k - 1)
    OBVIOUS
  <2>1. k - 1 \in i .. j - 1 /\ k - 1 \in 1 .. n - 1 /\ k - 1 \in 1 .. n /\ k \in 1 .. n /\ (k - 1) + 1 = k
    BY <1>1
  <2>2. ~(st(k) > EndAddr(s, d, k - 1))
    BY <2>1 DEF Gap
  <2>3. st(k) >= EndAddr(s, d, k - 1)
    BY <2>1 DEF Plain
  <2>4. st(k) \in Nat /\ EndAddr(s, d, k - 1) \in Nat
    BY <1>2, <2>1
  <2> HIDE DEF st
  <2> QED
    BY <2>2, <2>3, <2>4
<1>4. S = {}
  <2> SUFFICES ASSUME S # {} PROVE FALSE
    OBVIOUS
  <2>1. PICK k \in S : \A l \in S : k <= l
    <3>1. S \subseteq Nat
      BY <1>1
    <3> HIDE DEF S
    <3> QED
      BY <3>1, HasLeast
  <2>2. k \in i .. j /\ ~Good(k) /\ k \in 1 .. n
    BY <1>1, <2>1
  <2>3. CASE k = i
    <3>1. A(i) = SMArea(s, d, i)
      <4>1. i .. i = {i}
        BY <1>1
      <4> QED
        BY <4>1
    <3>2. st(i) + U[i] = EndAddr(s, d, i) + U[i - 1] /\ st(i) <= EndAddr(s, d, i)
      <4>1. st(i) \in Nat /\ SMlength(s, d, i) \in Nat /\ EndAddr(s, d, i) = st(i) + SMlength(s, d, i)
            /\ U[i] = U[i - 1] + SMlength(s, d, i) /\ U[i - 1] \in Nat
        BY <1>2
      <4> HIDE DEF st, U
      <4> QED
        BY <4>1
    <3> QED
      BY <2>2, <2>3, <3>1, <3>2 DEF SMArea
  <2>4. CASE k # i
    <3>1. k - 1 \in i .. j /\ k - 1 \in 1 .. n /\ ~(k <= k - 1)
      BY <1>1, <2>2, <2>4
    <3>2. k - 1 \notin S
      <4> HIDE DEF S
      <4> QED
        BY <2>1, <3>1
    <3>3. Good(k - 1)
      BY <3>1, <3>2
    <3>4. A(k) = A(k - 1) \cup SMArea(s, d, k)
      <4>1. i .. k = (i .. k - 1) \cup {k}
        BY <1>1, <2>2
      <4> QED
        BY <4>1
    <3>5. st(k) = EndAddr(s, d, k - 1)
      BY <1>3, <2>2, <2>4
    <3>6. /\ st(k) \in Nat /\ SMlength(s, d, k) \in Nat /\ EndAddr(s, d, k) = st(k) + SMlength(s, d, k)
          /\ U[k] = U[k - 1] + SMlength(s, d, k) /\ U[k - 1] \in Nat /\ st(i) \in Nat
          /\ U[i - 1] \in Nat
      BY <1>1, <1>2, <2>2
    <3> HIDE DEF S, st, U, A
    <3>7. st(i) + U[k - 1] = st(k) + U[i - 1] /\ st(i) <= st(k) /\ A(k - 1) = st(i) .. st(k) - 1
      BY <3>3, <3>5
    <3>8. st(i) + U[k] = EndAddr(s, d, k) + U[i - 1] /\ st(i) <= EndAddr(s, d, k)
          /\ st(k) <= EndAddr(s, d, k) /\ EndAddr(s, d, k) \in Nat
      <4>1. st(i) + U[k - 1] = st(k) + U[i - 1] /\ st(i) <= st(k)
        BY <3>7
      <4> DEFINE l == SMlength(s, d, k)
      <4>2. st(i) + (U[k - 1] + l) = (st(k) + l) + U[i - 1] /\ st(i) <= st(k) + l
            /\ st(k) <= st(k) + l /\ st(k) + l \in Nat
        <5> HIDE DEF l
        <5>1. l \in Nat /\ st(i) \in Nat /\ st(k) \in Nat /\ U[k - 1] \in Nat /\ U[i - 1] \in Nat
          BY <3>6 DEF l
        <5>2. PICK a \in Nat, b \in Nat, c \in Nat, e \in Nat, x \in Nat :
                 a = st(i) /\ b = U[k - 1] /\ c = st(k) /\ e = U[i - 1] /\ x = l
          BY <5>1, Zenon
        <5>3. a + b = c + e /\ a <= c
          BY <4>1, <5>2, Zenon
        <5>4. a + (b + x) = (c + x) + e /\ a <= c + x /\ c <= c + x /\ c + x \in Nat
          BY <5>3
        <5> QED
          BY <5>2, <5>4, Zenon
      <4> QED
        BY <3>6, <4>2, Zenon
    <3>9. A(k) = st(i) .. EndAddr(s, d, k) - 1
      <4>1. SMArea(s, d, k) = st(k) .. EndAddr(s, d, k) - 1
        BY DEF SMArea, st
      <4>2. (st(i) .. st(k) - 1) \cup (st(k) .. EndAddr(s, d, k) - 1) = st(i) .. EndAddr(s, d, k) - 1
        BY <3>6, <3>7, <3>8
      <4> QED
        BY <3>4, <3>7, <4>1, <4>2
    <3> QED
      BY <2>2, <3>8, <3>9
  <2> QED
    BY <2>3, <2>4
<1>5. Good(j)
  <2>1. j \in i .. j
    BY <1>1
  <2> HIDE DEF Good
  <2> QED
    BY <1>4, <2>1
<1> QED
  BY <1>5

\* What an FMMU adds to what a slave has, and whose is not touched.
LEMMA OfStep ==
  ASSUME NEW m, fmmus' = fmmus \cup {m}, m.slave = slave, m.dir = pc, NEW s, NEW d
  PROVE  IF s = slave /\ d = pc
         THEN /\ Of(s, d)' = Of(s, d) \cup {m} /\ PhysOf(s, d)' = PhysOf(s, d) \cup Phys(m)
              /\ Region(s, d)' = Region(s, d) \cup Area(m)
         ELSE /\ Of(s, d)' = Of(s, d) /\ PhysOf(s, d)' = PhysOf(s, d)
              /\ Region(s, d)' = Region(s, d)
<1>1. CASE s = slave /\ d = pc
  <2>1. Of(s, d)' = Of(s, d) \cup {m}
    BY <1>1 DEF Of
  <2>2. PhysOf(s, d)' = PhysOf(s, d) \cup Phys(m)
    BY <2>1 DEF PhysOf
  <2>3. Region(s, d)' = Region(s, d) \cup Area(m)
    BY <2>1 DEF Region, Of
  <2> QED
    BY <1>1, <2>1, <2>2, <2>3
<1>2. CASE ~(s = slave /\ d = pc)
  <2>1. Of(s, d)' = Of(s, d)
    BY <1>2 DEF Of
  <2> QED
    BY <1>2, <2>1 DEF PhysOf, Region, Of
<1> QED
  BY <1>1, <1>2

\* The next slave has nothing yet.
LEMMA NextHasNone ==
  ASSUME TypeInv, ImageInv, OwnerInv, SlaveDone \/ OutputsDone
  PROVE  /\ Of(slave', pc') = {} /\ PhysOf(slave', pc') = {} /\ Region(slave', pc') = {}
         /\ pc' = "in" /\ OutputsDone => \A s : Of(s, pc') = {}
<1>1. slave \in Int /\ \A m \in fmmus : m.slave \in Int
  <2>1. \A m \in fmmus : m.slave \in Slaves
    BY DEF TypeInv, FmmuType
  <2> QED
    BY <2>1 DEF TypeInv, Slaves
<1>2. CASE SlaveDone
  <2>1. pc' = pc /\ slave' = slave + 1 /\ ~OutputsDone
    BY <1>1, <1>2 DEF SlaveDone, OutputsDone, Mapping, Slaves
  <2>2. \A m \in fmmus : m.dir = pc' => m.slave # slave'
    <3> SUFFICES ASSUME NEW m \in fmmus, m.dir = pc', m.slave = slave' PROVE FALSE
      OBVIOUS
    <3>1. m.slave <= slave /\ m.slave = slave + 1
      BY <2>1 DEF OwnerInv
    <3> QED
      BY <1>1, <3>1
  <2>3. Of(slave', pc') = {}
    BY <2>2 DEF Of
  <2> QED
    BY <2>1, <2>3 DEF PhysOf, Region, Of
<1>3. CASE OutputsDone
  <2>1. \A s : Of(s, pc') = {}
    BY <1>3 DEF OutputsDone, ImageInv, Of
  <2> QED
    BY <2>1 DEF PhysOf, Region, Of
<1> QED
  BY <1>2, <1>3

LEMMA CoveredIs ==
  ASSUME TypeInv, dev' = dev, NEW s \in Slaves, NEW d \in Dirs
  PROVE  /\ Covered(s, d) <=> PhysOf(s, d) = SMsOf(s, d, Len(dev[s][d]))
         /\ Covered(s, d)' <=> PhysOf(s, d)' = SMsOf(s, d, Len(dev[s][d]))
<1>1. DOMAIN dev[s][d] = 1 .. Len(dev[s][d])
  BY SlaveIs
<1>2. SMsOf(s, d, Len(dev[s][d])) = UNION {SMArea(s, d, k) : k \in DOMAIN dev[s][d]}
  BY <1>1 DEF SMsOf
<1>3. UNION {SMArea(s, d, k)' : k \in DOMAIN dev'[s][d]} = UNION {SMArea(s, d, k) : k \in DOMAIN dev[s][d]}
  BY SameDev
<1> QED
  BY <1>2, <1>3 DEF Covered, PhysOf, Of

\* One FMMU of a plain slave maps the sync managers of its run, and no more.
LEMMA PhysMapped ==
  ASSUME TypeInv, WalkInv, PhysInv, MapFmmu, NEW m, Mapped1(m),
         Bytes(slave, pc) > 0, Plain(slave, pc)
  PROVE  LET n == Len(dev[slave][pc])
             U == SMbytes(slave, pc) IN
         /\ PhysOf(slave, pc) \cup Phys(m) = SMsOf(slave, pc, RunEnd)
         /\ FMMUdone' = U[RunEnd]
         /\ 8 * U[RunEnd] < Bits(slave, pc) => RunEnd # n /\ Gap(slave, pc, RunEnd)
         /\ 8 * U[RunEnd] >= Bits(slave, pc) => SMsOf(slave, pc, RunEnd) = SMsOf(slave, pc, n)
<1> DEFINE n == Len(dev[slave][pc])
           U == SMbytes(slave, pc)
           e == RunEnd
           b == Bits(slave, pc)
           B == Bytes(slave, pc)
           st == dev[slave][pc][SMc].start
<1>1. Mapping /\ Unmapped /\ slave \in Slaves /\ pc \in Dirs /\ BitCount < b /\ ByteCount = U[SMc - 1]
      /\ SMc \in 1 .. n /\ e \in SMc .. n /\ RunStops(e) /\ \A k \in SMc .. e - 1 : ~RunStops(k)
  BY RunIs DEF MapFmmu
<1>2. /\ n \in Nat /\ U \in [0 .. n -> Nat] /\ U[0] = 0 /\ b \in Nat
      /\ \A i, j \in 0 .. n : i <= j => U[i] <= U[j]
      /\ \A k \in 1 .. n : U[k] = U[k - 1] + SMlength(slave, pc, k) /\ SMlength(slave, pc, k) \in Nat
      /\ B = Len8(b) /\ B \in Nat
  BY <1>1, SlaveIs
<1>3. FMMUdone = U[SMc - 1] /\ (SMc > 1 => Gap(slave, pc, SMc - 1))
      /\ PhysOf(slave, pc) = SMsOf(slave, pc, SMc - 1)
  BY <1>1 DEF PhysInv
<1>4. B = U[n]
  BY DEF Plain
<1>5. SMc - 1 \in 0 .. n /\ e \in 0 .. n /\ e \in 1 .. n /\ n \in 0 .. n /\ SMc - 1 <= e
      /\ U[e] \in Nat /\ U[SMc - 1] \in Nat /\ U[n] \in Nat
      /\ U[SMc - 1] <= U[e] /\ U[e] <= U[n] /\ U[SMc - 1] <= U[n]
  <2>1. SMc - 1 \in 0 .. n /\ e \in 0 .. n /\ e \in 1 .. n /\ n \in 0 .. n /\ SMc - 1 <= e
        /\ SMc - 1 <= n /\ e <= n
    BY <1>1, <1>2
  <2> HIDE DEF U, n, e
  <2> QED
    BY <1>2, <2>1
<1>6. 8 * U[e] >= b => U[e] = U[n]
  <2> SUFFICES ASSUME 8 * U[e] >= b PROVE U[e] = U[n]
    OBVIOUS
  <2>1. 8 * Len8(b) <= b + 7 /\ U[n] = Len8(b)
    BY <1>2, <1>4, EighthIs
  <2>2. 8 * U[n] <= b + 7 /\ b \in Nat /\ U[e] \in Nat /\ U[n] \in Nat /\ U[e] <= U[n]
    <3>1. b \in Nat /\ U[e] \in Nat /\ U[n] \in Nat /\ U[e] <= U[n]
      BY <1>2, <1>5
    <3> HIDE DEF U, b, n, e
    <3> QED
      BY <2>1, <3>1, Zenon
  <2> HIDE DEF U, b, n, e
  <2> QED
    BY <2>2
<1>7. 8 * U[e] < b => e # n /\ Gap(slave, pc, e)
  <2> SUFFICES ASSUME 8 * U[e] < b PROVE e # n /\ Gap(slave, pc, e)
    OBVIOUS
  <2>1. 8 * U[n] >= b
    BY <1>1, SlaveIs
  <2>2. e # n /\ ~(8 * U[e] >= b)
    <3>1. b \in Nat /\ U[e] \in Nat
      BY <1>2, <1>5
    <3>2. ~(8 * U[e] >= b)
      <4> HIDE DEF U, b, n, e
      <4> QED
        BY <3>1
    <3> QED
      BY <2>1, <3>2
  <2> QED
    BY <1>1, <2>2 DEF RunStops
<1>8. m.length = Least(U[e], U[n] - U[SMc - 1]) /\ FMMUdone' = U[SMc - 1] + m.length
  <2>1. B # 0
    OBVIOUS
  <2>2. m.length = Least(U[e], B - FMMUdone) /\ FMMUdone' = FMMUdone + m.length
    BY <2>1 DEF Mapped1, BytesMapped
  <2> QED
    BY <1>3, <1>4, <2>2
<1>9. m.length = U[e] - U[SMc - 1]
  <2>1. CASE SMc = 1
    <3>1. U[SMc - 1] = 0
      BY <1>2, <2>1
    <3> HIDE DEF U, n, e
    <3> QED
      BY <1>5, <1>8, <3>1 DEF Least
  <2>2. CASE SMc # 1
    <3>1. SMc > 1 /\ SMc - 1 \in 1 .. n - 1
      BY <1>1, <1>2, <2>2
    <3>2. Gap(slave, pc, SMc - 1)
      BY <1>3, <3>1
    <3>3. e \in 1 .. n - 1 => ~Gap(slave, pc, e)
      <4>1. e # SMc - 1
        BY <1>1, <1>2
      <4> QED
        BY <3>1, <3>2, <4>1 DEF Plain
    <3>4. U[e] = U[n]
      <4>1. CASE e = n
        BY <4>1
      <4>2. CASE e # n
        <5>1. e \in 1 .. n - 1
          BY <1>2, <1>5, <4>2
        <5>2. 8 * U[e] >= b
          BY <1>1, <3>3, <4>2, <5>1 DEF RunStops
        <5> QED
          BY <1>6, <5>2
      <4> QED
        BY <4>1, <4>2
    <3> HIDE DEF U, n, e
    <3> QED
      BY <1>5, <1>8, <3>4 DEF Least
  <2> QED
    BY <2>1, <2>2
<1>10. FMMUdone' = U[e]
  <2>1. U[SMc - 1] + m.length = U[e]
    <3> HIDE DEF U, n, e
    <3> QED
      BY <1>5, <1>9
  <2> QED
    BY <1>8, <2>1
<1>11. Phys(m) = UNION {SMArea(slave, pc, k) : k \in SMc .. e}
  <2>1. \A k \in SMc .. e - 1 : ~Gap(slave, pc, k)
    BY <1>1 DEF RunStops
  <2>2. /\ st + U[e] = EndAddr(slave, pc, e) + U[SMc - 1]
        /\ UNION {SMArea(slave, pc, k) : k \in SMc .. e} = st .. EndAddr(slave, pc, e) - 1
    BY <1>1, <2>1, Contiguous
  <2>3. m.phys = st
    BY DEF Mapped1
  <2>4. st \in Nat /\ EndAddr(slave, pc, e) \in Nat
    BY <1>1, <1>5, SlaveIs
  <2>5. st + m.length - 1 = EndAddr(slave, pc, e) - 1
    <3>1. PICK x \in Nat, y \in Nat, z \in Nat, w \in Nat :
             x = st /\ y = U[e] /\ z = EndAddr(slave, pc, e) /\ w = U[SMc - 1]
      <4> HIDE DEF st, U, e
      <4> QED
        BY <1>5, <2>4, Zenon
    <3>2. x + y = z + w /\ m.length = y - w
      BY <1>9, <2>2, <3>1, Zenon
    <3>3. x + m.length - 1 = z - 1
      BY <3>2
    <3> QED
      BY <3>1, <3>3, Zenon
  <2>6. Phys(m) = st .. EndAddr(slave, pc, e) - 1
    BY <2>3, <2>5, Zenon DEF Phys
  <2> QED
    BY <2>2, <2>6
<1>12. PhysOf(slave, pc) \cup Phys(m) = SMsOf(slave, pc, e)
  <2>1. 1 .. e = (1 .. SMc - 1) \cup (SMc .. e)
    BY <1>1, <1>2
  <2>2. SMsOf(slave, pc, e) = SMsOf(slave, pc, SMc - 1) \cup UNION {SMArea(slave, pc, k) : k \in SMc .. e}
    BY <2>1 DEF SMsOf
  <2> QED
    BY <1>3, <1>11, <2>2
<1>13. 8 * U[e] >= b => SMsOf(slave, pc, e) = SMsOf(slave, pc, n)
  <2> SUFFICES ASSUME 8 * U[e] >= b PROVE SMsOf(slave, pc, e) = SMsOf(slave, pc, n)
    OBVIOUS
  <2>1. U[e] = U[n]
    BY <1>6
  <2>2. \A k \in e + 1 .. n : SMArea(slave, pc, k) = {}
    <3> SUFFICES ASSUME NEW k \in e + 1 .. n PROVE SMArea(slave, pc, k) = {}
      OBVIOUS
    <3>1. k \in 1 .. n /\ k - 1 \in 0 .. n /\ e <= k - 1 /\ k \in 0 .. n /\ k <= n
      BY <1>2, <1>5
    <3>2. U[e] <= U[k - 1] /\ U[k] <= U[n] /\ U[k - 1] \in Nat
          /\ U[k] = U[k - 1] + SMlength(slave, pc, k) /\ SMlength(slave, pc, k) \in Nat
      BY <1>2, <1>5, <3>1
    <3>3. SMlength(slave, pc, k) = 0
      <4> HIDE DEF U, n, e
      <4> QED
        BY <1>5, <2>1, <3>2
    <3>4. dev[slave][pc][k].start \in Nat
      BY <1>1, <3>1, SlaveIs
    <3> QED
      BY <3>3, <3>4 DEF SMArea, EndAddr
  <2>3. 1 .. n = (1 .. e) \cup (e + 1 .. n)
    BY <1>2, <1>5
  <2> QED
    BY <2>2, <2>3 DEF SMsOf
<1> QED
  BY <1>7, <1>10, <1>12, <1>13

LEMMA PhysStep ==
  ASSUME TypeInv, TypeInv', WalkInv, ImageInv, OwnerInv, PhysInv, [Next]_vars
  PROVE  PhysInv'
<1>0. dev' = dev
  BY StepsAre, NoFmmu DEF MapFmmu
<1>1. CASE MapFmmu
  <2>1. PICK m : Mapped1(m)
    BY <1>1, MapStep
  <2>2. fmmus' = fmmus \cup {m} /\ m.slave = slave /\ m.dir = pc /\ pc' = pc /\ slave' = slave
        /\ slave \in Slaves /\ pc \in Dirs /\ Mapping
        /\ SMc' = IF BitCount' < Bits(slave, pc) THEN RunEnd + 1 ELSE RunEnd
    BY <1>1, <2>1 DEF Mapped1, MapFmmu, Mapping, Dirs
  <2>3. ~SlaveDone
    BY <1>1 DEF MapFmmu, SlaveDone
  <2>4. \A s \in Slaves, d \in Dirs :
          Ready(s, d)' /\ Bytes(s, d)' > 0 /\ Plain(s, d)' => Covered(s, d)'
    <3> SUFFICES ASSUME NEW s \in Slaves, NEW d \in Dirs, Ready(s, d), Bytes(s, d) > 0, Plain(s, d)
                 PROVE  Covered(s, d)'
      BY <1>0, <2>3, ReadyStep, SameDev
    <3>1. ~(s = slave /\ d = pc)
      BY <2>2 DEF Ready, Dirs, TypeInv
    <3>2. PhysOf(s, d)' = PhysOf(s, d)
      BY <2>2, <3>1, OfStep
    <3>3. Covered(s, d)
      BY DEF PhysInv
    <3> QED
      BY <1>0, <3>2, <3>3, CoveredIs
  <2>5. ASSUME Bytes(slave, pc) > 0, Plain(slave, pc)
        PROVE  IF BitCount' < Bits(slave, pc)
               THEN /\ FMMUdone' = ByteCount' /\ (SMc' > 1 => Gap(slave, pc, SMc' - 1))
                    /\ PhysOf(slave, pc)' = SMsOf(slave, pc, SMc' - 1)
               ELSE PhysOf(slave, pc)' = SMsOf(slave, pc, Len(dev[slave][pc]))
    <3>1. /\ PhysOf(slave, pc) \cup Phys(m) = SMsOf(slave, pc, RunEnd)
          /\ FMMUdone' = SMbytes(slave, pc)[RunEnd]
          /\ 8 * SMbytes(slave, pc)[RunEnd] < Bits(slave, pc) => Gap(slave, pc, RunEnd)
          /\ 8 * SMbytes(slave, pc)[RunEnd] >= Bits(slave, pc)
               => SMsOf(slave, pc, RunEnd) = SMsOf(slave, pc, Len(dev[slave][pc]))
      BY <1>1, <2>1, <2>5, PhysMapped
    <3>2. ByteCount' = SMbytes(slave, pc)[RunEnd] /\ BitCount' = 8 * ByteCount' /\ RunEnd \in Nat
      BY <1>1, MapStep
    <3>3. PhysOf(slave, pc)' = SMsOf(slave, pc, RunEnd)
      <4>1. PhysOf(slave, pc)' = PhysOf(slave, pc) \cup Phys(m)
        <5>1. \A s, d : s = slave /\ d = pc => PhysOf(s, d)' = PhysOf(s, d) \cup Phys(m)
          BY <2>2, OfStep
        <5> QED
          BY <2>2, <5>1
      <4> QED
        BY <3>1, <4>1
    <3>4. CASE BitCount' < Bits(slave, pc)
      <4>1. SMc' = RunEnd + 1 /\ (RunEnd + 1) - 1 = RunEnd
        BY <2>2, <3>2, <3>4
      <4>2. SMc' - 1 = RunEnd
        BY <4>1, Zenon
      <4>3. 8 * SMbytes(slave, pc)[RunEnd] < Bits(slave, pc)
        BY <3>2, <3>4, Zenon
      <4> QED
        BY <3>1, <3>2, <3>3, <3>4, <4>2, <4>3
    <3>5. CASE ~(BitCount' < Bits(slave, pc))
      <4>1. 8 * SMbytes(slave, pc)[RunEnd] >= Bits(slave, pc)
        <5>1. Bits(slave, pc) \in Nat
          BY <2>2, SlaveIs
        <5>2. 8 * SMbytes(slave, pc)[RunEnd] \in Nat
          <6>1. ByteCount' \in Nat
            BY DEF TypeInv
          <6>2. PICK a \in Nat : a = ByteCount'
            BY <6>1
          <6>3. 8 * a \in Nat
            OBVIOUS
          <6> QED
            BY <3>2, <6>2, <6>3, Zenon
        <5>3. ~(8 * SMbytes(slave, pc)[RunEnd] < Bits(slave, pc))
          BY <3>2, <3>5, Zenon
        <5> QED
          BY <5>1, <5>2, <5>3
      <4> QED
        BY <3>1, <3>3, <3>5, <4>1
    <3> QED
      BY <3>4, <3>5
  <2>6. /\ Bytes(slave, pc)' = Bytes(slave, pc) /\ Plain(slave, pc)' = Plain(slave, pc)
        /\ Bits(slave, pc)' = Bits(slave, pc) /\ \A k : Gap(slave, pc, k)' = Gap(slave, pc, k)
        /\ \A k : SMsOf(slave, pc, k)' = SMsOf(slave, pc, k)
        /\ Gap(slave, pc, SMc - 1)' = Gap(slave, pc, SMc' - 1)
        /\ SMsOf(slave, pc, SMc - 1)' = SMsOf(slave, pc, SMc' - 1)
        /\ SMsOf(slave, pc, Len(dev[slave][pc]))' = SMsOf(slave, pc, Len(dev[slave][pc]))
    BY <1>0, <2>2, SameDev
  <2> QED
    BY <2>4, <2>5, <2>6 DEF PhysInv
<1>2. CASE SlaveDone \/ OutputsDone \/ InputsDone \/ CloseSegment \/ Cycle \/ UNCHANGED vars
  <2>1. fmmus' = fmmus
    BY <1>2, NoFmmu
  <2>2. \A s, d : PhysOf(s, d)' = PhysOf(s, d)
    BY <2>1 DEF PhysOf, Of
  <2>3. \A s \in Slaves, d \in Dirs : Covered(s, d)' <=> Covered(s, d)
    BY <1>0, <2>2, CoveredIs
  <2>4. \A s \in Slaves, d \in Dirs :
          Ready(s, d)' /\ Bytes(s, d)' > 0 /\ Plain(s, d)' => Covered(s, d)'
    <3> SUFFICES ASSUME NEW s \in Slaves, NEW d \in Dirs, Ready(s, d)', Bytes(s, d) > 0, Plain(s, d)
                 PROVE  Covered(s, d)
      BY <1>0, <2>3, SameDev
    <3>1. CASE Ready(s, d)
      BY <3>1 DEF PhysInv
    <3>2. CASE ~Ready(s, d)
      <4>1. SlaveDone /\ s = slave /\ d = pc
        BY <3>2, ReadyStep
      <4>2. Mapping /\ ~Unmapped /\ Bits(s, d) \in Nat /\ BitCount = 8 * ByteCount
            /\ Bits(s, d) > 7 /\ ByteCount \in Nat
        BY <4>1, SlaveIs DEF SlaveDone, WalkInv, TypeInv
      <4>3. ~(BitCount < Bits(s, d))
        <5> SUFFICES ASSUME BitCount < Bits(s, d) PROVE FALSE
          OBVIOUS
        <5>1. FMMUdone = ByteCount
          BY <4>1, <4>2 DEF PhysInv
        <5>2. ~(FMMUdone < Len8(Bits(s, d)))
          BY <4>1, <4>2 DEF Unmapped
        <5>3. 8 * Len8(Bits(s, d)) >= Bits(s, d) /\ Len8(Bits(s, d)) \in Nat
          BY <4>2, EighthIs
        <5> QED
          BY <4>2, <5>1, <5>2, <5>3
      <4> QED
        BY <1>0, <4>1, <4>2, <4>3, CoveredIs DEF PhysInv
    <3> QED
      BY <3>1, <3>2
  <2>5. (Mapping /\ Bytes(slave, pc) > 0 /\ Plain(slave, pc) =>
          IF BitCount < Bits(slave, pc)
          THEN /\ FMMUdone = ByteCount /\ (SMc > 1 => Gap(slave, pc, SMc - 1))
               /\ PhysOf(slave, pc) = SMsOf(slave, pc, SMc - 1)
          ELSE PhysOf(slave, pc) = SMsOf(slave, pc, Len(dev[slave][pc])))'
    <3>1. CASE (SlaveDone \/ OutputsDone) /\ Mapping'
      <4>1. slave' \in Slaves /\ pc' \in Dirs /\ AtStart' /\ PhysOf(slave', pc') = {}
        <5>1. AtStart'
          BY <3>1 DEF SlaveDone, OutputsDone, AtStart, WalkInv, Mapping, Slaves, walkVars
        <5> QED
          BY <3>1, <5>1, NextHasNone DEF Mapping, Dirs
      <4>2. SMc' = 1 /\ FMMUdone' = 0 /\ ByteCount' = 0 /\ BitCount' = 0 /\ 1 - 1 = 0 /\ ~(1 > 1)
        BY <4>1 DEF AtStart
      <4>3. SMsOf(slave', pc', SMc' - 1) = {}
        <5>1. SMsOf(slave', pc', 0) = {}
          BY DEF SMsOf
        <5>2. SMc' - 1 = 0
          BY <4>2, Zenon
        <5> QED
          BY <5>1, <5>2
      <4>4. Bytes(slave', pc') > 0 => BitCount' < Bits(slave', pc')
        <5>1. Bytes(slave', pc') \in Nat /\ Bits(slave', pc') \in Nat
              /\ (Bits(slave', pc') > 7 \/ Bytes(slave', pc') = 0)
          BY <4>1, SlaveIs
        <5> QED
          BY <4>2, <5>1
      <4>5. PhysOf(slave, pc)' = {} /\ SMsOf(slave, pc, SMc - 1)' = {}
            /\ Bits(slave, pc)' = Bits(slave', pc') /\ Bytes(slave, pc)' = Bytes(slave', pc')
        BY <1>0, <2>2, <4>1, <4>3, SameDev
      <4> QED
        BY <4>2, <4>4, <4>5
    <3>2. CASE ~Mapping'
      BY <3>2
    <3>3. CASE UNCHANGED vars
      <4>1. slave' = slave /\ pc' = pc /\ UNCHANGED walkVars /\ Mapping' = Mapping
        BY <3>3 DEF vars, mapVars, Mapping
      <4>2. /\ Bytes(slave, pc)' = Bytes(slave, pc) /\ Plain(slave, pc)' = Plain(slave, pc)
            /\ Bits(slave, pc)' = Bits(slave, pc)
            /\ Gap(slave, pc, SMc - 1)' = Gap(slave, pc, SMc - 1)
            /\ SMsOf(slave, pc, SMc - 1)' = SMsOf(slave, pc, SMc - 1)
            /\ SMsOf(slave, pc, Len(dev[slave][pc]))' = SMsOf(slave, pc, Len(dev[slave][pc]))
            /\ PhysOf(slave, pc)' = PhysOf(slave, pc)
        BY <1>0, <2>2, <4>1, SameDev DEF walkVars
      <4> QED
        BY <4>1, <4>2 DEF PhysInv, walkVars
    <3>4. CASE InputsDone \/ CloseSegment \/ Cycle
      BY <3>4, CycleSteps DEF InputsDone, CloseSegment, Mapping
    <3> QED
      BY <1>2, <3>1, <3>2, <3>3, <3>4
  <2> QED
    BY <2>4, <2>5 DEF PhysInv
<1> QED
  BY <1>1, <1>2, StepsAre

-----------------------------------------------------------------------------
(* The hands                                                               *)

LEMMA HandIs ==
  ASSUME TypeInv, NEW s \in Slaves, NEW d \in Dirs, IsHand(s)
  PROVE  Width(d) \in Nat \ {0} /\ Bits(s, d) = 8 * Width(d) /\ Bytes(s, d) = Width(d)
         /\ Len8(Bits(s, d)) = Width(d)
<1>1. Width(d) \in Nat \ {0} /\ Bits(s, d) = 8 * Width(d)
  BY DEF Width, IsHand, Dirs
<1>2. PICK w \in Nat \ {0} : w = Width(d)
  BY <1>1
<1>3. Len8(8 * w) = w /\ 8 * w > 7
  BY DEF Len8
<1>4. Bits(s, d) = 8 * w
  BY <1>1, <1>2, Zenon
<1>5. Bits(s, d) > 7 /\ Len8(Bits(s, d)) = w
  BY <1>3, <1>4, Zenon
<1>6. Bytes(s, d) = Len8(Bits(s, d))
  BY <1>5, SlaveIs
<1> QED
  BY <1>1, <1>2, <1>5, <1>6

LEMMA NextStart ==
  ASSUME TypeInv, NEW s \in Nat, NEW d \in Dirs
  PROVE  /\ Start(s, d) \in Int /\ Start(s + 1, d) = Start(s, d) + Width(d)
         /\ Start(1, d) = IF d = "out" THEN 0 ELSE Obytes
<1>1. PICK w \in Nat : w = Width(d)
  BY DEF Width, Dirs
<1>2. PICK o \in Nat : o = IF d = "out" THEN 0 ELSE Obytes
  BY DEF TypeInv
<1>3. w * ((s + 1) - 1) = w * (s - 1) + w /\ w * (s - 1) \in Int /\ w * (1 - 1) = 0
  <2>1. s - 1 \in Int /\ (s + 1) - 1 = (s - 1) + 1 /\ 1 - 1 = 0
    OBVIOUS
  <2>2. PICK t \in Int : t = s - 1
    BY <2>1
  <2>3. w * (t + 1) = w * t + w /\ w * t \in Int /\ w * 0 = 0
    OBVIOUS
  <2> QED
    BY <2>1, <2>2, <2>3, Zenon
<1>4. PICK p \in Int : p = w * (s - 1)
  BY <1>3
<1>5. o + (p + w) = (o + p) + w /\ o + p \in Int /\ o + 0 = o
  OBVIOUS
<1>6. Start(s, d) = o + p /\ Start(s + 1, d) = o + (p + w) /\ Start(1, d) = o + 0
  BY <1>1, <1>2, <1>3, <1>4, Zenon DEF Start
<1> QED
  BY <1>1, <1>2, <1>5, <1>6, Zenon

LEMMA HandStep ==
  ASSUME TypeInv, TypeInv', WalkInv, ImageInv, OwnerInv, HandInv, [Next]_vars
  PROVE  HandInv'
<1>0. dev' = dev /\ slave \in Int /\ slave >= 1 /\ N \in Int /\ LogAddr \in Nat /\ FMMUdone \in Nat
      /\ Obytes \in Nat
  <2>1. dev' = dev
    BY StepsAre, NoFmmu DEF MapFmmu
  <2> QED
    BY <2>1 DEF TypeInv
<1>a. \A s, d : (Obytes' = Obytes \/ d = "out") => Start(s, d)' = Start(s, d)
  BY DEF Start, Width
<1>b. \A s : Hands(s)' = Hands(s)
  BY <1>0, SameDev
<1>1. CASE MapFmmu
  <2>1. PICK m : Mapped1(m)
    BY <1>1, MapStep
  <2>2. fmmus' = fmmus \cup {m} /\ m.slave = slave /\ m.dir = pc /\ pc' = pc /\ slave' = slave
        /\ slave \in Slaves /\ pc \in Dirs /\ Mapping /\ Mapping' /\ Obytes' = Obytes
        /\ m.length \in Nat /\ m.from \in Nat
    BY <1>1, <2>1 DEF Mapped1, MapFmmu, Mapping, Dirs, sumVars, FmmuType
  <2>3. ~SlaveDone
    BY <1>1 DEF MapFmmu, SlaveDone
  <2>4. ASSUME Hands(slave)
        PROVE  /\ BitPos' = 0 /\ LogAddr' = Start(slave, pc) + FMMUdone'
               /\ Region(slave, pc)' = Start(slave, pc) .. Start(slave, pc) + FMMUdone' - 1
    <3>1. slave <= N /\ slave \in 1 .. slave /\ Least(slave, N) = slave
      BY <1>0, <2>2 DEF Slaves, Least
    <3>2. IsHand(slave)
      BY <2>4, <3>1 DEF Hands
    <3>3. Bytes(slave, pc) # 0
      BY <2>2, <3>2, HandIs
    <3>4. BitPos = 0 /\ LogAddr = Start(slave, pc) + FMMUdone
          /\ Region(slave, pc) = Start(slave, pc) .. Start(slave, pc) + FMMUdone - 1
      BY <2>2, <2>4, <3>1 DEF HandInv
    <3>5. BytesMapped(m)
      BY <2>1, <3>3 DEF Mapped1
    <3>6. m.from = LogAddr /\ BitPos' = 0 /\ LogAddr' = LogAddr + m.length
          /\ FMMUdone' = FMMUdone + m.length
      BY <3>4, <3>5 DEF BytesMapped
    <3>7. PICK a \in Int : a = Start(slave, pc)
      <4>1. slave \in Nat
        BY <1>0
      <4> QED
        BY <2>2, <4>1, NextStart
    <3>8. LogAddr + m.length = a + (FMMUdone + m.length)
          /\ (a .. a + FMMUdone - 1) \cup (LogAddr .. LogAddr + m.length - 1)
                = a .. a + (FMMUdone + m.length) - 1
      <4>1. LogAddr = a + FMMUdone
        BY <3>4, <3>7, Zenon
      <4> QED
        BY <1>0, <2>2, <4>1
    <3>9. Region(slave, pc)' = Region(slave, pc) \cup (LogAddr .. LogAddr + m.length - 1)
      <4>1. Area(m) = LogAddr .. LogAddr + m.length - 1
        BY <3>6 DEF Area
      <4>2. \A s, d : s = slave /\ d = pc => Region(s, d)' = Region(s, d) \cup Area(m)
        BY <2>2, OfStep
      <4>3. Region(slave, pc)' = Region(slave, pc) \cup Area(m)
        BY <2>2, <4>2
      <4> QED
        BY <4>1, <4>3
    <3>10. LogAddr' = a + (FMMUdone + m.length) /\ FMMUdone' = FMMUdone + m.length
      BY <3>6, <3>8, Zenon
    <3>11. Region(slave, pc)' = a .. a + (FMMUdone + m.length) - 1
      BY <3>4, <3>7, <3>8, <3>9, Zenon
    <3> QED
      BY <3>6, <3>7, <3>10, <3>11, Zenon
  <2>5. Hands(Least(slave, N)) => Hands(slave)
    <3>1. Least(slave, N) = slave
      BY <1>0, <2>2 DEF Slaves, Least
    <3> QED
      BY <3>1
  <2>6. \A s \in Slaves, d \in Dirs :
          (Ready(s, d) /\ Hands(s) => Region(s, d) = Start(s, d) .. Start(s, d) + Width(d) - 1)'
    <3> SUFFICES ASSUME NEW s \in Slaves, NEW d \in Dirs, Ready(s, d), Hands(s)
                 PROVE  Region(s, d)' = Start(s, d) .. Start(s, d) + Width(d) - 1
      BY <1>a, <1>b, <2>2, <2>3, ReadyStep DEF Width
    <3>1. ~(s = slave /\ d = pc)
      BY <2>2 DEF Ready, Dirs, TypeInv
    <3>2. Region(s, d)' = Region(s, d)
      BY <2>2, <3>1, OfStep
    <3> QED
      BY <3>2 DEF HandInv
  <2>7. (pc \in Dirs /\ Hands(Least(slave, N)) => BitPos = 0 /\ LogAddr = Start(slave, pc) + FMMUdone)'
    <3>1. Start(slave, pc)' = Start(slave, pc) /\ Hands(Least(slave, N))' = Hands(Least(slave, N))
      BY <1>a, <1>b, <2>2
    <3> QED
      BY <2>4, <2>5, <3>1
  <2>8. (Mapping /\ Hands(slave) =>
           Region(slave, pc) = Start(slave, pc) .. Start(slave, pc) + FMMUdone - 1)'
    <3>1. Start(slave, pc)' = Start(slave, pc) /\ Hands(slave)' = Hands(slave)
      BY <1>a, <1>b, <2>2
    <3> QED
      BY <2>4, <3>1
  <2>9. (pc # "out" /\ Hands(N) => Obytes = WriteNum * N)'
    BY <1>b, <2>2 DEF HandInv
  <2> QED
    BY <2>6, <2>7, <2>8, <2>9 DEF HandInv
<1>2. CASE SlaveDone
  <2>1. Mapping /\ ~Unmapped /\ slave \in Slaves /\ pc \in Dirs /\ pc' = pc /\ slave' = slave + 1
        /\ LogAddr' = LogAddr /\ BitPos' = BitPos /\ Obytes' = Obytes /\ fmmus' = fmmus
        /\ FMMUdone' = 0
    BY <1>2 DEF SlaveDone, Mapping, Dirs
  <2>2. \A s, d : Region(s, d)' = Region(s, d)
    BY <2>1 DEF Region
  <2>3. ASSUME Hands(slave)
        PROVE  /\ BitPos = 0 /\ LogAddr = Start(slave + 1, pc)
               /\ Region(slave, pc) = Start(slave, pc) .. Start(slave, pc) + Width(pc) - 1
    <3>1. slave <= N /\ slave \in 1 .. slave /\ Least(slave, N) = slave /\ slave \in Nat
      BY <1>0, <2>1 DEF Slaves, Least
    <3>2. IsHand(slave)
      BY <2>3, <3>1 DEF Hands
    <3>3. BitPos = 0 /\ LogAddr = Start(slave, pc) + FMMUdone
          /\ Region(slave, pc) = Start(slave, pc) .. Start(slave, pc) + FMMUdone - 1
      BY <2>1, <2>3, <3>1 DEF HandInv
    <3>4. Width(pc) \in Nat \ {0} /\ Bits(slave, pc) = 8 * Width(pc) /\ Bytes(slave, pc) = Width(pc)
          /\ Len8(Bits(slave, pc)) = Width(pc)
      BY <2>1, <3>2, HandIs
    <3>5. FMMUdone <= Width(pc)
      BY <2>1, <3>4 DEF WalkInv
    <3>6. ~(FMMUdone < Width(pc))
      BY <2>1, <3>4 DEF Unmapped
    <3>7. FMMUdone = Width(pc)
      BY <1>0, <3>4, <3>5, <3>6
    <3> QED
      BY <2>1, <3>1, <3>3, <3>7, NextStart
  <2>4. Hands(Least(slave + 1, N)) => Hands(slave)
    <3>1. slave <= Least(slave + 1, N) /\ Least(slave + 1, N) \in Int
      BY <1>0, <2>1 DEF Slaves, Least
    <3>2. \A t \in 1 .. slave : t \in 1 .. Least(slave + 1, N)
      BY <1>0, <3>1
    <3> QED
      BY <3>2 DEF Hands
  <2>5. (pc \in Dirs /\ Hands(Least(slave, N)) => BitPos = 0 /\ LogAddr = Start(slave, pc) + FMMUdone)'
    <3>1. Hands(Least(slave, N))' = Hands(Least(slave + 1, N))
          /\ Start(slave, pc)' = Start(slave + 1, pc)
      BY <1>a, <1>b, <2>1
    <3>2. Start(slave + 1, pc) + 0 = Start(slave + 1, pc)
      <4>1. slave + 1 \in Nat
        BY <1>0
      <4>2. Start(slave + 1, pc) \in Int
        BY <2>1, <4>1, NextStart
      <4> QED
        BY <4>2
    <3>3. Hands(Least(slave + 1, N)) =>
             BitPos = 0 /\ LogAddr = Start(slave + 1, pc) + 0
      BY <2>3, <2>4, <3>2
    <3> QED
      BY <2>1, <3>1, <3>3, Zenon
  <2>6. (Mapping /\ Hands(slave) =>
           Region(slave, pc) = Start(slave, pc) .. Start(slave, pc) + FMMUdone - 1)'
    <3>1. Region(slave', pc') = {}
      BY <1>2, NextHasNone
    <3>2. Region(slave, pc)' = {}
      BY <2>2, <3>1
    <3>3. PICK a \in Int : a = Start(slave', pc')
      <4>1. slave + 1 \in Nat
        BY <1>0
      <4> QED
        BY <2>1, <4>1, NextStart
    <3>4. a .. a + 0 - 1 = {}
      OBVIOUS
    <3>5. Start(slave, pc)' = a
      BY <1>a, <2>1, <3>3
    <3> QED
      BY <2>1, <3>2, <3>4, <3>5, Zenon
  <2>7. \A s \in Slaves, d \in Dirs :
          (Ready(s, d) /\ Hands(s) => Region(s, d) = Start(s, d) .. Start(s, d) + Width(d) - 1)'
    <3> SUFFICES ASSUME NEW s \in Slaves, NEW d \in Dirs, Ready(s, d)', Hands(s)
                 PROVE  Region(s, d) = Start(s, d) .. Start(s, d) + Width(d) - 1
      BY <1>a, <1>b, <2>1, <2>2 DEF Width
    <3>1. Ready(s, d) \/ (s = slave /\ d = pc)
      BY <1>2, ReadyStep
    <3> QED
      BY <2>3, <3>1 DEF HandInv
  <2>8. (pc # "out" /\ Hands(N) => Obytes = WriteNum * N)'
    BY <1>b, <2>1 DEF HandInv
  <2> QED
    BY <2>5, <2>6, <2>7, <2>8 DEF HandInv
<1>3. CASE OutputsDone
  <2>1. pc = "out" /\ pc' = "in" /\ slave' = 1 /\ slave > N /\ fmmus' = fmmus /\ ~Mapping
        /\ BitPos' = 0 /\ Obytes' = LogAddr' /\ FMMUdone' = FMMUdone
        /\ LogAddr' = IF BitPos > 0 THEN LogAddr + 1 ELSE LogAddr
    BY <1>3 DEF OutputsDone, Pad, Mapping, Slaves, walkVars
  <2>2. \A s, d : Region(s, d)' = Region(s, d)
    BY <2>1 DEF Region
  <2>3. FMMUdone = 0 /\ slave = N + 1 /\ ~SlaveDone
    BY <1>0, <2>1 DEF WalkInv, AtStart, TypeInv, SlaveDone
  <2>4. Start(1, "in")' = Obytes'
    <3>1. PICK o \in Nat : o = Obytes'
      BY DEF TypeInv
    <3>2. PICK w \in Nat : w = Width("in")
      BY DEF Width
    <3>3. o + w * (1 - 1) = o
      OBVIOUS
    <3>4. Start(1, "in")' = o + w * (1 - 1)
      BY <3>1, <3>2, Zenon DEF Start, Width
    <3> QED
      BY <3>1, <3>3, <3>4, Zenon
  <2>5. (pc \in Dirs /\ Hands(Least(slave, N)) => BitPos = 0 /\ LogAddr = Start(slave, pc) + FMMUdone)'
    <3>1. PICK o \in Nat : o = Obytes' /\ o + 0 = o
      BY DEF TypeInv
    <3>2. Start(slave, pc)' = o /\ LogAddr' = o /\ FMMUdone' = 0
      BY <2>1, <2>3, <2>4, <3>1
    <3> QED
      BY <2>1, <3>1, <3>2, Zenon
  <2>6. (Mapping /\ Hands(slave) =>
           Region(slave, pc) = Start(slave, pc) .. Start(slave, pc) + FMMUdone - 1)'
    <3>1. Region(slave', pc') = {}
      BY <1>3, NextHasNone
    <3>2. Region(slave, pc)' = {}
      BY <2>2, <3>1
    <3>3. PICK o \in Nat : o = Obytes'
      BY DEF TypeInv
    <3>4. o .. o + 0 - 1 = {}
      OBVIOUS
    <3>5. Start(slave, pc)' = o /\ FMMUdone' = 0
      BY <2>1, <2>3, <2>4, <3>3
    <3> QED
      BY <3>2, <3>4, <3>5, Zenon
  <2>7. \A s \in Slaves, d \in Dirs :
          (Ready(s, d) /\ Hands(s) => Region(s, d) = Start(s, d) .. Start(s, d) + Width(d) - 1)'
    <3> SUFFICES ASSUME NEW s \in Slaves, NEW d \in Dirs, Ready(s, d), Hands(s)
                 PROVE  Region(s, d) = Start(s, d)' .. Start(s, d)' + Width(d) - 1
      BY <1>b, <2>2, <2>3, ReadyStep DEF Width
    <3>1. d = "out"
      BY <2>1 DEF Ready, Dirs
    <3> QED
      BY <1>a, <3>1 DEF HandInv
  <2>8. (pc # "out" /\ Hands(N) => Obytes = WriteNum * N)'
    <3> SUFFICES ASSUME Hands(N) PROVE Obytes' = WriteNum * N
      BY <1>b
    <3>1. Least(slave, N) = N
      BY <1>0, <2>3 DEF Least
    <3>2. BitPos = 0 /\ LogAddr = Start(N + 1, "out") + 0
      BY <2>1, <2>3, <3>1 DEF HandInv, Dirs
    <3>3. Start(N + 1, "out") + 0 = WriteNum * N
      <4>1. WriteNum * ((N + 1) - 1) = WriteNum * N
        <5>1. (N + 1) - 1 = N
          OBVIOUS
        <5> QED
          BY <5>1, Zenon
      <4>2. PICK x \in Int : x = WriteNum * N
        OBVIOUS
      <4>3. (0 + x) + 0 = x
        OBVIOUS
      <4>4. Start(N + 1, "out") = 0 + x
        BY <4>1, <4>2, Zenon DEF Start, Width
      <4> QED
        BY <4>2, <4>3, <4>4, Zenon
    <3>4. Obytes' = LogAddr
      BY <2>1, <3>2
    <3> QED
      BY <3>2, <3>3, <3>4, Zenon
  <2> QED
    BY <2>5, <2>6, <2>7, <2>8 DEF HandInv
<1>4. CASE InputsDone \/ CloseSegment \/ Cycle \/ UNCHANGED vars
  <2>1. fmmus' = fmmus /\ Obytes' = Obytes
    BY <1>4, CycleSteps DEF InputsDone, CloseSegment, vars, mapVars, sumVars
  <2>2. \A s, d : Region(s, d)' = Region(s, d) /\ Start(s, d)' = Start(s, d)
    BY <1>a, <2>1 DEF Region
  <2>3. pc' # "out" => pc # "out"
    BY <1>4, CycleSteps DEF InputsDone, CloseSegment, vars
  <2>4. (pc' \notin Dirs /\ ~Mapping') \/ UNCHANGED vars
    BY <1>4, CycleSteps DEF InputsDone, CloseSegment, Mapping, Dirs
  <2>5. ~SlaveDone
    <3>1. CASE UNCHANGED vars
      <4>1. slave' = slave
        BY <3>1 DEF vars, mapVars
      <4> QED
        BY <1>0, <4>1 DEF SlaveDone
    <3>2. CASE InputsDone \/ CloseSegment \/ Cycle
      BY <3>2, CycleSteps DEF InputsDone, CloseSegment, SlaveDone, Mapping, Slaves
    <3> QED
      BY <1>4, <3>1, <3>2
  <2>6. \A s \in Slaves, d \in Dirs :
          (Ready(s, d) /\ Hands(s) => Region(s, d) = Start(s, d) .. Start(s, d) + Width(d) - 1)'
    <3> SUFFICES ASSUME NEW s \in Slaves, NEW d \in Dirs, Ready(s, d), Hands(s)
                 PROVE  Region(s, d) = Start(s, d) .. Start(s, d) + Width(d) - 1
      BY <1>b, <2>2, <2>5, ReadyStep DEF Width
    <3> QED
      BY DEF HandInv
  <2>7. (pc # "out" /\ Hands(N) => Obytes = WriteNum * N)'
    BY <1>b, <2>1, <2>3 DEF HandInv
  <2>8. CASE UNCHANGED vars
    <3>1. slave' = slave /\ pc' = pc /\ LogAddr' = LogAddr /\ BitPos' = BitPos /\ FMMUdone' = FMMUdone
          /\ Mapping' = Mapping
      BY <2>8 DEF vars, mapVars, walkVars, Mapping
    <3>2. Region(slave, pc)' = Region(slave, pc) /\ Start(slave, pc)' = Start(slave, pc)
          /\ Hands(slave)' = Hands(slave) /\ Hands(Least(slave, N))' = Hands(Least(slave, N))
      BY <1>b, <2>2, <3>1
    <3> QED
      BY <2>6, <2>7, <3>1, <3>2 DEF HandInv
  <2>9. CASE pc' \notin Dirs /\ ~Mapping'
    BY <2>6, <2>7, <2>9 DEF HandInv
  <2> QED
    BY <2>4, <2>8, <2>9
<1> QED
  BY <1>1, <1>2, <1>3, <1>4, StepsAre

-----------------------------------------------------------------------------
(* The frames                                                              *)

LEMMA FramesAre ==
  ASSUME NEW cmd \in {"LRW", "LRD", "LWR"}, NEW origin \in Nat, NEW lens \in Seq(Nat)
  PROVE  LET F == Frames(cmd, origin, lens) IN
         /\ F \in Seq(FrameType) /\ Len(F) = Len(lens) /\ DOMAIN F = 1 .. Len(lens)
         /\ \A k \in 1 .. Len(lens) : /\ F[k].cmd = cmd
                                      /\ F[k].from = origin + Upto(lens)[k - 1]
                                      /\ F[k].from + F[k].len = origin + Upto(lens)[k]
         /\ \A j, k \in 1 .. Len(lens) : j < k => Later(F[j], F[k])
<1> DEFINE F == Frames(cmd, origin, lens)
           n == Len(lens)
           U == Upto(lens)
<1>1. n \in Nat /\ DOMAIN lens = 1 .. n /\ lens \in [1 .. n -> Nat]
  BY LenProperties
<1>2. U \in [0 .. n -> Nat] /\ (\A k \in 1 .. n : U[k] = U[k - 1] + lens[k])
      /\ \A i, j \in 0 .. n : i <= j => U[i] <= U[j]
  BY UptoSeq
<1>3. \A k \in 1 .. n : U[k - 1] \in Nat /\ U[k] \in Nat /\ lens[k] \in Nat
  <2> TAKE k \in 1 .. n
  <2>1. k - 1 \in 0 .. n /\ k \in 0 .. n
    BY <1>1
  <2> HIDE DEF U, n
  <2> QED
    BY <1>1, <1>2, <2>1
<1>4. F = [k \in 1 .. n |-> [cmd |-> cmd, len |-> lens[k], from |-> origin + U[k - 1]]]
  BY <1>1 DEF Frames
<1> HIDE DEF F, U, n
<1>5. \A k \in 1 .. n : /\ F[k] = [cmd |-> cmd, len |-> lens[k], from |-> origin + U[k - 1]]
                        /\ F[k] \in FrameType
  BY <1>3, <1>4 DEF FrameType
<1>6. F \in Seq(FrameType) /\ Len(F) = n /\ DOMAIN F = 1 .. n
  <2>1. F \in [1 .. n -> FrameType]
    BY <1>4, <1>5
  <2> QED
    BY <1>1, <2>1
<1>7. \A k \in 1 .. n : /\ F[k].cmd = cmd /\ F[k].from = origin + U[k - 1] /\ F[k].len = lens[k]
                        /\ F[k].from + F[k].len = origin + U[k]
  <2> TAKE k \in 1 .. n
  <2>1. F[k].cmd = cmd /\ F[k].from = origin + U[k - 1] /\ F[k].len = lens[k]
    <3>1. F[k] = [cmd |-> cmd, len |-> lens[k], from |-> origin + U[k - 1]]
      BY <1>5
    <3> QED
      BY <3>1
  <2>2. (origin + U[k - 1]) + lens[k] = origin + U[k]
    <3>1. U[k] = U[k - 1] + lens[k] /\ U[k - 1] \in Nat /\ lens[k] \in Nat
      BY <1>2, <1>3
    <3> QED
      BY <3>1
  <2> QED
    BY <2>1, <2>2
<1>8. \A j, k \in 1 .. n : j < k => Later(F[j], F[k])
  <2> SUFFICES ASSUME NEW j \in 1 .. n, NEW k \in 1 .. n, j < k
               PROVE  F[j].from + F[j].len <= F[k].from
    BY DEF Later
  <2>1. j \in 0 .. n /\ k - 1 \in 0 .. n /\ j <= k - 1
    BY <1>1
  <2>2. U[j] <= U[k - 1] /\ U[j] \in Nat /\ U[k - 1] \in Nat
    BY <1>2, <1>3, <2>1
  <2>3. origin + U[j] <= origin + U[k - 1]
    BY <2>2
  <2> QED
    BY <1>7, <2>3
<1> QED
  BY <1>6, <1>7, <1>8 DEF F, U, n

LEMMA FramedJoin ==
  ASSUME NEW F, NEW G, Framed(F), Framed(G),
         \A j \in DOMAIN F : F[j].cmd = "LRD", \A k \in DOMAIN G : G[k].cmd = "LWR"
  PROVE  Framed(F \o G)
<1> DEFINE H == F \o G
           a == Len(F)
           b == Len(G)
<1>1. F \in Seq(FrameType) /\ G \in Seq(FrameType)
  BY DEF Framed
<1>2. a \in Nat /\ b \in Nat /\ DOMAIN F = 1 .. a /\ DOMAIN G = 1 .. b
  BY <1>1, LenProperties
<1>3. H \in Seq(FrameType) /\ Len(H) = a + b
      /\ \A i \in 1 .. a + b : H[i] = IF i <= a THEN F[i] ELSE G[i - a]
  BY <1>1, ConcatProperties
<1>4. DOMAIN H = 1 .. a + b
  BY <1>3, LenProperties
<1> HIDE DEF H, a, b
<1>5. \A i \in DOMAIN H : \/ i \in DOMAIN F /\ H[i] = F[i] /\ i <= a
                          \/ i - a \in DOMAIN G /\ H[i] = G[i - a] /\ i > a
  BY <1>2, <1>3, <1>4
<1>6. \A i \in DOMAIN H : Edges(H[i]) \subseteq Cuts \cup {Obytes}
  BY <1>5 DEF Framed
<1>7. \A i, k \in DOMAIN H : i < k => Later(H[i], H[k])
  <2> SUFFICES ASSUME NEW i \in DOMAIN H, NEW k \in DOMAIN H, i < k PROVE Later(H[i], H[k])
    OBVIOUS
  <2>0. i \in Int /\ k \in Int
    BY <1>4
  <2>1. CASE i <= a /\ k <= a
    <3>1. i \in DOMAIN F /\ k \in DOMAIN F /\ H[i] = F[i] /\ H[k] = F[k]
      BY <1>2, <1>5, <2>0, <2>1
    <3> QED
      BY <3>1 DEF Framed
  <2>2. CASE i <= a /\ k > a
    <3>1. i \in DOMAIN F /\ k - a \in DOMAIN G /\ H[i] = F[i] /\ H[k] = G[k - a]
      BY <1>2, <1>5, <2>0, <2>2
    <3>2. H[i].cmd = "LRD" /\ H[k].cmd = "LWR"
      BY <3>1
    <3> QED
      BY <3>2 DEF Later
  <2>3. CASE i > a
    <3>1. i - a \in DOMAIN G /\ k - a \in DOMAIN G /\ H[i] = G[i - a] /\ H[k] = G[k - a]
      BY <1>2, <1>5, <2>0, <2>3
    <3>2. i - a < k - a
      BY <1>2, <2>0
    <3> QED
      BY <3>1, <3>2 DEF Framed
  <2> QED
    BY <1>2, <2>0, <2>1, <2>2, <2>3
<1> QED
  BY <1>3, <1>6, <1>7 DEF Framed, H

\* The sums of the lengths from an offset within a segment on.
LEMMA Shifted ==
  ASSUME NEW v \in Seq(Nat), NEW i \in 1 .. Len(v), NEW off \in 0 .. v[i]
  PROVE  LET w == <<v[i] - off>> \o SubSeq(v, i + 1, Len(v)) IN
         /\ w \in Seq(Nat) /\ Len(w) = Len(v) - i + 1
         /\ \A k \in 1 .. Len(w) : (Upto(v)[i - 1] + off) + Upto(w)[k] = Upto(v)[(i - 1) + k]
<1> DEFINE n == Len(v)
           f == <<v[i] - off>>
           r == SubSeq(v, i + 1, n)
           w == f \o r
           base == Upto(v)[i - 1] + off
<1>1. n \in Nat /\ i \in 1 .. n /\ v \in [1 .. n -> Nat] /\ v[i] \in Nat
      /\ v[i] - off \in Nat
  <2>1. n \in Nat /\ i \in 1 .. n /\ v \in [1 .. n -> Nat]
    BY LenProperties
  <2>2. v[i] \in Nat
    BY <2>1
  <2> QED
    BY <2>1, <2>2
<1>2. f \in Seq(Nat) /\ Len(f) = 1 /\ f[1] = v[i] - off
  BY <1>1
<1>3. r \in Seq(Nat) /\ Len(r) = n - i /\ \A k \in 1 .. n - i : r[k] = v[i + k]
  <2>1. \A k \in i + 1 .. n : v[k] \in Nat
    BY <1>1
  <2>2. /\ r \in Seq(Nat) /\ Len(r) = (IF i + 1 <= n THEN n - (i + 1) + 1 ELSE 0)
        /\ \A k \in 1 .. n - (i + 1) + 1 : r[k] = v[(i + 1) + k - 1]
    <3> i + 1 \in Int /\ n \in Int
      BY <1>1
    <3> HIDE DEF n
    <3> QED
      BY <2>1, SubSeqProperties
  <2> HIDE DEF r, n
  <2>3. i \in Nat /\ i <= n
    BY <1>1
  <2>4. n - (i + 1) + 1 = n - i /\ (~(i + 1 <= n) => n - i = 0)
    BY <1>1, <2>3
  <2>5. \A k \in 1 .. n - i : (i + 1) + k - 1 = i + k
    BY <1>1, <2>3
  <2>6. \A k \in 1 .. n - i : r[k] = v[i + k]
    <3> TAKE k \in 1 .. n - i
    <3>1. r[k] = v[(i + 1) + k - 1]
      BY <2>2, <2>4
    <3> QED
      BY <2>5, <3>1
  <2>7. Len(r) = n - i
    BY <2>2, <2>4
  <2> QED
    BY <2>2, <2>6, <2>7
<1> HIDE DEF n, f, r
<1>4. w \in Seq(Nat) /\ Len(w) = 1 + (n - i)
      /\ \A k \in 1 .. 1 + (n - i) : w[k] = IF k <= 1 THEN f[k] ELSE r[k - 1]
  <2>1. w \in Seq(Nat) /\ Len(w) = Len(f) + Len(r)
        /\ \A k \in 1 .. Len(f) + Len(r) : w[k] = IF k <= Len(f) THEN f[k] ELSE r[k - Len(f)]
    BY <1>2, <1>3, ConcatProperties
  <2>2. Len(f) = 1 /\ Len(r) = n - i
    BY <1>2, <1>3
  <2> HIDE DEF w
  <2> QED
    BY <2>1, <2>2
<1> HIDE DEF w
<1>5. Upto(v) \in [0 .. n -> Nat] /\ \A k \in 1 .. n : Upto(v)[k] = Upto(v)[k - 1] + v[k]
  BY UptoSeq DEF n
<1>6. Upto(w) \in [0 .. Len(w) -> Nat] /\ Upto(w)[0] = 0
      /\ \A k \in 1 .. Len(w) : Upto(w)[k] = Upto(w)[k - 1] + w[k]
  BY <1>4, UptoSeq
<1>7. Len(w) \in Nat /\ Len(w) = n - i + 1 /\ base \in Nat /\ Upto(v)[i - 1] \in Nat
  <2>1. i - 1 \in 0 .. n
    BY <1>1
  <2>2. Upto(v)[i - 1] \in Nat
    BY <1>5, <2>1
  <2>3. off \in Nat
    BY <1>1
  <2>4. 1 + (n - i) = n - i + 1 /\ 1 + (n - i) \in Nat
    BY <1>1
  <2>5. base \in Nat
    BY <2>2, <2>3
  <2> QED
    BY <1>4, <2>2, <2>4, <2>5, Zenon
<1> DEFINE S == {k \in 1 .. Len(w) : base + Upto(w)[k] # Upto(v)[(i - 1) + k]}
<1>8. S = {}
  <2> SUFFICES ASSUME S # {} PROVE FALSE
    OBVIOUS
  <2>1. PICK k \in S : \A l \in S : k <= l
    <3> S \subseteq Nat
      BY <1>7
    <3> HIDE DEF S
    <3> QED
      BY HasLeast
  <2>2. k \in 1 .. Len(w) /\ base + Upto(w)[k] # Upto(v)[(i - 1) + k]
    BY <2>1
  <2>3. Upto(w)[k] = Upto(w)[k - 1] + w[k]
    BY <1>6, <2>2
  <2>4. CASE k = 1
    <3>1. Upto(w)[k - 1] = 0 /\ w[k] = v[i] - off /\ (i - 1) + k = i
      <4>1. k - 1 = 0 /\ (i - 1) + k = i
        BY <1>1, <2>4
      <4>2. k \in 1 .. 1 + (n - i) /\ k <= 1
        BY <1>4, <2>2, <2>4
      <4> QED
        BY <1>2, <1>4, <1>6, <2>4, <4>1, <4>2
    <3>2. Upto(v)[i] = Upto(v)[i - 1] + v[i]
      BY <1>1, <1>5
    <3>3. (Upto(v)[i - 1] + off) + (0 + (v[i] - off)) = Upto(v)[i - 1] + v[i]
      <4>1. Upto(v)[i - 1] \in Nat /\ v[i] \in Nat /\ off \in Nat
        BY <1>1, <1>7
      <4> QED
        BY <4>1
    <3> QED
      BY <2>2, <2>3, <3>1, <3>2, <3>3, Zenon
  <2>5. CASE k # 1
    <3>1. k - 1 \in 1 .. Len(w) /\ ~(k <= k - 1) /\ (i - 1) + k \in 1 .. n
          /\ (i - 1) + (k - 1) = ((i - 1) + k) - 1 /\ k - 1 \in 1 .. n - i
          /\ i + (k - 1) = (i - 1) + k
      BY <1>1, <1>7, <2>2, <2>5
    <3>2. k - 1 \notin S
      <4> HIDE DEF S
      <4> QED
        BY <2>1, <3>1
    <3>3. base + Upto(w)[k - 1] = Upto(v)[((i - 1) + k) - 1]
      BY <3>1, <3>2
    <3>4. w[k] = v[(i - 1) + k]
      <4>1. k \in 1 .. 1 + (n - i) /\ ~(k <= 1)
        BY <1>1, <1>4, <2>2, <2>5
      <4>2. w[k] = r[k - 1]
        BY <1>4, <4>1
      <4>3. r[k - 1] = v[i + (k - 1)]
        BY <1>3, <3>1
      <4> QED
        BY <3>1, <4>2, <4>3
    <3>5. Upto(v)[(i - 1) + k] = Upto(v)[((i - 1) + k) - 1] + v[(i - 1) + k]
      BY <1>5, <3>1
    <3>6. Upto(w)[k - 1] \in Nat /\ v[(i - 1) + k] \in Nat
      <4>1. k - 1 \in 0 .. Len(w)
        BY <1>7, <3>1
      <4> QED
        BY <1>1, <1>6, <3>1, <4>1
    <3>7. PICK x \in Nat, y \in Nat, z \in Nat : x = base /\ y = Upto(w)[k - 1] /\ z = v[(i - 1) + k]
      <4> HIDE DEF base
      <4> QED
        BY <1>7, <3>6, Zenon
    <3>8. x + (y + z) = (x + y) + z
      OBVIOUS
    <3> HIDE DEF base, S
    <3>9. base + Upto(w)[k] = x + (y + z) /\ Upto(v)[(i - 1) + k] = (x + y) + z
      BY <2>3, <3>3, <3>4, <3>5, <3>7, Zenon
    <3> QED
      BY <2>2, <3>8, <3>9, Zenon
  <2> QED
    BY <2>4, <2>5
<1> QED
  BY <1>4, <1>7, <1>8 DEF w, f, r, n

LEMMA LRWFramed ==
  ASSUME TypeInv
  PROVE  Framed(Frames("LRW", 0, segments))
<1> DEFINE F == Frames("LRW", 0, segments)
<1>1. segments \in Seq(Nat) /\ Len(segments) \in Nat /\ Upto(segments) \in [0 .. Len(segments) -> Nat]
  BY UptoSeq DEF TypeInv
<1>2. /\ F \in Seq(FrameType) /\ DOMAIN F = 1 .. Len(segments)
      /\ \A k \in 1 .. Len(segments) : /\ F[k].from = 0 + Upto(segments)[k - 1]
                                       /\ F[k].from + F[k].len = 0 + Upto(segments)[k]
      /\ \A j, k \in 1 .. Len(segments) : j < k => Later(F[j], F[k])
  BY <1>1, FramesAre
<1> HIDE DEF F
<1>3. \A k \in DOMAIN F : Edges(F[k]) \subseteq Cuts \cup {Obytes}
  <2> SUFFICES ASSUME NEW k \in 1 .. Len(segments) PROVE Edges(F[k]) \subseteq Cuts
    BY <1>2
  <2>1. k - 1 \in 0 .. Len(segments) /\ k \in 0 .. Len(segments)
    BY <1>1
  <2>2. Upto(segments)[k - 1] \in Cuts /\ Upto(segments)[k] \in Cuts
        /\ Upto(segments)[k - 1] \in Nat /\ Upto(segments)[k] \in Nat
    BY <1>1, <2>1 DEF Cuts
  <2>3. F[k].from = Upto(segments)[k - 1] /\ F[k].from + F[k].len = Upto(segments)[k]
    <3>1. 0 + Upto(segments)[k - 1] = Upto(segments)[k - 1] /\ 0 + Upto(segments)[k] = Upto(segments)[k]
      BY <2>2
    <3> QED
      BY <1>2, <3>1, Zenon
  <2> QED
    BY <2>2, <2>3 DEF Edges
<1> QED
  BY <1>2, <1>3 DEF Framed, F

LEMMA NoneFramed == Framed(<< >>)
BY DEF Framed

LEMMA LRDFramed ==
  ASSUME TypeInv, OffsetInv, pc = "send"
  PROVE  Framed(LRDFrames) /\ \A k \in DOMAIN LRDFrames : LRDFrames[k].cmd = "LRD"
<1> DEFINE v == segments
           n == Len(segments)
           i == Isegment
           w == <<v[i] - Ioffset>> \o SubSeq(v, i + 1, n)
           F == Frames("LRD", Obytes, w)
           U == Upto(v)
<1>1. CASE Ibytes = 0
  <2>1. LRDFrames = << >>
    BY <1>1 DEF LRDFrames
  <2> QED
    BY <2>1, NoneFramed
<1>2. CASE Ibytes # 0
  <2>1. LRDFrames = F
    BY <1>2 DEF LRDFrames
  <2>2. v \in Seq(Nat) /\ n \in Nat /\ U \in [0 .. n -> Nat] /\ i \in Nat \ {0} /\ Ioffset \in Nat
        /\ Obytes \in Nat
    BY UptoSeq DEF TypeInv
  <2>3. i \in 1 .. n /\ Ioffset <= v[i] /\ U[i - 1] + Ioffset = Obytes
    <3>1. i <= n /\ Ioffset <= v[i] /\ U[i - 1] + Ioffset = Obytes
      BY DEF OffsetInv, Mapped
    <3> QED
      BY <2>2, <3>1
  <2>4. v[i] \in Nat
    BY <2>2, <2>3, ElementOfSeq
  <2>5. Ioffset \in 0 .. v[i]
    BY <2>2, <2>3, <2>4
  <2>6. /\ w \in Seq(Nat) /\ Len(w) = n - i + 1
        /\ \A k \in 1 .. Len(w) : Obytes + Upto(w)[k] = U[(i - 1) + k]
    <3>1. /\ w \in Seq(Nat) /\ Len(w) = n - i + 1
          /\ \A k \in 1 .. Len(w) : (U[i - 1] + Ioffset) + Upto(w)[k] = U[(i - 1) + k]
      BY <2>2, <2>3, <2>5, Shifted
    <3> HIDE DEF w
    <3> QED
      BY <2>3, <3>1
  <2> HIDE DEF w
  <2>7. /\ F \in Seq(FrameType) /\ DOMAIN F = 1 .. Len(w)
        /\ \A k \in 1 .. Len(w) : /\ F[k].cmd = "LRD"
                                  /\ F[k].from = Obytes + Upto(w)[k - 1]
                                  /\ F[k].from + F[k].len = Obytes + Upto(w)[k]
        /\ \A j, k \in 1 .. Len(w) : j < k => Later(F[j], F[k])
    <3>1. w \in Seq(Nat) /\ Obytes \in Nat /\ "LRD" \in {"LRW", "LRD", "LWR"}
      BY <2>2, <2>6
    <3> QED
      BY <3>1, FramesAre
  <2> HIDE DEF F
  <2>8. \A k \in 1 .. Len(w) : Obytes + Upto(w)[k] \in Cuts
    <3> TAKE k \in 1 .. Len(w)
    <3>1. (i - 1) + k \in 0 .. n
      BY <2>2, <2>3, <2>6
    <3>2. U[(i - 1) + k] \in Cuts
      BY <3>1 DEF Cuts
    <3> QED
      BY <2>6, <3>2
  <2>9. \A k \in 1 .. Len(w) : Edges(F[k]) \subseteq Cuts \cup {Obytes}
    <3> SUFFICES ASSUME NEW k \in 1 .. Len(w)
                 PROVE  Obytes + Upto(w)[k - 1] \in Cuts \cup {Obytes}
      BY <2>7, <2>8 DEF Edges
    <3>1. CASE k = 1
      <4>1. k - 1 = 0 /\ Upto(w)[0] = 0 /\ Obytes + 0 = Obytes
        BY <2>2, <2>6, <3>1, UptoSeq
      <4> QED
        BY <4>1
    <3>2. CASE k # 1
      <4>1. k - 1 \in 1 .. Len(w)
        BY <2>2, <2>6, <3>2
      <4> QED
        BY <2>8, <4>1
    <3> QED
      BY <3>1, <3>2
  <2> QED
    BY <2>1, <2>7, <2>9 DEF Framed
<1> QED
  BY <1>1, <1>2

\* The last frame of the outputs holds what is left of them.
LEMMA Truncated ==
  ASSUME NEW v \in Seq(Nat), NEW o \in Nat \ {0}, o <= Total(v)
  PROVE  \E last \in 1 .. Len(v) :
            /\ last = CHOOSE k \in DOMAIN v : o - Upto(v)[k - 1] > 0 /\ o - Upto(v)[k - 1] <= v[k]
            /\ LET w == [k \in 1 .. last |-> Least(v[k], o - Upto(v)[k - 1])] IN
               /\ w \in Seq(Nat) /\ Len(w) = last
               /\ \A k \in 0 .. last - 1 : Upto(w)[k] = Upto(v)[k]
               /\ Upto(w)[last] = o
<1> DEFINE n == Len(v)
           U == Upto(v)
           Fits(k) == o - U[k - 1] > 0 /\ o - U[k - 1] <= v[k]
           last == CHOOSE k \in DOMAIN v : Fits(k)
           S == {k \in 0 .. n : U[k] >= o}
<1>1. n \in Nat /\ DOMAIN v = 1 .. n /\ v \in [1 .. n -> Nat]
  BY LenProperties
<1>2. U \in [0 .. n -> Nat] /\ U[0] = 0 /\ (\A k \in 1 .. n : U[k] = U[k - 1] + v[k])
      /\ \A i, j \in 0 .. n : i <= j => U[i] <= U[j]
  BY UptoSeq
<1>3. \A k \in 1 .. n : U[k - 1] \in Nat /\ U[k] \in Nat /\ v[k] \in Nat
  <2> TAKE k \in 1 .. n
  <2>1. k - 1 \in 0 .. n /\ k \in 0 .. n
    BY <1>1
  <2> HIDE DEF U, n
  <2> QED
    BY <1>1, <1>2, <2>1
<1>4. \E k \in DOMAIN v : Fits(k)
  <2>1. n \in S
    BY <1>1 DEF Total
  <2>2. PICK k \in S : \A l \in S : k <= l
    <3>1. S \subseteq Nat /\ S # {}
      BY <2>1
    <3> HIDE DEF S
    <3> QED
      BY <3>1, HasLeast
  <2>3. k \in 0 .. n /\ U[k] >= o
    BY <2>2
  <2>4. k # 0
    <3>1. ~(0 >= o)
      OBVIOUS
    <3> QED
      BY <1>2, <2>3, <3>1
  <2>5. k \in 1 .. n /\ k - 1 \in 0 .. n /\ ~(k <= k - 1)
    BY <1>1, <2>3, <2>4
  <2>6. ~(U[k - 1] >= o)
    <3>1. k - 1 \notin S
      <4> HIDE DEF S
      <4> QED
        BY <2>2, <2>5
    <3> QED
      BY <2>5, <3>1
  <2>7. Fits(k)
    <3>1. U[k] = U[k - 1] + v[k] /\ U[k - 1] \in Nat /\ v[k] \in Nat
      BY <1>2, <1>3, <2>5
    <3>2. PICK x \in Nat, y \in Nat : x = U[k - 1] /\ y = v[k]
      BY <3>1, Zenon
    <3>3. x + y >= o /\ ~(x >= o)
      BY <2>3, <2>6, <3>1, <3>2, Zenon
    <3>4. o - x > 0 /\ o - x <= y
      BY <3>3
    <3> QED
      BY <3>2, <3>4, Zenon
  <2> QED
    BY <1>1, <2>5, <2>7
<1>5. last \in 1 .. n /\ Fits(last)
  <2> HIDE DEF Fits
  <2> QED
    BY <1>1, <1>4
<1> HIDE DEF last
<1> DEFINE w == [k \in 1 .. last |-> Least(v[k], o - U[k - 1])]
<1>6. \A k \in 1 .. last - 1 : w[k] = v[k]
  <2> SUFFICES ASSUME NEW k \in 1 .. last - 1 PROVE Least(v[k], o - U[k - 1]) = v[k]
    BY <1>1, <1>5
  <2>1. k \in 1 .. n /\ k \in 0 .. n /\ last - 1 \in 0 .. n /\ k <= last - 1
    BY <1>1, <1>5
  <2>2. U[k] <= U[last - 1] /\ U[last - 1] \in Nat /\ U[k] = U[k - 1] + v[k]
        /\ U[k - 1] \in Nat /\ v[k] \in Nat
    BY <1>2, <1>3, <2>1
  <2>3. o - U[last - 1] > 0
    BY <1>5
  <2>4. PICK x \in Nat, y \in Nat, z \in Nat : x = U[k - 1] /\ y = v[k] /\ z = U[last - 1]
    BY <2>2, Zenon
  <2>5. x + y <= z /\ o - z > 0
    BY <2>2, <2>3, <2>4, Zenon
  <2>6. Least(y, o - x) = y
    BY <2>5 DEF Least
  <2> QED
    BY <2>4, <2>6, Zenon
<1>7. w[last] = o - U[last - 1] /\ o - U[last - 1] \in Nat
  <2>1. U[last - 1] \in Nat /\ v[last] \in Nat /\ last \in 1 .. last
    BY <1>1, <1>3, <1>5
  <2>2. w[last] = Least(v[last], o - U[last - 1])
    BY <2>1
  <2> HIDE DEF w, U
  <2> QED
    BY <1>5, <2>1, <2>2 DEF Least
<1>8. last \in Nat /\ w \in [1 .. last -> Nat]
  <2>1. last \in Nat
    BY <1>1, <1>5
  <2>2. \A k \in 1 .. last : w[k] \in Nat
    <3> TAKE k \in 1 .. last
    <3>1. k \in 1 .. last - 1 \/ k = last
      BY <2>1
    <3>2. k \in 1 .. n
      BY <1>1, <1>5
    <3> HIDE DEF w
    <3> QED
      BY <1>3, <1>6, <1>7, <3>1, <3>2
  <2>3. DOMAIN w = 1 .. last /\ w = [k \in 1 .. last |-> w[k]]
    OBVIOUS
  <2> HIDE DEF w
  <2> QED
    BY <2>1, <2>2, <2>3
<1> HIDE DEF w
<1>9. w \in Seq(Nat) /\ Len(w) = last
  BY <1>8
<1>10. \A k \in 0 .. last - 1 : Upto(w)[k] = Upto(v)[k]
  <2> SUFFICES ASSUME NEW k \in 0 .. last - 1 PROVE Upto(w)[k] = Upto(v)[k]
    OBVIOUS
  <2>1. k \in Nat /\ k <= last /\ k <= n /\ last \in Nat
        /\ \A j \in 1 .. k : j \in 1 .. last - 1
    BY <1>1, <1>5, <1>8
  <2>2. \A j \in 1 .. k : w[j] = v[j]
    BY <1>6, <2>1
  <2>3. w \in [1 .. last -> Int] /\ v \in [1 .. n -> Int] /\ n \in Nat
    BY <1>1, <1>8
  <2> HIDE DEF n, U
  <2> QED
    BY <2>1, <2>2, <2>3, UptoAgree
<1>11. Upto(w)[last] = o
  <2>1. last \in 1 .. last /\ last - 1 \in 0 .. last - 1
    BY <1>5, <1>8
  <2>2. Upto(w)[last] = Upto(w)[last - 1] + w[last]
    BY <1>9, <2>1, UptoSeq
  <2>3. Upto(w)[last - 1] = U[last - 1]
    BY <1>10, <2>1
  <2>4. PICK x \in Nat : x = U[last - 1]
    BY <1>3, <1>5
  <2>5. x + (o - x) = o
    OBVIOUS
  <2> QED
    BY <1>7, <2>2, <2>3, <2>4, <2>5, Zenon
<1> QED
  BY <1>5, <1>9, <1>10, <1>11 DEF last, w

LEMMA LWRFramed ==
  ASSUME TypeInv, SegInv, ImageInv, pc = "send"
  PROVE  Framed(LWRFrames) /\ \A k \in DOMAIN LWRFrames : LWRFrames[k].cmd = "LWR"
<1> DEFINE v == segments
           o == Obytes
           lst == CHOOSE k \in DOMAIN v : o - Upto(v)[k - 1] > 0 /\ o - Upto(v)[k - 1] <= v[k]
           w == [k \in 1 .. lst |-> Least(v[k], o - Upto(v)[k - 1])]
           F == Frames("LWR", 0, w)
<1>1. CASE o = 0
  <2>1. LWRFrames = << >>
    BY <1>1 DEF LWRFrames
  <2> QED
    BY <2>1, NoneFramed
<1>2. CASE o # 0
  <2>1. LWRFrames = F
    BY <1>2 DEF LWRFrames
  <2>2. v \in Seq(Nat) /\ Len(v) \in Nat /\ Upto(v) \in [0 .. Len(v) -> Nat] /\ o \in Nat \ {0}
    BY <1>2, UptoSeq DEF TypeInv
  <2>3. o <= Total(v)
    <3>1. Total(v) = oLogAddr /\ oLogAddr = LogAddr
      BY DEF SegInv, Mapped, Mapping
    <3> QED
      BY <3>1 DEF ImageInv
  <2>4. /\ lst \in 1 .. Len(v) /\ w \in Seq(Nat) /\ Len(w) = lst
        /\ \A k \in 0 .. lst - 1 : Upto(w)[k] = Upto(v)[k]
        /\ Upto(w)[lst] = o
    <3>1. segments \in Seq(Nat) /\ Obytes \in Nat \ {0} /\ Obytes <= Total(segments)
      BY <2>2, <2>3
    <3>2. \E last \in 1 .. Len(v) :
            /\ last = lst
            /\ LET u == [k \in 1 .. last |-> Least(v[k], o - Upto(v)[k - 1])] IN
               /\ u \in Seq(Nat) /\ Len(u) = last
               /\ \A k \in 0 .. last - 1 : Upto(u)[k] = Upto(v)[k]
               /\ Upto(u)[last] = o
      BY <3>1, Truncated
    <3> HIDE DEF lst
    <3> QED
      BY <3>2
  <2> HIDE DEF w, lst
  <2>5. /\ F \in Seq(FrameType) /\ DOMAIN F = 1 .. Len(w)
        /\ \A k \in 1 .. Len(w) : /\ F[k].cmd = "LWR"
                                  /\ F[k].from = 0 + Upto(w)[k - 1]
                                  /\ F[k].from + F[k].len = 0 + Upto(w)[k]
        /\ \A j, k \in 1 .. Len(w) : j < k => Later(F[j], F[k])
    <3>1. w \in Seq(Nat) /\ 0 \in Nat /\ "LWR" \in {"LRW", "LRD", "LWR"}
      BY <2>4
    <3> QED
      BY <3>1, FramesAre
  <2> HIDE DEF F
  <2>6. \A k \in 0 .. lst : Upto(w)[k] \in Nat /\ Upto(w)[k] \in Cuts \cup {Obytes}
    <3> TAKE k \in 0 .. lst
    <3>1. CASE k = lst
      BY <2>2, <2>4, <3>1
    <3>2. CASE k # lst
      <4>1. k \in 0 .. lst - 1 /\ k \in 0 .. Len(v)
        BY <2>2, <2>4, <3>2
      <4>2. Upto(v)[k] \in Nat /\ Upto(v)[k] \in Cuts
        BY <2>2, <4>1 DEF Cuts
      <4> QED
        BY <2>4, <4>1, <4>2
    <3> QED
      BY <3>1, <3>2
  <2>7. \A k \in 1 .. Len(w) : Edges(F[k]) \subseteq Cuts \cup {Obytes}
    <3> TAKE k \in 1 .. Len(w)
    <3>1. k - 1 \in 0 .. lst /\ k \in 0 .. lst
      BY <2>2, <2>4
    <3>2. F[k].from = 0 + Upto(w)[k - 1] /\ F[k].from + F[k].len = 0 + Upto(w)[k]
      BY <2>5
    <3>3. F[k].from = Upto(w)[k - 1] /\ F[k].from + F[k].len = Upto(w)[k]
      <4>1. \A x \in Nat : 0 + x = x
        OBVIOUS
      <4>2. Upto(w)[k - 1] \in Nat /\ Upto(w)[k] \in Nat
        BY <2>6, <3>1
      <4> QED
        BY <3>2, <4>1, <4>2, Zenon
    <3> QED
      BY <2>6, <3>1, <3>3 DEF Edges
  <2> QED
    BY <2>1, <2>5, <2>7 DEF Framed
<1> QED
  BY <1>1, <1>2

LEMMA StackStep ==
  ASSUME TypeInv, SegInv, ImageInv, OffsetInv, StackInv, [Next]_vars
  PROVE  StackInv'
<1>1. CASE Send
  <2> DEFINE new == IF LogAddr = 0 THEN << >>
                    ELSE IF blockLRW THEN LRDFrames \o LWRFrames
                    ELSE Frames("LRW", 0, segments)
  <2>1. pc = "send" /\ pc' = "receive" /\ stack' = new /\ segments' = segments /\ Obytes' = Obytes
    BY <1>1 DEF Send, mapVars, segVars, sumVars
  <2>2. Framed(new)
    <3>1. CASE LogAddr = 0
      BY <3>1, NoneFramed
    <3>2. CASE LogAddr # 0 /\ blockLRW
      <4>1. Framed(LRDFrames \o LWRFrames)
        BY <2>1, LRDFramed, LWRFramed, FramedJoin
      <4> QED
        BY <3>2, <4>1
    <3>3. CASE LogAddr # 0 /\ ~blockLRW
      BY <3>3, LRWFramed
    <3> QED
      BY <3>1, <3>2, <3>3
  <2> HIDE DEF new
  <2>3. Framed(stack)'
    BY <2>1, <2>2 DEF Framed, Cuts
  <2> QED
    BY <2>1, <2>3 DEF StackInv
<1>2. CASE Receive
  <2>1. pc = "receive" /\ pc' = "receive" /\ stack # << >> /\ stack' = Tail(stack)
        /\ segments' = segments /\ Obytes' = Obytes
    BY <1>2 DEF Receive, mapVars, segVars, sumVars
  <2>2. Framed(stack) /\ stack \in Seq(FrameType)
    BY <2>1 DEF StackInv, Framed
  <2>3. /\ stack' \in Seq(FrameType) /\ Len(stack') = Len(stack) - 1 /\ Len(stack) \in Nat
        /\ DOMAIN stack = 1 .. Len(stack) /\ DOMAIN stack' = 1 .. Len(stack')
        /\ \A k \in 1 .. Len(stack') : stack'[k] = stack[k + 1]
    BY <2>1, <2>2, HeadTailProperties, LenProperties
  <2>4. \A k \in DOMAIN stack' : k \in Int /\ k + 1 \in DOMAIN stack /\ stack'[k] = stack[k + 1]
    <3>1. PICK n \in Nat : n = Len(stack)
      BY <2>3, Zenon
    <3>2. DOMAIN stack = 1 .. n /\ DOMAIN stack' = 1 .. n - 1
      BY <2>3, <3>1, Zenon
    <3>3. \A k \in 1 .. n - 1 : k \in Int /\ k + 1 \in 1 .. n
      OBVIOUS
    <3> QED
      BY <2>3, <3>1, <3>2, <3>3, Zenon
  <2>5. \A k \in DOMAIN stack' : Edges(stack'[k]) \subseteq Cuts \cup {Obytes}
    BY <2>2, <2>4, Zenon DEF Framed
  <2>6. \A j, k \in DOMAIN stack' : j < k => Later(stack'[j], stack'[k])
    <3> SUFFICES ASSUME NEW j \in DOMAIN stack', NEW k \in DOMAIN stack', j < k
                 PROVE  Later(stack'[j], stack'[k])
      OBVIOUS
    <3>1. j \in Int /\ k \in Int
      BY <2>4
    <3>2. j + 1 < k + 1
      BY <3>1
    <3> QED
      BY <2>2, <2>4, <3>2, Zenon DEF Framed
  <2>7. Cuts' = Cuts
    BY <2>1 DEF Cuts
  <2>8. Framed(stack)'
    BY <2>1, <2>3, <2>5, <2>6, <2>7 DEF Framed
  <2> QED
    BY <2>1, <2>8 DEF StackInv
<1>3. CASE NextCycle
  BY <1>3 DEF NextCycle, StackInv
<1>4. CASE MapFmmu \/ SlaveDone \/ OutputsDone \/ InputsDone \/ CloseSegment
  BY <1>4 DEF MapFmmu, SlaveDone, OutputsDone, InputsDone, CloseSegment, Mapping, StackInv
<1>5. CASE UNCHANGED vars
  BY <1>5 DEF vars, mapVars, segVars, sumVars, StackInv, Framed, Cuts
<1> QED
  BY <1>1, <1>2, <1>3, <1>4, <1>5 DEF Next, Map

-----------------------------------------------------------------------------
(* The working counter                                                     *)

\* The frame that is taken from the stack, and those that stay.
LEMMA NextFrame ==
  ASSUME Framed(stack), stack # << >>
  PROVE  /\ Head(stack) \in FrameType /\ Edges(Head(stack)) \subseteq Cuts \cup {Obytes}
         /\ 1 \in DOMAIN stack /\ Head(stack) = stack[1]
         /\ \A k \in DOMAIN Tail(stack) : /\ k + 1 \in DOMAIN stack /\ Tail(stack)[k] = stack[k + 1]
                                          /\ Later(Head(stack), Tail(stack)[k])
                                          /\ Tail(stack)[k] \in FrameType
<1>1. stack \in Seq(FrameType)
  BY DEF Framed
<1>2. /\ Head(stack) = stack[1] /\ Head(stack) \in FrameType
      /\ Tail(stack) \in Seq(FrameType) /\ Len(Tail(stack)) = Len(stack) - 1
      /\ \A k \in 1 .. Len(Tail(stack)) : Tail(stack)[k] = stack[k + 1]
  BY <1>1, HeadTailProperties
<1>3. /\ Len(stack) \in Nat /\ DOMAIN stack = 1 .. Len(stack)
      /\ DOMAIN Tail(stack) = 1 .. Len(Tail(stack)) /\ Len(Tail(stack)) \in Nat
  BY <1>1, <1>2, LenProperties
<1>4. 1 \in DOMAIN stack /\ \A k \in DOMAIN Tail(stack) : k \in Nat /\ k + 1 \in DOMAIN stack /\ 1 < k + 1
  <2>1. PICK n \in Nat, i \in Nat : n = Len(stack) /\ i = Len(Tail(stack))
    BY <1>3, Zenon
  <2>2. i = n - 1
    BY <1>2, <2>1, Zenon
  <2>3. 1 \in 1 .. n /\ \A k \in 1 .. i : k \in Nat /\ k + 1 \in 1 .. n /\ 1 < k + 1
    BY <2>2
  <2> QED
    BY <1>3, <2>1, <2>3, Zenon
<1>5. \A k \in DOMAIN Tail(stack) : Tail(stack)[k] = stack[k + 1] /\ Tail(stack)[k] \in FrameType
  BY <1>2, <1>3, ElementOfSeq
<1>6. \A k \in DOMAIN Tail(stack) : Later(stack[1], stack[k + 1])
  BY <1>4, Zenon DEF Framed
<1>7. Edges(Head(stack)) \subseteq Cuts \cup {Obytes}
  BY <1>2, <1>4, Zenon DEF Framed
<1> QED
  BY <1>2, <1>4, <1>5, <1>6, <1>7, Zenon

\* What a slave exchanges in one direction lies on one side of the edge of a frame.
LEMMA EdgeBeside ==
  ASSUME TypeInv, ImageInv, OwnerInv, CutInv, pc \notin Dirs, \A m \in fmmus : ~Split(m),
         NEW c \in Cuts \cup {Obytes}, NEW s \in Slaves, NEW d \in Dirs
  PROVE  Beside(c, s, d)
<1>1. CASE c = Obytes
  <2>1. \A m \in Of(s, d) : IF d = "out" THEN m.from + m.length <= Obytes ELSE m.from >= Obytes
    BY DEF ImageInv, Of, Dirs
  <2> QED
    BY <1>1, <2>1 DEF Beside
<1>2. CASE c \in Cuts /\ Bytes(s, d) > 0
  BY <1>2 DEF CutInv
<1>3. CASE c \in Cuts /\ ~(Bytes(s, d) > 0)
  <2>1. Bytes(s, d) = 0
    BY <1>3, SlaveIs DEF TypeInv
  <2>2. \A m, n \in Of(s, d) : m = n
    BY <2>1 DEF OwnerInv, Of
  <2>3. \A m \in Of(s, d) : m.from + m.length <= c \/ m.from >= c
    <3> TAKE m \in Of(s, d)
    <3>1. m \in fmmus /\ m.from \in Nat /\ m.length \in Nat /\ ~Split(m)
      BY DEF Of, TypeInv, FmmuType
    <3>2. segments \in Seq(Nat) /\ Len(segments) \in Nat /\ DOMAIN segments = 1 .. Len(segments)
          /\ Upto(segments) \in [0 .. Len(segments) -> Nat] /\ Upto(segments)[0] = 0
      BY UptoSeq, LenProperties DEF TypeInv
    <3>3. PICK k \in 0 .. Len(segments) : c = Upto(segments)[k]
      BY <1>3 DEF Cuts
    <3>4. CASE k = 0
      BY <3>1, <3>2, <3>3, <3>4
    <3>5. CASE k # 0
      <4>1. k \in DOMAIN segments
        BY <3>2, <3>3, <3>5
      <4>2. ~(m.from < c /\ c < m.from + m.length) /\ c \in Nat
        BY <3>1, <3>2, <3>3, <4>1 DEF Split
      <4> QED
        BY <3>1, <4>2
    <3> QED
      BY <3>4, <3>5
  <2> QED
    BY <2>2, <2>3 DEF Beside
<1> QED
  BY <1>1, <1>2, <1>3

\* So a frame that meets some of them holds them all.
LEMMA AllOrNone ==
  ASSUME TypeInv, ImageInv, OwnerInv, CutInv, pc \notin Dirs, \A m \in fmmus : ~Split(m),
         NEW f \in FrameType, Edges(f) \subseteq Cuts \cup {Obytes},
         NEW s \in Slaves, NEW d \in Dirs, \E m \in Of(s, d) : Meets(m, f)
  PROVE  \A m \in Of(s, d) : Area(m) \subseteq FrameArea(f)
<1>1. PICK n \in Of(s, d), a \in FrameArea(f) : a \in Area(n)
  BY DEF Meets
<1>2. f.from \in Nat /\ f.len \in Nat /\ \A m \in Of(s, d) : m.from \in Nat /\ m.length \in Nat
  BY DEF FrameType, Of, TypeInv, FmmuType
<1>3. Beside(f.from, s, d) /\ Beside(f.from + f.len, s, d)
  BY EdgeBeside DEF Edges
<1>4. a \in Int /\ n.from <= a /\ a <= n.from + n.length - 1 /\ f.from <= a /\ a <= f.from + f.len - 1
  BY <1>1, <1>2 DEF Area, FrameArea
<1>5. ~(n.from + n.length <= f.from) /\ ~(n.from >= f.from + f.len)
  BY <1>2, <1>4
<1>6. \A m \in Of(s, d) : m.from >= f.from /\ m.from + m.length <= f.from + f.len
  BY <1>3, <1>5 DEF Beside
<1> QED
  BY <1>2, <1>6 DEF Area, FrameArea

\* A frame adds what its slaves count, and they have exchanged all their data with it.
LEMMA Exchange ==
  ASSUME TypeInv, ImageInv, OwnerInv, CutInv, FreshInv, Framed(stack),
         pc = "receive", stack # << >>, NEW S \in SUBSET Slaves,
         dev' = dev, fmmus' = fmmus, \A m \in fmmus : ~Split(m),
         served' = served \cup Exchanged(S, Head(stack)), NEW d \in Dirs
  PROVE  /\ IsFiniteSet(All(d)')
         /\ Cardinality(All(d)) + Cardinality({s \in S : Counts(s, Head(stack), d)})
               <= Cardinality(All(d)')
<1> DEFINE f == Head(stack)
           C == {s \in S : Counts(s, f, d)}
<1>1. f \in FrameType /\ Edges(f) \subseteq Cuts \cup {Obytes} /\ 1 \in DOMAIN stack /\ f = stack[1]
  BY NextFrame
<1>2. Has(d)' = Has(d) /\ Has(d) \subseteq Slaves /\ \A s : Of(s, d)' = Of(s, d)
  BY SameDev DEF Has, Of
<1> HIDE DEF f
<1>3. \A s \in C : /\ s \in Has(d) /\ s \in S /\ s \in Slaves
                   /\ \E m \in Of(s, d) : Does(m, f) /\ Meets(m, f)
                   /\ \A m \in Of(s, d) : Does(m, f) /\ m \in fmmus /\ m.slave = s
  <2> TAKE s \in C
  <2>1. PICK m \in fmmus : m.slave = s /\ m.dir = d /\ Does(m, f) /\ Meets(m, f)
    BY DEF Counts
  <2>2. m \in Of(s, d) /\ s \in S /\ s \in Slaves
    BY <2>1 DEF Of
  <2>3. s \in Has(d)
    BY <2>1, <2>2 DEF OwnerInv, Has
  <2>4. \A n \in Of(s, d) : Does(n, f) /\ n \in fmmus /\ n.slave = s
    BY <2>1 DEF Of, Does
  <2> QED
    BY <2>1, <2>2, <2>3, <2>4
<1>4. C \subseteq All(d)'
  <2> SUFFICES ASSUME NEW s \in C, NEW m \in Of(s, d), NEW a \in Area(m)
               PROVE  <<m, a>> \in served'
    BY <1>2, <1>3 DEF All
  <2>1. \E n \in Of(s, d) : Meets(n, f)
    BY <1>3
  <2>2. Area(m) \subseteq FrameArea(f)
    BY <1>1, <1>3, <2>1, AllOrNone DEF Dirs
  <2>3. m \in fmmus /\ m.slave \in S /\ Does(m, f) /\ a \in Area(m) \cap FrameArea(f)
    BY <1>3, <2>2
  <2>4. <<m, a>> \in Exchanged(S, f)
    BY <2>3 DEF Exchanged
  <2> QED
    BY <2>4 DEF f
<1>5. C \cap All(d) = {}
  <2> SUFFICES ASSUME NEW s \in C, s \in All(d) PROVE FALSE
    OBVIOUS
  <2>1. PICK m \in Of(s, d) : Does(m, f) /\ Meets(m, f)
    BY <1>3
  <2>2. PICK a : a \in Area(m) /\ a \in FrameArea(f)
    BY <2>1 DEF Meets
  <2>3. <<m, a>> \in served
    BY <2>2 DEF All
  <2>4. <<m, a>>[1] = m /\ <<m, a>>[2] = a
    OBVIOUS
  <2> QED
    BY <1>1, <2>1, <2>2, <2>3, <2>4 DEF FreshInv
<1>6. All(d) \subseteq All(d)'
  BY <1>2 DEF All
<1>7. All(d)' \subseteq Slaves
  BY <1>2 DEF All
<1>8. PICK A, B : A = All(d) /\ B = All(d)'
  OBVIOUS
<1> HIDE DEF C
<1>9. IsFiniteSet(A) /\ IsFiniteSet(B) /\ IsFiniteSet(C)
      /\ Cardinality(A) \in Nat /\ Cardinality(B) \in Nat /\ Cardinality(C) \in Nat
  <2>1. A \subseteq Slaves /\ B \subseteq Slaves /\ C \subseteq Slaves
    BY <1>4, <1>6, <1>7, <1>8
  <2> QED
    BY <2>1, SlavesFinite
<1>10. Cardinality(A \cup C) = Cardinality(A) + Cardinality(C)
  <2>1. A \cap C = {}
    BY <1>5, <1>8
  <2>2. IsFiniteSet(A \cup C) /\ Cardinality(A \cup C)
           = Cardinality(A) + Cardinality(C) - Cardinality(A \cap C)
    BY <1>9, FS_Union
  <2>3. Cardinality(A \cap C) = 0
    BY <2>1, FS_EmptySet
  <2> QED
    BY <1>9, <2>2, <2>3
<1>11. Cardinality(A \cup C) <= Cardinality(B)
  <2>1. A \cup C \subseteq B
    BY <1>4, <1>6, <1>8
  <2> QED
    BY <1>9, <2>1, FS_Subset
<1> QED
  BY <1>8, <1>9, <1>10, <1>11 DEF C, f

LEMMA FreshStep ==
  ASSUME TypeInv, TypeInv', ImageInv, OwnerInv, CutInv, StackInv, FreshInv, [Next]_vars
  PROVE  FreshInv'
<1>1. CASE Send
  <2>1. served' = {} /\ wkc' = 0
    BY <1>1 DEF Send
  <2>2. PICK A, B : A = All("out")' /\ B = All("in")'
    OBVIOUS
  <2>3. A \subseteq Slaves /\ B \subseteq Slaves
    BY <1>1, <2>2 DEF All, Has
  <2>4. Cardinality(A) \in Nat /\ Cardinality(B) \in Nat
    BY <2>3, SlavesFinite
  <2>5. 0 <= 2 * Cardinality(A) + Cardinality(B)
    BY <2>4
  <2>6. wkc' <= 2 * Cardinality(All("out")') + Cardinality(All("in")')
    BY <2>1, <2>2, <2>5, Zenon
  <2> QED
    BY <2>1, <2>6 DEF FreshInv
<1>2. CASE Receive
  <2> DEFINE f == Head(stack)
  <2>1. pc = "receive" /\ stack # << >> /\ stack' = Tail(stack) /\ Framed(stack)
    BY <1>2 DEF Receive, StackInv
  <2>2. UNCHANGED <<dev, pc, fmmus, segments, LogAddr>>
    BY <1>2 DEF Receive, mapVars, segVars
  <2>3. /\ 1 \in DOMAIN stack /\ f = stack[1] /\ f \in FrameType
        /\ \A k \in DOMAIN stack' : /\ k + 1 \in DOMAIN stack /\ stack'[k] = stack[k + 1]
                                    /\ Later(f, stack'[k]) /\ stack'[k] \in FrameType
    BY <2>1, NextFrame
  <2>4. /\ \A p \in served : p[1] \in fmmus /\ p[2] \in Area(p[1]) /\ p = <<p[1], p[2]>>
        /\ \A p \in served, k \in DOMAIN stack : Does(p[1], stack[k]) => p[2] \notin FrameArea(stack[k])
        /\ (\A m \in fmmus : ~Split(m)) => wkc <= 2 * Cardinality(All("out")) + Cardinality(All("in"))
    BY <2>1 DEF FreshInv
  <2>5. \A p \in served, k \in DOMAIN stack' :
           Does(p[1], stack'[k]) => p[2] \notin FrameArea(stack'[k])
    BY <2>3, <2>4
  <2>6. (\A m \in fmmus : ~Split(m))' <=> (\A m \in fmmus : ~Split(m))
    BY <2>2 DEF Split
  <2> HIDE DEF f
  <2>7. CASE UNCHANGED <<wkc, served>>
    <3>1. All("out")' = All("out") /\ All("in")' = All("in")
      <4>1. \A d : Has(d)' = Has(d)
        BY <2>2, SameDev
      <4> QED
        BY <2>2, <2>7, <4>1 DEF All, Of
    <3>2. (\A m \in fmmus : ~Split(m))'
             => wkc' <= 2 * Cardinality(All("out")') + Cardinality(All("in")')
      BY <2>4, <2>6, <2>7, <3>1
    <3> QED
      BY <2>2, <2>4, <2>5, <2>7, <3>2 DEF FreshInv
  <2>8. CASE \E S \in SUBSET Slaves :
                /\ wkc' = wkc + (IF f.cmd = "LWR" THEN 2 ELSE 1) * Counter(S, f)
                /\ served' = served \cup Exchanged(S, f)
    <3>1. PICK S \in SUBSET Slaves :
                /\ wkc' = wkc + (IF f.cmd = "LWR" THEN 2 ELSE 1) * Counter(S, f)
                /\ served' = served \cup Exchanged(S, f)
      BY <2>8
    <3>2. \A p \in Exchanged(S, f) :
             \E m \in fmmus : \E a \in Area(m) : p = <<m, a>> /\ a \in FrameArea(f) /\ Does(m, f)
      BY DEF Exchanged
    <3>3. \A p \in Exchanged(S, f) : p[1] \in fmmus /\ p[2] \in Area(p[1]) /\ p = <<p[1], p[2]>>
                                     /\ p[2] \in FrameArea(f) /\ Does(p[1], f)
      BY <3>2
    <3>4. \A p \in Exchanged(S, f), k \in DOMAIN stack' :
             Does(p[1], stack'[k]) => p[2] \notin FrameArea(stack'[k])
      <4> SUFFICES ASSUME NEW p \in Exchanged(S, f), NEW k \in DOMAIN stack', NEW g, g = stack'[k],
                          Does(p[1], g)
                   PROVE  p[2] \notin FrameArea(g)
        OBVIOUS
      <4>1. p[2] \in FrameArea(f) /\ Does(p[1], f)
        BY <3>3
      <4>2. Later(f, g) /\ g \in FrameType
        BY <2>3
      <4>3. {f.cmd, g.cmd} # {"LRD", "LWR"}
        BY <4>1 DEF Does
      <4>4. f.from + f.len <= g.from
        BY <4>2, <4>3 DEF Later
      <4> QED
        BY <2>3, <4>1, <4>2, <4>4 DEF FrameArea, FrameType
    <3>5. ASSUME \A m \in fmmus : ~Split(m)
          PROVE  wkc' <= 2 * Cardinality(All("out")') + Cardinality(All("in")')
      <4> DEFINE Ci == {s \in S : Counts(s, f, "in")}
                 Co == {s \in S : Counts(s, f, "out")}
      <4>1. Counter(S, f) = Cardinality(Ci) + (IF f.cmd = "LRW" THEN 2 ELSE 1) * Cardinality(Co)
        BY DEF Counter
      <4>2. f.cmd \in {"LRW", "LRD", "LWR"}
        BY <2>3 DEF FrameType
      <4>3. (f.cmd = "LRD" => Co = {}) /\ (f.cmd = "LWR" => Ci = {})
        BY DEF Counts, Does
      <4>4. Cardinality(Ci) \in Nat /\ Cardinality(Co) \in Nat
        <5>1. Ci \subseteq Slaves /\ Co \subseteq Slaves
          OBVIOUS
        <5> HIDE DEF Ci, Co
        <5> QED
          BY <5>1, SlavesFinite
      <4>5. \A d \in Dirs : Cardinality(All(d)) + Cardinality({s \in S : Counts(s, f, d)})
                               <= Cardinality(All(d)')
        <5> TAKE d \in Dirs
        <5> QED
          BY <2>1, <2>2, <3>1, <3>5, Exchange DEF f
      <4>6. /\ Cardinality(All("out")) + Cardinality(Co) <= Cardinality(All("out")')
            /\ Cardinality(All("in")) + Cardinality(Ci) <= Cardinality(All("in")')
        BY <4>5 DEF Dirs
      <4> HIDE DEF Ci, Co
      <4>7. (IF f.cmd = "LWR" THEN 2 ELSE 1) * Counter(S, f) = Cardinality(Ci) + 2 * Cardinality(Co)
        BY <4>1, <4>2, <4>3, <4>4, FS_EmptySet
      <4>8. PICK A, B : A = All("out")' /\ B = All("in")'
        OBVIOUS
      <4>9. Cardinality(A) \in Nat /\ Cardinality(B) \in Nat
            /\ Cardinality(All("out")) \in Nat /\ Cardinality(All("in")) \in Nat
        <5>1. A \subseteq Slaves /\ B \subseteq Slaves /\ All("out") \subseteq Slaves /\ All("in") \subseteq Slaves
          BY <2>2, <4>8 DEF All, Has
        <5> QED
          BY <5>1, SlavesFinite
      <4>10. PICK x \in Nat : x = wkc + (Cardinality(Ci) + 2 * Cardinality(Co))
        <5>1. wkc \in Nat
          BY DEF TypeInv
        <5>2. wkc + (Cardinality(Ci) + 2 * Cardinality(Co)) \in Nat
          BY <4>4, <5>1
        <5> QED
          BY <5>2, Zenon
      <4>11. x <= 2 * Cardinality(A) + Cardinality(B)
        <5>1. /\ Cardinality(All("out")) + Cardinality(Co) <= Cardinality(A)
              /\ Cardinality(All("in")) + Cardinality(Ci) <= Cardinality(B)
          BY <4>6, <4>8, Zenon
        <5>2. wkc <= 2 * Cardinality(All("out")) + Cardinality(All("in")) /\ wkc \in Nat
          BY <2>4, <3>5 DEF TypeInv
        <5> QED
          BY <4>4, <4>9, <4>10, <5>1, <5>2
      <4> QED
        BY <3>1, <4>7, <4>8, <4>10, <4>11, Zenon
    <3> QED
      BY <2>2, <2>4, <2>5, <2>6, <3>1, <3>3, <3>4, <3>5 DEF FreshInv
  <2> QED
    BY <1>2, <2>7, <2>8 DEF Receive, f
<1>3. CASE NextCycle
  BY <1>3 DEF NextCycle, FreshInv
<1>4. CASE MapFmmu \/ SlaveDone \/ OutputsDone \/ InputsDone \/ CloseSegment
  BY <1>4 DEF MapFmmu, SlaveDone, OutputsDone, InputsDone, CloseSegment, Mapping, FreshInv
<1>5. CASE UNCHANGED vars
  <2>1. \A d : Has(d)' = Has(d)
    BY <1>5, SameDev DEF vars
  <2>2. \A d : All(d)' = All(d)
    BY <1>5, <2>1 DEF vars, mapVars, All, Of
  <2> QED
    BY <1>5, <2>2 DEF vars, mapVars, segVars, FreshInv, Split
<1> QED
  BY <1>1, <1>2, <1>3, <1>4, <1>5 DEF Next, Map

-----------------------------------------------------------------------------
(* The invariant                                                           *)

IndInv == /\ TypeInv /\ WalkInv /\ ImageInv /\ OwnerInv /\ SegInv /\ CutInv /\ LimitInv /\ OffsetInv
          /\ PhysInv /\ HandInv /\ CountInv /\ StackInv /\ FreshInv

LEMMA InitInd == Init => IndInv
<1> SUFFICES ASSUME Init PROVE IndInv
  OBVIOUS
<1>1. TypeInv /\ WalkInv
  BY InitType, WalkInit
<1>2. /\ pc = "out" /\ slave = 1 /\ 1 \in Slaves /\ SMc = 1 /\ FMMUdone = 0 /\ ByteCount = 0
      /\ BitCount = 0 /\ LogAddr = 0 /\ BitPos = 0 /\ oLogAddr = 0 /\ fmmus = {} /\ segments = << >>
      /\ segmentsize = 0 /\ outputsWKC = 0 /\ inputsWKC = 0 /\ Obytes = 0 /\ stack = << >>
      /\ "out" \in Dirs
  BY DEF Init, Slaves, Dirs
<1>3. \A s, d : Of(s, d) = {} /\ PhysOf(s, d) = {} /\ Region(s, d) = {}
  BY <1>2 DEF Of, PhysOf, Region
<1>4. \A s \in Slaves : \A d : ~Ready(s, d)
  BY <1>2 DEF Ready, Slaves, Dirs
<1>5. Total(segments) = 0 /\ Cuts = {0} /\ Len(segments) = 0 /\ DOMAIN segments = {}
  <2>1. segments \in Seq(Nat) /\ Len(segments) = 0 /\ DOMAIN segments = {}
    BY <1>2
  <2>2. Upto(segments)[0] = 0
    BY <2>1, UptoSeq
  <2>3. 0 .. 0 = {0}
    OBVIOUS
  <2> QED
    BY <2>1, <2>2, <2>3 DEF Total, Cuts
<1>6. ImageInv /\ OwnerInv
  BY <1>2, <1>3 DEF ImageInv, OwnerInv, Dirs
<1>7. SegInv
  <2>1. 0 + 0 = 0 /\ 0 - 0 \in {0, 1} /\ (0 - 0) - 0 \in {0, 1}
    OBVIOUS
  <2> QED
    BY <1>2, <1>5, <2>1 DEF SegInv, Mapped, Mapping
<1>8. CutInv
  BY <1>2, <1>3, <1>5 DEF CutInv, Beside
<1>9. LimitInv /\ OffsetInv
  BY <1>2, <1>5 DEF LimitInv, OffsetInv
<1>10. PhysInv
  <2>1. Bytes(slave, pc) > 0 => BitCount < Bits(slave, pc)
    BY <1>1, <1>2, SlaveIs
  <2>2. SMsOf(slave, pc, SMc - 1) = {}
    BY <1>2 DEF SMsOf
  <2>3. ~(SMc > 1) /\ PhysOf(slave, pc) = {} /\ FMMUdone = ByteCount
    BY <1>2, <1>3
  <2> QED
    BY <1>4, <2>1, <2>2, <2>3, Zenon DEF PhysInv
<1>11. HandInv
  <2>1. Start(slave, pc) = 0
    BY <1>1, <1>2, NextStart
  <2>2. 0 = 0 + 0 /\ {} = 0 .. 0 + 0 - 1
    OBVIOUS
  <2> QED
    BY <1>2, <1>3, <1>4, <2>1, <2>2 DEF HandInv
<1>12. CountInv
  <2>1. \A d : {s \in Has(d) : Ready(s, d)} = {}
    BY <1>4 DEF Has
  <2> QED
    BY <1>2, <2>1, FS_EmptySet DEF CountInv
<1>13. StackInv /\ FreshInv
  BY <1>2 DEF StackInv, FreshInv
<1> QED
  BY <1>1, <1>6, <1>7, <1>8, <1>9, <1>10, <1>11, <1>12, <1>13 DEF IndInv

LEMMA StepInd == IndInv /\ [Next]_vars => IndInv'
<1> SUFFICES ASSUME IndInv, [Next]_vars PROVE IndInv'
  OBVIOUS
<1> USE DEF IndInv
<1>1. TypeInv'
  BY TypeStep
<1>2. WalkInv'
  BY <1>1, WalkStep
<1>3. ImageInv'
  BY <1>1, ImageStep
<1>4. OwnerInv'
  BY <1>1, OwnerStep
<1>5. SegInv'
  BY <1>1, <1>2, SegStep
<1>6. CutInv'
  BY <1>1, CutStep
<1>7. LimitInv'
  BY <1>1, LimitStep
<1>8. OffsetInv'
  BY <1>1, OffsetStep
<1>9. PhysInv'
  BY <1>1, PhysStep
<1>10. HandInv'
  BY <1>1, HandStep
<1>11. CountInv'
  BY CountStep
<1>12. StackInv'
  BY StackStep
<1>13. FreshInv'
  BY <1>1, FreshStep
<1> QED
  BY <1>1, <1>2, <1>3, <1>4, <1>5, <1>6, <1>7, <1>8, <1>9, <1>10, <1>11, <1>12, <1>13

\* The invariant that the four properties follow from: of ec_config, of the frames of
\* a cycle and of the windows of the hands.
THEOREM Inductive == Spec => []IndInv
BY InitInd, StepInd, PTL DEF Spec

\* ec_config: no two FMMUs share a bit of the IOmap, outputs and inputs are apart, and
\* the sync managers of a plain slave are mapped whole, for any slaves in any order.
THEOREM MappedWell == Spec => []WellMapped
<1>1. IndInv => WellMapped
  <2> SUFFICES ASSUME IndInv, Mapped PROVE WellMapped
    BY DEF WellMapped
  <2> USE DEF IndInv
  <2>1. pc \notin Dirs /\ pc # "out" /\ BitPos = 0
    BY DEF Mapped, Dirs, ImageInv
  <2>2. \A m \in fmmus : Area(m) \subseteq IF m.dir = "out" THEN 0 .. Obytes - 1 ELSE Obytes .. LogAddr - 1
    <3> TAKE m \in fmmus
    <3>1. m.from \in Nat /\ m.length \in Nat /\ m.endbit \in Nat /\ Obytes \in Nat /\ LogAddr \in Nat
      BY DEF TypeInv, FmmuType
    <3>2. IF m.dir = "out" THEN m.from + m.length <= Obytes ELSE m.from >= Obytes
      BY <2>1 DEF ImageInv
    <3>3. m.from + m.length <= LogAddr
      <4>1. 8 * (m.from + m.length - 1) + m.endbit < 8 * LogAddr + 0
        BY <2>1 DEF ImageInv, Before
      <4> QED
        BY <3>1, <4>1
    <3> QED
      BY <3>1, <3>2, <3>3 DEF Area
  <2>3. Apart
    BY <2>2 DEF Apart, ImageInv
  <2>4. \A s \in Slaves, d \in {"out", "in"} : Bytes(s, d) > 0 /\ Plain(s, d) => Covered(s, d)
    BY <2>1 DEF PhysInv, Ready, Dirs
  <2> QED
    BY <2>3, <2>4 DEF WellMapped
<1> QED
  BY <1>1, Inductive, PTL

\* The segments that ec_config cuts the image into hold all of it, none is longer than
\* a frame, and no slave with bytes of its own lies across the end of one.
THEOREM FramesDoFit == Spec => []FramesFit
<1>1. IndInv => FramesFit
  <2> SUFFICES ASSUME IndInv, Mapped PROVE FramesFit
    BY DEF FramesFit
  <2> USE DEF IndInv
  <2>1. Total(segments) = LogAddr
    BY DEF SegInv, Mapped, Mapping
  <2>2. (\A s \in Slaves, d \in {"out", "in"} : Bytes(s, d) < Limit)
           => \A k \in DOMAIN segments : segments[k] <= Limit
    BY DEF LimitInv, Small, Dirs
  <2>3. \A m \in fmmus : Split(m) => Bytes(m.slave, m.dir) = 0
    <3> SUFFICES ASSUME NEW m \in fmmus, Split(m), Bytes(m.slave, m.dir) # 0 PROVE FALSE
      OBVIOUS
    <3>1. m.slave \in Slaves /\ m.dir \in Dirs /\ m.from \in Nat /\ m.length \in Nat
          /\ m \in Of(m.slave, m.dir)
      BY DEF TypeInv, FmmuType, Of
    <3>2. segments \in Seq(Nat) /\ Len(segments) \in Nat /\ DOMAIN segments = 1 .. Len(segments)
          /\ Upto(segments) \in [0 .. Len(segments) -> Nat]
      BY UptoSeq, LenProperties DEF TypeInv
    <3>3. PICK k \in DOMAIN segments : m.from < Upto(segments)[k] /\ Upto(segments)[k] < m.from + m.length
      BY DEF Split
    <3>4. Upto(segments)[k] \in Cuts /\ Upto(segments)[k] \in Nat
      BY <3>2, <3>3 DEF Cuts
    <3>5. Bytes(m.slave, m.dir) > 0
      BY <3>1, SlaveIs
    <3>6. Beside(Upto(segments)[k], m.slave, m.dir)
      BY <3>1, <3>4, <3>5 DEF CutInv
    <3> QED
      BY <3>1, <3>3, <3>4, <3>6 DEF Beside
  <2> QED
    BY <2>1, <2>2, <2>3 DEF FramesFit
<1> QED
  BY <1>1, Inductive, PTL

\* ec_receive_processdata: a working counter that is as expected means that every
\* slave has exchanged all its data in this cycle.
THEOREM FreshWhenComplete == Spec => []CompleteIsFresh
<1>1. IndInv => CompleteIsFresh
  <2> SUFFICES ASSUME IndInv, pc = "receive", stack = << >>, wkc >= expectedWKC, \A m \in fmmus : ~Split(m)
               PROVE  served = UNION {{<<m, a>> : a \in Area(m)} : m \in fmmus}
    BY DEF CompleteIsFresh
  <2> USE DEF IndInv
  <2> DEFINE ho == Has("out")
             hi == Has("in")
             ao == All("out")
             ai == All("in")
  <2>1. ao \subseteq ho /\ ai \subseteq hi /\ ho \subseteq Slaves /\ hi \subseteq Slaves
    BY DEF All, Has
  <2>2. outputsWKC = Cardinality(ho) /\ inputsWKC = Cardinality(hi)
    <3>1. \A s, d : Ready(s, d)
      BY DEF Ready, Dirs
    <3>2. {s \in Has("out") : Ready(s, "out")} = ho /\ {s \in Has("in") : Ready(s, "in")} = hi
      BY <3>1
    <3> QED
      BY <3>2 DEF CountInv
  <2>3. wkc <= 2 * Cardinality(ao) + Cardinality(ai)
    BY DEF FreshInv
  <2>4. expectedWKC = Cardinality(ho) * 2 + Cardinality(hi)
    BY <2>2 DEF expectedWKC
  <2>5. wkc \in Nat
    BY DEF TypeInv
  <2> HIDE DEF ho, hi, ao, ai
  <2>6. /\ IsFiniteSet(ho) /\ IsFiniteSet(hi) /\ Cardinality(ho) \in Nat /\ Cardinality(hi) \in Nat
        /\ Cardinality(ao) \in Nat /\ Cardinality(ai) \in Nat
    <3>1. ao \subseteq Slaves /\ ai \subseteq Slaves
      BY <2>1
    <3> QED
      BY <2>1, <3>1, SlavesFinite
  <2>7. Cardinality(ao) <= Cardinality(ho) /\ Cardinality(ai) <= Cardinality(hi)
    BY <2>1, <2>6, FS_Subset
  <2>8. Cardinality(ao) = Cardinality(ho) /\ Cardinality(ai) = Cardinality(hi)
    BY <2>3, <2>4, <2>5, <2>6, <2>7
  <2>9. ao = ho /\ ai = hi
    BY <2>1, <2>6, <2>8, FS_Subset
  <2>10. \A m \in fmmus : \A a \in Area(m) : <<m, a>> \in served
    <3> TAKE m \in fmmus
    <3>1. m.slave \in Has(m.dir) /\ m.dir \in Dirs /\ m \in Of(m.slave, m.dir)
      BY DEF OwnerInv, TypeInv, FmmuType, Has, Of
    <3>2. m.slave \in All(m.dir)
      BY <2>9, <3>1 DEF Dirs, ho, hi, ao, ai
    <3> QED
      BY <3>1, <3>2 DEF All
  <2>11. \A p \in served : \E m \in fmmus : \E a \in Area(m) : p = <<m, a>>
    BY DEF FreshInv
  <2> QED
    BY <2>10, <2>11
<1> QED
  BY <1>1, Inductive, PTL

-----------------------------------------------------------------------------
(* The windows of the hands                                                *)

\* ethercat_run serves as many hands as are configured and fit in the image, and at
\* least one.
LEMMA Quotient ==
  ASSUME NEW a \in Nat, NEW b \in Nat \ {0}
  PROVE  a \div b \in Nat /\ b * (a \div b) <= a
OBVIOUS

LEMMA LeastOfThree ==
  ASSUME NEW a \in Nat, NEW b \in Nat, NEW c \in Nat
  PROVE  Min({a, b, c}) \in Nat /\ Min({a, b, c}) <= b /\ Min({a, b, c}) <= c
<1>1. \E n \in {a, b, c} : \A y \in {a, b, c} : n <= y
  OBVIOUS
<1> QED
  BY <1>1 DEF Min

LEMMA AtLeastOne ==
  ASSUME NEW a \in Nat
  PROVE  Max({1, a}) = IF a > 1 THEN a ELSE 1
<1>1. \A x \in {1, a} : (\A y \in {1, a} : x >= y) <=> x = IF a > 1 THEN a ELSE 1
  OBVIOUS
<1>2. \E x \in {1, a} : \A y \in {1, a} : x >= y
  OBVIOUS
<1> QED
  BY <1>1, <1>2 DEF Max

LEMMA Fewer ==
  ASSUME NEW w \in Nat \ {0}, NEW n \in Nat, NEW o \in Nat, w * n <= o
  PROVE  /\ \A h \in 1 .. n : w * h <= o
         /\ \A k \in Nat : o = w * k => n <= k
<1>1. ASSUME NEW h \in 1 .. n PROVE w * h <= o
  <2>1. w * h <= w * n
    OBVIOUS
  <2>2. w * h \in Nat /\ w * n \in Nat
    OBVIOUS
  <2> QED
    BY <2>1, <2>2
<1>2. ASSUME NEW k \in Nat, o = w * k, n >= k + 1 PROVE FALSE
  <2>1. w * n >= w * (k + 1)
    BY <1>2
  <2>2. w * (k + 1) = w * k + w
    OBVIOUS
  <2>3. w * n \in Nat /\ w * k \in Nat
    OBVIOUS
  <2> QED
    BY <1>2, <2>1, <2>2, <2>3
<1> QED
  BY <1>1, <1>2

LEMMA ActiveHandsAre ==
  ASSUME Obytes \in Nat, Ibytes \in Nat
  PROVE  \E n \in Nat : /\ ActiveHands = IF n > 1 THEN n ELSE 1
                        /\ WriteNum * n <= Obytes /\ ReadNum * n <= Ibytes
<1> DEFINE q == Obytes \div WriteNum
           r == Ibytes \div ReadNum
           n == Min({kHandNum, q, r})
<1>1. q \in Nat /\ WriteNum * q <= Obytes /\ r \in Nat /\ ReadNum * r <= Ibytes
  BY Quotient
<1>2. ActiveHands = Max({1, n})
  BY DEF ActiveHands
<1> HIDE DEF q, r
<1>3. n \in Nat /\ n <= q /\ n <= r
  BY <1>1, LeastOfThree
<1> HIDE DEF n
<1>4. ActiveHands = IF n > 1 THEN n ELSE 1
  BY <1>2, <1>3, AtLeastOne
<1>5. \A w \in Nat \ {0} : \A k \in Nat : n <= k => w * n <= w * k /\ w * n \in Nat /\ w * k \in Nat
  BY <1>3
<1>6. WriteNum * n <= Obytes
  <2>1. WriteNum * n <= WriteNum * q /\ WriteNum * n \in Nat /\ WriteNum * q \in Nat
    BY <1>1, <1>3, <1>5
  <2> QED
    BY <1>1, <2>1
<1>7. ReadNum * n <= Ibytes
  <2>1. ReadNum * n <= ReadNum * r /\ ReadNum * n \in Nat /\ ReadNum * r \in Nat
    BY <1>1, <1>3, <1>5
  <2> QED
    BY <1>1, <2>1
<1> QED
  BY <1>3, <1>4, <1>6, <1>7

\* ethercat_run: what is written and read for a hand lies in its direction of the
\* image, and in what is mapped to that hand if the hands come first.
THEOREM WindowsAreOwn == Spec => []OwnWindow
<1>1. IndInv => OwnWindow
  <2> SUFFICES ASSUME IndInv, Mapped, NEW h \in 1 .. ActiveHands
               PROVE  /\ Obytes >= WriteNum /\ Ibytes >= ReadNum =>
                            /\ TxWindow(h) \subseteq 0 .. Obytes - 1
                            /\ RxWindow(h) \subseteq Obytes .. LogAddr - 1
                      /\ (\A s \in 1 .. Least(h, N) : IsHand(s)) =>
                            /\ h <= N
                            /\ Region(h, "out") = TxWindow(h)
                            /\ Region(h, "in") = RxWindow(h)
    BY DEF OwnWindow
  <2> USE DEF IndInv
  <2>1. pc \notin Dirs /\ pc # "out"
    BY DEF Mapped, Dirs
  <2>2. Obytes \in Nat /\ LogAddr \in Nat /\ Ibytes \in Nat /\ LogAddr = Obytes + Ibytes
    BY <2>1 DEF ImageInv, TypeInv, Ibytes
  <2>3. PICK n \in Nat : /\ ActiveHands = IF n > 1 THEN n ELSE 1
                         /\ WriteNum * n <= Obytes /\ ReadNum * n <= Ibytes
    BY <2>2, ActiveHandsAre
  <2>4. h \in Nat \ {0} /\ (h \in 1 .. n \/ h = 1)
    BY <2>3
  <2>5. \A w \in Nat \ {0} : /\ w * (h - 1) \in Nat /\ w * h \in Nat /\ w * 1 = w
                             /\ w * h = w * (h - 1) + w
    <3>1. PICK g \in Nat : h = g + 1
      <4>1. h - 1 \in Nat /\ h = (h - 1) + 1
        BY <2>4
      <4> QED
        BY <4>1
    <3>2. \A w \in Nat \ {0} : w * g \in Nat /\ w * (g + 1) \in Nat /\ w * 1 = w /\ w * (g + 1) = w * g + w
      BY <3>1
    <3>3. h - 1 = g
      BY <3>1
    <3> QED
      BY <3>1, <3>2, <3>3
  <2>6. ASSUME Obytes >= WriteNum, Ibytes >= ReadNum
        PROVE  TxWindow(h) \subseteq 0 .. Obytes - 1 /\ RxWindow(h) \subseteq Obytes .. LogAddr - 1
    <3>1. WriteNum * h <= Obytes /\ ReadNum * h <= Ibytes
      <4>1. CASE h = 1
        BY <2>5, <2>6, <4>1
      <4>2. CASE h \in 1 .. n
        BY <2>2, <2>3, <4>2, Fewer
      <4> QED
        BY <2>4, <4>1, <4>2
    <3>2. PICK a \in Nat, b \in Nat, c \in Nat, e \in Nat :
             a = WriteNum * (h - 1) /\ b = WriteNum * h /\ c = ReadNum * (h - 1) /\ e = ReadNum * h
      BY <2>5
    <3>3. a .. b - 1 \subseteq 0 .. Obytes - 1 /\ Obytes + c .. Obytes + e - 1 \subseteq Obytes .. LogAddr - 1
      BY <2>2, <3>1, <3>2
    <3> QED
      BY <3>2, <3>3, Zenon DEF TxWindow, RxWindow
  <2>7. ASSUME \A s \in 1 .. Least(h, N) : IsHand(s)
        PROVE  h <= N /\ Region(h, "out") = TxWindow(h) /\ Region(h, "in") = RxWindow(h)
    <3>1. h <= N
      <4> SUFFICES ASSUME ~(h <= N) PROVE FALSE
        OBVIOUS
      <4>1. Least(h, N) = N /\ h \in 1 .. n /\ h <= n
        BY <2>4 DEF Least
      <4>2. Obytes = WriteNum * N
        BY <2>1, <2>7, <4>1 DEF HandInv, Hands
      <4>3. n <= N
        BY <2>2, <2>3, <4>2, Fewer
      <4> QED
        BY <2>4, <4>1, <4>3
    <3>2. h \in Slaves /\ Hands(h)
      <4>1. \A s \in 1 .. h : s \in 1 .. Least(h, N)
        BY <2>4, <3>1 DEF Least
      <4> QED
        BY <2>4, <2>7, <3>1, <4>1 DEF Hands, Slaves
    <3>3. \A d \in Dirs : Region(h, d) = Start(h, d) .. Start(h, d) + Width(d) - 1
      <4>1. \A d \in Dirs : Ready(h, d)
        BY <2>1 DEF Ready
      <4> QED
        BY <3>2, <4>1 DEF HandInv
    <3>4. PICK a \in Nat, b \in Nat, c \in Nat, e \in Nat :
             a = WriteNum * (h - 1) /\ b = WriteNum * h /\ c = ReadNum * (h - 1) /\ e = ReadNum * h
      BY <2>5
    <3>5. b = a + WriteNum /\ e = c + ReadNum
      BY <2>5, <3>4
    <3>6. Start(h, "out") = 0 + a /\ Start(h, "in") = Obytes + c
      BY <3>4 DEF Start, Width
    <3>7. /\ (0 + a) .. (0 + a) + WriteNum - 1 = a .. b - 1
          /\ (Obytes + c) .. (Obytes + c) + ReadNum - 1 = Obytes + c .. Obytes + e - 1
      BY <2>2, <3>5
    <3>8. /\ Region(h, "out") = Start(h, "out") .. Start(h, "out") + WriteNum - 1
          /\ Region(h, "in") = Start(h, "in") .. Start(h, "in") + ReadNum - 1
      BY <3>3 DEF Dirs, Width
    <3>9. TxWindow(h) = a .. b - 1 /\ RxWindow(h) = Obytes + c .. Obytes + e - 1
      BY <3>4 DEF TxWindow, RxWindow
    <3> QED
      BY <3>1, <3>6, <3>7, <3>8, <3>9, Zenon
  <2> QED
    BY <2>6, <2>7
<1> QED
  BY <1>1, Inductive, PTL
=============================================================================
