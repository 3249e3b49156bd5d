--------------------------- MODULE TrajFollowProof ---------------------------
(***************************************************************************)
(* Proofs about the control callback, for every number of waypoints, every *)
(* joint range, all times and all control periods.                         *)
(***************************************************************************)
EXTENDS TrajFollow, WellFoundedInduction, TLAPS

(***************************************************************************)
(* Arithmetic of lerp7                                                     *)
(***************************************************************************)

\* Multiplying by a natural number keeps the order.
LEMMA ScaleLeft ==
  ASSUME NEW x \in Int, NEW y \in Int, NEW k \in Nat, x <= y
  PROVE  x * k <= y * k
<1>1. (y - x) * k >= 0
  OBVIOUS
<1>2. (y - x) * k = y * k - x * k
  OBVIOUS
<1>3. x * k \in Int /\ y * k \in Int
  OBVIOUS
<1> QED
  BY <1>1, <1>2, <1>3

\* Between its two times, the interpolation of two positions within a range
\* stays within that range.
LEMMA LerpBounded ==
  ASSUME NEW a \in Lower .. Upper, NEW b \in Lower .. Upper,
         NEW s \in Int, NEW u \in Int, NEW e \in Int, s <= e, e <= u,
         FollowAssumption
  PROVE  LET f == Lerp(a, b, s, u, e)
         IN  f \in Fraction /\ Lower * f.den <= f.num /\ f.num <= Upper * f.den
<1>a. /\ Lower \in Int /\ Upper \in Int /\ a \in Int /\ b \in Int
      /\ Lower <= a /\ a <= Upper /\ Lower <= b /\ b <= Upper
  BY DEF FollowAssumption
<1>1. CASE u > s
  <2> DEFINE x == u - e
             y == e - s
  <2>1. x \in Nat /\ y \in Nat /\ u - s = x + y /\ u - s \in Nat \ {0}
    BY <1>1
  <2> HIDE DEF x, y
  <2>2. Lower * x <= a * x /\ a * x <= Upper * x
    BY <1>a, <2>1, ScaleLeft
  <2>3. Lower * y <= b * y /\ b * y <= Upper * y
    BY <1>a, <2>1, ScaleLeft
  <2>4. a * (x + y) + y * (b - a) = a * x + b * y
    BY <1>a, <2>1
  <2>5. Lower * (x + y) = Lower * x + Lower * y /\ Upper * (x + y) = Upper * x + Upper * y
    BY <1>a, <2>1
  <2>6. /\ Lower * x \in Int /\ Lower * y \in Int /\ Upper * x \in Int /\ Upper * y \in Int
        /\ a * x \in Int /\ b * y \in Int
    BY <1>a, <2>1
  <2>7. Lower * (x + y) <= a * x + b * y /\ a * x + b * y <= Upper * (x + y)
    BY <2>2, <2>3, <2>5, <2>6
  <2>8. Lerp(a, b, s, u, e) = [num |-> a * x + b * y, den |-> x + y]
    BY <1>1, <2>1, <2>4 DEF Lerp, y
  <2> QED
    BY <2>1, <2>6, <2>7, <2>8 DEF Fraction
<1>2. CASE ~(u > s)
  <2>1. Lerp(a, b, s, u, e) = [num |-> a, den |-> 1]
    BY <1>2 DEF Lerp
  <2> QED
    BY <1>a, <2>1 DEF Fraction
<1> QED
  BY <1>1, <1>2

(***************************************************************************)
(* The search                                                              *)
(***************************************************************************)

Times == len \in UpTo(MaxPts) /\ t \in [UpTo(len) -> 0 .. Horizon]

\* The loop over the segments stops at the first that contains the elapsed time.
LEMMA HasLeast ==
  ASSUME NEW S, S \subseteq Nat, S # {}
  PROVE  \E k \in S : \A l \in S : k <= l
<1>1. PICK k \in S : \A l \in S : ~(<<l, k>> \in OpToRel(<, Nat))
  BY NatLessThanWellFounded, WFMin
<1>2. \A l \in S : ~(l < k)
  BY <1>1 DEF OpToRel
<1> QED
  BY <1>2

\* There is one: the segment that begins last.
LEMMA HasGreatest ==
  ASSUME NEW b \in Nat, NEW S, S \subseteq 0 .. b, S # {}
  PROVE  \E k \in S : \A l \in S : l <= k
<1> DEFINE D == {b - l : l \in S}
<1>1. D \subseteq Nat /\ \A l \in S : b - l \in D
  OBVIOUS
<1>2. PICK d \in D : \A e \in D : d <= e
  <2> HIDE DEF D
  <2> QED
    BY <1>1, HasLeast
<1>3. PICK k \in S : d = b - k
  BY <1>2
<1>4. \A l \in S : b - k <= b - l
  BY <1>1, <1>2, <1>3, Zenon
<1>5. \A l \in S : l \in Int /\ (b - k <= b - l => l <= k)
  BY <1>3
<1> QED
  BY <1>4, <1>5

\* From the first time on and before the end, the search finds a segment, and the one
\* it finds contains the elapsed time: t[seg + 1] exists.
LEMMA SegmentFound ==
  ASSUME FollowAssumption, Times, NEW e \in Nat, t[1] <= e, e < total_dur
  PROVE  /\ Segment(e) \in 1 .. len - 1
         /\ t[Segment(e)] <= e /\ e < t[Segment(e) + 1]
<1>a. len \in Nat \ {0}
  BY DEF Times, UpTo, FollowAssumption
<1> DEFINE S == {i \in 1 .. len : t[i] <= e}
<1>1. S \subseteq 0 .. len /\ 1 \in S
  BY <1>a DEF Times
<1>2. PICK m \in S : \A l \in S : l <= m
  <2> HIDE DEF S
  <2> QED
    BY <1>a, <1>1, HasGreatest
<1>3. m # len
  BY <1>a, <1>2 DEF total_dur, Times, UpTo, FollowAssumption
<1>4. m \in 1 .. len - 1 /\ m + 1 \in 1 .. len /\ m + 1 \notin S
  BY <1>a, <1>2, <1>3
<1>5. t[m + 1] \in Int /\ t[m] \in Int
  BY <1>4 DEF Times, UpTo, FollowAssumption
<1>6. m \in Containing(e)
  BY <1>2, <1>4, <1>5 DEF Containing
<1>7. Containing(e) \subseteq Nat
  BY <1>a DEF Containing
<1>8. Segment(e) \in Containing(e)
  <2>1. \E k \in Containing(e) : \A l \in Containing(e) : k <= l
    BY <1>6, <1>7, HasLeast
  <2> QED
    BY <1>6, <2>1 DEF Segment
<1> QED
  BY <1>8 DEF Containing

Increasing == \A i \in UpTo(len) : i > 1 => t[i] > t[i - 1]

\* Validation compares each time with the one before it; that orders them all.
LEMMA TimesOrdered ==
  ASSUME FollowAssumption, Times, Increasing, NEW i \in 1 .. len, NEW k \in 1 .. len, i < k
  PROVE  t[i] < t[k]
<1>a. len \in Nat /\ \A j \in 1 .. len : t[j] \in Int
  BY DEF Times, UpTo, FollowAssumption
<1> DEFINE S == {j \in 1 .. len : j > i /\ t[j] <= t[i]}
<1> SUFFICES ASSUME S # {} PROVE FALSE
  BY <1>a
<1>1. S \subseteq Nat
  BY <1>a
<1>2. PICK m \in S : \A l \in S : m <= l
  <2> HIDE DEF S
  <2> QED
    BY <1>1, HasLeast
<1>3. m \in 1 .. len /\ m > i /\ t[m] <= t[i] /\ m - 1 \in 1 .. len /\ m - 1 >= i /\ m - 1 \notin S
  BY <1>a, <1>2
<1>4. t[m - 1] < t[m]
  BY <1>3 DEF Increasing, UpTo
<1>5. CASE m - 1 = i
  BY <1>a, <1>3, <1>4, <1>5
<1>6. CASE m - 1 > i
  <2>1. t[m - 1] > t[i]
    BY <1>a, <1>3, <1>6
  <2> QED
    BY <1>a, <1>3, <1>4, <2>1
<1> QED
  BY <1>a, <1>3, <1>5, <1>6

(***************************************************************************)
(* The callback                                                            *)
(***************************************************************************)

\* Before the first time no segment contains the elapsed time.
LEMMA SegmentBefore ==
  ASSUME FollowAssumption, Times, Increasing, NEW e \in Nat, e < t[1]
  PROVE  Segment(e) = 1
<1>1. Containing(e) = {}
  <2> SUFFICES ASSUME NEW i \in 1 .. len - 1, e >= t[i] PROVE FALSE
    BY DEF Containing
  <2>1. len \in Nat /\ i \in 1 .. len /\ 1 \in 1 .. len /\ t[i] \in Int /\ t[1] \in Int
    BY DEF Times, UpTo, FollowAssumption
  <2>2. 1 < i => t[1] < t[i]
    BY <2>1, TimesOrdered
  <2> QED
    BY <2>1, <2>2
<1> QED
  BY <1>1 DEF Segment

\* A line that is within a range at 0 and at s is within it everywhere between: its
\* values at e, s and 0 are m + (e - s) * h, m and m - s * h.
LEMMA LineBounded ==
  ASSUME NEW m \in Int, NEW h \in Int, NEW s \in Nat, NEW e \in Nat, e <= s,
         NEW lo \in Int, NEW hi \in Int, lo <= m, m <= hi,
         lo <= m + (0 - s) * h, m + (0 - s) * h <= hi
  PROVE  lo <= m + (e - s) * h /\ m + (e - s) * h <= hi
<1>1. CASE h >= 0
  <2>1. (0 - s) * h <= (e - s) * h /\ (e - s) * h <= 0 * h
    BY <1>1, ScaleLeft
  <2>2. (0 - s) * h \in Int /\ (e - s) * h \in Int /\ 0 * h = 0
    OBVIOUS
  <2> QED
    BY <2>1, <2>2
<1>2. CASE h <= 0
  <2> DEFINE g == 0 - h
  <2>1. g \in Nat /\ (0 - s) * h = s * g /\ (e - s) * h = (s - e) * g
    BY <1>2
  <2> HIDE DEF g
  <2>2. 0 * g <= (s - e) * g /\ (s - e) * g <= s * g
    BY <2>1, ScaleLeft
  <2>3. (s - e) * g \in Int /\ s * g \in Int /\ 0 * g = 0
    BY <2>1
  <2> QED
    BY <2>1, <2>2, <2>3
<1> QED
  BY <1>1, <1>2

\* Before its first waypoint, a segment stays within the limits if it begins there.
LEMMA LerpBefore ==
  ASSUME FollowAssumption, NEW a \in Lower .. Upper, NEW b \in Int,
         NEW s \in Nat, NEW u \in Int, s < u, NEW e \in Nat, e <= s,
         WithinLimits(Lerp(a, b, s, u, 0))
  PROVE  WithinLimits(Lerp(a, b, s, u, e))
<1> DEFINE d == u - s
           h == b - a
           m == a * d
           lo == Lower * d
           hi == Upper * d
<1>a. Lower \in Int /\ Upper \in Int /\ a \in Int /\ Lower <= a /\ a <= Upper
  BY DEF FollowAssumption
<1>1. d \in Nat /\ h \in Int
  BY <1>a
<1>2. /\ Lerp(a, b, s, u, e) = [num |-> m + (e - s) * h, den |-> d]
      /\ Lerp(a, b, s, u, 0) = [num |-> m + (0 - s) * h, den |-> d]
  BY DEF Lerp
<1>3. lo <= m + (0 - s) * h /\ m + (0 - s) * h <= hi
  BY <1>2 DEF WithinLimits
<1> HIDE DEF d, h
<1>4. lo <= m /\ m <= hi /\ m \in Int /\ lo \in Int /\ hi \in Int
  BY <1>a, <1>1, ScaleLeft
<1> HIDE DEF m, lo, hi
<1>5. lo <= m + (e - s) * h /\ m + (e - s) * h <= hi
  BY <1>1, <1>3, <1>4, LineBounded
<1> QED
  BY <1>2, <1>5 DEF WithinLimits, lo, hi

\* Whatever lies behind the vectors, a command is a fraction.
LEMMA DesiredIsFraction ==
  ASSUME FollowAssumption, Times, q \in [UpTo(len) -> Lower .. Upper],
         NEW e \in Nat, NEW f \in Desired(e)
  PROVE  f \in Fraction
<1>a. len \in Nat \ {0} /\ \A j \in 1 .. len : t[j] \in Int /\ q[j] \in Int
  BY DEF Times, UpTo, FollowAssumption
<1>b. 1 \in 1 .. len /\ len \in 1 .. len
  BY <1>a
<1>1. ASSUME NEW a \in Int, NEW b \in Int, NEW s \in Int, NEW u \in Int
      PROVE  Lerp(a, b, s, u, e) \in Fraction
  BY <1>1 DEF Lerp, Fraction
<1>2. Segment(e) \in 1 .. len
  <2>1. CASE Containing(e) = {}
    BY <1>a, <2>1 DEF Segment
  <2>2. CASE Containing(e) # {}
    <3>1. Containing(e) \subseteq Nat
      BY <1>a DEF Containing
    <3>2. \E k \in Containing(e) : \A l \in Containing(e) : k <= l
      BY <2>2, <3>1, HasLeast
    <3>3. Segment(e) \in Containing(e)
      BY <2>2, <3>2 DEF Segment
    <3> QED
      BY <1>a, <3>3 DEF Containing
  <2> QED
    BY <2>1, <2>2
<1>3. CASE f = [num |-> q[len], den |-> 1]
  BY <1>a, <1>b, <1>3 DEF Fraction
<1>4. CASE Segment(e) < len /\ f = Lerp(q[Segment(e)], q[Segment(e) + 1], t[Segment(e)], t[Segment(e) + 1], e)
  <2>1. Segment(e) + 1 \in 1 .. len
    BY <1>a, <1>2, <1>4
  <2> QED
    BY <1>a, <1>1, <1>2, <1>4, <2>1
<1>5. ASSUME NEW b \in Junk, NEW u \in Junk, f = Lerp(q[1], b, t[1], u, e)
      PROVE  f \in Fraction
  BY <1>a, <1>b, <1>1, <1>5 DEF FollowAssumption
<1> QED
  BY <1>3, <1>4, <1>5 DEF Desired

\* Every command is a fraction with a denominator above 0 (franka_right_arm.cpp:187: the
\* division by dt is made only when there is a time between the two waypoints).
THEOREM CommandsAreFractions == Spec => []FollowTypeOK
<1> USE FollowAssumption
<1>1. Init => FollowTypeOK
  <2> SUFFICES ASSUME Init PROVE FollowTypeOK
    OBVIOUS
  <2>1. q[1] \in Int
    BY DEF Init, UpTo
  <2> QED
    BY <2>1 DEF Init, FollowTypeOK, Fraction
<1>2. ASSUME FollowTypeOK, NEW p \in Nat, Callback(p)
      PROVE  FollowTypeOK'
  <2>1. elapsed' \in Nat /\ UNCHANGED <<len, q, t>> /\ cmd' \in Desired(elapsed')
        /\ st' \in {"moving", "finished"}
    BY <1>2 DEF FollowTypeOK, Callback, traj
  <2>2. cmd' \in Fraction
    BY <1>2, <2>1, DesiredIsFraction DEF FollowTypeOK, Times
  <2> QED
    BY <1>2, <2>1, <2>2 DEF FollowTypeOK
<1>3. FollowTypeOK /\ [Next]_vars => FollowTypeOK'
  <2> SUFFICES ASSUME FollowTypeOK, [Next]_vars PROVE FollowTypeOK'
    OBVIOUS
  <2>1. CASE FirstCall \/ NextCall
    BY <1>2, <2>1 DEF FirstCall, NextCall
  <2>2. CASE Throw \/ UNCHANGED vars
    BY <2>2 DEF Throw, vars, traj, FollowTypeOK
  <2> QED
    BY <2>1, <2>2 DEF Next
<1> QED
  BY <1>1, <1>3, PTL DEF Spec

\* The trajectory is constant, and its waypoints are within the limits.
LimitsInv ==
    /\ Times /\ Increasing /\ q \in [UpTo(len) -> Lower .. Upper] /\ elapsed \in Nat
    /\ FirstCommandDecides

\* From the first time on a command is an interpolation or the last waypoint,
\* before it a point of the first segment extended backwards.
LEMMA DesiredWithinLimits ==
  ASSUME FollowAssumption, Times, Increasing, q \in [UpTo(len) -> Lower .. Upper],
         NEW e \in Nat, NEW f \in Desired(e),
         t[1] <= e \/ (len > 1 /\ WithinLimits(FirstCommand))
  PROVE  WithinLimits(f)
<1>b. /\ len \in Nat \ {0} /\ Lower \in Int /\ Upper \in Int
      /\ \A j \in 1 .. len : t[j] \in Nat /\ q[j] \in Lower .. Upper
  BY DEF Times, UpTo, FollowAssumption
<1>c. total_dur \in Int /\ t[1] \in Nat
  BY <1>b DEF total_dur
<1>1. CASE e >= total_dur
  <2>1. f = [num |-> q[len], den |-> 1]
    BY <1>1 DEF Desired
  <2>2. q[len] \in Lower .. Upper
    BY <1>b
  <2> QED
    BY <1>b, <2>1, <2>2 DEF WithinLimits
<1>2. CASE ~(e >= total_dur) /\ t[1] <= e
  <2>1. PICK i : i = Segment(e)
    OBVIOUS
  <2>2. i \in 1 .. len - 1 /\ t[i] <= e /\ e < t[i + 1]
    BY <1>2, <1>c, <2>1, SegmentFound
  <2>3. f = Lerp(q[i], q[i + 1], t[i], t[i + 1], e)
    BY <1>2, <1>b, <2>1, <2>2 DEF Desired
  <2>4. i \in 1 .. len /\ i + 1 \in 1 .. len
    BY <1>b, <2>2
  <2>5. /\ q[i] \in Lower .. Upper /\ q[i + 1] \in Lower .. Upper
        /\ t[i] \in Int /\ t[i + 1] \in Int
    BY <1>b, <2>4
  <2>6. e \in Int /\ t[i] <= e /\ e <= t[i + 1]
    BY <2>2, <2>5
  <2>7. LET g == Lerp(q[i], q[i + 1], t[i], t[i + 1], e)
        IN  g \in Fraction /\ Lower * g.den <= g.num /\ g.num <= Upper * g.den
    BY <2>5, <2>6, LerpBounded
  <2> QED
    BY <2>3, <2>7 DEF WithinLimits
<1>3. CASE ~(e >= total_dur) /\ ~(t[1] <= e)
  <2>1. len > 1 /\ e < t[1] /\ WithinLimits(Lerp(q[1], q[2], t[1], t[2], 0))
    BY <1>3, <1>c DEF FirstCommand
  <2>2. Segment(e) = 1
    BY <2>1, SegmentBefore
  <2>3. f = Lerp(q[1], q[2], t[1], t[2], e)
    BY <1>3, <2>1, <2>2 DEF Desired
  <2>4. 1 \in 1 .. len /\ 2 \in 1 .. len
    BY <1>b, <2>1
  <2>5. q[1] \in Lower .. Upper /\ q[2] \in Int /\ t[1] \in Nat /\ t[2] \in Int /\ e <= t[1]
    BY <1>b, <2>1, <2>4
  <2>6. t[1] < t[2]
    BY <2>4, TimesOrdered
  <2> QED
    BY <2>1, <2>3, <2>5, <2>6, LerpBefore
<1> QED
  BY <1>1, <1>2, <1>3

\* One call of the callback keeps the invariant.
LEMMA CallbackKeeps ==
  ASSUME FollowAssumption, LimitsInv, NEW p \in Nat, Callback(p)
  PROVE  LimitsInv'
<1>1. elapsed' \in Nat /\ UNCHANGED <<len, q, t>> /\ cmd' \in Desired(elapsed')
  BY DEF LimitsInv, Callback, traj
<1>2. t[1] <= elapsed' \/ (len > 1 /\ WithinLimits(FirstCommand)) => WithinLimits(cmd')
  BY <1>1, DesiredWithinLimits DEF LimitsInv
<1>3. FirstCommandDecides'
  BY <1>1, <1>2 DEF FirstCommandDecides, FirstCommand, Lerp, WithinLimits
<1> QED
  BY <1>1, <1>3 DEF LimitsInv, Times, Increasing

\* Validation of the waypoints keeps every command from the first time on within the
\* joint limits, and before it those of a motion whose first command is.
THEOREM StaysWithinLimits == Spec => []FirstCommandDecides
<1> USE FollowAssumption
<1>1. Init => LimitsInv
  BY DEF Init, LimitsInv, Times, Increasing, FirstCommandDecides, Commanding
<1>2. LimitsInv /\ [Next]_vars => LimitsInv'
  <2> SUFFICES ASSUME LimitsInv, [Next]_vars PROVE LimitsInv'
    OBVIOUS
  <2>1. CASE FirstCall \/ NextCall
    BY <2>1, CallbackKeeps DEF FirstCall, NextCall, FollowAssumption
  <2>2. CASE Throw \/ UNCHANGED vars
    BY <2>2 DEF Throw, vars, traj, LimitsInv, Times, Increasing, FirstCommandDecides,
                FirstCommand, Lerp, WithinLimits, Commanding
  <2> QED
    BY <2>1, <2>2 DEF Next
<1>3. LimitsInv => FirstCommandDecides
  BY DEF LimitsInv
<1> QED
  BY <1>1, <1>2, <1>3, PTL DEF Spec

(***************************************************************************)
(* The end of the motion                                                   *)
(***************************************************************************)

\* From the end of the path on, the command is the last waypoint.
RestInv ==
    /\ Times /\ q \in [UpTo(len) -> Lower .. Upper] /\ elapsed \in Nat
    /\ (st = "moving" /\ elapsed >= total_dur) => cmd = [num |-> q[len], den |-> 1]

\* MotionFinished is returned at rest: a control period is not longer than the
\* grace period, so a command at the last waypoint came before it.
THEOREM EndsAtRest == Spec => FinishesAtRest
<1> USE FollowAssumption
<1>1. Init => RestInv
  BY DEF Init, RestInv, Times
<1>2. ASSUME RestInv, NEW p \in Nat, Callback(p)
      PROVE  RestInv' /\ (elapsed' >= total_dur => cmd' = [num |-> q[len], den |-> 1])
  <2>1. elapsed' \in Nat /\ UNCHANGED <<len, q, t>>
    BY <1>2 DEF RestInv, Callback, traj
  <2>2. elapsed' >= total_dur => cmd' = [num |-> q[len], den |-> 1]
    BY <1>2 DEF Callback, Desired
  <2> QED
    BY <1>2, <2>1, <2>2 DEF RestInv, Times, total_dur
<1>3. RestInv /\ [Next]_vars => RestInv'
  <2> SUFFICES ASSUME RestInv, [Next]_vars PROVE RestInv'
    OBVIOUS
  <2>1. CASE FirstCall \/ NextCall
    BY <1>2, <2>1 DEF FirstCall, NextCall, FollowAssumption
  <2>2. CASE Throw \/ UNCHANGED vars
    BY <2>2 DEF Throw, vars, traj, RestInv, Times, total_dur
  <2> QED
    BY <2>1, <2>2 DEF Next
<1>4. RestInv /\ [Next]_vars
        => [st = "moving" /\ st' = "finished"
              => cmd.num = q[len] * cmd.den /\ cmd'.num = q[len] * cmd'.den]_vars
  <2> SUFFICES ASSUME RestInv, Next, st = "moving", st' = "finished"
               PROVE  cmd.num = q[len] * cmd.den /\ cmd'.num = q[len] * cmd'.den
    BY DEF vars
  <2>1. PICK p \in Periods : Callback(p)
    BY DEF Next, FirstCall, NextCall, Throw
  <2>2. p \in Nat /\ Grace \in Nat /\ p <= Grace /\ elapsed \in Nat
    BY <2>1 DEF FollowAssumption, RestInv
  <2>3. total_dur \in Int
    BY DEF RestInv, Times, UpTo, total_dur, FollowAssumption
  <2>4. elapsed' = elapsed + p /\ elapsed' >= total_dur + Grace
    BY <2>1 DEF Callback
  <2>5. elapsed >= total_dur /\ elapsed' >= total_dur
    BY <2>2, <2>3, <2>4
  <2>6. cmd = [num |-> q[len], den |-> 1]
    BY <2>5 DEF RestInv
  <2>7. cmd' = [num |-> q[len], den |-> 1]
    BY <1>2, <2>1, <2>2, <2>5
  <2>8. q[len] \in Int
    BY DEF RestInv, Times, UpTo, FollowAssumption
  <2> QED
    BY <2>6, <2>7, <2>8
<1> QED
  BY <1>1, <1>3, <1>4, PTL DEF Spec, FinishesAtRest

(***************************************************************************)
(* The path                                                                *)
(***************************************************************************)

\* Taking out a common factor.
LEMMA CommonFactor ==
  ASSUME NEW x \in Int, NEW y \in Int, NEW d \in Int, NEW w \in Int
  PROVE  (x * d - y * d) * w = d * w * (x - y)
OBVIOUS

\* The commands Desired allows lie on the polygon.
LEMMA DesiredOnPath ==
  ASSUME FollowAssumption, Times, Increasing, q \in [UpTo(len) -> Lower .. Upper],
         NEW e \in Nat, NEW f \in Desired(e),
         NEW i \in 1 .. len - 1, t[i] <= e, e <= t[i + 1]
  PROVE  (f.num - q[i] * f.den) * (t[i + 1] - t[i]) = f.den * (e - t[i]) * (q[i + 1] - q[i])
<1>a. len \in Nat /\ \A j \in 1 .. len : t[j] \in Int /\ q[j] \in Int
  BY DEF Times, UpTo, FollowAssumption
<1>b. i \in 1 .. len /\ i + 1 \in 1 .. len /\ len \in 1 .. len /\ 1 \in 1 .. len
  BY <1>a
<1>1. CASE e >= total_dur
  <2>1. f = [num |-> q[len], den |-> 1]
    BY <1>1 DEF Desired
  <2>2. i + 1 = len /\ e = t[len]
    <3>1. t[len] <= t[i + 1]
      BY <1>1, <1>a, <1>b DEF total_dur
    <3>2. ~(i + 1 < len)
      BY <1>a, <1>b, <3>1, TimesOrdered
    <3> QED
      BY <1>1, <1>a, <1>b, <3>2 DEF total_dur
  <2> QED
    BY <1>a, <1>b, <2>1, <2>2
<1>2. CASE ~(e >= total_dur)
  <2>1. PICK s : s = Segment(e)
    OBVIOUS
  <2>2. e < total_dur /\ t[1] <= e
    <3>1. i > 1 => t[1] < t[i]
      BY <1>a, <1>b, TimesOrdered
    <3> QED
      BY <1>2, <1>a, <1>b, <3>1 DEF total_dur
  <2>3. s \in 1 .. len - 1 /\ t[s] <= e /\ e < t[s + 1]
    BY <2>1, <2>2, SegmentFound
  <2>4. f = Lerp(q[s], q[s + 1], t[s], t[s + 1], e)
    BY <1>2, <1>a, <2>1, <2>3 DEF Desired
  <2>5. s \in 1 .. len /\ s + 1 \in 1 .. len /\ t[s] \in Int /\ t[s + 1] \in Int
        /\ q[s] \in Int /\ q[s + 1] \in Int
    BY <1>a, <2>3
  <2>6. f = [num |-> q[s] * (t[s + 1] - t[s]) + (e - t[s]) * (q[s + 1] - q[s]), den |-> t[s + 1] - t[s]]
    BY <2>3, <2>4, <2>5 DEF Lerp
  <2>7. i = s \/ (i + 1 = s /\ e = t[s])
    <3>1. ~(s < i)
      BY <1>a, <1>b, <2>3, <2>5, TimesOrdered
    <3>2. i < s => i + 1 = s /\ e = t[s]
      <4>1. i + 1 < s => t[i + 1] < t[s]
        BY <1>b, <2>5, TimesOrdered
      <4> QED
        BY <1>a, <1>b, <2>3, <2>5, <4>1
    <3> QED
      BY <1>b, <2>5, <3>1, <3>2
  <2>8. CASE i = s
    BY <2>5, <2>6, <2>8
  <2>9. CASE i + 1 = s /\ e = t[s]
    <3> DEFINE d == t[s + 1] - t[s]
    <3>1. d \in Int /\ f.den = d /\ f.num = q[s] * d
      BY <2>5, <2>6, <2>9
    <3>2. t[i + 1] - t[i] \in Int /\ e - t[i] = t[i + 1] - t[i] /\ q[i] \in Int /\ q[i + 1] = q[s]
      BY <1>a, <1>b, <2>9
    <3> HIDE DEF d
    <3> QED
      BY <2>5, <3>1, <3>2, CommonFactor
  <2> QED
    BY <2>7, <2>8, <2>9
<1> QED
  BY <1>1, <1>2

\* The trajectory, and the last command as the callback computed it.
PathInv ==
    /\ Times /\ Increasing /\ q \in [UpTo(len) -> Lower .. Upper] /\ elapsed \in Nat
    /\ OnPath

\* The commands trace the polygon through the waypoints, its corners and its
\* end included: the search finds the segment and lerp7 the point.
THEOREM TracesPath == Spec => []OnPath
<1> USE FollowAssumption
<1>1. Init => PathInv
  BY DEF Init, PathInv, Times, Increasing, OnPath, Commanding
<1>2. ASSUME PathInv, NEW p \in Nat, Callback(p)
      PROVE  PathInv'
  <2>1. elapsed' \in Nat /\ UNCHANGED <<len, q, t>> /\ cmd' \in Desired(elapsed')
    BY <1>2 DEF PathInv, Callback, traj
  <2>2. \A i \in 1 .. len - 1 :
          t[i] <= elapsed' /\ elapsed' <= t[i + 1]
            => (cmd'.num - q[i] * cmd'.den) * (t[i + 1] - t[i])
                 = cmd'.den * (elapsed' - t[i]) * (q[i + 1] - q[i])
    BY <1>2, <2>1, DesiredOnPath DEF PathInv
  <2>3. elapsed' >= total_dur => cmd'.num = q[len] * cmd'.den
    <3>1. q[len] \in Int
      BY <1>2 DEF PathInv, Times, UpTo, FollowAssumption
    <3> QED
      BY <2>1, <3>1 DEF Desired
  <2> QED
    BY <1>2, <2>1, <2>2, <2>3 DEF PathInv, Times, Increasing, OnPath, total_dur
<1>3. PathInv /\ [Next]_vars => PathInv'
  <2> SUFFICES ASSUME PathInv, [Next]_vars PROVE PathInv'
    OBVIOUS
  <2>1. CASE FirstCall \/ NextCall
    BY <1>2, <2>1 DEF FirstCall, NextCall, FollowAssumption
  <2>2. CASE Throw \/ UNCHANGED vars
    BY <2>2 DEF Throw, vars, traj, PathInv, Times, Increasing, OnPath, Commanding, total_dur
  <2> QED
    BY <2>1, <2>2 DEF Next
<1>4. PathInv => OnPath
  BY DEF PathInv
<1> QED
  BY <1>1, <1>3, <1>4, PTL DEF Spec

(***************************************************************************)
(* No jump                                                                 *)
(***************************************************************************)

Within(x, c) == -c <= x /\ x <= c

LEMMA AbsWithin ==
  ASSUME NEW x \in Int, NEW c \in Int
  PROVE  Abs(x) <= c <=> Within(x, c)
BY DEF Abs, Within

LEMMA ScaleWithin ==
  ASSUME NEW x \in Int, NEW c \in Int, NEW k \in Nat, Within(x, c)
  PROVE  Within(k * x, k * c) /\ k * x \in Int /\ k * c \in Int
<1>1. -c \in Int /\ (-c) * k <= x * k /\ x * k <= c * k
  BY ScaleLeft DEF Within
<1>2. x * k = k * x /\ c * k = k * c /\ (-c) * k = -(k * c) /\ k * x \in Int /\ k * c \in Int
  OBVIOUS
<1> QED
  BY <1>1, <1>2 DEF Within

LEMMA AddWithin ==
  ASSUME NEW x \in Int, NEW y \in Int, NEW c \in Int, NEW d \in Int, Within(x, c), Within(y, d)
  PROVE  Within(x + y, c + d)
BY DEF Within

\* On a segment that is not steeper than VMax, or on the line before it, a command is as
\* near to the two ends as VMax allows in the time to them.
LEMMA LerpSlope ==
  ASSUME NEW a \in Int, NEW b \in Int, NEW s \in Int, NEW u \in Int, NEW e \in Int,
         e <= u, s < u, FollowAssumption,
         NEW r, r = VMax * (u - s), Within(b - a, r),
         NEW f, f = Lerp(a, b, s, u, e)
  PROVE  /\ f.num \in Int /\ f.den \in Nat \ {0}
         /\ s <= e => Within(f.num - a * f.den, (e - s) * (VMax * f.den))
         /\ Within(b * f.den - f.num, (u - e) * (VMax * f.den))
<1> DEFINE d == u - s
           x == u - e
           y == e - s
<1>1. d \in Nat \ {0} /\ x \in Nat /\ y \in Int /\ d = x + y /\ VMax * d \in Int
      /\ b - a \in Int /\ (s <= e => y \in Nat)
  BY DEF FollowAssumption
<1>2. f.den = d /\ f.num = a * d + y * (b - a)
  BY DEF Lerp
<1>3. Within(b - a, VMax * d)
  OBVIOUS
<1> HIDE DEF d, x, y
<1>4. /\ s <= e => Within(y * (b - a), y * (VMax * d))
      /\ Within(x * (b - a), x * (VMax * d))
  BY <1>1, <1>3, ScaleWithin
<1>5. f.num \in Int /\ f.num - a * d = y * (b - a)
  BY <1>1, <1>2
<1>6. b * d - f.num = x * (b - a)
  <2>1. b * d - f.num = b * (x + y) - (a * (x + y) + y * (b - a))
    BY <1>1, <1>2
  <2>2. b * (x + y) - (a * (x + y) + y * (b - a)) = x * (b - a)
    BY <1>1
  <2> QED
    BY <2>1, <2>2
<1> QED
  BY <1>1, <1>2, <1>4, <1>5, <1>6 DEF x, y

\* Two commands on one segment ...
LEMMA SameSegment ==
  ASSUME NEW a \in Int, NEW b \in Int, NEW s \in Int, NEW u \in Int,
         NEW e \in Int, NEW w \in Int, e <= w, s < u,
         FollowAssumption, NEW r, r = VMax * (u - s), Within(b - a, r),
         NEW f, f = Lerp(a, b, s, u, e), NEW g, g = Lerp(a, b, s, u, w)
  PROVE  Within(g.num * f.den - f.num * g.den, VMax * (w - e) * f.den * g.den)
<1> DEFINE d == u - s
           z == w - e
           h == b - a
           y == e - s
<1>1. d \in Nat \ {0} /\ z \in Nat /\ h \in Int /\ y \in Int /\ VMax * d \in Int /\ w - s = y + z
  BY DEF FollowAssumption
<1>2. f.den = d /\ g.den = d /\ f.num = a * d + y * h /\ g.num = a * d + (y + z) * h
  BY DEF Lerp
<1>3. Within(h, VMax * d)
  OBVIOUS
<1> HIDE DEF d, z, h, y
<1>4. Within(z * h, z * (VMax * d)) /\ z * h \in Int /\ z * (VMax * d) \in Int
  BY <1>1, <1>3, ScaleWithin
<1>5. Within(d * (z * h), d * (z * (VMax * d)))
  BY <1>1, <1>4, ScaleWithin
<1>6. d * (z * h) = g.num * f.den - f.num * g.den
  <2>1. (a * d + (y + z) * h) * d - (a * d + y * h) * d = d * (z * h)
    BY <1>1
  <2> QED
    BY <1>2, <2>1
<1>7. d * (z * (VMax * d)) = VMax * z * f.den * g.den
  <2>1. d * (z * (VMax * d)) = VMax * z * d * d
    BY <1>1
  <2> QED
    BY <1>2, <2>1
<1> QED
  BY <1>5, <1>6, <1>7 DEF z

\* ... and two with waypoints x and y between them.
LEMMA AcrossSegments ==
  ASSUME NEW m \in Int, NEW c \in Nat \ {0}, NEW n \in Int, NEW d \in Nat \ {0},
         NEW x \in Int, NEW y \in Int, NEW v \in Nat,
         NEW r1 \in Nat, NEW r2 \in Nat, NEW r3 \in Nat,
         Within(x * c - m, r1 * (v * c)), Within(y - x, v * r2),
         Within(n - y * d, r3 * (v * d))
  PROVE  Within(n * c - m * d, v * (r1 + r2 + r3) * c * d)
<1>1. /\ Within(d * (x * c - m), d * (r1 * (v * c)))
      /\ d * (x * c - m) \in Int /\ d * (r1 * (v * c)) \in Int
  <2>1. x * c - m \in Int /\ r1 * (v * c) \in Int
    OBVIOUS
  <2> QED
    BY <2>1, ScaleWithin
<1>2. /\ Within(c * (d * (y - x)), c * (d * (v * r2)))
      /\ c * (d * (y - x)) \in Int /\ c * (d * (v * r2)) \in Int
  <2>1. y - x \in Int /\ v * r2 \in Int
    OBVIOUS
  <2>2. Within(d * (y - x), d * (v * r2)) /\ d * (y - x) \in Int /\ d * (v * r2) \in Int
    BY <2>1, ScaleWithin
  <2> QED
    BY <2>2, ScaleWithin
<1>3. /\ Within(c * (n - y * d), c * (r3 * (v * d)))
      /\ c * (n - y * d) \in Int /\ c * (r3 * (v * d)) \in Int
  <2>1. n - y * d \in Int /\ r3 * (v * d) \in Int
    OBVIOUS
  <2> QED
    BY <2>1, ScaleWithin
<1>4. Within(d * (x * c - m) + c * (d * (y - x)) + c * (n - y * d),
             d * (r1 * (v * c)) + c * (d * (v * r2)) + c * (r3 * (v * d)))
  <2> DEFINE A == d * (x * c - m)
             B == c * (d * (y - x))
             C == c * (n - y * d)
             R == d * (r1 * (v * c))
             S == c * (d * (v * r2))
             T == c * (r3 * (v * d))
  <2>1. Within(A, R) /\ Within(B, S) /\ Within(C, T)
    BY <1>1, <1>2, <1>3
  <2>2. A \in Int /\ B \in Int /\ C \in Int /\ R \in Int /\ S \in Int /\ T \in Int
    BY <1>1, <1>2, <1>3
  <2> HIDE DEF A, B, C, R, S, T
  <2>3. Within(A + B, R + S) /\ A + B \in Int /\ R + S \in Int
    BY <2>1, <2>2, AddWithin
  <2>4. Within(A + B + C, R + S + T)
    BY <2>1, <2>2, <2>3, AddWithin
  <2> QED
    BY <2>4 DEF A, B, C, R, S, T
<1>5. d * (x * c - m) + c * (d * (y - x)) + c * (n - y * d) = n * c - m * d
  OBVIOUS
<1>6. d * (r1 * (v * c)) + c * (d * (v * r2)) + c * (r3 * (v * d)) = v * (r1 + r2 + r3) * c * d
  OBVIOUS
<1> QED
  BY <1>4, <1>5, <1>6

\* The trajectory as it is followed, and no segment of it steeper than VMax.
Following ==
    /\ Times /\ Increasing /\ q \in [UpTo(len) -> Lower .. Upper] /\ elapsed \in Nat

Gentle == \A i \in 1 .. len - 1 : Abs(q[i + 1] - q[i]) <= VMax * (t[i + 1] - t[i])

\* Neither is the way between any two waypoints.
LEMMA WaypointsApart ==
  ASSUME FollowAssumption, Following, Gentle, NEW i \in 1 .. len, NEW k \in 1 .. len, i <= k
  PROVE  Within(q[k] - q[i], VMax * (t[k] - t[i]))
<1>a. len \in Nat /\ VMax \in Nat /\ \A j \in 1 .. len : t[j] \in Int /\ q[j] \in Int
  BY DEF Following, Times, UpTo, FollowAssumption
<1> DEFINE S == {j \in 1 .. len : j >= i /\ ~Within(q[j] - q[i], VMax * (t[j] - t[i]))}
<1> SUFFICES ASSUME S # {} PROVE FALSE
  BY <1>a
<1>1. S \subseteq Nat
  BY <1>a
<1>2. PICK m \in S : \A l \in S : m <= l
  <2> HIDE DEF S
  <2> QED
    BY <1>1, HasLeast
<1>3. m # i
  <2>1. t[i] - t[i] = 0 /\ q[i] - q[i] = 0 /\ VMax * 0 = 0
    BY <1>a
  <2> QED
    BY <1>2, <2>1 DEF Within
<1>4. m \in 1 .. len /\ m - 1 \in 1 .. len /\ m - 1 \in 1 .. len - 1 /\ m - 1 >= i /\ (m - 1) + 1 = m
      /\ m - 1 \notin S
  BY <1>a, <1>2, <1>3
<1>5. /\ q[m] - q[m - 1] \in Int /\ q[m - 1] - q[i] \in Int
      /\ VMax * (t[m] - t[m - 1]) \in Int /\ VMax * (t[m - 1] - t[i]) \in Int
  BY <1>a, <1>4
<1>6. Within(q[m] - q[m - 1], VMax * (t[m] - t[m - 1]))
  BY <1>4, <1>5, AbsWithin DEF Gentle
<1>7. Within(q[m - 1] - q[i], VMax * (t[m - 1] - t[i]))
  BY <1>4
<1>8. Within((q[m - 1] - q[i]) + (q[m] - q[m - 1]),
             VMax * (t[m - 1] - t[i]) + VMax * (t[m] - t[m - 1]))
  BY <1>5, <1>6, <1>7, AddWithin
<1>9. /\ (q[m - 1] - q[i]) + (q[m] - q[m - 1]) = q[m] - q[i]
      /\ VMax * (t[m - 1] - t[i]) + VMax * (t[m] - t[m - 1]) = VMax * (t[m] - t[i])
  BY <1>a, <1>4
<1> QED
  BY <1>2, <1>8, <1>9

\* What the callback returns is the last waypoint, or lies on the segment that the
\* elapsed time is in or on the line before the first.
LEMMA DesiredIs ==
  ASSUME FollowAssumption, Following, NEW e \in Nat, len > 1 \/ t[1] <= e, NEW f \in Desired(e)
  PROVE  \/ e >= t[len] /\ f = [num |-> q[len], den |-> 1]
         \/ \E i \in 1 .. len - 1 :
              /\ t[i] <= e \/ i = 1
              /\ e < t[i + 1] /\ f = Lerp(q[i], q[i + 1], t[i], t[i + 1], e)
<1>a. /\ len \in Nat \ {0} /\ total_dur \in Int
      /\ \A j \in 1 .. len : t[j] \in Int
  BY DEF Following, Times, UpTo, total_dur, FollowAssumption
<1>1. CASE e >= total_dur
  BY <1>1 DEF Desired, total_dur
<1>2. CASE ~(e >= total_dur) /\ t[1] <= e
  <2>1. Segment(e) \in 1 .. len - 1 /\ t[Segment(e)] <= e /\ e < t[Segment(e) + 1]
    BY <1>2, <1>a, SegmentFound DEF Following
  <2>2. f = Lerp(q[Segment(e)], q[Segment(e) + 1], t[Segment(e)], t[Segment(e) + 1], e)
    BY <1>2, <1>a, <2>1 DEF Desired
  <2> QED
    BY <2>1, <2>2
<1>3. CASE ~(e >= total_dur) /\ ~(t[1] <= e)
  <2>1. len > 1 /\ 1 \in 1 .. len /\ 2 \in 1 .. len /\ 1 \in 1 .. len - 1 /\ e < t[1]
    BY <1>3, <1>a
  <2>2. Segment(e) = 1
    BY <2>1, SegmentBefore DEF Following
  <2>3. f = Lerp(q[1], q[1 + 1], t[1], t[1 + 1], e)
    BY <1>3, <2>1, <2>2 DEF Desired
  <2>4. t[1] < t[1 + 1]
    BY <2>1, TimesOrdered DEF Following
  <2>5. e < t[1 + 1]
    BY <1>a, <2>1, <2>4
  <2> QED
    BY <2>1, <2>3, <2>5
<1> QED
  BY <1>1, <1>2, <1>3

\* Two commands are no further apart than VMax allows in the time between them.
LEMMA CommandsApart ==
  ASSUME FollowAssumption, Following, Gentle, NEW e \in Nat, NEW w \in Nat, e <= w,
         len > 1 \/ t[1] <= e, NEW f \in Desired(e), NEW g \in Desired(w)
  PROVE  Abs(g.num * f.den - f.num * g.den) <= VMax * (w - e) * f.den * g.den
<1>a. /\ len \in Nat \ {0} /\ VMax \in Nat
      /\ \A j \in 1 .. len : t[j] \in Int /\ q[j] \in Int
  BY DEF Following, Times, UpTo, FollowAssumption
\* A segment with its two ends.
<1>b. ASSUME NEW i \in 1 .. len - 1
      PROVE  /\ i \in 1 .. len /\ i + 1 \in 1 .. len
             /\ q[i] \in Int /\ q[i + 1] \in Int /\ t[i] \in Int /\ t[i + 1] \in Int
             /\ t[i] < t[i + 1]
             /\ Within(q[i + 1] - q[i], VMax * (t[i + 1] - t[i]))
  <2>1. i \in 1 .. len /\ i + 1 \in 1 .. len /\ i < i + 1 /\ i <= i + 1
    BY <1>a
  <2>2. t[i] < t[i + 1]
    BY <2>1, TimesOrdered DEF Following
  <2> QED
    BY <1>a, <2>1, <2>2, WaypointsApart
\* A point of a segment, or of the line before it, with the two ends.
<1>c. ASSUME NEW i \in 1 .. len - 1, NEW c \in Nat, c < t[i + 1],
             NEW h, h = Lerp(q[i], q[i + 1], t[i], t[i + 1], c)
      PROVE  /\ h.num \in Int /\ h.den \in Nat \ {0}
             /\ t[i] <= c => Within(h.num - q[i] * h.den, (c - t[i]) * (VMax * h.den))
             /\ Within(q[i + 1] * h.den - h.num, (t[i + 1] - c) * (VMax * h.den))
  <2>1. /\ q[i] \in Int /\ q[i + 1] \in Int /\ t[i] \in Int /\ t[i + 1] \in Int
        /\ t[i] < t[i + 1] /\ Within(q[i + 1] - q[i], VMax * (t[i + 1] - t[i]))
    BY <1>b
  <2> DEFINE a == q[i]
             b == q[i + 1]
             s == t[i]
             u == t[i + 1]
             r == VMax * (u - s)
  <2>2. /\ a \in Int /\ b \in Int /\ s \in Int /\ u \in Int /\ c \in Int
        /\ c <= u /\ s < u /\ r = VMax * (u - s) /\ Within(b - a, r)
        /\ h = Lerp(a, b, s, u, c)
    BY <1>c, <2>1
  <2> HIDE DEF a, b, s, u, r
  <2>3. /\ h.num \in Int /\ h.den \in Nat \ {0}
        /\ s <= c => Within(h.num - a * h.den, (c - s) * (VMax * h.den))
        /\ Within(b * h.den - h.num, (u - c) * (VMax * h.den))
    BY <2>2, LerpSlope
  <2> QED
    BY <2>3 DEF a, b, s, u
<1>1. CASE e >= t[len]
  <2>1. len \in 1 .. len /\ w >= t[len]
    BY <1>1, <1>a
  <2>2. f = [num |-> q[len], den |-> 1] /\ g = [num |-> q[len], den |-> 1]
    <3>1. \A i \in 1 .. len - 1 : t[i + 1] <= t[len]
      <4> SUFFICES ASSUME NEW i \in 1 .. len - 1 PROVE t[i + 1] <= t[len]
        OBVIOUS
      <4>1. i + 1 < len => t[i + 1] < t[len]
        BY <1>b, <2>1, TimesOrdered DEF Following
      <4> QED
        BY <1>a, <1>b, <2>1, <4>1
    <3>2. ASSUME NEW c \in Nat, c >= t[len], NEW h \in Desired(c)
          PROVE  h = [num |-> q[len], den |-> 1]
      <4>1. \A i \in 1 .. len - 1 : ~(c < t[i + 1])
        BY <1>a, <1>b, <2>1, <3>1, <3>2
      <4>2. len > 1 \/ t[1] <= c
        BY <1>a, <3>2
      <4> QED
        BY <3>2, <4>1, <4>2, DesiredIs
    <3> QED
      BY <1>1, <2>1, <3>2
  <2>3. VMax * (w - e) >= 0 /\ q[len] \in Int
    BY <1>a, <2>1
  <2> QED
    BY <2>2, <2>3 DEF Abs
<1>2. CASE ~(e >= t[len])
  <2>1. PICK i \in 1 .. len - 1 :
          (t[i] <= e \/ i = 1) /\ e < t[i + 1] /\ f = Lerp(q[i], q[i + 1], t[i], t[i + 1], e)
    BY <1>2, DesiredIs
  <2>2. /\ f.num \in Int /\ f.den \in Nat \ {0}
        /\ Within(q[i + 1] * f.den - f.num, (t[i + 1] - e) * (VMax * f.den))
    BY <1>a, <1>c, <2>1
  \* The command at w is as near to a waypoint k before it as VMax allows.
  <2>3. ASSUME NEW k \in i + 1 .. len, t[k] <= w, g.num \in Int, g.den \in Nat \ {0},
               Within(g.num - q[k] * g.den, (w - t[k]) * (VMax * g.den))
        PROVE  Within(g.num * f.den - f.num * g.den, VMax * (w - e) * f.den * g.den)
    <3> DEFINE r1 == t[i + 1] - e
               r2 == t[k] - t[i + 1]
               r3 == w - t[k]
    <3>1. k \in 1 .. len /\ i + 1 \in 1 .. len /\ i + 1 <= k /\ t[k] \in Int /\ t[i + 1] \in Int
          /\ q[k] \in Int /\ q[i + 1] \in Int
      BY <1>a, <1>b, <2>3
    <3>2. i + 1 < k => t[i + 1] < t[k]
      BY <3>1, TimesOrdered DEF Following
    <3>3. r1 \in Nat /\ r2 \in Nat /\ r3 \in Nat /\ r1 + r2 + r3 = w - e
      <4>1. t[i + 1] <= t[k]
        BY <3>1, <3>2
      <4> QED
        BY <2>1, <2>3, <3>1, <4>1
    <3>4. Within(q[k] - q[i + 1], VMax * r2)
      BY <3>1, WaypointsApart
    <3>5. /\ Within(q[i + 1] * f.den - f.num, r1 * (VMax * f.den))
          /\ Within(g.num - q[k] * g.den, r3 * (VMax * g.den))
      BY <2>2, <2>3
    <3> HIDE DEF r1, r2, r3
    <3>6. Within(g.num * f.den - f.num * g.den, VMax * (r1 + r2 + r3) * f.den * g.den)
      BY <1>a, <2>2, <2>3, <3>1, <3>3, <3>4, <3>5, AcrossSegments
    <3> QED
      BY <3>3, <3>6
  <2>4. g.num \in Int /\ g.den \in Nat \ {0}
        /\ Within(g.num * f.den - f.num * g.den, VMax * (w - e) * f.den * g.den)
    <3>1. CASE w >= t[len] /\ g = [num |-> q[len], den |-> 1]
      <4>1. len \in i + 1 .. len /\ q[len] \in Int /\ t[len] \in Int
        BY <1>a, <1>b
      <4>2. g.num \in Int /\ g.den \in Nat \ {0} /\ g.num - q[len] * g.den = 0
            /\ (w - t[len]) * (VMax * g.den) >= 0 /\ (w - t[len]) * (VMax * g.den) \in Int
        BY <1>a, <3>1, <4>1
      <4>3. Within(g.num - q[len] * g.den, (w - t[len]) * (VMax * g.den))
        BY <4>2 DEF Within
      <4> QED
        BY <2>3, <3>1, <4>1, <4>2, <4>3
    <3>2. ASSUME NEW k \in 1 .. len - 1, t[k] <= w \/ k = 1, w < t[k + 1],
                 g = Lerp(q[k], q[k + 1], t[k], t[k + 1], w)
          PROVE  /\ g.num \in Int /\ g.den \in Nat \ {0}
                 /\ Within(g.num * f.den - f.num * g.den, VMax * (w - e) * f.den * g.den)
      <4>1. /\ g.num \in Int /\ g.den \in Nat \ {0}
            /\ t[k] <= w => Within(g.num - q[k] * g.den, (w - t[k]) * (VMax * g.den))
        BY <1>a, <1>c, <3>2
      <4>2. k >= i
        <5> SUFFICES ASSUME i # 1 PROVE k >= i
          OBVIOUS
        <5>1. k + 1 < i => t[k + 1] < t[i]
          BY <1>b, TimesOrdered DEF Following
        <5>2. k < i => t[k + 1] <= t[i]
          BY <1>b, <5>1
        <5> QED
          BY <1>b, <2>1, <3>2, <5>2
      <4>3. CASE k = i
        <5>1. /\ q[i] \in Int /\ q[i + 1] \in Int /\ t[i] \in Int /\ t[i + 1] \in Int
              /\ t[i] < t[i + 1] /\ Within(q[i + 1] - q[i], VMax * (t[i + 1] - t[i]))
          BY <1>b
        <5>2. g = Lerp(q[i], q[i + 1], t[i], t[i + 1], w)
          BY <3>2, <4>3
        <5> DEFINE a == q[i]
                   b == q[i + 1]
                   s == t[i]
                   u == t[i + 1]
                   r == VMax * (u - s)
        <5>3. /\ a \in Int /\ b \in Int /\ s \in Int /\ u \in Int /\ e \in Int /\ w \in Int
              /\ e <= w /\ s < u /\ r = VMax * (u - s) /\ Within(b - a, r)
              /\ f = Lerp(a, b, s, u, e) /\ g = Lerp(a, b, s, u, w)
          BY <2>1, <5>1, <5>2
        <5> HIDE DEF a, b, s, u, r
        <5>4. Within(g.num * f.den - f.num * g.den, VMax * (w - e) * f.den * g.den)
          BY <5>3, SameSegment
        <5> QED
          BY <4>1, <5>4
      <4>4. CASE k # i
        <5>1. k \in i + 1 .. len
          <6>1. i \in Int /\ k \in Int /\ k <= len
            BY <1>a
          <6> QED
            BY <1>a, <4>2, <4>4, <6>1
        <5>2. t[k] <= w
          BY <1>a, <3>2, <5>1
        <5> QED
          BY <2>3, <3>2, <4>1, <5>1, <5>2
      <4> QED
        BY <4>3, <4>4
    <3>3. len > 1 \/ t[1] <= w
      <4>1. t[1] \in Int
        BY <1>a
      <4> QED
        BY <4>1
    <3> QED
      BY <3>1, <3>2, <3>3, DesiredIs
  <2>5. g.num * f.den - f.num * g.den \in Int /\ VMax * (w - e) * f.den * g.den \in Int
    <3>1. w - e \in Nat /\ g.den \in Nat /\ f.den \in Nat
      BY <2>2, <2>4
    <3> QED
      BY <1>a, <2>2, <2>4, <3>1
  <2> QED
    BY <2>4, <2>5, AbsWithin
<1> QED
  BY <1>1, <1>2

\* Before the first waypoint, over the corners and over the end of the path, two commands
\* are no further apart than the steepest segment allows in the time between them.
THEOREM NeverJumps == Spec => NoJump
<1> USE FollowAssumption
<1> DEFINE JumpInv == Following /\ (st = "moving" => cmd \in Desired(elapsed))
           Smooth == (st = "moving" /\ Commanding' /\ (len > 1 \/ t[1] <= elapsed) /\
                       \A i \in 1 .. len - 1 : Abs(q[i + 1] - q[i]) <= VMax * (t[i + 1] - t[i]))
                      => Abs(cmd'.num * cmd.den - cmd.num * cmd'.den)
                           <= VMax * (elapsed' - elapsed) * cmd.den * cmd'.den
<1>1. Init => JumpInv
  BY DEF Init, Following, Times, Increasing
<1>2. ASSUME JumpInv, NEW p \in Nat, Callback(p)
      PROVE  JumpInv' /\ UNCHANGED traj /\ cmd' \in Desired(elapsed') /\ elapsed' \in Nat
             /\ elapsed <= elapsed'
  <2>1. elapsed' \in Nat /\ UNCHANGED <<len, q, t>> /\ cmd' \in Desired(elapsed')
        /\ elapsed <= elapsed'
    BY <1>2 DEF Callback, Following, traj
  <2>2. Desired(elapsed)' = Desired(elapsed')
    BY <2>1 DEF Desired, Segment, Containing, total_dur
  <2> QED
    BY <1>2, <2>1, <2>2 DEF Following, Times, Increasing, traj
<1>3. JumpInv /\ [Next]_vars => JumpInv'
  <2> SUFFICES ASSUME JumpInv, [Next]_vars PROVE JumpInv'
    OBVIOUS
  <2>1. CASE FirstCall \/ NextCall
    BY <1>2, <2>1 DEF FirstCall, NextCall, FollowAssumption
  <2>2. CASE Throw
    BY <2>2 DEF Throw, traj, Following, Times, Increasing
  <2>3. CASE UNCHANGED vars
    BY <2>3 DEF vars, traj, Following, Times, Increasing, Desired, Segment, Containing, total_dur
  <2> QED
    BY <2>1, <2>2, <2>3 DEF Next
<1>4. JumpInv /\ [Next]_vars => [Smooth]_vars
  <2> SUFFICES ASSUME JumpInv, Next, st = "moving", Commanding', Gentle,
                      len > 1 \/ t[1] <= elapsed
               PROVE  Abs(cmd'.num * cmd.den - cmd.num * cmd'.den)
                           <= VMax * (elapsed' - elapsed) * cmd.den * cmd'.den
    BY DEF Gentle
  <2>1. PICK p \in Periods : Callback(p)
    BY DEF Next, FirstCall, NextCall, Throw, Commanding
  <2>2. p \in Nat
    BY <2>1 DEF FollowAssumption
  <2>3. cmd' \in Desired(elapsed') /\ elapsed' \in Nat /\ elapsed <= elapsed'
    BY <1>2, <2>1, <2>2
  <2> QED
    BY <2>3, CommandsApart DEF Following
<1> HIDE DEF JumpInv, Smooth
<1>5. Spec => [][Smooth]_vars
  BY <1>1, <1>3, <1>4, PTL DEF Spec
<1> QED
  BY <1>5 DEF NoJump, Smooth
=============================================================================
