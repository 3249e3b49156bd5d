----------------------------- MODULE HandProof ------------------------------
(***************************************************************************)
(* Proofs about the shared segment and the hand commands in it, for any    *)
(* number of threads, joints, messages, starts and crashes, provided that  *)
(* a process starts or stops only while the other one does neither         *)
(* (Orderly).                                                              *)
(***************************************************************************)
EXTENDS HandInvariants, TLAPS

-----------------------------------------------------------------------------
(* The life of the segment.                                                *)

Others == Clients \ {main}

SegTypes ==
    /\ key \in 0 .. MaxSegs /\ made \in 0 .. MaxSegs
    /\ num \in [Segs -> Int]
    /\ pc \in [Clients -> {"down", "on"} \cup Starting \cup Stopping]
    /\ at \in [Clients -> 0 .. MaxSegs] /\ seen \in [Clients -> Int]
    /\ pc[main] \in {"down", "on"} \cup Stopping
    /\ \A t \in RtThreads : pc[t] \in {"down", "on"} \cup Starting

\* Nobody starts or stops while the other process does.
Turns ==
    /\ \A t \in RtThreads : pc[main] = "down" <=> pc[t] = "down"
    /\ pc[main] \in Stopping => BridgeQuiet /\ \A t \in RtThreads : pc[t] = "on"
    /\ ~BridgeQuiet => RtQuiet

\* The segment has been removed by the last process that uses it.
Removed == key = 0 /\ pc[main] = "exit" /\ pc[bridge] = "down"

Holding == {"attach", "check", "wipe", "inc", "put", "on", "dec", "take", "cmp", "rm"}

\* Whoever uses a segment uses the one under the key.
Holds ==
    /\ \A c \in Others : pc[c] \in Holding =>
          at[c] # 0 /\ (at[c] = key \/ (Removed /\ at[c] = at[ecat]))
    /\ pc[main] \in {"dec", "take", "cmp", "rm"} => at[main] = key /\ key # 0

\* process_num is never less than the processes in use: each counts for one, as
\* soon as the last of its threads is there.
Counted ==
    /\ \A i \in Segs : num[i] >= 0
    /\ key # 0 =>
          /\ pc[bridge] \in {"on", "dec", "take"} => num[key] >= 1
          /\ RtOn \/ pc[main] \in {"dec", "take"} => num[key] >= 1
          /\ pc[bridge] \in {"on", "dec", "take"} /\ (RtOn \/ pc[main] \in {"dec", "take"})
                => num[key] >= 2

\* A register may be out of date by the threads of the own process that count at the
\* same time, never by the other process; who stops is alone in counting.
Registers ==
    /\ \A c \in Others : pc[c] \in {"inc", "put"} => seen[c] >= 0
    /\ \A t \in RtThreads : pc[t] \in {"inc", "put"} /\ pc[bridge] = "on" => seen[t] >= 1
    /\ pc[bridge] \in {"inc", "put"} /\ RtOn => seen[bridge] >= 1
    /\ \A c \in Clients : pc[c] \in {"take", "cmp"} => seen[c] = num[at[c]]

\* Who wipes or removes the segment is alone with it.
Alone ==
    /\ pc[bridge] \in {"wipe", "rm"} => RtDown
    /\ \A t \in RtThreads : pc[t] = "wipe" => pc[bridge] = "down"
    /\ pc[main] = "rm" => pc[bridge] = "down"

SegInv == SegTypes /\ Turns /\ Holds /\ Counted /\ Registers /\ Alone

LEMMA SegInit0 == SegInit => SegInv
BY ThreadsAssumption, SegmentBounds
   DEF SegInit, SegInv, SegTypes, Turns, Holds, Counted, Registers, Alone, Others, Clients, Segs,
       BridgeQuiet, RtQuiet, RtOn, RtDown, Starting, Stopping, Holding, Removed

USE DEF Starting, Stopping

LEMMA StartRtKeeps ==
  ASSUME Orderly, SegInv, StartRt
  PROVE  SegInv'
<1> USE ThreadsAssumption, SegmentBounds
        DEF SegInv, Clients, Segs, Goes, BridgeQuiet, RtQuiet, RtOn, RtDown
<1>1. SegTypes'
  BY DEF StartRt, SegTypes
<1>2. Turns'
  BY DEF StartRt, SegTypes, Turns
<1>3. Holds'
  BY DEF StartRt, SegTypes, Turns, Holds, Others, Holding, Removed
<1>4. Counted'
  BY DEF StartRt, SegTypes, Turns, Counted, Holds, Holding, Others, Removed
<1>5. Alone'
  BY DEF StartRt, SegTypes, Turns, Alone
<1>6. Registers'
  BY DEF StartRt, SegTypes, Turns, Registers, Counted, Others
<1> QED
  BY <1>1, <1>2, <1>3, <1>4, <1>5, <1>6

LEMMA StartBridgeKeeps ==
  ASSUME Orderly, SegInv, StartBridge
  PROVE  SegInv'
<1> USE ThreadsAssumption, SegmentBounds
        DEF SegInv, Clients, Segs, Goes, BridgeQuiet, RtQuiet, RtOn, RtDown
<1>1. SegTypes'
  BY DEF StartBridge, SegTypes
<1>2. Turns'
  BY DEF StartBridge, SegTypes, Turns
<1>3. Holds'
  BY DEF StartBridge, SegTypes, Turns, Holds, Others, Holding, Removed
<1>4. Counted'
  BY DEF StartBridge, SegTypes, Turns, Counted, Holds, Holding, Others, Removed
<1>5. Alone'
  BY DEF StartBridge, SegTypes, Turns, Alone
<1>6. Registers'
  BY DEF StartBridge, SegTypes, Turns, Registers, Counted, Others
<1> QED
  BY <1>1, <1>2, <1>3, <1>4, <1>5, <1>6

LEMMA StopRtKeeps ==
  ASSUME Orderly, SegInv, StopRt
  PROVE  SegInv'
<1> USE ThreadsAssumption, SegmentBounds
        DEF SegInv, Clients, Segs, Goes, BridgeQuiet, RtQuiet, RtOn, RtDown
<1>1. SegTypes'
  BY DEF StopRt, SegTypes, Attached
<1>2. Turns'
  BY DEF StopRt, SegTypes, Turns, Attached
<1>3. Holds'
  BY DEF StopRt, SegTypes, Turns, Holds, Others, Holding, Removed, Attached
<1>4. Counted'
  BY DEF StopRt, SegTypes, Turns, Counted, Holds, Holding, Others, Removed, Attached
<1>5. Alone'
  BY DEF StopRt, SegTypes, Turns, Alone, Attached
<1>6. Registers'
  BY DEF StopRt, SegTypes, Turns, Registers, Counted, Others, Attached
<1> QED
  BY <1>1, <1>2, <1>3, <1>4, <1>5, <1>6

LEMMA StopBridgeKeeps ==
  ASSUME Orderly, SegInv, StopBridge
  PROVE  SegInv'
<1> USE ThreadsAssumption, SegmentBounds
        DEF SegInv, Clients, Segs, Goes, BridgeQuiet, RtQuiet, RtOn, RtDown
<1>1. SegTypes'
  BY DEF StopBridge, SegTypes
<1>2. Turns'
  BY DEF StopBridge, SegTypes, Turns
<1>3. Holds'
  BY DEF StopBridge, SegTypes, Turns, Holds, Others, Holding, Removed
<1>4. Counted'
  BY DEF StopBridge, SegTypes, Turns, Counted, Holds, Holding, Others, Removed
<1>5. Alone'
  BY DEF StopBridge, SegTypes, Turns, Alone
<1>6. Registers'
  BY DEF StopBridge, SegTypes, Turns, Registers, Counted, Others
<1> QED
  BY <1>1, <1>2, <1>3, <1>4, <1>5, <1>6

LEMMA EndsKeep ==
  ASSUME SegInv, NEW c \in Clients, Ends(c), UNCHANGED <<key, made, num>>
  PROVE  SegInv'
<1> USE ThreadsAssumption, SegmentBounds
        DEF SegInv, Clients, Segs, Goes, BridgeQuiet, RtQuiet, RtOn, RtDown
<1>1. SegTypes'
  BY DEF Ends, Process, SegTypes
<1>2. Turns'
  BY DEF Ends, Process, SegTypes, Turns
<1>3. Holds'
  <2>1. CASE c = bridge
    <3>1. /\ pc' = [pc EXCEPT ![bridge] = "down"] /\ at' = [at EXCEPT ![bridge] = 0]
          /\ key' = key
      BY <2>1 DEF Ends, Process, SegTypes
    <3> QED
      BY <3>1 DEF SegTypes, Turns, Holds, Others, Holding, Removed
  <2>2. CASE c # bridge
    <3>1. /\ \A d \in Clients \ {bridge} : pc'[d] = "down"
          /\ pc'[bridge] = pc[bridge] /\ at'[bridge] = at[bridge] /\ key' = key
      BY <2>2 DEF Ends, Process, SegTypes
    <3>2. pc[bridge] \in Holding => at[bridge] # 0 /\ at[bridge] = key
      BY DEF Holds, Others, Holding, Removed
    <3> QED
      BY <3>1, <3>2 DEF Holds, Others, Holding
  <2> QED
    BY <2>1, <2>2
<1>4. Counted'
  BY DEF Ends, Process, SegTypes, Turns, Counted, Holds, Holding, Others, Removed
<1>5. Alone'
  BY DEF Ends, Process, SegTypes, Turns, Alone
<1>6. Registers'
  BY DEF Ends, Process, SegTypes, Turns, Registers, Others
<1> QED
  BY <1>1, <1>2, <1>3, <1>4, <1>5, <1>6

LEMMA GetKeeps ==
  ASSUME SegInv, NEW c \in Clients, Get(c)
  PROVE  SegInv'
<1> USE ThreadsAssumption, SegmentBounds
        DEF SegInv, Clients, Segs, Goes, BridgeQuiet, RtQuiet, RtOn, RtDown
<1>a. /\ pc[c] = "get" /\ c \in Others /\ pc' = [pc EXCEPT ![c] = "attach"]
      /\ UNCHANGED <<num, seen, starts>>
      /\ at' = [at EXCEPT ![c] = key']
  BY DEF Get, SegTypes, Others
<1>b. \/ key # 0 /\ UNCHANGED <<key, made>>
      \/ key = 0 /\ made' \in Segs /\ key' = made'
  BY DEF Get, SegTypes
<1>c. key = 0 => \A d \in Others : pc[d] \notin Holding /\ pc[main] \in {"down", "on"}
  BY <1>a DEF SegTypes, Turns, Holds, Others, Holding, Removed
<1>1. SegTypes'
  BY <1>a, <1>b DEF SegTypes
<1>2. Turns'
  BY DEF Get, SegTypes, Turns
<1>3. Holds'
  <2>1. CASE key = 0
    BY <1>a, <1>b, <1>c, <2>1 DEF SegTypes, Holds, Others, Holding
  <2>2. CASE key # 0
    BY <1>a, <1>b, <2>2 DEF SegTypes, Holds, Others, Holding, Removed
  <2> QED
    BY <2>1, <2>2
<1>4. Counted'
  <2>1. CASE key = 0
    BY <1>a, <1>b, <1>c, <2>1 DEF SegTypes, Turns, Counted, Others, Holding
  <2>2. CASE key # 0
    BY <1>a, <1>b, <2>2 DEF SegTypes, Turns, Counted, Others
  <2> QED
    BY <2>1, <2>2
<1>5. Alone'
  BY DEF Get, SegTypes, Turns, Alone
<1>6. Registers'
  BY DEF Get, SegTypes, Turns, Registers, Others
<1> QED
  BY <1>1, <1>2, <1>3, <1>4, <1>5, <1>6

LEMMA AttachKeeps ==
  ASSUME SegInv, NEW c \in Clients, Attach(c)
  PROVE  SegInv'
<1> USE ThreadsAssumption, SegmentBounds
        DEF SegInv, Clients, Segs, Goes, BridgeQuiet, RtQuiet, RtOn, RtDown
<1>1. CASE Ends(c)
  BY <1>1, EndsKeep DEF Attach
<1>2. CASE Goes(c, "attach", "check") /\ UNCHANGED <<key, made, num, at, seen, starts>>
  <2>a. /\ pc[c] = "attach" /\ c \in Others /\ pc' = [pc EXCEPT ![c] = "check"]
        /\ UNCHANGED <<key, made, num, at, seen, starts>>
    BY <1>2 DEF SegTypes, Others
  <2>1. SegTypes'
    BY <2>a DEF SegTypes, Others
  <2>2. Turns'
    BY <2>a DEF SegTypes, Turns, Others
  <2>3. Holds'
    BY <2>a DEF SegTypes, Turns, Holds, Others, Holding, Removed
  <2>4. Counted'
    BY <2>a DEF SegTypes, Turns, Counted, Others
  <2>5. Alone'
    BY <2>a DEF SegTypes, Turns, Alone, Others
  <2>6. Registers'
    BY <2>a DEF SegTypes, Turns, Registers, Others
  <2> QED
    BY <2>1, <2>2, <2>3, <2>4, <2>5, <2>6
<1> QED
  BY <1>1, <1>2 DEF Attach

LEMMA StarterHolds ==
  ASSUME SegInv, NEW c \in Clients, pc[c] \in {"check", "wipe", "inc", "put"}
  PROVE  c \in Others /\ at[c] = key /\ key \in Segs
BY ThreadsAssumption, SegmentBounds
   DEF SegInv, SegTypes, Turns, Holds, Holding, Removed, Others, Clients, Segs

LEMMA CheckKeeps ==
  ASSUME SegInv, NEW c \in Clients, Check(c)
  PROVE  SegInv'
<1> USE ThreadsAssumption, SegmentBounds
        DEF SegInv, Clients, Segs, Goes, BridgeQuiet, RtQuiet, RtOn, RtDown
<1>a. /\ pc[c] = "check" /\ c \in Others /\ at[c] = key /\ key \in Segs
      /\ pc' = [pc EXCEPT ![c] = IF num[key] = 0 THEN "wipe" ELSE "inc"]
      /\ seen' = [seen EXCEPT ![c] = num[key]]
      /\ UNCHANGED <<key, made, num, at, starts>>
  BY StarterHolds DEF Check, Loads
<1>1. SegTypes'
  BY <1>a DEF SegTypes, Others
<1>2. Turns'
  BY <1>a DEF SegTypes, Turns, Others
<1>3. Holds'
  BY <1>a DEF SegTypes, Turns, Holds, Others, Holding, Removed
<1>4. Counted'
  BY <1>a DEF SegTypes, Turns, Counted, Others
<1>5. Alone'
  BY <1>a DEF SegTypes, Turns, Alone, Counted, Others
<1>6. Registers'
  BY <1>a DEF SegTypes, Turns, Registers, Counted, Others
<1> QED
  BY <1>1, <1>2, <1>3, <1>4, <1>5, <1>6

LEMMA WipeKeeps ==
  ASSUME SegInv, NEW c \in Clients, Wipe(c)
  PROVE  SegInv'
<1> USE ThreadsAssumption, SegmentBounds
        DEF SegInv, Clients, Segs, Goes, BridgeQuiet, RtQuiet, RtOn, RtDown
<1>a. /\ pc[c] = "wipe" /\ c \in Others /\ at[c] = key /\ key \in Segs
      /\ pc' = [pc EXCEPT ![c] = "inc"] /\ num' = [num EXCEPT ![key] = 0]
      /\ seen' = [seen EXCEPT ![c] = 0]
      /\ UNCHANGED <<key, made, at, starts>>
  BY StarterHolds DEF Wipe, Loads
<1>1. SegTypes'
  BY <1>a DEF SegTypes, Others
<1>2. Turns'
  BY <1>a DEF SegTypes, Turns, Others
<1>3. Holds'
  BY <1>a DEF SegTypes, Turns, Holds, Others, Holding, Removed
<1>4. Counted'
  BY <1>a DEF SegTypes, Turns, Counted, Alone, Others
<1>5. Alone'
  BY <1>a DEF SegTypes, Turns, Alone, Others
<1>6. Registers'
  <2>1. CASE c = bridge
    <3>1. RtDown /\ ~RtOn
      BY <1>a, <2>1 DEF Alone
    <3> QED
      BY <1>a, <2>1, <3>1 DEF SegTypes, Turns, Registers, Others
  <2>2. CASE c \in RtThreads
    <3>1. \A d \in Clients : pc'[d] \notin {"take", "cmp"}
      BY <1>a, <2>2 DEF SegTypes, Alone, Turns, Others
    <3>2. pc'[bridge] = "down"
      BY <1>a, <2>2 DEF SegTypes, Alone
    <3> QED
      BY <1>a, <2>2, <3>1, <3>2 DEF SegTypes, Registers, Others
  <2> QED
    BY <1>a, <2>1, <2>2 DEF Others
<1> QED
  BY <1>1, <1>2, <1>3, <1>4, <1>5, <1>6

LEMMA IncLoadKeeps ==
  ASSUME SegInv, NEW c \in Clients, IncLoad(c)
  PROVE  SegInv'
<1> USE ThreadsAssumption, SegmentBounds
        DEF SegInv, Clients, Segs, Goes, BridgeQuiet, RtQuiet, RtOn, RtDown
<1>a. /\ pc[c] = "inc" /\ c \in Others /\ at[c] = key /\ key \in Segs
      /\ pc' = [pc EXCEPT ![c] = "put"]
      /\ seen' = [seen EXCEPT ![c] = num[key]] \/ seen' = seen
      /\ UNCHANGED <<key, made, num, at, starts>>
  BY StarterHolds DEF IncLoad, Loads
<1>1. SegTypes'
  BY <1>a DEF SegTypes, Others
<1>2. Turns'
  BY <1>a DEF SegTypes, Turns, Others
<1>3. Holds'
  BY <1>a DEF SegTypes, Turns, Holds, Others, Holding, Removed
<1>4. Counted'
  BY <1>a DEF SegTypes, Turns, Counted, Others
<1>5. Alone'
  BY <1>a DEF SegTypes, Turns, Alone, Others
<1>6. Registers'
  BY <1>a DEF SegTypes, Turns, Registers, Counted, Others
<1> QED
  BY <1>1, <1>2, <1>3, <1>4, <1>5, <1>6

LEMMA IncStoreKeeps ==
  ASSUME SegInv, NEW c \in Clients, IncStore(c)
  PROVE  SegInv'
<1> USE ThreadsAssumption, SegmentBounds
        DEF SegInv, Clients, Segs, Goes, BridgeQuiet, RtQuiet, RtOn, RtDown
<1>a. /\ pc[c] = "put" /\ c \in Others /\ at[c] = key /\ key \in Segs
      /\ pc' = [pc EXCEPT ![c] = "on"] /\ num' = [num EXCEPT ![key] = seen[c] + 1]
      /\ seen' = [seen EXCEPT ![c] = 0]
      /\ UNCHANGED <<key, made, at, starts>>
  BY StarterHolds DEF IncStore, Loads
<1>b. seen[c] \in Int /\ seen[c] >= 0
  BY <1>a DEF SegTypes, Registers
<1>c. \A i \in Segs : num'[i] >= 0
  BY <1>a, <1>b DEF SegTypes, Counted
<1>1. SegTypes'
  BY <1>a DEF SegTypes, Others
<1>2. Turns'
  BY <1>a DEF SegTypes, Turns, Others
<1>3. Holds'
  BY <1>a DEF SegTypes, Turns, Holds, Others, Holding, Removed
<1>4. Counted'
  <2>1. CASE c = bridge
    <3>1. RtOn => seen[bridge] >= 1
      BY <1>a, <2>1 DEF Registers
    <3> QED
      BY <1>a, <1>b, <1>c, <2>1, <3>1 DEF SegTypes, Turns, Counted, Others
  <2>2. CASE c \in RtThreads
    <3>1. pc[bridge] \in {"down", "on"} /\ (pc[bridge] = "on" => seen[c] >= 1)
      BY <1>a, <2>2 DEF Turns, Registers
    <3> QED
      BY <1>a, <1>b, <1>c, <2>2, <3>1 DEF SegTypes, Turns, Counted, Others
  <2> QED
    BY <1>a, <2>1, <2>2 DEF Others
<1>5. Alone'
  BY <1>a DEF SegTypes, Turns, Alone, Others
<1>6. Registers'
  BY <1>a DEF SegTypes, Turns, Registers, Others
<1> QED
  BY <1>1, <1>2, <1>3, <1>4, <1>5, <1>6

\* ... and so does who takes its count back.
LEMMA StopperHolds ==
  ASSUME SegInv, NEW c \in Clients, pc[c] \in {"dec", "take", "cmp"}
  PROVE  c \in {main, bridge} /\ at[c] = key /\ key \in Segs
<1>1. c \in {main, bridge}
  BY DEF SegInv, SegTypes, Clients
<1>2. at[c] = key /\ key # 0
  <2>1. CASE c = main
    BY <2>1 DEF SegInv, Holds
  <2>2. CASE c = bridge
    <3>1. bridge \in Others /\ pc[bridge] # "down" /\ pc[bridge] \in Holding
      BY <2>2, ThreadsAssumption DEF Others, Clients, Holding
    <3> QED
      BY <2>2, <3>1 DEF SegInv, Holds, Removed
  <2> QED
    BY <1>1, <2>1, <2>2
<1>3. key \in Segs
  BY <1>2, SegmentBounds DEF SegInv, SegTypes, Segs
<1> QED
  BY <1>1, <1>2, <1>3

LEMMA DecLoadKeeps ==
  ASSUME SegInv, NEW c \in Clients, DecLoad(c)
  PROVE  SegInv'
<1> USE ThreadsAssumption, SegmentBounds
        DEF SegInv, Clients, Segs, Goes, BridgeQuiet, RtQuiet, RtOn, RtDown
<1>a. /\ pc[c] = "dec" /\ c \in {main, bridge} /\ at[c] = key /\ key \in Segs
      /\ pc' = [pc EXCEPT ![c] = "take"] /\ seen' = [seen EXCEPT ![c] = num[key]]
      /\ UNCHANGED <<key, made, num, at, starts>>
  BY StopperHolds DEF DecLoad, Loads
<1>1. SegTypes'
  BY <1>a DEF SegTypes, Others
<1>2. Turns'
  BY <1>a DEF SegTypes, Turns, Others
<1>3. Holds'
  BY <1>a DEF SegTypes, Turns, Holds, Others, Holding, Removed
<1>4. Counted'
  BY <1>a DEF SegTypes, Turns, Counted, Others
<1>5. Alone'
  BY <1>a DEF SegTypes, Turns, Alone, Others
<1>6. Registers'
  BY <1>a DEF SegTypes, Turns, Registers, Others
<1> QED
  BY <1>1, <1>2, <1>3, <1>4, <1>5, <1>6

LEMMA DecStoreKeeps ==
  ASSUME SegInv, NEW c \in Clients, DecStore(c)
  PROVE  SegInv'
<1> USE ThreadsAssumption, SegmentBounds
        DEF SegInv, Clients, Segs, Goes, BridgeQuiet, RtQuiet, RtOn, RtDown
<1>a. /\ c \in {main, bridge} /\ at[c] = key /\ key \in Segs /\ num[key] >= 1
      /\ num' = [num EXCEPT ![key] = num[key] - 1]
      /\ seen' = [seen EXCEPT ![c] = num[key] - 1]
      /\ UNCHANGED <<key, made, at, starts>> /\ pc[c] = "take" /\ pc' = [pc EXCEPT ![c] = "cmp"]
  <2>1. pc[c] = "take" /\ pc' = [pc EXCEPT ![c] = "cmp"] /\ UNCHANGED <<key, made, at, starts>>
        /\ num' = [num EXCEPT ![at[c]] = num[at[c]] - 1]
        /\ seen' = [seen EXCEPT ![c] = num[at[c]] - 1]
    BY DEF DecStore, Loads, Registers
  <2>2. c \in {main, bridge} /\ at[c] = key /\ key \in Segs
    BY <2>1, StopperHolds
  <2>3. num[key] >= 1
    BY <2>1, <2>2 DEF Counted
  <2> QED
    BY <2>1, <2>2, <2>3
<1>1. SegTypes'
  BY <1>a DEF SegTypes
<1>2. Turns'
  BY <1>a DEF SegTypes, Turns
<1>3. Holds'
  BY <1>a DEF SegTypes, Turns, Holds, Others, Holding, Removed
<1>4. Counted'
  BY <1>a DEF SegTypes, Turns, Counted, Holds, Holding, Others, Removed
<1>5. Alone'
  BY <1>a DEF SegTypes, Turns, Alone
<1>6. Registers'
  BY <1>a DEF SegTypes, Turns, Registers, Others
<1> QED
  BY <1>1, <1>2, <1>3, <1>4, <1>5, <1>6

LEMMA CmpKeeps ==
  ASSUME SegInv, NEW c \in Clients, Cmp(c)
  PROVE  SegInv'
<1> USE ThreadsAssumption, SegmentBounds
        DEF SegInv, Clients, Segs, Goes, BridgeQuiet, RtQuiet, RtOn, RtDown
<1>a. /\ pc[c] = "cmp" /\ c \in {main, bridge} /\ at[c] = key /\ key \in Segs
      /\ pc' = [pc EXCEPT ![c] = IF num[key] = 0 THEN "rm" ELSE "exit"]
      /\ seen' = [seen EXCEPT ![c] = 0]
      /\ UNCHANGED <<key, made, num, at, starts>>
  <2>1. pc[c] = "cmp" /\ c \in {main, bridge} /\ at[c] = key /\ key \in Segs
    BY StopperHolds DEF Cmp
  <2>2. seen[c] = num[at[c]]
    BY <2>1 DEF Registers
  <2> QED
    BY <2>1, <2>2 DEF Cmp, Loads
<1>1. SegTypes'
  <2>1. PICK p \in {"rm", "exit"} : pc' = [pc EXCEPT ![c] = p]
    BY <1>a
  <2>2. c \notin RtThreads
    BY <1>a
  <2> QED
    BY <1>a, <2>1, <2>2 DEF SegTypes
<1>2. Turns'
  BY <1>a DEF SegTypes, Turns, Others
<1>3. Holds'
  BY <1>a DEF SegTypes, Turns, Holds, Others, Holding, Removed
<1>4. Counted'
  BY <1>a DEF SegTypes, Turns, Counted, Others
<1>5. Alone'
  BY <1>a DEF SegTypes, Turns, Alone, Counted, Others
<1>6. Registers'
  BY <1>a DEF SegTypes, Turns, Registers, Others
<1> QED
  BY <1>1, <1>2, <1>3, <1>4, <1>5, <1>6

LEMMA RmKeeps ==
  ASSUME SegInv, NEW c \in Clients, Rm(c)
  PROVE  SegInv'
<1> USE ThreadsAssumption, SegmentBounds
        DEF SegInv, Clients, Segs, Goes, BridgeQuiet, RtQuiet, RtOn, RtDown
<1>1. SegTypes'
  BY DEF Rm, SegTypes
<1>2. Turns'
  BY DEF Rm, SegTypes, Turns
<1>a. c \in {main, bridge} /\ at[c] = key /\ key' = 0 /\ at' = at /\ pc' = [pc EXCEPT ![c] = "exit"]
      /\ pc[c] = "rm"
  BY DEF Rm, SegTypes, Holds, Holding, Removed, Others
<1>3. Holds'
  <2>1. CASE c = bridge
    <3>1. \A t \in RtThreads : pc[t] = "down"
      BY <1>a, <2>1 DEF Alone, Turns
    <3> QED
      BY <1>a, <2>1, <3>1 DEF SegTypes, Turns, Holds, Others, Holding, Removed
  <2>2. CASE c = main
    <3>1. pc[bridge] = "down" /\ \A t \in RtThreads : pc[t] = "on" /\ at[t] # 0 /\ at[t] = key
      BY <1>a, <2>2 DEF Alone, Turns, Holds, Holding, Others, Removed
    <3> QED
      BY <1>a, <2>2, <3>1 DEF SegTypes, Holds, Others, Holding, Removed
  <2> QED
    BY <1>a, <2>1, <2>2
<1>4. Counted'
  BY DEF Rm, SegTypes, Turns, Counted, Holds, Holding, Others, Removed
<1>5. Alone'
  BY DEF Rm, SegTypes, Turns, Alone
<1>6. Registers'
  BY DEF Rm, SegTypes, Turns, Registers, Others
<1> QED
  BY <1>1, <1>2, <1>3, <1>4, <1>5, <1>6

LEMMA SegKept ==
  ASSUME Orderly, SegInv, [Next]_vars
  PROVE  SegInv'
<1>1. CASE Life
  <2>1. CASE \E c \in Clients : CleanStart(c)
    BY <2>1, WipeKeeps DEF CleanStart
  <2>2. CASE StartRt \/ StartBridge \/ Stop
    BY <2>2, StartRtKeeps, StartBridgeKeeps, StopRtKeeps, StopBridgeKeeps DEF Stop
  <2>3. ASSUME NEW c \in Clients, InitShm(c)
        PROVE  SegInv'
    BY <2>3, GetKeeps, AttachKeeps, CheckKeeps, IncLoadKeeps, IncStoreKeeps
       DEF InitShm
  <2>4. ASSUME NEW c \in Clients, DeleteShm(c)
        PROVE  SegInv'
    <3>1. CASE DecLoad(c) \/ DecStore(c) \/ Cmp(c) \/ Rm(c)
      BY <3>1, DecLoadKeeps, DecStoreKeeps, CmpKeeps, RmKeeps
    <3>2. CASE Exit(c)
      BY <3>2, EndsKeep DEF Exit
    <3> QED
      BY <2>4, <3>1, <3>2 DEF DeleteShm
  <2>5. ASSUME NEW c \in Clients, Crash(c)
        PROVE  SegInv'
    BY <2>5, EndsKeep DEF Crash
  <2> QED
    BY <1>1, <2>1, <2>2, <2>3, <2>4, <2>5 DEF Life
<1>2. CASE UNCHANGED segVars
  BY <1>2 DEF segVars, SegInv, SegTypes, Turns, Holds, Counted, Registers, Alone, Removed, BridgeQuiet,
              RtQuiet, RtOn, RtDown
<1>3. Handlers \/ Cycle \/ Move => UNCHANGED segVars
  BY DEF Handlers, OnServo, OnMode, OnTarget, TargetWord, OnTimer, ReadWord, BridgeOnly,
         Cycle, ReadServo, ReadMode, ReadTarget, WritePosition, Receive, Send, EcatOnly, Move
<1> QED
  BY <1>1, <1>2, <1>3 DEF Next, vars

\* In deleteSharedMemory the comparison with 0 is made after the own count was taken
\* back: whoever still uses the segment keeps the count above 0 and the segment
\* where it is (shm.cpp:46).
THEOREM SegmentShared ==
  ASSUME Orderly
  PROVE  Spec => []Together
<1>1. Init => SegInv
  BY SegInit0 DEF Init
<1>2. SegInv => Together
  BY ThreadsAssumption DEF SegInv, Holds, Together, Others, Holding, Removed, Clients
<1> QED
  BY <1>1, <1>2, SegKept, PTL DEF Spec

\* The clean start is made by a process that found the count at 0, and then the
\* other process does not use the segment (shm.cpp:26).
THEOREM NobodyWiped ==
  ASSUME Orderly
  PROVE  Spec => []WipesNobody
<1>1. Init => SegInv
  BY SegInit0 DEF Init
<1>2. SegInv => WipesNobody
  BY ThreadsAssumption
     DEF SegInv, SegTypes, Turns, Alone, RtDown, WipesNobody, Process, Clients
<1> QED
  BY <1>1, <1>2, SegKept, PTL DEF Spec

-----------------------------------------------------------------------------
(* Types of the words and of the two ends.                                 *)

USE DEF Joints, Byte, Targets

Record == [servo : Byte, mode : Byte, tar : Targets, pos : Targets, armed : Targets]
Status == {0, 65535}
Frame  == [status1 : Status, status2 : Byte, tar : Targets, armed : Targets]

LinkTypes ==
    /\ starts \in 0 .. MaxStarts /\ sent \in 0 .. MaxSent
    /\ words \in [Segs -> Record]
    /\ bpc \in {"idle", "tar", "read"} /\ bj \in Joints /\ bmsg \in 0 .. MaxSent
    /\ bread \in Targets
    /\ epc \in {"recv", "servo", "mode", "tar", "pos", "send"} /\ ej \in Joints
    /\ tx \in Frame /\ hand \in Frame
    /\ rx \in Targets /\ hpos \in Targets
    /\ flight \in Targets \cup {NoFrame}

LEMMA ZeroTypes ==
  /\ AllZero \in Targets /\ ZeroWords \in Record /\ ZeroTx \in Frame
  /\ 0 \in 0 .. MaxSent /\ 1 \in Joints
<1>1. AllZero \in Targets /\ 0 \in 0 .. MaxSent /\ 1 \in Joints
  BY HandAssumption DEF AllZero
<1> QED
  BY <1>1 DEF ZeroWords, ZeroTx, Record, Frame, Status

LEMMA LinkInit0 == Init => LinkTypes
BY ZeroTypes, SegmentBounds DEF Init, SegInit, LinkInit, LinkTypes

LEMMA WordTypes ==
  ASSUME words \in [Segs -> Record], NEW i \in Segs, NEW j \in Joints, NEW v \in 0 .. MaxSent
  PROVE  /\ [words EXCEPT ![i].tar[j] = v] \in [Segs -> Record]
         /\ [words EXCEPT ![i].pos[j] = v] \in [Segs -> Record]
<1>1. words[i] \in Record
  OBVIOUS
<1>2. words[i].tar \in Targets /\ words[i].pos \in Targets
  BY <1>1 DEF Record
<1>3. [words[i].tar EXCEPT ![j] = v] \in Targets /\ [words[i].pos EXCEPT ![j] = v] \in Targets
  BY <1>2
<1>4. [words[i] EXCEPT !.tar[j] = v] \in Record /\ [words[i] EXCEPT !.pos[j] = v] \in Record
  BY <1>1, <1>3 DEF Record
<1> QED
  BY <1>4

\* Whoever is in use has a segment.
LEMMA HasSegment ==
  ASSUME SegInv, NEW c \in Others, pc[c] \in Holding
  PROVE  at[c] \in Segs
BY DEF SegInv, SegTypes, Holds, Others, Segs

LEMMA LocalsTypes ==
  ASSUME LinkTypes, Locals, words' \in [Segs -> Record], starts' \in 0 .. MaxStarts
  PROVE  LinkTypes'
<1>1. (bpc \in {"idle", "tar", "read"} /\ bj \in Joints /\ bmsg \in 0 .. MaxSent /\ bread \in Targets)'
  BY ZeroTypes DEF Locals, LinkTypes, bridgeVars
<1>2. (epc \in {"recv", "servo", "mode", "tar", "pos", "send"} /\ ej \in Joints
       /\ tx \in Frame /\ rx \in Targets /\ flight \in Targets \cup {NoFrame})'
  BY ZeroTypes DEF Locals, LinkTypes, ecatVars, NoFrame
<1>3. UNCHANGED <<hand, hpos, sent>>
  BY DEF Locals
<1> QED
  BY <1>1, <1>2, <1>3 DEF LinkTypes

LEMMA LifeTypes ==
  ASSUME SegInv, LinkTypes, Life
  PROVE  LinkTypes'
<1>1. ASSUME NEW c \in Clients, CleanStart(c)
      PROVE  LinkTypes'
  <2>1. c \in Others /\ pc[c] = "wipe" /\ starts' = starts /\ Locals
        /\ words' = [words EXCEPT ![at[c]] = ZeroWords]
    BY <1>1 DEF CleanStart, Wipe, Goes, SegInv, SegTypes, Others
  <2>2. at[c] \in Segs
    BY <2>1, HasSegment DEF Holding
  <2> QED
    BY <2>1, <2>2, ZeroTypes, LocalsTypes DEF LinkTypes
<1>2. ASSUME UNCHANGED words, Locals,
             StartRt \/ StartBridge \/ Stop \/ \E c \in Clients : InitShm(c) \/ DeleteShm(c) \/ Crash(c)
      PROVE  LinkTypes'
  <2>1. starts' \in 0 .. MaxStarts
    BY <1>2, SegmentBounds
       DEF LinkTypes, StartRt, StartBridge, Stop, StopRt, StopBridge, InitShm, Get, Attach, Check,
           IncLoad, IncStore, DeleteShm, DecLoad, DecStore, Cmp, Rm, Exit, Crash
  <2> QED
    BY <1>2, <2>1, LocalsTypes DEF LinkTypes
<1> QED
  BY <1>1, <1>2 DEF Life

LEMMA BridgeTypes ==
  ASSUME SegInv, LinkTypes, Handlers
  PROVE  LinkTypes'
<1> DEFINE Rest == UNCHANGED <<starts, epc, ej, tx, rx, flight, hand, hpos>>
<1>1. Rest /\ pc[bridge] = "on"
  BY DEF Handlers, OnServo, OnMode, OnTarget, TargetWord, OnTimer, ReadWord, BridgeOnly,
         BridgeAt, segVars, ecatVars, handVars
<1>2. B \in Segs
  BY <1>1, HasSegment, ThreadsAssumption DEF B, Others, Clients, Holding
<1>3. \A n \in Int : Truncated(n) \in Byte
  BY DEF Truncated
<1>a. words[B] \in Record /\ words[B].tar \in Targets /\ words[B].armed \in Targets
  BY <1>2 DEF LinkTypes, Record
<1>b. Handled => sent' \in 1 .. MaxSent
  BY HandAssumption DEF Handled, LinkTypes
<1>4. CASE OnServo
  <2>1. PICK m \in ServoMsgs, a \in Targets :
           words' = [words EXCEPT ![B].servo = Truncated(m), ![B].armed = a]
    BY <1>4, <1>a DEF OnServo
  <2>2. [words[B] EXCEPT !.servo = Truncated(m), !.armed = a] \in Record
    BY <1>a, <1>3, HandAssumption DEF Record
  <2>3. words' = [words EXCEPT ![B] = [words[B] EXCEPT !.servo = Truncated(m), !.armed = a]]
    BY <1>2, <2>1 DEF LinkTypes
  <2>4. words' \in [Segs -> Record]
    BY <1>2, <2>2, <2>3 DEF LinkTypes
  <2> QED
    BY <1>1, <1>4, <1>b, <2>4, HandAssumption DEF OnServo, LinkTypes, bridgeVars
<1>5. CASE OnMode
  <2>1. PICK m \in ModeMsgs : words' = [words EXCEPT ![B].mode = Truncated(m)]
    BY <1>5 DEF OnMode
  <2>2. [words[B] EXCEPT !.mode = Truncated(m)] \in Record
    BY <1>a, <1>3, HandAssumption DEF Record
  <2>4. words' \in [Segs -> Record]
    BY <1>2, <2>1, <2>2 DEF LinkTypes
  <2> QED
    BY <1>1, <1>5, <1>b, <2>4, HandAssumption DEF OnMode, LinkTypes, bridgeVars
<1>6. CASE OnTarget
  <2>1. sent' \in 0 .. MaxSent
    BY <1>6, <1>b, HandAssumption DEF OnTarget
  <2>2. /\ bmsg' \in 0 .. MaxSent /\ bj' \in Joints
        /\ bpc' \in {"tar", bpc} /\ UNCHANGED <<words, bread>>
    BY <1>6, <2>1, ZeroTypes DEF OnTarget, LinkTypes
  <2> QED
    BY <1>1, <2>1, <2>2 DEF LinkTypes
<1>7. CASE TargetWord
  <2>1. words' = [words EXCEPT ![B].tar[bj] = bmsg] /\ UNCHANGED <<bmsg, bread, sent>>
        /\ bpc' \in {"idle", bpc} /\ bj' \in Joints
    BY <1>7, HandAssumption DEF TargetWord, LinkTypes
  <2>2. words' \in [Segs -> Record]
    BY <1>2, <2>1, WordTypes DEF LinkTypes
  <2> QED
    BY <1>1, <2>1, <2>2 DEF LinkTypes
<1>8. CASE OnTimer
  BY <1>1, <1>8, ZeroTypes DEF OnTimer, LinkTypes
<1>9. CASE ReadWord
  <2>1. bread' = [bread EXCEPT ![bj] = words[B].pos[bj]] /\ UNCHANGED <<words, bmsg, sent>>
        /\ bpc' \in {"idle", bpc} /\ bj' \in Joints
    BY <1>9, HandAssumption DEF ReadWord, LinkTypes
  <2>2. words[B].pos \in Targets
    BY <1>2 DEF LinkTypes, Record
  <2>3. bread' \in Targets
    BY <2>1, <2>2 DEF LinkTypes
  <2> QED
    BY <1>1, <2>1, <2>3 DEF LinkTypes
<1> QED
  BY <1>4, <1>5, <1>6, <1>7, <1>8, <1>9 DEF Handlers

LEMMA FrameTypes ==
  ASSUME NEW f \in Frame
  PROVE  /\ \A s \in Status, t \in Targets : [f EXCEPT !.status1 = s, !.armed = t] \in Frame
         /\ \A b \in Byte : [f EXCEPT !.status2 = b] \in Frame
         /\ \A t \in Targets : [f EXCEPT !.tar = t] \in Frame
<1> HIDE DEF Targets, Byte
<1>1. \A s \in Status, t \in Targets : [f EXCEPT !.status1 = s, !.armed = t] \in Frame
  BY DEF Frame
<1>2. \A b \in Byte : [f EXCEPT !.status2 = b] \in Frame
  BY DEF Frame
<1>3. \A t \in Targets : [f EXCEPT !.tar = t] \in Frame
  BY DEF Frame
<1> QED
  BY <1>1, <1>2, <1>3

LEMMA CycleTypes ==
  ASSUME SegInv, LinkTypes, Cycle \/ Move
  PROVE  LinkTypes'
<1> DEFINE Rest == UNCHANGED <<starts, bpc, bj, bmsg, bread, sent>>
<1>1. Rest
  BY DEF Cycle, ReadServo, ReadMode, ReadTarget, WritePosition, Receive, Send, EcatOnly, Move,
         segVars, bridgeVars
<1>2. Cycle => E \in Segs
  <2>1. Cycle => pc[ecat] = "on"
    BY DEF Cycle, ReadServo, ReadMode, ReadTarget, WritePosition, Receive, Send, EcatGoes, EcatAt
  <2> QED
    BY <2>1, HasSegment, ThreadsAssumption DEF E, Others, Clients, Holding
<1>a. E \in Segs => /\ words[E].tar \in Targets /\ words[E].armed \in Targets
                   /\ words[E].mode \in Byte
  BY DEF LinkTypes, Record
<1>b. rx[ej] \in 0 .. MaxSent /\ tx.tar \in Targets
  BY DEF LinkTypes, Frame
<1>c. \A p, q \in {"tar", "pos", "send"} : NextJoint(p, q) => ej' \in Joints /\ epc' \in {p, q}
  BY HandAssumption DEF NextJoint, LinkTypes
<1>3. CASE ReadServo
  <2>1. words[E].armed \in Targets
    BY <1>2, <1>3, <1>a DEF Cycle
  <2>2. tx' \in Frame
    <3> HIDE DEF Targets, Byte
    <3> DEFINE s == IF words[E].servo = 1 THEN 65535 ELSE 0
    <3>1. tx' = [tx EXCEPT !.status1 = s, !.armed = words[E].armed]
      BY <1>3 DEF ReadServo
    <3>2. s \in Status
      BY DEF Status
    <3> HIDE DEF s
    <3> QED
      BY <2>1, <3>1, <3>2, FrameTypes DEF LinkTypes
  <2> QED
    BY <1>1, <1>3, <2>2 DEF ReadServo, EcatGoes, EcatOnly, LinkTypes
<1>4. CASE ReadMode
  <2>1. words[E].mode \in Byte
    BY <1>2, <1>4, <1>a DEF Cycle
  <2>2. tx' \in Frame
    <3> HIDE DEF Targets, Byte
    <3> QED
      BY <1>4, <2>1, FrameTypes DEF ReadMode, LinkTypes
  <2> QED
    BY <1>1, <1>4, <2>2 DEF ReadMode, EcatGoes, EcatOnly, LinkTypes
<1>5. CASE ReadTarget
  <2>1. words[E].tar[ej] \in 0 .. MaxSent
    BY <1>2, <1>5, <1>a DEF Cycle, LinkTypes
  <2>2. [tx.tar EXCEPT ![ej] = words[E].tar[ej]] \in Targets
    BY <1>b, <2>1
  <2>3. tx' = [tx EXCEPT !.tar = [tx.tar EXCEPT ![ej] = words[E].tar[ej]]]
    BY <1>5 DEF ReadTarget
  <2>4. tx' \in Frame
    <3> HIDE DEF Targets, Byte
    <3> QED
      BY <2>2, <2>3, FrameTypes DEF LinkTypes
  <2> QED
    BY <1>1, <1>5, <1>c, <2>4 DEF ReadTarget, EcatOnly, LinkTypes
<1>6. CASE WritePosition
  <2>1. words' \in [Segs -> Record]
    BY <1>2, <1>6, <1>b, WordTypes DEF Cycle, WritePosition, LinkTypes
  <2> QED
    BY <1>1, <1>6, <1>c, <2>1 DEF WritePosition, EcatOnly, LinkTypes
<1>7. CASE \E ok \in BOOLEAN : Receive(ok) \/ Send(ok)
  <2>1. ASSUME NEW ok \in BOOLEAN, Receive(ok)
        PROVE  LinkTypes'
    BY <1>1, <2>1 DEF Receive, EcatGoes, EcatOnly, LinkTypes
  <2>2. ASSUME NEW ok \in BOOLEAN, Send(ok)
        PROVE  LinkTypes'
    BY <1>1, <2>2 DEF Send, EcatGoes, LinkTypes
  <2> QED
    BY <1>7, <2>1, <2>2
<1>8. CASE Move
  BY <1>1, <1>8 DEF Move, ecatVars, LinkTypes, Frame
<1> QED
  BY <1>3, <1>4, <1>5, <1>6, <1>7, <1>8 DEF Cycle

LEMMA TypesKept ==
  ASSUME SegInv, LinkTypes, [Next]_vars
  PROVE  LinkTypes'
<1>1. CASE UNCHANGED vars
  BY <1>1 DEF vars, segVars, linkVars, bridgeVars, ecatVars, handVars, LinkTypes
<1> QED
  BY <1>1, LifeTypes, BridgeTypes, CycleTypes DEF Next

\* Segments, threads, frames and messages have their types, process_num never
\* leaves the integers, and no word leaves its range (shm.h:10-29).
THEOREM HandTypes ==
  ASSUME Orderly
  PROVE  Spec => []HandTypeOK
<1>1. Init => SegInv /\ LinkTypes
  BY SegInit0, LinkInit0 DEF Init
<1>2. SegInv /\ LinkTypes /\ [Next]_vars => SegInv' /\ LinkTypes'
  BY SegKept, TypesKept
<1>3. SegInv /\ LinkTypes => HandTypeOK
  BY DEF SegInv, SegTypes, LinkTypes, HandTypeOK, Record, Frame, Status
<1> QED
  BY <1>1, <1>2, <1>3, PTL DEF Spec

-----------------------------------------------------------------------------
(* The order of the target and of the servo.                               *)

\* While the RT process starts, a thread may wipe the segment that ecatthread uses
\* already; there is no target in it then.
Clean ==
    LET wiping == \E t \in RtThreads : pc[t] = "wipe"
        there  == \E u \in RtThreads : pc[u] \in {"inc", "put", "on"}
    IN  key # 0 /\ pc[main] = "on" =>
          /\ wiping /\ num[key] # 0 => \E u \in RtThreads : pc[u] = "on"
          /\ (wiping \/ num[key] = 0) /\ there => words[key].tar = AllZero

LEMMA CleanStarts ==
  ASSUME SegInv, Clean, Orderly, UNCHANGED words, StartRt \/ StartBridge
  PROVE  Clean'
<1>1. CASE StartRt
  <2>1. \A t \in RtThreads : pc'[t] = "get"
    BY <1>1 DEF StartRt, Clients
  <2> QED
    BY <2>1 DEF Clean
<1>2. CASE StartBridge
  <2>1. /\ pc' = [pc EXCEPT ![bridge] = "get"] /\ UNCHANGED <<key, num>> /\ RtQuiet
    BY <1>2 DEF StartBridge, Goes
  <2>2. \A c \in Clients \ {bridge} : pc'[c] = pc[c]
    BY <2>1 DEF SegInv, SegTypes
  <2> QED
    BY <2>1, <2>2, ThreadsAssumption DEF Clean, Clients
<1> QED
  BY <1>1, <1>2

LEMMA CleanStops ==
  ASSUME SegInv, Clean, Orderly, UNCHANGED words, StopRt \/ StopBridge
  PROVE  Clean'
BY ThreadsAssumption, SegmentBounds
   DEF StopRt, StopBridge, SegInv, SegTypes, Turns, Holds, Counted, Registers, Alone, Clean, Clients, Segs, Goes, Others,
       BridgeQuiet, RtQuiet, RtOn, RtDown, Holding, Removed

LEMMA CleanEnds ==
  ASSUME SegInv, Clean, UNCHANGED <<key, made, num, words>>, NEW c \in Clients, Ends(c)
  PROVE  Clean'
BY ThreadsAssumption, SegmentBounds
   DEF Ends, Process, SegInv, SegTypes, Turns, Holds, Counted, Registers, Alone, Clean, Clients, Segs, Goes, Others,
       BridgeQuiet, RtQuiet, RtOn, RtDown, Holding, Removed

LEMMA CleanGet ==
  ASSUME SegInv, Clean, UNCHANGED words, NEW c \in Clients, Get(c)
  PROVE  Clean'
<1>1. /\ pc[c] = "get" /\ pc' = [pc EXCEPT ![c] = "attach"] /\ UNCHANGED num
      /\ key # 0 => key' = key
  BY DEF Get, Goes
<1>2. \A d \in Clients : pc'[d] = pc[d] \/ (d = c /\ pc'[d] = "attach")
  BY <1>1 DEF SegInv, SegTypes
<1>3. CASE key # 0
  BY <1>1, <1>2, <1>3, ThreadsAssumption DEF Clean, Clients
<1>4. CASE key = 0 /\ pc'[main] = "on"
  <2>1. pc[main] = "on"
    BY <1>2, <1>4, ThreadsAssumption DEF Clients
  <2>2. \A t \in RtThreads : pc[t] \notin Holding
    BY <1>4, <2>1, ThreadsAssumption DEF SegInv, Holds, Removed, Others, Clients
  <2>3. \A t \in RtThreads : pc'[t] \notin {"wipe", "inc", "put", "on"}
    BY <1>2, <2>2 DEF Holding, Clients
  <2> QED
    BY <2>3 DEF Clean
<1> QED
  BY <1>3, <1>4 DEF Clean

LEMMA CleanCheck ==
  ASSUME SegInv, Clean, UNCHANGED words, NEW c \in Clients, Check(c)
  PROVE  Clean'
BY ThreadsAssumption, SegmentBounds
   DEF Check, SegInv, SegTypes, Turns, Holds, Counted, Registers, Alone, Clean, Clients, Segs, Goes, Others,
       BridgeQuiet, RtQuiet, RtOn, RtDown, Holding, Removed

LEMMA CleanLoads ==
  ASSUME SegInv, Clean, UNCHANGED words, NEW c \in Clients, IncLoad(c) \/ DecLoad(c)
  PROVE  Clean'
<1>1. /\ UNCHANGED <<key, num>>
      /\ pc[c] \in {"inc", "dec"}
      /\ pc' = [pc EXCEPT ![c] = IF pc[c] = "inc" THEN "put" ELSE "take"]
  BY DEF IncLoad, DecLoad, Goes
<1>2. \A u \in RtThreads : pc'[u] = pc[u] \/ (pc[u] = "inc" /\ pc'[u] = "put")
  BY <1>1 DEF SegInv, SegTypes, Clients
<1>3. pc'[main] = "on" => pc[main] = "on"
  BY <1>1, ThreadsAssumption DEF SegInv, SegTypes, Clients
<1> QED
  BY <1>1, <1>2, <1>3 DEF Clean

LEMMA CleanIncStore ==
  ASSUME SegInv, Clean, UNCHANGED words, NEW c \in Clients, IncStore(c)
  PROVE  Clean'
<1> SUFFICES ASSUME key # 0, pc'[main] = "on"
             PROVE  Clean'
  BY DEF Clean, IncStore
<1>1. /\ pc[c] = "put" /\ pc' = [pc EXCEPT ![c] = "on"] /\ UNCHANGED key
      /\ num' = [num EXCEPT ![at[c]] = seen[c] + 1]
  BY DEF IncStore, Goes
<1>2. \A d \in Clients \ {c} : pc'[d] = pc[d]
  BY <1>1 DEF SegInv, SegTypes
<1>3. c \in Others /\ pc'[c] = "on" /\ pc[main] = "on"
  BY <1>1, <1>2 DEF SegInv, SegTypes, Others, Clients
<1>4. at[c] = key /\ key \in Segs
  BY <1>1, <1>3 DEF SegInv, SegTypes, Holds, Holding, Removed, Segs
<1>5. num'[key] >= 1
  BY <1>1, <1>4 DEF SegInv, SegTypes, Registers, Others
<1>6. CASE c \in RtThreads
  BY <1>1, <1>2, <1>3, <1>5, <1>6 DEF Clean, Clients
<1>7. CASE c = bridge
  <2>1. \A t \in RtThreads : pc[t] # "wipe" /\ pc'[t] = pc[t]
    BY <1>1, <1>2, <1>7, ThreadsAssumption DEF SegInv, Alone, Clients
  <2> QED
    BY <1>1, <1>5, <2>1 DEF Clean
<1> QED
  BY <1>3, <1>6, <1>7 DEF Others, Clients

LEMMA CleanDecStore ==
  ASSUME SegInv, Clean, UNCHANGED words, NEW c \in Clients, DecStore(c)
  PROVE  Clean'
<1> SUFFICES ASSUME key # 0, pc'[main] = "on"
             PROVE  Clean'
  BY DEF Clean, DecStore
<1>1. /\ pc[c] = "take" /\ pc' = [pc EXCEPT ![c] = "cmp"] /\ UNCHANGED key
      /\ num' = [num EXCEPT ![at[c]] = num[at[c]] - 1]
  BY DEF DecStore, SegInv, Registers, Goes
<1>2. c = bridge /\ pc[main] = "on"
  BY <1>1, ThreadsAssumption DEF SegInv, SegTypes, Clients
<1>3. RtOn
  BY <1>1, <1>2 DEF SegInv, Turns, BridgeQuiet, RtQuiet, RtDown
<1>4. at[bridge] = key /\ key \in Segs
  BY <1>1, <1>2, ThreadsAssumption
     DEF SegInv, SegTypes, Holds, Holding, Removed, Others, Clients, Segs
<1>5. num[key] >= 2
  BY <1>1, <1>2, <1>3, <1>4 DEF SegInv, Counted, Segs
<1>6. num'[key] >= 1
  BY <1>1, <1>2, <1>4, <1>5 DEF SegInv, SegTypes
<1>7. \A t \in RtThreads : pc'[t] = "on"
  BY <1>1, <1>2, <1>3, ThreadsAssumption DEF RtOn, SegInv, SegTypes, Clients
<1> QED
  BY <1>1, <1>6, <1>7 DEF Clean

LEMMA CleanCmp ==
  ASSUME SegInv, Clean, UNCHANGED words, NEW c \in Clients, Cmp(c)
  PROVE  Clean'
BY ThreadsAssumption, SegmentBounds
   DEF Cmp, SegInv, SegTypes, Turns, Holds, Counted, Registers, Alone, Clean, Clients, Segs, Goes, Others,
       BridgeQuiet, RtQuiet, RtOn, RtDown, Holding, Removed

LEMMA CleanRm ==
  ASSUME SegInv, Clean, UNCHANGED words, NEW c \in Clients, Rm(c)
  PROVE  Clean'
BY ThreadsAssumption, SegmentBounds
   DEF Rm, SegInv, SegTypes, Turns, Holds, Counted, Registers, Alone, Clean, Clients, Segs, Goes, Others,
       BridgeQuiet, RtQuiet, RtOn, RtDown, Holding, Removed

LEMMA CleanAttach ==
  ASSUME SegInv, Clean, UNCHANGED words, NEW c \in Clients, Attach(c)
  PROVE  Clean'
<1>1. CASE Goes(c, "attach", "check") /\ UNCHANGED at
  BY <1>1 DEF Attach, Clean, Goes, SegInv, SegTypes
<1>2. CASE Ends(c)
  BY <1>2, CleanEnds DEF Attach
<1> QED
  BY <1>1, <1>2 DEF Attach

LEMMA CleanWipe ==
  ASSUME SegInv, Clean, LinkTypes, NEW c \in Clients, CleanStart(c)
  PROVE  Clean'
<1>1. /\ c \in Others /\ pc[c] = "wipe" /\ UNCHANGED key /\ pc' = [pc EXCEPT ![c] = "inc"]
      /\ num' = [num EXCEPT ![at[c]] = 0]
      /\ words' = [words EXCEPT ![at[c]] = ZeroWords]
  BY DEF CleanStart, Wipe, Goes, SegInv, SegTypes, Others
<1>2. key # 0 => at[c] = key /\ at[c] \in Segs
  BY <1>1, HasSegment DEF SegInv, Holds, Holding, Removed
<1>3. key # 0 => words'[key].tar = AllZero /\ num'[key] = 0
  BY <1>1, <1>2 DEF LinkTypes, ZeroWords, SegInv, SegTypes
<1> QED
  BY <1>1, <1>3 DEF Clean

\* Only the target handler changes a target, and there is none in a clean segment.
LEMMA OnlyTargetWord ==
  ASSUME SegInv, LinkTypes, Handlers \/ Cycle \/ Move, ~TargetWord
  PROVE  \A i \in Segs : words'[i].tar = words[i].tar
<1>1. CASE OnServo
  <2>1. B \in Segs
    BY <1>1, HasSegment, ThreadsAssumption DEF OnServo, BridgeAt, B, Others, Clients, Holding
  <2>2. PICK v, a : words' = [words EXCEPT ![B].servo = v, ![B].armed = a]
    BY <1>1 DEF OnServo
  <2> QED
    BY <2>1, <2>2 DEF LinkTypes, Record
<1>2. CASE OnMode
  <2>1. PICK v : words' = [words EXCEPT ![B].mode = v]
    BY <1>2 DEF OnMode
  <2> QED
    BY <2>1 DEF LinkTypes, Record
<1>3. CASE WritePosition
  <2>1. words' = [words EXCEPT ![E].pos[ej] = rx[ej]]
    BY <1>3 DEF WritePosition
  <2> QED
    BY <2>1 DEF LinkTypes, Record
<1>4. CASE OnTarget \/ OnTimer \/ ReadWord
  BY <1>4 DEF OnTarget, OnTimer, ReadWord
<1>5. CASE ReadServo \/ ReadMode \/ ReadTarget \/ Move
  BY <1>5 DEF ReadServo, ReadMode, ReadTarget, Move
<1>6. CASE \E ok \in BOOLEAN : Receive(ok) \/ Send(ok)
  BY <1>6 DEF Receive, Send
<1> QED
  BY <1>1, <1>2, <1>3, <1>4, <1>5, <1>6 DEF Handlers, Cycle

LEMMA SegVarsKept ==
  Handlers \/ Cycle \/ Move => UNCHANGED <<key, made, num, pc, at>>
BY DEF Handlers, OnServo, OnMode, OnTarget, TargetWord, OnTimer, ReadWord, BridgeOnly,
       Cycle, ReadServo, ReadMode, ReadTarget, WritePosition, Receive, Send, EcatOnly, Move, segVars

LEMMA CleanKept ==
  ASSUME Orderly, SegInv, LinkTypes, Clean, [Next]_vars
  PROVE  Clean'
<1>1. CASE Life
  <2>1. CASE \E c \in Clients : CleanStart(c)
    BY <2>1, CleanWipe
  <2>2. CASE UNCHANGED words /\ (StartRt \/ StartBridge \/ Stop)
    BY <2>2, CleanStarts, CleanStops DEF Stop
  <2>3. ASSUME UNCHANGED words, NEW c \in Clients, InitShm(c) \/ DeleteShm(c) \/ Crash(c)
        PROVE  Clean'
    <3>1. CASE Get(c) \/ Attach(c) \/ Check(c) \/ IncStore(c)
      BY <2>3, <3>1, CleanGet, CleanAttach, CleanCheck, CleanIncStore
    <3>2. CASE IncLoad(c) \/ DecLoad(c) \/ DecStore(c) \/ Cmp(c) \/ Rm(c)
      BY <2>3, <3>2, CleanLoads, CleanDecStore, CleanCmp, CleanRm
    <3>3. CASE Exit(c) \/ Crash(c)
      BY <2>3, <3>3, CleanEnds DEF Exit, Crash
    <3> QED
      BY <2>3, <3>1, <3>2, <3>3 DEF InitShm, DeleteShm
  <2> QED
    BY <1>1, <2>1, <2>2, <2>3 DEF Life
<1>2. CASE TargetWord
  <2>1. pc[bridge] = "on" /\ UNCHANGED <<key, num, pc>>
    BY <1>2, SegVarsKept DEF TargetWord, BridgeAt, Handlers
  <2>2. \A t \in RtThreads : pc[t] # "wipe"
    BY <2>1 DEF SegInv, Alone
  <2>3. key # 0 => num[key] >= 1
    BY <2>1 DEF SegInv, Counted
  <2> QED
    BY <2>1, <2>2, <2>3 DEF Clean
<1>3. CASE (Handlers \/ Cycle \/ Move) /\ ~TargetWord
  <2>1. UNCHANGED <<key, num, pc>>
    BY <1>3, SegVarsKept
  <2>2. key # 0 => words'[key].tar = words[key].tar
    BY <1>3, OnlyTargetWord DEF SegInv, SegTypes, Segs
  <2> QED
    BY <2>1, <2>2 DEF Clean
<1>4. CASE UNCHANGED vars
  BY <1>4 DEF Clean, vars, segVars, linkVars
<1> QED
  BY <1>1, <1>2, <1>3, <1>4 DEF Next

\* No target is older than the one the servo was switched on with, and every one
\* was sent.
Below ==
    /\ \A i \in Segs, j \in Joints :
          words[i].armed[j] <= words[i].tar[j] /\ words[i].tar[j] <= sent
    /\ bpc = "tar" => bmsg <= sent /\ \A i \in Segs, j \in Joints : words[i].tar[j] <= bmsg

\* The targets in a frame are read after what the frame says of the servo.
Behind ==
    /\ pc[ecat] # "on" => epc = "recv"
    /\ epc \in {"send", "recv", "servo", "mode"} => ej = 1
    /\ pc[ecat] = "on" /\ epc \in {"mode", "tar"} =>
          \A j \in Joints : tx.armed[j] <= IF j < ej THEN tx.tar[j] ELSE words[E].tar[j]
    /\ epc \in {"pos", "send"} => \A j \in Joints : tx.armed[j] <= tx.tar[j]
    /\ \A j \in Joints : hand.armed[j] <= hand.tar[j]

LEMMA ZeroWord == \A j \in Joints : ZeroWords.tar[j] = 0 /\ ZeroWords.armed[j] = 0
<1>1. ZeroWords.tar = AllZero /\ ZeroWords.armed = AllZero
  BY DEF ZeroWords
<1> QED
  BY <1>1 DEF AllZero

LEMMA OrderInit == Init => Clean /\ Below /\ Behind
<1> SUFFICES ASSUME Init
             PROVE  Clean /\ Below /\ Behind
  OBVIOUS
<1>1. Clean
  BY DEF Init, SegInit, Clean
<1>2. Below
  <2>1. (\A i \in Segs : words[i] = ZeroWords) /\ bpc = "idle" /\ sent = 0
    BY DEF Init, LinkInit
  <2> QED
    BY <2>1, ZeroWord DEF Below
<1>3. Behind
  BY DEF Init, SegInit, LinkInit, Behind, ZeroTx, AllZero
<1> QED
  BY <1>1, <1>2, <1>3

LEMMA LocalsBelow ==
  ASSUME Below, Locals, \A i \in Segs : words'[i] = words[i] \/ words'[i] = ZeroWords,
         LinkTypes
  PROVE  Below'
<1>1. \A i \in Segs, j \in Joints :
         \/ words'[i].armed[j] = words[i].armed[j] /\ words'[i].tar[j] = words[i].tar[j]
         \/ words'[i].armed[j] = 0 /\ words'[i].tar[j] = 0
  BY ZeroWord
<1>2. sent' = sent /\ (bpc' = "tar" => bpc = "tar" /\ bmsg' = bmsg)
  BY DEF Locals, bridgeVars
<1>3. sent \in Nat /\ bmsg \in Nat
  BY HandAssumption DEF LinkTypes
<1> QED
  BY <1>1, <1>2, <1>3 DEF Below

\* What the words of a segment are, as numbers.
LEMMA WordNumbers ==
  ASSUME LinkTypes
  PROVE  /\ \A i \in Segs, j \in Joints : words[i].tar[j] \in Nat /\ words[i].armed[j] \in Nat
         /\ \A j \in Joints : tx.tar[j] \in Nat /\ tx.armed[j] \in Nat
         /\ sent \in Nat /\ bmsg \in Nat
<1>1. \A t \in Targets, j \in Joints : t[j] \in Nat
  BY HandAssumption
<1>2. \A i \in Segs : words[i].tar \in Targets /\ words[i].armed \in Targets
  BY DEF LinkTypes, Record
<1>3. tx.tar \in Targets /\ tx.armed \in Targets
  BY DEF LinkTypes, Frame
<1>4. sent \in Nat /\ bmsg \in Nat
  BY HandAssumption DEF LinkTypes
<1> QED
  BY <1>1, <1>2, <1>3, <1>4

LEMMA BelowKept ==
  ASSUME SegInv, LinkTypes, Below, [Next]_vars
  PROVE  Below'
<1>1. CASE Life
  <2>1. Locals
    BY <1>1 DEF Life, CleanStart
  <2>2. \A i \in Segs : words'[i] = words[i] \/ words'[i] = ZeroWords
    BY <1>1 DEF Life, CleanStart, LinkTypes
  <2> QED
    BY <2>1, <2>2, LocalsBelow
<1>2. ASSUME pc[bridge] = "on"
      PROVE  B \in Segs
  BY <1>2, HasSegment, ThreadsAssumption DEF B, Others, Clients, Holding
<1>3. CASE OnServo
  <2>1. PICK v \in Int, a \in {words[B].armed, words[B].tar} :
           words' = [words EXCEPT ![B].servo = v, ![B].armed = a]
    <3>1. B \in Segs /\ words[B] \in Record
      BY <1>2, <1>3 DEF OnServo, BridgeAt, LinkTypes
    <3>2. PICK m \in ServoMsgs :
             words' = [words EXCEPT ![B].servo = Truncated(m),
                                    ![B].armed = IF Truncated(m) = 1 /\ words[B].servo # 1
                                                 THEN words[B].tar ELSE @]
      BY <1>3 DEF OnServo
    <3>3. words' = [words EXCEPT ![B].servo = Truncated(m),
                                 ![B].armed = IF Truncated(m) = 1 /\ words[B].servo # 1
                                              THEN words[B].tar ELSE words[B].armed]
      BY <3>1, <3>2 DEF LinkTypes, Record
    <3>4. Truncated(m) \in Int
      BY HandAssumption DEF Truncated
    <3> QED
      BY <3>3, <3>4
  <2>2. \A i \in Segs : words'[i].tar = words[i].tar /\ words'[i].armed \in {words[i].armed, words[i].tar}
    BY <2>1 DEF LinkTypes, Record
  <2>3. sent' = sent + 1 /\ UNCHANGED <<bpc, bmsg>> /\ bpc = "idle"
    BY <1>3 DEF OnServo, Handled, BridgeAt, bridgeVars
  <2> QED
    BY <2>2, <2>3, WordNumbers DEF Below
<1>4. CASE OnMode
  <2>1. PICK v : words' = [words EXCEPT ![B].mode = v]
    BY <1>4 DEF OnMode
  <2>2. \A i \in Segs : words'[i].tar = words[i].tar /\ words'[i].armed = words[i].armed
    BY <2>1 DEF LinkTypes, Record
  <2>3. sent' = sent + 1 /\ UNCHANGED <<bpc, bmsg>> /\ bpc = "idle"
    BY <1>4 DEF OnMode, Handled, BridgeAt, bridgeVars
  <2> QED
    BY <2>2, <2>3, WordNumbers DEF Below
<1>5. CASE OnTarget
  <2>1. /\ sent' = sent + 1 /\ UNCHANGED words
        /\ bpc' = "tar" => bmsg' = sent' \/ (UNCHANGED <<bpc, bmsg>> /\ bpc = "idle")
    BY <1>5 DEF OnTarget, Handled, BridgeAt
  <2> QED
    BY <2>1, WordNumbers DEF Below
<1>6. CASE TargetWord
  <2>1. /\ words' = [words EXCEPT ![B].tar[bj] = bmsg] /\ UNCHANGED <<bmsg, sent>>
        /\ pc[bridge] = "on" /\ bpc = "tar"
    BY <1>6 DEF TargetWord, BridgeAt
  <2>2. \A i \in Segs, j \in Joints :
           words'[i].armed = words[i].armed /\ words'[i].tar[j] \in {words[i].tar[j], bmsg}
    <3>1. words[B] \in Record /\ words[B].tar \in Targets
      BY <1>2, <2>1 DEF LinkTypes, Record
    <3> QED
      BY <1>2, <2>1, <3>1 DEF LinkTypes, Record
  <2> QED
    BY <2>1, <2>2, WordNumbers DEF Below
<1>7. CASE OnTimer \/ ReadWord
  <2>1. UNCHANGED <<words, bmsg, sent>> /\ bpc' \in {"idle", "read"}
    BY <1>7 DEF OnTimer, ReadWord, BridgeAt
  <2> QED
    BY <2>1 DEF Below
<1>8. CASE Cycle \/ Move
  <2>1. UNCHANGED <<bpc, bmsg, sent>>
    BY <1>8 DEF Cycle, ReadServo, ReadMode, ReadTarget, WritePosition, Receive, Send, EcatOnly,
                Move, bridgeVars
  <2>2. \A i \in Segs : words'[i].tar = words[i].tar /\ words'[i].armed = words[i].armed
    <3>1. CASE WritePosition
      BY <3>1 DEF WritePosition, LinkTypes, Record
    <3>2. CASE ~WritePosition
      BY <1>8, <3>2 DEF Cycle, ReadServo, ReadMode, ReadTarget, Receive, Send, Move
    <3> QED
      BY <3>1, <3>2
  <2> QED
    BY <2>1, <2>2 DEF Below
<1>9. CASE UNCHANGED vars
  BY <1>9 DEF Below, vars, linkVars, bridgeVars
<1> QED
  BY <1>1, <1>3, <1>4, <1>5, <1>6, <1>7, <1>8, <1>9 DEF Next, Handlers

\* Under ecatthread targets only grow: what is wiped while it runs is zero.
LEMMA TargetsGrow ==
  ASSUME SegInv, LinkTypes, Clean, Below, [Next]_vars, pc[ecat] = "on", pc'[ecat] = "on"
  PROVE  E' = E /\ E \in Segs /\ \A j \in Joints : words'[E].tar[j] >= words[E].tar[j]
<1> USE ThreadsAssumption
<1>1. E \in Segs
  BY HasSegment DEF E, Others, Clients, Holding
<1>2. pc[main] # "down" /\ E # 0
  BY DEF SegInv, SegTypes, Turns, Holds, Holding, Others, Clients, E
<1>3. CASE Life
  <2>1. at'[ecat] = at[ecat]
    <3>1. ASSUME NEW c \in Clients, Get(c) \/ Attach(c) \/ Exit(c) \/ Crash(c)
          PROVE  at'[ecat] = at[ecat]
      BY <3>1 DEF Get, Attach, Exit, Crash, Ends, Goes, SegInv, SegTypes, Clients
    <3>2. ASSUME StopRt \/ StopBridge \/ StartRt \/ StartBridge
          PROVE  at'[ecat] = at[ecat]
      BY <3>2 DEF StopRt, StopBridge, StartRt, StartBridge, SegInv, SegTypes, Clients
    <3>3. ASSUME NEW c \in Clients, Wipe(c) \/ Check(c) \/ IncLoad(c) \/ IncStore(c)
                                  \/ DecLoad(c) \/ DecStore(c) \/ Cmp(c) \/ Rm(c)
          PROVE  at'[ecat] = at[ecat]
      BY <3>3 DEF Wipe, Check, IncLoad, IncStore, DecLoad, DecStore, Cmp, Rm
    <3> QED
      BY <1>3, <3>1, <3>2, <3>3 DEF Life, CleanStart, Stop, InitShm, DeleteShm
  <2>2. CASE UNCHANGED words
    BY <1>1, <2>1, <2>2, WordNumbers DEF E
  <2>3. ASSUME NEW c \in Clients, CleanStart(c)
        PROVE  \A j \in Joints : words'[E].tar[j] >= words[E].tar[j]
    <3>1. words' = [words EXCEPT ![at[c]] = ZeroWords] /\ pc[c] = "wipe"
      BY <2>3 DEF CleanStart, Wipe, Goes
    <3>2. CASE at[c] # E
      BY <1>1, <3>1, <3>2, WordNumbers DEF LinkTypes
    <3>3. CASE at[c] = E
      <4>1. c \in RtThreads /\ pc[main] = "on"
        BY <1>2, <3>1 DEF SegInv, SegTypes, Turns, Alone, RtDown, Clients
      <4>2. E = key
        BY <1>2, <4>1 DEF SegInv, Holds, Holding, Removed, Others, Clients, E
      <4>3. words[E].tar = AllZero
        BY <1>2, <3>1, <4>1, <4>2 DEF Clean
      <4> QED
        BY <1>1, <3>1, <3>3, <4>3, ZeroWord DEF AllZero, LinkTypes
    <3> QED
      BY <3>2, <3>3
  <2> QED
    BY <1>1, <1>3, <2>1, <2>2, <2>3 DEF Life, E
<1>4. CASE TargetWord
  <2>1. /\ words' = [words EXCEPT ![B].tar[bj] = bmsg] /\ pc[bridge] = "on" /\ bpc = "tar"
        /\ UNCHANGED at
    BY <1>4, SegVarsKept DEF TargetWord, BridgeAt, Handlers
  <2>2. B \in Segs
    BY <2>1, HasSegment DEF B, Others, Clients, Holding
  <2>3. \A i \in Segs, j \in Joints : words'[i].tar[j] \in {words[i].tar[j], bmsg}
    <3>1. words[B] \in Record /\ words[B].tar \in Targets
      BY <2>2 DEF LinkTypes, Record
    <3> QED
      BY <2>1, <2>2, <3>1 DEF LinkTypes, Record
  <2> QED
    BY <1>1, <2>1, <2>3, WordNumbers DEF Below, E
<1>5. CASE (Handlers \/ Cycle \/ Move) /\ ~TargetWord
  BY <1>1, <1>5, OnlyTargetWord, SegVarsKept, WordNumbers DEF E
<1>6. CASE UNCHANGED vars
  BY <1>1, <1>6, WordNumbers DEF vars, segVars, linkVars, E
<1> QED
  BY <1>1, <1>3, <1>4, <1>5, <1>6 DEF Next

LEMMA CycleBehind ==
  ASSUME SegInv, LinkTypes, Below, Behind, Cycle
  PROVE  Behind'
<1> USE ThreadsAssumption, HandAssumption
<1>1. pc[ecat] = "on" /\ UNCHANGED <<pc, at>> /\ E \in Segs /\ E' = E
  <2>1. pc[ecat] = "on"
    BY DEF Cycle, ReadServo, ReadMode, ReadTarget, WritePosition, Receive, Send, EcatGoes, EcatAt
  <2> QED
    BY <2>1, HasSegment, SegVarsKept DEF E, Others, Clients, Holding
<1>2. \A j \in Joints : words'[E].tar[j] = words[E].tar[j]
  <2>1. CASE WritePosition
    BY <1>1, <2>1 DEF WritePosition, LinkTypes, Record
  <2>2. CASE ~WritePosition
    BY <2>2 DEF Cycle, ReadServo, ReadMode, ReadTarget, Receive, Send
  <2> QED
    BY <2>1, <2>2
<1>a. tx \in Frame /\ ej \in Joints
  BY DEF LinkTypes
<1>3. CASE ReadServo
  <2>1. /\ tx'.armed = words[E].armed /\ hand' = hand
        /\ epc = "servo" /\ epc' = "mode" /\ ej' = ej
    BY <1>3, <1>a DEF ReadServo, EcatGoes, EcatAt, EcatOnly, Frame
  <2>2. ej' = 1
    BY <2>1 DEF Behind
  <2> QED
    BY <1>1, <1>2, <2>1, <2>2 DEF Behind, Below
<1>4. CASE ReadMode
  <2>1. /\ tx'.armed = tx.armed /\ tx'.tar = tx.tar /\ hand' = hand
        /\ epc = "mode" /\ epc' = "tar" /\ ej' = ej
    BY <1>4, <1>a DEF ReadMode, EcatGoes, EcatAt, EcatOnly, Frame
  <2> QED
    BY <1>1, <1>2, <2>1 DEF Behind
<1>5. CASE ReadTarget
  <2>1. /\ tx'.armed = tx.armed /\ tx'.tar = [tx.tar EXCEPT ![ej] = words[E].tar[ej]]
        /\ hand' = hand /\ epc = "tar" /\ NextJoint("tar", "pos")
    BY <1>5, <1>a DEF ReadTarget, EcatAt, EcatOnly, Frame
  <2>2. \A j \in Joints : tx'.tar[j] = IF j = ej THEN words[E].tar[j] ELSE tx.tar[j]
    BY <1>a, <2>1 DEF Frame
  <2>3. \A j \in Joints : j <= ej => tx'.armed[j] <= tx'.tar[j]
    BY <1>1, <1>a, <2>1, <2>2 DEF Behind
  <2>4. \A j \in Joints : j > ej => tx'.armed[j] <= words[E].tar[j]
    BY <1>1, <1>a, <2>1 DEF Behind
  <2>5. CASE ej = NJ
    <3>1. epc' = "pos" /\ \A j \in Joints : j <= ej
      BY <2>1, <2>5 DEF NextJoint
    <3> QED
      BY <1>1, <2>1, <2>3, <3>1 DEF Behind
  <2>6. CASE ej # NJ
    <3>1. epc' = "tar" /\ ej' = ej + 1
      BY <2>1, <2>6 DEF NextJoint
    <3>2. \A j \in Joints : tx'.armed[j] <= IF j < ej' THEN tx'.tar[j] ELSE words'[E].tar[j]
      BY <1>2, <1>a, <2>3, <2>4, <3>1
    <3> QED
      BY <1>1, <2>1, <3>1, <3>2 DEF Behind
  <2> QED
    BY <2>5, <2>6
<1>6. CASE WritePosition
  <2>1. /\ tx' = tx /\ hand' = hand /\ epc = "pos"
        /\ epc' = "pos" \/ (epc' = "send" /\ ej' = 1)
    BY <1>6 DEF WritePosition, EcatAt, EcatOnly, NextJoint
  <2> QED
    BY <1>1, <2>1 DEF Behind
<1>7. CASE \E ok \in BOOLEAN : Receive(ok) \/ Send(ok)
  <2>1. ASSUME NEW ok \in BOOLEAN, Receive(ok)
        PROVE  Behind'
    BY <1>1, <2>1 DEF Receive, EcatGoes, EcatAt, EcatOnly, Behind
  <2>2. ASSUME NEW ok \in BOOLEAN, Send(ok)
        PROVE  Behind'
    <3>1. /\ hand' \in {tx, hand} /\ UNCHANGED <<tx, ej>> /\ epc = "send" /\ epc' = "recv"
      BY <2>2 DEF Send, EcatGoes, EcatAt
    <3> QED
      BY <1>1, <3>1 DEF Behind
  <2> QED
    BY <1>7, <2>1, <2>2
<1> QED
  BY <1>3, <1>4, <1>5, <1>6, <1>7 DEF Cycle

LEMMA BehindKept ==
  ASSUME SegInv, LinkTypes, Clean, Below, Behind, [Next]_vars
  PROVE  Behind'
<1>1. CASE UNCHANGED <<epc, ej, tx, hand>> /\ (pc[ecat] = "on" <=> pc'[ecat] = "on")
  <2>1. CASE pc[ecat] = "on"
    <3>1. \A j \in Joints : /\ words'[E].tar[j] \in Nat /\ words'[E].tar[j] >= words[E].tar[j]
                          /\ tx.armed[j] \in Nat /\ tx.tar[j] \in Nat /\ words[E].tar[j] \in Nat
      <4>1. (words \in [Segs -> Record])'
        BY TypesKept DEF LinkTypes
      <4>2. words'[E].tar \in Targets
        BY <1>1, <2>1, <4>1, TargetsGrow DEF Record
      <4> QED
        BY <1>1, <2>1, <4>2, TargetsGrow, WordNumbers, HandAssumption
    <3>2. E' = E /\ ej \in Joints
      BY <1>1, <2>1, TargetsGrow DEF LinkTypes
    <3>3. pc[ecat] = "on" /\ epc \in {"mode", "tar"} =>
             \A j \in Joints : tx.armed[j] <= IF j < ej THEN tx.tar[j] ELSE words'[E].tar[j]
      BY <3>1, <3>2 DEF Behind
    <3> QED
      BY <1>1, <2>1, <3>2, <3>3 DEF Behind
  <2>2. CASE pc[ecat] # "on"
    BY <1>1, <2>2 DEF Behind
  <2> QED
    BY <2>1, <2>2
<1>2. CASE Life
  <2>1. Locals
    BY <1>2 DEF Life, CleanStart
  <2>2. CASE pc'[ecat] = "on" /\ pc[ecat] = "on"
    BY <1>1, <2>1, <2>2 DEF Locals, ecatVars
  <2>3. CASE pc'[ecat] = "on" /\ pc[ecat] # "on"
    BY <2>1, <2>3 DEF Locals, ecatVars, Behind
  <2>4. CASE pc'[ecat] # "on"
    BY <2>1, <2>4 DEF Locals, Behind
  <2> QED
    BY <2>2, <2>3, <2>4
<1>3. CASE Cycle
  BY <1>3, CycleBehind
<1>4. CASE Handlers \/ Move \/ UNCHANGED vars
  <2>1. UNCHANGED <<epc, ej, tx, hand>>
    BY <1>4 DEF Handlers, OnServo, OnMode, OnTarget, TargetWord, OnTimer, ReadWord, BridgeOnly,
                Move, ecatVars, handVars, vars, linkVars
  <2>2. UNCHANGED pc
    BY <1>4, SegVarsKept DEF vars, segVars
  <2> QED
    BY <1>1, <2>1, <2>2
<1> QED
  BY <1>2, <1>3, <1>4 DEF Next

\* If a target is in place when the servo is switched on, the hand never gets an
\* older one with it: ecatthread reads servo_on before the targets (Ethercat_setting.cpp
\* 229-242), targets only grow, and the segment stays.
THEOREM ArmedWithItsTarget ==
  ASSUME Orderly
  PROVE  Spec => []ArmedWithTarget
<1> DEFINE Inv == SegInv /\ LinkTypes /\ Clean /\ Below /\ Behind
<1>1. Init => Inv
  BY SegInit0, LinkInit0, OrderInit DEF Init
<1>2. Inv /\ [Next]_vars => Inv'
  BY SegKept, TypesKept, CleanKept, BelowKept, BehindKept
<1>3. Inv => ArmedWithTarget
  <2>1. LinkTypes => \A j \in Joints : hand.tar[j] \in Nat /\ hand.armed[j] \in Nat
    <3>1. LinkTypes => hand.tar \in Targets /\ hand.armed \in Targets
      BY DEF LinkTypes, Frame
    <3> QED
      BY <3>1, HandAssumption
  <2> QED
    BY <2>1 DEF Behind, ArmedWithTarget
<1> QED
  BY <1>1, <1>2, <1>3, PTL DEF Spec

=============================================================================
