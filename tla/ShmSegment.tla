----------------------------- MODULE ShmSegment -----------------------------
(***************************************************************************)
(* How the threads of the RT process and the bridge share the segment of   *)
(* key 0x3931: init_shm and deleteSharedMemory of shm.cpp, each of whose   *)
(* system calls and accesses to process_num is a step: nothing locks the   *)
(* counting, so ++ and -- are a read and a write, and the compiler may use *)
(* a value that is in a register already.  The segment of the trajectories *)
(* (key 0x3932) is handled by the same code with the arm thread and the    *)
(* bridge as its only users.  The words of the segment are in HandLink.    *)
(***************************************************************************)
EXTENDS Integers

CONSTANTS
    RtThreads,      \* the threads of the RT process that call init_shm
    ecat,           \* ... of which ecatthread owns the pointer that main deletes
    main,           \* the main thread of the RT process
    bridge,         \* the bridge process
    Orderly,        \* TRUE: a process starts or stops only while the other one
                    \* does neither (nothing in the code sees to it)
    MaxStarts,      \* bound on the starts of both processes
    MaxSegs         \* bound on the segments the kernel creates

ASSUME ThreadsAssumption ==
    /\ ecat \in RtThreads
    /\ main \notin RtThreads /\ bridge \notin RtThreads /\ main # bridge
ASSUME SegmentBounds ==
    /\ Orderly \in BOOLEAN
    /\ MaxStarts \in Nat /\ MaxSegs \in Nat

Clients == RtThreads \cup {main, bridge}
Segs    == 1 .. MaxSegs

VARIABLES
    key,            \* the segment under the key, or 0
    made,           \* how many segments there have been: their names
    num,            \* process_num of each segment
    pc,             \* where each client is
    at,             \* the segment it has got, or 0
    seen,           \* process_num as it has it in a register
    starts

segVars == <<key, made, num, pc, at, seen, starts>>

Starting == {"get", "attach", "check", "wipe", "inc", "put"}
Stopping == {"dec", "take", "cmp", "rm", "exit"}
Attached == {"check", "wipe", "inc", "put", "on"} \cup Stopping

SegInit ==
    /\ key = 0 /\ made = 0
    /\ num = [i \in Segs |-> 0]
    /\ pc = [c \in Clients |-> "down"]
    /\ at = [c \in Clients |-> 0]
    /\ seen = [c \in Clients |-> 0]
    /\ starts = 0

\* Neither starting nor stopping.
BridgeQuiet == pc[bridge] \in {"down", "on"}
RtDown      == pc[main] = "down"
RtOn        == pc[main] = "on" /\ \A t \in RtThreads : pc[t] = "on"
RtQuiet     == RtDown \/ RtOn

Loads(c, n) == seen' = [seen EXCEPT ![c] = n]

Goes(c, from, to) == pc[c] = from /\ pc' = [pc EXCEPT ![c] = to]
Process(c) == IF c = bridge THEN {bridge} ELSE Clients \ {bridge}

\* A process ends: the kernel detaches it, and process_num knows nothing of it.
Ends(c) ==
    /\ pc' = [d \in Clients |-> IF d \in Process(c) THEN "down" ELSE pc[d]]
    /\ at' = [d \in Clients |-> IF d \in Process(c) THEN 0 ELSE at[d]]
    /\ seen' = [d \in Clients |-> IF d \in Process(c) THEN 0 ELSE seen[d]]

-----------------------------------------------------------------------------
\* main of the RT process creates its threads.
StartRt ==
    /\ RtDown /\ starts < MaxStarts
    /\ Orderly => BridgeQuiet
    /\ pc' = [c \in Clients |-> IF c \in RtThreads THEN "get" ELSE IF c = main THEN "on" ELSE pc[c]]
    /\ starts' = starts + 1
    /\ UNCHANGED <<key, made, num, at, seen>>

StartBridge ==
    /\ starts < MaxStarts
    /\ Goes(bridge, "down", "get")
    /\ Orderly => RtQuiet
    /\ starts' = starts + 1
    /\ UNCHANGED <<key, made, num, at, seen>>

\* init_shm: shmget with IPC_CREAT
Get(c) ==
    /\ Goes(c, "get", "attach")
    /\ \/ /\ key # 0
          /\ at' = [at EXCEPT ![c] = key]
          /\ UNCHANGED <<key, made>>
       \/ /\ key = 0 /\ made < MaxSegs
          /\ made' = made + 1 /\ key' = made + 1
          /\ at' = [at EXCEPT ![c] = made + 1]
    /\ UNCHANGED <<num, seen, starts>>

\* A segment without a key lives on while somebody is attached to it.
Exists(i) == key = i \/ \E d \in Clients : at[d] = i /\ pc[d] \in Attached

\* shmat, which fails on a segment that is gone: exit(0).
Attach(c) ==
    /\ pc[c] = "attach"
    /\ \/ Exists(at[c]) /\ Goes(c, "attach", "check") /\ UNCHANGED <<at, seen>>
       \/ ~Exists(at[c]) /\ Ends(c)
    /\ UNCHANGED <<key, made, num, starts>>

\* Mutant: a segment with one user counts as unused.
CheckOne(c) ==
    /\ Goes(c, "check", IF num[at[c]] <= 1 THEN "wipe" ELSE "inc")
    /\ Loads(c, num[at[c]])
    /\ UNCHANGED <<key, made, num, at, starts>>

Check(c) ==
    /\ Goes(c, "check", IF num[at[c]] = 0 THEN "wipe" ELSE "inc")
    /\ Loads(c, num[at[c]])
    /\ UNCHANGED <<key, made, num, at, starts>>

\* The "clean start": the memset covers process_num.
Wipe(c) ==
    /\ Goes(c, "wipe", "inc") /\ Loads(c, 0)
    /\ num' = [num EXCEPT ![at[c]] = 0]
    /\ UNCHANGED <<key, made, at, starts>>

\* process_num++ reads, or goes on with what Check or the memset left in a register ...
IncLoad(c) ==
    /\ Goes(c, "inc", "put")
    /\ Loads(c, num[at[c]]) \/ UNCHANGED seen
    /\ UNCHANGED <<key, made, num, at, starts>>

\* Mutant: only the first process is counted.
IncFirst(c) ==
    /\ Goes(c, "put", "on") /\ Loads(c, 0)
    /\ num' = [num EXCEPT ![at[c]] = 1]
    /\ UNCHANGED <<key, made, at, starts>>

\* ... and writes: what others have counted in between is lost.
IncStore(c) ==
    /\ Goes(c, "put", "on") /\ Loads(c, 0)
    /\ num' = [num EXCEPT ![at[c]] = seen[c] + 1]
    /\ UNCHANGED <<key, made, at, starts>>

-----------------------------------------------------------------------------
\* ethercat_run has returned from its loop and calls deleteSharedMemory once, with
\* the pointer of ecatthread; the other threads go on.
StopRt ==
    /\ pc[main] = "on"
    /\ Orderly => RtOn /\ BridgeQuiet
    /\ pc' = [pc EXCEPT ![main] = IF pc[ecat] \in Attached THEN "dec" ELSE "exit"]
    /\ at' = [at EXCEPT ![main] = at[ecat]]
    /\ UNCHANGED <<key, made, num, seen, starts>>

\* The destructor of the bridge.
StopBridge ==
    /\ Goes(bridge, "on", "dec")
    /\ Orderly => RtQuiet
    /\ UNCHANGED <<key, made, num, at, seen, starts>>

\* process_num-- reads ...
DecLoad(c) ==
    /\ Goes(c, "dec", "take") /\ Loads(c, num[at[c]])
    /\ UNCHANGED <<key, made, num, at, starts>>

\* ... and writes.
DecStore(c) ==
    /\ Goes(c, "take", "cmp") /\ Loads(c, seen[c] - 1)
    /\ num' = [num EXCEPT ![at[c]] = seen[c] - 1]
    /\ UNCHANGED <<key, made, at, starts>>

\* The comparison reads again, or uses what was written.
Cmp(c) ==
    /\ pc[c] = "cmp"
    /\ \E n \in {num[at[c]], seen[c]} : Goes(c, "cmp", IF n = 0 THEN "rm" ELSE "exit")
    /\ Loads(c, 0)
    /\ UNCHANGED <<key, made, num, at, starts>>

\* IPC_RMID
Rm(c) ==
    /\ Goes(c, "rm", "exit")
    /\ key' = (IF key = at[c] THEN 0 ELSE key)
    /\ UNCHANGED <<made, num, at, seen, starts>>

\* main returns, or the destructor detaches.
Exit(c) ==
    /\ pc[c] = "exit"
    /\ Ends(c)
    /\ UNCHANGED <<key, made, num, starts>>

\* A signal, a kill or a loss of power ends a process wherever it is.
Crash(c) ==
    /\ c \in {main, bridge} /\ pc[c] # "down"
    /\ Ends(c)
    /\ UNCHANGED <<key, made, num, starts>>
=============================================================================
