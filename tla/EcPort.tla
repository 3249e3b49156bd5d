------------------------------- MODULE EcPort -------------------------------
(***************************************************************************)
(* The port of the EtherCAT master (oshw/linux/nicdrv.c): MaxBuf frame     *)
(* buffers and one raw socket, shared by the thread that exchanges the     *)
(* process data (ecatthread: send_processdata, a sleep,                    *)
(* receive_processdata) and by the threads that call the blocking          *)
(* primitives of ethercatbase.c (ethercat_run, ecatcheck).                 *)
(*                                                                         *)
(* A thread takes an index, sends the frame of that index, waits until     *)
(* the answer is in or the time is over, and releases the index; whoever   *)
(* reads the socket puts the answers of the others into their buffers.     *)
(* Only taking an index (getindex_mutex) and reading the socket (rx_mutex) *)
(* are locked: rxbufstat is written without a lock, word by word.          *)
(*                                                                         *)
(* The requests are numbered in the order in which they took their         *)
(* indexes; a frame is the number of its request and of its sending, and   *)
(* what the slaves answer is left to EthercatMaster.  A frame on the line  *)
(* may be late, overtaken or lost.  The redundant second socket is not     *)
(* used by this program (redstate is ECT_RED_NONE).                        *)
(***************************************************************************)
EXTENDS Integers, Sequences, FiniteSets

CONSTANTS
    Callers,        \* the threads that call primitives
    cyclic,         \* ecatthread
    nobody,         \* the holder of a mutex that is free
    MaxBuf,         \* EC_MAXBUF
    Segments,       \* frames of one exchange of process data
    SendFails,      \* send() may return -1
    MaxReqs,        \* bound on the requests made
    MaxTries        \* bound on the sendings of a request within its timeout

ASSUME PortAssumption ==
    /\ IsFiniteSet(Callers)
    /\ cyclic \notin Callers /\ nobody \notin Callers \cup {cyclic}
    /\ MaxBuf \in Nat \ {0} /\ Segments \in Nat \ {0}
    /\ SendFails \in BOOLEAN
    /\ MaxReqs \in Nat /\ MaxTries \in Nat \ {0}

Threads == Callers \cup {cyclic}
Idx     == 0 .. MaxBuf - 1

\* The states of a buffer.
EC_BUF_EMPTY    == "empty"
EC_BUF_ALLOC    == "alloc"
EC_BUF_TX       == "tx"
EC_BUF_RCVD     == "rcvd"
EC_BUF_COMPLETE == "complete"

VARIABLES
    pc,
    idx, req,       \* the index a thread works on, and the request it has made with it
    cnt,            \* of the scan in getindex
    try,            \* sendings of the request so far
    rxbufstat, rxbuf, txbuf, lastidx,
    getindex_mutex, rx_mutex,       \* the holder
    tempbuf,        \* the frame in tempinbuf, read and not yet stored
    flight,         \* the frames on the line
    idxstack, pulled,               \* of the cyclic thread: <<index, request>>
    allocs,         \* requests made
    crowded, unsent \* history: getindex found every buffer used; indexes a send failed on

bufVars  == <<rxbufstat, rxbuf, txbuf>>
lockVars == <<lastidx, getindex_mutex, rx_mutex>>
lineVars == <<tempbuf, flight>>
mineVars == <<idx, req, cnt, try>>
pdVars   == <<idxstack, pulled>>
histVars == <<allocs, crowded, unsent>>
vars     == <<pc, bufVars, lockVars, lineVars, mineVars, pdVars, histVars>>

Frames  == [idx : Idx, req : 1 .. MaxReqs, try : 1 .. MaxTries]
NoFrame == [idx |-> -1, req |-> 0, try |-> 0]

Init ==
    /\ pc = [t \in Threads |-> "idle"]
    /\ idx = [t \in Threads |-> 0] /\ req = [t \in Threads |-> 0]
    /\ cnt = [t \in Threads |-> 0] /\ try = [t \in Threads |-> 0]
    /\ rxbufstat = [i \in Idx |-> EC_BUF_EMPTY]
    /\ rxbuf = [i \in Idx |-> 0] /\ txbuf = [i \in Idx |-> 0]
    /\ lastidx = 0 /\ getindex_mutex = nobody /\ rx_mutex = nobody
    /\ tempbuf = NoFrame /\ flight = {}
    /\ idxstack = <<>> /\ pulled = 0
    /\ allocs = 0 /\ crowded = FALSE /\ unsent = {}

Goes(t, from, to) == pc[t] = from /\ pc' = [pc EXCEPT ![t] = to]

Wrap(i) == IF i + 1 >= MaxBuf THEN 0 ELSE i + 1

-----------------------------------------------------------------------------
(* ecx_getindex                                                            *)

\* Mutant: the search starts with the first buffer.
EnterGetindexFirst(t) ==
    /\ Goes(t, "idle", "scan")
    /\ allocs < MaxReqs
    /\ getindex_mutex = nobody /\ getindex_mutex' = t
    /\ idx' = [idx EXCEPT ![t] = 0]
    /\ cnt' = [cnt EXCEPT ![t] = 0]
    /\ UNCHANGED <<req, try, bufVars, lastidx, rx_mutex, lineVars, pdVars, histVars>>

\* The lock, and the first index to look at.
EnterGetindex(t) ==
    /\ Goes(t, "idle", "scan")
    /\ allocs < MaxReqs
    /\ getindex_mutex = nobody /\ getindex_mutex' = t
    /\ idx' = [idx EXCEPT ![t] = Wrap(lastidx)]
    /\ cnt' = [cnt EXCEPT ![t] = 0]
    /\ UNCHANGED <<req, try, bufVars, lastidx, rx_mutex, lineVars, pdVars, histVars>>

SearchOn(t) == rxbufstat[idx[t]] # EC_BUF_EMPTY /\ cnt[t] < MaxBuf

\* The index is used: the next one.
SearchIndex(t) ==
    /\ pc[t] = "scan" /\ SearchOn(t)
    /\ idx' = [idx EXCEPT ![t] = Wrap(@)]
    /\ cnt' = [cnt EXCEPT ![t] = @ + 1]
    /\ UNCHANGED <<pc, req, try, bufVars, lockVars, lineVars, pdVars, histVars>>

\* Mutant: the buffer is not marked before the frame is sent.
TakeIndexUnmarked(t) ==
    /\ Goes(t, "scan", "setup") /\ ~SearchOn(t)
    /\ crowded' = (crowded \/ rxbufstat[idx[t]] # EC_BUF_EMPTY)
    /\ lastidx' = idx[t] /\ getindex_mutex' = nobody
    /\ allocs' = allocs + 1
    /\ req' = [req EXCEPT ![t] = allocs + 1]
    /\ try' = [try EXCEPT ![t] = 0]
    /\ UNCHANGED <<idx, cnt, bufVars, rx_mutex, lineVars, pdVars, unsent>>

\* The index is unused, or the search has come round: it is taken in any case.
TakeIndex(t) ==
    /\ Goes(t, "scan", "setup") /\ ~SearchOn(t)
    /\ crowded' = (crowded \/ rxbufstat[idx[t]] # EC_BUF_EMPTY)
    /\ rxbufstat' = [rxbufstat EXCEPT ![idx[t]] = EC_BUF_ALLOC]
    /\ lastidx' = idx[t] /\ getindex_mutex' = nobody
    /\ allocs' = allocs + 1
    /\ req' = [req EXCEPT ![t] = allocs + 1]
    /\ try' = [try EXCEPT ![t] = 0]
    /\ UNCHANGED <<idx, cnt, rxbuf, txbuf, rx_mutex, lineVars, pdVars, unsent>>

-----------------------------------------------------------------------------
(* ecx_setupdatagram, ecx_outframe                                         *)

SetupDatagram(t) ==
    /\ Goes(t, "setup", "out")
    /\ txbuf' = [txbuf EXCEPT ![idx[t]] = req[t]]
    /\ UNCHANGED <<mineVars, rxbufstat, rxbuf, lockVars, lineVars, pdVars, histVars>>

\* The buffer waits for an answer from before the frame leaves.
MarkSent(t) ==
    /\ Goes(t, "out", "send")
    /\ rxbufstat' = [rxbufstat EXCEPT ![idx[t]] = EC_BUF_TX]
    /\ UNCHANGED <<mineVars, rxbuf, txbuf, lockVars, lineVars, pdVars, histVars>>

\* A primitive waits at once; the cyclic thread pushes the index and goes on
\* with its next frame or to sleep (ecx_pushindex).
AfterSend(t) ==
    IF t \in Callers
    THEN pc' = [pc EXCEPT ![t] = "look"] /\ UNCHANGED idxstack
    ELSE LET pushed == IF Len(idxstack) < MaxBuf
                       THEN Append(idxstack, <<idx[t], req[t]>>) ELSE idxstack
         IN  /\ idxstack' = pushed
             /\ pc' = [pc EXCEPT ![t] = IF Len(pushed) = Segments THEN "sleep" ELSE "idle"]

\* send() queues the frame, or fails and leaves the buffer empty.
OnLine(t) == [idx |-> idx[t], req |-> txbuf[idx[t]], try |-> try[t] + 1]
Send(t) ==
    /\ pc[t] = "send" /\ AfterSend(t)
    /\ try' = [try EXCEPT ![t] = @ + 1]
    /\ \/ flight' = flight \cup {OnLine(t)} /\ UNCHANGED <<rxbufstat, unsent>>
       \/ /\ SendFails
          /\ rxbufstat' = [rxbufstat EXCEPT ![idx[t]] = EC_BUF_EMPTY]
          /\ unsent' = unsent \cup {idx[t]}
          /\ UNCHANGED flight
    /\ UNCHANGED <<idx, req, cnt, rxbuf, txbuf, lockVars, tempbuf, pulled, allocs, crowded>>

\* Mutant: the frame leaves before the buffer is marked.
OutFrameSwapped(t) ==
    \/ /\ Goes(t, "out", "send")
       /\ flight' = flight \cup {OnLine(t)}
       /\ UNCHANGED <<mineVars, bufVars, lockVars, tempbuf, pdVars, histVars>>
    \/ /\ pc[t] = "send" /\ AfterSend(t)
       /\ try' = [try EXCEPT ![t] = @ + 1]
       /\ rxbufstat' = [rxbufstat EXCEPT ![idx[t]] = EC_BUF_TX]
       /\ UNCHANGED <<idx, req, cnt, rxbuf, txbuf, lockVars, lineVars, pulled, histVars>>

OutFrame(t) == MarkSent(t) \/ Send(t)

-----------------------------------------------------------------------------
(* ecx_inframe                                                             *)

\* Somebody else has read the answer: take it.
LookReceived(t) ==
    /\ Goes(t, "look", "got")
    /\ rxbufstat[idx[t]] = EC_BUF_RCVD
    /\ rxbufstat' = [rxbufstat EXCEPT ![idx[t]] = EC_BUF_COMPLETE]
    /\ UNCHANGED <<mineVars, rxbuf, txbuf, lockVars, lineVars, pdVars, histVars>>

LookElse(t) ==
    /\ Goes(t, "look", "recv")
    /\ rxbufstat[idx[t]] # EC_BUF_RCVD
    /\ UNCHANGED <<mineVars, bufVars, lockVars, lineVars, pdVars, histVars>>

\* The socket is read under rx_mutex: nothing there (or nothing yet), ...
RecvNothing(t) ==
    /\ Goes(t, "recv", "timer") /\ rx_mutex = nobody
    /\ UNCHANGED <<mineVars, bufVars, lockVars, lineVars, pdVars, histVars>>

\* ... the frame that is waited for, as far as its index tells, ...
RecvOwn(t) ==
    /\ Goes(t, "recv", "got") /\ rx_mutex = nobody
    /\ \E f \in flight :
         /\ f.idx = idx[t]
         /\ flight' = flight \ {f}
         /\ rxbuf' = [rxbuf EXCEPT ![f.idx] = f.req]
    /\ rxbufstat' = [rxbufstat EXCEPT ![idx[t]] = EC_BUF_COMPLETE]
    /\ UNCHANGED <<mineVars, txbuf, lockVars, tempbuf, pdVars, histVars>>

\* ... another one nobody waits for, ...
RecvStrange(t) ==
    /\ Goes(t, "recv", "timer") /\ rx_mutex = nobody
    /\ \E f \in flight :
         /\ f.idx # idx[t] /\ rxbufstat[f.idx] # EC_BUF_TX
         /\ flight' = flight \ {f}
    /\ UNCHANGED <<mineVars, bufVars, lockVars, tempbuf, pdVars, histVars>>

\* ... or one that somebody waits for, which is then put into its buffer.
RecvOther(t) ==
    /\ Goes(t, "recv", "store")
    /\ rx_mutex = nobody /\ rx_mutex' = t
    /\ \E f \in flight :
         /\ f.idx # idx[t] /\ rxbufstat[f.idx] = EC_BUF_TX
         /\ flight' = flight \ {f} /\ tempbuf' = f
    /\ UNCHANGED <<mineVars, bufVars, lastidx, getindex_mutex, pdVars, histVars>>

Store(t) ==
    /\ Goes(t, "store", "timer")
    /\ rx_mutex' = nobody
    /\ rxbuf' = [rxbuf EXCEPT ![tempbuf.idx] = tempbuf.req]
    /\ rxbufstat' = [rxbufstat EXCEPT ![tempbuf.idx] = EC_BUF_RCVD]
    /\ tempbuf' = NoFrame
    /\ UNCHANGED <<mineVars, txbuf, lastidx, getindex_mutex, flight, pdVars, histVars>>

-----------------------------------------------------------------------------
(* ecx_waitinframe_red, ecx_srconfirm                                      *)

TimeLeft(t) ==
    /\ Goes(t, "timer", "look")
    /\ UNCHANGED <<mineVars, bufVars, lockVars, lineVars, pdVars, histVars>>

\* A primitive sends again while its own timeout allows it, the exchange of
\* the process data does not.
TimeOver(t) ==
    /\ \/ t \in Callers /\ try[t] < MaxTries /\ Goes(t, "timer", "out")
       \/ Goes(t, "timer", "release")
    /\ UNCHANGED <<mineVars, bufVars, lockVars, lineVars, pdVars, histVars>>

-----------------------------------------------------------------------------
(* The end of a primitive and of a turn of ecx_receive_processdata_group.  *)

\* The data are copied out of the buffer.
CopyOut(t) ==
    /\ Goes(t, "got", "release")
    /\ UNCHANGED <<mineVars, bufVars, lockVars, lineVars, pdVars, histVars>>

\* ecx_setbufstat; then the cyclic thread pulls its next index, or has done.
Pull ==
    IF pulled < Len(idxstack)
    THEN /\ pc' = [pc EXCEPT ![cyclic] = "look"]
         /\ idx' = [idx EXCEPT ![cyclic] = idxstack[pulled + 1][1]]
         /\ req' = [req EXCEPT ![cyclic] = idxstack[pulled + 1][2]]
         /\ pulled' = pulled + 1 /\ UNCHANGED idxstack
    ELSE /\ pc' = [pc EXCEPT ![cyclic] = "idle"]
         /\ idxstack' = <<>> /\ pulled' = 0
         /\ UNCHANGED <<idx, req>>

Release(t) ==
    /\ pc[t] = "release"
    /\ rxbufstat' = [rxbufstat EXCEPT ![idx[t]] = EC_BUF_EMPTY]
    /\ IF t = cyclic THEN Pull
       ELSE pc' = [pc EXCEPT ![t] = "idle"] /\ UNCHANGED <<idx, req, pdVars>>
    /\ UNCHANGED <<cnt, try, rxbuf, txbuf, lockVars, lineVars, histVars>>

\* ecatthread after its sleep: ecx_receive_processdata_group begins.
Receive ==
    /\ pc[cyclic] = "sleep" /\ Pull
    /\ UNCHANGED <<cnt, try, bufVars, lockVars, lineVars, histVars>>

-----------------------------------------------------------------------------
Work(t) ==
    \/ EnterGetindex(t) \/ SearchIndex(t) \/ TakeIndex(t)
    \/ SetupDatagram(t) \/ OutFrame(t)
    \/ LookReceived(t) \/ LookElse(t)
    \/ RecvNothing(t) \/ RecvOwn(t) \/ RecvStrange(t) \/ RecvOther(t) \/ Store(t)
    \/ TimeLeft(t) \/ TimeOver(t) \/ CopyOut(t) \/ Release(t)

Next == Receive \/ \E t \in Threads : Work(t)

Spec == Init /\ [][Next]_vars
=============================================================================
