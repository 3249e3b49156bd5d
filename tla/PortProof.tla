----------------------------- MODULE PortProof ------------------------------
(***************************************************************************)
(* Proofs about EcPort, for any number of callers, buffers, segments and   *)
(* requests.                                                               *)
(*                                                                         *)
(* Exclusive holds because getindex looks for an empty buffer under its    *)
(* lock, and a buffer in a thread's hands is not empty: nobody but its     *)
(* holder empties it, except a send that fails.                            *)
(***************************************************************************)
EXTENDS PortInvariants, FiniteSetTheorems, TLAPS

-----------------------------------------------------------------------------
(* Types, and who is where.                                                *)

\* One thread searches, and there is a request left for it.
Locked == \A t \in Threads : pc[t] = "scan" => getindex_mutex = t /\ allocs < MaxReqs

\* One thread has a frame to store.
Storing == \A t \in Threads : pc[t] = "store" => rx_mutex = t /\ tempbuf \in Frames

\* A thread that will send may still do so, and has a request to send; a primitive
\* keeps it, for it may send again.
Sending ==
    \A t \in Threads :
        /\ pc[t] \in {"setup", "out", "send"} => try[t] < MaxTries
        /\ pc[t] \in {"setup", "out", "send"} \/ (t \in Callers /\ pc[t] \notin {"idle", "scan"})
              => req[t] >= 1 /\ (pc[t] # "setup" => txbuf[idx[t]] >= 1)

\* The cyclic thread sends all its frames before it pulls the first index.
Phase ==
    /\ pc[cyclic] \in {"idle", "scan", "setup", "out", "send"}
          => pulled = 0 /\ Len(idxstack) < Segments
    /\ pc[cyclic] = "sleep" => pulled = 0

TypeInv == PortTypeOK /\ Locked /\ Storing /\ Sending /\ Phase

LEMMA WrapType ==
  ASSUME NEW i \in Idx
  PROVE  Wrap(i) \in Idx
BY PortAssumption DEF Wrap, Idx

LEMMA InitTypes == Init => TypeInv
<1> SUFFICES ASSUME Init PROVE TypeInv
  OBVIOUS
<1>1. PortTypeOK
  <2>1. 0 \in Idx /\ 0 \in 0 .. MaxReqs /\ 0 \in 0 .. MaxBuf /\ 0 \in 0 .. MaxTries
    BY PortAssumption DEF Idx
  <2>2. /\ idxstack \in Seq(Idx \X (1 .. MaxReqs)) /\ Len(idxstack) <= Segments
        /\ pulled \in 0 .. Len(idxstack)
    BY PortAssumption DEF Init
  <2> QED
    BY <2>1, <2>2 DEF Init, PortTypeOK, Places, Threads
<1>2. Locked /\ Storing /\ Sending /\ Phase
  BY PortAssumption DEF Init, Locked, Storing, Sending, Phase, Threads
<1> QED
  BY <1>1, <1>2 DEF TypeInv

\* Taking an index.
LEMMA GetindexTypes ==
  ASSUME TypeInv, NEW t \in Threads, EnterGetindex(t) \/ SearchIndex(t) \/ TakeIndex(t)
  PROVE  TypeInv'
<1> USE PortAssumption DEF TypeInv, Goes, Places, lockVars, bufVars, lineVars, pdVars, histVars
<1>1. CASE EnterGetindex(t)
  <2>1. idx' \in [Threads -> Idx]
    BY <1>1, WrapType DEF EnterGetindex, PortTypeOK
  <2>2. PortTypeOK'
    <3>1. pc' \in [Threads -> Places] /\ cnt' \in [Threads -> 0 .. MaxBuf]
      BY <1>1 DEF EnterGetindex, PortTypeOK
    <3>2. getindex_mutex' \in Threads \cup {nobody}
      BY <1>1 DEF EnterGetindex
    <3> QED
      BY <1>1, <2>1, <3>1, <3>2 DEF EnterGetindex, PortTypeOK
  <2>3. Locked' /\ Storing' /\ Phase'
    BY <1>1 DEF EnterGetindex, PortTypeOK, Locked, Storing, Phase, Threads
  <2>4. Sending'
    BY <1>1 DEF EnterGetindex, PortTypeOK, Sending
  <2> QED
    BY <2>2, <2>3, <2>4
<1>2. CASE SearchIndex(t)
  <2>1. idx' \in [Threads -> Idx] /\ cnt' \in [Threads -> 0 .. MaxBuf]
    <3>1. idx[t] \in Idx /\ cnt[t] \in 0 .. MaxBuf - 1
      BY <1>2 DEF SearchIndex, SearchOn, PortTypeOK
    <3>2. Wrap(idx[t]) \in Idx /\ cnt[t] + 1 \in 0 .. MaxBuf
      BY <3>1, WrapType
    <3> QED
      BY <1>2, <3>2 DEF SearchIndex, PortTypeOK
  <2>2. PortTypeOK'
    BY <1>2, <2>1 DEF SearchIndex, PortTypeOK
  <2>3. Locked' /\ Storing' /\ Phase'
    BY <1>2 DEF SearchIndex, Locked, Storing, Phase
  <2>4. Sending'
    BY <1>2 DEF SearchIndex, PortTypeOK, Sending
  <2> QED
    BY <2>2, <2>3, <2>4
<1>3. CASE TakeIndex(t)
  <2>1. allocs < MaxReqs /\ getindex_mutex = t /\ allocs' \in 1 .. MaxReqs /\ allocs \in Nat
    BY <1>3 DEF TakeIndex, Locked, PortTypeOK
  <2>2. PortTypeOK'
    BY <1>3, <2>1 DEF TakeIndex, PortTypeOK, EC_BUF_ALLOC
  <2>3. Locked' /\ Storing' /\ Phase'
    BY <1>3, <2>1 DEF TakeIndex, PortTypeOK, Locked, Storing, Phase, Threads
  <2>4. Sending'
    BY <1>3, <2>1 DEF TakeIndex, PortTypeOK, Sending
  <2> QED
    BY <2>2, <2>3, <2>4
<1> QED
  BY <1>1, <1>2, <1>3

\* Sending the frame.
LEMMA OutTypes ==
  ASSUME TypeInv, NEW t \in Threads, SetupDatagram(t) \/ MarkSent(t) \/ Send(t)
  PROVE  TypeInv'
<1> USE PortAssumption DEF TypeInv, Goes, Places, lockVars, mineVars, lineVars, pdVars, histVars
<1>1. CASE SetupDatagram(t)
  <2>1. PortTypeOK'
    BY <1>1 DEF SetupDatagram, PortTypeOK, Sending
  <2>2. Locked' /\ Storing' /\ Phase'
    BY <1>1 DEF SetupDatagram, PortTypeOK, Locked, Storing, Phase, Threads
  <2>3. Sending'
    BY <1>1 DEF SetupDatagram, PortTypeOK, Sending
  <2> QED
    BY <2>1, <2>2, <2>3
<1>2. CASE MarkSent(t)
  <2>1. PortTypeOK'
    BY <1>2 DEF MarkSent, PortTypeOK, EC_BUF_TX
  <2>2. Locked' /\ Storing' /\ Phase'
    BY <1>2 DEF MarkSent, PortTypeOK, Locked, Storing, Phase, Threads
  <2>3. Sending'
    BY <1>2 DEF MarkSent, PortTypeOK, Sending
  <2> QED
    BY <2>1, <2>2, <2>3
<1>3. CASE Send(t)
  <2>1. /\ try[t] \in Nat /\ try[t] < MaxTries /\ req[t] \in 1 .. MaxReqs /\ idx[t] \in Idx
        /\ txbuf[idx[t]] \in 1 .. MaxReqs
    BY <1>3 DEF Send, PortTypeOK, Sending
  <2>2. OnLine(t) \in Frames
    BY <2>1 DEF OnLine, Frames
  <2>3. /\ try' \in [Threads -> 0 .. MaxTries] /\ flight' \subseteq Frames /\ unsent' \subseteq Idx
        /\ rxbufstat' \in [Idx -> {EC_BUF_EMPTY, EC_BUF_ALLOC, EC_BUF_TX, EC_BUF_RCVD,
                                   EC_BUF_COMPLETE}]
    <3>1. try' \in [Threads -> 0 .. MaxTries]
      BY <1>3, <2>1 DEF Send, PortTypeOK
    <3>2. flight' \subseteq Frames /\ unsent' \subseteq Idx
      BY <1>3, <2>1, <2>2 DEF Send, PortTypeOK
    <3> QED
      BY <1>3, <2>1, <3>1, <3>2 DEF Send, PortTypeOK
  <2>4. CASE t # cyclic
    <3>1. t \in Callers /\ pc' = [pc EXCEPT ![t] = "look"] /\ UNCHANGED <<idxstack, pulled>>
      BY <1>3, <2>4 DEF Send, AfterSend, Threads
    <3>2. PortTypeOK'
      BY <1>3, <2>3, <3>1 DEF Send, PortTypeOK
    <3>3. Locked' /\ Storing' /\ Phase'
      BY <1>3, <2>4, <3>1 DEF Send, PortTypeOK, Locked, Storing, Phase, Threads
    <3>4. Sending'
      BY <1>3, <3>1 DEF Send, PortTypeOK, Sending
    <3> QED
      BY <3>2, <3>3, <3>4
  <2>5. CASE t = cyclic
    <3> DEFINE pushed == IF Len(idxstack) < MaxBuf
                         THEN Append(idxstack, <<idx[t], req[t]>>) ELSE idxstack
    <3>1. /\ idxstack' = pushed /\ pulled' = pulled
          /\ pc' = [pc EXCEPT ![t] = IF Len(pushed) = Segments THEN "sleep" ELSE "idle"]
      BY <1>3, <2>5 DEF Send, AfterSend, Threads
    <3>2. pulled = 0 /\ Len(idxstack) < Segments /\ idxstack \in Seq(Idx \X (1 .. MaxReqs))
      BY <1>3, <2>5 DEF Send, Phase, PortTypeOK
    <3>3. /\ pushed \in Seq(Idx \X (1 .. MaxReqs)) /\ Len(pushed) \in Nat
          /\ Len(pushed) <= Segments
      BY <2>1, <3>2
    <3> HIDE DEF pushed
    <3>4. pc' \in [Threads -> Places] /\ pulled' \in 0 .. Len(idxstack')
      BY <3>1, <3>2, <3>3 DEF PortTypeOK
    <3>5. PortTypeOK'
      BY <1>3, <2>3, <3>1, <3>3, <3>4 DEF Send, PortTypeOK
    <3>6. Locked' /\ Storing'
      BY <1>3, <3>1 DEF Send, PortTypeOK, Locked, Storing
    <3>7. Phase'
      <4>1. pc'[cyclic] = IF Len(pushed) = Segments THEN "sleep" ELSE "idle"
        BY <2>5, <3>1 DEF PortTypeOK
      <4> QED
        BY <3>1, <3>2, <3>3, <4>1 DEF Phase
    <3>8. Sending'
      BY <1>3, <3>1 DEF Send, PortTypeOK, Sending
    <3> QED
      BY <3>5, <3>6, <3>7, <3>8
  <2> QED
    BY <2>4, <2>5
<1> QED
  BY <1>1, <1>2, <1>3

\* Waiting for the answer.
LEMMA InTypes ==
  ASSUME TypeInv, NEW t \in Threads,
         \/ LookReceived(t) \/ LookElse(t) \/ RecvNothing(t) \/ RecvStrange(t)
         \/ TimeLeft(t) \/ TimeOver(t) \/ CopyOut(t)
  PROVE  TypeInv'
<1> USE PortAssumption DEF TypeInv, Goes, Places, lockVars, mineVars, lineVars, bufVars, pdVars,
       histVars
<1>1. /\ UNCHANGED <<mineVars, lockVars, txbuf, tempbuf, pdVars, histVars, rxbuf>>
      /\ flight' \subseteq flight
  BY DEF LookReceived, LookElse, RecvNothing, RecvStrange, TimeLeft, TimeOver, CopyOut
<1>2. rxbufstat' \in [Idx -> {EC_BUF_EMPTY, EC_BUF_ALLOC, EC_BUF_TX, EC_BUF_RCVD,
                              EC_BUF_COMPLETE}]
  BY DEF LookReceived, LookElse, RecvNothing, RecvStrange, TimeLeft, TimeOver, CopyOut, PortTypeOK
<1>3. PICK to \in {"look", "recv", "got", "timer", "out", "release"} :
        /\ pc[t] \in {"look", "recv", "timer", "got"} /\ pc' = [pc EXCEPT ![t] = to]
        /\ to = "out" => t \in Callers /\ try[t] < MaxTries /\ pc[t] = "timer"
  BY DEF LookReceived, LookElse, RecvNothing, RecvStrange, TimeLeft, TimeOver, CopyOut
<1>4. PortTypeOK'
  BY <1>1, <1>2, <1>3 DEF PortTypeOK
<1>5. Locked' /\ Storing'
  BY <1>1, <1>3 DEF PortTypeOK, Locked, Storing
<1>6. Phase'
  BY <1>1, <1>3 DEF PortTypeOK, Phase, Threads
<1>7. Sending'
  BY <1>1, <1>3 DEF PortTypeOK, Sending
<1> QED
  BY <1>4, <1>5, <1>6, <1>7

\* Reading the socket for oneself and for others.
LEMMA StoreTypes ==
  ASSUME TypeInv, NEW t \in Threads, RecvOwn(t) \/ RecvOther(t) \/ Store(t)
  PROVE  TypeInv'
<1> USE PortAssumption DEF TypeInv, Goes, Places, lockVars, mineVars, bufVars, pdVars, histVars
<1>1. CASE RecvOwn(t)
  <2>1. /\ rxbuf' \in [Idx -> 0 .. MaxReqs] /\ flight' \subseteq Frames
        /\ rxbufstat' \in [Idx -> {EC_BUF_EMPTY, EC_BUF_ALLOC, EC_BUF_TX, EC_BUF_RCVD,
                                   EC_BUF_COMPLETE}]
    <3>1. PICK f \in flight : rxbuf' = [rxbuf EXCEPT ![f.idx] = f.req] /\ flight' = flight \ {f}
      BY <1>1 DEF RecvOwn
    <3>2. f.req \in 0 .. MaxReqs
      BY <3>1 DEF PortTypeOK, Frames
    <3> QED
      BY <1>1, <3>1, <3>2 DEF RecvOwn, PortTypeOK
  <2>2. PortTypeOK'
    BY <1>1, <2>1 DEF RecvOwn, PortTypeOK
  <2>3. Locked' /\ Storing' /\ Phase'
    <3>1. pc' = [pc EXCEPT ![t] = "got"] /\ UNCHANGED <<lockVars, tempbuf, pdVars, histVars>>
      BY <1>1 DEF RecvOwn
    <3> QED
      BY <3>1 DEF PortTypeOK, Locked, Storing, Phase, Threads
  <2>4. Sending'
    BY <1>1 DEF RecvOwn, PortTypeOK, Sending
  <2> QED
    BY <2>2, <2>3, <2>4
<1>2. CASE RecvOther(t)
  <2>1. tempbuf' \in Frames /\ flight' \subseteq Frames
    BY <1>2 DEF RecvOther, PortTypeOK
  <2>2. PortTypeOK'
    BY <1>2, <2>1 DEF RecvOther, PortTypeOK
  <2>3. Storing'
    BY <1>2, <2>1 DEF RecvOther, PortTypeOK, Storing, Threads
  <2>4. Locked' /\ Phase'
    <3>1. pc' = [pc EXCEPT ![t] = "store"] /\ UNCHANGED <<getindex_mutex, pdVars, histVars>>
      BY <1>2 DEF RecvOther
    <3> QED
      BY <3>1 DEF PortTypeOK, Locked, Phase, Threads
  <2>5. Sending'
    BY <1>2 DEF RecvOther, PortTypeOK, Sending
  <2> QED
    BY <2>2, <2>3, <2>4, <2>5
<1>3. CASE Store(t)
  <2>1. tempbuf \in Frames /\ rx_mutex = t
    BY <1>3 DEF Store, Storing
  <2>2. /\ rxbuf' \in [Idx -> 0 .. MaxReqs]
        /\ rxbufstat' \in [Idx -> {EC_BUF_EMPTY, EC_BUF_ALLOC, EC_BUF_TX, EC_BUF_RCVD,
                                   EC_BUF_COMPLETE}]
    <3>1. tempbuf.idx \in Idx /\ tempbuf.req \in 0 .. MaxReqs
      BY <2>1 DEF Frames
    <3> QED
      BY <1>3, <3>1 DEF Store, PortTypeOK
  <2>3. PortTypeOK'
    BY <1>3, <2>2 DEF Store, PortTypeOK
  <2>4. Storing'
    BY <1>3, <2>1 DEF Store, PortTypeOK, Storing, Threads
  <2>5. Locked' /\ Phase'
    <3>1. pc' = [pc EXCEPT ![t] = "timer"] /\ UNCHANGED <<getindex_mutex, pdVars, histVars>>
      BY <1>3 DEF Store
    <3> QED
      BY <3>1 DEF PortTypeOK, Locked, Phase, Threads
  <2>6. Sending'
    BY <1>3 DEF Store, PortTypeOK, Sending
  <2> QED
    BY <2>3, <2>4, <2>5, <2>6
<1> QED
  BY <1>1, <1>2, <1>3

\* The cyclic thread pulls an index, or its exchange is over.
LEMMA PullTypes ==
  ASSUME TypeInv, Pull, pc[cyclic] \in {"sleep", "release"},
         UNCHANGED <<cnt, try, rxbuf, txbuf, lockVars, lineVars, histVars>>,
         rxbufstat' \in [Idx -> {EC_BUF_EMPTY, EC_BUF_ALLOC, EC_BUF_TX, EC_BUF_RCVD,
                                EC_BUF_COMPLETE}]
  PROVE  TypeInv'
<1> USE PortAssumption DEF TypeInv, Places, lockVars, lineVars, histVars
<1>1. CASE pulled < Len(idxstack)
  <2> DEFINE top == idxstack[pulled + 1]
  <2>1. top \in Idx \X (1 .. MaxReqs)
    BY <1>1 DEF PortTypeOK
  <2>2. /\ pc' = [pc EXCEPT ![cyclic] = "look"] /\ idx' = [idx EXCEPT ![cyclic] = top[1]]
        /\ req' = [req EXCEPT ![cyclic] = top[2]] /\ pulled' = pulled + 1 /\ UNCHANGED idxstack
    BY <1>1 DEF Pull
  <2> HIDE DEF top
  <2>3. PortTypeOK'
    <3>1. top[1] \in Idx /\ top[2] \in 0 .. MaxReqs
      BY <2>1
    <3>2. pulled' \in 0 .. Len(idxstack')
      BY <1>1, <2>2 DEF PortTypeOK
    <3> QED
      BY <2>2, <3>1, <3>2 DEF PortTypeOK
  <2>4. Locked' /\ Storing' /\ Phase'
    BY <2>2 DEF PortTypeOK, Locked, Storing, Phase, Threads
  <2>5. Sending'
    BY <2>2 DEF PortTypeOK, Sending, Threads
  <2> QED
    BY <2>3, <2>4, <2>5
<1>2. CASE ~(pulled < Len(idxstack))
  <2>1. /\ pc' = [pc EXCEPT ![cyclic] = "idle"] /\ idxstack' = <<>> /\ pulled' = 0
        /\ UNCHANGED <<idx, req>>
    BY <1>2 DEF Pull
  <2>2. idxstack' \in Seq(Idx \X (1 .. MaxReqs)) /\ Len(idxstack') = 0
    BY <2>1
  <2>3. PortTypeOK'
    <3>1. Len(idxstack') <= Segments /\ pulled' \in 0 .. Len(idxstack')
      BY <2>1, <2>2
    <3>2. pc' \in [Threads -> Places]
      BY <2>1 DEF PortTypeOK
    <3> QED
      BY <2>1, <2>2, <3>1, <3>2 DEF PortTypeOK
  <2>4. Locked' /\ Storing'
    BY <2>1 DEF PortTypeOK, Locked, Storing, Threads
  <2>6. Phase'
    <3>1. pc'[cyclic] = "idle"
      BY <2>1 DEF PortTypeOK, Threads
    <3> QED
      BY <2>1, <2>2, <3>1 DEF Phase
  <2>5. Sending'
    BY <2>1 DEF PortTypeOK, Sending, Threads
  <2> QED
    BY <2>3, <2>4, <2>5, <2>6
<1> QED
  BY <1>1, <1>2

LEMMA ReleaseTypes ==
  ASSUME TypeInv, NEW t \in Threads, Release(t)
  PROVE  TypeInv'
<1> USE PortAssumption DEF TypeInv
<1>1. rxbufstat' \in [Idx -> {EC_BUF_EMPTY, EC_BUF_ALLOC, EC_BUF_TX, EC_BUF_RCVD,
                             EC_BUF_COMPLETE}]
  BY DEF Release, PortTypeOK
<1>2. CASE t = cyclic
  BY <1>1, <1>2, PullTypes DEF Release
<1>3. CASE t # cyclic
  <2>1. pc' = [pc EXCEPT ![t] = "idle"] /\ UNCHANGED <<idx, req, pdVars>>
    BY <1>3 DEF Release
  <2>2. PortTypeOK'
    BY <1>1, <2>1 DEF Release, PortTypeOK, Places, lockVars, lineVars, histVars, pdVars
  <2>3. Locked' /\ Storing' /\ Phase'
    BY <1>3, <2>1 DEF Release, PortTypeOK, Locked, Storing, Phase, Threads, lockVars, lineVars,
                      histVars, pdVars
  <2>4. Sending'
    BY <2>1 DEF Release, PortTypeOK, Sending
  <2> QED
    BY <2>2, <2>3, <2>4
<1> QED
  BY <1>2, <1>3

LEMMA NextTypes == TypeInv /\ [Next]_vars => TypeInv'
<1> SUFFICES ASSUME TypeInv, [Next]_vars PROVE TypeInv'
  OBVIOUS
<1>1. CASE Receive
  BY <1>1, PullTypes DEF Receive, bufVars, TypeInv, PortTypeOK
<1>2. ASSUME NEW t \in Threads, Work(t)
      PROVE  TypeInv'
  BY <1>2, GetindexTypes, OutTypes, InTypes, StoreTypes, ReleaseTypes DEF Work, OutFrame
<1>3. CASE UNCHANGED vars
  BY <1>3 DEF vars, bufVars, lockVars, lineVars, mineVars, pdVars, histVars, TypeInv, PortTypeOK,
              Locked, Storing, Sending, Phase
<1> QED
  BY <1>1, <1>2, <1>3 DEF Next

\* The types hold, and getindex never runs past the buffers: any number of threads,
\* of buffers and of frames per exchange.
THEOREM PortTypes == Spec => []PortTypeOK
<1>1. Spec => []TypeInv
  BY InitTypes, NextTypes, PTL DEF Spec
<1>2. TypeInv => PortTypeOK
  BY DEF TypeInv
<1> QED
  BY <1>1, <1>2, PTL

-----------------------------------------------------------------------------
(* An index has one user.                                                  *)

\* A buffer in somebody's hands is not empty, unless a send on it failed.
Marked ==
    ~crowded => \A t \in Threads : \A i \in Held(t) : rxbufstat[i] # EC_BUF_EMPTY \/ i \in unsent

\* The cyclic thread waits for an index once.
Distinct ==
    ~crowded => \A j, k \in pulled + 1 .. Len(idxstack) :
        j # k /\ idxstack[j][1] = idxstack[k][1] => idxstack[j][1] \in unsent

ExInv == Exclusive /\ Marked /\ Distinct

LEMMA InitEx == Init => ExInv
BY DEF Init, ExInv, Exclusive, Marked, Distinct, Held, Working, Waiting

\* A step that takes no index and empties no buffer.
LEMMA QuietEx ==
  ASSUME ExInv, UNCHANGED <<pdVars, crowded, unsent>>,
         \A u \in Threads : Working(u)' \subseteq Working(u),
         \A u \in Threads : \A i \in Held(u) :
            rxbufstat[i] # EC_BUF_EMPTY => rxbufstat'[i] # EC_BUF_EMPTY
  PROVE  ExInv'
<1>1. Waiting' = Waiting
  BY DEF pdVars, Waiting
<1>2. \A u \in Threads : Held(u)' \subseteq Held(u)
  BY <1>1 DEF Held
<1>3. Exclusive'
  BY <1>1, <1>2 DEF ExInv, Exclusive, Threads
<1>4. Marked'
  BY <1>2 DEF ExInv, Marked
<1>5. Distinct'
  BY DEF ExInv, Distinct, pdVars
<1> QED
  BY <1>3, <1>4, <1>5 DEF ExInv

LEMMA HeldTypes ==
  ASSUME TypeInv, NEW t \in Threads
  PROVE  Held(t) \subseteq Idx /\ Working(t) \subseteq Idx /\ Waiting \subseteq Idx
<1>1. idx[t] \in Idx
  BY DEF TypeInv, PortTypeOK
<1>2. Waiting \subseteq Idx
  <2> SUFFICES ASSUME NEW k \in pulled + 1 .. Len(idxstack)
               PROVE  idxstack[k][1] \in Idx
    BY DEF Waiting
  <2>1. k \in 1 .. Len(idxstack) /\ idxstack \in Seq(Idx \X (1 .. MaxReqs))
    BY DEF TypeInv, PortTypeOK
  <2>2. idxstack[k] \in Idx \X (1 .. MaxReqs)
    BY <2>1
  <2> QED
    BY <2>2
<1> QED
  BY <1>1, <1>2 DEF Held, Working

LEMMA SearchEx ==
  ASSUME TypeInv, ExInv, NEW t \in Threads, EnterGetindex(t) \/ SearchIndex(t)
  PROVE  ExInv'
<1>1. UNCHANGED <<pdVars, crowded, unsent, rxbufstat>>
  BY DEF EnterGetindex, SearchIndex, histVars, bufVars
<1>2. \A u \in Threads : Working(u)' \subseteq Working(u)
  BY DEF EnterGetindex, SearchIndex, Goes, Working, TypeInv, PortTypeOK
<1> QED
  BY <1>1, <1>2, QuietEx

LEMMA WaitEx ==
  ASSUME TypeInv, ExInv, NEW t \in Threads,
         \/ SetupDatagram(t) \/ MarkSent(t)
         \/ LookReceived(t) \/ LookElse(t) \/ RecvNothing(t) \/ RecvOwn(t) \/ RecvStrange(t)
         \/ RecvOther(t) \/ Store(t) \/ TimeLeft(t) \/ TimeOver(t) \/ CopyOut(t)
  PROVE  ExInv'
<1> USE DEF pdVars, histVars, mineVars, bufVars
<1>1. UNCHANGED <<pdVars, crowded, unsent, idx>>
  BY DEF SetupDatagram, MarkSent, LookReceived, LookElse, RecvNothing, RecvOwn, RecvStrange,
         RecvOther, Store, TimeLeft, TimeOver, CopyOut
<1>2. PICK to \in Places : pc' = [pc EXCEPT ![t] = to] /\ pc[t] \notin {"idle", "scan", "sleep"}
  BY DEF SetupDatagram, MarkSent, LookReceived, LookElse, RecvNothing, RecvOwn, RecvStrange,
         RecvOther, Store, TimeLeft, TimeOver, CopyOut, Goes, Places
<1>3. \A u \in Threads : Working(u)' \subseteq Working(u)
  BY <1>1, <1>2 DEF Working, TypeInv, PortTypeOK
<1>4. \E i \in Idx, b \in {EC_BUF_TX, EC_BUF_RCVD, EC_BUF_COMPLETE} :
        rxbufstat' \in {rxbufstat, [rxbufstat EXCEPT ![i] = b]}
  <2>1. idx[t] \in Idx
    BY DEF TypeInv, PortTypeOK
  <2>2. ASSUME Store(t) PROVE tempbuf.idx \in Idx
    BY <2>2 DEF Store, Goes, TypeInv, Storing, Frames
  <2> QED
    BY <2>1, <2>2 DEF SetupDatagram, MarkSent, LookReceived, LookElse, RecvNothing, RecvOwn,
         RecvStrange, RecvOther, Store, TimeLeft, TimeOver, CopyOut
<1>5. \A i \in Idx : rxbufstat[i] # EC_BUF_EMPTY => rxbufstat'[i] # EC_BUF_EMPTY
  BY <1>4 DEF TypeInv, PortTypeOK, EC_BUF_EMPTY, EC_BUF_TX, EC_BUF_RCVD, EC_BUF_COMPLETE
<1> QED
  BY <1>1, <1>3, <1>5, HeldTypes, QuietEx

\* The index taken is not in anybody's hands, for it was empty.
LEMMA TakeEx ==
  ASSUME TypeInv, ExInv, NEW t \in Threads, TakeIndex(t)
  PROVE  ExInv'
<1>1. /\ idx[t] \in Idx /\ rxbufstat' = [rxbufstat EXCEPT ![idx[t]] = EC_BUF_ALLOC]
      /\ pc[t] = "scan" /\ pc' = [pc EXCEPT ![t] = "setup"]
      /\ UNCHANGED <<idx, pdVars, unsent>>
      /\ ~crowded' => ~crowded /\ rxbufstat[idx[t]] = EC_BUF_EMPTY
  BY DEF TakeIndex, Goes, TypeInv, PortTypeOK
<1>2. Waiting' = Waiting
  BY <1>1 DEF Waiting, pdVars
<1>3. \A u \in Threads : Working(u)' = IF u = t THEN {idx[t]} ELSE Working(u)
  BY <1>1 DEF Working, TypeInv, PortTypeOK
<1>4. \A u \in Threads : Held(u)' \subseteq Held(u) \cup (IF u = t THEN {idx[t]} ELSE {})
  BY <1>2, <1>3 DEF Held
<1>5. ASSUME ~crowded', NEW u \in Threads, idx[t] \in Held(u) PROVE idx[t] \in unsent
  BY <1>1, <1>5 DEF ExInv, Marked
<1>6. ASSUME ~crowded', idx[t] \in Waiting PROVE idx[t] \in unsent
  BY <1>5, <1>6 DEF Held, Threads
<1>7. Exclusive'
  <2>1. ASSUME NEW u \in Threads, NEW v \in Threads, u # v, ~crowded'
        PROVE  Held(u)' \cap Held(v)' \subseteq unsent'
    BY <1>1, <1>4, <1>5, <2>1 DEF ExInv, Exclusive
  <2>2. ASSUME ~crowded' PROVE Working(cyclic)' \cap Waiting' \subseteq unsent'
    BY <1>1, <1>2, <1>3, <1>6, <2>2 DEF ExInv, Exclusive, Threads
  <2> QED
    BY <2>1, <2>2 DEF Exclusive
<1>8. Marked'
  <2> SUFFICES ASSUME ~crowded', NEW u \in Threads, NEW i \in Held(u)'
               PROVE  rxbufstat'[i] # EC_BUF_EMPTY \/ i \in unsent'
    BY DEF Marked
  <2>1. i \in Idx
    BY <1>1, <1>4, HeldTypes
  <2>2. CASE i = idx[t]
    BY <1>1, <2>2 DEF TypeInv, PortTypeOK, EC_BUF_EMPTY, EC_BUF_ALLOC
  <2>3. CASE i # idx[t]
    <3>1. i \in Held(u)
      BY <1>4, <2>3
    <3>2. rxbufstat'[i] = rxbufstat[i]
      BY <1>1, <2>1, <2>3 DEF TypeInv, PortTypeOK
    <3> QED
      BY <1>1, <3>1, <3>2 DEF ExInv, Marked
  <2> QED
    BY <2>2, <2>3
<1>9. Distinct'
  BY <1>1 DEF ExInv, Distinct, pdVars
<1> QED
  BY <1>7, <1>8, <1>9 DEF ExInv

\* A frame sent: the cyclic thread waits for the index it has worked on.
LEMMA SendEx ==
  ASSUME TypeInv, ExInv, NEW t \in Threads, Send(t)
  PROVE  ExInv'
<1>1. /\ pc[t] = "send" /\ UNCHANGED <<idx, crowded, pulled>> /\ idx[t] \in Idx
      /\ unsent \subseteq unsent'
      /\ \A i \in Idx : rxbufstat'[i] = rxbufstat[i] \/ i \in unsent'
  BY DEF Send, TypeInv, PortTypeOK
<1>2. Working(t) = {idx[t]}
  BY <1>1 DEF Working
<1>3. PICK to \in Places : pc' = [pc EXCEPT ![t] = to]
  BY DEF Send, AfterSend, Places
<1>4. \A u \in Threads : Working(u)' \subseteq Working(u)
  BY <1>1, <1>3 DEF Working, TypeInv, PortTypeOK
<1>5. CASE t # cyclic
  <2>1. UNCHANGED idxstack
    BY <1>5 DEF Send, AfterSend, Threads
  <2>2. Waiting' = Waiting
    BY <1>1, <2>1 DEF Waiting
  <2>3. \A u \in Threads : Held(u)' \subseteq Held(u)
    BY <1>4, <2>2 DEF Held
  <2>4. Exclusive'
    BY <1>1, <1>4, <2>2, <2>3 DEF ExInv, Exclusive, Threads
  <2>5. Marked'
    BY <1>1, <2>3, HeldTypes DEF ExInv, Marked
  <2>6. Distinct'
    BY <1>1, <2>1 DEF ExInv, Distinct
  <2> QED
    BY <2>4, <2>5, <2>6 DEF ExInv
<1>6. CASE t = cyclic
  <2>1. /\ pulled = 0 /\ idxstack \in Seq(Idx \X (1 .. MaxReqs)) /\ Len(idxstack) \in Nat
        /\ <<idx[t], req[t]>> \in Idx \X (1 .. MaxReqs)
    BY <1>1, <1>6 DEF TypeInv, Phase, PortTypeOK, Sending
  <2>2. Working(cyclic)' = {}
    <3>1. pc'[cyclic] \in {"sleep", "idle"}
      BY <1>6, PortAssumption DEF Send, AfterSend, TypeInv, PortTypeOK, Threads
    <3> QED
      BY <3>1 DEF Working
  <2>3. CASE UNCHANGED idxstack
    <3>1. Waiting' = Waiting
      BY <1>1, <2>3 DEF Waiting
    <3>2. \A u \in Threads : Held(u)' \subseteq Held(u)
      BY <1>4, <3>1 DEF Held
    <3>3. Exclusive'
      BY <1>1, <1>4, <3>1, <3>2 DEF ExInv, Exclusive, Threads
    <3>4. Marked'
      BY <1>1, <3>2, HeldTypes DEF ExInv, Marked
    <3>5. Distinct'
      BY <1>1, <2>3 DEF ExInv, Distinct
    <3> QED
      BY <3>3, <3>4, <3>5 DEF ExInv
  <2>4. CASE idxstack' = Append(idxstack, <<idx[t], req[t]>>)
    <3>1. /\ Len(idxstack') = Len(idxstack) + 1
          /\ \A k \in 1 .. Len(idxstack) : idxstack'[k] = idxstack[k]
          /\ idxstack'[Len(idxstack) + 1][1] = idx[t]
      BY <2>1, <2>4
    <3>2. Waiting' \subseteq Waiting \cup {idx[t]}
      <4> SUFFICES ASSUME NEW k \in 1 .. Len(idxstack) + 1
                   PROVE  idxstack'[k][1] \in Waiting \cup {idx[t]}
        BY <1>1, <2>1, <3>1 DEF Waiting
      <4>1. CASE k \in 1 .. Len(idxstack)
        <5>1. idxstack'[k] = idxstack[k] /\ k \in pulled + 1 .. Len(idxstack)
          BY <2>1, <3>1, <4>1
        <5> QED
          BY <5>1 DEF Waiting
      <4>2. CASE k = Len(idxstack) + 1
        BY <3>1, <4>2
      <4> QED
        BY <2>1, <4>1, <4>2
    <3>3. \A u \in Threads : Held(u)' \subseteq Held(u)
      BY <1>2, <1>4, <1>6, <2>2, <3>2 DEF Held
    <3>4. Exclusive'
      BY <1>1, <2>2, <3>3 DEF ExInv, Exclusive
    <3>5. Marked'
      BY <1>1, <3>3, HeldTypes DEF ExInv, Marked
    <3>6. ~crowded => Working(cyclic) \cap Waiting \subseteq unsent'
      BY <1>1 DEF ExInv, Exclusive
    <3>7. ASSUME ~crowded, NEW j \in 1 .. Len(idxstack) + 1, NEW k \in 1 .. Len(idxstack) + 1,
                 j < k, idxstack'[j][1] = idxstack'[k][1]
          PROVE  idxstack'[j][1] \in unsent'
      <4>1. j \in 1 .. Len(idxstack) /\ idxstack'[j] = idxstack[j]
        BY <2>1, <3>1, <3>7
      <4>2. CASE k \in 1 .. Len(idxstack)
        <5>1. idxstack'[k] = idxstack[k] /\ j # k
          BY <3>1, <3>7, <4>2
        <5> QED
          BY <1>1, <2>1, <3>7, <4>1, <4>2, <5>1 DEF ExInv, Distinct
      <4>3. CASE k = Len(idxstack) + 1
        <5>1. idxstack[j][1] = idx[t] /\ idxstack[j][1] \in Waiting
          BY <2>1, <3>1, <3>7, <4>1, <4>3 DEF Waiting
        <5> QED
          BY <1>2, <1>6, <3>6, <3>7, <4>1, <5>1
      <4> QED
        BY <2>1, <4>2, <4>3
    <3>8. Distinct'
      <4> SUFFICES ASSUME ~crowded, NEW j \in 1 .. Len(idxstack) + 1,
                          NEW k \in 1 .. Len(idxstack) + 1,
                          j # k, idxstack'[j][1] = idxstack'[k][1]
                   PROVE  idxstack'[j][1] \in unsent'
        BY <1>1, <2>1, <3>1 DEF Distinct
      <4>1. j < k \/ k < j
        BY <2>1
      <4> QED
        BY <3>7, <4>1
    <3> QED
      BY <3>4, <3>5, <3>8 DEF ExInv
  <2> QED
    BY <1>6, <2>3, <2>4, PortAssumption DEF Send, AfterSend
<1> QED
  BY <1>5, <1>6

\* The cyclic thread pulls its next index: it has waited for it, and for it once.
LEMMA PullEx ==
  ASSUME TypeInv, ExInv, Pull, pc[cyclic] \in {"sleep", "release"},
         UNCHANGED <<crowded, unsent>>,
         \A i \in Idx : rxbufstat'[i] # rxbufstat[i] =>
            pc[cyclic] = "release" /\ i = idx[cyclic]
  PROVE  ExInv'
<1>1. /\ \A u \in Threads : u # cyclic => Working(u)' = Working(u)
      /\ idxstack \in Seq(Idx \X (1 .. MaxReqs)) /\ pulled \in Nat /\ Len(idxstack) \in Nat
  <2>1. \A u \in Threads : u # cyclic => pc'[u] = pc[u] /\ idx'[u] = idx[u]
    BY DEF Pull, TypeInv, PortTypeOK
  <2>2. idxstack \in Seq(Idx \X (1 .. MaxReqs)) /\ pulled \in Nat /\ Len(idxstack) \in Nat
    BY DEF TypeInv, PortTypeOK
  <2> QED
    BY <2>1, <2>2 DEF Working
<1>2. /\ Waiting' \subseteq Waiting /\ Working(cyclic)' \subseteq Waiting
      /\ ~crowded => Working(cyclic)' \cap Waiting' \subseteq unsent
      /\ Distinct'
  <2>1. CASE pulled < Len(idxstack)
    <3>1. /\ pc'[cyclic] = "look" /\ idx'[cyclic] = idxstack[pulled + 1][1]
          /\ pulled' = pulled + 1 /\ idxstack' = idxstack
      BY <2>1 DEF Pull, TypeInv, PortTypeOK, Threads
    <3>2. Working(cyclic)' = {idxstack[pulled + 1][1]}
      BY <3>1 DEF Working
    <3>3. pulled + 1 \in pulled + 1 .. Len(idxstack)
      BY <1>1, <2>1
    <3>4. \A k \in pulled' + 1 .. Len(idxstack) :
            k \in pulled + 1 .. Len(idxstack) /\ k # pulled + 1
      BY <1>1, <3>1
    <3>5. Waiting' \subseteq Waiting
      BY <3>1, <3>4 DEF Waiting
    <3>6. Working(cyclic)' \subseteq Waiting
      BY <3>2, <3>3 DEF Waiting
    <3>7. ASSUME ~crowded, NEW k \in pulled' + 1 .. Len(idxstack),
                 idxstack[k][1] = idxstack[pulled + 1][1]
          PROVE  idxstack[k][1] \in unsent
      <4>1. k \in pulled + 1 .. Len(idxstack) /\ k # pulled + 1
        BY <3>4
      <4> QED
        BY <3>3, <3>7, <4>1 DEF ExInv, Distinct
    <3>8. ~crowded => Working(cyclic)' \cap Waiting' \subseteq unsent
      <4> SUFFICES ASSUME ~crowded, NEW i \in Working(cyclic)' \cap Waiting'
                   PROVE  i \in unsent
        OBVIOUS
      <4>1. PICK k \in pulled' + 1 .. Len(idxstack) : i = idxstack[k][1]
        BY <3>1 DEF Waiting
      <4> QED
        BY <3>2, <3>7, <4>1
    <3>9. Distinct'
      BY <3>1, <3>4 DEF ExInv, Distinct
    <3> QED
      BY <3>5, <3>6, <3>8, <3>9
  <2>2. CASE ~(pulled < Len(idxstack))
    <3>1. pc'[cyclic] = "idle" /\ idxstack' = <<>> /\ pulled' = 0
      BY <2>2 DEF Pull, TypeInv, PortTypeOK, Threads
    <3>2. \A k \in pulled' + 1 .. Len(idxstack') : FALSE
      BY <3>1
    <3>3. Waiting' = {} /\ Working(cyclic)' = {}
      BY <3>1, <3>2 DEF Waiting, Working
    <3>4. Distinct'
      BY <3>2 DEF Distinct
    <3> QED
      BY <3>3, <3>4
  <2> QED
    BY <2>1, <2>2
<1>3. \A u \in Threads : Held(u)' \subseteq Held(u)
  BY <1>1, <1>2 DEF Held
<1>4. Exclusive'
  BY <1>2, <1>3 DEF ExInv, Exclusive
<1>5. Marked'
  <2> SUFFICES ASSUME ~crowded, NEW u \in Threads, NEW i \in Held(u)', rxbufstat'[i] = EC_BUF_EMPTY
               PROVE  i \in unsent
    BY DEF Marked
  <2>1. i \in Held(u) /\ i \in Idx
    BY <1>3, HeldTypes
  <2>2. CASE rxbufstat'[i] = rxbufstat[i]
    BY <2>1, <2>2 DEF ExInv, Marked
  <2>3. CASE pc[cyclic] = "release" /\ i = idx[cyclic]
    <3>1. i \in Working(cyclic) /\ i \in Held(cyclic)
      BY <2>3 DEF Working, Held
    <3>2. CASE u # cyclic
      BY <2>1, <3>1, <3>2 DEF ExInv, Exclusive, Threads
    <3>3. CASE u = cyclic
      <4>1. i \in Waiting
        BY <1>2, <3>3 DEF Held
      <4> QED
        BY <3>1, <4>1 DEF ExInv, Exclusive
    <3> QED
      BY <3>2, <3>3
  <2> QED
    BY <2>1, <2>2, <2>3
<1> QED
  BY <1>2, <1>4, <1>5 DEF ExInv

\* A primitive gives its index back.
LEMMA ReleaseEx ==
  ASSUME TypeInv, ExInv, NEW t \in Threads, Release(t)
  PROVE  ExInv'
<1>1. /\ pc[t] = "release" /\ idx[t] \in Idx /\ UNCHANGED <<crowded, unsent>>
      /\ \A i \in Idx : rxbufstat'[i] # rxbufstat[i] => i = idx[t]
  BY DEF Release, TypeInv, PortTypeOK, histVars
<1>2. CASE t = cyclic
  BY <1>1, <1>2, PullEx DEF Release
<1>3. CASE t # cyclic
  <2>1. pc' = [pc EXCEPT ![t] = "idle"] /\ UNCHANGED <<idx, pdVars>>
    BY <1>3 DEF Release
  <2>2. Waiting' = Waiting
    BY <2>1 DEF Waiting, pdVars
  <2>3. \A u \in Threads : Working(u)' = IF u = t THEN {} ELSE Working(u)
    BY <2>1 DEF Working, TypeInv, PortTypeOK
  <2>4. /\ \A u \in Threads : Held(u)' \subseteq Held(u)
        /\ Held(t)' = {} /\ idx[t] \in Held(t)
    BY <1>1, <1>3, <2>2, <2>3 DEF Held, Working
  <2>5. Exclusive'
    BY <1>1, <2>2, <2>3, <2>4 DEF ExInv, Exclusive, Threads
  <2>6. Marked'
    <3> SUFFICES ASSUME ~crowded, NEW u \in Threads, NEW i \in Held(u)', rxbufstat'[i] = EC_BUF_EMPTY
                 PROVE  i \in unsent
      BY <1>1 DEF Marked
    <3>1. u # t /\ i \in Held(u) /\ i \in Idx
      BY <2>4, HeldTypes
    <3>2. CASE rxbufstat'[i] = rxbufstat[i]
      BY <3>1, <3>2 DEF ExInv, Marked
    <3>3. CASE i = idx[t]
      BY <2>4, <3>1, <3>3 DEF ExInv, Exclusive
    <3> QED
      BY <1>1, <3>1, <3>2, <3>3
  <2>7. Distinct'
    BY <1>1, <2>1 DEF ExInv, Distinct, pdVars
  <2> QED
    BY <2>5, <2>6, <2>7 DEF ExInv
<1> QED
  BY <1>2, <1>3

LEMMA NextEx == TypeInv /\ ExInv /\ [Next]_vars => ExInv'
<1> SUFFICES ASSUME TypeInv, ExInv, [Next]_vars PROVE ExInv'
  OBVIOUS
<1>1. CASE Receive
  BY <1>1, PullEx DEF Receive, bufVars, histVars
<1>2. ASSUME NEW t \in Threads, Work(t)
      PROVE  ExInv'
  BY <1>2, SearchEx, TakeEx, SendEx, WaitEx, ReleaseEx DEF Work, OutFrame
<1>3. CASE UNCHANGED vars
  BY <1>3 DEF vars, bufVars, mineVars, pdVars, histVars, ExInv, Exclusive, Marked, Distinct, Held,
              Working, Waiting
<1> QED
  BY <1>1, <1>2, <1>3 DEF Next

\* Two threads never use one index, and the cyclic thread never uses one twice, unless
\* getindex found every buffer used or a send failed: what ecx_getindex promises with
\* "Get fresh index", for any number of threads, buffers and frames per exchange.
THEOREM IndexExclusive == Spec => []Exclusive
<1>1. Spec => [](TypeInv /\ ExInv)
  BY InitTypes, NextTypes, InitEx, NextEx, PTL DEF Spec
<1>2. ExInv => Exclusive
  BY DEF ExInv
<1> QED
  BY <1>1, <1>2, PTL

-----------------------------------------------------------------------------
(* No answer is thrown away.                                               *)

\* The indexes on which a thread has sent, or has marked the buffer for it.
Sent(t) == (IF pc[t] \in {"send", "look", "recv", "store", "timer", "got"} THEN {idx[t]} ELSE {})
             \cup (IF t = cyclic THEN Waiting ELSE {})

\* Nobody takes such an index anew, unless a send on it failed.
SentInv ==
    ~crowded => \A t \in Threads : \A i \in Sent(t) : rxbufstat[i] # EC_BUF_ALLOC \/ i \in unsent

LEMMA SentIsHeld ==
  ASSUME TypeInv, NEW t \in Threads
  PROVE  Sent(t) \subseteq Held(t) /\ Sent(t) \subseteq Idx
<1>1. Sent(t) \subseteq Held(t)
  BY DEF Sent, Held, Working
<1> QED
  BY <1>1, HeldTypes

\* A step that marks no buffer as allocated.
LEMMA QuietSent ==
  ASSUME TypeInv, SentInv, crowded' = crowded, unsent \subseteq unsent',
         \A u \in Threads : \A i \in Sent(u)' : i \in Sent(u) \/ rxbufstat'[i] # EC_BUF_ALLOC,
         \A i \in Idx : rxbufstat'[i] = EC_BUF_ALLOC => rxbufstat[i] = EC_BUF_ALLOC
  PROVE  SentInv'
BY SentIsHeld DEF SentInv

LEMMA PullSent ==
  ASSUME TypeInv, SentInv, Pull, pc[cyclic] \in {"sleep", "release"}, UNCHANGED <<crowded, unsent>>,
         \A i \in Idx : rxbufstat'[i] = EC_BUF_ALLOC => rxbufstat[i] = EC_BUF_ALLOC
  PROVE  SentInv'
<1>1. \A u \in Threads : u # cyclic => Sent(u)' = Sent(u)
  BY DEF Pull, TypeInv, PortTypeOK, Sent
<1>2. Sent(cyclic)' \subseteq Waiting
  <2>1. pulled \in Nat /\ Len(idxstack) \in Nat
    BY DEF TypeInv, PortTypeOK
  <2>2. CASE pulled < Len(idxstack)
    <3>1. /\ idx'[cyclic] = idxstack[pulled + 1][1]
          /\ pulled' = pulled + 1 /\ idxstack' = idxstack
      BY <2>2 DEF Pull, TypeInv, PortTypeOK, Threads
    <3>2. pulled + 1 \in pulled + 1 .. Len(idxstack)
          /\ \A k \in pulled' + 1 .. Len(idxstack) : k \in pulled + 1 .. Len(idxstack)
      BY <2>1, <2>2, <3>1
    <3>3. Waiting' \subseteq Waiting /\ idx'[cyclic] \in Waiting
      BY <3>1, <3>2 DEF Waiting
    <3> QED
      BY <3>3 DEF Sent
  <2>3. CASE ~(pulled < Len(idxstack))
    <3>1. pc'[cyclic] = "idle" /\ idxstack' = <<>> /\ pulled' = 0
      BY <2>3 DEF Pull, TypeInv, PortTypeOK, Threads
    <3>2. \A k \in pulled' + 1 .. Len(idxstack') : FALSE
      BY <3>1
    <3> QED
      BY <3>1, <3>2 DEF Sent, Waiting
  <2> QED
    BY <2>2, <2>3
<1>3. \A u \in Threads : Sent(u)' \subseteq Sent(u)
  BY <1>1, <1>2 DEF Sent
<1> QED
  BY <1>3, QuietSent

LEMMA SendSent ==
  ASSUME TypeInv, SentInv, NEW t \in Threads, Send(t)
  PROVE  SentInv'
<1>1. /\ pc[t] = "send" /\ UNCHANGED <<idx, crowded, pulled>> /\ idx[t] \in Idx
      /\ unsent \subseteq unsent'
      /\ \A i \in Idx : rxbufstat'[i] = EC_BUF_ALLOC => rxbufstat[i] = EC_BUF_ALLOC
  BY DEF Send, TypeInv, PortTypeOK, EC_BUF_EMPTY, EC_BUF_ALLOC
<1>2. PICK to \in Places : pc' = [pc EXCEPT ![t] = to]
  BY DEF Send, AfterSend, Places
<1>3. idx[t] \in Sent(t) /\ \A u \in Threads \ {t} : pc'[u] = pc[u]
  BY <1>1, <1>2 DEF Sent, TypeInv, PortTypeOK
<1>4. CASE UNCHANGED idxstack
  <2>1. \A u \in Threads : Sent(u)' \subseteq Sent(u)
    BY <1>1, <1>3, <1>4 DEF Sent, Waiting
  <2> QED
    BY <1>1, <2>1, QuietSent
<1>5. CASE t = cyclic /\ idxstack' = Append(idxstack, <<idx[t], req[t]>>)
  <2>1. /\ pulled = 0 /\ idxstack \in Seq(Idx \X (1 .. MaxReqs)) /\ Len(idxstack) \in Nat
        /\ <<idx[t], req[t]>> \in Idx \X (1 .. MaxReqs)
    BY <1>1, <1>5 DEF TypeInv, Phase, PortTypeOK, Sending
  <2>2. /\ Len(idxstack') = Len(idxstack) + 1
        /\ \A k \in 1 .. Len(idxstack) : idxstack'[k] = idxstack[k]
        /\ idxstack'[Len(idxstack) + 1][1] = idx[t]
    BY <1>5, <2>1
  <2>3. Waiting' \subseteq Waiting \cup {idx[t]}
    <3> SUFFICES ASSUME NEW k \in 1 .. Len(idxstack) + 1
                 PROVE  idxstack'[k][1] \in Waiting \cup {idx[t]}
      BY <1>1, <2>1, <2>2 DEF Waiting
    <3>1. CASE k \in 1 .. Len(idxstack)
      <4>1. idxstack'[k] = idxstack[k] /\ k \in pulled + 1 .. Len(idxstack)
        BY <2>1, <2>2, <3>1
      <4> QED
        BY <4>1 DEF Waiting
    <3>2. CASE k = Len(idxstack) + 1
      BY <2>2, <3>2
    <3> QED
      BY <2>1, <3>1, <3>2
  <2>4. \A u \in Threads : Sent(u)' \subseteq Sent(u)
    BY <1>1, <1>3, <1>5, <2>3 DEF Sent
  <2> QED
    BY <1>1, <2>4, QuietSent
<1> QED
  BY <1>4, <1>5, PortAssumption DEF Send, AfterSend, Threads

LEMMA OtherSent ==
  ASSUME TypeInv, ExInv, SentInv, NEW t \in Threads, Work(t), ~Send(t),
         t # cyclic \/ pc[t] # "release"
  PROVE  SentInv'
<1>0. idx[t] \in Idx /\ (pc[t] = "store" => tempbuf.idx \in Idx)
  BY DEF TypeInv, PortTypeOK, Storing, Frames
<1>1. CASE EnterGetindex(t) \/ SearchIndex(t) \/ SetupDatagram(t) \/ LookElse(t) \/ RecvNothing(t)
           \/ RecvStrange(t) \/ RecvOther(t) \/ TimeLeft(t) \/ TimeOver(t) \/ CopyOut(t)
  <2>1. UNCHANGED <<pdVars, crowded, unsent, rxbufstat>>
    BY <1>1 DEF EnterGetindex, SearchIndex, SetupDatagram, LookElse, RecvNothing, RecvStrange,
       RecvOther, TimeLeft, TimeOver, CopyOut, histVars, bufVars
  <2>2. PICK to \in Places : /\ pc' = [pc EXCEPT ![t] = to]
                             /\ to \in {"send", "look", "recv", "store", "timer", "got"}
                                  => idx' = idx /\ pc[t] \in {"send", "look", "recv", "timer", "got"}
                             /\ \A u \in Threads \ {t} : idx'[u] = idx[u]
    BY <1>1 DEF EnterGetindex, SearchIndex, SetupDatagram, LookElse, RecvNothing, RecvStrange,
       RecvOther, TimeLeft, TimeOver, CopyOut, Goes, Places, mineVars, TypeInv, PortTypeOK
  <2>3. \A u \in Threads : Sent(u)' \subseteq Sent(u)
    BY <2>1, <2>2 DEF Sent, Waiting, pdVars, TypeInv, PortTypeOK
  <2> QED
    BY <2>1, <2>3, QuietSent
<1>2. CASE MarkSent(t) \/ LookReceived(t) \/ RecvOwn(t) \/ Store(t) \/ Release(t)
  <2>1. UNCHANGED <<pdVars, crowded, unsent, idx>>
    BY <1>2 DEF MarkSent, LookReceived, RecvOwn, Store, Release, histVars, mineVars, Goes
  <2>2. PICK to \in {"send", "got", "timer", "idle"} :
           /\ pc' = [pc EXCEPT ![t] = to]
           /\ to # "send" => pc[t] \in {"look", "recv", "store", "release"}
           /\ pc[t] = "release" => to = "idle"
           /\ to = "send" => rxbufstat' = [rxbufstat EXCEPT ![idx[t]] = EC_BUF_TX]
    BY <1>2 DEF MarkSent, LookReceived, RecvOwn, Store, Release, Goes
  <2>3. PICK i \in Idx, b \in {EC_BUF_TX, EC_BUF_RCVD, EC_BUF_COMPLETE, EC_BUF_EMPTY} :
          rxbufstat' = [rxbufstat EXCEPT ![i] = b]
    BY <1>0, <1>2 DEF MarkSent, LookReceived, RecvOwn, Store, Release, Goes
  <2>4. \A j \in Idx : rxbufstat'[j] = EC_BUF_ALLOC => rxbufstat[j] = EC_BUF_ALLOC
    BY <2>3 DEF TypeInv, PortTypeOK, EC_BUF_EMPTY, EC_BUF_TX, EC_BUF_RCVD, EC_BUF_COMPLETE,
       EC_BUF_ALLOC
  <2>5. Waiting' = Waiting
    BY <2>1 DEF Waiting, pdVars
  <2>6. \A u \in Threads : \A j \in Sent(u)' : j \in Sent(u) \/ rxbufstat'[j] # EC_BUF_ALLOC
    <3>1. \A u \in Threads \ {t} : Sent(u)' = Sent(u)
      BY <2>1, <2>2, <2>5 DEF Sent, TypeInv, PortTypeOK
    <3>2. CASE to = "send"
      <4>1. rxbufstat'[idx[t]] = EC_BUF_TX
        BY <1>0, <2>2, <3>2 DEF TypeInv, PortTypeOK
      <4>2. Sent(t)' \subseteq Sent(t) \cup {idx[t]}
        BY <2>1, <2>5 DEF Sent
      <4> QED
        BY <3>1, <4>1, <4>2 DEF EC_BUF_TX, EC_BUF_ALLOC
    <3>3. CASE to # "send"
      <4>1. Sent(t)' \subseteq Sent(t)
        BY <2>1, <2>2, <2>5, <3>3 DEF Sent, TypeInv, PortTypeOK
      <4> QED
        BY <3>1, <4>1
    <3> QED
      BY <3>2, <3>3
  <2> QED
    BY <2>1, <2>4, <2>6, QuietSent
<1>3. CASE TakeIndex(t)
  <2>1. /\ rxbufstat' = [rxbufstat EXCEPT ![idx[t]] = EC_BUF_ALLOC]
        /\ pc' = [pc EXCEPT ![t] = "setup"]
        /\ UNCHANGED <<idx, pdVars, unsent>>
        /\ ~crowded' => ~crowded /\ rxbufstat[idx[t]] = EC_BUF_EMPTY
    BY <1>3 DEF TakeIndex, Goes
  <2>2. \A u \in Threads : Sent(u)' \subseteq Sent(u)
    BY <2>1 DEF Sent, Waiting, pdVars, TypeInv, PortTypeOK
  <2> SUFFICES ASSUME ~crowded', NEW u \in Threads, NEW i \in Sent(u),
                      rxbufstat'[i] = EC_BUF_ALLOC
               PROVE  i \in unsent
    BY <2>1, <2>2 DEF SentInv
  <2>3. i \in Idx /\ i \in Held(u)
    BY SentIsHeld
  <2>4. CASE i = idx[t]
    BY <2>1, <2>3, <2>4 DEF ExInv, Marked
  <2>5. CASE i # idx[t]
    BY <2>1, <2>3, <2>5 DEF SentInv, TypeInv, PortTypeOK
  <2> QED
    BY <2>4, <2>5
<1> QED
  BY <1>1, <1>2, <1>3 DEF Work, OutFrame

LEMMA NextSent == TypeInv /\ ExInv /\ SentInv /\ [Next]_vars => SentInv'
<1> SUFFICES ASSUME TypeInv, ExInv, SentInv, [Next]_vars PROVE SentInv'
  OBVIOUS
<1>1. CASE Receive
  BY <1>1, PullSent DEF Receive, bufVars, histVars
<1>2. ASSUME NEW t \in Threads, Work(t)
      PROVE  SentInv'
  <2>1. CASE Send(t)
    BY <2>1, SendSent
  <2>2. CASE Release(t) /\ t = cyclic
    <3>1. \A i \in Idx : rxbufstat'[i] = EC_BUF_ALLOC => rxbufstat[i] = EC_BUF_ALLOC
      BY <2>2 DEF Release, TypeInv, PortTypeOK, EC_BUF_EMPTY, EC_BUF_ALLOC
    <3> QED
      BY <2>2, <3>1, PullSent DEF Release, histVars
  <2>3. CASE ~Send(t) /\ ~(Release(t) /\ t = cyclic)
    <3>1. t # cyclic \/ pc[t] # "release"
      BY <1>2, <2>3 DEF Work, OutFrame, EnterGetindex, SearchIndex, TakeIndex, SetupDatagram,
         MarkSent, LookReceived, LookElse, RecvNothing, RecvStrange, RecvOwn, RecvOther, Store,
         TimeLeft, TimeOver, CopyOut, Goes
    <3> QED
      BY <1>2, <2>3, <3>1, OtherSent
  <2> QED
    BY <2>1, <2>2, <2>3
<1>3. CASE UNCHANGED vars
  BY <1>3 DEF vars, bufVars, mineVars, pdVars, histVars, SentInv, Sent, Waiting
<1> QED
  BY <1>1, <1>2, <1>3 DEF Next

\* An answer read from the socket by whichever thread reaches the one that waits for
\* it, for any number of threads: it is not taken for one that nobody waits for.
THEOREM AnswersKept == Spec => AnswerKept
<1> DEFINE Kept == \A f \in flight \ flight' :
              \/ f = tempbuf' \/ rxbuf' # rxbuf \/ f.idx \in unsent \/ crowded
              \/ rxbuf[f.idx] = f.req
              \/ \A t \in Threads : ~WaitsFor(t, f)
<1>1. Spec => [](TypeInv /\ ExInv /\ SentInv)
  <2>1. Init => SentInv
    BY DEF Init, SentInv, Sent, Waiting
  <2> QED
    BY <2>1, InitTypes, NextTypes, InitEx, NextEx, NextSent, PTL DEF Spec
<1>2. TypeInv /\ ExInv /\ SentInv /\ [Next]_vars => [Kept]_vars
  <2> SUFFICES ASSUME TypeInv, ExInv, SentInv, Next, NEW f \in flight, f \notin flight',
                      f # tempbuf', rxbuf' = rxbuf, f.idx \notin unsent, ~crowded,
                      rxbuf[f.idx] # f.req, NEW t \in Threads, WaitsFor(t, f)
               PROVE  FALSE
    OBVIOUS
  <2>1. f.idx \in Idx /\ rxbuf \in [Idx -> 0 .. MaxReqs]
    BY DEF TypeInv, PortTypeOK, Frames
  <2>2. PICK u \in Threads : RecvOwn(u) \/ RecvStrange(u) \/ RecvOther(u)
    BY DEF Next, Receive, Work, OutFrame, EnterGetindex, SearchIndex, TakeIndex, SetupDatagram,
       MarkSent, Send, LookReceived, LookElse, RecvNothing, Store, TimeLeft, TimeOver, CopyOut,
       Release, lineVars
  <2>3. ~RecvOther(u)
    BY DEF RecvOther
  <2>4. ~RecvOwn(u)
    <3> SUFFICES ASSUME RecvOwn(u) PROVE FALSE
      OBVIOUS
    <3>1. rxbuf' = [rxbuf EXCEPT ![f.idx] = f.req]
      BY DEF RecvOwn
    <3> QED
      BY <2>1, <3>1
  <2>5. rxbufstat[f.idx] # EC_BUF_TX
    BY <2>2, <2>3, <2>4 DEF RecvStrange
  <2>6. f.idx \in Sent(t) /\ f.idx \in Held(t)
    BY SentIsHeld DEF WaitsFor, Sent
  <2>7. rxbufstat[f.idx] \notin {EC_BUF_EMPTY, EC_BUF_ALLOC}
    BY <2>6 DEF SentInv, ExInv, Marked
  <2> QED
    BY <2>1, <2>5, <2>7 DEF WaitsFor, TypeInv, PortTypeOK
<1>3. Spec => [][Kept]_vars
  BY <1>1, <1>2, PTL DEF Spec
<1> QED
  BY <1>3 DEF AnswerKept

-----------------------------------------------------------------------------
(* The answer is one's own.                                                *)
(*                                                                         *)
(* The search goes round: before an index is given out again, each of the  *)
(* others has been given out or passed over.  One that is passed over is   *)
(* leaked, or in somebody's hands since before the round, and of those     *)
(* there are no more than the threads can hold.                            *)

\* How many indexes the threads can hold while one of them looks for another.
Spread == Cardinality(Callers) + Segments - 1
Taken  == UNION {Held(t) : t \in Threads}

\* The index the search comes to next, and the ones it has come past since it gave out i.
Coming      == IF getindex_mutex = nobody THEN Wrap(lastidx) ELSE idx[getindex_mutex]
Ahead(i, n) == IF n > i THEN n - i - 1 ELSE n - i - 1 + MaxBuf
Past(i)     == {i} \cup {j \in Idx : Ahead(i, j) < Ahead(i, Coming)}

\* Request r has index i; what is left of it anywhere.
Uses(t, i, r) ==
    \/ i \in Working(t) /\ req[t] = r
    \/ t = cyclic /\ \E k \in pulled + 1 .. Len(idxstack) : idxstack[k] = <<i, r>>

Trace(i, r) ==
    \/ \E f \in flight \cup {tempbuf} : f.idx = i /\ f.req = r
    \/ rxbuf[i] = r \/ txbuf[i] = r
    \/ \E t \in Threads : Uses(t, i, r)

\* In the first round since then, what the search has come past was given out, or held,
\* or leaked; after it, enough requests have been made.
Round(i, r) ==
    \/ MaxBuf - 1 <= allocs - r + Spread + Cardinality(Leaked)
    \/ Ahead(i, Coming) + Cardinality(Taken \ Past(i))
         <= allocs - r + Spread + Cardinality(Leaked \cap Past(i))

CircleInv ==
    ~crowded => \A i \in Idx, r \in 1 .. MaxReqs : Trace(i, r) => r <= allocs /\ Round(i, r)

FarInv ==
    ~crowded => \A t \in Threads, i \in Idx \ unsent, r \in 1 .. MaxReqs, p \in 1 .. MaxReqs :
      Uses(t, i, r) /\ Trace(i, p) =>
        p = r \/ (p < r /\ MaxBuf - Spread - Cardinality(Leaked) <= r - p)

\* Who has an answer has one to some request; the lock is held to search; who waits
\* for the answers to the process data has pulled an index.
GotInv ==
    /\ \A t \in Threads : pc[t] = "got" => rxbuf[idx[t]] >= 1
    /\ \A i \in Idx : rxbufstat[i] = EC_BUF_RCVD => rxbuf[i] >= 1
ScanInv == getindex_mutex # nobody => pc[getindex_mutex] = "scan"
PulledInv ==
    pc[cyclic] \in {"look", "recv", "store", "timer", "got", "release"}
      => pulled >= 1 /\ req[cyclic] >= 1

OwnInv == CircleInv /\ FarInv /\ GotInv /\ ScanInv /\ PulledInv

LEMMA AheadIs ==
  ASSUME NEW i \in Idx, NEW n \in Idx
  PROVE  /\ Ahead(i, n) \in 0 .. MaxBuf - 1
         /\ n # i => Ahead(i, Wrap(n)) = Ahead(i, n) + 1
         /\ Ahead(i, i) = MaxBuf - 1 /\ Ahead(i, Wrap(i)) = 0
         /\ \A j \in Idx : Ahead(i, j) = Ahead(i, n) => j = n
BY PortAssumption DEF Ahead, Wrap, Idx

LEMMA ComingType ==
  ASSUME TypeInv
  PROVE  Coming \in Idx
BY WrapType DEF Coming, TypeInv, PortTypeOK

LEMMA Counted ==
  ASSUME NEW T, T \subseteq Idx, NEW S, S \subseteq T
  PROVE  /\ IsFiniteSet(S) /\ Cardinality(S) \in Nat /\ Cardinality(T) \in Nat
         /\ Cardinality(S) <= Cardinality(T)
         /\ \A x \in T \ S : Cardinality(S) + 1 <= Cardinality(T)
<1>1. IsFiniteSet(Idx)
  <2>1. 0 \in Int /\ MaxBuf - 1 \in Int
    BY PortAssumption
  <2> QED
    BY <2>1, FS_Interval DEF Idx
<1>2. IsFiniteSet(T) /\ Cardinality(T) \in Nat
  BY <1>1, FS_Subset, FS_CardinalityType
<1>3. IsFiniteSet(S) /\ Cardinality(S) \in Nat /\ Cardinality(S) <= Cardinality(T)
  BY <1>2, FS_Subset, FS_CardinalityType
<1>4. ASSUME NEW x \in T \ S PROVE Cardinality(S) + 1 <= Cardinality(T)
  <2>1. Cardinality(S \cup {x}) = Cardinality(S) + 1
    BY <1>3, FS_AddElement
  <2>2. S \cup {x} \in SUBSET T
    OBVIOUS
  <2> QED
    BY <1>2, <2>1, <2>2, FS_Subset
<1> QED
  BY <1>2, <1>3, <1>4

LEMMA SetTypes ==
  ASSUME TypeInv, NEW i \in Idx
  PROVE  Taken \subseteq Idx /\ Leaked \subseteq Idx /\ Past(i) \subseteq Idx /\ i \in Past(i)
         /\ Leaked \cap Taken = {}
BY HeldTypes DEF Taken, Leaked, Past

LEMMA SpreadType == Spread \in Int /\ Cardinality(Callers) \in Nat
BY PortAssumption, FS_CardinalityType DEF Spread

\* A step of the search past the index that it has come to.
LEMMA PastGrows ==
  ASSUME TypeInv, NEW i \in Idx, Coming' = Wrap(Coming), Coming # i
  PROVE  /\ Past(i)' = Past(i) \cup {Coming} /\ Coming \notin Past(i)
         /\ Ahead(i, Coming') = Ahead(i, Coming) + 1
<1> DEFINE n == Coming
<1>1. n \in Idx
  BY ComingType
<1>2. Ahead(i, Coming') = Ahead(i, n) + 1 /\ Ahead(i, n) \in Nat
  BY <1>1, AheadIs
<1>3. Past(i)' = {i} \cup {j \in Idx : Ahead(i, j) < Ahead(i, n) + 1}
  BY <1>2 DEF Past
<1>4. ASSUME NEW j \in Idx
      PROVE  Ahead(i, j) < Ahead(i, n) + 1 <=> Ahead(i, j) < Ahead(i, n) \/ j = n
  <2>1. Ahead(i, j) \in Nat
    BY AheadIs
  <2>2. Ahead(i, j) = Ahead(i, n) => j = n
    BY <1>1, AheadIs
  <2> QED
    BY <1>2, <2>1, <2>2
<1> QED
  BY <1>1, <1>2, <1>3, <1>4 DEF Past

\* The search goes on past an index that it gives out, or that is held or leaked.
LEMMA Advance ==
  ASSUME TypeInv, NEW i \in Idx, NEW r \in 1 .. MaxReqs, Round(i, r),
         Coming' = Wrap(Coming), Leaked \subseteq Leaked',
         \/ allocs' = allocs + 1 /\ Taken' \subseteq Taken \cup {Coming}
         \/ allocs' = allocs /\ Taken' \subseteq Taken /\ Coming \in Taken \cup Leaked
  PROVE  Round(i, r)'
<1>1. /\ Taken \subseteq Idx /\ Leaked \subseteq Idx /\ Past(i) \subseteq Idx /\ i \in Past(i)
      /\ Leaked \cap Taken = {} /\ Coming \in Idx
      /\ Taken' \subseteq Idx /\ Leaked' \subseteq Idx
  <2>1. Leaked' \subseteq Idx
    BY DEF Leaked
  <2> QED
    BY <2>1, SetTypes, ComingType
<1>2. /\ Spread \in Int /\ Spread' = Spread /\ MaxBuf \in Nat /\ allocs \in Nat /\ r \in Int
      /\ allocs' \in Nat /\ allocs <= allocs'
  <2>1. allocs \in Nat /\ (allocs' = allocs + 1 \/ allocs' = allocs)
    BY PortAssumption DEF TypeInv, PortTypeOK
  <2>2. Spread' = Spread
    BY DEF Spread
  <2> QED
    BY <2>1, <2>2, SpreadType, PortAssumption
<1>3. Cardinality(Leaked) \in Nat /\ Cardinality(Leaked') \in Nat
      /\ Cardinality(Leaked) <= Cardinality(Leaked')
  BY <1>1, Counted
<1>4. CASE MaxBuf - 1 <= allocs - r + Spread + Cardinality(Leaked)
  BY <1>2, <1>3, <1>4 DEF Round
<1>5. CASE Ahead(i, Coming) + Cardinality(Taken \ Past(i))
             <= allocs - r + Spread + Cardinality(Leaked \cap Past(i))
  <2>1. /\ Cardinality(Taken \ Past(i)) \in Nat /\ Cardinality(Leaked \cap Past(i)) \in Nat
        /\ Cardinality(Leaked \cap Past(i)) <= Cardinality(Leaked)
        /\ Ahead(i, Coming) \in Nat
    BY <1>1, Counted, AheadIs
  <2>2. CASE Coming = i
    <3>1. Ahead(i, Coming) = MaxBuf - 1
      BY <2>2, AheadIs
    <3> QED
      BY <1>2, <1>3, <1>5, <2>1, <3>1 DEF Round
  <2>3. CASE Coming # i
    <3>1. /\ Past(i)' = Past(i) \cup {Coming} /\ Coming \notin Past(i)
          /\ Ahead(i, Coming)' = Ahead(i, Coming) + 1
      BY <2>3, PastGrows DEF Ahead
    <3> DEFINE H == Taken \ Past(i)
               L == Leaked \cap Past(i)
    <3>2. /\ Cardinality(H') \in Nat /\ Cardinality(L') \in Nat
          /\ Cardinality(H') <= Cardinality(H) /\ Cardinality(L) <= Cardinality(L')
      <4>1. H' \subseteq H /\ H \subseteq Idx /\ L \subseteq L' /\ L' \subseteq Idx
        BY <1>1, <3>1
      <4> HIDE DEF H, L
      <4> QED
        BY <4>1, Counted
    <3>3. CASE allocs' = allocs + 1
      BY <1>2, <1>5, <2>1, <3>1, <3>2, <3>3 DEF Round
    <3>4. CASE Coming \in Taken /\ Taken' \subseteq Taken /\ allocs' = allocs
      <4>1. H' \subseteq H /\ H \subseteq Idx /\ Coming \in H \ H'
        BY <1>1, <3>1, <3>4
      <4>2. Cardinality(H') + 1 <= Cardinality(H)
        <5> HIDE DEF H
        <5> QED
          BY <4>1, Counted
      <4> QED
        BY <1>2, <1>5, <2>1, <3>1, <3>2, <3>4, <4>2 DEF Round
    <3>5. CASE Coming \in Leaked /\ allocs' = allocs
      <4>1. L \subseteq L' /\ L' \subseteq Idx /\ Coming \in L' \ L
        BY <1>1, <3>1, <3>5
      <4>2. Cardinality(L) + 1 <= Cardinality(L')
        <5> HIDE DEF L
        <5> QED
          BY <4>1, Counted
      <4> QED
        BY <1>2, <1>5, <2>1, <3>1, <3>2, <3>5, <4>2 DEF Round
    <3> QED
      BY <3>3, <3>4, <3>5
  <2> QED
    BY <2>2, <2>3
<1> QED
  BY <1>4, <1>5 DEF Round

\* Where the search stands still, less is held and more is leaked.
LEMMA Stays ==
  ASSUME TypeInv, NEW i \in Idx, NEW r \in 1 .. MaxReqs, Round(i, r),
         Coming' = Coming, allocs' = allocs, Leaked \subseteq Leaked', Taken' \subseteq Taken
  PROVE  Round(i, r)'
<1>1. Taken \subseteq Idx /\ Leaked' \subseteq Idx /\ Past(i)' = Past(i)
  BY SetTypes DEF Leaked, Past
<1>2. Spread \in Int /\ Spread' = Spread /\ MaxBuf \in Nat /\ allocs \in Nat /\ r \in Int
  BY SpreadType, PortAssumption DEF Spread, TypeInv, PortTypeOK
<1>3. Cardinality(Leaked) \in Nat /\ Cardinality(Leaked') \in Nat
      /\ Cardinality(Leaked) <= Cardinality(Leaked')
  BY <1>1, Counted
<1>4. /\ Cardinality(Leaked \cap Past(i)) \in Nat /\ Cardinality(Leaked' \cap Past(i)) \in Nat
      /\ Cardinality(Leaked \cap Past(i)) <= Cardinality(Leaked' \cap Past(i))
  <2>1. Leaked \cap Past(i) \subseteq Leaked' \cap Past(i) /\ Leaked' \cap Past(i) \subseteq Idx
    BY <1>1
  <2> QED
    BY <2>1, Counted
<1>5. /\ Cardinality(Taken \ Past(i)) \in Nat /\ Cardinality(Taken' \ Past(i)) \in Nat
      /\ Cardinality(Taken' \ Past(i)) <= Cardinality(Taken \ Past(i))
  <2>1. Taken' \ Past(i) \subseteq Taken \ Past(i) /\ Taken \ Past(i) \subseteq Idx
    BY <1>1
  <2> QED
    BY <2>1, Counted
<1>6. Ahead(i, Coming) \in Nat /\ Ahead(i, Coming)' = Ahead(i, Coming)
  BY ComingType, AheadIs DEF Ahead
<1> QED
  BY <1>1, <1>2, <1>3, <1>4, <1>5, <1>6 DEF Round

LEMMA ImageCounted ==
  ASSUME NEW S, IsFiniteSet(S), NEW f
  PROVE  Cardinality({f[x] : x \in S}) <= Cardinality(S)
<1> DEFINE T == {f[x] : x \in S}
           g == [x \in S |-> f[x]]
<1>1. g \in Surjection(S, T)
  BY DEF Surjection
<1> QED
  BY <1>1, FS_Surjection

\* While a thread looks for an index, no more than Spread are in the threads' hands.
LEMMA TakenBound ==
  ASSUME TypeInv, PulledInv, NEW t \in Threads, pc[t] = "scan"
  PROVE  Cardinality(Taken) <= Spread
<1> DEFINE O == {idx[u] : u \in Callers \ {t}}
           A == pulled + 1 .. Len(idxstack)
<1>1. /\ IsFiniteSet(Callers \ {t}) /\ Cardinality(Callers) \in Nat
      /\ Cardinality(Callers \ {t}) = IF t \in Callers THEN Cardinality(Callers) - 1
                                                       ELSE Cardinality(Callers)
  BY PortAssumption, SpreadType, FS_RemoveElement
<1>2. O \subseteq Idx /\ Cardinality(O) \in Nat
      /\ Cardinality(O) <= Cardinality(Callers \ {t})
  <2>1. O \subseteq Idx
    BY DEF TypeInv, PortTypeOK, Threads
  <2>2. Cardinality(O) <= Cardinality(Callers \ {t})
    <3> HIDE DEF O
    <3> QED
      BY <1>1, ImageCounted DEF O
  <2> QED
    BY <2>1, <2>2, Counted
<1>3. /\ pulled \in Nat /\ Len(idxstack) \in Nat /\ pulled <= Len(idxstack)
      /\ Len(idxstack) <= Segments /\ Segments \in Nat
  BY PortAssumption DEF TypeInv, PortTypeOK
<1>4. Waiting \subseteq Idx /\ Cardinality(Waiting) \in Nat
      /\ Cardinality(Waiting) <= Len(idxstack) - pulled
  <2>1. IsFiniteSet(A) /\ Cardinality(A) = Len(idxstack) - pulled
    <3> DEFINE a == pulled + 1
               b == Len(idxstack)
    <3>1. a \in Int /\ b \in Int /\ a <= b + 1 /\ b - a + 1 = Len(idxstack) - pulled
      BY <1>3
    <3> HIDE DEF a, b
    <3>2. IsFiniteSet(a .. b) /\ Cardinality(a .. b) = IF a > b THEN 0 ELSE b - a + 1
      BY <3>1, FS_Interval
    <3>3. Cardinality(a .. b) = b - a + 1
      BY <3>1, <3>2
    <3> QED
      BY <3>1, <3>2, <3>3 DEF a, b
  <2> DEFINE f == [k \in A |-> idxstack[k][1]]
  <2>2. Waiting = {f[k] : k \in A}
    BY DEF Waiting
  <2>3. Cardinality(Waiting) <= Cardinality(A)
    <3> HIDE DEF f, A
    <3> QED
      BY <2>1, <2>2, ImageCounted
  <2>4. Waiting \subseteq Idx
    BY HeldTypes
  <2> QED
    BY <2>1, <2>3, <2>4, Counted
<1>5. Taken \subseteq O \cup Held(cyclic)
  <2> SUFFICES ASSUME NEW u \in Threads, NEW i \in Held(u), u # cyclic
               PROVE  i \in O
    BY DEF Taken
  <2>1. i \in Working(u) /\ u \in Callers
    BY DEF Held, Threads
  <2>2. u # t /\ i = idx[u]
    BY <2>1 DEF Working
  <2> QED
    BY <2>1, <2>2
<1>6. /\ Held(cyclic) \subseteq Idx /\ Cardinality(Held(cyclic)) \in Nat
      /\ Cardinality(Held(cyclic)) <= IF t = cyclic THEN Segments - 1 ELSE Segments
  <2>0. cyclic \in Threads /\ Held(cyclic) = Working(cyclic) \cup Waiting
    BY DEF Threads, Held
  <2>1. CASE pc[cyclic] \in {"idle", "scan", "sleep"}
    <3>1. Held(cyclic) = Waiting
      BY <2>0, <2>1 DEF Working
    <3>2. t = cyclic => Len(idxstack) < Segments
      BY DEF TypeInv, Phase
    <3> QED
      BY <1>3, <1>4, <3>1, <3>2
  <2>2. CASE pc[cyclic] \notin {"idle", "scan", "sleep"}
    <3>1. Held(cyclic) = Waiting \cup {idx[cyclic]} /\ t # cyclic /\ idx[cyclic] \in Idx
      BY <2>0, <2>2 DEF Working, TypeInv, PortTypeOK
    <3>2. Len(idxstack) < Segments \/ pulled >= 1
      BY <2>0, <2>2 DEF TypeInv, Phase, PulledInv, PortTypeOK, Places
    <3>3. Cardinality(Waiting) <= Segments - 1
      BY <1>3, <1>4, <3>2
    <3>4. IsFiniteSet(Waiting)
      BY <1>4, Counted
    <3>5. Cardinality(Waiting \cup {idx[cyclic]})
            = IF idx[cyclic] \in Waiting THEN Cardinality(Waiting) ELSE Cardinality(Waiting) + 1
      BY <3>4, FS_AddElement
    <3>6. Waiting \cup {idx[cyclic]} \subseteq Idx
      BY <1>4, <3>1
    <3> QED
      BY <1>3, <1>4, <3>1, <3>3, <3>5, <3>6
  <2> QED
    BY <2>1, <2>2
<1>7. Cardinality(O) + Cardinality(Held(cyclic)) <= Spread
  BY <1>1, <1>2, <1>3, <1>6, PortAssumption DEF Spread, Threads
<1>8. Cardinality(Taken) <= Cardinality(O) + Cardinality(Held(cyclic))
  <2> DEFINE U == O \cup Held(cyclic)
             W == O \cap Held(cyclic)
  <2>1. U \subseteq Idx /\ W \subseteq Idx
    BY <1>2, <1>6
  <2>2. Cardinality(Taken) <= Cardinality(U) /\ Cardinality(Taken) \in Nat
    <3> HIDE DEF U
    <3> QED
      BY <1>5, <2>1, Counted DEF U
  <2>3. Cardinality(U) \in Nat /\ Cardinality(W) \in Nat
    <3> HIDE DEF U, W
    <3> QED
      BY <2>1, Counted
  <2>4. Cardinality(U) = Cardinality(O) + Cardinality(Held(cyclic)) - Cardinality(W)
    <3>1. IsFiniteSet(O) /\ IsFiniteSet(Held(cyclic))
      <4> HIDE DEF O
      <4> QED
        BY <1>2, <1>6, Counted
    <3> HIDE DEF O
    <3> QED
      BY <3>1, FS_Union
  <2> HIDE DEF U, W, O
  <2> QED
    BY <1>2, <1>6, <2>2, <2>3, <2>4
<1> HIDE DEF O
<1>9. Cardinality(Taken) \in Nat
  <2>1. Taken \subseteq Idx
    BY HeldTypes DEF Taken
  <2> QED
    BY <2>1, Counted
<1> QED
  BY <1>2, <1>6, <1>7, <1>8, <1>9, SpreadType

LEMMA UsedIsHeld ==
  ASSUME NEW t \in Threads, NEW i, NEW r, Uses(t, i, r)
  PROVE  i \in Held(t)
<1>1. ASSUME NEW k \in pulled + 1 .. Len(idxstack), idxstack[k] = <<i, r>>
      PROVE  i \in Waiting
  <2>1. idxstack[k][1] = i
    BY <1>1
  <2> QED
    BY <2>1 DEF Waiting
<1> QED
  BY <1>1 DEF Uses, Held

\* A step that gives out no index: nothing new is used and left over, ...
Quiet ==
    /\ \A t \in Threads : \A i, r : Uses(t, i, r)' => Uses(t, i, r)
    /\ \A i \in Idx, r \in 1 .. MaxReqs : Trace(i, r)' => Trace(i, r)
    /\ \A i \in Idx \ Taken : rxbufstat[i] # EC_BUF_EMPTY => rxbufstat'[i] # EC_BUF_EMPTY
    /\ UNCHANGED <<allocs, crowded>> /\ unsent \subseteq unsent'

\* ... less is held, and more leaked, ...
LEMMA HeldShrinks ==
  ASSUME TypeInv', Quiet
  PROVE  Taken' \subseteq Taken /\ Leaked \subseteq Leaked'
<1>1. ASSUME NEW t \in Threads, NEW i \in Held(t)' PROVE i \in Held(t)
  <2>1. CASE i \in Working(t)'
    <3>1. PICK r : r = req'[t]
      OBVIOUS
    <3>2. Uses(t, i, r)'
      BY <2>1, <3>1 DEF Uses
    <3> QED
      BY <3>2, UsedIsHeld DEF Quiet
  <2>2. CASE t = cyclic /\ i \in Waiting'
    <3>1. idxstack' \in Seq(Idx \X (1 .. MaxReqs)) /\ pulled' \in 0 .. Len(idxstack')
      BY DEF TypeInv, PortTypeOK
    <3>2. PICK k : k \in pulled' + 1 .. Len(idxstack') /\ i = idxstack'[k][1]
      BY <2>2 DEF Waiting
    <3>3. idxstack'[k] \in Idx \X (1 .. MaxReqs)
      <4>1. pulled' \in Nat /\ Len(idxstack') \in Nat
        BY <3>1
      <4>2. k \in 1 .. Len(idxstack')
        BY <3>2, <4>1
      <4> QED
        BY <3>1, <4>2
    <3>4. PICK r : idxstack'[k] = <<i, r>>
      BY <3>2, <3>3
    <3>5. Uses(t, i, r)'
      BY <2>2, <3>2, <3>4 DEF Uses
    <3> QED
      BY <3>5, UsedIsHeld DEF Quiet
  <2> QED
    BY <2>1, <2>2 DEF Held
<1>2. Taken' \subseteq Taken
  BY <1>1 DEF Taken
<1> QED
  BY <1>2 DEF Leaked, Taken, Quiet

\* ... the distance between requests stays, and so does what the round has come past.
LEMMA FarKept ==
  ASSUME TypeInv, TypeInv', FarInv, Quiet
  PROVE  FarInv'
<1>1. Cardinality(Leaked) \in Nat /\ Cardinality(Leaked') \in Nat
      /\ Cardinality(Leaked) <= Cardinality(Leaked')
  <2>1. Leaked' \subseteq Idx /\ Leaked \subseteq Leaked'
    BY HeldShrinks DEF Leaked
  <2> QED
    BY <2>1, Counted
<1> SUFFICES ASSUME ~crowded, NEW t \in Threads, NEW i \in Idx \ unsent, NEW r \in 1 .. MaxReqs,
                    NEW p \in 1 .. MaxReqs, Uses(t, i, r), Trace(i, p)
             PROVE  p = r \/ (p < r /\ MaxBuf - Spread' - Cardinality(Leaked') <= r - p)
  BY DEF FarInv, Quiet
<1>2. p = r \/ (p < r /\ MaxBuf - Spread - Cardinality(Leaked) <= r - p)
  BY DEF FarInv
<1>3. Spread' = Spread
  BY DEF Spread
<1> QED
  BY <1>1, <1>2, <1>3, SpreadType, PortAssumption

LEMMA QuietOwn ==
  ASSUME TypeInv, TypeInv', CircleInv, FarInv, Coming' = Coming, Quiet
  PROVE  CircleInv' /\ FarInv'
<1>1. CircleInv'
  <2> SUFFICES ASSUME ~crowded, NEW i \in Idx, NEW r \in 1 .. MaxReqs, Trace(i, r)
               PROVE  r <= allocs' /\ Round(i, r)'
    BY DEF CircleInv, Quiet
  <2> QED
    BY HeldShrinks, Stays DEF CircleInv, Quiet
<1> QED
  BY <1>1, FarKept

\* The steps of a thread that works on its index, up to the release.
LEMMA WaitQuiet ==
  ASSUME TypeInv, NEW t \in Threads,
         \/ SetupDatagram(t) \/ MarkSent(t)
         \/ LookReceived(t) \/ LookElse(t) \/ RecvNothing(t) \/ RecvOwn(t) \/ RecvStrange(t)
         \/ RecvOther(t) \/ Store(t) \/ TimeLeft(t) \/ TimeOver(t) \/ CopyOut(t)
  PROVE  Quiet /\ Coming' = Coming
<1>0. idx[t] \in Idx /\ (pc[t] = "store" => tempbuf \in Frames)
  BY DEF TypeInv, PortTypeOK, Storing
<1>1. UNCHANGED <<pdVars, allocs, crowded, unsent, idx, req, lastidx, getindex_mutex>>
  BY DEF SetupDatagram, MarkSent, LookReceived, LookElse, RecvNothing, RecvOwn, RecvStrange,
         RecvOther, Store, TimeLeft, TimeOver, CopyOut, mineVars, histVars, lockVars
<1>2. PICK to \in Places : pc' = [pc EXCEPT ![t] = to] /\ pc[t] \notin {"idle", "scan", "sleep"}
  BY DEF SetupDatagram, MarkSent, LookReceived, LookElse, RecvNothing, RecvOwn, RecvStrange,
         RecvOther, Store, TimeLeft, TimeOver, CopyOut, Goes, Places
<1>3. \A u \in Threads : \A i, r : Uses(u, i, r)' => Uses(u, i, r)
  <2>1. \A u \in Threads : Working(u)' \subseteq Working(u)
    BY <1>1, <1>2 DEF Working, TypeInv, PortTypeOK
  <2> QED
    BY <1>1, <2>1 DEF Uses, pdVars
<1>4. \A i \in Idx \ Taken : rxbufstat[i] # EC_BUF_EMPTY => rxbufstat'[i] # EC_BUF_EMPTY
  <2>1. PICK i \in Idx, b \in {EC_BUF_TX, EC_BUF_RCVD, EC_BUF_COMPLETE} :
          rxbufstat' \in {rxbufstat, [rxbufstat EXCEPT ![i] = b]}
    BY <1>0 DEF SetupDatagram, MarkSent, LookReceived, LookElse, RecvNothing, RecvOwn,
         RecvStrange, RecvOther, Store, TimeLeft, TimeOver, CopyOut, Goes, bufVars, Frames
  <2> QED
    BY <2>1 DEF TypeInv, PortTypeOK, EC_BUF_EMPTY, EC_BUF_TX, EC_BUF_RCVD, EC_BUF_COMPLETE
<1>5. \A i \in Idx, r \in 1 .. MaxReqs : Trace(i, r)' => Trace(i, r)
  <2> SUFFICES ASSUME NEW i \in Idx, NEW r \in 1 .. MaxReqs, Trace(i, r)', ~Trace(i, r)
               PROVE  FALSE
    OBVIOUS
  <2>1. /\ \A f \in flight \cup {tempbuf} : ~(f.idx = i /\ f.req = r)
        /\ rxbuf[i] # r /\ txbuf[i] # r /\ \A u \in Threads : ~Uses(u, i, r)
    BY DEF Trace
  <2>2. \A f \in flight' \cup {tempbuf'} : ~(f.idx = i /\ f.req = r)
    <3>1. flight' \subseteq flight /\ (tempbuf' = tempbuf \/ tempbuf' \in flight \cup {NoFrame})
      BY DEF SetupDatagram, MarkSent, LookReceived, LookElse, RecvNothing, RecvOwn,
         RecvStrange, RecvOther, Store, TimeLeft, TimeOver, CopyOut, lineVars
    <3>2. NoFrame.idx # i
      BY DEF NoFrame, Idx
    <3> QED
      BY <2>1, <3>1, <3>2
  <2>3. rxbuf'[i] # r
    <3>1. rxbuf' = rxbuf \/ \E f \in flight \cup {tempbuf} : rxbuf' = [rxbuf EXCEPT ![f.idx] = f.req]
      BY DEF SetupDatagram, MarkSent, LookReceived, LookElse, RecvNothing, RecvOwn,
         RecvStrange, RecvOther, Store, TimeLeft, TimeOver, CopyOut, bufVars
    <3> QED
      BY <2>1, <3>1 DEF TypeInv, PortTypeOK
  <2>4. txbuf'[i] # r
    <3>1. txbuf' = txbuf \/ (pc[t] = "setup" /\ txbuf' = [txbuf EXCEPT ![idx[t]] = req[t]])
      BY DEF SetupDatagram, MarkSent, LookReceived, LookElse, RecvNothing, RecvOwn,
         RecvStrange, RecvOther, Store, TimeLeft, TimeOver, CopyOut, bufVars, Goes
    <3>2. pc[t] = "setup" => Uses(t, idx[t], req[t])
      BY DEF Uses, Working
    <3> QED
      BY <2>1, <3>1, <3>2 DEF TypeInv, PortTypeOK
  <2> QED
    BY <1>3, <2>1, <2>2, <2>3, <2>4 DEF Trace
<1>6. Coming' = Coming
  <2>1. CASE getindex_mutex = nobody
    BY <1>1, <2>1 DEF Coming
  <2> QED
    BY <1>1, <2>1 DEF Coming
<1> QED
  BY <1>1, <1>3, <1>4, <1>5, <1>6 DEF Quiet

\* A frame leaves: its request is the one that was put into the buffer.
LEMMA SendQuiet ==
  ASSUME TypeInv, NEW t \in Threads, Send(t)
  PROVE  Quiet /\ Coming' = Coming
<1>1. /\ pc[t] = "send" /\ idx[t] \in Idx /\ unsent \subseteq unsent'
      /\ UNCHANGED <<idx, req, rxbuf, txbuf, tempbuf, pulled, allocs, crowded, lastidx, getindex_mutex>>
  BY DEF Send, TypeInv, PortTypeOK, lockVars
<1>2. idx[t] \in Taken
  BY <1>1 DEF Taken, Held, Working
<1>3. \A i \in Idx \ Taken : rxbufstat'[i] = rxbufstat[i]
  BY <1>2 DEF Send, TypeInv, PortTypeOK
<1>4. PICK to \in {"look", "sleep", "idle"} : pc' = [pc EXCEPT ![t] = to]
  BY DEF Send, AfterSend
<1>5. \A u \in Threads : Working(u)' \subseteq Working(u)
  BY <1>1, <1>4 DEF Working, TypeInv, PortTypeOK
<1>6. \A u \in Threads : \A i, r : Uses(u, i, r)' => Uses(u, i, r)
  <2>1. CASE UNCHANGED idxstack
    BY <1>1, <1>5, <2>1 DEF Uses
  <2>2. CASE t = cyclic /\ idxstack' = Append(idxstack, <<idx[t], req[t]>>)
    <3>1. /\ pulled = 0 /\ idxstack \in Seq(Idx \X (1 .. MaxReqs)) /\ Len(idxstack) \in Nat
          /\ <<idx[t], req[t]>> \in Idx \X (1 .. MaxReqs)
      BY <1>1, <2>2 DEF TypeInv, Phase, PortTypeOK, Sending
    <3>2. /\ Len(idxstack') = Len(idxstack) + 1
          /\ \A k \in 1 .. Len(idxstack) : idxstack'[k] = idxstack[k]
          /\ idxstack'[Len(idxstack) + 1] = <<idx[t], req[t]>>
      BY <2>2, <3>1
    <3>3. ASSUME NEW i, NEW r, NEW k \in 1 .. Len(idxstack) + 1, idxstack'[k] = <<i, r>>
          PROVE  Uses(cyclic, i, r)
      <4>1. CASE k \in 1 .. Len(idxstack)
        <5>1. idxstack[k] = <<i, r>> /\ k \in pulled + 1 .. Len(idxstack)
          BY <3>1, <3>2, <3>3, <4>1
        <5> QED
          BY <5>1 DEF Uses
      <4>2. CASE k = Len(idxstack) + 1
        <5>1. i = idx[t] /\ r = req[t]
          BY <3>2, <3>3, <4>2
        <5> QED
          BY <1>1, <2>2, <5>1 DEF Uses, Working
      <4> QED
        BY <3>1, <4>1, <4>2
    <3>4. \A k \in pulled' + 1 .. Len(idxstack') : k \in 1 .. Len(idxstack) + 1
      BY <1>1, <3>1, <3>2
    <3>5. ASSUME NEW u \in Threads, NEW i, NEW r, Uses(u, i, r)' PROVE Uses(u, i, r)
      <4>1. CASE i \in Working(u)' /\ req'[u] = r
        BY <1>1, <1>5, <4>1 DEF Uses
      <4>2. CASE u = cyclic /\ \E k \in pulled' + 1 .. Len(idxstack') : idxstack'[k] = <<i, r>>
        BY <3>3, <3>4, <4>2
      <4> QED
        BY <3>5, <4>1, <4>2 DEF Uses
    <3> QED
      BY <3>5
  <2> QED
    BY <2>1, <2>2, PortAssumption DEF Send, AfterSend, Threads
<1>7. \A i \in Idx, r \in 1 .. MaxReqs : Trace(i, r)' => Trace(i, r)
  <2>1. flight' \subseteq flight \cup {OnLine(t)}
    BY DEF Send
  <2>2. OnLine(t).idx = idx[t] /\ OnLine(t).req = txbuf[idx[t]]
    BY DEF OnLine
  <2> QED
    BY <1>1, <1>6, <2>1, <2>2 DEF Trace
<1>8. Coming' = Coming
  <2>1. CASE getindex_mutex = nobody
    BY <1>1, <2>1 DEF Coming
  <2> QED
    BY <1>1, <2>1 DEF Coming
<1> QED
  BY <1>1, <1>3, <1>6, <1>7, <1>8 DEF Quiet

\* The cyclic thread pulls its next index, or has done.
LEMMA PullQuiet ==
  ASSUME TypeInv, ScanInv, Pull, pc[cyclic] \in {"sleep", "release"},
         UNCHANGED <<allocs, crowded, unsent, lineVars, rxbuf, txbuf, lockVars>>,
         \A i \in Idx \ Taken : rxbufstat'[i] = rxbufstat[i]
  PROVE  Quiet /\ Coming' = Coming
<1>1. \A u \in Threads : u # cyclic => pc'[u] = pc[u] /\ idx'[u] = idx[u] /\ req'[u] = req[u]
  BY DEF Pull, TypeInv, PortTypeOK
<1>2. \A i, r : Uses(cyclic, i, r)' => Uses(cyclic, i, r)
  <2>0. pulled \in Nat /\ Len(idxstack) \in Nat
    BY DEF TypeInv, PortTypeOK
  <2>1. CASE pulled < Len(idxstack)
    <3>1. /\ idx'[cyclic] = idxstack[pulled + 1][1] /\ req'[cyclic] = idxstack[pulled + 1][2]
          /\ pulled' = pulled + 1 /\ idxstack' = idxstack
      BY <2>1 DEF Pull, TypeInv, PortTypeOK, Threads
    <3>2. pulled + 1 \in pulled + 1 .. Len(idxstack)
          /\ \A k \in pulled' + 1 .. Len(idxstack) : k \in pulled + 1 .. Len(idxstack)
      BY <2>0, <2>1, <3>1
    <3>3. idxstack[pulled + 1] = <<idx'[cyclic], req'[cyclic]>>
      <4>1. pulled + 1 \in 1 .. Len(idxstack) /\ idxstack \in Seq(Idx \X (1 .. MaxReqs))
        BY <2>0, <2>1 DEF TypeInv, PortTypeOK
      <4>2. idxstack[pulled + 1] \in Idx \X (1 .. MaxReqs)
        BY <4>1
      <4> QED
        BY <3>1, <4>2
    <3>4. \A i, r : i \in Working(cyclic)' /\ req'[cyclic] = r => Uses(cyclic, i, r)
      BY <3>2, <3>3 DEF Uses, Working
    <3> QED
      BY <3>1, <3>2, <3>4 DEF Uses
  <2>2. CASE ~(pulled < Len(idxstack))
    <3>1. pc'[cyclic] = "idle" /\ idxstack' = <<>> /\ pulled' = 0
      BY <2>2 DEF Pull, TypeInv, PortTypeOK, Threads
    <3>2. \A k \in pulled' + 1 .. Len(idxstack') : FALSE
      BY <3>1
    <3> QED
      BY <3>1, <3>2 DEF Uses, Working
  <2> QED
    BY <2>1, <2>2
<1>3. \A u \in Threads : \A i, r : Uses(u, i, r)' => Uses(u, i, r)
  <2>1. \A u \in Threads : u # cyclic => Working(u)' = Working(u)
    BY <1>1 DEF Working
  <2>2. ASSUME NEW u \in Threads, NEW i, NEW r, Uses(u, i, r)' PROVE Uses(u, i, r)
    <3>1. CASE u = cyclic
      BY <1>2, <2>2, <3>1
    <3>2. CASE u # cyclic
      BY <1>1, <2>1, <2>2, <3>2 DEF Uses
    <3> QED
      BY <3>1, <3>2
  <2> QED
    BY <2>2
<1>4. \A i \in Idx, r \in 1 .. MaxReqs : Trace(i, r)' => Trace(i, r)
  BY <1>3 DEF Trace, lineVars
<1>5. Coming' = Coming
  <2>1. UNCHANGED <<lastidx, getindex_mutex>>
    BY DEF lockVars
  <2>2. CASE getindex_mutex = nobody
    BY <2>1, <2>2 DEF Coming
  <2>3. CASE getindex_mutex # nobody
    <3>1. getindex_mutex \in Threads /\ getindex_mutex # cyclic
      BY <2>3 DEF ScanInv, TypeInv, PortTypeOK
    <3> QED
      BY <1>1, <2>1, <3>1 DEF Coming
  <2> QED
    BY <2>2, <2>3
<1> QED
  BY <1>3, <1>4, <1>5 DEF Quiet

\* An index given back.
LEMMA ReleaseQuiet ==
  ASSUME TypeInv, ScanInv, NEW t \in Threads, Release(t)
  PROVE  Quiet /\ Coming' = Coming
<1>1. /\ pc[t] = "release" /\ idx[t] \in Idx
      /\ UNCHANGED <<allocs, crowded, unsent, lineVars, rxbuf, txbuf, lockVars>>
  BY DEF Release, TypeInv, PortTypeOK, histVars
<1>2. idx[t] \in Taken
  BY <1>1 DEF Taken, Held, Working
<1>3. \A i \in Idx \ Taken : rxbufstat'[i] = rxbufstat[i]
  BY <1>2 DEF Release, TypeInv, PortTypeOK
<1>4. CASE t = cyclic
  BY <1>1, <1>3, <1>4, PullQuiet DEF Release
<1>5. CASE t # cyclic
  <2>1. pc' = [pc EXCEPT ![t] = "idle"] /\ UNCHANGED <<idx, req, pdVars>>
    BY <1>5 DEF Release
  <2>2. \A u \in Threads : Working(u)' \subseteq Working(u)
    BY <2>1 DEF Working, TypeInv, PortTypeOK
  <2>3. \A u \in Threads : \A i, r : Uses(u, i, r)' => Uses(u, i, r)
    BY <2>1, <2>2 DEF Uses, pdVars
  <2>4. \A i \in Idx, r \in 1 .. MaxReqs : Trace(i, r)' => Trace(i, r)
    BY <1>1, <2>3 DEF Trace, lineVars
  <2>5. Coming' = Coming
    BY <1>1, <2>1 DEF Coming, lockVars
  <2> QED
    BY <1>1, <1>3, <2>3, <2>4, <2>5 DEF Quiet
<1> QED
  BY <1>4, <1>5

\* A search begins.
LEMMA EnterQuiet ==
  ASSUME TypeInv, NEW t \in Threads, EnterGetindex(t)
  PROVE  Quiet /\ Coming' = Coming
<1>1. /\ UNCHANGED <<req, pdVars, rxbufstat, rxbuf, txbuf, lineVars, allocs, crowded, unsent>>
      /\ pc' = [pc EXCEPT ![t] = "scan"] /\ idx' = [idx EXCEPT ![t] = Wrap(lastidx)]
      /\ getindex_mutex = nobody /\ getindex_mutex' = t
  BY DEF EnterGetindex, Goes, bufVars, histVars
<1>2. \A u \in Threads : Working(u)' \subseteq Working(u)
  BY <1>1 DEF Working, TypeInv, PortTypeOK
<1>3. \A u \in Threads : \A i, r : Uses(u, i, r)' => Uses(u, i, r)
  BY <1>1, <1>2 DEF Uses, pdVars
<1>4. \A i \in Idx, r \in 1 .. MaxReqs : Trace(i, r)' => Trace(i, r)
  BY <1>1, <1>3 DEF Trace, lineVars
<1>5. Coming' = Coming
  BY <1>1, PortAssumption DEF Coming, Threads, TypeInv, PortTypeOK
<1> QED
  BY <1>1, <1>3, <1>4, <1>5 DEF Quiet

\* An index that is in use is passed over.
LEMMA SearchOwn ==
  ASSUME TypeInv, TypeInv', CircleInv, FarInv, ScanInv, NEW t \in Threads, SearchIndex(t)
  PROVE  CircleInv' /\ FarInv'
<1>1. /\ UNCHANGED <<pc, req, pdVars, rxbufstat, rxbuf, txbuf, lineVars, allocs, crowded, unsent,
                     getindex_mutex>>
      /\ pc[t] = "scan" /\ idx' = [idx EXCEPT ![t] = Wrap(idx[t])] /\ getindex_mutex = t
      /\ rxbufstat[idx[t]] # EC_BUF_EMPTY
  BY DEF SearchIndex, SearchOn, bufVars, histVars, lockVars, TypeInv, Locked
<1>2. \A u \in Threads : Working(u)' \subseteq Working(u)
  BY <1>1 DEF Working, TypeInv, PortTypeOK
<1>3. \A u \in Threads : \A i, r : Uses(u, i, r)' => Uses(u, i, r)
  BY <1>1, <1>2 DEF Uses, pdVars
<1>4. \A i \in Idx, r \in 1 .. MaxReqs : Trace(i, r)' => Trace(i, r)
  BY <1>1, <1>3 DEF Trace, lineVars
<1>5. Quiet
  BY <1>1, <1>3, <1>4 DEF Quiet
<1>6. Coming = idx[t] /\ Coming' = Wrap(Coming)
  BY <1>1, PortAssumption DEF Coming, Threads, TypeInv, PortTypeOK
<1>7. Coming \in Taken \cup Leaked
  BY <1>1, <1>6, ComingType DEF Leaked, Taken
<1>8. CircleInv'
  <2> SUFFICES ASSUME ~crowded, NEW i \in Idx, NEW r \in 1 .. MaxReqs, Trace(i, r)
               PROVE  r <= allocs' /\ Round(i, r)'
    BY <1>5 DEF CircleInv, Quiet
  <2>1. r <= allocs /\ Round(i, r)
    BY DEF CircleInv
  <2>2. Taken' \subseteq Taken /\ Leaked \subseteq Leaked'
    BY <1>5, HeldShrinks
  <2> QED
    BY <1>1, <1>6, <1>7, <2>1, <2>2, Advance
<1> QED
  BY <1>5, <1>8, FarKept

\* An index is given out: a round is over for it, and a new one begins.
LEMMA TakeOwn ==
  ASSUME TypeInv, TypeInv', ExInv, CircleInv, FarInv, PulledInv, NEW t \in Threads, TakeIndex(t)
  PROVE  CircleInv' /\ FarInv'
<1> SUFFICES ASSUME ~crowded' PROVE CircleInv' /\ FarInv'
  BY DEF CircleInv, FarInv
<1> DEFINE x == idx[t]
<1>1. /\ UNCHANGED <<idx, pdVars, rxbuf, txbuf, lineVars, unsent>>
      /\ pc[t] = "scan" /\ pc' = [pc EXCEPT ![t] = "setup"] /\ getindex_mutex = t
      /\ getindex_mutex' = nobody /\ lastidx' = x /\ x \in Idx
      /\ ~crowded /\ rxbufstat[x] = EC_BUF_EMPTY
      /\ rxbufstat' = [rxbufstat EXCEPT ![x] = EC_BUF_ALLOC]
  BY DEF TakeIndex, Goes, TypeInv, Locked, PortTypeOK
<1>2. allocs' = allocs + 1 /\ allocs \in Nat /\ req' = [req EXCEPT ![t] = allocs + 1]
  BY DEF TakeIndex, TypeInv, PortTypeOK
<1>3. Coming = x /\ Coming' = Wrap(x) /\ Coming' = Wrap(Coming)
  BY <1>1, PortAssumption DEF Coming, Threads
<1>4. ASSUME NEW u \in Threads, NEW i, NEW r, Uses(u, i, r)'
      PROVE  Uses(u, i, r) \/ (u = t /\ i = x /\ r = allocs + 1)
  <2>1. CASE i \in Working(u)' /\ req'[u] = r
    <3>1. CASE u = t
      BY <1>1, <1>2, <2>1, <3>1 DEF Working, TypeInv, PortTypeOK
    <3>2. CASE u # t
      <4>1. i \in Working(u) /\ req[u] = r
        BY <1>1, <1>2, <2>1, <3>2 DEF Working, TypeInv, PortTypeOK
      <4> QED
        BY <4>1 DEF Uses
    <3> QED
      BY <3>1, <3>2
  <2>2. CASE u = cyclic /\ \E k \in pulled' + 1 .. Len(idxstack') : idxstack'[k] = <<i, r>>
    BY <1>1, <2>2 DEF Uses, pdVars
  <2> QED
    BY <1>4, <2>1, <2>2 DEF Uses
<1>5. ASSUME NEW i \in Idx, NEW r \in 1 .. MaxReqs, Trace(i, r)'
      PROVE  Trace(i, r) \/ (i = x /\ r = allocs + 1)
  <2>1. CASE \E u \in Threads : Uses(u, i, r)'
    BY <1>4, <2>1 DEF Trace
  <2>2. CASE ~\E u \in Threads : Uses(u, i, r)'
    BY <1>1, <1>5, <2>2 DEF Trace, lineVars
  <2> QED
    BY <2>1, <2>2
<1>6. Taken' \subseteq Taken \cup {x} /\ Leaked \subseteq Leaked'
  <2>1. Waiting' = Waiting
    BY <1>1 DEF Waiting, pdVars
  <2>2. \A u \in Threads : Working(u)' \subseteq Working(u) \cup {x}
    BY <1>1 DEF Working, TypeInv, PortTypeOK
  <2>3. Taken' \subseteq Taken \cup {x}
    BY <2>1, <2>2 DEF Taken, Held
  <2>4. Leaked \subseteq Leaked'
    <3> SUFFICES ASSUME NEW i \in Leaked PROVE i \in Leaked'
      OBVIOUS
    <3>1. i \in Idx /\ rxbufstat[i] # EC_BUF_EMPTY /\ i \notin Taken /\ i # x
      BY <1>1 DEF Leaked, Taken
    <3>2. rxbufstat'[i] = rxbufstat[i] /\ i \notin Taken'
      BY <1>1, <2>3, <3>1 DEF TypeInv, PortTypeOK
    <3> QED
      BY <3>1, <3>2 DEF Leaked, Taken
  <2> QED
    BY <2>3, <2>4
<1> HIDE DEF x
<1>7. Cardinality(Leaked) \in Nat /\ Cardinality(Leaked') \in Nat
      /\ Cardinality(Leaked) <= Cardinality(Leaked')
  <2>1. Leaked' \subseteq Idx
    BY DEF Leaked
  <2> QED
    BY <1>6, <2>1, Counted
<1>8. Spread \in Int /\ Spread' = Spread /\ MaxBuf \in Nat \ {0}
  BY SpreadType, PortAssumption DEF Spread
\* What has gone round.
<1>9. ASSUME NEW p \in 1 .. MaxReqs, Trace(x, p)
      PROVE  p < allocs + 1 /\ MaxBuf - Spread - Cardinality(Leaked) <= allocs + 1 - p
  <2>1. p <= allocs /\ Round(x, p) /\ p \in Nat
    BY <1>1, <1>9 DEF CircleInv
  <2>2. MaxBuf - 1 <= allocs - p + Spread + Cardinality(Leaked)
    <3>1. Ahead(x, Coming) = MaxBuf - 1
      BY <1>1, <1>3, AheadIs
    <3>2. /\ Cardinality(Taken \ Past(x)) \in Nat /\ Cardinality(Leaked \cap Past(x)) \in Nat
          /\ Cardinality(Leaked \cap Past(x)) <= Cardinality(Leaked)
      <4>1. Taken \subseteq Idx /\ Leaked \subseteq Idx
        BY <1>1, SetTypes
      <4> QED
        BY <4>1, Counted
    <3> QED
      BY <1>2, <1>7, <1>8, <2>1, <3>1, <3>2 DEF Round
  <2> QED
    BY <1>2, <1>7, <1>8, <2>1, <2>2
<1>10. CircleInv'
  <2> SUFFICES ASSUME NEW i \in Idx, NEW r \in 1 .. MaxReqs, Trace(i, r)'
               PROVE  r <= allocs' /\ Round(i, r)'
    BY DEF CircleInv
  <2>1. CASE Trace(i, r)
    <3>1. r <= allocs /\ Round(i, r)
      BY <1>1, <2>1 DEF CircleInv
    <3>2. Round(i, r)'
      BY <1>2, <1>3, <1>6, <3>1, Advance
    <3> QED
      BY <1>2, <3>1, <3>2
  <2>2. CASE i = x /\ r = allocs + 1
    <3>1. Ahead(i, Coming)' = 0 /\ Past(i)' = {i}
      <4>1. Ahead(i, Coming') = 0 /\ \A j \in Idx : ~(Ahead(i, j) < 0)
        BY <1>3, <2>2, AheadIs
      <4>2. Past(i)' = {i}
        BY <4>1 DEF Past
      <4> QED
        BY <4>1, <4>2 DEF Ahead
    <3>2. Taken' \ Past(i)' \subseteq Taken /\ Taken \subseteq Idx /\ Leaked' \subseteq Idx
      BY <1>6, <2>2, <3>1, SetTypes DEF Leaked
    <3>3. Cardinality(Taken' \ Past(i)') \in Nat /\ Cardinality(Taken' \ Past(i)') <= Spread
      <4>1. Cardinality(Taken) <= Spread
        BY <1>1, TakenBound
      <4> QED
        BY <1>8, <3>2, <4>1, Counted
    <3>4. Cardinality(Leaked' \cap Past(i)') \in Nat
      BY <3>2, Counted
    <3> QED
      BY <1>2, <1>8, <2>2, <3>1, <3>3, <3>4 DEF Round
  <2> QED
    BY <1>5, <2>1, <2>2
<1>11. FarInv'
  <2> SUFFICES ASSUME NEW u \in Threads, NEW i \in Idx \ unsent, NEW r \in 1 .. MaxReqs,
                      NEW p \in 1 .. MaxReqs, Uses(u, i, r)', Trace(i, p)'
               PROVE  p = r \/ (p < r /\ MaxBuf - Spread - Cardinality(Leaked') <= r - p)
    BY <1>1, <1>8 DEF FarInv
  <2>1. CASE i = x
    <3>1. ~Uses(u, i, r)
      BY <1>1, <2>1, UsedIsHeld DEF ExInv, Marked
    <3>2. r = allocs + 1
      BY <1>4, <3>1
    <3> QED
      BY <1>2, <1>5, <1>7, <1>8, <1>9, <2>1, <3>2
  <2>2. CASE i # x
    <3>1. Uses(u, i, r) /\ Trace(i, p)
      BY <1>4, <1>5, <2>2
    <3>2. p = r \/ (p < r /\ MaxBuf - Spread - Cardinality(Leaked) <= r - p)
      BY <1>1, <3>1 DEF FarInv
    <3> QED
      BY <1>7, <1>8, <3>2
  <2> QED
    BY <2>1, <2>2
<1> QED
  BY <1>10, <1>11

\* What a thread finds in its buffer, who searches, and who has pulled an index.
LEMMA NextGot == TypeInv /\ GotInv /\ [Next]_vars => GotInv'
<1> SUFFICES ASSUME TypeInv, GotInv, [Next]_vars PROVE GotInv'
  OBVIOUS
<1>1. CASE UNCHANGED vars
  BY <1>1 DEF vars, bufVars, mineVars, GotInv
<1>2. CASE Receive
  BY <1>2 DEF Receive, Pull, bufVars, GotInv, TypeInv, PortTypeOK
<1>3. ASSUME NEW t \in Threads, Work(t) PROVE GotInv'
  <2>0. idx[t] \in Idx /\ (pc[t] = "store" => tempbuf \in Frames)
    BY DEF TypeInv, PortTypeOK, Storing
  <2>1. \A i \in Idx : rxbuf[i] >= 1 => rxbuf'[i] >= 1
    <3>1. rxbuf' = rxbuf \/ \E f \in Frames : rxbuf' = [rxbuf EXCEPT ![f.idx] = f.req]
      BY <1>3, <2>0 DEF Work, OutFrame, EnterGetindex, SearchIndex, TakeIndex, SetupDatagram,
         MarkSent, Send, LookReceived, LookElse, RecvNothing, RecvStrange, RecvOwn, RecvOther,
         Store, TimeLeft, TimeOver, CopyOut, Release, Goes, bufVars, TypeInv, PortTypeOK
    <3>2. CASE rxbuf' = rxbuf
      BY <3>2
    <3>3. ASSUME NEW f \in Frames, rxbuf' = [rxbuf EXCEPT ![f.idx] = f.req]
          PROVE  \A i \in Idx : rxbuf[i] >= 1 => rxbuf'[i] >= 1
      <4>1. f.req >= 1
        BY DEF Frames
      <4> QED
        BY <3>3, <4>1 DEF TypeInv, PortTypeOK
    <3> QED
      BY <3>1, <3>2, <3>3
  <2>2. \A i \in Idx : rxbufstat'[i] = EC_BUF_RCVD => rxbufstat[i] = EC_BUF_RCVD \/ rxbuf'[i] >= 1
    <3>1. CASE Store(t)
      <4>1. tempbuf \in Frames
        BY <2>0, <3>1 DEF Store, Goes
      <4> QED
        BY <3>1, <4>1 DEF Store, Frames, TypeInv, PortTypeOK
    <3>2. CASE ~Store(t)
      <4>1. PICK i \in Idx, b \in {EC_BUF_EMPTY, EC_BUF_ALLOC, EC_BUF_TX, EC_BUF_COMPLETE} :
              rxbufstat' \in {rxbufstat, [rxbufstat EXCEPT ![i] = b]}
        BY <1>3, <2>0, <3>2 DEF Work, OutFrame, EnterGetindex, SearchIndex, TakeIndex,
           SetupDatagram, MarkSent, Send, LookReceived, LookElse, RecvNothing, RecvStrange, RecvOwn,
           RecvOther, TimeLeft, TimeOver, CopyOut, Release, bufVars
      <4> QED
        BY <4>1 DEF TypeInv, PortTypeOK, EC_BUF_EMPTY, EC_BUF_ALLOC, EC_BUF_TX, EC_BUF_COMPLETE,
           EC_BUF_RCVD
    <3> QED
      BY <3>1, <3>2
  <2>3. \A u \in Threads : pc'[u] = "got" =>
           idx'[u] = idx[u] /\ (pc[u] = "got" \/ rxbuf'[idx[u]] >= 1)
    <3>1. CASE LookReceived(t)
      BY <3>1 DEF LookReceived, Goes, mineVars, GotInv, TypeInv, PortTypeOK
    <3>2. CASE RecvOwn(t)
      <4>1. PICK f \in Frames : rxbuf' = [rxbuf EXCEPT ![f.idx] = f.req] /\ f.idx = idx[t]
        BY <3>2 DEF RecvOwn, TypeInv, PortTypeOK
      <4>2. rxbuf'[idx[t]] >= 1
        BY <2>0, <4>1 DEF Frames, TypeInv, PortTypeOK
      <4> QED
        BY <3>2, <4>2 DEF RecvOwn, Goes, mineVars, TypeInv, PortTypeOK
    <3>3. CASE ~LookReceived(t) /\ ~RecvOwn(t)
      <4>1. /\ \A u \in Threads : u # t => pc'[u] = pc[u] /\ idx'[u] = idx[u]
            /\ pc'[t] # "got"
        BY <1>3, <3>3 DEF Work, OutFrame, EnterGetindex, SearchIndex, TakeIndex, SetupDatagram,
           MarkSent, Send, AfterSend, LookElse, RecvNothing, RecvStrange, RecvOther, Store, TimeLeft,
           TimeOver, CopyOut, Release, Pull, Goes, mineVars, TypeInv, PortTypeOK
      <4> QED
        BY <4>1
    <3> QED
      BY <3>1, <3>2, <3>3
  <2> QED
    BY <2>1, <2>2, <2>3 DEF GotInv, TypeInv, PortTypeOK
<1> QED
  BY <1>1, <1>2, <1>3 DEF Next

LEMMA NextScan == TypeInv /\ ScanInv /\ [Next]_vars => ScanInv'
<1> SUFFICES ASSUME TypeInv, ScanInv, [Next]_vars PROVE ScanInv'
  OBVIOUS
<1> USE DEF TypeInv, PortTypeOK, ScanInv
<1>1. CASE UNCHANGED vars
  BY <1>1 DEF vars, lockVars
<1>2. CASE Receive
  BY <1>2 DEF Receive, Pull, lockVars
<1>3. ASSUME NEW t \in Threads, Work(t) PROVE ScanInv'
  <2>1. CASE EnterGetindex(t) \/ SearchIndex(t) \/ TakeIndex(t)
    BY <2>1 DEF EnterGetindex, SearchIndex, TakeIndex, Goes, lockVars
  <2>2. CASE ~(EnterGetindex(t) \/ SearchIndex(t) \/ TakeIndex(t))
    <3>1. /\ getindex_mutex' = getindex_mutex /\ pc[t] # "scan"
          /\ \A u \in Threads : u # t => pc'[u] = pc[u]
      BY <1>3, <2>2 DEF Work, OutFrame, SetupDatagram, MarkSent, Send, AfterSend, LookReceived,
         LookElse, RecvNothing, RecvStrange, RecvOwn, RecvOther, Store, TimeLeft, TimeOver, CopyOut,
         Release, Pull, Goes, lockVars
    <3> QED
      BY <3>1
  <2> QED
    BY <2>1, <2>2
<1> QED
  BY <1>1, <1>2, <1>3 DEF Next

LEMMA NextPulled == TypeInv /\ PulledInv /\ [Next]_vars => PulledInv'
<1> SUFFICES ASSUME TypeInv, PulledInv, [Next]_vars PROVE PulledInv'
  OBVIOUS
<1>0. cyclic \in Threads
  BY DEF Threads
<1>1. CASE UNCHANGED vars
  BY <1>1 DEF vars, mineVars, pdVars, PulledInv
<1>2. ASSUME Pull PROVE PulledInv'
  <2>1. CASE pulled < Len(idxstack)
    <3>1. req'[cyclic] = idxstack[pulled + 1][2] /\ pulled' = pulled + 1
      BY <1>0, <2>1, <1>2 DEF Pull, TypeInv, PortTypeOK
    <3>2. pulled \in Nat /\ pulled + 1 \in 1 .. Len(idxstack)
          /\ idxstack \in Seq(Idx \X (1 .. MaxReqs))
      BY <2>1 DEF TypeInv, PortTypeOK
    <3>3. idxstack[pulled + 1] \in Idx \X (1 .. MaxReqs)
      BY <3>2
    <3> QED
      BY <3>1, <3>2, <3>3 DEF PulledInv
  <2>2. CASE ~(pulled < Len(idxstack))
    BY <1>0, <1>2, <2>2 DEF Pull, PulledInv, TypeInv, PortTypeOK
  <2> QED
    BY <2>1, <2>2
<1>3. ASSUME NEW t \in Threads, Work(t) PROVE PulledInv'
  <2>1. CASE Release(t) /\ t = cyclic
    BY <1>2, <2>1 DEF Release
  <2>2. CASE Send(t)
    <3>1. t = cyclic => pc'[cyclic] \in {"sleep", "idle"}
      BY <2>2, PortAssumption DEF Send, AfterSend, TypeInv, PortTypeOK, Threads
    <3>2. t # cyclic => pc'[cyclic] = pc[cyclic]
      BY <1>0, <2>2 DEF Send, AfterSend, TypeInv, PortTypeOK, Threads
    <3> QED
      BY <2>2, <3>1, <3>2 DEF Send, PulledInv
  <2>3. CASE ~Send(t) /\ ~(Release(t) /\ t = cyclic)
    <3>1. /\ pulled' = pulled
          /\ t # cyclic => pc'[cyclic] = pc[cyclic] /\ req'[cyclic] = req[cyclic]
          /\ t = cyclic =>
               \/ pc'[cyclic] \notin {"look", "recv", "store", "timer", "got", "release"}
               \/ /\ pc[cyclic] \in {"look", "recv", "store", "timer", "got"}
                  /\ req'[cyclic] = req[cyclic]
      BY <1>0, <1>3, <2>3 DEF Work, OutFrame, EnterGetindex, SearchIndex, TakeIndex, SetupDatagram,
         MarkSent, LookReceived, LookElse, RecvNothing, RecvStrange, RecvOwn, RecvOther, Store,
         TimeLeft, TimeOver, CopyOut, Release, Goes, mineVars, pdVars, TypeInv, PortTypeOK
    <3> QED
      BY <3>1 DEF PulledInv
  <2> QED
    BY <2>1, <2>2, <2>3
<1> QED
  BY <1>1, <1>2, <1>3 DEF Next, Receive

LEMMA NextOwn == TypeInv /\ TypeInv' /\ ExInv /\ OwnInv /\ [Next]_vars => OwnInv'
<1> SUFFICES ASSUME TypeInv, TypeInv', ExInv, OwnInv, [Next]_vars PROVE OwnInv'
  OBVIOUS
<1>1. GotInv' /\ ScanInv' /\ PulledInv'
  BY NextGot, NextScan, NextPulled DEF OwnInv
<1>2. CircleInv' /\ FarInv'
  <2>1. CASE UNCHANGED vars
    <3>1. UNCHANGED <<Coming, Taken>>
      BY <2>1 DEF vars, bufVars, lockVars, mineVars, pdVars, Coming, Taken, Held, Working, Waiting
    <3>2. \A i, r : UNCHANGED <<Trace(i, r)>>
      BY <2>1 DEF vars, bufVars, lineVars, mineVars, pdVars, Trace, Uses, Working
    <3>3. \A t, i, r : UNCHANGED <<Uses(t, i, r)>>
      BY <2>1 DEF vars, mineVars, pdVars, Uses, Working
    <3>4. Quiet
      BY <2>1, <3>2, <3>3 DEF Quiet, vars, bufVars, histVars
    <3> QED
      BY <3>1, <3>4, QuietOwn DEF OwnInv
  <2>2. CASE Receive
    <3>1. Quiet /\ Coming' = Coming
      BY <2>2, PullQuiet DEF OwnInv, Receive, bufVars, histVars
    <3> QED
      BY <3>1, QuietOwn DEF OwnInv
  <2>3. ASSUME NEW t \in Threads, Work(t) PROVE CircleInv' /\ FarInv'
    <3>1. CASE TakeIndex(t)
      BY <3>1, TakeOwn DEF OwnInv
    <3>2. CASE SearchIndex(t)
      BY <3>2, SearchOwn DEF OwnInv
    <3>3. CASE ~TakeIndex(t) /\ ~SearchIndex(t)
      <4>1. Quiet /\ Coming' = Coming
        BY <2>3, <3>3, EnterQuiet, WaitQuiet, SendQuiet, ReleaseQuiet DEF Work, OutFrame, OwnInv
      <4> QED
        BY <4>1, QuietOwn DEF OwnInv
    <3> QED
      BY <3>1, <3>2, <3>3
  <2> QED
    BY <2>1, <2>2, <2>3 DEF Next
<1> QED
  BY <1>1, <1>2 DEF OwnInv

LEMMA InitOwn == Init => OwnInv
<1> SUFFICES ASSUME Init PROVE OwnInv
  OBVIOUS
<1>1. CircleInv /\ FarInv
  <2> SUFFICES ASSUME NEW i \in Idx, NEW r \in 1 .. MaxReqs PROVE ~Trace(i, r)
    BY DEF CircleInv, FarInv
  <2>1. \A t \in Threads : ~Uses(t, i, r)
    BY DEF Init, Uses, Working
  <2> QED
    BY <2>1 DEF Init, Trace, NoFrame
<1>2. GotInv /\ ScanInv /\ PulledInv
  BY DEF Init, GotInv, ScanInv, PulledInv, Threads, EC_BUF_EMPTY, EC_BUF_RCVD
<1> QED
  BY <1>1, <1>2 DEF OwnInv

\* An answer that is not to one's own request is to one so much older that the search
\* has gone round since, for any number of threads and buffers: comparing nothing but
\* the index, as ecx_inframe does, suffices for frames that are not later than that.
THEOREM AnswerIsOwn == Spec => []OwnAnswer
<1>1. Spec => [](TypeInv /\ ExInv /\ OwnInv)
  BY InitTypes, NextTypes, InitEx, NextEx, InitOwn, NextOwn, PTL DEF Spec
<1>2. TypeInv /\ ExInv /\ OwnInv => OwnAnswer
  <2> SUFFICES ASSUME TypeInv, OwnInv, NEW t \in Threads, pc[t] = "got", ~crowded,
                      idx[t] \notin unsent, rxbuf[idx[t]] # req[t]
               PROVE  /\ rxbuf[idx[t]] < req[t]
                      /\ req[t] - rxbuf[idx[t]] >=
                           MaxBuf - (Cardinality(Callers) + Segments - 1) - Cardinality(Leaked)
    BY DEF OwnAnswer
  <2> DEFINE i == idx[t]
             p == rxbuf[i]
             r == req[t]
  <2>1. i \in Idx \ unsent /\ p \in 1 .. MaxReqs /\ r \in 1 .. MaxReqs
    <3>1. i \in Idx /\ p \in 0 .. MaxReqs /\ r \in 0 .. MaxReqs /\ p >= 1
      BY DEF TypeInv, PortTypeOK, OwnInv, GotInv
    <3>2. r >= 1
      BY DEF TypeInv, Sending, OwnInv, PulledInv, Threads
    <3> QED
      BY <3>1, <3>2
  <2>2. Uses(t, i, r) /\ Trace(i, p)
    BY DEF Uses, Working, Trace
  <2> HIDE DEF i, p, r
  <2>3. p = r \/ (p < r /\ MaxBuf - Spread - Cardinality(Leaked) <= r - p)
    BY <2>1, <2>2 DEF OwnInv, FarInv
  <2>4. Cardinality(Leaked) \in Nat /\ Cardinality(Callers) \in Nat
    <3>1. Leaked \subseteq Idx
      BY DEF Leaked
    <3> QED
      BY <3>1, SpreadType, Counted
  <2> QED
    BY <2>1, <2>3, <2>4, PortAssumption DEF i, p, r, Spread
<1> QED
  BY <1>1, <1>2, PTL
=============================================================================
