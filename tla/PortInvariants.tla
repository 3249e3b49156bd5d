--------------------------- MODULE PortInvariants ---------------------------
(***************************************************************************)
(* The properties of EcPort.                                               *)
(***************************************************************************)
EXTENDS EcPort

Places == {"idle", "scan", "setup", "out", "send", "sleep", "look", "recv",
           "store", "timer", "got", "release"}

\* Types; in particular no index runs past the buffers (getindex wraps it
\* after every step of the search).
PortTypeOK ==
    /\ pc \in [Threads -> Places]
    /\ idx \in [Threads -> Idx] /\ req \in [Threads -> 0 .. MaxReqs]
    /\ cnt \in [Threads -> 0 .. MaxBuf] /\ try \in [Threads -> 0 .. MaxTries]
    /\ rxbufstat \in [Idx -> {EC_BUF_EMPTY, EC_BUF_ALLOC, EC_BUF_TX, EC_BUF_RCVD,
                              EC_BUF_COMPLETE}]
    /\ rxbuf \in [Idx -> 0 .. MaxReqs] /\ txbuf \in [Idx -> 0 .. MaxReqs]
    /\ lastidx \in Idx
    /\ getindex_mutex \in Threads \cup {nobody} /\ rx_mutex \in Threads \cup {nobody}
    /\ tempbuf \in Frames \cup {NoFrame} /\ flight \subseteq Frames
    /\ idxstack \in Seq(Idx \X (1 .. MaxReqs)) /\ Len(idxstack) <= Segments
    /\ pulled \in 0 .. Len(idxstack)
    /\ allocs \in 0 .. MaxReqs /\ crowded \in BOOLEAN /\ unsent \subseteq Idx

\* The indexes in a thread's hands: from getindex to setbufstat.
Working(t) == IF pc[t] \in {"idle", "scan", "sleep"} THEN {} ELSE {idx[t]}
Waiting    == {idxstack[k][1] : k \in pulled + 1 .. Len(idxstack)}
Held(t)    == Working(t) \cup (IF t = cyclic THEN Waiting ELSE {})

\* "Get fresh index": two threads never use one index, nor does one thread use
\* it twice, unless every buffer was used when it was taken or a send on it
\* failed, which empties the buffer under the thread that still waits.
Exclusive ==
    /\ \A t, u \in Threads : t # u /\ ~crowded => Held(t) \cap Held(u) \subseteq unsent
    /\ ~crowded => Working(cyclic) \cap Waiting \subseteq unsent

\* Buffers that are not empty although nobody uses them.
Leaked == {i \in Idx : rxbufstat[i] # EC_BUF_EMPTY} \ UNION {Held(t) : t \in Threads}

\* ecx_inframe compares nothing but the index, so the answer to an earlier
\* request may be taken for the answer to this one; the search from lastidx
\* lets that happen only to a frame that has been on its way while all the
\* other buffers were handed out.
OwnAnswer ==
    \A t \in Threads :
      pc[t] = "got" /\ ~crowded /\ idx[t] \notin unsent /\ rxbuf[idx[t]] # req[t]
      => /\ rxbuf[idx[t]] < req[t]
         /\ req[t] - rxbuf[idx[t]] >=
              MaxBuf - (Cardinality(Callers) + Segments - 1) - Cardinality(Leaked)

\* An answer read by another thread reaches the one that waits for it: a frame
\* thrown away was not the only answer of somebody who has sent and waits.
WaitsFor(t, f) ==
    /\ idx[t] = f.idx /\ req[t] = f.req /\ pc[t] \in {"send", "look", "recv", "timer"}
    /\ rxbufstat[f.idx] \notin {EC_BUF_RCVD, EC_BUF_COMPLETE}
AnswerKept ==
    [][\A f \in flight \ flight' :
         \/ f = tempbuf' \/ rxbuf' # rxbuf \/ f.idx \in unsent \/ crowded
         \/ rxbuf[f.idx] = f.req
         \/ \A t \in Threads : ~WaitsFor(t, f)]_vars
=============================================================================
