------------------------------ MODULE SdoProof ------------------------------
(***************************************************************************)
(* Proofs about SdoRead, for any objects, any number of reads, losses and  *)
(* emergency messages.                                                     *)
(*                                                                         *)
(* While a read is clean, what the slave holds for it is in one place at a *)
(* time: its request in a mailbox or in the slave's hand, or its answer,   *)
(* which stays the slave's last message until it has been received.  The   *)
(* toggle of the repeat bit can only bring that last message back.         *)
(***************************************************************************)
EXTENDS SdoInvariants, SequenceTheorems, TLAPS

USE SdoAssumption

\* Where an answer is waited for.
Receiving == {"poll", "read", "repeat", "ack", "avail"}

\* The first n parts of an object.
Front(o, n) == [k \in 1 .. n |-> <<o, k - 1>>]

\* Whatever happens to the line and to the timers.
Places ==
    /\ pc \in Receiving \cup {"idle", "mail", "nomail", "empty", "write", "unsent", "segment"}
    /\ draining \in BOOLEAN /\ notlast \in BOOLEAN /\ ok \in BOOLEAN /\ clean \in BOOLEAN
    /\ repeatreq \in {0, 1} /\ repeatack \in {0, 1} /\ smrepeat \in {0, 1}
    /\ obj \in Objects
    /\ draining => pc \in Receiving \cup {"mail", "nomail"}
    /\ notlast => ~draining /\ pc # "idle"
    /\ pc = "write" => sm0 = NONE
    /\ sm1 \in {NONE, lastmsg}

\* The repeat bits: a toggle that is on its way is waited for, one that was lost is
\* waited for in vain.
Bits ==
    /\ pc \in {"poll", "avail", "mail"} => repeatreq = repeatack
    /\ pc \in {"read", "repeat"} => repeatreq = repeatack /\ smrepeat = repeatreq
    /\ pc = "ack" => smrepeat = repeatreq \/ repeatreq = repeatack

\* The upload is at part n.
InUpload(n) == upload.kind = "upload" /\ upload.obj = obj /\ upload.part = n

\* The slave's answer to the request of this turn.
Answers(m) ==
    \/ /\ ~notlast /\ m = Msg("init", obj, 0, Parts[obj] = 0)
       /\ Parts[obj] # 0 => InUpload(1)
    \/ /\ notlast /\ m = Msg("segment", obj, Len(value), Len(value) = Parts[obj])
       /\ Len(value) # Parts[obj] => InUpload(Len(value) + 1)
    \/ notlast /\ m.kind = "abort"

\* The request is on its way.
Asked ==
    /\ \/ sm0 = Request /\ work = NONE
       \/ sm0 = NONE /\ work = Request
    /\ sm1 \in {NONE, Emcy}
    /\ pc # "poll" => lastmsg = Emcy
    /\ notlast => InUpload(Len(value))

\* The answer is the slave's last message, unless an emergency has replaced it.
Answered ==
    /\ sm0 = NONE /\ work = NONE
    /\ lastmsg = Emcy \/ Answers(lastmsg)

\* What a clean read is sure of at each of its places.
CleanInv ==
    clean /\ ~draining =>
      /\ pc # "nomail"
      /\ notlast => Len(value) \in 1 .. Parts[obj] /\ value = Front(obj, Len(value))
      /\ Bits
      /\ pc \in Receiving => Asked \/ Answered
      /\ pc = "mail" => sm0 = NONE /\ NothingDue /\ Answers(mbxin)
      /\ notlast /\ pc \in {"segment", "empty", "write", "unsent"}
           => sm0 = NONE /\ NothingDue /\ InUpload(Len(value))
      /\ pc = "idle" /\ ok => value = Whole(obj) /\ sm0 = NONE /\ NothingDue

IInv == Places /\ CleanInv

-----------------------------------------------------------------------------
(* The parts copied so far.                                                *)

\* One more part after the first n are the first n + 1.
LEMMA FrontAppend ==
  ASSUME NEW o, NEW n \in Nat
  PROVE  /\ Len(Front(o, n)) = n
         /\ Append(Front(o, n), <<o, n>>) = Front(o, n + 1)
         /\ Front(o, 1) = <<<<o, 0>>>>
<1> DEFINE V == {<<o, k>> : k \in Int}
<1>1. Front(o, n) \in Seq(V) /\ Len(Front(o, n)) = n
  <2>1. \A k \in 1 .. n : <<o, k - 1>> \in V
    OBVIOUS
  <2> QED
    BY <2>1, IsASeq DEF Front
<1>2. Append(Front(o, n), <<o, n>>) = Front(o, n + 1)
  BY <1>1 DEF Front
<1>3. Front(o, 1) = <<<<o, 0>>>>
  BY DEF Front
<1> QED
  BY <1>1, <1>2, <1>3

LEMMA Initially == Init => IInv
BY DEF Init, IInv, Places, CleanInv, Bits, Receiving, NONE

-----------------------------------------------------------------------------
(* Places, step by step.                                                   *)

LEMMA PlacesKept ==
  ASSUME Places, [Next]_vars
  PROVE  Places'
<1> USE DEF Places, Receiving, MailOnly, Goes, Kept, Lost, callVars, rxVars, boxVars, slaveVars
<1>1. CASE TimerRunsOut
  BY <1>1 DEF TimerRunsOut
<1>2. CASE Poll
  BY <1>2 DEF Poll, Unexpired, Expired
<1>3. CASE Read
  BY <1>3 DEF Read, Unexpired, Expired
<1>4. CASE ReadFails
  BY <1>4 DEF ReadFails
<1>5. CASE Repeat
  BY <1>5 DEF Repeat
<1>6. CASE Ack
  BY <1>6 DEF Ack, Unexpired, Expired
<1>7. CASE Avail
  BY <1>7 DEF Avail, Unexpired, Expired
<1>8. CASE Empty
  BY <1>8 DEF Empty
<1>9. CASE Write
  BY <1>9 DEF Write, NothingDue
<1>10. CASE Begin
  BY <1>10 DEF Begin
<1>11. CASE Drained
  BY <1>11 DEF Drained
<1>12. CASE InitFails
  BY <1>12 DEF InitFails, Quiet, Return
<1>13. CASE InitAnswer
  <2>1. pc = "mail" /\ ~notlast /\ ~draining /\ UNCHANGED <<obj, toggle, reads>> /\ Quiet
    BY <1>13 DEF InitAnswer
  <2>2. \/ pc' = "idle" /\ ok' = TRUE /\ notlast' = notlast
        \/ pc' = "segment" /\ notlast' = TRUE /\ ok' = ok
        \/ pc' = "idle" /\ ok' = FALSE /\ notlast' = notlast
    BY <1>13 DEF InitAnswer, Return
  <2>3. CASE pc' = "idle" /\ ok' = TRUE /\ notlast' = notlast
    BY <2>1, <2>3 DEF Quiet
  <2>4. CASE pc' = "segment" /\ notlast' = TRUE /\ ok' = ok
    BY <2>1, <2>4 DEF Quiet
  <2>5. CASE pc' = "idle" /\ ok' = FALSE /\ notlast' = notlast
    BY <2>1, <2>5 DEF Quiet
  <2> QED
    BY <2>2, <2>3, <2>4, <2>5
<1>14. CASE SendSegment
  BY <1>14 DEF SendSegment, Quiet
<1>15. CASE SegmentFails
  BY <1>15 DEF SegmentFails, Quiet
<1>16. CASE SegmentAnswer
  BY <1>16 DEF SegmentAnswer, Quiet, Return
<1>17. CASE SlaveTake
  BY <1>17 DEF SlaveTake, SlaveOnly
<1>18. CASE SlaveAnswer
  BY <1>18 DEF SlaveAnswer, SlaveOnly
<1>19. CASE SlaveEmergency
  BY <1>19 DEF SlaveEmergency, SlaveOnly
<1>20. CASE SlaveRepeat
  BY <1>20 DEF SlaveRepeat, SlaveOnly
<1>21. CASE UNCHANGED vars
  BY <1>21 DEF vars
<1> QED
  BY <1>1, <1>2, <1>3, <1>4, <1>5, <1>6, <1>7, <1>8, <1>9, <1>10, <1>11, <1>12, <1>13,
     <1>14, <1>15, <1>16, <1>17, <1>18, <1>19, <1>20, <1>21
     DEF Next, Receive, SDOread, Slave

-----------------------------------------------------------------------------
(* What a clean read is sure of, step by step.                             *)

LEMMA CleanKept ==
  ASSUME IInv, [Next]_vars
  PROVE  CleanInv'
<1> USE DEF IInv, Places, CleanInv, Bits, Receiving, Asked, Answered, Answers, InUpload,
            NothingDue, Request, NONE, Emcy, Goes, Kept, Lost, callVars, rxVars, boxVars, slaveVars
<1>1. CASE TimerRunsOut
  BY <1>1 DEF TimerRunsOut, MailOnly
<1>2. CASE Poll
  BY <1>2 DEF Poll, MailOnly, Unexpired, Expired
<1>3. CASE Read
  BY <1>3 DEF Read, MailOnly, Unexpired, Expired
<1>4. CASE ReadFails
  BY <1>4 DEF ReadFails, MailOnly
<1>5. CASE Repeat
  BY <1>5 DEF Repeat, MailOnly
<1>6. CASE Ack
  <2>1. CASE Kept /\ repeatack = smrepeat /\ pc' = "avail" /\ UNCHANGED clean
    BY <1>6, <2>1 DEF Ack, MailOnly
  <2>2. CASE Unexpired /\ pc' = "ack"
    BY <1>6, <2>2 DEF Ack, MailOnly, Unexpired
  <2>3. CASE Expired /\ pc' = "avail"
    BY <1>6, <2>3 DEF Ack, MailOnly, Expired
  <2> QED
    BY <1>6, <2>1, <2>2, <2>3 DEF Ack
<1>7. CASE Avail
  BY <1>7 DEF Avail, MailOnly, Unexpired, Expired
<1>8. CASE Empty
  BY <1>8 DEF Empty, MailOnly
<1>9. CASE Write
  BY <1>9 DEF Write, MailOnly
<1>10. CASE Begin
  BY <1>10 DEF Begin
<1>11. CASE Drained
  BY <1>11 DEF Drained
<1>12. CASE InitFails
  BY <1>12 DEF InitFails, Quiet, Return
<1>13. CASE InitAnswer
  <2> SUFFICES ASSUME clean' /\ ~draining' PROVE CleanInv'
    BY DEF CleanInv
  <2>1. /\ pc = "mail" /\ ~notlast /\ ~draining /\ clean
        /\ sm0 = NONE /\ NothingDue /\ mbxin = Msg("init", obj, 0, Parts[obj] = 0)
        /\ Parts[obj] # 0 => InUpload(1)
    BY <1>13 DEF InitAnswer, Quiet
  <2>2. mbxin.obj = obj /\ mbxin.kind = "init" /\ mbxin.last = (Parts[obj] = 0)
    BY <2>1 DEF Msg
  <2>3. UNCHANGED <<obj, toggle, draining, clean, sm0, sm1, repeatreq, repeatack, work, lastmsg, upload>>
    BY <1>13 DEF InitAnswer, Quiet
  <2>4. CASE pc' = "idle" /\ ok' = FALSE /\ UNCHANGED <<value, notlast>>
    BY <2>1, <2>3, <2>4
  <2>5. CASE ~(pc' = "idle" /\ ok' = FALSE /\ UNCHANGED <<value, notlast>>)
    <3>1. /\ value' = <<<<obj, 0>>>>
          /\ \/ Parts[obj] = 0 /\ pc' = "idle" /\ notlast' = notlast
             \/ Parts[obj] # 0 /\ pc' = "segment" /\ notlast' = TRUE
      BY <1>13, <2>1, <2>2, <2>5 DEF InitAnswer, Return
    <3>2. value' = Front(obj, 1) /\ Len(value') = 1
      BY <3>1, FrontAppend
    <3>3. Parts[obj] = 0 => Front(obj, 1) = Whole(obj)
      BY DEF Front, Whole
    <3>4. Parts[obj] \in Nat
      OBVIOUS
    <3>5. CASE Parts[obj] = 0
      BY <2>1, <2>3, <3>1, <3>2, <3>3, <3>5
    <3>6. CASE Parts[obj] # 0
      BY <2>1, <2>3, <3>1, <3>2, <3>4, <3>6
    <3> QED
      BY <3>5, <3>6
  <2> QED
    BY <2>4, <2>5
<1>14. CASE SendSegment
  BY <1>14 DEF SendSegment, Quiet
<1>15. CASE SegmentFails
  BY <1>15 DEF SegmentFails, Quiet
<1>16. CASE SegmentAnswer
  <2> SUFFICES ASSUME clean' /\ ~draining' PROVE CleanInv'
    BY DEF CleanInv
  <2>1. /\ pc = "mail" /\ notlast /\ ~draining /\ clean
        /\ sm0 = NONE /\ NothingDue /\ Answers(mbxin)
        /\ Len(value) \in 1 .. Parts[obj] /\ value = Front(obj, Len(value))
    BY <1>16 DEF SegmentAnswer, Quiet
  <2>2. UNCHANGED <<obj, draining, clean, sm0, sm1, repeatreq, repeatack, work, lastmsg, upload>>
    BY <1>16 DEF SegmentAnswer, Quiet
  <2>3. CASE mbxin.kind = "abort"
    BY <1>16, <2>1, <2>2, <2>3 DEF SegmentAnswer, Return
  <2>4. CASE mbxin.kind # "abort"
    <3> DEFINE n == Len(value)
    <3>1. /\ mbxin = Msg("segment", obj, n, n = Parts[obj])
          /\ n # Parts[obj] => InUpload(n + 1)
      BY <2>1, <2>4
    <3>2. mbxin.obj = obj /\ mbxin.kind = "segment" /\ mbxin.part = n /\ mbxin.last = (n = Parts[obj])
      BY <3>1 DEF Msg
    <3>3. /\ value' = Append(value, <<obj, n>>)
          /\ \/ n = Parts[obj] /\ pc' = "idle" /\ notlast' = FALSE
             \/ n # Parts[obj] /\ pc' = "segment" /\ notlast' = TRUE
      BY <1>16, <2>1, <3>2 DEF SegmentAnswer, Return
    <3>4. n \in Nat /\ n <= Parts[obj] /\ Parts[obj] \in Nat
      BY <2>1
    <3>5. value' = Front(obj, n + 1) /\ Len(value') = n + 1
      <4>1. value = Front(obj, n)
        BY <2>1
      <4> HIDE DEF n
      <4> QED
        <5>1. value' = Append(Front(obj, n), <<obj, n>>)
          BY <4>1, <3>3
        <5>2. Append(Front(obj, n), <<obj, n>>) = Front(obj, n + 1)
          BY <3>4, FrontAppend
        <5>3. Len(Front(obj, n + 1)) = n + 1
          BY <3>4, FrontAppend
        <5> QED
          BY <5>1, <5>2, <5>3
    <3>6. n = Parts[obj] => Front(obj, n + 1) = Whole(obj)
      BY DEF Front, Whole
    <3> HIDE DEF n
    <3>7. CASE n = Parts[obj]
      BY <2>1, <2>2, <3>3, <3>5, <3>6, <3>7
    <3>8. CASE n # Parts[obj]
      BY <2>1, <2>2, <3>1, <3>3, <3>4, <3>5, <3>8
    <3> QED
      BY <3>7, <3>8
  <2> QED
    BY <2>3, <2>4
<1>17. CASE SlaveTake
  BY <1>17 DEF SlaveTake, SlaveOnly
<1>18. CASE SlaveAnswer
  BY <1>18 DEF SlaveAnswer, SlaveOnly, Answer, UploadAfter, Msg
<1>19. CASE SlaveEmergency
  BY <1>19 DEF SlaveEmergency, SlaveOnly
<1>20. CASE SlaveRepeat
  BY <1>20 DEF SlaveRepeat, SlaveOnly
<1>21. CASE UNCHANGED vars
  BY <1>21 DEF vars
<1> QED
  BY <1>1, <1>2, <1>3, <1>4, <1>5, <1>6, <1>7, <1>8, <1>9, <1>10, <1>11, <1>12, <1>13,
     <1>14, <1>15, <1>16, <1>17, <1>18, <1>19, <1>20, <1>21
     DEF Next, Receive, SDOread, Slave

-----------------------------------------------------------------------------
LEMMA Inductive == Spec => []IInv
<1>1. Init => IInv
  BY Initially
<1>2. IInv /\ [Next]_vars => IInv'
  BY PlacesKept, CleanKept DEF IInv
<1> QED
  BY <1>1, <1>2, PTL DEF Spec

\* ecx_SDOread returns the object that was asked for, whole and in order, whatever
\* answers were lost and repeated: for any objects and any number of losses.
THEOREM ReadIsExact == Spec => []ReadExact
<1>1. IInv => ReadExact
  BY DEF IInv, Places, Receiving, CleanInv, ReadExact
<1> QED
  BY <1>1, Inductive, PTL

\* ... and leaves no request and no answer of its own behind.
THEOREM NothingLeft == Spec => []LeavesNothing
<1>1. IInv => LeavesNothing
  BY DEF IInv, Places, Receiving, CleanInv, LeavesNothing
<1> QED
  BY <1>1, Inductive, PTL
=============================================================================
