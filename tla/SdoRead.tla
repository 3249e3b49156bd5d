------------------------------ MODULE SdoRead -------------------------------
(***************************************************************************)
(* Reading the objects of a slave at start-up: ecx_SDOread of              *)
(* ethercatcoe.c over the mailbox functions of ethercatmain.c, against a   *)
(* slave that answers when it likes and a line that loses frames.          *)
(*                                                                         *)
(* A step of the master is one primitive (one exchange on the bus) with    *)
(* the decisions that follow it; a timer may have run out whenever it is   *)
(* asked.  Reading or writing a mailbox may fail before or after it has    *)
(* had its effect.  An object is an index and a subindex, its value is the *)
(* sequence of the parts it is sent in: part 0 in the answer to the        *)
(* request, the others one per segment.                                    *)
(*                                                                         *)
(* The slave follows the mailbox protocol: it ignores a request with the   *)
(* mailbox counter of the one before (so what ecx_srconfirm sends twice    *)
(* arrives once), and on a repeat request, which it serves before it       *)
(* answers a further request, it puts its last message back.  The master   *)
(* counts its requests in mbx_cnt and never looks at the counter of an     *)
(* answer: the counter is left out.                                        *)
(***************************************************************************)
EXTENDS Integers, Sequences

CONSTANTS
    Objects,        \* pairs <<index, subindex>>
    Parts,          \* how many segments follow the answer for an object
    MaxReads,       \* bound on the reads
    MaxLosses,      \* bound on failed exchanges
    MaxEmergencies  \* bound on the emergency messages of the slave

ASSUME SdoAssumption ==
    /\ Parts \in [Objects -> Nat]
    /\ MaxReads \in Nat /\ MaxLosses \in Nat /\ MaxEmergencies \in Nat

VARIABLES
    pc,
    draining,       \* in the mbxreceive with timeout 0 that a read begins with
    over,           \* the timer of the mbxreceive has run out
    obj, toggle, notlast,
    smrepeat,       \* the repeat bit in the local SMstat
    mbxin,          \* the message received
    value,          \* the parts copied to the caller's buffer
    ok,             \* wkc > 0 on return
    sm0, sm1,       \* the mailboxes of the slave
    repeatreq, repeatack,
    work, lastmsg,  \* the slave: request in hand, last message
    upload,         \* ... and the segmented upload it is in
    reads, losses, emergencies,
    clean           \* history: see Write and Expired

callVars   == <<obj, toggle, notlast, value, ok, reads>>
rxVars     == <<draining, over, smrepeat, mbxin>>
boxVars    == <<sm0, sm1, repeatreq>>
slaveVars  == <<repeatack, work, lastmsg, upload, emergencies>>
vars       == <<pc, callVars, rxVars, boxVars, slaveVars, losses, clean>>

NONE  == [kind |-> "none"]
Msg(kind, o, part, last) == [kind |-> kind, obj |-> o, part |-> part, last |-> last]
Emcy  == [kind |-> "emergency"]

Init ==
    /\ pc = "idle" /\ draining = FALSE /\ over = FALSE
    /\ obj \in Objects /\ toggle = 0 /\ notlast = FALSE
    /\ smrepeat = 0 /\ mbxin = NONE /\ value = <<>> /\ ok = FALSE
    /\ sm0 = NONE /\ sm1 = NONE /\ repeatreq = 0 /\ repeatack = 0
    /\ work = NONE /\ lastmsg = NONE /\ upload = NONE
    /\ reads = 0 /\ losses = 0 /\ emergencies = 0
    /\ clean = TRUE

Goes(from, to) == pc = from /\ pc' = to
Lost == losses < MaxLosses /\ losses' = losses + 1
Kept == UNCHANGED losses
MailOnly == UNCHANGED <<callVars, slaveVars>>

-----------------------------------------------------------------------------
(* ecx_mbxreceive                                                          *)

\* The timer runs out at any time; timeout 0 is over at once.
TimerRunsOut ==
    /\ pc \in {"poll", "read", "repeat", "ack", "avail"} /\ ~over /\ over' = TRUE
    /\ UNCHANGED <<pc, draining, smrepeat, mbxin, boxVars, losses, clean>> /\ MailOnly

\* The timer is asked.
Expired   == over /\ clean' = (clean /\ draining)
Unexpired == ~over /\ UNCHANGED clean

\* Is there something in the mailbox?  Local SMstat becomes the register, or 0.
Poll ==
    /\ pc = "poll"
    /\ UNCHANGED <<draining, over, mbxin, boxVars>> /\ MailOnly
    /\ \/ /\ Kept /\ smrepeat' = repeatreq /\ sm1 # NONE
          /\ pc' = "read" /\ UNCHANGED clean
       \/ /\ \/ Kept /\ smrepeat' = repeatreq /\ sm1 = NONE
             \/ Lost /\ smrepeat' = 0
          /\ \/ Unexpired /\ pc' = "poll"
             \/ Expired /\ pc' = "nomail"

\* The mailbox is read.  An emergency, or a mailbox error in its place, is reported
\* and passed over: wkc is 0 and the loop goes on.
Read ==
    /\ pc = "read" /\ sm1 # NONE /\ Kept
    /\ mbxin' = sm1 /\ sm1' = NONE
    /\ IF sm1 # Emcy THEN pc' = "mail" /\ UNCHANGED clean
       ELSE \/ Unexpired /\ pc' = "read"
            \/ Expired /\ pc' = "nomail"
    /\ UNCHANGED <<draining, over, smrepeat, sm0, repeatreq>> /\ MailOnly

\* Mutant: a mailbox that could not be read is not asked for again.
ReadFailsForGood ==
    /\ Goes("read", "nomail")
    /\ \/ Kept /\ sm1 = NONE /\ UNCHANGED sm1
       \/ Lost /\ sm1' \in {sm1, NONE}
    /\ UNCHANGED <<rxVars, sm0, repeatreq, clean>> /\ MailOnly

\* It was empty, or it was read and the answer was lost.
ReadFails ==
    /\ Goes("read", "repeat")
    /\ \/ Kept /\ sm1 = NONE /\ UNCHANGED sm1
       \/ Lost /\ sm1' \in {sm1, NONE}
    /\ UNCHANGED <<rxVars, sm0, repeatreq, clean>> /\ MailOnly

\* The repeat request is toggled.  Nobody writes it again if the write is lost.
Repeat ==
    /\ Goes("repeat", "ack")
    /\ smrepeat' = 1 - smrepeat
    /\ \/ Kept /\ repeatreq' = smrepeat'
       \/ Lost /\ repeatreq' \in {repeatreq, smrepeat'}
    /\ UNCHANGED <<draining, over, mbxin, sm0, sm1, clean>> /\ MailOnly

\* Mutant: the acknowledge bit is not waited for.
AckNotAwaited ==
    /\ Goes("ack", "avail") /\ Kept
    /\ UNCHANGED <<rxVars, boxVars, clean>> /\ MailOnly

\* Wait for the acknowledge bit ...
Ack ==
    /\ pc = "ack"
    /\ UNCHANGED <<draining, over, smrepeat, mbxin, boxVars>> /\ MailOnly
    /\ \/ Kept /\ repeatack = smrepeat /\ pc' = "avail" /\ UNCHANGED clean
       \/ /\ (Kept /\ repeatack # smrepeat) \/ Lost
          /\ \/ Unexpired /\ pc' = "ack"
             \/ Expired /\ pc' = "avail"

\* ... and for the mailbox, and read it unless time is over.
Avail ==
    /\ pc = "avail"
    /\ UNCHANGED <<draining, over, mbxin, boxVars>> /\ MailOnly
    /\ \/ /\ Kept /\ smrepeat' = repeatreq /\ sm1 # NONE
          /\ \/ Unexpired /\ pc' = "read"
             \/ Expired /\ pc' = "nomail"
       \/ /\ \/ Kept /\ smrepeat' = repeatreq /\ sm1 = NONE
             \/ Lost /\ UNCHANGED smrepeat
          /\ \/ Unexpired /\ pc' = "avail"
             \/ Expired /\ pc' = "nomail"

-----------------------------------------------------------------------------
(* ecx_mbxsend                                                             *)

Request == [kind |-> IF notlast THEN "segment" ELSE "init",
            obj |-> obj, toggle |-> toggle]

\* ecx_mbxempty: the request mailbox is empty, or not in time.
Empty ==
    /\ pc = "empty"
    /\ \/ Kept /\ sm0 = NONE /\ pc' = "write"
       \/ /\ (Kept /\ sm0 # NONE) \/ Lost
          /\ pc' \in {"empty", "unsent"}
    /\ UNCHANGED <<rxVars, boxVars, clean>> /\ MailOnly

\* Nothing older is due: the slave has nothing in hand or to be put back.
NothingDue == work = NONE /\ sm1 \in {NONE, Emcy} /\ repeatreq = repeatack

\* The request is written.  A failed write may have arrived.
Write ==
    /\ \/ Goes("write", "poll") /\ Kept /\ sm0' = Request
       \/ Goes("write", "unsent") /\ Lost /\ sm0' \in {sm0, Request}
    /\ over' = FALSE
    /\ clean' = /\ pc' = "poll" \/ sm0' = sm0
                /\ IF notlast THEN clean ELSE NothingDue
    /\ UNCHANGED <<draining, smrepeat, mbxin, sm1, repeatreq>> /\ MailOnly

-----------------------------------------------------------------------------
(* ecx_SDOread                                                             *)

\* The caller asks for an object; what is in the answer mailbox is thrown away.
Begin ==
    /\ Goes("idle", "poll") /\ reads < MaxReads /\ reads' = reads + 1
    /\ obj' \in Objects
    /\ draining' = TRUE /\ over' = TRUE /\ toggle' = 0 /\ notlast' = FALSE
    /\ value' = <<>> /\ ok' = FALSE
    /\ UNCHANGED <<smrepeat, mbxin, boxVars, slaveVars, losses, clean>>

Drained ==
    /\ draining /\ pc \in {"mail", "nomail"} /\ pc' = "empty"
    /\ draining' = FALSE
    /\ UNCHANGED <<over, callVars, smrepeat, mbxin, boxVars, slaveVars, losses, clean>>

Quiet == UNCHANGED <<rxVars, boxVars, slaveVars, losses, clean>>

Return(result) ==
    /\ pc' = "idle" /\ ok' = result

\* Before there is an answer, every failure ends the read.
InitFails ==
    /\ ~notlast /\ ~draining /\ pc \in {"unsent", "nomail"} /\ Return(FALSE)
    /\ UNCHANGED <<obj, toggle, notlast, value, reads>> /\ Quiet

\* The answer must be one to an SDO request, and for this index.  What it announces
\* may be too long for the buffer of the caller, who then gets nothing of it: the
\* slave is left in the upload it has begun.
InitAnswer ==
    /\ pc = "mail" /\ ~notlast /\ ~draining
    /\ LET fits == mbxin.kind = "init" /\ mbxin.obj[1] = obj[1] IN
       \/ /\ fits /\ mbxin.last /\ Return(TRUE)
          /\ value' = <<<<mbxin.obj, 0>>>> /\ UNCHANGED notlast
       \/ /\ fits /\ ~mbxin.last /\ pc' = "segment"
          /\ value' = <<<<mbxin.obj, 0>>>> /\ notlast' = TRUE /\ UNCHANGED ok
       \/ Return(FALSE) /\ UNCHANGED <<value, notlast>>
    /\ UNCHANGED <<obj, toggle, reads>> /\ Quiet

SendSegment ==
    /\ Goes("segment", "empty")
    /\ UNCHANGED callVars /\ Quiet

\* A segment request or its answer that fails does not end the loop; the toggle
\* bit is turned in any case.
SegmentFails ==
    /\ notlast /\ pc \in {"unsent", "nomail"} /\ pc' = "segment"
    /\ toggle' = 1 - toggle
    /\ UNCHANGED <<obj, notlast, value, ok, reads>> /\ Quiet

\* Mutant: an answer that is not a segment does not end the loop.
SegmentAnswerGoesOn ==
    /\ pc = "mail" /\ notlast
    /\ toggle' = 1 - toggle
    /\ \/ /\ mbxin.kind = "segment"
          /\ value' = Append(value, <<mbxin.obj, mbxin.part>>)
          /\ notlast' = ~mbxin.last
          /\ IF mbxin.last THEN Return(TRUE) ELSE pc' = "segment" /\ UNCHANGED ok
       \/ /\ mbxin.kind # "segment" /\ pc' = "segment"
          /\ UNCHANGED <<notlast, value, ok>>
    /\ UNCHANGED <<obj, reads>> /\ Quiet

SegmentAnswer ==
    /\ pc = "mail" /\ notlast
    /\ toggle' = 1 - toggle
    /\ \/ /\ mbxin.kind = "segment"
          /\ value' = Append(value, <<mbxin.obj, mbxin.part>>)
          /\ notlast' = ~mbxin.last
          /\ IF mbxin.last THEN Return(TRUE) ELSE pc' = "segment" /\ UNCHANGED ok
       \/ /\ mbxin.kind # "segment" /\ Return(FALSE)
          /\ notlast' = FALSE /\ UNCHANGED value
    /\ UNCHANGED <<obj, reads>> /\ Quiet

-----------------------------------------------------------------------------
(* The slave                                                               *)

SlaveOnly == UNCHANGED <<pc, callVars, rxVars, repeatreq, losses, clean>>

\* It takes the request out of the mailbox.
SlaveTake ==
    /\ sm0 # NONE /\ work = NONE
    /\ sm0' = NONE /\ work' = sm0
    /\ UNCHANGED <<sm1, repeatack, lastmsg, upload, emergencies>> /\ SlaveOnly

\* What it answers: an upload begins, goes on by one segment when the toggle bit
\* is the one expected, or is aborted.
Answer(r) ==
    IF r.kind = "init"
    THEN Msg("init", r.obj, 0, Parts[r.obj] = 0)
    ELSE IF upload # NONE /\ upload.toggle = r.toggle
    THEN Msg("segment", upload.obj, upload.part, upload.part = Parts[upload.obj])
    ELSE Msg("abort", r.obj, 0, TRUE)

UploadAfter(a) ==
    IF a.last THEN NONE
    ELSE [obj |-> a.obj, part |-> a.part + 1, kind |-> "upload",
          toggle |-> IF a.kind = "init" THEN 0 ELSE 1 - upload.toggle]

SlaveAnswer ==
    /\ work # NONE /\ sm1 = NONE /\ repeatreq = repeatack
    /\ LET a == Answer(work) IN
       /\ sm1' = a /\ lastmsg' = a /\ upload' = UploadAfter(a)
    /\ work' = NONE
    /\ UNCHANGED <<sm0, repeatack, emergencies>> /\ SlaveOnly

SlaveEmergency ==
    /\ emergencies < MaxEmergencies /\ emergencies' = emergencies + 1
    /\ sm1 = NONE /\ sm1' = Emcy /\ lastmsg' = Emcy
    /\ UNCHANGED <<sm0, repeatack, work, upload>> /\ SlaveOnly

SlaveRepeat ==
    /\ repeatreq # repeatack /\ repeatack' = repeatreq
    /\ sm1' = IF sm1 = NONE THEN lastmsg ELSE sm1
    /\ UNCHANGED <<sm0, work, lastmsg, upload, emergencies>> /\ SlaveOnly

Slave == SlaveTake \/ SlaveAnswer \/ SlaveEmergency \/ SlaveRepeat

-----------------------------------------------------------------------------
Receive == TimerRunsOut \/ Poll \/ Read \/ ReadFails \/ Repeat \/ Ack \/ Avail
SDOread == Begin \/ Drained \/ InitFails \/ InitAnswer
             \/ SendSegment \/ SegmentFails \/ SegmentAnswer

Next == Receive \/ Empty \/ Write \/ SDOread \/ Slave

Spec == Init /\ [][Next]_vars

\* The master goes on, its timers run out, and the slave does what it has to do.
FairSpec ==
    /\ Spec
    /\ WF_vars(Poll \/ Read \/ ReadFails \/ Repeat \/ Ack \/ Avail)
    /\ WF_vars(Empty \/ Write \/ (SDOread /\ pc # "idle"))
    /\ WF_vars(TimerRunsOut)
    /\ WF_vars(SlaveTake) /\ WF_vars(SlaveAnswer) /\ WF_vars(SlaveRepeat)
=============================================================================
