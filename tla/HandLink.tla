------------------------------ MODULE HandLink ------------------------------
(***************************************************************************)
(* The way of a hand command and of a hand state through shared memory:    *)
(* the hand handlers and the publisher of the bridge at one end, the body  *)
(* of the cyclic loop of ecatthread at the other, the hand behind it.      *)
(* Every access to a word of the segment is a step of its own.             *)
(*                                                                         *)
(* A target message is the number it was sent under, carried by each of    *)
(* its words; the hand arrives where it is told at once.  The states of    *)
(* the slaves are in EthercatMaster: here the hand is operational and a    *)
(* frame passes or is lost.                                                *)
(***************************************************************************)
EXTENDS ShmSegment, FiniteSets

CONSTANTS
    NJ,             \* Hand_DOF
    ServoMsgs,      \* the Int32 messages on /hand/target_servo_on that may arrive
    ModeMsgs,       \* ... and on /hand/target_mode
    MaxSent         \* bound on the messages handled

ASSUME HandAssumption ==
    /\ NJ \in Nat \ {0}
    /\ ServoMsgs \subseteq Int /\ ModeMsgs \subseteq Int
    /\ MaxSent \in Nat

Joints == 1 .. NJ
Byte   == 0 .. 255
Targets == [Joints -> 0 .. MaxSent]
AllZero == [j \in Joints |-> 0]

VARIABLES
    words,          \* of each segment: servo_on, hand_mode, j_tar, j_pos
    bpc, bj, bmsg, bread,   \* the bridge: handler, joint, message, joint_position_msg_
    epc, ej, tx, rx,                    \* ecatthread: place, joint, kistar_tx, kistar_rx
    flight,         \* the answer to the frame that was sent, or no frame
    hand, hpos,     \* what the hand was told last, where it is
    sent

bridgeVars == <<bpc, bj, bmsg, bread>>
ecatVars   == <<epc, ej, tx, rx>>
handVars   == <<flight, hand, hpos>>
linkVars   == <<words, bridgeVars, ecatVars, handVars, sent>>
vars       == <<segVars, linkVars>>

\* "armed" is a history: the target in the segment when the servo was switched on.
ZeroWords == [servo |-> 0, mode |-> 0, tar |-> AllZero, pos |-> AllZero, armed |-> AllZero]
ZeroTx    == [status1 |-> 0, status2 |-> 0, tar |-> AllZero, armed |-> AllZero]
NoFrame   == [j \in Joints |-> -1]

LinkInit ==
    /\ words = [i \in Segs |-> ZeroWords]
    /\ bpc = "idle" /\ bj = 1 /\ bmsg = 0
    /\ bread = AllZero
    /\ epc = "recv" /\ ej = 1 /\ tx = ZeroTx /\ rx = AllZero
    /\ flight = NoFrame /\ hand = ZeroTx /\ hpos = AllZero
    /\ sent = 0

Init == SegInit /\ LinkInit

-----------------------------------------------------------------------------
(* The bridge.  One executor thread runs its handlers and its timer.       *)

B == at[bridge]
BridgeAt(place) == pc[bridge] = "on" /\ bpc = place
BridgeOnly == UNCHANGED <<segVars, ecatVars, handVars>>

\* static_cast<uint8_t>
Truncated(n) == n % 256

Handled == sent < MaxSent /\ sent' = sent + 1

\* on_hand_servo_on
OnServo ==
    /\ BridgeAt("idle") /\ Handled
    /\ \E m \in ServoMsgs :
         LET on == Truncated(m) = 1 /\ words[B].servo # 1
         IN  words' = [words EXCEPT ![B].servo = Truncated(m),
                                    ![B].armed = IF on THEN words[B].tar ELSE @]
    /\ UNCHANGED bridgeVars /\ BridgeOnly

\* on_hand_mode
OnMode ==
    /\ BridgeAt("idle") /\ Handled
    /\ \E m \in ModeMsgs : words' = [words EXCEPT ![B].mode = Truncated(m)]
    /\ UNCHANGED bridgeVars /\ BridgeOnly

\* on_hand_target: a message of the wrong size is dropped, the others are written
\* word by word.
OnTarget ==
    /\ BridgeAt("idle") /\ Handled
    /\ \/ bpc' = "tar" /\ bj' = 1 /\ bmsg' = sent'
       \/ UNCHANGED <<bpc, bj, bmsg>>
    /\ UNCHANGED <<words, bread>> /\ BridgeOnly

TargetWord ==
    /\ BridgeAt("tar")
    /\ words' = [words EXCEPT ![B].tar[bj] = bmsg]
    /\ IF bj = NJ THEN bpc' = "idle" /\ bj' = 1 ELSE bj' = bj + 1 /\ UNCHANGED bpc
    /\ UNCHANGED <<bmsg, bread, sent>> /\ BridgeOnly

\* publish_from_shared_memory, which publishes what it has read at its end.
OnTimer ==
    /\ BridgeAt("idle")
    /\ bpc' = "read" /\ bj' = 1
    /\ UNCHANGED <<words, bmsg, bread, sent>> /\ BridgeOnly

ReadWord ==
    /\ BridgeAt("read")
    /\ bread' = [bread EXCEPT ![bj] = words[B].pos[bj]]
    /\ IF bj = NJ THEN bpc' = "idle" /\ bj' = 1 ELSE bj' = bj + 1 /\ UNCHANGED bpc
    /\ UNCHANGED <<words, bmsg, sent>> /\ BridgeOnly

Handlers == OnServo \/ OnMode \/ OnTarget \/ TargetWord \/ OnTimer \/ ReadWord

-----------------------------------------------------------------------------
(* One cycle of ecatthread, dorun being set.                               *)

E == at[ecat]
EcatAt(place) == pc[ecat] = "on" /\ epc = place
EcatGoes(from, to) == EcatAt(from) /\ epc' = to
EcatOnly == UNCHANGED <<segVars, bridgeVars, hand, hpos, sent>>

\* ec_receive_processdata: without an answer the inputs stay what they were.
Receive(answered) ==
    /\ EcatGoes("recv", "servo")
    /\ rx' = (IF answered /\ flight # NoFrame THEN flight ELSE rx)
    /\ flight' = NoFrame
    /\ UNCHANGED <<words, ej, tx>> /\ EcatOnly

ReadServo ==
    /\ EcatGoes("servo", "mode")
    /\ tx' = [tx EXCEPT !.status1 = IF words[E].servo = 1 THEN 65535 ELSE 0,
                        !.armed = words[E].armed]
    /\ UNCHANGED <<words, ej, rx, flight>> /\ EcatOnly

ReadMode ==
    /\ EcatGoes("mode", "tar")
    /\ tx' = [tx EXCEPT !.status2 = words[E].mode]
    /\ UNCHANGED <<words, ej, rx, flight>> /\ EcatOnly

\* Mutant: the loop leaves out the last joint.
NextJointShort(place, next) ==
    IF ej >= NJ - 1 THEN ej' = 1 /\ epc' = next ELSE ej' = ej + 1 /\ epc' = place

NextJoint(place, next) ==
    IF ej = NJ THEN ej' = 1 /\ epc' = next ELSE ej' = ej + 1 /\ epc' = place

\* Mutant: the servo is looked at again with every joint.
ReadTargetServo ==
    /\ EcatAt("tar")
    /\ tx' = [tx EXCEPT !.tar[ej] = words[E].tar[ej],
                        !.status1 = IF words[E].servo = 1 THEN 65535 ELSE 0,
                        !.armed = words[E].armed]
    /\ NextJoint("tar", "pos")
    /\ UNCHANGED <<words, rx, flight>> /\ EcatOnly

ReadTarget ==
    /\ EcatAt("tar")
    /\ tx' = [tx EXCEPT !.tar[ej] = words[E].tar[ej]]
    /\ NextJoint("tar", "pos")
    /\ UNCHANGED <<words, rx, flight>> /\ EcatOnly

WritePosition ==
    /\ EcatAt("pos")
    /\ words' = [words EXCEPT ![E].pos[ej] = rx[ej]]
    /\ NextJoint("pos", "send")
    /\ UNCHANGED <<tx, rx, flight>> /\ EcatOnly

\* ec_send_processdata: the frame passes the hand, or is lost before it.
Send(passes) ==
    /\ EcatGoes("send", "recv")
    /\ IF passes THEN hand' = tx /\ flight' = hpos ELSE UNCHANGED <<hand, flight>>
    /\ UNCHANGED <<words, ej, tx, rx, segVars, bridgeVars, hpos, sent>>

Cycle ==
    \/ ReadServo \/ ReadMode \/ ReadTarget \/ WritePosition
    \/ \E ok \in BOOLEAN : Receive(ok) \/ Send(ok)

\* The hand goes where it is told while its servo is on.
Move ==
    /\ hand.status1 # 0 /\ hpos # hand.tar
    /\ hpos' = hand.tar
    /\ UNCHANGED <<segVars, words, bridgeVars, ecatVars, flight, hand, sent>>

-----------------------------------------------------------------------------
(* The life of the segment under the link.                                 *)

\* What a process keeps to itself ends with it; its words do not.
Locals ==
    /\ IF pc'[bridge] = "on" THEN UNCHANGED bridgeVars
       ELSE bpc' = "idle" /\ bj' = 1 /\ bmsg' = 0 /\ bread' = AllZero
    /\ IF pc'[ecat] = "on" THEN UNCHANGED <<ecatVars, flight>>
       ELSE epc' = "recv" /\ ej' = 1 /\ tx' = ZeroTx /\ rx' = AllZero /\ flight' = NoFrame
    /\ UNCHANGED <<hand, hpos, sent>>

InitShm(c) == Get(c) \/ Attach(c) \/ Check(c) \/ IncLoad(c) \/ IncStore(c)

\* The memset of the clean start.
CleanStart(c) == Wipe(c) /\ words' = [words EXCEPT ![at[c]] = ZeroWords] /\ Locals

\* deleteSharedMemory; rclcpp::spin lets a handler finish.
DeleteShm(c) == DecLoad(c) \/ DecStore(c) \/ Cmp(c) \/ Rm(c) \/ Exit(c)
Stop == StopRt \/ (StopBridge /\ bpc = "idle")

Life ==
    \/ \E c \in Clients : CleanStart(c)
    \/ /\ StartRt \/ StartBridge \/ Stop \/ \E c \in Clients : InitShm(c) \/ DeleteShm(c) \/ Crash(c)
       /\ UNCHANGED words /\ Locals

Next == Life \/ Handlers \/ Cycle \/ Move

Spec == Init /\ [][Next]_vars

\* The threads run, and the line does not lose every frame.  Nobody has to start
\* or stop a process, or to send a message.
FairSpec ==
    /\ Spec
    /\ WF_vars(TargetWord \/ ReadWord) /\ WF_vars(OnTimer)
    /\ WF_vars(ReadServo \/ ReadMode \/ ReadTarget \/ WritePosition)
    /\ SF_vars(flight # NoFrame /\ Receive(TRUE)) /\ SF_vars(Send(TRUE)) /\ WF_vars(Move)
    /\ WF_vars(\E ok \in BOOLEAN : Receive(ok) \/ Send(ok))
=============================================================================
