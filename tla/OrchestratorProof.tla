------------------------- MODULE OrchestratorProof -------------------------
(***************************************************************************)
(* Proofs about Orchestrator, for any goals, trajectories, ramps, waits and *)
(* aborts.                                                                 *)
(***************************************************************************)
EXTENDS OrchestratorInvariants, TLAPS

USE OrchestratorAssumption

\* So does going on to another stage.
LEMMA StageType ==
  ASSUME SequenceTypeOK, NEW g \in Goals, NEW s \in 0..7, NEW place, NextStage(g, s, place)
  PROVE  stage' \in [Goals -> 0..7] /\ k' \in [Goals -> Nat]
BY DEF NextStage, SequenceTypeOK

\* Returning from the sequence sets its locals to values of their types.
LEMMA ReturnType ==
  ASSUME SequenceTypeOK, NEW g \in Goals, NEW v \in BOOLEAN, Return(g, v)
  PROVE  /\ stage' \in [Goals -> 0..7] /\ k' \in [Goals -> Nat]
         /\ ok' \in [Goals -> BOOLEAN]
BY DEF Return, NextStage, SequenceTypeOK


\* Events, flags, handles and places keep their types.
LEMMA ThreadTypeStep ==
  ASSUME ThreadTypeOK, [Next]_vars
  PROVE  ThreadTypeOK'
<1> DEFINE read == <<require_terminal_s, abort, start_seq, busy, handle, gst, pc, cancel, key, key_gh, aborts>>
<1>0. CASE UNCHANGED read
  BY <1>0 DEF ThreadTypeOK, Places, InWait, InSequence,
      Statuses, Active, Running, Terminal
<1>1. ASSUME OnArmState
      PROVE  UNCHANGED read
  BY <1>1 DEF OnArmState, flags, locals, stdin, others
<1>2. ASSUME NEW g \in Goals, GoalCallback(g)
      PROVE  ThreadTypeOK'
  BY <1>2 DEF GoalCallback, Goto, locals, stdin, others, data, ThreadTypeOK, Places,
      InWait, InSequence, Statuses, Active, Running, Terminal
<1>3. ASSUME NEW g \in Goals, CancelRequest(g)
      PROVE  ThreadTypeOK'
  BY <1>3 DEF CancelRequest, flags, locals, stdin, data, ThreadTypeOK, Places, InWait,
      InSequence, Statuses, Active, Running, Terminal
<1>4. ASSUME NEW g \in Goals, CancelSet(g)
      PROVE  ThreadTypeOK'
  BY <1>4 DEF CancelSet, SetAbort, flags, locals, stdin, ThreadTypeOK, Places, InWait,
      InSequence, Statuses, Active, Running, Terminal
<1>5. ASSUME NEW g \in Goals, CancelHold(g)
      PROVE  ThreadTypeOK'
  BY <1>5 DEF CancelHold, Hold, flags, locals, stdin, ThreadTypeOK, Places, InWait,
      InSequence, Statuses, Active, Running, Terminal
<1>6. ASSUME NEW g \in Goals, CancelMove(g)
      PROVE  ThreadTypeOK'
  BY <1>6 DEF CancelMove, Finish, flags, locals, stdin, data, ThreadTypeOK, Places,
      InWait, InSequence, Statuses, Active, Running, Terminal
<1>7. ASSUME NEW g \in Goals, Execute(g)
      PROVE  ThreadTypeOK'
  BY <1>7 DEF Execute, At, Goto, ClearAbort, Finish, flags, locals, stdin, others,
      ThreadTypeOK, Places, InWait, InSequence, Statuses, Active, Running, Terminal
<1>8. ASSUME NEW g \in Goals, StoreHandle(g)
      PROVE  ThreadTypeOK'
  BY <1>8 DEF StoreHandle, At, Goto, locals, stdin, others, data, ThreadTypeOK,
      Places, InWait, InSequence, Statuses, Active, Running, Terminal
<1>9. ASSUME NEW g \in Goals, Prepare(g)
      PROVE  ThreadTypeOK'
  BY <1>9 DEF Prepare, At, Goto, locals, stdin, others, data, ThreadTypeOK, Places,
      InWait, InSequence, Statuses, Active, Running, Terminal
<1>10. ASSUME NEW g \in Goals, Wait(g)
      PROVE  ThreadTypeOK'
  BY <1>10 DEF Wait, At, Goto, locals, stdin, others, data, ThreadTypeOK, Places,
      InWait, InSequence, Statuses, Active, Running, Terminal
<1>11. ASSUME NEW g \in Goals, Begin(g)
      PROVE  ThreadTypeOK'
  BY <1>11 DEF Begin, At, Goto, ClearAbort, flags, stdin, others, ThreadTypeOK,
      Places, InWait, InSequence, Statuses, Active, Running, Terminal
<1>12. ASSUME NEW g \in Goals, PublishSafe(g)
      PROVE  ThreadTypeOK'
  BY <1>12 DEF PublishSafe, At, Goto, Sent, PublishArm, flags, locals, stdin, others,
      env, ThreadTypeOK, Places, InWait, InSequence, Statuses, Active, Running,
      Terminal
<1>13. ASSUME NEW g \in Goals, Near(g)
      PROVE  ThreadTypeOK'
  BY <1>13 DEF Near, At, Goto, NextStage, Count, Return, flags, stdin, others, env,
      ThreadTypeOK, Places, InWait, InSequence, Statuses, Active, Running, Terminal
<1>14. ASSUME NEW g \in Goals, Look(g)
      PROVE  ThreadTypeOK'
  BY <1>14 DEF Look, At, Goto, NextStage, Return, Reached, flags, locals, stdin,
      others, env, ThreadTypeOK, Places, InWait, InSequence, Statuses, Active,
      Running, Terminal
<1>15. ASSUME NEW g \in Goals, SetServo(g)
      PROVE  ThreadTypeOK'
  BY <1>15 DEF SetServo, At, Goto, Sent, flags, locals, stdin, others, env,
      ThreadTypeOK, Places, InWait, InSequence, Statuses, Active, Running, Terminal
<1>16. ASSUME NEW g \in Goals, SetMode(g)
      PROVE  ThreadTypeOK'
  BY <1>16 DEF SetMode, At, Goto, Sent, flags, locals, stdin, others, env,
      ThreadTypeOK, Places, InWait, InSequence, Statuses, Active, Running, Terminal
<1>17. ASSUME NEW g \in Goals, Ramp(g)
      PROVE  ThreadTypeOK'
  BY <1>17 DEF Ramp, At, Goto, flags, locals, stdin, others, env, ThreadTypeOK,
      Places, InWait, InSequence, Statuses, Active, Running, Terminal
<1>18. ASSUME NEW g \in Goals, Turn(g)
      PROVE  ThreadTypeOK'
  BY <1>18 DEF Turn, At, Goto, Sent, Count, RampTo, flags, stdin, others, env,
      ThreadTypeOK, Places, InWait, InSequence, Statuses, Active, Running, Terminal
<1>19. ASSUME NEW g \in Goals, Sample(g)
      PROVE  ThreadTypeOK'
  BY <1>19 DEF Sample, At, Goto, Hold, flags, locals, stdin, others, env,
      ThreadTypeOK, Places, InWait, InSequence, Statuses, Active, Running, Terminal
<1>20. ASSUME NEW g \in Goals, Move(g)
      PROVE  ThreadTypeOK'
  BY <1>20 DEF Move, At, Goto, Sent, PublishArm, Count, Point, flags, stdin, others,
      env, ThreadTypeOK, Places, InWait, InSequence, Statuses, Active, Running,
      Terminal
<1>21. ASSUME NEW g \in Goals, MoveLast(g)
      PROVE  ThreadTypeOK'
  BY <1>21 DEF MoveLast, At, Goto, Sent, PublishArm, Reached, Point, flags, locals,
      stdin, others, env, ThreadTypeOK, Places, InWait, InSequence, Statuses, Active,
      Running, Terminal
<1>22. ASSUME NEW g \in Goals, Close(g)
      PROVE  ThreadTypeOK'
  BY <1>22 DEF Close, At, Goto, Sent, Reached, flags, locals, stdin, others, env,
      ThreadTypeOK, Places, InWait, InSequence, Statuses, Active, Running, Terminal
<1>23. ASSUME NEW g \in Goals, Test(g)
      PROVE  ThreadTypeOK'
  BY <1>23 DEF Test, At, Goto, NextStage, Return, flags, stdin, others, env,
      ThreadTypeOK, Places, InWait, InSequence, Statuses, Active, Running, Terminal
<1>24. ASSUME NEW g \in Goals, End(g)
      PROVE  ThreadTypeOK'
  BY <1>24 DEF End, At, Goto, flags, locals, stdin, others, data, ThreadTypeOK,
      Places, InWait, InSequence, Statuses, Active, Running, Terminal
<1>25. ASSUME NEW g \in Goals, Conclude(g)
      PROVE  ThreadTypeOK'
  BY <1>25 DEF Conclude, At, Goto, Finish, flags, locals, stdin, others, data,
      ThreadTypeOK, Places, InWait, InSequence, Statuses, Active, Running, Terminal
<1>26. ASSUME NEW g \in Goals, Release(g)
      PROVE  ThreadTypeOK'
  BY <1>26 DEF Release, At, Goto, locals, stdin, others, data, ThreadTypeOK, Places,
      InWait, InSequence, Statuses, Active, Running, Terminal
<1>27. ASSUME NEW g \in Goals, Forget(g)
      PROVE  ThreadTypeOK'
  BY <1>27 DEF Forget, At, Goto, stdin, others, ThreadTypeOK, Places, InWait,
      InSequence, Statuses, Active, Running, Terminal
<1>28. CASE PressS
  BY <1>28 DEF PressS, locals, stdin, others, data, ThreadTypeOK, Places, InWait,
      InSequence, Statuses, Active, Running, Terminal
<1>29. CASE PressT
  BY <1>29 DEF PressT, SetAbort, flags, locals, ThreadTypeOK, Places, InWait,
      InSequence, Statuses, Active, Running, Terminal
<1>30. CASE KeyHold
  BY <1>30 DEF KeyHold, Hold, flags, locals, ThreadTypeOK, Places, InWait, InSequence,
      Statuses, Active, Running, Terminal
<1>31. CASE KeyLook
  BY <1>31 DEF KeyLook, flags, locals, data, ThreadTypeOK, Places, InWait, InSequence,
      Statuses, Active, Running, Terminal
<1>32. CASE KeyAbort
  BY <1>32 DEF KeyAbort, Finish, flags, locals, data, ThreadTypeOK, Places, InWait,
      InSequence, Statuses, Active, Running, Terminal
<1> QED
  BY <1>0, <1>1, <1>2, <1>3, <1>4, <1>5, <1>6, <1>7, <1>8, <1>9, <1>10,
     <1>11, <1>12, <1>13, <1>14, <1>15, <1>16, <1>17, <1>18, <1>19, <1>20, <1>21,
     <1>22, <1>23, <1>24, <1>25, <1>26, <1>27, <1>28, <1>29, <1>30, <1>31, <1>32
     DEF Next, Cancel, Key, Callback, Sequence, vars, flags, locals, stdin, others, data

\* So do the locals of the sequence and the history.
LEMMA SequenceTypeStep ==
  ASSUME abort \in BOOLEAN, SequenceTypeOK, [Next]_vars
  PROVE  SequenceTypeOK'
<1> DEFINE read == <<stage, k, ok, did, late>>
<1>0. CASE UNCHANGED read
  BY <1>0 DEF SequenceTypeOK, Milestones
<1>1. ASSUME NEW g \in Goals,
             GoalCallback(g) \/ CancelRequest(g) \/
             CancelHold(g) \/ CancelMove(g) \/ StoreHandle(g) \/ Prepare(g) \/
             Wait(g) \/ Ramp(g) \/ Sample(g) \/ End(g) \/ Conclude(g) \/ Release(g)
      PROVE  UNCHANGED read
  BY <1>1 DEF GoalCallback, CancelRequest, CancelHold, CancelMove, StoreHandle,
      Prepare, Wait, Ramp, Sample, End, Conclude, Release, At, Goto, Hold, Finish,
      flags, locals, stdin, others, data, env
<1>2. ASSUME PressS \/ KeyHold \/ KeyLook \/ KeyAbort \/ OnArmState
      PROVE  UNCHANGED read
  BY <1>2 DEF PressS, KeyHold, KeyLook, KeyAbort, OnArmState, Hold, Finish, flags,
      locals, stdin, others, data
<1>3. ASSUME NEW g \in Goals, CancelSet(g)
      PROVE  SequenceTypeOK'
  BY <1>3 DEF CancelSet, SetAbort, flags, locals, stdin, SequenceTypeOK, Milestones
<1>4. ASSUME NEW g \in Goals, Execute(g)
      PROVE  SequenceTypeOK'
  BY <1>4 DEF Execute, At, Goto, ClearAbort, Finish, flags, locals, stdin, others,
      SequenceTypeOK, Milestones
<1>5. ASSUME NEW g \in Goals, Begin(g)
      PROVE  SequenceTypeOK'
  BY <1>5 DEF Begin, At, Goto, ClearAbort, flags, stdin, others, SequenceTypeOK,
      Milestones
<1>6. ASSUME NEW g \in Goals, PublishSafe(g)
      PROVE  SequenceTypeOK'
  BY <1>6 DEF PublishSafe, At, Goto, Sent, PublishArm, flags, locals, stdin, others,
      env, SequenceTypeOK, Milestones
<1>7. ASSUME NEW g \in Goals, Near(g)
      PROVE  SequenceTypeOK'
  <2>1. CASE Return(g, FALSE)
    BY <1>7, <2>1, ReturnType DEF Near, Reached, SequenceTypeOK, Milestones
  <2>2. CASE Goto(g, "look") /\ Count(g) /\ UNCHANGED <<stage, ok>>
    BY <1>7, <2>2, StageType DEF Near, Goto, Count, Reached, SequenceTypeOK, Milestones
  <2> QED
    BY <1>7, <2>1, <2>2 DEF Near
<1>8. ASSUME NEW g \in Goals, Look(g)
      PROVE  SequenceTypeOK'
  <2>1. CASE Return(g, TRUE) /\ Reached(g, "home")
    BY <1>8, <2>1, ReturnType DEF Look, Reached, SequenceTypeOK, Milestones
  <2>2. CASE UNCHANGED ok /\ (UNCHANGED <<stage, k, did>> \/ (NextStage(g, 2, "servo") /\ Reached(g, "safe")))
    BY <1>8, <2>2, StageType DEF Look, Goto, Count, Reached, SequenceTypeOK, Milestones
  <2> QED
    BY <1>8, <2>1, <2>2 DEF Look, locals
<1>9. ASSUME NEW g \in Goals, SetServo(g)
      PROVE  SequenceTypeOK'
  BY <1>9 DEF SetServo, At, Goto, Sent, flags, locals, stdin, others, env,
      SequenceTypeOK, Milestones
<1>10. ASSUME NEW g \in Goals, SetMode(g)
      PROVE  SequenceTypeOK'
  BY <1>10 DEF SetMode, At, Goto, Sent, flags, locals, stdin, others, env,
      SequenceTypeOK, Milestones
<1>11. ASSUME NEW g \in Goals, Turn(g)
      PROVE  SequenceTypeOK'
  BY <1>11 DEF Turn, At, Goto, Sent, Count, RampTo, flags, stdin, others, env,
      SequenceTypeOK, Milestones
<1>12. ASSUME NEW g \in Goals, Move(g)
      PROVE  SequenceTypeOK'
  BY <1>12 DEF Move, At, Goto, Sent, PublishArm, Count, Point, flags, stdin, others,
      env, SequenceTypeOK, Milestones
<1>13. ASSUME NEW g \in Goals, MoveLast(g)
      PROVE  SequenceTypeOK'
  BY <1>13 DEF MoveLast, At, Goto, Sent, PublishArm, Reached, Point, flags, locals,
      stdin, others, env, SequenceTypeOK, Milestones
<1>14. ASSUME NEW g \in Goals, Close(g)
      PROVE  SequenceTypeOK'
  BY <1>14 DEF Close, At, Goto, Sent, Reached, flags, locals, stdin, others, env,
      SequenceTypeOK, Milestones
<1>15. ASSUME NEW g \in Goals, Test(g)
      PROVE  SequenceTypeOK'
  <2>1. ASSUME Return(g, FALSE) PROVE SequenceTypeOK'
    BY <1>15, <2>1, ReturnType DEF Test, SequenceTypeOK
  <2>2. ASSUME UNCHANGED ok, NEW s \in {3, 4, 5, 6, 7}, NEW place, NextStage(g, s, place)
        PROVE  SequenceTypeOK'
    BY <1>15, <2>2, StageType DEF Test, SequenceTypeOK
  <2>3. Return(g, FALSE) \/ UNCHANGED ok
    BY <1>15 DEF Test
  <2>4. UNCHANGED ok => \/ Return(g, FALSE)
                      \/ NextStage(g, 3, "ramp") \/ NextStage(g, 4, "sample")
                      \/ NextStage(g, 5, "mode") \/ NextStage(g, 6, "settle")
                      \/ NextStage(g, 6, "close") \/ NextStage(g, 7, "publish")
    BY <1>15 DEF Test
  <2> QED
    BY <2>1, <2>2, <2>3, <2>4
<1>16. ASSUME NEW g \in Goals, Forget(g)
      PROVE  SequenceTypeOK'
  BY <1>16 DEF Forget, At, Goto, stdin, others, SequenceTypeOK, Milestones
<1>17. CASE PressT
  BY <1>17 DEF PressT, SetAbort, flags, locals, SequenceTypeOK, Milestones
<1> QED
  BY <1>0, <1>1, <1>2, <1>3, <1>4, <1>5, <1>6, <1>7, <1>8, <1>9, <1>10,
     <1>11, <1>12, <1>13, <1>14, <1>15, <1>16, <1>17
     DEF Next, Cancel, Key, Callback, Sequence, vars, flags, locals, stdin, others, data

\* A sample of the trajectory is sent only up to the last one.
LEMMA TargetTypeStep ==
  ASSUME TargetTypeOK, SequenceTypeOK, StageInv, [Next]_vars
  PROVE  TargetTypeOK'
<1> DEFINE read == <<cmd, mode, franka_q>>
<1>0. CASE UNCHANGED read
  BY <1>0 DEF TargetTypeOK, Poses
<1>1. ASSUME NEW g \in Goals,
             GoalCallback(g) \/ CancelRequest(g) \/
             CancelSet(g) \/ CancelMove(g) \/ Execute(g) \/ StoreHandle(g) \/
             Prepare(g) \/ Wait(g) \/ Begin(g) \/ Near(g) \/ Look(g) \/
             SetServo(g) \/ Ramp(g) \/ Turn(g) \/ Close(g) \/ Test(g) \/ End(g) \/
             Conclude(g) \/ Release(g) \/ Forget(g)
      PROVE  UNCHANGED read
  BY <1>1 DEF GoalCallback, CancelRequest, CancelSet, CancelMove, Execute,
      StoreHandle, Prepare, Wait, Begin, Near, Look, SetServo, Ramp, Turn, Close,
      Test, End, Conclude, Release, Forget, At, Goto, SetAbort, ClearAbort, Sent,
      Finish, NextStage, Count, Return, Reached, RampTo, flags, locals, stdin, others,
      data, env
<1>2. ASSUME PressS \/ PressT \/ KeyLook \/ KeyAbort
      PROVE  UNCHANGED read
  BY <1>2 DEF PressS, PressT, KeyLook, KeyAbort, SetAbort, Finish, flags, locals,
      stdin, others, data
<1>3. ASSUME NEW g \in Goals, CancelHold(g)
      PROVE  TargetTypeOK'
  BY <1>3 DEF CancelHold, Hold, flags, locals, stdin, TargetTypeOK, Poses
<1>4. ASSUME NEW g \in Goals, PublishSafe(g)
      PROVE  TargetTypeOK'
  BY <1>4 DEF PublishSafe, At, Goto, Sent, PublishArm, flags, locals, stdin, others,
      env, TargetTypeOK, Poses
<1>5. ASSUME NEW g \in Goals, SetMode(g)
      PROVE  TargetTypeOK'
  BY <1>5 DEF SetMode, At, Goto, Sent, flags, locals, stdin, others, env,
      TargetTypeOK, Poses
<1>6. ASSUME NEW g \in Goals, Sample(g)
      PROVE  TargetTypeOK'
  BY <1>6 DEF Sample, At, Goto, Hold, flags, locals, stdin, others, env, TargetTypeOK,
      Poses
<1>7. ASSUME NEW g \in Goals, Move(g)
      PROVE  TargetTypeOK'
  BY <1>7 DEF Move, At, Goto, Sent, PublishArm, Count, Point, flags, stdin, others,
      env, TargetTypeOK, Poses, StageInv, SequenceTypeOK
<1>8. ASSUME NEW g \in Goals, MoveLast(g)
      PROVE  TargetTypeOK'
  BY <1>8 DEF MoveLast, At, Goto, Sent, PublishArm, Reached, Point, flags, locals,
      stdin, others, env, TargetTypeOK, Poses
<1>9. CASE KeyHold
  BY <1>9 DEF KeyHold, Hold, flags, locals, TargetTypeOK, Poses
<1>10. CASE OnArmState
  BY <1>10 DEF OnArmState, flags, locals, stdin, others, TargetTypeOK, Poses
<1> QED
  BY <1>0, <1>1, <1>2, <1>3, <1>4, <1>5, <1>6, <1>7, <1>8, <1>9, <1>10
     DEF Next, Cancel, Key, Callback, Sequence, vars, flags, locals, stdin, others, data

\* A goal becomes the owner only when there is none, and stops being it only when
\* it resets the flag.
LEMMA OwnerStep ==
  ASSUME ThreadTypeOK, OwnerInv, [Next]_vars
  PROVE  OwnerInv'
<1> DEFINE read == <<busy, pc>>
<1>0. CASE UNCHANGED read
  BY <1>0 DEF ThreadTypeOK, OwnerInv, OneOwner, Owns
<1>1. ASSUME NEW g \in Goals,
             CancelRequest(g) \/ CancelSet(g) \/
             CancelHold(g) \/ CancelMove(g)
      PROVE  UNCHANGED read
  BY <1>1 DEF CancelRequest, CancelSet, CancelHold, CancelMove, SetAbort, Hold,
      Finish, flags, locals, stdin, data
<1>2. ASSUME PressS \/ PressT \/ KeyHold \/ KeyLook \/ KeyAbort \/ OnArmState
      PROVE  UNCHANGED read
  BY <1>2 DEF PressS, PressT, KeyHold, KeyLook, KeyAbort, OnArmState, SetAbort, Hold,
      Finish, flags, locals, stdin, others, data
<1>3. ASSUME NEW g \in Goals, GoalCallback(g)
      PROVE  OwnerInv'
  BY <1>3 DEF GoalCallback, Goto, locals, stdin, others, data, ThreadTypeOK, OwnerInv,
      OneOwner, Owns
<1>4. ASSUME NEW g \in Goals, Execute(g)
      PROVE  OwnerInv'
  BY <1>4 DEF Execute, At, Goto, ClearAbort, Finish, flags, locals, stdin, others,
      ThreadTypeOK, OwnerInv, OneOwner, Owns
<1>5. ASSUME NEW g \in Goals, StoreHandle(g)
      PROVE  OwnerInv'
  BY <1>5 DEF StoreHandle, At, Goto, locals, stdin, others, data, ThreadTypeOK,
      OwnerInv, OneOwner, Owns
<1>6. ASSUME NEW g \in Goals, Prepare(g)
      PROVE  OwnerInv'
  BY <1>6 DEF Prepare, At, Goto, locals, stdin, others, data, ThreadTypeOK, OwnerInv,
      OneOwner, Owns
<1>7. ASSUME NEW g \in Goals, Wait(g)
      PROVE  OwnerInv'
  BY <1>7 DEF Wait, At, Goto, locals, stdin, others, data, ThreadTypeOK, OwnerInv,
      OneOwner, Owns
<1>8. ASSUME NEW g \in Goals, Begin(g)
      PROVE  OwnerInv'
  BY <1>8 DEF Begin, At, Goto, ClearAbort, flags, stdin, others, ThreadTypeOK,
      OwnerInv, OneOwner, Owns
<1>9. ASSUME NEW g \in Goals, PublishSafe(g)
      PROVE  OwnerInv'
  BY <1>9 DEF PublishSafe, At, Goto, Sent, PublishArm, flags, locals, stdin, others,
      env, ThreadTypeOK, OwnerInv, OneOwner, Owns
<1>10. ASSUME NEW g \in Goals, Near(g)
      PROVE  OwnerInv'
  BY <1>10 DEF Near, At, Goto, NextStage, Count, Return, flags, stdin, others, env,
      ThreadTypeOK, OwnerInv, OneOwner, Owns
<1>11. ASSUME NEW g \in Goals, Look(g)
      PROVE  OwnerInv'
  BY <1>11 DEF Look, At, Goto, NextStage, Return, Reached, flags, locals, stdin,
      others, env, ThreadTypeOK, OwnerInv, OneOwner, Owns
<1>12. ASSUME NEW g \in Goals, SetServo(g)
      PROVE  OwnerInv'
  BY <1>12 DEF SetServo, At, Goto, Sent, flags, locals, stdin, others, env,
      ThreadTypeOK, OwnerInv, OneOwner, Owns
<1>13. ASSUME NEW g \in Goals, SetMode(g)
      PROVE  OwnerInv'
  BY <1>13 DEF SetMode, At, Goto, Sent, flags, locals, stdin, others, env,
      ThreadTypeOK, OwnerInv, OneOwner, Owns
<1>14. ASSUME NEW g \in Goals, Ramp(g)
      PROVE  OwnerInv'
  BY <1>14 DEF Ramp, At, Goto, flags, locals, stdin, others, env, ThreadTypeOK,
      OwnerInv, OneOwner, Owns
<1>15. ASSUME NEW g \in Goals, Turn(g)
      PROVE  OwnerInv'
  BY <1>15 DEF Turn, At, Goto, Sent, Count, RampTo, flags, stdin, others, env,
      ThreadTypeOK, OwnerInv, OneOwner, Owns
<1>16. ASSUME NEW g \in Goals, Sample(g)
      PROVE  OwnerInv'
  BY <1>16 DEF Sample, At, Goto, Hold, flags, locals, stdin, others, env,
      ThreadTypeOK, OwnerInv, OneOwner, Owns
<1>17. ASSUME NEW g \in Goals, Move(g)
      PROVE  OwnerInv'
  BY <1>17 DEF Move, At, Goto, Sent, PublishArm, Count, Point, flags, stdin, others,
      env, ThreadTypeOK, OwnerInv, OneOwner, Owns
<1>18. ASSUME NEW g \in Goals, MoveLast(g)
      PROVE  OwnerInv'
  BY <1>18 DEF MoveLast, At, Goto, Sent, PublishArm, Reached, Point, flags, locals,
      stdin, others, env, ThreadTypeOK, OwnerInv, OneOwner, Owns
<1>19. ASSUME NEW g \in Goals, Close(g)
      PROVE  OwnerInv'
  BY <1>19 DEF Close, At, Goto, Sent, Reached, flags, locals, stdin, others, env,
      ThreadTypeOK, OwnerInv, OneOwner, Owns
<1>20. ASSUME NEW g \in Goals, Test(g)
      PROVE  OwnerInv'
  BY <1>20 DEF Test, At, Goto, NextStage, Return, flags, stdin, others, env,
      ThreadTypeOK, OwnerInv, OneOwner, Owns
<1>21. ASSUME NEW g \in Goals, End(g)
      PROVE  OwnerInv'
  BY <1>21 DEF End, At, Goto, flags, locals, stdin, others, data, ThreadTypeOK,
      OwnerInv, OneOwner, Owns
<1>22. ASSUME NEW g \in Goals, Conclude(g)
      PROVE  OwnerInv'
  BY <1>22 DEF Conclude, At, Goto, Finish, flags, locals, stdin, others, data,
      ThreadTypeOK, OwnerInv, OneOwner, Owns
<1>23. ASSUME NEW g \in Goals, Release(g)
      PROVE  OwnerInv'
  BY <1>23 DEF Release, At, Goto, locals, stdin, others, data, ThreadTypeOK, OwnerInv,
      OneOwner, Owns
<1>24. ASSUME NEW g \in Goals, Forget(g)
      PROVE  OwnerInv'
  BY <1>24 DEF Forget, At, Goto, stdin, others, ThreadTypeOK, OwnerInv, OneOwner, Owns
<1> QED
  BY <1>0, <1>1, <1>2, <1>3, <1>4, <1>5, <1>6, <1>7, <1>8, <1>9, <1>10,
     <1>11, <1>12, <1>13, <1>14, <1>15, <1>16, <1>17, <1>18, <1>19, <1>20, <1>21,
     <1>22, <1>23, <1>24
     DEF Next, Cancel, Key, Callback, Sequence, vars, flags, locals, stdin, others, data

\* Every place of the sequence stays within its stages.
LEMMA StageStep ==
  ASSUME ThreadTypeOK, SequenceTypeOK, StageInv, [Next]_vars
  PROVE  StageInv'
<1> DEFINE read == <<pc, stage, k>>
<1>0. CASE UNCHANGED read
  BY <1>0 DEF ThreadTypeOK, SequenceTypeOK, StageInv,
      StagesAt
<1>1. ASSUME NEW g \in Goals,
             CancelRequest(g) \/ CancelSet(g) \/
             CancelHold(g) \/ CancelMove(g)
      PROVE  UNCHANGED read
  BY <1>1 DEF CancelRequest, CancelSet, CancelHold, CancelMove, SetAbort, Hold,
      Finish, flags, locals, stdin, data
<1>2. ASSUME PressS \/ PressT \/ KeyHold \/ KeyLook \/ KeyAbort \/ OnArmState
      PROVE  UNCHANGED read
  BY <1>2 DEF PressS, PressT, KeyHold, KeyLook, KeyAbort, OnArmState, SetAbort, Hold,
      Finish, flags, locals, stdin, others, data
<1>3. ASSUME NEW g \in Goals, GoalCallback(g)
      PROVE  StageInv'
  BY <1>3 DEF GoalCallback, Goto, locals, stdin, others, data, ThreadTypeOK,
      SequenceTypeOK, StageInv, StagesAt
<1>4. ASSUME NEW g \in Goals, Execute(g)
      PROVE  StageInv'
  BY <1>4 DEF Execute, At, Goto, ClearAbort, Finish, flags, locals, stdin, others,
      ThreadTypeOK, SequenceTypeOK, StageInv, StagesAt
<1>5. ASSUME NEW g \in Goals, StoreHandle(g)
      PROVE  StageInv'
  BY <1>5 DEF StoreHandle, At, Goto, locals, stdin, others, data, ThreadTypeOK,
      SequenceTypeOK, StageInv, StagesAt
<1>6. ASSUME NEW g \in Goals, Prepare(g)
      PROVE  StageInv'
  BY <1>6 DEF Prepare, At, Goto, locals, stdin, others, data, ThreadTypeOK,
      SequenceTypeOK, StageInv, StagesAt
<1>7. ASSUME NEW g \in Goals, Wait(g)
      PROVE  StageInv'
  BY <1>7 DEF Wait, At, Goto, locals, stdin, others, data, ThreadTypeOK,
      SequenceTypeOK, StageInv, StagesAt
<1>8. ASSUME NEW g \in Goals, Begin(g)
      PROVE  StageInv'
  BY <1>8 DEF Begin, At, Goto, ClearAbort, flags, stdin, others, ThreadTypeOK,
      SequenceTypeOK, StageInv, StagesAt
<1>9. ASSUME NEW g \in Goals, PublishSafe(g)
      PROVE  StageInv'
  BY <1>9 DEF PublishSafe, At, Goto, Sent, PublishArm, flags, locals, stdin, others,
      env, ThreadTypeOK, SequenceTypeOK, StageInv, StagesAt
<1>10. ASSUME NEW g \in Goals, Near(g)
      PROVE  StageInv'
  BY <1>10 DEF Near, At, Goto, NextStage, Count, Return, flags, stdin, others, env,
      ThreadTypeOK, SequenceTypeOK, StageInv, StagesAt
<1>11. ASSUME NEW g \in Goals, Look(g)
      PROVE  StageInv'
  BY <1>11 DEF Look, At, Goto, NextStage, Return, Reached, flags, locals, stdin,
      others, env, ThreadTypeOK, SequenceTypeOK, StageInv, StagesAt
<1>12. ASSUME NEW g \in Goals, SetServo(g)
      PROVE  StageInv'
  BY <1>12 DEF SetServo, At, Goto, Sent, flags, locals, stdin, others, env,
      ThreadTypeOK, SequenceTypeOK, StageInv, StagesAt
<1>13. ASSUME NEW g \in Goals, SetMode(g)
      PROVE  StageInv'
  BY <1>13 DEF SetMode, At, Goto, Sent, flags, locals, stdin, others, env,
      ThreadTypeOK, SequenceTypeOK, StageInv, StagesAt
<1>14. ASSUME NEW g \in Goals, Ramp(g)
      PROVE  StageInv'
  BY <1>14 DEF Ramp, At, Goto, flags, locals, stdin, others, env, ThreadTypeOK,
      SequenceTypeOK, StageInv, StagesAt
<1>15. ASSUME NEW g \in Goals, Turn(g)
      PROVE  StageInv'
  BY <1>15 DEF Turn, At, Goto, Sent, Count, RampTo, flags, stdin, others, env,
      ThreadTypeOK, SequenceTypeOK, StageInv, StagesAt
<1>16. ASSUME NEW g \in Goals, Sample(g)
      PROVE  StageInv'
  BY <1>16 DEF Sample, At, Goto, Hold, flags, locals, stdin, others, env,
      ThreadTypeOK, SequenceTypeOK, StageInv, StagesAt
<1>17. ASSUME NEW g \in Goals, Move(g)
      PROVE  StageInv'
  BY <1>17 DEF Move, At, Goto, Sent, PublishArm, Count, Point, flags, stdin, others,
      env, ThreadTypeOK, SequenceTypeOK, StageInv, StagesAt
<1>18. ASSUME NEW g \in Goals, MoveLast(g)
      PROVE  StageInv'
  BY <1>18 DEF MoveLast, At, Goto, Sent, PublishArm, Reached, Point, flags, locals,
      stdin, others, env, ThreadTypeOK, SequenceTypeOK, StageInv, StagesAt
<1>19. ASSUME NEW g \in Goals, Close(g)
      PROVE  StageInv'
  BY <1>19 DEF Close, At, Goto, Sent, Reached, flags, locals, stdin, others, env,
      ThreadTypeOK, SequenceTypeOK, StageInv, StagesAt
<1>20. ASSUME NEW g \in Goals, Test(g)
      PROVE  StageInv'
  BY <1>20 DEF Test, At, Goto, NextStage, Return, flags, stdin, others, env,
      ThreadTypeOK, SequenceTypeOK, StageInv, StagesAt
<1>21. ASSUME NEW g \in Goals, End(g)
      PROVE  StageInv'
  BY <1>21 DEF End, At, Goto, flags, locals, stdin, others, data, ThreadTypeOK,
      SequenceTypeOK, StageInv, StagesAt
<1>22. ASSUME NEW g \in Goals, Conclude(g)
      PROVE  StageInv'
  BY <1>22 DEF Conclude, At, Goto, Finish, flags, locals, stdin, others, data,
      ThreadTypeOK, SequenceTypeOK, StageInv, StagesAt
<1>23. ASSUME NEW g \in Goals, Release(g)
      PROVE  StageInv'
  BY <1>23 DEF Release, At, Goto, locals, stdin, others, data, ThreadTypeOK,
      SequenceTypeOK, StageInv, StagesAt
<1>24. ASSUME NEW g \in Goals, Forget(g)
      PROVE  StageInv'
  BY <1>24 DEF Forget, At, Goto, stdin, others, ThreadTypeOK, SequenceTypeOK,
      StageInv, StagesAt
<1> QED
  BY <1>0, <1>1, <1>2, <1>3, <1>4, <1>5, <1>6, <1>7, <1>8, <1>9, <1>10,
     <1>11, <1>12, <1>13, <1>14, <1>15, <1>16, <1>17, <1>18, <1>19, <1>20, <1>21,
     <1>22, <1>23, <1>24
     DEF Next, Cancel, Key, Callback, Sequence, vars, flags, locals, stdin, others, data

\* What a stage relies on has been done: only the owner clears the event, so a loop
\* that was cut short is found out by the test that follows it.
LEMMA DoneStep ==
  ASSUME TypeOK, OwnerInv, StageInv, DoneInv, [Next]_vars
  PROVE  DoneInv'
<1> DEFINE read == <<abort, pc, stage, did>>
<1>0. CASE UNCHANGED read
  BY <1>0 DEF TypeOK, ThreadTypeOK, SequenceTypeOK,
      OwnerInv, OneOwner, Owns, StageInv, StagesAt, DoneInv, Milestone, InSequence,
      Milestones
<1>1. ASSUME NEW g \in Goals,
             CancelRequest(g) \/ CancelHold(g) \/
             CancelMove(g)
      PROVE  UNCHANGED read
  BY <1>1 DEF CancelRequest, CancelHold, CancelMove, Hold, Finish, flags, locals,
      stdin, data
<1>2. ASSUME PressS \/ KeyHold \/ KeyLook \/ KeyAbort \/ OnArmState
      PROVE  UNCHANGED read
  BY <1>2 DEF PressS, KeyHold, KeyLook, KeyAbort, OnArmState, Hold, Finish, flags,
      locals, stdin, others, data
<1>3. ASSUME NEW g \in Goals, GoalCallback(g)
      PROVE  DoneInv'
  BY <1>3 DEF GoalCallback, Goto, locals, stdin, others, data, TypeOK, ThreadTypeOK,
      SequenceTypeOK, OwnerInv, OneOwner, Owns, StageInv, StagesAt, DoneInv,
      Milestone, InSequence, Milestones
<1>4. ASSUME NEW g \in Goals, CancelSet(g)
      PROVE  DoneInv'
  BY <1>4 DEF CancelSet, SetAbort, flags, locals, stdin, TypeOK, ThreadTypeOK,
      SequenceTypeOK, OwnerInv, OneOwner, Owns, StageInv, StagesAt, DoneInv,
      Milestone, InSequence, Milestones
<1>5. ASSUME NEW g \in Goals, Execute(g)
      PROVE  DoneInv'
  BY <1>5 DEF Execute, At, Goto, ClearAbort, Finish, flags, locals, stdin, others,
      TypeOK, ThreadTypeOK, SequenceTypeOK, OwnerInv, OneOwner, Owns, StageInv,
      StagesAt, DoneInv, Milestone, InSequence, Milestones
<1>6. ASSUME NEW g \in Goals, StoreHandle(g)
      PROVE  DoneInv'
  BY <1>6 DEF StoreHandle, At, Goto, locals, stdin, others, data, TypeOK,
      ThreadTypeOK, SequenceTypeOK, OwnerInv, OneOwner, Owns, StageInv, StagesAt,
      DoneInv, Milestone, InSequence, Milestones
<1>7. ASSUME NEW g \in Goals, Prepare(g)
      PROVE  DoneInv'
  BY <1>7 DEF Prepare, At, Goto, locals, stdin, others, data, TypeOK, ThreadTypeOK,
      SequenceTypeOK, OwnerInv, OneOwner, Owns, StageInv, StagesAt, DoneInv,
      Milestone, InSequence, Milestones
<1>8. ASSUME NEW g \in Goals, Wait(g)
      PROVE  DoneInv'
  BY <1>8 DEF Wait, At, Goto, locals, stdin, others, data, TypeOK, ThreadTypeOK,
      SequenceTypeOK, OwnerInv, OneOwner, Owns, StageInv, StagesAt, DoneInv,
      Milestone, InSequence, Milestones
<1>9. ASSUME NEW g \in Goals, Begin(g)
      PROVE  DoneInv'
  BY <1>9 DEF Begin, At, Goto, ClearAbort, flags, stdin, others, TypeOK, ThreadTypeOK,
      SequenceTypeOK, OwnerInv, OneOwner, Owns, StageInv, StagesAt, DoneInv,
      Milestone, InSequence, Milestones
<1>10. ASSUME NEW g \in Goals, PublishSafe(g)
      PROVE  DoneInv'
  BY <1>10 DEF PublishSafe, At, Goto, Sent, PublishArm, flags, locals, stdin, others,
      env, TypeOK, ThreadTypeOK, SequenceTypeOK, OwnerInv, OneOwner, Owns, StageInv,
      StagesAt, DoneInv, Milestone, InSequence, Milestones
<1>11. ASSUME NEW g \in Goals, Near(g)
      PROVE  DoneInv'
  BY <1>11 DEF Near, At, Goto, NextStage, Count, Return, flags, stdin, others, env,
      TypeOK, ThreadTypeOK, SequenceTypeOK, OwnerInv, OneOwner, Owns, StageInv,
      StagesAt, DoneInv, Milestone, InSequence, Milestones
<1>12. ASSUME NEW g \in Goals, Look(g)
      PROVE  DoneInv'
  BY <1>12 DEF Look, At, Goto, NextStage, Return, Reached, flags, locals, stdin,
      others, env, TypeOK, ThreadTypeOK, SequenceTypeOK, OwnerInv, OneOwner, Owns,
      StageInv, StagesAt, DoneInv, Milestone, InSequence, Milestones
<1>13. ASSUME NEW g \in Goals, SetServo(g)
      PROVE  DoneInv'
  BY <1>13 DEF SetServo, At, Goto, Sent, flags, locals, stdin, others, env, TypeOK,
      ThreadTypeOK, SequenceTypeOK, OwnerInv, OneOwner, Owns, StageInv, StagesAt,
      DoneInv, Milestone, InSequence, Milestones
<1>14. ASSUME NEW g \in Goals, SetMode(g)
      PROVE  DoneInv'
  BY <1>14 DEF SetMode, At, Goto, Sent, flags, locals, stdin, others, env, TypeOK,
      ThreadTypeOK, SequenceTypeOK, OwnerInv, OneOwner, Owns, StageInv, StagesAt,
      DoneInv, Milestone, InSequence, Milestones
<1>15. ASSUME NEW g \in Goals, Ramp(g)
      PROVE  DoneInv'
  BY <1>15 DEF Ramp, At, Goto, flags, locals, stdin, others, env, TypeOK,
      ThreadTypeOK, SequenceTypeOK, OwnerInv, OneOwner, Owns, StageInv, StagesAt,
      DoneInv, Milestone, InSequence, Milestones
<1>16. ASSUME NEW g \in Goals, Turn(g)
      PROVE  DoneInv'
  BY <1>16 DEF Turn, At, Goto, Sent, Count, RampTo, flags, stdin, others, env, TypeOK,
      ThreadTypeOK, SequenceTypeOK, OwnerInv, OneOwner, Owns, StageInv, StagesAt,
      DoneInv, Milestone, InSequence, Milestones
<1>17. ASSUME NEW g \in Goals, Sample(g)
      PROVE  DoneInv'
  BY <1>17 DEF Sample, At, Goto, Hold, flags, locals, stdin, others, env, TypeOK,
      ThreadTypeOK, SequenceTypeOK, OwnerInv, OneOwner, Owns, StageInv, StagesAt,
      DoneInv, Milestone, InSequence, Milestones
<1>18. ASSUME NEW g \in Goals, Move(g)
      PROVE  DoneInv'
  BY <1>18 DEF Move, At, Goto, Sent, PublishArm, Count, Point, flags, stdin, others,
      env, TypeOK, ThreadTypeOK, SequenceTypeOK, OwnerInv, OneOwner, Owns, StageInv,
      StagesAt, DoneInv, Milestone, InSequence, Milestones
<1>19. ASSUME NEW g \in Goals, MoveLast(g)
      PROVE  DoneInv'
  BY <1>19 DEF MoveLast, At, Goto, Sent, PublishArm, Reached, Point, flags, locals,
      stdin, others, env, TypeOK, ThreadTypeOK, SequenceTypeOK, OwnerInv, OneOwner,
      Owns, StageInv, StagesAt, DoneInv, Milestone, InSequence, Milestones
<1>20. ASSUME NEW g \in Goals, Close(g)
      PROVE  DoneInv'
  BY <1>20 DEF Close, At, Goto, Sent, Reached, flags, locals, stdin, others, env,
      TypeOK, ThreadTypeOK, SequenceTypeOK, OwnerInv, OneOwner, Owns, StageInv,
      StagesAt, DoneInv, Milestone, InSequence, Milestones
<1>21. ASSUME NEW g \in Goals, Test(g)
      PROVE  DoneInv'
  BY <1>21 DEF Test, At, Goto, NextStage, Return, flags, stdin, others, env, TypeOK,
      ThreadTypeOK, SequenceTypeOK, OwnerInv, OneOwner, Owns, StageInv, StagesAt,
      DoneInv, Milestone, InSequence, Milestones, RampTo
<1>22. ASSUME NEW g \in Goals, End(g)
      PROVE  DoneInv'
  BY <1>22 DEF End, At, Goto, flags, locals, stdin, others, data, TypeOK,
      ThreadTypeOK, SequenceTypeOK, OwnerInv, OneOwner, Owns, StageInv, StagesAt,
      DoneInv, Milestone, InSequence, Milestones
<1>23. ASSUME NEW g \in Goals, Conclude(g)
      PROVE  DoneInv'
  BY <1>23 DEF Conclude, At, Goto, Finish, flags, locals, stdin, others, data, TypeOK,
      ThreadTypeOK, SequenceTypeOK, OwnerInv, OneOwner, Owns, StageInv, StagesAt,
      DoneInv, Milestone, InSequence, Milestones
<1>24. ASSUME NEW g \in Goals, Release(g)
      PROVE  DoneInv'
  BY <1>24 DEF Release, At, Goto, locals, stdin, others, data, TypeOK, ThreadTypeOK,
      SequenceTypeOK, OwnerInv, OneOwner, Owns, StageInv, StagesAt, DoneInv,
      Milestone, InSequence, Milestones
<1>25. ASSUME NEW g \in Goals, Forget(g)
      PROVE  DoneInv'
  BY <1>25 DEF Forget, At, Goto, stdin, others, TypeOK, ThreadTypeOK, SequenceTypeOK,
      OwnerInv, OneOwner, Owns, StageInv, StagesAt, DoneInv, Milestone, InSequence,
      Milestones
<1>26. CASE PressT
  BY <1>26 DEF PressT, SetAbort, flags, locals, TypeOK, ThreadTypeOK, SequenceTypeOK,
      OwnerInv, OneOwner, Owns, StageInv, StagesAt, DoneInv, Milestone, InSequence,
      Milestones
<1> QED
  BY <1>0, <1>1, <1>2, <1>3, <1>4, <1>5, <1>6, <1>7, <1>8, <1>9, <1>10,
     <1>11, <1>12, <1>13, <1>14, <1>15, <1>16, <1>17, <1>18, <1>19, <1>20, <1>21,
     <1>22, <1>23, <1>24, <1>25, <1>26
     DEF Next, Cancel, Key, Callback, Sequence, vars, flags, locals, stdin, others, data

\* Only the last stage returns True, and only True ends in succeeded.
LEMMA ResultStep ==
  ASSUME TypeOK, OwnerInv, StageInv, DoneInv, ResultInv, [Next]_vars
  PROVE  ResultInv'
<1> DEFINE read == <<gst, pc, ok, did>>
<1>0. CASE UNCHANGED read
  BY <1>0 DEF TypeOK, ThreadTypeOK, SequenceTypeOK,
      StageInv, StagesAt, DoneInv, Milestone, ResultInv, InSequence, Milestones
<1>1. ASSUME NEW g \in Goals,
             CancelRequest(g) \/ CancelSet(g) \/
             CancelHold(g)
      PROVE  UNCHANGED read
  BY <1>1 DEF CancelRequest, CancelSet, CancelHold, SetAbort, Hold, flags, locals,
      stdin, data
<1>2. ASSUME PressS \/ PressT \/ KeyHold \/ KeyLook \/ OnArmState
      PROVE  UNCHANGED read
  BY <1>2 DEF PressS, PressT, KeyHold, KeyLook, OnArmState, SetAbort, Hold, flags,
      locals, stdin, others, data
<1>3. ASSUME NEW g \in Goals, GoalCallback(g)
      PROVE  ResultInv'
  BY <1>3 DEF GoalCallback, Goto, locals, stdin, others, data, TypeOK, ThreadTypeOK,
      SequenceTypeOK, StageInv, StagesAt, DoneInv, Milestone, ResultInv, InSequence,
      Milestones
<1>4. ASSUME NEW g \in Goals, CancelMove(g)
      PROVE  ResultInv'
  BY <1>4 DEF CancelMove, Finish, flags, locals, stdin, data, TypeOK, ThreadTypeOK,
      SequenceTypeOK, StageInv, StagesAt, DoneInv, Milestone, ResultInv, InSequence,
      Milestones
<1>5. ASSUME NEW g \in Goals, Execute(g)
      PROVE  ResultInv'
  BY <1>5 DEF Execute, At, Goto, ClearAbort, Finish, flags, locals, stdin, others,
      TypeOK, ThreadTypeOK, SequenceTypeOK, StageInv, StagesAt, DoneInv, Milestone,
      ResultInv, InSequence, Milestones
<1>6. ASSUME NEW g \in Goals, StoreHandle(g)
      PROVE  ResultInv'
  BY <1>6 DEF StoreHandle, At, Goto, locals, stdin, others, data, TypeOK,
      ThreadTypeOK, SequenceTypeOK, StageInv, StagesAt, DoneInv, Milestone, ResultInv,
      InSequence, Milestones
<1>7. ASSUME NEW g \in Goals, Prepare(g)
      PROVE  ResultInv'
  BY <1>7 DEF Prepare, At, Goto, locals, stdin, others, data, TypeOK, ThreadTypeOK,
      SequenceTypeOK, StageInv, StagesAt, DoneInv, Milestone, ResultInv, InSequence,
      Milestones
<1>8. ASSUME NEW g \in Goals, Wait(g)
      PROVE  ResultInv'
  BY <1>8 DEF Wait, At, Goto, locals, stdin, others, data, TypeOK, ThreadTypeOK,
      SequenceTypeOK, StageInv, StagesAt, DoneInv, Milestone, ResultInv, InSequence,
      Milestones
<1>9. ASSUME NEW g \in Goals, Begin(g)
      PROVE  ResultInv'
  BY <1>9 DEF Begin, At, Goto, ClearAbort, flags, stdin, others, TypeOK, ThreadTypeOK,
      SequenceTypeOK, StageInv, StagesAt, DoneInv, Milestone, ResultInv, InSequence,
      Milestones
<1>10. ASSUME NEW g \in Goals, PublishSafe(g)
      PROVE  ResultInv'
  BY <1>10 DEF PublishSafe, At, Goto, Sent, PublishArm, flags, locals, stdin, others,
      env, TypeOK, ThreadTypeOK, SequenceTypeOK, StageInv, StagesAt, DoneInv,
      Milestone, ResultInv, InSequence, Milestones
<1>11. ASSUME NEW g \in Goals, Near(g)
      PROVE  ResultInv'
  BY <1>11 DEF Near, At, Goto, NextStage, Count, Return, flags, stdin, others, env,
      TypeOK, ThreadTypeOK, SequenceTypeOK, StageInv, StagesAt, DoneInv, Milestone,
      ResultInv, InSequence, Milestones
<1>12. ASSUME NEW g \in Goals, Look(g)
      PROVE  ResultInv'
  BY <1>12 DEF Look, At, Goto, NextStage, Return, Reached, flags, locals, stdin,
      others, env, TypeOK, ThreadTypeOK, SequenceTypeOK, StageInv, StagesAt, DoneInv,
      Milestone, ResultInv, InSequence, Milestones
<1>13. ASSUME NEW g \in Goals, SetServo(g)
      PROVE  ResultInv'
  BY <1>13 DEF SetServo, At, Goto, Sent, flags, locals, stdin, others, env, TypeOK,
      ThreadTypeOK, SequenceTypeOK, StageInv, StagesAt, DoneInv, Milestone, ResultInv,
      InSequence, Milestones
<1>14. ASSUME NEW g \in Goals, SetMode(g)
      PROVE  ResultInv'
  BY <1>14 DEF SetMode, At, Goto, Sent, flags, locals, stdin, others, env, TypeOK,
      ThreadTypeOK, SequenceTypeOK, StageInv, StagesAt, DoneInv, Milestone, ResultInv,
      InSequence, Milestones
<1>15. ASSUME NEW g \in Goals, Ramp(g)
      PROVE  ResultInv'
  BY <1>15 DEF Ramp, At, Goto, flags, locals, stdin, others, env, TypeOK,
      ThreadTypeOK, SequenceTypeOK, StageInv, StagesAt, DoneInv, Milestone, ResultInv,
      InSequence, Milestones
<1>16. ASSUME NEW g \in Goals, Turn(g)
      PROVE  ResultInv'
  BY <1>16 DEF Turn, At, Goto, Sent, Count, RampTo, flags, stdin, others, env, TypeOK,
      ThreadTypeOK, SequenceTypeOK, StageInv, StagesAt, DoneInv, Milestone, ResultInv,
      InSequence, Milestones
<1>17. ASSUME NEW g \in Goals, Sample(g)
      PROVE  ResultInv'
  BY <1>17 DEF Sample, At, Goto, Hold, flags, locals, stdin, others, env, TypeOK,
      ThreadTypeOK, SequenceTypeOK, StageInv, StagesAt, DoneInv, Milestone, ResultInv,
      InSequence, Milestones
<1>18. ASSUME NEW g \in Goals, Move(g)
      PROVE  ResultInv'
  BY <1>18 DEF Move, At, Goto, Sent, PublishArm, Count, Point, flags, stdin, others,
      env, TypeOK, ThreadTypeOK, SequenceTypeOK, StageInv, StagesAt, DoneInv,
      Milestone, ResultInv, InSequence, Milestones
<1>19. ASSUME NEW g \in Goals, MoveLast(g)
      PROVE  ResultInv'
  BY <1>19 DEF MoveLast, At, Goto, Sent, PublishArm, Reached, Point, flags, locals,
      stdin, others, env, TypeOK, ThreadTypeOK, SequenceTypeOK, StageInv, StagesAt,
      DoneInv, Milestone, ResultInv, InSequence, Milestones
<1>20. ASSUME NEW g \in Goals, Close(g)
      PROVE  ResultInv'
  BY <1>20 DEF Close, At, Goto, Sent, Reached, flags, locals, stdin, others, env,
      TypeOK, ThreadTypeOK, SequenceTypeOK, StageInv, StagesAt, DoneInv, Milestone,
      ResultInv, InSequence, Milestones
<1>21. ASSUME NEW g \in Goals, Test(g)
      PROVE  ResultInv'
  BY <1>21 DEF Test, At, Goto, NextStage, Return, flags, stdin, others, env, TypeOK,
      ThreadTypeOK, SequenceTypeOK, StageInv, StagesAt, DoneInv, Milestone, ResultInv,
      InSequence, Milestones
<1>22. ASSUME NEW g \in Goals, End(g)
      PROVE  ResultInv'
  BY <1>22 DEF End, At, Goto, flags, locals, stdin, others, data, TypeOK,
      ThreadTypeOK, SequenceTypeOK, StageInv, StagesAt, DoneInv, Milestone, ResultInv,
      InSequence, Milestones
<1>23. ASSUME NEW g \in Goals, Conclude(g)
      PROVE  ResultInv'
  BY <1>23 DEF Conclude, At, Goto, Finish, flags, locals, stdin, others, data, TypeOK,
      ThreadTypeOK, SequenceTypeOK, StageInv, StagesAt, DoneInv, Milestone, ResultInv,
      InSequence, Milestones
<1>24. ASSUME NEW g \in Goals, Release(g)
      PROVE  ResultInv'
  BY <1>24 DEF Release, At, Goto, locals, stdin, others, data, TypeOK, ThreadTypeOK,
      SequenceTypeOK, StageInv, StagesAt, DoneInv, Milestone, ResultInv, InSequence,
      Milestones
<1>25. ASSUME NEW g \in Goals, Forget(g)
      PROVE  ResultInv'
  BY <1>25 DEF Forget, At, Goto, stdin, others, TypeOK, ThreadTypeOK, SequenceTypeOK,
      StageInv, StagesAt, DoneInv, Milestone, ResultInv, InSequence, Milestones
<1>26. CASE KeyAbort
  BY <1>26 DEF KeyAbort, Finish, flags, locals, data, TypeOK, ThreadTypeOK,
      SequenceTypeOK, StageInv, StagesAt, DoneInv, Milestone, ResultInv, InSequence,
      Milestones
<1> QED
  BY <1>0, <1>1, <1>2, <1>3, <1>4, <1>5, <1>6, <1>7, <1>8, <1>9, <1>10,
     <1>11, <1>12, <1>13, <1>14, <1>15, <1>16, <1>17, <1>18, <1>19, <1>20, <1>21,
     <1>22, <1>23, <1>24, <1>25, <1>26
     DEF Next, Cancel, Key, Callback, Sequence, vars, flags, locals, stdin, others, data

\* Between the end of the trajectory and stage 7 no target is sent but holds.
LEMMA GraspStep ==
  ASSUME TypeOK, OwnerInv, StageInv, GraspInv, [Next]_vars
  PROVE  GraspInv'
<1> DEFINE read == <<abort, pc, stage, cmd, mode>>
<1>0. CASE UNCHANGED read
  BY <1>0 DEF TypeOK, ThreadTypeOK, SequenceTypeOK,
      TargetTypeOK, OwnerInv, OneOwner, Owns, StageInv, StagesAt, GraspInv, AtGrasp,
      InSequence
<1>1. ASSUME NEW g \in Goals,
             CancelRequest(g) \/ CancelMove(g)
      PROVE  UNCHANGED read
  BY <1>1 DEF CancelRequest, CancelMove, Finish, flags, locals, stdin, data
<1>2. ASSUME PressS \/ KeyLook \/ KeyAbort \/ OnArmState
      PROVE  UNCHANGED read
  BY <1>2 DEF PressS, KeyLook, KeyAbort, OnArmState, Finish, flags, locals, stdin,
      others, data
<1>3. ASSUME NEW g \in Goals, GoalCallback(g)
      PROVE  GraspInv'
  BY <1>3 DEF GoalCallback, Goto, locals, stdin, others, data, TypeOK, ThreadTypeOK,
      SequenceTypeOK, TargetTypeOK, OwnerInv, OneOwner, Owns, StageInv, StagesAt,
      GraspInv, AtGrasp, InSequence
<1>4. ASSUME NEW g \in Goals, CancelSet(g)
      PROVE  GraspInv'
  BY <1>4 DEF CancelSet, SetAbort, flags, locals, stdin, TypeOK, ThreadTypeOK,
      SequenceTypeOK, TargetTypeOK, OwnerInv, OneOwner, Owns, StageInv, StagesAt,
      GraspInv, AtGrasp, InSequence
<1>5. ASSUME NEW g \in Goals, CancelHold(g)
      PROVE  GraspInv'
  BY <1>5 DEF CancelHold, Hold, flags, locals, stdin, TypeOK, ThreadTypeOK,
      SequenceTypeOK, TargetTypeOK, OwnerInv, OneOwner, Owns, StageInv, StagesAt,
      GraspInv, AtGrasp, InSequence
<1>6. ASSUME NEW g \in Goals, Execute(g)
      PROVE  GraspInv'
  BY <1>6 DEF Execute, At, Goto, ClearAbort, Finish, flags, locals, stdin, others,
      TypeOK, ThreadTypeOK, SequenceTypeOK, TargetTypeOK, OwnerInv, OneOwner, Owns,
      StageInv, StagesAt, GraspInv, AtGrasp, InSequence
<1>7. ASSUME NEW g \in Goals, StoreHandle(g)
      PROVE  GraspInv'
  BY <1>7 DEF StoreHandle, At, Goto, locals, stdin, others, data, TypeOK,
      ThreadTypeOK, SequenceTypeOK, TargetTypeOK, OwnerInv, OneOwner, Owns, StageInv,
      StagesAt, GraspInv, AtGrasp, InSequence
<1>8. ASSUME NEW g \in Goals, Prepare(g)
      PROVE  GraspInv'
  BY <1>8 DEF Prepare, At, Goto, locals, stdin, others, data, TypeOK, ThreadTypeOK,
      SequenceTypeOK, TargetTypeOK, OwnerInv, OneOwner, Owns, StageInv, StagesAt,
      GraspInv, AtGrasp, InSequence
<1>9. ASSUME NEW g \in Goals, Wait(g)
      PROVE  GraspInv'
  BY <1>9 DEF Wait, At, Goto, locals, stdin, others, data, TypeOK, ThreadTypeOK,
      SequenceTypeOK, TargetTypeOK, OwnerInv, OneOwner, Owns, StageInv, StagesAt,
      GraspInv, AtGrasp, InSequence
<1>10. ASSUME NEW g \in Goals, Begin(g)
      PROVE  GraspInv'
  BY <1>10 DEF Begin, At, Goto, ClearAbort, flags, stdin, others, TypeOK,
      ThreadTypeOK, SequenceTypeOK, TargetTypeOK, OwnerInv, OneOwner, Owns, StageInv,
      StagesAt, GraspInv, AtGrasp, InSequence
<1>11. ASSUME NEW g \in Goals, PublishSafe(g)
      PROVE  GraspInv'
  BY <1>11 DEF PublishSafe, At, Goto, Sent, PublishArm, flags, locals, stdin, others,
      env, TypeOK, ThreadTypeOK, SequenceTypeOK, TargetTypeOK, OwnerInv, OneOwner,
      Owns, StageInv, StagesAt, GraspInv, AtGrasp, InSequence
<1>12. ASSUME NEW g \in Goals, Near(g)
      PROVE  GraspInv'
  BY <1>12 DEF Near, At, Goto, NextStage, Count, Return, flags, stdin, others, env,
      TypeOK, ThreadTypeOK, SequenceTypeOK, TargetTypeOK, OwnerInv, OneOwner, Owns,
      StageInv, StagesAt, GraspInv, AtGrasp, InSequence
<1>13. ASSUME NEW g \in Goals, Look(g)
      PROVE  GraspInv'
  BY <1>13 DEF Look, At, Goto, NextStage, Return, Reached, flags, locals, stdin,
      others, env, TypeOK, ThreadTypeOK, SequenceTypeOK, TargetTypeOK, OwnerInv,
      OneOwner, Owns, StageInv, StagesAt, GraspInv, AtGrasp, InSequence
<1>14. ASSUME NEW g \in Goals, SetServo(g)
      PROVE  GraspInv'
  BY <1>14 DEF SetServo, At, Goto, Sent, flags, locals, stdin, others, env, TypeOK,
      ThreadTypeOK, SequenceTypeOK, TargetTypeOK, OwnerInv, OneOwner, Owns, StageInv,
      StagesAt, GraspInv, AtGrasp, InSequence
<1>15. ASSUME NEW g \in Goals, SetMode(g)
      PROVE  GraspInv'
  BY <1>15 DEF SetMode, At, Goto, Sent, flags, locals, stdin, others, env, TypeOK,
      ThreadTypeOK, SequenceTypeOK, TargetTypeOK, OwnerInv, OneOwner, Owns, StageInv,
      StagesAt, GraspInv, AtGrasp, InSequence
<1>16. ASSUME NEW g \in Goals, Ramp(g)
      PROVE  GraspInv'
  BY <1>16 DEF Ramp, At, Goto, flags, locals, stdin, others, env, TypeOK,
      ThreadTypeOK, SequenceTypeOK, TargetTypeOK, OwnerInv, OneOwner, Owns, StageInv,
      StagesAt, GraspInv, AtGrasp, InSequence
<1>17. ASSUME NEW g \in Goals, Turn(g)
      PROVE  GraspInv'
  BY <1>17 DEF Turn, At, Goto, Sent, Count, RampTo, flags, stdin, others, env, TypeOK,
      ThreadTypeOK, SequenceTypeOK, TargetTypeOK, OwnerInv, OneOwner, Owns, StageInv,
      StagesAt, GraspInv, AtGrasp, InSequence
<1>18. ASSUME NEW g \in Goals, Sample(g)
      PROVE  GraspInv'
  BY <1>18 DEF Sample, At, Goto, Hold, flags, locals, stdin, others, env, TypeOK,
      ThreadTypeOK, SequenceTypeOK, TargetTypeOK, OwnerInv, OneOwner, Owns, StageInv,
      StagesAt, GraspInv, AtGrasp, InSequence
<1>19. ASSUME NEW g \in Goals, Move(g)
      PROVE  GraspInv'
  BY <1>19 DEF Move, At, Goto, Sent, PublishArm, Count, Point, flags, stdin, others,
      env, TypeOK, ThreadTypeOK, SequenceTypeOK, TargetTypeOK, OwnerInv, OneOwner,
      Owns, StageInv, StagesAt, GraspInv, AtGrasp, InSequence
<1>20. ASSUME NEW g \in Goals, MoveLast(g)
      PROVE  GraspInv'
  BY <1>20 DEF MoveLast, At, Goto, Sent, PublishArm, Reached, Point, flags, locals,
      stdin, others, env, TypeOK, ThreadTypeOK, SequenceTypeOK, TargetTypeOK,
      OwnerInv, OneOwner, Owns, StageInv, StagesAt, GraspInv, AtGrasp, InSequence
<1>21. ASSUME NEW g \in Goals, Close(g)
      PROVE  GraspInv'
  BY <1>21 DEF Close, At, Goto, Sent, Reached, flags, locals, stdin, others, env,
      TypeOK, ThreadTypeOK, SequenceTypeOK, TargetTypeOK, OwnerInv, OneOwner, Owns,
      StageInv, StagesAt, GraspInv, AtGrasp, InSequence
<1>22. ASSUME NEW g \in Goals, Test(g)
      PROVE  GraspInv'
  BY <1>22 DEF Test, At, Goto, NextStage, Return, flags, stdin, others, env, TypeOK,
      ThreadTypeOK, SequenceTypeOK, TargetTypeOK, OwnerInv, OneOwner, Owns, StageInv,
      StagesAt, GraspInv, AtGrasp, InSequence
<1>23. ASSUME NEW g \in Goals, End(g)
      PROVE  GraspInv'
  BY <1>23 DEF End, At, Goto, flags, locals, stdin, others, data, TypeOK,
      ThreadTypeOK, SequenceTypeOK, TargetTypeOK, OwnerInv, OneOwner, Owns, StageInv,
      StagesAt, GraspInv, AtGrasp, InSequence
<1>24. ASSUME NEW g \in Goals, Conclude(g)
      PROVE  GraspInv'
  BY <1>24 DEF Conclude, At, Goto, Finish, flags, locals, stdin, others, data, TypeOK,
      ThreadTypeOK, SequenceTypeOK, TargetTypeOK, OwnerInv, OneOwner, Owns, StageInv,
      StagesAt, GraspInv, AtGrasp, InSequence
<1>25. ASSUME NEW g \in Goals, Release(g)
      PROVE  GraspInv'
  BY <1>25 DEF Release, At, Goto, locals, stdin, others, data, TypeOK, ThreadTypeOK,
      SequenceTypeOK, TargetTypeOK, OwnerInv, OneOwner, Owns, StageInv, StagesAt,
      GraspInv, AtGrasp, InSequence
<1>26. ASSUME NEW g \in Goals, Forget(g)
      PROVE  GraspInv'
  BY <1>26 DEF Forget, At, Goto, stdin, others, TypeOK, ThreadTypeOK, SequenceTypeOK,
      TargetTypeOK, OwnerInv, OneOwner, Owns, StageInv, StagesAt, GraspInv, AtGrasp,
      InSequence
<1>27. CASE PressT
  BY <1>27 DEF PressT, SetAbort, flags, locals, TypeOK, ThreadTypeOK, SequenceTypeOK,
      TargetTypeOK, OwnerInv, OneOwner, Owns, StageInv, StagesAt, GraspInv, AtGrasp,
      InSequence
<1>28. CASE KeyHold
  BY <1>28 DEF KeyHold, Hold, flags, locals, TypeOK, ThreadTypeOK, SequenceTypeOK,
      TargetTypeOK, OwnerInv, OneOwner, Owns, StageInv, StagesAt, GraspInv, AtGrasp,
      InSequence
<1> QED
  BY <1>0, <1>1, <1>2, <1>3, <1>4, <1>5, <1>6, <1>7, <1>8, <1>9, <1>10,
     <1>11, <1>12, <1>13, <1>14, <1>15, <1>16, <1>17, <1>18, <1>19, <1>20, <1>21,
     <1>22, <1>23, <1>24, <1>25, <1>26, <1>27, <1>28
     DEF Next, Cancel, Key, Callback, Sequence, vars, flags, locals, stdin, others, data

\* Every place allows as many more targets as LateInv counts.
LEMMA LateStep ==
  ASSUME TypeOK, OwnerInv, StageInv, LateInv, [Next]_vars
  PROVE  LateInv'
<1> DEFINE read == <<abort, pc, stage, k, late>>
<1>0. CASE UNCHANGED read
  BY <1>0 DEF TypeOK, ThreadTypeOK, SequenceTypeOK,
      OwnerInv, OneOwner, Owns, StageInv, StagesAt, LateInv, Left
<1>1. ASSUME NEW g \in Goals,
             CancelRequest(g) \/ CancelHold(g) \/
             CancelMove(g)
      PROVE  UNCHANGED read
  BY <1>1 DEF CancelRequest, CancelHold, CancelMove, Hold, Finish, flags, locals,
      stdin, data
<1>2. ASSUME PressS \/ KeyHold \/ KeyLook \/ KeyAbort \/ OnArmState
      PROVE  UNCHANGED read
  BY <1>2 DEF PressS, KeyHold, KeyLook, KeyAbort, OnArmState, Hold, Finish, flags,
      locals, stdin, others, data
<1>3. ASSUME NEW g \in Goals, GoalCallback(g)
      PROVE  LateInv'
  BY <1>3 DEF GoalCallback, Goto, locals, stdin, others, data, TypeOK, ThreadTypeOK,
      SequenceTypeOK, OwnerInv, OneOwner, Owns, StageInv, StagesAt, LateInv, Left
<1>4. ASSUME NEW g \in Goals, CancelSet(g)
      PROVE  LateInv'
  BY <1>4 DEF CancelSet, SetAbort, flags, locals, stdin, TypeOK, ThreadTypeOK,
      SequenceTypeOK, OwnerInv, OneOwner, Owns, StageInv, StagesAt, LateInv, Left
<1>5. ASSUME NEW g \in Goals, Execute(g)
      PROVE  LateInv'
  BY <1>5 DEF Execute, At, Goto, ClearAbort, Finish, flags, locals, stdin, others,
      TypeOK, ThreadTypeOK, SequenceTypeOK, OwnerInv, OneOwner, Owns, StageInv,
      StagesAt, LateInv, Left
<1>6. ASSUME NEW g \in Goals, StoreHandle(g)
      PROVE  LateInv'
  BY <1>6 DEF StoreHandle, At, Goto, locals, stdin, others, data, TypeOK,
      ThreadTypeOK, SequenceTypeOK, OwnerInv, OneOwner, Owns, StageInv, StagesAt,
      LateInv, Left
<1>7. ASSUME NEW g \in Goals, Prepare(g)
      PROVE  LateInv'
  BY <1>7 DEF Prepare, At, Goto, locals, stdin, others, data, TypeOK, ThreadTypeOK,
      SequenceTypeOK, OwnerInv, OneOwner, Owns, StageInv, StagesAt, LateInv, Left
<1>8. ASSUME NEW g \in Goals, Wait(g)
      PROVE  LateInv'
  BY <1>8 DEF Wait, At, Goto, locals, stdin, others, data, TypeOK, ThreadTypeOK,
      SequenceTypeOK, OwnerInv, OneOwner, Owns, StageInv, StagesAt, LateInv, Left
<1>9. ASSUME NEW g \in Goals, Begin(g)
      PROVE  LateInv'
  BY <1>9 DEF Begin, At, Goto, ClearAbort, flags, stdin, others, TypeOK, ThreadTypeOK,
      SequenceTypeOK, OwnerInv, OneOwner, Owns, StageInv, StagesAt, LateInv, Left
<1>10. ASSUME NEW g \in Goals, PublishSafe(g)
      PROVE  LateInv'
  BY <1>10 DEF PublishSafe, At, Goto, Sent, PublishArm, flags, locals, stdin, others,
      env, TypeOK, ThreadTypeOK, SequenceTypeOK, OwnerInv, OneOwner, Owns, StageInv,
      StagesAt, LateInv, Left
<1>11. ASSUME NEW g \in Goals, Near(g)
      PROVE  LateInv'
  BY <1>11 DEF Near, At, Goto, NextStage, Count, Return, flags, stdin, others, env,
      TypeOK, ThreadTypeOK, SequenceTypeOK, OwnerInv, OneOwner, Owns, StageInv,
      StagesAt, LateInv, Left
<1>12. ASSUME NEW g \in Goals, Look(g)
      PROVE  LateInv'
  BY <1>12 DEF Look, At, Goto, NextStage, Return, Reached, flags, locals, stdin,
      others, env, TypeOK, ThreadTypeOK, SequenceTypeOK, OwnerInv, OneOwner, Owns,
      StageInv, StagesAt, LateInv, Left
<1>13. ASSUME NEW g \in Goals, SetServo(g)
      PROVE  LateInv'
  BY <1>13 DEF SetServo, At, Goto, Sent, flags, locals, stdin, others, env, TypeOK,
      ThreadTypeOK, SequenceTypeOK, OwnerInv, OneOwner, Owns, StageInv, StagesAt,
      LateInv, Left
<1>14. ASSUME NEW g \in Goals, SetMode(g)
      PROVE  LateInv'
  BY <1>14 DEF SetMode, At, Goto, Sent, flags, locals, stdin, others, env, TypeOK,
      ThreadTypeOK, SequenceTypeOK, OwnerInv, OneOwner, Owns, StageInv, StagesAt,
      LateInv, Left
<1>15. ASSUME NEW g \in Goals, Ramp(g)
      PROVE  LateInv'
  BY <1>15 DEF Ramp, At, Goto, flags, locals, stdin, others, env, TypeOK,
      ThreadTypeOK, SequenceTypeOK, OwnerInv, OneOwner, Owns, StageInv, StagesAt,
      LateInv, Left
<1>16. ASSUME NEW g \in Goals, Turn(g)
      PROVE  LateInv'
  BY <1>16 DEF Turn, At, Goto, Sent, Count, RampTo, flags, stdin, others, env, TypeOK,
      ThreadTypeOK, SequenceTypeOK, OwnerInv, OneOwner, Owns, StageInv, StagesAt,
      LateInv, Left
<1>17. ASSUME NEW g \in Goals, Sample(g)
      PROVE  LateInv'
  BY <1>17 DEF Sample, At, Goto, Hold, flags, locals, stdin, others, env, TypeOK,
      ThreadTypeOK, SequenceTypeOK, OwnerInv, OneOwner, Owns, StageInv, StagesAt,
      LateInv, Left
<1>18. ASSUME NEW g \in Goals, Move(g)
      PROVE  LateInv'
  BY <1>18 DEF Move, At, Goto, Sent, PublishArm, Count, Point, flags, stdin, others,
      env, TypeOK, ThreadTypeOK, SequenceTypeOK, OwnerInv, OneOwner, Owns, StageInv,
      StagesAt, LateInv, Left
<1>19. ASSUME NEW g \in Goals, MoveLast(g)
      PROVE  LateInv'
  BY <1>19 DEF MoveLast, At, Goto, Sent, PublishArm, Reached, Point, flags, locals,
      stdin, others, env, TypeOK, ThreadTypeOK, SequenceTypeOK, OwnerInv, OneOwner,
      Owns, StageInv, StagesAt, LateInv, Left
<1>20. ASSUME NEW g \in Goals, Close(g)
      PROVE  LateInv'
  BY <1>20 DEF Close, At, Goto, Sent, Reached, flags, locals, stdin, others, env,
      TypeOK, ThreadTypeOK, SequenceTypeOK, OwnerInv, OneOwner, Owns, StageInv,
      StagesAt, LateInv, Left
<1>21. ASSUME NEW g \in Goals, Test(g)
      PROVE  LateInv'
  BY <1>21 DEF Test, At, Goto, NextStage, Return, flags, stdin, others, env, TypeOK,
      ThreadTypeOK, SequenceTypeOK, OwnerInv, OneOwner, Owns, StageInv, StagesAt,
      LateInv, Left
<1>22. ASSUME NEW g \in Goals, End(g)
      PROVE  LateInv'
  BY <1>22 DEF End, At, Goto, flags, locals, stdin, others, data, TypeOK,
      ThreadTypeOK, SequenceTypeOK, OwnerInv, OneOwner, Owns, StageInv, StagesAt,
      LateInv, Left
<1>23. ASSUME NEW g \in Goals, Conclude(g)
      PROVE  LateInv'
  BY <1>23 DEF Conclude, At, Goto, Finish, flags, locals, stdin, others, data, TypeOK,
      ThreadTypeOK, SequenceTypeOK, OwnerInv, OneOwner, Owns, StageInv, StagesAt,
      LateInv, Left
<1>24. ASSUME NEW g \in Goals, Release(g)
      PROVE  LateInv'
  BY <1>24 DEF Release, At, Goto, locals, stdin, others, data, TypeOK, ThreadTypeOK,
      SequenceTypeOK, OwnerInv, OneOwner, Owns, StageInv, StagesAt, LateInv, Left
<1>25. ASSUME NEW g \in Goals, Forget(g)
      PROVE  LateInv'
  BY <1>25 DEF Forget, At, Goto, stdin, others, TypeOK, ThreadTypeOK, SequenceTypeOK,
      OwnerInv, OneOwner, Owns, StageInv, StagesAt, LateInv, Left
<1>26. CASE PressT
  BY <1>26 DEF PressT, SetAbort, flags, locals, TypeOK, ThreadTypeOK, SequenceTypeOK,
      OwnerInv, OneOwner, Owns, StageInv, StagesAt, LateInv, Left
<1> QED
  BY <1>0, <1>1, <1>2, <1>3, <1>4, <1>5, <1>6, <1>7, <1>8, <1>9, <1>10,
     <1>11, <1>12, <1>13, <1>14, <1>15, <1>16, <1>17, <1>18, <1>19, <1>20, <1>21,
     <1>22, <1>23, <1>24, <1>25, <1>26
     DEF Next, Cancel, Key, Callback, Sequence, vars, flags, locals, stdin, others, data

\* The invariant holds at the start and is kept by every step.
LEMMA OrchestratorInvariant == Spec => []OrchInv
<1>1. Init => OrchInv
  <2> SUFFICES ASSUME Init PROVE OrchInv
    OBVIOUS
  <2>1. ThreadTypeOK
    BY DEF Init, ThreadTypeOK, Places, Statuses
  <2>2. SequenceTypeOK
    BY DEF Init, SequenceTypeOK
  <2>3. TargetTypeOK
    BY DEF Init, TargetTypeOK, Poses
  <2>4. OwnerInv /\ StageInv /\ DoneInv
    BY DEF Init, OwnerInv, OneOwner, Owns, StageInv, StagesAt, DoneInv, Milestone,
      InSequence
  <2>5. ResultInv /\ GraspInv /\ LateInv
    BY DEF Init, ResultInv, GraspInv, LateInv, InSequence
  <2> QED
    BY <2>1, <2>2, <2>3, <2>4, <2>5 DEF OrchInv, TypeOK
<1>2. OrchInv /\ [Next]_vars => OrchInv'
  <2> SUFFICES ASSUME OrchInv, [Next]_vars PROVE OrchInv'
    OBVIOUS
  <2>1. TypeOK'
    BY ThreadTypeStep, SequenceTypeStep, TargetTypeStep DEF OrchInv, TypeOK, ThreadTypeOK
  <2>2. OwnerInv' /\ StageInv'
    BY OwnerStep, StageStep DEF OrchInv, TypeOK
  <2>3. DoneInv' /\ ResultInv' /\ GraspInv' /\ LateInv'
    BY DoneStep, ResultStep, GraspStep, LateStep DEF OrchInv
  <2> QED
    BY <2>1, <2>2, <2>3 DEF OrchInv
<1> QED
  BY <1>1, <1>2, PTL DEF Spec

\* Types.
THEOREM OrchestratorTypes == Spec => []TypeOK
<1>1. OrchInv => TypeOK
  BY DEF OrchInv
<1> QED
  BY <1>1, OrchestratorInvariant, PTL

\* However goals, cancel requests and keys interleave, one callback at a time
\* drives the arm and the hand.
THEOREM OneGoalAtATime == Spec => []OneOwner
<1>1. OrchInv => OneOwner
  BY DEF OrchInv, OwnerInv
<1> QED
  BY <1>1, OrchestratorInvariant, PTL

\* The hand closes only in place, at the end of the goal's own trajectory.
THEOREM ClosesOnlyAtGrasp == Spec => []ClosesAtGrasp
<1>1. OrchInv => ClosesAtGrasp
  BY DEF OrchInv, ClosesAtGrasp, At, DoneInv, StageInv, StagesAt, GraspInv, AtGrasp,
    InSequence
<1> QED
  BY <1>1, OrchestratorInvariant, PTL

\* A goal reported as succeeded has been through every stage.
THEOREM SucceededMeansComplete == Spec => []SucceededIsComplete
<1>1. OrchInv => SucceededIsComplete
  BY DEF OrchInv, SucceededIsComplete, At, ResultInv
<1> QED
  BY <1>1, OrchestratorInvariant, PTL

\* At most two targets go out after an abort, for any length of trajectory,
\* ramp and wait.
THEOREM AbortStopsSoon == Spec => []StopsSoon
<1>1. OrchInv => StopsSoon
  BY DEF OrchInv, LateInv, StopsSoon
<1> QED
  BY <1>1, OrchestratorInvariant, PTL
=============================================================================
