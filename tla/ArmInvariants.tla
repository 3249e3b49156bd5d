---------------------------- MODULE ArmInvariants ----------------------------
(***************************************************************************)
(* The inductive invariants behind the safety properties of ArmSystem: what *)
(* holds between the steps, label by label.                                *)
(***************************************************************************)
EXTENDS ArmSystem

ValidRow(i) == validateWaypoint(wp[i]) /\ validTime(tm, i)

\* Rows are validated as the cursor passes them; a copy that got through is
\* valid in all its rows until it is dropped.
CopyInv ==
    /\ pc \in {"copy", "copy_t"} => n \in Pts /\ ci <= n /\ \A i \in 1 .. ci - 1 : ValidRow(i)
    /\ pc \in {"follow", "done", "resync"} => n \in Pts /\ \A i \in 1 .. n : ValidRow(i)

\* Outside a motion, an uncommanded Arm_j_tar is the pose; while one of the two
\* is being copied to the other, it is so as far as the cursor has come.
StillInv ==
    /\ pc \in {"done", "resync"} => pose = wp[n]
    /\ pc \in {"sync", "sync_speed", "sync_state", "sync_idle", "sync_len"}
         => last_target = pose
    /\ ~commanded =>
         /\ pc \in {"sync", "resync"} => \A j \in 1 .. cj - 1 : Arm_j_tar[j] = pose[j]
         /\ pc \in {"sync_speed", "sync_state", "sync_idle", "sync_len", "poll", "reread",
                    "mark", "len", "copy", "copy_t", "reject", "target", "speed", "move"}
              => Arm_j_tar = pose
         /\ pc = "target" => \A j \in 1 .. cj - 1 : target[j] = pose[j]
         /\ pc \in {"speed", "move"} => target = pose

\* The cursors are at their start between two passes, and no copy is kept
\* outside executeTrajFromShm.
CursorInv ==
    /\ pc \notin {"sync", "copy", "resync", "target"} => cj = 1
    /\ pc \notin {"copy", "copy_t", "reject", "follow", "abort", "done", "resync"}
         => ci = 1 /\ wp = BlankQ /\ tm = BlankT
    /\ bpc \notin {"q", "target"} => bj = 1
    /\ bpc \notin {"q", "t"} => bi = 1
    /\ bpc \in {"q", "t"} => bi <= pub.len

SafetyInv == TypeOK /\ CopyInv /\ StartsOnce /\ CursorInv /\ StillInv
-----------------------------------------------------------------------------
(* With one trajectory at a time, buffer and copy agree with what was      *)
(* posted                                                                  *)

Writing == bpc \in {"len", "q", "t", "publish"}

\* trajState tells who owns the buffer.
OwnerInv ==
    /\ Writing => trajState \in {ARM_TRAJ_IDLE, ARM_TRAJ_DONE}
    /\ pc = "mark" => trajState = ARM_TRAJ_PENDING
    /\ pc \in Executing \ {"mark", "resync"} => trajState = ARM_TRAJ_EXECUTING

BlankAfter(t) == \A i \in Pts : i > t.len => t.q[i] = ZeroConfig /\ t.t[i] = 0

\* SyncLen may set len to 0 under a writer or a pending trajectory.
LenOf(t) == trajLen \in {t.len, 0}

RowsOf(t, k) == \A i \in 1 .. k : trajQ[i] = t.q[i] /\ trajT[i] = t.t[i]

BufferInv ==
    /\ BlankAfter(pub) /\ BlankAfter(posted)
    /\ bpc \in {"q", "t", "publish"} => LenOf(pub)
    /\ bpc \in {"q", "t"} => RowsOf(pub, bi - 1)
    /\ bpc = "q" => \A j \in 1 .. bj - 1 : trajQ[bi][j] = pub.q[bi][j]
    /\ bpc = "t" => trajQ[bi] = pub.q[bi]
    /\ bpc = "publish" => RowsOf(pub, pub.len)
    /\ (trajState = ARM_TRAJ_PENDING \/ pc \in {"len", "copy", "copy_t"})
         => LenOf(posted) /\ RowsOf(posted, posted.len)

ReadInv ==
    /\ pc \in {"copy", "copy_t"} =>
         /\ n = posted.len
         /\ \A i \in 1 .. ci - 1 : wp[i] = posted.q[i] /\ tm[i] = posted.t[i]
         /\ \A i \in Pts : (i > ci => wp[i] = ZeroConfig) /\ (i >= ci => tm[i] = 0)
    /\ pc = "copy" => \A j \in 1 .. cj - 1 : wp[ci][j] = posted.q[ci][j]
    /\ pc = "copy_t" => wp[ci] = posted.q[ci]

HandshakeInv == OwnerInv /\ BufferInv /\ ReadInv /\ FollowsPosted
=============================================================================
