-------------------------- MODULE DtmSegmentProofs --------------------------
(***************************************************************************)
(* The segments' part of the inductive invariant of Dtm: what is still     *)
(* running in QEs whose QD has let go of its gang, or has gone, and what a *)
(* step of the master leaves of the local transactions.                    *)
(***************************************************************************)
EXTENDS DtmTypeProofs

-----------------------------------------------------------------------------
(* Local transactions *)

(* A segment agrees with a session that is aborting: all that matters is which
   segments have been asked, and that no QE works where the transaction is not. *)
LEMMA SegmentAborting ==
  ASSUME NEW h \in Gxacts, NEW s \in Segs, SegmentInv(h, s), state'[h] \in AbortPath,
         UNCHANGED <<target, fate, local, logVars>>, h \notin inserted,
         s \notin target[h] => qe'[h][s] # "WRITER",
         s \in target[h] /\ cmd'[h] # "NONE" => reply'[h][s] # "none",
         fate[h] # "idle"
  PROVE  SegmentInv(h, s)'
BY Zenon DEF logVars, SegmentInv, AbortPath, CommitPath, Voted

(* A segment agrees with a session that has ended without a commit. *)
LEMMA SegmentAborted ==
  ASSUME NEW h \in Gxacts, NEW s \in Segs, SegmentInv(h, s), state'[h] = "NONE",
         UNCHANGED <<target, local, logVars>>, h \notin inserted, durable \subseteq inserted,
         qe'[h][s] = "NONE", cmd'[h] = "NONE", fate[h] # "idle", fate'[h] # "idle"
  PROVE  SegmentInv(h, s)'
BY Zenon DEF logVars, SegmentInv, CommitPath, Voted

(* A segment agrees with a session that has died with the master. *)
LEMMA SegmentDown ==
  ASSUME Inv, MasterDown, NEW h \in Gxacts, NEW s \in Segs, SegmentInv(h, s)
  PROVE  SegmentInv(h, s)'
<1>1. /\ state'[h] = "NONE" /\ qe'[h][s] = "NONE" /\ cmd'[h] = "NONE" /\ dtm' = "down"
      /\ reply'[h][s] = "none" /\ (fate'[h] = "idle" <=> fate[h] = "idle")
  BY Zenon, SessionsAre DEF MasterDown, NoReply, NoGang
<1>2. UNCHANGED <<target, local, forgot>> /\ inserted' \subseteq inserted /\ durable \subseteq durable'
  BY Zenon DEF MasterDown
<1>3. QED
  BY Zenon, <1>1, <1>2 DEF SegmentInv, CommitPath, Voted

(* A segment agrees with a session that recovery stands in for: recovery forgets
   what is no longer prepared and keeps what is. *)
LEMMA SegmentRecovering ==
  ASSUME NEW h \in Gxacts, NEW s \in Segs, SegmentInv(h, s), state[h] = "NONE",
         UNCHANGED <<qdVars, inserted, durable, cmd[h], reply[h][s], qe[h][s], local[h][s]>>,
         h \in forgot' => h \in forgot \/ local[h][s] # "prepared",
         dtm' # "down" /\ h \in durable /\ local[h][s] = "prepared" =>
           dtm' \in {"due", "recover"} /\ h \in todo'
  PROVE  SegmentInv(h, s)'
BY Zenon DEF qdVars, SegmentInv

(* Segments and sessions agree while a client works in a distributed transaction and
   asks for phase one. *)
LEMMA SegmentWork ==
  ASSUME Inv, TypeOK', NEW h \in Gxacts, NEW s \in Segs,
         NEW g \in Gxacts, WorkStep(g)
  PROVE  SegmentInv(h, s)'
<1>0. /\ TypeOK /\ SessionInv(h) /\ RecoveryInv
  BY Zenon DEF Inv
<1>i. /\ SegmentInv(h, s) /\ (cmd[h] = "NONE" => reply[h][s] = "none")
      /\ durable \subseteq inserted /\ forgot \subseteq durable
  BY Zenon, SegmentFacts
<1>t. Tables
  BY Zenon, TablesTyped DEF Inv
<1>1. CASE Begin(g)
  BY <1>i, <1>t, <1>1, SessionsAre
     DEF Begin, SetState, callVars, logVars, SegmentInv, StartInv, CommitPath, AbortPath,
         Voted, Tables
<1>2. CASE EndNotDistributed(g)
  BY <1>i, <1>2
     DEF EndNotDistributed, Clear, logVars, recVars, NoGang, SegmentInv, StartInv,
         CommitPath, Tables
<1>3. ASSUME NEW T \in {Segs} \cup {{x} : x \in Segs}, GoDistributed(g, T) PROVE SegmentInv(h, s)'
  <2>1. T # {} /\ T \subseteq Segs
    BY Zenon, SegsNonEmpty
  <2>2. QED
    BY <1>0, <1>i, <1>t, <1>3, <2>1, SessionsAre
       DEF GoDistributed, SetState, logVars, recVars, SegmentInv, StartInv, CommitPath,
           AbortPath, Voted, SessionInv, Awaits, Tables
<1>4. CASE Promote(g)
  BY <1>0, <1>i, <1>t, <1>4, SessionsAre
     DEF Promote, Send, Gang, logVars, recVars, NoGang, SegmentInv, StartInv, CommitPath,
         Voted, SessionInv, Tables
<1>5. CASE Promoted(g)
  BY <1>i, <1>t, <1>5
     DEF Promoted, EndCall, Answered, Succeeded, qdVars, logVars, recVars, NoReply, NoGang,
         SegmentInv, StartInv, Tables
<1>6. CASE Prepare(g)
  BY <1>i, <1>t, <1>6
     DEF Prepare, Send, SetState, Gang, logVars, recVars, NoGang, SegmentInv, StartInv,
         CommitPath, Voted, Tables
<1>7. CASE Prepared(g)
  BY <1>0, <1>i, <1>t, <1>7, SessionsAre
     DEF Prepared, EndCall, SetState, Answered, Succeeded, logVars, recVars, NoReply,
         SegmentInv, StartInv, SessionInv, Awaits, Tables
<1>8. QED
  BY Zenon, <1>1, <1>2, <1>3, <1>4, <1>5, <1>6, <1>7 DEF WorkStep

(* Segments and sessions agree while the QD commits. *)
LEMMA SegmentCommit ==
  ASSUME Inv, TypeOK', NEW h \in Gxacts, NEW s \in Segs,
         NEW g \in Gxacts, CommitStep(g)
  PROVE  SegmentInv(h, s)'
<1>0. /\ TypeOK /\ SessionInv(h) /\ RecoveryInv
  BY Zenon DEF Inv
<1>i. /\ SegmentInv(h, s) /\ (cmd[h] = "NONE" => reply[h][s] = "none")
      /\ durable \subseteq inserted /\ forgot \subseteq durable
  BY Zenon, SegmentFacts
<1>t. Tables
  BY Zenon, TablesTyped DEF Inv
<1>1. CASE InsertingDistributedCommitted(g)
  BY <1>i, <1>1, SessionsAre
     DEF InsertingDistributedCommitted, SetState, callVars, logVars, recVars, SegmentInv,
         StartInv, Voted
<1>2. CASE InsertedDistributedCommitted(g)
  BY <1>0, <1>i, <1>t, <1>2
     DEF InsertedDistributedCommitted, SetState, callVars, recVars, SegmentInv, StartInv,
         AbortPath, Voted, SessionInv, Awaits, Tables
<1>3. CASE FlushCommit(g)
  BY Zenon, <1>0, <1>i, <1>t, <1>3
     DEF FlushCommit, qdVars, callVars, recVars, SegmentInv, StartInv, SessionInv
<1>4. CASE NotifyCommitPrepared(g)
  BY <1>i, <1>t, <1>4
     DEF NotifyCommitPrepared, Send, SetState, Gang, logVars, recVars, NewGang, SegmentInv,
         StartInv, CommitPath, Voted, Tables
<1>5. CASE CommitNotified(g)
  BY <1>0, <1>i, <1>t, <1>5
     DEF CommitNotified, EndCall, SetState, Answered, Succeeded, recVars, NoReply,
         SegmentInv, StartInv, CommitPath, Voted, SessionInv, Awaits, Tables
<1>6. CASE CommitNotifyFailed(g)
  BY <1>0, <1>i, <1>t, <1>6
     DEF CommitNotifyFailed, EndCall, SetState, Answered, logVars, recVars, NoReply,
         SegmentInv, StartInv, CommitPath, Voted, SessionInv, Awaits, Tables
<1>7. CASE RetryCommitPrepared(g)
  BY <1>i, <1>t, <1>7
     DEF RetryCommitPrepared, Send, NewGang, logVars, recVars, SegmentInv, StartInv,
         CommitPath, Voted, Tables
<1>8. CASE Committed(g)
  BY <1>0, <1>i, <1>t, <1>8
     DEF Committed, Clear, logVars, recVars, NoGang, SegmentInv, StartInv, CommitPath,
         Voted, SessionInv
<1>9. QED
  BY Zenon, <1>1, <1>2, <1>3, <1>4, <1>5, <1>6, <1>7, <1>8 DEF CommitStep

(* Segments and sessions agree while the QD aborts. *)
LEMMA SegmentAbort ==
  ASSUME Inv, TypeOK', NEW h \in Gxacts, NEW s \in Segs,
         NEW g \in Gxacts, AbortStep(g)
  PROVE  SegmentInv(h, s)'
<1>0. /\ TypeOK /\ SessionInv(h)
  BY Zenon DEF Inv
<1>i. /\ SegmentInv(h, s) /\ (cmd[h] = "NONE" => reply[h][s] = "none")
      /\ durable \subseteq inserted /\ forgot \subseteq durable
  BY Zenon, SegmentFacts
<1>t. Tables /\ h \in Sessions /\ g \in Sessions
  BY Zenon, TablesTyped, SessionsAre DEF Inv
<1>f. DOMAIN fate = Gxacts /\ fate = [x \in Gxacts |-> fate[x]]
  BY Zenon, <1>0 DEF TypeOK
<1>1. CASE RollbackActive(g)
  BY <1>i, <1>t, <1>1
     DEF RollbackActive, Send, SetState, Gang, logVars, recVars, NewGang, SegmentInv,
         StartInv, CommitPath, Voted, Tables
<1>2. CASE AbortNoPreparedEnds(g)
  BY <1>0, <1>i, <1>t, <1>2, SessionsAre
     DEF AbortNoPreparedEnds, EndCall, Clear, Answered, logVars, recVars, NoGang, NoReply,
         SegmentInv, StartInv, CommitPath, AbortPath, Voted, SessionInv, Awaits, Tables
<1>3. CASE AbortSomePrepared(g)
  BY <1>i, <1>t, <1>3, SessionsAre
     DEF AbortSomePrepared, Send, SetState, Succeeded, Gang, Lost, logVars, recVars,
         NewGang, NoGang, SegmentInv, StartInv, CommitPath, Voted, Tables
<1>4. CASE PrepareBadGangs(g)
  BY <1>i, <1>t, <1>4
     DEF PrepareBadGangs, EndCall, SetState, logVars, recVars, SegmentInv, StartInv,
         CommitPath, Voted, Tables
<1>5. CASE RollbackPrepared(g)
  BY Zenon, <1>i, <1>t, <1>5
     DEF RollbackPrepared, Send, SetState, Gang, logVars, recVars, NewGang, SegmentInv,
         StartInv, Voted, Tables
<1>6. CASE AbortBroadcastEnds(g)
  <2>1. UNCHANGED <<target, fate, qe, local, logVars, recVars>>
    BY Zenon, <1>6 DEF AbortBroadcastEnds
  <2>2. CASE h = g
    <3>1. h \notin inserted /\ fate[h] # "idle" /\ state'[h] \in AbortPath
      BY Zenon, <1>0, <1>t, <1>6, <2>2
         DEF AbortBroadcastEnds, Answered, SetState, SessionInv, Awaits, CommitPath, AbortPath, Tables
    <3>2. cmd'[h] = "NONE" /\ (s \notin target[h] => qe'[h][s] # "WRITER")
      BY Zenon, <1>i, <1>t, <1>6, <2>1, <2>2 DEF AbortBroadcastEnds, EndCall, SegmentInv, Tables
    <3>3. QED
      BY Zenon, <1>i, <2>1, <3>1, <3>2, SegmentAborting
  <2>3. CASE h # g
    <3>1. UNCHANGED <<cmd[h], reply[h]>>
      BY Zenon, <1>t, <1>6, <2>3, EndCallAside DEF AbortBroadcastEnds
    <3>2. state'[h] = state[h]
      BY Zenon, <1>t, <1>6, <2>3 DEF AbortBroadcastEnds, SetState, Tables
    <3>3. QED
      BY Zenon, <1>i, <2>1, <3>1, <3>2, SegmentRow DEF recVars
  <2>4. QED
    BY Zenon, <2>2, <2>3
<1>7. CASE RetryAbortPrepared(g)
  <2>1. UNCHANGED <<target, fate, local, logVars, recVars>>
    BY Zenon, <1>7 DEF RetryAbortPrepared
  <2>2. CASE h = g
    <3>1. h \notin inserted /\ fate[h] # "idle" /\ state'[h] \in AbortPath
      BY Zenon, <1>0, <1>t, <1>7, <2>2 DEF RetryAbortPrepared, AbortsPrepared, SessionInv, CommitPath, AbortPath, Tables
    <3>2. qe'[h][s] # "WRITER" /\ reply'[h][s] # "none"
      BY Zenon, <1>t, <1>7, <2>2 DEF RetryAbortPrepared, Send, NewGang, Tables
    <3>3. QED
      BY Zenon, <1>i, <2>1, <3>1, <3>2, SegmentAborting
  <2>3. CASE h # g
    <3>1. UNCHANGED <<cmd[h], reply[h], qe[h]>>
      BY Zenon, <1>t, <1>7, <2>3, SendAside DEF RetryAbortPrepared
    <3>2. state'[h] = state[h]
      BY Zenon, <1>t, <1>7, <2>3 DEF RetryAbortPrepared, SetState, Tables
    <3>3. QED
      BY Zenon, <1>i, <2>1, <3>1, <3>2, SegmentRow DEF recVars
  <2>4. QED
    BY Zenon, <2>2, <2>3
<1>8. CASE Aborted(g)
  <2>1. UNCHANGED <<target, local, logVars, recVars>>
    BY Zenon, <1>8 DEF Aborted, Clear
  <2>2. CASE h = g
    <3>1. h \notin inserted /\ fate[h] # "idle"
      BY Zenon, <1>0, <1>8, <2>2 DEF Aborted, Answered, SessionInv, Awaits, CommitPath, AbortPath
    <3>2. /\ state'[h] = "NONE" /\ fate'[h] = "aborted" /\ qe'[h][s] = "NONE"
          /\ cmd'[h] = "NONE" /\ reply'[h][s] = "none"
      BY Zenon, <1>t, <1>f, <1>8, <2>2 DEF Aborted, Clear, EndCall, NoGang, NoReply, Tables
    <3>3. QED
      BY Zenon, <1>i, <2>1, <3>1, <3>2, SegmentAborted
  <2>3. CASE h # g
    <3>1. UNCHANGED <<cmd[h], reply[h]>>
      BY Zenon, <1>t, <1>8, <2>3, EndCallAside DEF Aborted
    <3>2. UNCHANGED <<state[h], fate[h], qe[h]>>
      BY Zenon, <1>t, <1>f, <1>8, <2>3 DEF Aborted, Clear, Tables
    <3>3. QED
      BY Zenon, <1>i, <2>1, <3>1, <3>2, SegmentRow DEF recVars
  <2>4. QED
    BY Zenon, <2>2, <2>3
<1>9. CASE SessionExit(g)
  <2>1. UNCHANGED <<target, local, logVars, recVars>>
    BY Zenon, <1>9 DEF SessionExit, Clear
  <2>2. CASE h = g
    <3>1. h \notin inserted /\ fate[h] # "idle"
      BY Zenon, <1>0, <1>9, <2>2 DEF SessionExit, SessionInv, CommitPath
    <3>2. /\ state'[h] = "NONE" /\ fate'[h] = "aborted" /\ qe'[h][s] = "NONE"
          /\ cmd'[h] = "NONE" /\ reply'[h][s] = "none"
      BY Zenon, <1>t, <1>f, <1>9, <2>2 DEF SessionExit, Clear, EndCall, NoGang, NoReply, Tables
    <3>3. QED
      BY Zenon, <1>i, <2>1, <3>1, <3>2, SegmentAborted
  <2>3. CASE h # g
    <3>1. UNCHANGED <<cmd[h], reply[h]>>
      BY Zenon, <1>t, <1>9, <2>3, EndCallAside DEF SessionExit
    <3>2. UNCHANGED <<state[h], fate[h], qe[h]>>
      BY Zenon, <1>t, <1>f, <1>9, <2>3 DEF SessionExit, Clear, Tables
    <3>3. QED
      BY Zenon, <1>i, <2>1, <3>1, <3>2, SegmentRow DEF recVars
  <2>4. QED
    BY Zenon, <2>2, <2>3
<1>10. QED
  BY Zenon, <1>1, <1>2, <1>3, <1>4, <1>5, <1>6, <1>7, <1>8, <1>9 DEF AbortStep

(* Segments and sessions agree while the master goes down and recovers. *)
LEMMA SegmentMaster ==
  ASSUME Inv, TypeOK', NEW h \in Gxacts, NEW s \in Segs,
         MasterStep
  PROVE  SegmentInv(h, s)'
<1>0. /\ TypeOK /\ SessionInv(h) /\ RecoveryInv
  BY Zenon DEF Inv
<1>i. /\ SegmentInv(h, s) /\ (cmd[h] = "NONE" => reply[h][s] = "none")
      /\ durable \subseteq inserted /\ forgot \subseteq durable
  BY Zenon, SegmentFacts
<1>t. Tables /\ h \in Sessions
  BY Zenon, TablesTyped, SessionsAre DEF Inv
<1>r. /\ dtm \in {"up", "down", "due"} => cmd[Rec] = "NONE"
      /\ todo \subseteq known
      /\ cmd[Rec] = "RECOVERY_COMMIT_PREPARED" =>
           /\ dtm = "recover" /\ reply[Rec][s] # "none"
           /\ reply[Rec][s] = "ok" => local[rgid][s] # "prepared"
  BY Zenon, <1>0 DEF RecoveryInv
<1>d. /\ dtm # "up" => state[h] = "NONE"
      /\ h \in forgot => local[h][s] # "prepared"
      /\ dtm \notin {"up", "down"} /\ h \in durable /\ local[h][s] = "prepared" =>
           dtm \in {"due", "recover"} /\ h \in todo
  BY Zenon, <1>0, <1>i DEF SessionInv, SegmentInv
<1>1. ASSUME NEW g \in Gxacts, Panic(g) \/ SessionFatal(g) PROVE SegmentInv(h, s)'
  BY Zenon, <1>i, <1>1, SegmentDown DEF Panic, SessionFatal
<1>2. CASE MasterCrash
  BY Zenon, <1>i, <1>2, SegmentDown DEF MasterCrash
<1>3. CASE RecoverStep
  <2> DEFINE Kept == /\ dtm # "up"
                     /\ h \in forgot' => h \in forgot \/ local[h][s] # "prepared"
                     /\ dtm' # "down" /\ h \in durable /\ local[h][s] = "prepared" =>
                          dtm' \in {"due", "recover"} /\ h \in todo'
  <2>1. ASSUME Redo PROVE Kept
    BY Zenon, <1>d, <1>r, <2>1 DEF Redo, logVars
  <2>i. ASSUME InitTM PROVE Kept
    BY Zenon, <1>d, <1>r, <2>i DEF InitTM, logVars
  <2>2. ASSUME NEW g \in Gxacts, NotifyCommittedInDoubt(g) PROVE Kept
    BY Zenon, <1>d, <1>r, <2>2 DEF NotifyCommittedInDoubt, RecIdle, logVars
  <2>3. ASSUME CommittedInDoubtNotified PROVE Kept
    BY Zenon, <1>d, <1>r, <2>3 DEF CommittedInDoubtNotified, Answered, Succeeded
  <2>4. ASSUME GatherRMInDoubt PROVE Kept
    BY Zenon, <1>d, <1>r, <2>4 DEF GatherRMInDoubt, RecIdle, logVars
  <2>5. ASSUME Gathered PROVE Kept
    BY Zenon, <1>d, <1>r, <2>5 DEF Gathered, logVars
  <2>6. ASSUME NEW g \in Gxacts, AbortInDoubt(g) PROVE Kept
    BY Zenon, <1>d, <1>r, <2>6 DEF AbortInDoubt, RecIdle, logVars
  <2>7. ASSUME InDoubtAborted PROVE Kept
    BY Zenon, <1>d, <1>r, <2>7 DEF InDoubtAborted, Answered, logVars
  <2>8. ASSUME DoubleCheck PROVE Kept
    BY Zenon, <1>d, <1>r, <2>8 DEF DoubleCheck, RecIdle, logVars
  <2>9. ASSUME DtmStarted PROVE Kept
    BY Zenon, <1>d, <1>r, <2>9 DEF DtmStarted, logVars
  <2>10. ASSUME RecoveryFails PROVE Kept
    BY Zenon, <1>d, <1>r, <2>10 DEF RecoveryFails, Answered, logVars
  <2>11. Kept
    BY Zenon, <1>3, <2>1, <2>i, <2>2, <2>3, <2>4, <2>5, <2>6, <2>7, <2>8, <2>9, <2>10 DEF RecoverStep
  <2>12. UNCHANGED <<qdVars, inserted, durable, cmd[h], reply[h], qe[h], local>>
    BY Zenon, <1>3, <1>t, RecoveryAside
  <2>13. QED
    BY Zenon, <1>i, <1>d, <2>11, <2>12, SegmentRecovering
<1>4. QED
  BY Zenon, <1>1, <1>2, <1>3 DEF MasterStep

-----------------------------------------------------------------------------
(* Detached QEs *)

(* What a QE leaves behind when its connection goes. *)
LEMMA LeftoverIs ==
  ASSUME TypeOK, NEW p \in Sessions, NEW s \in Segs, NEW w \in Leftover(p, s)
  PROVE  /\ w.seg = s /\ w.gid = Gid(p)
         /\ \/ /\ reply[p][s] = "wait" /\ w.op = QEOp(cmd[p], qe[p][s])
               /\ w.op \in {"PREPARE", "COMMIT", "ABORT"}
            \/ w.op = "CANCEL" /\ qe[p][s] = "WRITER"
BY DEF Leftover

(* What a QE leaves behind is in accordance with the outcome of its transaction. *)
LEMMA LeftoverOutcome ==
  ASSUME Inv, NEW p \in Sessions, NEW s \in Segs, NEW w \in Leftover(p, s)
  PROVE  /\ w.seg = s /\ w.gid = Gid(p) /\ w.gid \in Gxacts
         /\ w.op = "COMMIT" => w.gid \in durable
         /\ w.op # "COMMIT" =>
              /\ w.gid \notin inserted
              /\ \/ state[w.gid] = "NONE" /\ fate[w.gid] # "idle"
                 \/ state[w.gid] \in AbortPath
                 \/ /\ state[w.gid] \in {"ACTIVE_DISTRIBUTED", "PREPARING"}
                    /\ w.op # "ABORT" /\ s \in target[w.gid] /\ p = w.gid
<1>1. TypeOK /\ RecoveryInv /\ Gid(p) \in Gxacts
  BY Zenon, GidType DEF Inv
<1>2. /\ w.seg = s /\ w.gid = Gid(p)
      /\ \/ /\ reply[p][s] = "wait" /\ w.op = QEOp(cmd[p], qe[p][s])
            /\ w.op \in {"PREPARE", "COMMIT", "ABORT"}
         \/ w.op = "CANCEL" /\ qe[p][s] = "WRITER"
  BY <1>1, LeftoverIs
<1>3. CASE p = Rec
  <2>1. /\ w.op = "COMMIT" => cmd[Rec] = "RECOVERY_COMMIT_PREPARED"
        /\ w.op # "COMMIT" => cmd[Rec] = "RECOVERY_ABORT_PREPARED"
    BY <1>1, <1>2, <1>3, QEOpStarts DEF RecoveryInv
  <2>2. w.gid = rgid /\ SessionInv(rgid)
    BY Zenon, <1>1, <1>2, <1>3 DEF Gid, Inv
  <2>3. QED
    BY Zenon, <1>1, <1>2, <2>1, <2>2 DEF RecoveryInv, SessionInv
<1>4. CASE p # Rec
  <2>1. w.gid = p /\ SessionInv(p) /\ SegmentInv(p, s) /\ (cmd[p] = "NONE" => reply[p][s] = "none")
    BY Zenon, <1>1, <1>2, <1>4 DEF Gid, Inv, NoReply
  <2>2. CASE w.op = "CANCEL"
    BY <1>1, <1>2, <2>1, <2>2
       DEF SessionInv, SegmentInv, TypeOK, DtxState, Voted, CommitPath, AbortPath
  <2>3. CASE w.op # "CANCEL"
    <3>1. /\ w.op = "COMMIT" => state[p] \in CommitPath \ {"INSERTED_COMMITTED"}
          /\ w.op = "ABORT" => state[p] \in AbortPath
          /\ w.op = "PREPARE" => state[p] = "PREPARING" /\ qe[p][s] = "WRITER"
      BY <1>2, <2>1, <2>3, QEOpStarts DEF SessionInv, Awaits, CommitPath
    <3>2. QED
      BY Zenon, <1>1, <1>2, <2>1, <2>3, <3>1 DEF SessionInv, SegmentInv, CommitPath, AbortPath
  <2>4. QED
    BY Zenon, <2>2, <2>3
<1>5. QED
  BY Zenon, <1>3, <1>4

(* The facts about w that every case below starts from. *)
LEMMA LateFacts ==
  ASSUME Inv, TypeOK', NEW w \in late'
  PROVE  /\ TypeOK /\ w.gid \in Gxacts /\ w.seg \in Segs
         /\ w.op \in {"PREPARE", "COMMIT", "ABORT", "CANCEL"}
         /\ w \in late => LateInv(w)
         /\ SessionInv(w.gid) /\ SegmentInv(w.gid, w.seg)
         /\ durable \subseteq inserted
BY Zenon DEF Inv, TypeOK, Late

(* A detached QE stays in accordance with a transaction none of whose entries change. *)
LEMMA LateRow ==
  ASSUME NEW w, LateInv(w), durable \subseteq durable',
         w.gid \in inserted' => w.gid \in inserted,
         UNCHANGED <<state[w.gid], fate[w.gid], target[w.gid], qe[w.gid][w.seg], reply[w.gid][w.seg]>>
  PROVE  LateInv(w)'
BY Zenon DEF LateInv

(* A session that lets go of its gang and of its transaction. *)
LEMMA ClearLate ==
  ASSUME Inv, TypeOK', NEW g \in Gxacts, NEW told, told # "idle", Clear(g, told),
         UNCHANGED <<inserted, durable>>,
         \A h \in Gxacts : h # g => reply'[h] = reply[h],
         NEW w \in late'
  PROVE  LateInv(w)'
<1>1. w \in late \/ \E s \in Segs : w \in Leftover(g, s)
  BY Zenon DEF Clear, Detached
<1>2. /\ state'[w.gid] = IF w.gid = g THEN "NONE" ELSE state[w.gid]
      /\ fate'[w.gid] = IF w.gid = g THEN told ELSE fate[w.gid]
      /\ w.gid # g => qe'[w.gid] = qe[w.gid] /\ reply'[w.gid] = reply[w.gid]
      /\ target' = target
  BY Zenon, LateFacts, SessionsAre DEF Clear, TypeOK
<1>3. CASE w \in late
  BY Zenon, <1>2, <1>3, LateFacts DEF LateInv
<1>4. CASE \E s \in Segs : w \in Leftover(g, s)
  <2>1. w.gid = g /\ (w.op = "COMMIT" => g \in durable) /\ (w.op # "COMMIT" => g \notin inserted)
    BY <1>4, LeftoverOutcome, SessionsAre DEF Gid
  <2>2. QED
    BY Zenon, <1>2, <2>1 DEF LateInv
<1>5. QED
  BY Zenon, <1>1, <1>3, <1>4

(* A session that replaces its gang to retry phase 2. *)
LEMMA RetryLate ==
  ASSUME Inv, TypeOK', NEW g \in Gxacts, late' = Detached(g),
         state[g] \in CommitPath \cup AbortPath,
         \A h \in Gxacts : h # g => reply'[h] = reply[h] /\ qe'[h] = qe[h],
         UNCHANGED <<state, fate, target, inserted, durable>>,
         NEW w \in late'
  PROVE  LateInv(w)'
<1>1. w \in late \/ \E s \in Segs : w \in Leftover(g, s)
  BY Zenon DEF Detached
<1>2. w.gid = g => state[w.gid] \notin {"ACTIVE_DISTRIBUTED", "PREPARING"}
  BY Zenon DEF CommitPath, AbortPath
<1>3. CASE w \in late
  BY Zenon, <1>2, <1>3, LateFacts DEF LateInv
<1>4. CASE \E s \in Segs : w \in Leftover(g, s)
  BY <1>2, <1>4, LeftoverOutcome, LateFacts, SessionsAre DEF LateInv, Gid
<1>5. QED
  BY Zenon, <1>1, <1>3, <1>4

(* A master that goes down leaves its sessions' QEs to themselves. *)
LEMMA MasterDownLate ==
  ASSUME Inv, TypeOK', MasterDown, NEW w \in late'
  PROVE  LateInv(w)'
<1>1. w \in late \/ \E p \in Sessions, s \in Segs : w \in Leftover(p, s)
  BY DEF MasterDown, Detached
<1>2. /\ state'[w.gid] = "NONE"
      /\ fate'[w.gid] = IF fate[w.gid] = "running" THEN "crashed" ELSE fate[w.gid]
      /\ inserted' \subseteq inserted /\ durable \subseteq durable'
  BY Zenon, LateFacts DEF MasterDown
<1>3. /\ w.op = "COMMIT" => w.gid \in durable
      /\ w.op # "COMMIT" => w.gid \notin inserted /\ (state[w.gid] # "NONE" \/ fate[w.gid] # "idle")
  <2>1. CASE w \in late
    BY Zenon, <2>1, LateFacts DEF LateInv, AbortPath
  <2>2. CASE \E p \in Sessions, s \in Segs : w \in Leftover(p, s)
    BY Zenon, <2>2, LeftoverOutcome DEF AbortPath
  <2>3. QED
    BY Zenon, <1>1, <2>1, <2>2
<1>4. fate'[w.gid] # "idle" \/ w.op = "COMMIT"
  BY Zenon, <1>2, <1>3, LateFacts DEF SessionInv
<1>5. QED
  BY Zenon, <1>2, <1>3, <1>4 DEF LateInv

(* Detached QEs are in accordance with the outcomes while a client works in a
   distributed transaction and asks for phase one. *)
LEMMA LateWork ==
  ASSUME Inv, TypeOK', NEW w \in late',
         NEW g \in Gxacts, WorkStep(g)
  PROVE  LateInv(w)'
<1>0. /\ TypeOK /\ w.gid \in Gxacts /\ w.seg \in Segs
      /\ w.op \in {"PREPARE", "COMMIT", "ABORT", "CANCEL"}
      /\ w \in late => LateInv(w)
      /\ SessionInv(w.gid) /\ SegmentInv(w.gid, w.seg)
      /\ durable \subseteq inserted
  BY Zenon, LateFacts
<1>1. CASE Begin(g)
  BY <1>0, <1>1
     DEF Begin, SetState, callVars, logVars, recVars, LateInv, SessionInv, Awaits,
         CommitPath, AbortPath
<1>2. CASE EndNotDistributed(g)
  BY Zenon, <1>0, <1>2, ClearLate DEF EndNotDistributed, logVars
<1>3. ASSUME NEW T \in {Segs} \cup {{x} : x \in Segs}, GoDistributed(g, T) PROVE LateInv(w)'
  <2>1. w.gid = g => w.op = "COMMIT"
    BY Zenon, <1>0, <1>3 DEF GoDistributed, LateInv, AbortPath
  <2>2. QED
    BY <1>0, <1>3, <2>1 DEF GoDistributed, SetState, logVars, LateInv
<1>4. CASE Promote(g)
  <2>1. /\ w \in late /\ UNCHANGED <<fate, inserted, durable>>
        /\ w.gid # g => /\ state'[w.gid] = state[w.gid] /\ target'[w.gid] = target[w.gid]
                        /\ qe'[w.gid] = qe[w.gid] /\ reply'[w.gid] = reply[w.gid]
    BY <1>0, <1>4 DEF Promote, Send, logVars
  <2>2. CASE w.gid # g
    BY Zenon, <1>0, <2>1, <2>2 DEF LateInv
  <2>3. CASE w.gid = g /\ w.op # "COMMIT"
    BY <1>0, <1>4, <2>1, <2>3 DEF Promote, Send, Gang, NoGang, LateInv
  <2>4. QED
    BY Zenon, <1>0, <2>1, <2>2, <2>3 DEF LateInv
<1>5. CASE Promoted(g)
  BY <1>0, <1>5
     DEF Promoted, EndCall, Answered, Succeeded, qdVars, logVars, recVars, callVars,
         NoReply, NewGang, NoGang, LateInv
<1>6. CASE Prepare(g)
  <2>1. w.gid = g /\ qe[g][w.seg] = "LOST" => Gang(g) = qe[g]
    BY Zenon, <1>0 DEF Gang, NoGang
  <2>2. QED
    BY <1>0, <1>6, <2>1 DEF Prepare, Send, SetState, logVars, LateInv, AbortPath
<1>7. CASE Prepared(g)
  <2>1. w.gid = g => w.op = "COMMIT"
    BY <1>0, <1>7
       DEF Prepared, Answered, Succeeded, LateInv, SessionInv, SegmentInv, Awaits, AbortPath
  <2>2. QED
    BY <1>0, <1>7, <2>1 DEF Prepared, EndCall, SetState, logVars, LateInv
<1>8. QED
  BY Zenon, <1>1, <1>2, <1>3, <1>4, <1>5, <1>6, <1>7 DEF WorkStep

(* Detached QEs are in accordance with the outcomes while the QD commits. *)
LEMMA LateCommit ==
  ASSUME Inv, TypeOK', NEW w \in late',
         NEW g \in Gxacts, CommitStep(g)
  PROVE  LateInv(w)'
<1>0. /\ TypeOK /\ w.gid \in Gxacts /\ w.seg \in Segs
      /\ w.op \in {"PREPARE", "COMMIT", "ABORT", "CANCEL"}
      /\ w \in late => LateInv(w)
      /\ SessionInv(w.gid) /\ SegmentInv(w.gid, w.seg)
      /\ durable \subseteq inserted
  BY Zenon, LateFacts
<1>1. CASE InsertingDistributedCommitted(g)
  BY <1>0, <1>1, SessionsAre
     DEF InsertingDistributedCommitted, SetState, callVars, logVars, LateInv, AbortPath
<1>2. CASE InsertedDistributedCommitted(g)
  BY <1>0, <1>2
     DEF InsertedDistributedCommitted, SetState, callVars, recVars, LateInv, Awaits,
         AbortPath, Voted
<1>3. CASE FlushCommit(g)
  BY Zenon, <1>0, <1>3 DEF FlushCommit, qdVars, callVars, LateInv
<1>4. CASE NotifyCommitPrepared(g)
  BY <1>0, <1>4
     DEF NotifyCommitPrepared, Send, SetState, Gang, logVars, recVars, NewGang, NoGang,
         LateInv
<1>5. CASE CommitNotified(g)
  BY <1>0, <1>5
     DEF CommitNotified, EndCall, SetState, Answered, Succeeded, LateInv, SessionInv,
         Awaits, AbortPath
<1>6. CASE CommitNotifyFailed(g)
  BY <1>0, <1>6
     DEF CommitNotifyFailed, EndCall, SetState, Answered, Succeeded, logVars, LateInv,
         SessionInv, Awaits, AbortPath
<1>7. CASE RetryCommitPrepared(g)
  BY <1>0, <1>7, RetryLate DEF RetryCommitPrepared, Send, CommitPath, AbortPath, logVars
<1>8. CASE Committed(g)
  BY Zenon, <1>0, <1>8, ClearLate DEF Committed, logVars
<1>9. QED
  BY Zenon, <1>1, <1>2, <1>3, <1>4, <1>5, <1>6, <1>7, <1>8 DEF CommitStep

(* Detached QEs are in accordance with the outcomes while the QD aborts. *)
LEMMA LateAbort ==
  ASSUME Inv, TypeOK', NEW w \in late',
         NEW g \in Gxacts, AbortStep(g)
  PROVE  LateInv(w)'
<1>0. /\ TypeOK /\ w.gid \in Gxacts /\ w.seg \in Segs
      /\ w.op \in {"PREPARE", "COMMIT", "ABORT", "CANCEL"}
      /\ w \in late => LateInv(w)
      /\ SessionInv(w.gid) /\ SegmentInv(w.gid, w.seg)
      /\ durable \subseteq inserted
  BY Zenon, LateFacts
<1>t. Tables /\ w.gid \in Sessions /\ g \in Sessions
  BY Zenon, <1>0, TablesTyped, SessionsAre
<1>1. CASE RollbackActive(g)
  BY Zenon, <1>0, <1>t, <1>1
     DEF RollbackActive, Send, SetState, logVars, NoGang, LateInv, AbortPath, Tables
<1>2. CASE AbortNoPreparedEnds(g)
  <2>1. \A h \in Gxacts : h # g => reply'[h] = reply[h]
    BY Zenon, <1>t, <1>2, EndCallAside, SessionsAre DEF AbortNoPreparedEnds
  <2>2. Clear(g, "aborted") /\ UNCHANGED <<inserted, durable>>
    BY Zenon, <1>2 DEF AbortNoPreparedEnds, logVars
  <2>3. QED
    BY Zenon, <2>1, <2>2, ClearLate
<1>3. CASE AbortSomePrepared(g)
  BY Zenon, <1>0, <1>t, <1>3 DEF AbortSomePrepared, Send, SetState, logVars, LateInv, AbortPath, Tables
<1>4. CASE PrepareBadGangs(g)
  BY Zenon, <1>0, <1>t, <1>4 DEF PrepareBadGangs, EndCall, SetState, logVars, LateInv, AbortPath, Tables
<1>5. CASE RollbackPrepared(g)
  BY <1>0, <1>5, SessionsAre
     DEF RollbackPrepared, Send, SetState, logVars, LateInv, AbortPath
<1>6. CASE AbortBroadcastEnds(g)
  <2>1. UNCHANGED <<target, fate, qe, late, inserted, durable>>
    BY Zenon, <1>6 DEF AbortBroadcastEnds, logVars
  <2>2. CASE w.gid = g
    <3>1. state[g] \in AbortPath /\ state'[g] \in AbortPath
      BY Zenon, <1>0, <1>t, <1>6, <2>2
         DEF AbortBroadcastEnds, Answered, SetState, SessionInv, Awaits, AbortPath, Tables
    <3>2. QED
      BY Zenon, <1>0, <2>1, <2>2, <3>1 DEF LateInv, AbortPath
  <2>3. CASE w.gid # g
    <3>1. reply'[w.gid] = reply[w.gid]
      BY <1>t, <1>6, <2>3, EndCallAside, ZenonT(30) DEF AbortBroadcastEnds
    <3>2. state'[w.gid] = state[w.gid]
      BY Zenon, <1>0, <1>t, <1>6, <2>3 DEF AbortBroadcastEnds, SetState, Tables
    <3>3. QED
      BY Zenon, <1>0, <2>1, <3>1, <3>2, LateRow
  <2>4. QED
    BY Zenon, <2>2, <2>3
<1>7. CASE RetryAbortPrepared(g)
  <2>1. \A h \in Gxacts : h # g => reply'[h] = reply[h] /\ qe'[h] = qe[h]
    BY Zenon, <1>t, <1>7, SendAside, SessionsAre DEF RetryAbortPrepared
  <2>2. /\ late' = Detached(g) /\ UNCHANGED <<state, fate, target, inserted, durable>>
        /\ state[g] \in AbortPath
    BY Zenon, <1>7 DEF RetryAbortPrepared, AbortsPrepared, AbortPath, logVars
  <2>3. QED
    BY Zenon, <2>1, <2>2, RetryLate
<1>8. CASE Aborted(g)
  <2>1. \A h \in Gxacts : h # g => reply'[h] = reply[h]
    BY Zenon, <1>t, <1>8, EndCallAside, SessionsAre DEF Aborted
  <2>2. Clear(g, "aborted") /\ UNCHANGED <<inserted, durable>>
    BY Zenon, <1>8 DEF Aborted, logVars
  <2>3. QED
    BY Zenon, <2>1, <2>2, ClearLate
<1>9. CASE SessionExit(g)
  <2>1. \A h \in Gxacts : h # g => reply'[h] = reply[h]
    BY Zenon, <1>t, <1>9, EndCallAside, SessionsAre DEF SessionExit
  <2>2. Clear(g, "aborted") /\ UNCHANGED <<inserted, durable>>
    BY Zenon, <1>9 DEF SessionExit, logVars
  <2>3. QED
    BY Zenon, <2>1, <2>2, ClearLate
<1>10. QED
  BY Zenon, <1>1, <1>2, <1>3, <1>4, <1>5, <1>6, <1>7, <1>8, <1>9 DEF AbortStep

(* Detached QEs are in accordance with the outcomes while the master goes down and
   recovers. *)
LEMMA LateMaster ==
  ASSUME Inv, TypeOK', NEW w \in late', MasterStep
  PROVE  LateInv(w)'
<1>1. CASE MasterDown
  BY Zenon, <1>1, MasterDownLate
<1>2. CASE RecoverStep
  <2>1. w.gid \in Gxacts /\ (w \in late => LateInv(w))
    BY Zenon, LateFacts
  <2>2. UNCHANGED <<qdVars, late, local, inserted, durable, cmd[w.gid], reply[w.gid], qe[w.gid]>>
    BY Zenon, <1>2, <2>1, RecoveryAside, TablesTyped DEF Inv
  <2>3. QED
    BY Zenon, <2>1, <2>2, LateRow DEF qdVars
<1>3. QED
  BY Zenon, <1>1, <1>2 DEF MasterStep, Panic, SessionFatal, MasterCrash

(* Detached QEs are in accordance with the outcomes while the segments work, fail and
   lose their QD. *)
LEMMA LateSegments ==
  ASSUME Inv, TypeOK', NEW w \in late',
         SegmentsStep
  PROVE  LateInv(w)'
<1>0. /\ TypeOK /\ w.gid \in Gxacts /\ w.seg \in Segs
      /\ w.op \in {"PREPARE", "COMMIT", "ABORT", "CANCEL"}
      /\ w \in late => LateInv(w)
      /\ SessionInv(w.gid) /\ SegmentInv(w.gid, w.seg)
      /\ durable \subseteq inserted
  BY Zenon, LateFacts
<1>t. Tables /\ w.gid \in Sessions
  BY Zenon, <1>0, TablesTyped, SessionsAre
<1>1. ASSUME NEW p \in Sessions, NEW q \in Segs, QEPerform(p, q) PROVE LateInv(w)'
  <2>1. UNCHANGED <<qdVars, late, logVars>>
    BY Zenon, <1>1 DEF QEPerform
  <2>2. (qe'[w.gid][w.seg] = qe[w.gid][w.seg] /\ reply'[w.gid][w.seg] = reply[w.gid][w.seg])
        \/ reply[w.gid][w.seg] = "wait"
    BY <1>0, <1>1 DEF QEPerform
  <2>3. QED
    BY Zenon, <1>0, <2>1, <2>2 DEF LateInv, qdVars, logVars
<1>2. ASSUME NEW p \in Sessions, NEW q \in Segs, QEError(p, q) PROVE LateInv(w)'
  <2>1. UNCHANGED <<qdVars, late, logVars>>
    BY Zenon, <1>2 DEF QEError
  <2>2. (qe'[w.gid][w.seg] = qe[w.gid][w.seg] /\ reply'[w.gid][w.seg] = reply[w.gid][w.seg])
        \/ reply[w.gid][w.seg] = "wait"
    BY <1>0, <1>2 DEF QEError
  <2>3. QED
    BY Zenon, <1>0, <2>1, <2>2 DEF LateInv, qdVars, logVars
<1>3. ASSUME NEW v \in late, LateRun(v) PROVE LateInv(w)'
  <2>1. w \in late /\ UNCHANGED <<qdVars, reply, qe, logVars>>
    BY Zenon, <1>3 DEF LateRun
  <2>2. QED
    BY Zenon, <1>0, <2>1, LateRow DEF qdVars, logVars
<1>4. ASSUME NEW v \in late, LateDie(v) PROVE LateInv(w)'
  <2>1. w \in late /\ UNCHANGED <<qdVars, reply, qe, logVars>>
    BY Zenon, <1>4 DEF LateDie
  <2>2. QED
    BY Zenon, <1>0, <2>1, LateRow DEF qdVars, logVars
<1>5. ASSUME NEW p \in Sessions, NEW q \in Segs, Disconnect(p, q) PROVE LateInv(w)'
  <2>0. UNCHANGED <<state, fate, target, inserted, durable>> /\ late' = late \cup Leftover(p, q)
    BY Zenon, <1>5 DEF Disconnect, qdVars, logVars
  <2>1. /\ qe'[w.gid][w.seg] \in {qe[w.gid][w.seg], "LOST"}
        /\ w.gid = p /\ w.seg = q => qe'[w.gid][w.seg] = "LOST"
    BY Zenon, <1>0, <1>t, <1>5 DEF Disconnect, Tables
  <2>2. /\ reply'[w.gid][w.seg] \in {"none", "thrown", "lost", reply[w.gid][w.seg]}
        /\ w.gid = p /\ w.seg = q => reply'[w.gid][w.seg] \in {"none", "thrown", "lost"}
    BY Zenon, <1>0, <1>t, <1>5 DEF Disconnect, Tables
  <2>3. CASE w \in late
    BY Zenon, <1>0, <2>0, <2>1, <2>2, <2>3 DEF LateInv
  <2>4. CASE w \in Leftover(p, q)
    BY <1>0, <2>0, <2>1, <2>2, <2>4, LeftoverOutcome DEF LateInv
  <2>5. QED
    BY Zenon, <2>0, <2>3, <2>4
<1>6. ASSUME NEW q \in Segs, SegmentRestart(q) PROVE LateInv(w)'
  <2>1. w \in late /\ w.seg # q /\ UNCHANGED <<qdVars, logVars>>
    BY Zenon, <1>6 DEF SegmentRestart
  <2>2. UNCHANGED <<qe[w.gid][w.seg], reply[w.gid][w.seg]>>
    BY Zenon, <1>0, <1>t, <1>6, <2>1 DEF SegmentRestart, Tables
  <2>3. QED
    BY Zenon, <1>0, <2>1, <2>2, LateRow DEF qdVars, logVars
<1>7. ASSUME NEW p \in Sessions, DispatchThrows(p) PROVE LateInv(w)'
  <2>1. UNCHANGED <<qdVars, qe, late, logVars>>
    BY Zenon, <1>7 DEF DispatchThrows
  <2>2. reply'[w.gid][w.seg] \in {"none", "thrown", reply[w.gid][w.seg]}
    BY Zenon, <1>0, <1>t, <1>7 DEF DispatchThrows, Tables
  <2>3. QED
    BY Zenon, <1>0, <2>1, <2>2 DEF LateInv, qdVars, logVars
<1>8. QED
  BY Zenon, <1>1, <1>2, <1>3, <1>4, <1>5, <1>6, <1>7 DEF SegmentsStep

(* Every step keeps the work of detached QEs in accordance with the outcomes. *)
LEMMA LateStep ==
  ASSUME Inv, TypeOK', [Next]_vars, NEW w \in late'
  PROVE  LateInv(w)'
<1>0. /\ TypeOK /\ w.gid \in Gxacts /\ w.seg \in Segs
      /\ w.op \in {"PREPARE", "COMMIT", "ABORT", "CANCEL"}
      /\ w \in late => LateInv(w)
      /\ SessionInv(w.gid) /\ SegmentInv(w.gid, w.seg)
      /\ durable \subseteq inserted
  BY Zenon, LateFacts
<1>1. ASSUME NEW g \in Gxacts, WorkStep(g) PROVE LateInv(w)'
  BY Zenon, <1>1, LateWork
<1>2. ASSUME NEW g \in Gxacts, CommitStep(g) PROVE LateInv(w)'
  BY Zenon, <1>2, LateCommit
<1>3. ASSUME NEW g \in Gxacts, AbortStep(g) PROVE LateInv(w)'
  BY Zenon, <1>3, LateAbort
<1>4. CASE MasterStep
  BY Zenon, <1>4, LateMaster
<1>5. CASE SegmentsStep
  BY Zenon, <1>5, LateSegments
<1>6. CASE UNCHANGED vars
  BY Zenon, <1>6 DEF vars, qdVars, callVars, logVars, Inv, LateInv
<1>7. QED
  BY Zenon, <1>1, <1>2, <1>3, <1>4, <1>5, <1>6, NextIs
=============================================================================
