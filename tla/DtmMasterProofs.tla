--------------------------- MODULE DtmMasterProofs --------------------------
(***************************************************************************)
(* The master's side of the inductive invariant of Dtm: failures leave     *)
(* sessions and segments in agreement, every step keeps the log and the    *)
(* sessions as Inv says they are, and whatever happens, recovery commits and *)
(* aborts the right transactions.                                          *)
(***************************************************************************)
EXTENDS DtmTypeProofs

-----------------------------------------------------------------------------
(* The log and the sessions *)

(* Segments and sessions agree when connections, segments and calls fail. *)
LEMMA SegmentFailures ==
  ASSUME Inv, TypeOK', NEW h \in Gxacts, NEW s \in Segs,
         \/ \E p \in Sessions : DispatchThrows(p)
         \/ \E p \in Sessions, q \in Segs : Disconnect(p, q)
         \/ \E q \in Segs : SegmentRestart(q)
  PROVE  SegmentInv(h, s)'
<1>0. /\ TypeOK /\ SessionInv(h) /\ RecoveryInv
  BY Zenon DEF Inv
<1>i. /\ SegmentInv(h, s) /\ (cmd[h] = "NONE" => reply[h][s] = "none")
      /\ durable \subseteq inserted /\ forgot \subseteq durable
  BY Zenon, SegmentFacts
<1>t. Tables
  BY Zenon, TablesTyped DEF Inv
<1>5. ASSUME NEW p \in Sessions, NEW q \in Segs, Disconnect(p, q) PROVE SegmentInv(h, s)'
  <2>1. UNCHANGED <<qdVars, cmd, logVars, dtm, todo, local>>
    BY Zenon, <1>5 DEF Disconnect, recVars
  <2>2. CASE h = p /\ s = q
    <3>1. qe'[h][s] = "LOST" /\ reply'[h][s] = IF reply[h][s] \in {"none", "thrown"}
                                                    THEN reply[h][s] ELSE "lost"
      BY Zenon, <1>i, <1>t, <1>5, <2>2 DEF Disconnect, Tables
    <3>2. QED
      BY Zenon, <1>i, <2>1, <3>1 DEF qdVars, logVars, SegmentInv, StartInv
  <2>3. CASE ~(h = p /\ s = q)
    <3>1. UNCHANGED <<qe[h][s], reply[h][s]>>
      BY <1>i, <1>5, <2>3 DEF Disconnect
    <3>2. QED
      BY Zenon, <1>i, <1>t, <2>1, <3>1, SegmentFrame DEF Tables
  <2>4. QED
    BY Zenon, <2>2, <2>3
<1>6. ASSUME NEW q \in Segs, SegmentRestart(q) PROVE SegmentInv(h, s)'
  <2>1. UNCHANGED <<qdVars, cmd, logVars, recVars>>
    BY Zenon, <1>6 DEF SegmentRestart
  <2>2. CASE s = q
    <3>1. local'[h][s] = local[h][s] \/ (local[h][s] = "active" /\ local'[h][s] = "aborted")
      BY Zenon, <1>0, <1>i, <1>t, <1>6, <2>2, SegmentRestartLocal, AfterIs DEF SessionInv, Tables
    <3>2. /\ qe'[h][s] = IF qe[h][s] = "NONE" THEN "NONE" ELSE "LOST"
          /\ reply'[h][s] = IF reply[h][s] \in {"none", "thrown"} THEN reply[h][s] ELSE "lost"
      BY <1>i, <1>t, <1>6, <2>2, SessionsAre DEF SegmentRestart, Tables
    <3>3. QED
      BY Zenon, <1>i, <1>t, <2>1, <3>1, <3>2 DEF qdVars, logVars, recVars, SegmentInv, StartInv
  <2>3. CASE s # q
    <3>1. UNCHANGED <<local[h][s], qe[h][s], reply[h][s]>>
      BY <1>i, <1>6, <2>3, SessionsAre DEF SegmentRestart
    <3>2. QED
      BY Zenon, <1>i, <2>1, <3>1, SegmentFrame DEF recVars, Tables
  <2>4. QED
    BY Zenon, <2>2, <2>3
<1>7. ASSUME NEW p \in Sessions, DispatchThrows(p) PROVE SegmentInv(h, s)'
  <2>1. UNCHANGED <<qdVars, cmd, qe, local, logVars, dtm, todo>> /\ cmd[p] # "NONE"
    BY Zenon, <1>7 DEF DispatchThrows, recVars
  <2>2. CASE h = p
    <3>1. reply'[h][s] = IF reply[h][s] = "none" THEN "none" ELSE "thrown"
      BY Zenon, <1>i, <1>t, <1>7, <2>2 DEF DispatchThrows, Tables
    <3>2. QED
      BY Zenon, <1>i, <2>1, <2>2, <3>1 DEF qdVars, logVars, SegmentInv, StartInv
  <2>3. CASE h # p
    <3>1. UNCHANGED <<cmd[h], reply[h][s], qe[h][s], local[h][s]>>
      BY <1>i, <1>7, <2>1, <2>3 DEF DispatchThrows
    <3>2. QED
      BY Zenon, <1>i, <2>1, <3>1, SegmentFrame
  <2>4. QED
    BY Zenon, <2>2, <2>3
<1> QED
  BY Zenon, <1>5, <1>6, <1>7

(* The master's log only changes in the steps named here. *)
LEMMA LogStep ==
  ASSUME Inv, [Next]_vars
  PROVE  (durable \subseteq inserted /\ forgot \subseteq durable)'
<1>0. TypeOK /\ durable \subseteq inserted /\ forgot \subseteq durable /\ \A h \in Gxacts : SessionInv(h)
  BY Zenon DEF Inv
<1>1. CASE Request
  BY Zenon, <1>0, <1>1 DEF Request, Begin, EndNotDistributed, Promote, Prepare, RollbackActive,
     RollbackPrepared, GoDistributed, InitTM, logVars
<1>2. CASE MasterDown
  BY Zenon, <1>0, <1>2 DEF MasterDown
<1>3. ASSUME NEW g \in Gxacts, CommitNotified(g) PROVE (durable \subseteq inserted /\ forgot \subseteq durable)'
  <2>1. g \in durable
    BY Zenon, <1>0, <1>3 DEF CommitNotified, Answered, SessionInv, Awaits, CommitPath
  <2>2. QED
    BY Zenon, <1>0, <1>3, <2>1 DEF CommitNotified
<1>4. CASE CommittedInDoubtNotified
  BY Zenon, <1>0, <1>4 DEF CommittedInDoubtNotified, Answered, Inv, RecoveryInv
<1>5. CASE Fault
  BY <1>0, <1>2, <1>5, ZenonT(30)
     DEF Fault, DispatchThrows, QEError, Disconnect, LateDie, SegmentRestart, SessionExit,
     SessionFatal, MasterCrash, logVars
<1>6. CASE Progress
  BY <1>0, <1>2, <1>3, <1>4, <1>6, ZenonT(30)
     DEF Progress, QEPerform, LateRun, Promoted, Prepared, InsertingDistributedCommitted,
         InsertedDistributedCommitted, FlushCommit, NotifyCommitPrepared, CommitNotifyFailed,
         RetryCommitPrepared, Committed, AbortNoPreparedEnds, AbortSomePrepared, PrepareBadGangs,
         AbortBroadcastEnds, RetryAbortPrepared, Aborted, Panic, NotifyCommittedInDoubt, AbortInDoubt,
         Redo, GatherRMInDoubt, Gathered, InDoubtAborted, DoubleCheck, DtmStarted, RecoveryFails, logVars
<1>7. CASE UNCHANGED vars
  BY Zenon, <1>0, <1>7 DEF vars, logVars
<1>8. QED
  BY Zenon, <1>1, <1>5, <1>6, <1>7 DEF Next

(* A session that waits for no command has no answer outstanding. *)
LEMMA CallStep ==
  ASSUME Inv, TypeOK', [Next]_vars, NEW r \in Sessions
  PROVE  (cmd[r] = "NONE" => reply[r] = NoReply)'
<1>0. TypeOK /\ (cmd[r] = "NONE" => reply[r] = NoReply)
  BY Zenon DEF Inv
<1>1. ASSUME NEW p \in Sessions, EndCall(p) PROVE (cmd[r] = "NONE" => reply[r] = NoReply)'
  BY Zenon, <1>0, <1>1 DEF EndCall, TypeOK
<1>2. ASSUME NEW p \in Sessions, NEW c, NEW T, NEW gang, Send(p, c, T, gang), c # "NONE"
      PROVE  (cmd[r] = "NONE" => reply[r] = NoReply)'
  BY Zenon, <1>0, <1>2 DEF Send, TypeOK
<1>3. CASE UNCHANGED <<cmd, reply>>
  BY Zenon, <1>0, <1>3
<1>4. CASE cmd' = cmd /\ \A s \in Segs : reply[r][s] = "none" => reply'[r][s] = "none"
  <2>1. cmd'[r] = "NONE" => \A s \in Segs : reply'[r][s] = "none"
    BY Zenon, <1>0, <1>4 DEF NoReply
  <2>2. QED
    BY Zenon, <2>1 DEF NoReply, TypeOK
<1>5. CASE Request
  BY Zenon, <1>2, <1>3, <1>5, SessionsAre
     DEF Request, Begin, EndNotDistributed, Promote, Prepare, RollbackActive,
         RollbackPrepared, GoDistributed, InitTM, callVars
<1>6. CASE Fault
  <2>1. CASE MasterCrash
    BY Zenon, <2>1 DEF MasterCrash, MasterDown
  <2>2. CASE \E g \in Gxacts : SessionExit(g) \/ SessionFatal(g)
    BY Zenon, <1>1, <2>2, SessionsAre DEF SessionExit, SessionFatal, MasterDown
  <2>3. CASE \E w \in late : LateDie(w)
    BY Zenon, <1>3, <2>3 DEF LateDie
  <2>4. ASSUME NEW p \in Sessions, DispatchThrows(p) PROVE (cmd[r] = "NONE" => reply[r] = NoReply)'
    BY <1>0, <1>4, <2>4 DEF DispatchThrows
  <2>5. ASSUME NEW p \in Sessions, NEW q \in Segs, QEError(p, q) \/ Disconnect(p, q)
        PROVE  (cmd[r] = "NONE" => reply[r] = NoReply)'
    BY <1>0, <1>4, <2>5 DEF QEError, Disconnect, TypeOK
  <2>6. ASSUME NEW q \in Segs, SegmentRestart(q) PROVE (cmd[r] = "NONE" => reply[r] = NoReply)'
    BY <1>0, <1>4, <2>6 DEF SegmentRestart
  <2>7. QED
    BY Zenon, <1>6, <2>1, <2>2, <2>3, <2>4, <2>5, <2>6 DEF Fault
<1>7. CASE \E p \in Sessions, s \in Segs : QEPerform(p, s)
  <2>1. cmd' = cmd /\ \A s \in Segs : reply[r][s] = "none" => reply'[r][s] = "none"
    BY <1>7 DEF QEPerform
  <2>2. QED
    BY Zenon, <1>4, <2>1
<1>8. CASE Progress /\ ~(\E p \in Sessions, s \in Segs : QEPerform(p, s))
  <2>1. MasterDown => (cmd[r] = "NONE" => reply[r] = NoReply)'
    BY Zenon DEF MasterDown
  <2>2. QED
    BY <1>1, <1>2, <1>3, <1>8, <2>1, SessionsAre, ZenonT(30)
       DEF Progress, LateRun, Promoted, Prepared, InsertingDistributedCommitted,
         InsertedDistributedCommitted, FlushCommit, NotifyCommitPrepared, CommitNotified, CommitNotifyFailed,
         RetryCommitPrepared, Committed, AbortNoPreparedEnds, AbortSomePrepared, PrepareBadGangs,
         AbortBroadcastEnds, RetryAbortPrepared, Aborted, Panic, NotifyCommittedInDoubt, AbortInDoubt,
         Redo, CommittedInDoubtNotified, GatherRMInDoubt, Gathered, InDoubtAborted, DoubleCheck, DtmStarted, RecoveryFails, callVars
<1>9. CASE UNCHANGED vars
  BY Zenon, <1>3, <1>9 DEF vars, callVars
<1>10. QED
  BY Zenon, <1>5, <1>6, <1>7, <1>8, <1>9 DEF Next

(* The session of a transaction stays where it is when only recovery or the segments move and
   no segment forgets a commit. *)
LEMMA SessionFrame ==
  ASSUME NEW h \in Gxacts, SessionInv(h), TypeOK,
         UNCHANGED <<qdVars, inserted, durable, cmd[h]>>, dtm' # "up" => dtm # "up",
         \A s \in Segs : local[h][s] = "committed" => local'[h][s] = "committed"
  PROVE  SessionInv(h)'
<1>1. target[h] \subseteq Segs
  BY Zenon DEF TypeOK
<1>2. QED
  BY Zenon, <1>1 DEF qdVars, SessionInv

(* The session of a transaction is where its state says while a client works in a
   distributed transaction and asks for phase one. *)
LEMMA SessionWork ==
  ASSUME Inv, TypeOK', NEW h \in Gxacts,
         NEW g \in Gxacts, WorkStep(g)
  PROVE  SessionInv(h)'
<1>0. /\ TypeOK /\ SessionInv(h)
      /\ durable \subseteq inserted
      /\ dtm # "up" => inserted = durable
      /\ cmd[Rec] # "NONE" => dtm # "up"
      /\ h \in Sessions /\ h # Rec
  BY Zenon, SessionsAre DEF Inv, RecoveryInv
<1>t. Tables /\ fate = [x \in Gxacts |-> fate[x]]
  BY Zenon, <1>0, TablesTyped DEF TypeOK
<1>1. CASE Begin(g)
  BY Zenon, <1>0, <1>t, <1>1
     DEF Begin, SetState, callVars, logVars, recVars, SessionInv, Awaits, CommitPath,
         AbortPath, Tables
<1>2. CASE EndNotDistributed(g)
  BY Zenon, <1>0, <1>t, <1>2
     DEF EndNotDistributed, Clear, logVars, recVars, SessionInv, Awaits, CommitPath,
         AbortPath, Tables
<1>3. ASSUME NEW T \in {Segs} \cup {{x} : x \in Segs}, GoDistributed(g, T) PROVE SessionInv(h)'
  <2>1. T # {}
    BY Zenon, SegsNonEmpty
  <2>2. QED
    BY Zenon, <1>0, <1>t, <1>3, <2>1
       DEF GoDistributed, SetState, logVars, recVars, SessionInv, Awaits, CommitPath,
           AbortPath, Tables
<1>4. CASE Promote(g)
  BY Zenon, <1>0, <1>t, <1>4 DEF Promote, Send, logVars, recVars, SessionInv, Awaits, Tables
<1>5. CASE Promoted(g)
  BY <1>0, <1>5
     DEF Promoted, EndCall, Answered, qdVars, logVars, recVars, SessionInv, Awaits
<1>6. CASE Prepare(g)
  BY Zenon, <1>0, <1>t, <1>6
     DEF Prepare, Send, SetState, logVars, recVars, SessionInv, Awaits, CommitPath, Tables
<1>7. CASE Prepared(g)
  BY Zenon, <1>0, <1>t, <1>7
     DEF Prepared, EndCall, SetState, Answered, logVars, recVars, SessionInv, Awaits,
         CommitPath, Tables
<1>8. QED
  BY Zenon, <1>1, <1>2, <1>3, <1>4, <1>5, <1>6, <1>7 DEF WorkStep

(* The session of a transaction is where its state says while the QD commits. *)
LEMMA SessionCommit ==
  ASSUME Inv, TypeOK', NEW h \in Gxacts,
         NEW g \in Gxacts, CommitStep(g)
  PROVE  SessionInv(h)'
<1>0. /\ TypeOK /\ SessionInv(h)
      /\ durable \subseteq inserted
      /\ dtm # "up" => inserted = durable
      /\ cmd[Rec] # "NONE" => dtm # "up"
      /\ h \in Sessions /\ h # Rec
  BY Zenon, SessionsAre DEF Inv, RecoveryInv
<1>t. Tables /\ fate = [x \in Gxacts |-> fate[x]]
  BY Zenon, <1>0, TablesTyped DEF TypeOK
<1>1. CASE InsertingDistributedCommitted(g)
  BY <1>0, <1>1
     DEF InsertingDistributedCommitted, SetState, callVars, logVars, recVars, SessionInv,
         Awaits, CommitPath
<1>2. CASE InsertedDistributedCommitted(g)
  BY Zenon, <1>0, <1>t, <1>2
     DEF InsertedDistributedCommitted, SetState, callVars, recVars, SessionInv, Awaits,
         CommitPath, AbortPath, Tables
<1>3. CASE FlushCommit(g)
  BY Zenon, <1>0, <1>3 DEF FlushCommit, qdVars, callVars, recVars, SessionInv
<1>4. CASE NotifyCommitPrepared(g)
  BY Zenon, <1>0, <1>t, <1>4
     DEF NotifyCommitPrepared, Send, SetState, logVars, recVars, SessionInv, Awaits,
         CommitPath, Tables
<1>5. CASE CommitNotified(g)
  <2>1. ASSUME h = g, NEW s \in target[h] PROVE local[h][s] = "committed"
    <3>1. s \in Segs /\ SegmentInv(h, s)
      BY <1>0, <2>1, ZenonT(30) DEF TypeOK, Inv
    <3>2. cmd[h] \in {"COMMIT_PREPARED", "RETRY_COMMIT_PREPARED"} /\ reply[h][s] \in {"none", "ok"}
      BY <1>5, <2>1, <3>1, ZenonT(30) DEF CommitNotified, Answered, Succeeded
    <3>3. state[h] \in CommitPath
      BY Zenon, <1>0, <3>2 DEF SessionInv, Awaits, CommitPath
    <3>4. QED
      BY Zenon, <2>1, <3>1, <3>2, <3>3 DEF SegmentInv
  <2>2. QED
    BY Zenon, <1>0, <1>t, <1>5, <2>1
       DEF CommitNotified, EndCall, SetState, Answered, recVars, SessionInv, Awaits,
           CommitPath, Tables
<1>6. CASE CommitNotifyFailed(g)
  BY Zenon, <1>0, <1>t, <1>6
     DEF CommitNotifyFailed, EndCall, SetState, Answered, logVars, recVars, SessionInv,
         Awaits, CommitPath, Tables
<1>7. CASE RetryCommitPrepared(g)
  BY <1>0, <1>7 DEF RetryCommitPrepared, Send, logVars, recVars, SessionInv, Awaits
<1>8. CASE Committed(g)
  BY Zenon, <1>0, <1>t, <1>8
     DEF Committed, Clear, logVars, recVars, SessionInv, Awaits, CommitPath, AbortPath,
         Tables
<1>9. QED
  BY Zenon, <1>1, <1>2, <1>3, <1>4, <1>5, <1>6, <1>7, <1>8 DEF CommitStep

(* The session of a transaction is where its state says while the QD aborts. *)
LEMMA SessionAbort ==
  ASSUME Inv, TypeOK', NEW h \in Gxacts,
         NEW g \in Gxacts, AbortStep(g)
  PROVE  SessionInv(h)'
<1>0. /\ TypeOK /\ SessionInv(h)
      /\ durable \subseteq inserted
      /\ dtm # "up" => inserted = durable
      /\ cmd[Rec] # "NONE" => dtm # "up"
      /\ h \in Sessions /\ h # Rec
  BY Zenon, SessionsAre DEF Inv, RecoveryInv
<1>t. Tables /\ fate = [x \in Gxacts |-> fate[x]]
  BY Zenon, <1>0, TablesTyped DEF TypeOK
<1>1. CASE RollbackActive(g)
  BY Zenon, <1>0, <1>t, <1>1
     DEF RollbackActive, Send, SetState, logVars, recVars, SessionInv, Awaits, CommitPath,
         AbortPath, Tables
<1>2. CASE AbortNoPreparedEnds(g)
  BY Zenon, <1>0, <1>t, <1>2
     DEF AbortNoPreparedEnds, EndCall, Clear, Answered, logVars, recVars, Succeeded,
         SessionInv, Awaits, CommitPath, AbortPath, Tables
<1>3. CASE AbortSomePrepared(g)
  BY Zenon, <1>0, <1>t, <1>3
     DEF AbortSomePrepared, Send, SetState, Answered, logVars, recVars, SessionInv, Awaits,
         CommitPath, AbortPath, Tables
<1>4. CASE PrepareBadGangs(g)
  BY Zenon, <1>0, <1>t, <1>4
     DEF PrepareBadGangs, EndCall, SetState, Answered, logVars, recVars, SessionInv, Awaits,
         CommitPath, Tables
<1>5. CASE RollbackPrepared(g)
  BY Zenon, <1>0, <1>t, <1>5
     DEF RollbackPrepared, Send, SetState, logVars, recVars, SessionInv, Awaits, CommitPath,
         AbortPath, Tables
<1>6. CASE AbortBroadcastEnds(g)
  BY <1>0, <1>t, <1>6
     DEF AbortBroadcastEnds, EndCall, SetState, Answered, logVars, recVars, SessionInv,
         Awaits, CommitPath, AbortPath, Tables
<1>7. CASE RetryAbortPrepared(g)
  BY <1>0, <1>7
     DEF RetryAbortPrepared, AbortsPrepared, Send, logVars, recVars, SessionInv, Awaits,
         AbortPath
<1>8. CASE Aborted(g)
  BY Zenon, <1>0, <1>t, <1>8
     DEF Aborted, EndCall, Clear, Answered, logVars, recVars, SessionInv, Awaits,
         CommitPath, AbortPath, Tables
<1>9. CASE SessionExit(g)
  BY Zenon, <1>0, <1>t, <1>9
     DEF SessionExit, EndCall, Clear, logVars, recVars, SessionInv, Awaits, CommitPath, Tables
<1>10. QED
  BY Zenon, <1>1, <1>2, <1>3, <1>4, <1>5, <1>6, <1>7, <1>8, <1>9 DEF AbortStep

(* The session of a transaction is where its state says while the master goes down and
   recovers. *)
LEMMA SessionMaster ==
  ASSUME Inv, TypeOK', NEW h \in Gxacts,
         MasterStep
  PROVE  SessionInv(h)'
<1>0. /\ TypeOK /\ SessionInv(h)
      /\ durable \subseteq inserted
      /\ dtm # "up" => inserted = durable
      /\ cmd[Rec] # "NONE" => dtm # "up"
      /\ h \in Sessions /\ h # Rec
  BY Zenon, SessionsAre DEF Inv, RecoveryInv
<1>1. CASE MasterDown
  <2>1. state'[h] = "NONE" /\ cmd'[h] = "NONE" /\ UNCHANGED <<local, target>>
    BY Zenon, <1>0, <1>1 DEF MasterDown
  <2>2. fate'[h] = IF fate[h] = "running" THEN "crashed" ELSE fate[h]
    BY Zenon, <1>1 DEF MasterDown
  <2>3. inserted' \subseteq inserted /\ inserted' = durable'
    BY Zenon, <1>1 DEF MasterDown
  <2>4. QED
    BY Zenon, <1>0, <2>1, <2>2, <2>3 DEF SessionInv, Awaits, CommitPath
<1>2. ASSUME NEW g \in Gxacts, Panic(g) \/ SessionFatal(g) PROVE SessionInv(h)'
  BY Zenon, <1>2, <1>1 DEF Panic, SessionFatal
<1>3. CASE MasterCrash
  BY Zenon, <1>3, <1>1 DEF MasterCrash
<1>4. CASE Redo
  BY Zenon, <1>0, <1>4, SessionFrame DEF Redo, callVars, logVars
<1>i. CASE InitTM
  BY Zenon, <1>0, <1>i, SessionFrame DEF InitTM, callVars, logVars
<1>5. ASSUME NEW g \in Gxacts, NotifyCommittedInDoubt(g) PROVE SessionInv(h)'
  BY <1>0, <1>5, SessionFrame DEF NotifyCommittedInDoubt, Send, logVars
<1>6. CASE CommittedInDoubtNotified
  BY <1>0, <1>6, SessionFrame DEF CommittedInDoubtNotified, EndCall, callVars
<1>7. CASE GatherRMInDoubt
  BY <1>0, <1>7, SessionFrame DEF GatherRMInDoubt, Send, RecIdle, logVars, callVars
<1>8. CASE Gathered
  BY <1>0, <1>8, SessionFrame DEF Gathered, EndCall, logVars
<1>9. ASSUME NEW g \in Gxacts, AbortInDoubt(g) PROVE SessionInv(h)'
  BY <1>0, <1>9, SessionFrame DEF AbortInDoubt, Send, logVars
<1>10. CASE InDoubtAborted
  BY <1>0, <1>10, SessionFrame DEF InDoubtAborted, EndCall, Answered, logVars, recVars
<1>11. CASE DoubleCheck
  BY <1>0, <1>11, SessionFrame DEF DoubleCheck, Send, RecIdle, logVars, callVars, recVars
<1>12. CASE DtmStarted
  BY <1>0, <1>12, SessionFrame DEF DtmStarted, EndCall, logVars
<1>13. CASE RecoveryFails
  BY <1>0, <1>13, SessionFrame DEF RecoveryFails, EndCall, logVars
<1>14. QED
  BY Zenon, <1>2, <1>3, <1>4, <1>i, <1>5, <1>6, <1>7, <1>8, <1>9, <1>10, <1>11, <1>12, <1>13
     DEF MasterStep, RecoverStep

(* The session of a transaction is where its state says while the segments work, fail
   and lose their QD. *)
LEMMA SessionSegments ==
  ASSUME Inv, TypeOK', NEW h \in Gxacts,
         SegmentsStep
  PROVE  SessionInv(h)'
<1>0. /\ TypeOK /\ SessionInv(h)
      /\ durable \subseteq inserted
      /\ dtm # "up" => inserted = durable
      /\ cmd[Rec] # "NONE" => dtm # "up"
      /\ h \in Sessions /\ h # Rec
  BY Zenon, SessionsAre DEF Inv, RecoveryInv
<1>1. ASSUME NEW p \in Sessions, NEW q \in Segs, QEPerform(p, q) PROVE SessionInv(h)'
  <2>1. \A s \in Segs : local[h][s] = "committed" => local'[h][s] = "committed"
    BY <1>1, <1>0, QEPerformLocal, AfterIs
  <2>2. QED
    BY Zenon, <1>0, <1>1, <2>1, SessionFrame DEF QEPerform, logVars
<1>2. ASSUME NEW p \in Sessions, NEW q \in Segs, QEError(p, q) PROVE SessionInv(h)'
  <2>1. \A s \in Segs : local[h][s] = "committed" => local'[h][s] = "committed"
    BY Zenon, <1>2, <1>0, QEErrorLocal, AfterIs
  <2>2. QED
    BY Zenon, <1>0, <1>2, <2>1, SessionFrame DEF QEError, logVars, recVars
<1>3. ASSUME NEW w \in late, LateRun(w) PROVE SessionInv(h)'
  <2>1. \A s \in Segs : local[h][s] = "committed" => local'[h][s] = "committed"
    BY Zenon, <1>3, <1>0, LateRunLocal, AfterIs
  <2>2. QED
    BY Zenon, <1>0, <1>3, <2>1, SessionFrame DEF LateRun, logVars, recVars
<1>4. ASSUME NEW w \in late, LateDie(w) PROVE SessionInv(h)'
  <2>1. \A s \in Segs : local[h][s] = "committed" => local'[h][s] = "committed"
    BY Zenon, <1>4, <1>0, LateDieLocal, AfterIs
  <2>2. QED
    BY Zenon, <1>0, <1>4, <2>1, SessionFrame DEF LateDie, logVars, recVars
<1>5. ASSUME NEW p \in Sessions, NEW q \in Segs, Disconnect(p, q) PROVE SessionInv(h)'
  BY Zenon, <1>0, <1>5, SessionFrame DEF Disconnect, logVars, recVars
<1>6. ASSUME NEW q \in Segs, SegmentRestart(q) PROVE SessionInv(h)'
  <2>1. \A s \in Segs : local[h][s] = "committed" => local'[h][s] = "committed"
    BY Zenon, <1>6, <1>0, SegmentRestartLocal, AfterIs
  <2>2. QED
    BY Zenon, <1>0, <1>6, <2>1, SessionFrame DEF SegmentRestart, logVars, recVars
<1>7. ASSUME NEW p \in Sessions, DispatchThrows(p) PROVE SessionInv(h)'
  BY Zenon, <1>0, <1>7, SessionFrame DEF DispatchThrows, logVars, recVars
<1>8. QED
  BY Zenon, <1>1, <1>2, <1>3, <1>4, <1>5, <1>6, <1>7 DEF SegmentsStep

(* The session of every transaction stays where its state says it is. *)
LEMMA SessionStep ==
  ASSUME Inv, TypeOK', [Next]_vars, NEW h \in Gxacts
  PROVE  SessionInv(h)'
<1>0. /\ TypeOK /\ SessionInv(h)
      /\ durable \subseteq inserted
      /\ dtm # "up" => inserted = durable
      /\ cmd[Rec] # "NONE" => dtm # "up"
      /\ h \in Sessions /\ h # Rec
  BY Zenon, SessionsAre DEF Inv, RecoveryInv
<1>1. ASSUME NEW g \in Gxacts, WorkStep(g) PROVE SessionInv(h)'
  BY Zenon, <1>1, SessionWork
<1>2. ASSUME NEW g \in Gxacts, CommitStep(g) PROVE SessionInv(h)'
  BY Zenon, <1>2, SessionCommit
<1>3. ASSUME NEW g \in Gxacts, AbortStep(g) PROVE SessionInv(h)'
  BY Zenon, <1>3, SessionAbort
<1>4. CASE MasterStep
  BY Zenon, <1>4, SessionMaster
<1>5. CASE SegmentsStep
  BY Zenon, <1>5, SessionSegments
<1>6. CASE UNCHANGED vars
  BY Zenon, <1>0, <1>6, SessionFrame DEF vars, callVars, logVars, recVars
<1>7. QED
  BY Zenon, <1>1, <1>2, <1>3, <1>4, <1>5, <1>6, NextIs

-----------------------------------------------------------------------------
(* Recovery *)

(* A step of the session of g: what the other sessions, the other transactions
   and recovery have is left alone. *)
Aside(g) ==
  /\ UNCHANGED recVars
  /\ cmd'[Rec] = cmd[Rec] /\ qe'[Rec] = qe[Rec]
  /\ \A x \in Gxacts \ {g} : state'[x] = state[x] /\ fate'[x] = fate[x]
  /\ inserted' \subseteq inserted \cup {g} /\ durable \subseteq durable'

(* A session at work is not one that recovery has to finish. *)
LEMMA NotInDoubt ==
  ASSUME Inv, NEW g \in Gxacts,
         (dtm = "up" /\ fate[g] = "idle") \/ state[g] # "NONE"
  PROVE  dtm = "up" /\ g \notin doubt
BY Zenon DEF Inv, RecoveryInv, SessionInv

(* A session that waits for an answer, or has had it, is at work. *)
LEMMA AtWork ==
  ASSUME Inv, NEW g \in Gxacts, cmd[g] # "NONE"
  PROVE  state[g] # "NONE"
<1>1. Awaits(state[g], cmd[g])
  BY Zenon DEF Inv, SessionInv
<1>2. QED
  BY Zenon, <1>1 DEF Awaits, AbortPath

(* The steps by which a client works leave everything else alone. *)
LEMMA WorkAside ==
  ASSUME Inv, NEW g \in Gxacts, WorkStep(g)
  PROVE  Aside(g) /\ dtm = "up" /\ g \notin doubt
<1>t. Tables /\ g \in Sessions /\ Rec \in Sessions /\ g # Rec
  BY Zenon, TablesTyped, SessionsAre DEF Inv, TypeOK
<1>1. CASE Begin(g)
  BY <1>t, <1>1, NotInDoubt DEF Begin, SetState, callVars, logVars, recVars, Aside, Tables
<1>2. CASE EndNotDistributed(g)
  BY <1>t, <1>2, NotInDoubt DEF EndNotDistributed, Clear, logVars, Aside, Tables
<1>3. ASSUME NEW T \in {Segs} \cup {{x} : x \in Segs}, GoDistributed(g, T)
      PROVE  Aside(g) /\ dtm = "up" /\ g \notin doubt
  BY Zenon, <1>t, <1>3, NotInDoubt DEF GoDistributed, SetState, logVars, Aside, Tables
<1>4. CASE Promote(g)
  BY Zenon, <1>t, <1>4, NotInDoubt DEF Promote, Send, logVars, Aside, Tables
<1>5. CASE Promoted(g)
  BY Zenon, <1>t, <1>5, NotInDoubt, AtWork DEF Promoted, Answered, EndCall, qdVars, logVars, Aside, Tables
<1>6. CASE Prepare(g)
  BY Zenon, <1>t, <1>6, NotInDoubt DEF Prepare, SetState, Send, logVars, Aside, Tables
<1>7. CASE Prepared(g)
  BY Zenon, <1>t, <1>7, NotInDoubt, AtWork DEF Prepared, Answered, SetState, EndCall, logVars, Aside, Tables
<1>8. QED
  BY Zenon, <1>1, <1>2, <1>3, <1>4, <1>5, <1>6, <1>7 DEF WorkStep

(* The steps by which a QD commits leave everything else alone. *)
LEMMA CommitAside ==
  ASSUME Inv, NEW g \in Gxacts, CommitStep(g)
  PROVE  Aside(g) /\ dtm = "up" /\ g \notin doubt
<1>t. Tables /\ g \in Sessions /\ Rec \in Sessions /\ g # Rec
      /\ durable \subseteq inserted
  BY Zenon, TablesTyped, SessionsAre DEF Inv, TypeOK
<1>1. CASE InsertingDistributedCommitted(g)
  BY Zenon, <1>t, <1>1, NotInDoubt
     DEF InsertingDistributedCommitted, SetState, callVars, logVars, Aside, Tables
<1>2. CASE InsertedDistributedCommitted(g)
  BY Zenon, <1>t, <1>2, NotInDoubt
     DEF InsertedDistributedCommitted, SetState, callVars, Aside, Tables
<1>3. CASE FlushCommit(g)
  BY Zenon, <1>t, <1>3, NotInDoubt DEF FlushCommit, qdVars, callVars, Aside
<1>4. CASE NotifyCommitPrepared(g)
  BY Zenon, <1>t, <1>4, NotInDoubt DEF NotifyCommitPrepared, SetState, Send, logVars, Aside, Tables
<1>5. CASE CommitNotified(g)
  BY Zenon, <1>t, <1>5, NotInDoubt, AtWork DEF CommitNotified, Answered, SetState, EndCall, Aside, Tables
<1>6. CASE CommitNotifyFailed(g)
  BY Zenon, <1>t, <1>6, NotInDoubt, AtWork
     DEF CommitNotifyFailed, Answered, SetState, EndCall, logVars, Aside, Tables
<1>7. CASE RetryCommitPrepared(g)
  BY Zenon, <1>t, <1>7, NotInDoubt DEF RetryCommitPrepared, Send, logVars, Aside, Tables
<1>8. CASE Committed(g)
  BY <1>t, <1>8, NotInDoubt DEF Committed, Clear, logVars, Aside, Tables
<1>9. QED
  BY Zenon, <1>1, <1>2, <1>3, <1>4, <1>5, <1>6, <1>7, <1>8 DEF CommitStep

(* The steps by which a QD aborts leave everything else alone. *)
LEMMA AbortAside ==
  ASSUME Inv, NEW g \in Gxacts, AbortStep(g)
  PROVE  Aside(g) /\ dtm = "up" /\ g \notin doubt
<1>t. Tables /\ g \in Sessions /\ Rec \in Sessions /\ g # Rec
  BY Zenon, TablesTyped, SessionsAre DEF Inv, TypeOK
<1>1. CASE RollbackActive(g)
  BY Zenon, <1>t, <1>1, NotInDoubt DEF RollbackActive, SetState, Send, logVars, Aside, Tables
<1>2. CASE AbortNoPreparedEnds(g)
  BY <1>t, <1>2, NotInDoubt, AtWork
     DEF AbortNoPreparedEnds, Answered, EndCall, Clear, logVars, Aside, Tables
<1>3. CASE AbortSomePrepared(g)
  BY Zenon, <1>t, <1>3, NotInDoubt, AtWork
     DEF AbortSomePrepared, Answered, SetState, Send, logVars, Aside, Tables
<1>4. CASE PrepareBadGangs(g)
  BY Zenon, <1>t, <1>4, NotInDoubt, AtWork
     DEF PrepareBadGangs, Answered, SetState, EndCall, logVars, Aside, Tables
<1>5. CASE RollbackPrepared(g)
  BY Zenon, <1>t, <1>5, NotInDoubt DEF RollbackPrepared, SetState, Send, logVars, Aside, Tables
<1>6. CASE AbortBroadcastEnds(g)
  BY Zenon, <1>t, <1>6, NotInDoubt, AtWork
     DEF AbortBroadcastEnds, Answered, SetState, EndCall, logVars, Aside, Tables
<1>7. CASE RetryAbortPrepared(g)
  BY Zenon, <1>t, <1>7, NotInDoubt DEF RetryAbortPrepared, AbortsPrepared, Send, logVars, Aside, Tables
<1>8. CASE Aborted(g)
  BY <1>t, <1>8, NotInDoubt, AtWork DEF Aborted, Answered, EndCall, Clear, logVars, Aside, Tables
<1>9. CASE SessionExit(g)
  BY <1>t, <1>9, NotInDoubt DEF SessionExit, EndCall, Clear, logVars, Aside, Tables
<1>10. QED
  BY Zenon, <1>1, <1>2, <1>3, <1>4, <1>5, <1>6, <1>7, <1>8, <1>9 DEF AbortStep

(* Recovery has nothing in hand that a session could take from it. *)
LEMMA RecoverySessions ==
  ASSUME Inv, NEW g \in Gxacts, Aside(g) /\ dtm = "up" /\ g \notin doubt
  PROVE  RecoveryInv'
<1>1. RecoveryInv /\ doubt \subseteq Gxacts
  BY Zenon DEF Inv, TypeOK
<1>2. \A x \in doubt : x \notin inserted' /\ fate'[x] # "idle" /\ state'[x] = "NONE"
  BY Zenon, <1>1 DEF Aside, RecoveryInv
<1>3. QED
  BY Zenon, <1>1, <1>2 DEF Aside, recVars, RecoveryInv

(* Recovery still has the right transactions in hand when only its QEs, its
   answers and the segments change, and nothing becomes prepared that recovery
   has committed. *)
LEMMA RecoveryFrame ==
  ASSUME RecoveryInv, UNCHANGED <<qdVars, cmd, logVars, recVars>>,
         \A s \in Segs : qe'[Rec][s] = qe[Rec][s] \/ qe'[Rec][s] \in {"LOST", "LOCAL_ONLY"},
         \A s \in Segs : reply'[Rec][s] = reply[Rec][s] \/ reply'[Rec][s] \in {"error", "lost", "thrown"},
         rgid \in durable =>
           \A s \in Segs : local[rgid][s] # "prepared" => local'[rgid][s] # "prepared"
  PROVE  RecoveryInv'
BY DEF RecoveryInv, qdVars, logVars, recVars

(* Recovery has the right transactions in hand while the master goes down and recovers. *)
LEMMA RecoveryMaster ==
  ASSUME Inv, TypeOK', MasterStep
  PROVE  RecoveryInv'
<1>0. /\ TypeOK /\ RecoveryInv
      /\ durable \subseteq inserted /\ forgot \subseteq durable
      /\ \A h \in Gxacts : SessionInv(h)
      /\ \A p \in Sessions : cmd[p] = "NONE" => \A s \in Segs : reply[p][s] = "none"
  BY Zenon, SessionsAre DEF Inv, NoReply
<1>d. CASE MasterDown
  BY Zenon, <1>d, SessionsAre DEF MasterDown, NoGang, RecoveryInv
<1>1. ASSUME NEW g \in Gxacts, Panic(g) \/ SessionFatal(g) PROVE RecoveryInv'
  BY Zenon, <1>d, <1>1 DEF Panic, SessionFatal
<1>2. CASE MasterCrash
  BY Zenon, <1>d, <1>2 DEF MasterCrash
<1>3. CASE Redo
  BY <1>0, <1>3 DEF Redo, qdVars, callVars, logVars, RecoveryInv
<1>i. CASE InitTM
  BY Zenon, <1>0, <1>i DEF InitTM, qdVars, callVars, logVars, RecoveryInv
<1>t. Tables
  BY Zenon, <1>0, TablesTyped
<1>s. ASSUME NEW c \in Command, Send(Rec, c, Segs, Gang(Rec))
      PROVE  /\ cmd'[Rec] = c
             /\ \A s \in Segs : /\ qe'[Rec][s] \in {"NONE", "LOST", "LOCAL_ONLY"}
                               /\ reply'[Rec][s] \in {"lost", "wait"}
  BY Zenon, <1>0, <1>t, <1>s, SessionsAre DEF Send, Gang, NewGang, Tables, RecoveryInv
<1>e. EndCall(Rec) => cmd'[Rec] = "NONE"
  BY Zenon, <1>t, SessionsAre DEF EndCall, Tables
<1>n. \A s \in Segs : NoGang[s] = "NONE"
  BY Zenon DEF NoGang, NewGang
<1>4. ASSUME NEW g \in Gxacts, NotifyCommittedInDoubt(g) PROVE RecoveryInv'
  <2>1. /\ cmd'[Rec] = "RECOVERY_COMMIT_PREPARED"
        /\ \A s \in Segs : /\ qe'[Rec][s] \in {"NONE", "LOST", "LOCAL_ONLY"}
                          /\ reply'[Rec][s] \in {"lost", "wait"}
    BY Zenon, <1>4, <1>s DEF NotifyCommittedInDoubt, Command
  <2>2. /\ rgid' \in todo /\ dtm = "recover"
        /\ UNCHANGED <<state, fate, logVars, dtm, known, todo, doubt>>
    BY Zenon, <1>4 DEF NotifyCommittedInDoubt, RecIdle, qdVars
  <2>3. QED
    BY Zenon, <1>0, <2>1, <2>2 DEF logVars, RecoveryInv
<1>5. CASE CommittedInDoubtNotified
  <2>1. /\ cmd'[Rec] = "NONE" /\ todo' \subseteq todo
        /\ UNCHANGED <<state, fate, qe, inserted, durable, dtm, known, doubt>>
    BY Zenon, <1>5, <1>e DEF CommittedInDoubtNotified, qdVars
  <2>2. QED
    BY Zenon, <1>0, <2>1 DEF RecoveryInv
<1>6. CASE GatherRMInDoubt
  BY Zenon, <1>0, <1>6, <1>s DEF GatherRMInDoubt, RecIdle, qdVars, logVars, RecoveryInv, Command
<1>7. CASE Gathered
  BY Zenon, <1>0, <1>7, <1>e DEF Gathered, qdVars, logVars, RecoveryInv
<1>8. ASSUME NEW g \in Gxacts, AbortInDoubt(g) PROVE RecoveryInv'
  BY Zenon, <1>0, <1>8, <1>s DEF AbortInDoubt, RecIdle, qdVars, logVars, RecoveryInv, Command
<1>9. CASE InDoubtAborted
  BY Zenon, <1>0, <1>9, <1>e DEF InDoubtAborted, Answered, qdVars, logVars, RecoveryInv
<1>10. CASE DoubleCheck
  BY Zenon, <1>0, <1>10, <1>s DEF DoubleCheck, RecIdle, qdVars, logVars, RecoveryInv, Command
<1>11. CASE DtmStarted
  BY Zenon, <1>0, <1>11, <1>e, <1>n, <1>t, SessionsAre DEF DtmStarted, qdVars, Tables, RecoveryInv
<1>12. CASE RecoveryFails
  BY Zenon, <1>0, <1>12, <1>e, <1>n, <1>t, SessionsAre DEF RecoveryFails, logVars, Tables, RecoveryInv
<1>13. QED
  BY Zenon, <1>1, <1>2, <1>3, <1>i, <1>4, <1>5, <1>6, <1>7, <1>8, <1>9, <1>10, <1>11, <1>12
     DEF MasterStep, RecoverStep

(* Recovery has the right transactions in hand while the segments work, fail and lose
   their QD. *)
LEMMA RecoverySegments ==
  ASSUME Inv, TypeOK', SegmentsStep
  PROVE  RecoveryInv'
<1>0. /\ TypeOK /\ RecoveryInv
      /\ durable \subseteq inserted /\ forgot \subseteq durable
      /\ \A h \in Gxacts : SessionInv(h)
      /\ \A p \in Sessions : cmd[p] = "NONE" => \A s \in Segs : reply[p][s] = "none"
  BY Zenon, SessionsAre DEF Inv, NoReply
<1>t. Tables
  BY Zenon, <1>0, TablesTyped
<1>r. rgid \in Gxacts
  BY Zenon, <1>0 DEF TypeOK
<1>1. ASSUME NEW p \in Sessions, NEW q \in Segs, QEPerform(p, q) PROVE RecoveryInv'
  <2>1. CASE p # Rec
    <3>1. dtm = "up" /\ cmd[p] # "GATHER" /\ cmd[p] # "NONE"
      BY Zenon, <1>0, <1>1, <2>1, SessionsAre DEF QEPerform, SessionInv, Awaits, AbortPath
    <3>2. UNCHANGED <<qdVars, cmd, logVars, recVars>> /\ reply'[Rec] = reply[Rec] /\ qe'[Rec] = qe[Rec]
      BY <1>1, <2>1, <3>1 DEF QEPerform, recVars
    <3>3. cmd[Rec] = "NONE" /\ cmd'[Rec] = "NONE"
      BY Zenon, <1>0, <3>1, <3>2 DEF RecoveryInv
    <3>4. QED
      BY Zenon, <1>0, <3>2, <3>3 DEF RecoveryInv, qdVars, logVars, recVars
  <2>2. CASE p = Rec
    <3> DEFINE op == QEOp(cmd[Rec], qe[Rec][q])
    <3>1. cmd[Rec] # "NONE" /\ dtm # "up" /\ dtm # "down"
      BY Zenon, <1>0, <1>1, <2>2 DEF QEPerform, RecoveryInv
    <3>2. /\ op = "COMMIT" \/ op = "FATAL" \/ cmd[Rec] # "RECOVERY_COMMIT_PREPARED"
          /\ op # "START" /\ op # "PREPARE" /\ (op = "NOTHING" \/ op # "NOTHING")
      BY <1>0, QEOpStarts, QEOpOf DEF RecoveryInv
    <3>3. \A s \in Segs : local'[rgid][s] = IF s = q THEN After(op, local[rgid][s]) ELSE local[rgid][s]
      BY <1>0, <1>r, <1>1, <2>2, QEPerformLocal DEF Gid
    <3>4. \A s \in Segs : qe'[Rec][s] = IF s = q THEN ContextAfter(op, qe[Rec][s]) ELSE qe[Rec][s]
      BY Zenon, <1>t, <1>1, <2>2 DEF QEPerform, Tables
    <3>5. \A s \in Segs : IF s = q THEN reply'[Rec][s] # "none" /\ (op = "FATAL" => reply'[Rec][s] = "lost")
                         ELSE reply'[Rec][s] = reply[Rec][s]
      BY Zenon, <1>t, <1>1, <2>2 DEF QEPerform, Tables
    <3>6. \A x \in doubt' : x \in doubt \/ (cmd[Rec] = "GATHER" /\ x \in Gxacts /\ local[x][q] = "prepared")
      BY Zenon, <1>1, <2>2 DEF QEPerform
    <3>7. \A x \in doubt' : x \notin inserted /\ fate[x] # "idle" /\ state[x] = "NONE"
      <4> TAKE x \in doubt'
      <4>1. CASE x \in doubt
        BY Zenon, <1>0, <4>1 DEF RecoveryInv
      <4>2. CASE cmd[Rec] = "GATHER" /\ x \in Gxacts /\ local[x][q] = "prepared"
        <5>1. SegmentInv(x, q) /\ SessionInv(x) /\ dtm # "up"
          BY Zenon, <1>0, <3>1, <4>2, SegmentFacts
        <5>2. state[x] = "NONE" /\ inserted = durable /\ dtm \in {"gather", "check"}
          BY Zenon, <1>0, <4>2, <5>1 DEF SessionInv, RecoveryInv
        <5>3. QED
          BY Zenon, <1>0, <4>2, <5>1, <5>2 DEF SegmentInv
      <4>3. QED
        BY Zenon, <3>6, <4>1, <4>2
    <3>8. UNCHANGED <<qdVars, cmd, logVars, dtm, known, todo, firstTry, rgid>>
      BY Zenon, <1>1 DEF QEPerform
    <3> HIDE DEF op
    <3>9. \A s \in Segs : qe'[Rec][s] \in {"NONE", "LOST", "LOCAL_ONLY"}
      BY Zenon, <1>0, <3>2, <3>4, ContextAfterIs DEF RecoveryInv
    <3>10. cmd[Rec] = "RECOVERY_COMMIT_PREPARED" =>
             \A s \in Segs : reply'[Rec][s] # "none" /\ (reply'[Rec][s] = "ok" => local'[rgid][s] # "prepared")
      BY <1>0, <3>2, <3>3, <3>5, AfterIs DEF RecoveryInv
    <3>11. QED
      BY Zenon, <1>0, <3>7, <3>8, <3>9, <3>10 DEF RecoveryInv, qdVars, logVars
  <2>3. QED
    BY Zenon, <2>1, <2>2
<1>2. ASSUME NEW p \in Sessions, NEW q \in Segs, QEError(p, q) PROVE RecoveryInv'
  <2>1. \A s \in Segs : local[rgid][s] # "prepared" => local'[rgid][s] # "prepared"
    BY <1>0, <1>2, <1>r, QEErrorLocal, AfterIs
  <2>2. \A s \in Segs : qe'[Rec][s] = qe[Rec][s] \/ qe'[Rec][s] = "LOCAL_ONLY"
    BY <1>t, <1>2 DEF QEError, Tables
  <2>3. \A s \in Segs : reply'[Rec][s] = reply[Rec][s] \/ reply'[Rec][s] = "error"
    BY <1>t, <1>2 DEF QEError, Tables
  <2>4. UNCHANGED <<qdVars, cmd, logVars, recVars>>
    BY Zenon, <1>2 DEF QEError
  <2>5. QED
    BY Zenon, <1>0, <2>1, <2>2, <2>3, <2>4, RecoveryFrame
<1>3. ASSUME NEW w \in late, LateRun(w) PROVE RecoveryInv'
  <2>1. \A h \in durable, s \in Segs : local[h][s] # "prepared" => local'[h][s] # "prepared"
    <3>1. LateInv(w) /\ durable \subseteq Gxacts
      BY Zenon, <1>0 DEF Inv, TypeOK
    <3>2. QED
      BY <1>0, <1>3, <3>1, LateRunLocal, AfterIs DEF LateInv
  <2>2. UNCHANGED <<qdVars, cmd, reply, qe, logVars, recVars>>
    BY Zenon, <1>3 DEF LateRun
  <2>3. QED
    BY Zenon, <1>0, <2>1, <2>2, RecoveryFrame
<1>4. ASSUME NEW w \in late, LateDie(w) PROVE RecoveryInv'
  <2>1. \A h \in durable, s \in Segs : local[h][s] # "prepared" => local'[h][s] # "prepared"
    <3>1. LateInv(w) /\ durable \subseteq Gxacts
      BY Zenon, <1>0 DEF Inv, TypeOK
    <3>2. QED
      BY <1>0, <1>4, <3>1, LateDieLocal, AfterIs
  <2>2. UNCHANGED <<qdVars, cmd, reply, qe, logVars, recVars>>
    BY Zenon, <1>4 DEF LateDie
  <2>3. QED
    BY Zenon, <1>0, <2>1, <2>2, RecoveryFrame
<1>5. ASSUME NEW p \in Sessions, NEW q \in Segs, Disconnect(p, q) PROVE RecoveryInv'
  <2>1. \A s \in Segs : qe'[Rec][s] = qe[Rec][s] \/ qe'[Rec][s] = "LOST"
    BY <1>t, <1>5 DEF Disconnect, Tables
  <2>2. \A s \in Segs : reply'[Rec][s] = reply[Rec][s] \/ reply'[Rec][s] = "lost"
    BY <1>t, <1>5 DEF Disconnect, Tables
  <2>3. UNCHANGED <<qdVars, cmd, local, logVars, recVars>>
    BY Zenon, <1>5 DEF Disconnect
  <2>4. QED
    BY Zenon, <1>0, <2>1, <2>2, <2>3, RecoveryFrame
<1>6. ASSUME NEW q \in Segs, SegmentRestart(q) PROVE RecoveryInv'
  <2>1. \A s \in Segs : local[rgid][s] # "prepared" => local'[rgid][s] # "prepared"
    BY <1>0, <1>t, <1>r, <1>6, SegmentRestartLocal, AfterIs DEF Tables
  <2>2. \A s \in Segs : qe'[Rec][s] = qe[Rec][s] \/ qe'[Rec][s] = "LOST"
    BY Zenon, <1>t, <1>6, SessionsAre DEF SegmentRestart, Tables
  <2>3. \A s \in Segs : reply'[Rec][s] = reply[Rec][s] \/ reply'[Rec][s] = "lost"
    BY Zenon, <1>t, <1>6, SessionsAre DEF SegmentRestart, Tables
  <2>4. UNCHANGED <<qdVars, cmd, logVars, recVars>>
    BY Zenon, <1>6 DEF SegmentRestart
  <2>5. QED
    BY Zenon, <1>0, <2>1, <2>2, <2>3, <2>4, RecoveryFrame
<1>7. ASSUME NEW p \in Sessions, DispatchThrows(p) PROVE RecoveryInv'
  <2>1. \A s \in Segs : reply'[Rec][s] = reply[Rec][s] \/ reply'[Rec][s] = "thrown"
    BY <1>t, <1>7 DEF DispatchThrows, Tables
  <2>2. UNCHANGED <<qdVars, cmd, qe, local, logVars, recVars>>
    BY Zenon, <1>7 DEF DispatchThrows
  <2>3. QED
    BY Zenon, <1>0, <2>1, <2>2, RecoveryFrame
<1>8. QED
  BY Zenon, <1>1, <1>2, <1>3, <1>4, <1>5, <1>6, <1>7 DEF SegmentsStep

(* Recovery keeps committing and aborting the right transactions. *)
LEMMA RecoveryStep ==
  ASSUME Inv, TypeOK', [Next]_vars
  PROVE  RecoveryInv'
<1>0. RecoveryInv
  BY Zenon DEF Inv
<1>1. ASSUME NEW g \in Gxacts, WorkStep(g) PROVE RecoveryInv'
  BY Zenon, <1>1, WorkAside, RecoverySessions
<1>2. ASSUME NEW g \in Gxacts, CommitStep(g) PROVE RecoveryInv'
  BY Zenon, <1>2, CommitAside, RecoverySessions
<1>3. ASSUME NEW g \in Gxacts, AbortStep(g) PROVE RecoveryInv'
  BY Zenon, <1>3, AbortAside, RecoverySessions
<1>4. CASE MasterStep
  BY Zenon, <1>4, RecoveryMaster
<1>5. CASE SegmentsStep
  BY Zenon, <1>5, RecoverySegments
<1>6. CASE UNCHANGED vars
  BY Zenon, <1>0, <1>6, RecoveryFrame DEF vars, callVars
<1>7. QED
  BY Zenon, <1>1, <1>2, <1>3, <1>4, <1>5, <1>6, NextIs
=============================================================================
