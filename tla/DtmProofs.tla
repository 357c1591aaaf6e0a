------------------------------ MODULE DtmProofs -----------------------------
(***************************************************************************)
(* Inv of module DtmInvariant is inductive, the safety properties of Dtm   *)
(* follow from it, and Dtm implements DistCommit.                          *)
(***************************************************************************)
EXTENDS DtmMasterProofs, DtmSegmentProofs

-----------------------------------------------------------------------------
(* The steps of the QEs *)

(* Segments and sessions agree when a QE does what it was asked to, or fails. *)
LEMMA SegmentQE ==
  ASSUME Inv, TypeOK', NEW h \in Gxacts, NEW s \in Segs,
         NEW p \in Sessions, NEW q \in Segs, QEPerform(p, q) \/ QEError(p, q)
  PROVE  SegmentInv(h, s)'
<1>0. /\ TypeOK /\ SessionInv(h) /\ RecoveryInv
  BY Zenon DEF Inv
<1>i. /\ SegmentInv(h, s) /\ (cmd[h] = "NONE" => reply[h][s] = "none")
      /\ durable \subseteq inserted /\ forgot \subseteq durable
  BY Zenon, SegmentFacts
<1>t. Tables
  BY Zenon, TablesTyped DEF Inv
<1>1. CASE QEPerform(p, q)
  <2> DEFINE op == QEOp(cmd[p], qe[p][q])
  <2>1. local'[h][s] = IF h = Gid(p) /\ s = q THEN After(op, local[h][s]) ELSE local[h][s]
    BY <1>0, <1>i, <1>t, <1>1, QEPerformLocal DEF SessionInv, Tables
  <2>2. qe'[h][s] = IF h = p /\ s = q THEN ContextAfter(op, qe[h][s]) ELSE qe[h][s]
    BY Zenon, <1>i, <1>t, <1>1, SessionsAre DEF QEPerform, Tables
  <2>3. reply'[h][s] = reply[h][s] \/ (h = p /\ s = q /\ reply[h][s] = "wait")
    BY Zenon, <1>i, <1>t, <1>1, SessionsAre DEF QEPerform, Tables
  <2>4. h = p /\ s = q => \/ reply'[h][s] \in {"lost", "error"}
                         \/ /\ reply'[h][s] = "ok" /\ op \notin {"ERROR", "FATAL"}
                            /\ cmd[h] = "COMMIT_PREPARED" /\ op = "COMMIT" => local[h][s] = "prepared"
    BY Zenon, <1>i, <1>t, <1>1, SessionsAre DEF QEPerform, Gid, Insists, Tables
  <2>5. UNCHANGED <<qdVars, cmd, logVars, dtm, todo>> /\ reply[p][q] = "wait"
    BY Zenon, <1>1 DEF QEPerform
  <2>6. /\ op = "START" <=> cmd[p] = "BECOME_IMPLIED_WRITER" /\ qe[p][q] = "LOCAL_ONLY"
        /\ op = "PREPARE" <=> cmd[p] = "PREPARE" /\ qe[p][q] = "WRITER"
    BY Zenon, QEOpStarts
  <2> HIDE DEF op
  <2>7. CASE h = p /\ s = q
    <3>1. h = Gid(p)
      BY Zenon, <2>7, SessionsAre DEF Gid
    <3>2. Awaits(state[h], cmd[h]) /\ cmd[h] # "NONE"
      BY Zenon, <1>0, <1>i, <2>5, <2>7 DEF SessionInv, Tables
    <3>3. /\ op = "ABORT" \/ op = "CANCEL" => state[h] \in AbortPath
          /\ op = "COMMIT" => state[h] \in CommitPath \ {"INSERTED_COMMITTED"}
          /\ state[h] \in CommitPath => op \in {"COMMIT", "FATAL"}
          /\ state[h] = "PREPARING" => op \in {"PREPARE", "ERROR", "FATAL"}
          /\ state[h] = "ACTIVE_DISTRIBUTED" /\ qe[h][s] = "WRITER" => op = "NOTHING"
      BY <2>7, <3>2, QEOpStarts, QEOpOf DEF Awaits, CommitPath, AbortPath, op
    <3>4. CASE state[h] = "ACTIVE_DISTRIBUTED"
      <4>1. cmd[h] = "BECOME_IMPLIED_WRITER" /\ h \notin inserted
        BY Zenon, <1>0, <1>i, <1>t, <3>2, <3>4 DEF AbortPath, CommitPath, SessionInv, Awaits
      <4>2. StartInv(h, s) /\ s \in target[h] /\ (qe[h][s] = "WRITER" => local[h][s] = "active")
        BY Zenon, <1>i, <3>4, <4>1 DEF SegmentInv, StartInv, Tables
      <4>3. \/ qe[h][s] = "WRITER" /\ op = "NOTHING" /\ local[h][s] = "active"
            \/ qe[h][s] = "LOCAL_ONLY" /\ op = "START" /\ local[h][s] = "none"
        BY Zenon, <2>5, <2>6, <2>7, <3>3, <3>4, <4>1, <4>2 DEF StartInv
      <4>4. qe'[h][s] = "WRITER" /\ local'[h][s] = "active" /\ reply'[h][s] # "none"
        BY <2>1, <2>2, <2>4, <2>7, <3>1, <4>3, AfterIs, ContextAfterIs, ZenonT(30)
      <4>5. QED
        BY Zenon, <1>i, <2>5, <3>4, <4>1, <4>2, <4>4
           DEF qdVars, logVars, SegmentInv, StartInv, CommitPath, Voted
    <3>5. CASE state[h] = "PREPARING"
      <4>1. h \notin inserted
        BY Zenon, <1>0, <1>i, <3>5 DEF CommitPath, SessionInv
      <4>2. \/ op = "PREPARE" /\ local[h][s] = "active" /\ s \in target[h]
            \/ op \in {"ERROR", "FATAL"}
        BY Zenon, <1>i, <2>6, <2>7, <3>3, <3>5 DEF SegmentInv
      <4>3. /\ qe'[h][s] # "WRITER" /\ reply'[h][s] # "none"
            /\ op = "PREPARE" => local'[h][s] = "prepared"
            /\ op # "PREPARE" => local'[h][s] = local[h][s] /\ reply'[h][s] # "ok"
        BY <2>1, <2>2, <2>4, <2>7, <3>1, <4>2, AfterIs, ContextAfterIs, ZenonT(30)
      <4>4. QED
        BY Zenon, <1>i, <1>t, <2>5, <3>5, <4>1, <4>2, <4>3
           DEF qdVars, logVars, SegmentInv, CommitPath, Voted
    <3>6. CASE state[h] \in CommitPath
      <4>1. h \in inserted /\ (op = "COMMIT" => h \in durable)
        BY Zenon, <1>0, <1>i, <1>t, <3>3, <3>6 DEF SessionInv, Tables
      <4>2. s \in target[h] /\ local[h][s] \in {"prepared", "committed"}
        BY Zenon, <1>i, <2>5, <2>7, <3>6, <4>1 DEF SegmentInv, Tables
      <4>3. /\ qe'[h][s] # "WRITER" /\ reply'[h][s] # "none"
            /\ op = "COMMIT" => local'[h][s] = "committed"
            /\ op # "COMMIT" => local'[h][s] = local[h][s] /\ reply'[h][s] # "ok"
        BY <2>1, <2>2, <2>4, <2>7, <3>1, <3>3, <3>6, <4>2, AfterIs, ContextAfterIs, ZenonT(30)
      <4>4. QED
        BY Zenon, <1>i, <1>t, <2>5, <3>6, <4>1, <4>2, <4>3
           DEF qdVars, logVars, SegmentInv, CommitPath, Voted, Tables
    <3>7. CASE state[h] \in AbortPath
      <4>1. h \notin inserted /\ h \notin durable /\ h \notin forgot
        BY Zenon, <1>0, <1>i, <3>7 DEF AbortPath, CommitPath, SessionInv, Tables
      <4>2. op # "START" /\ op # "COMMIT" /\ op # "PREPARE"
        BY Zenon, <2>6, <2>7, <3>2, <3>3, <3>7 DEF Awaits, AbortPath, CommitPath
      <4>3. local'[h][s] # "committed" /\ (local[h][s] = "none" => local'[h][s] = "none")
        BY Zenon, <1>i, <2>1, <4>1, <4>2, AfterIs DEF SegmentInv
      <4>4. qe'[h][s] = "WRITER" => qe[h][s] = "WRITER"
        BY Zenon, <2>2, <4>2, ContextAfterIs
      <4>5. reply'[h][s] # "none"
        BY Zenon, <2>4, <2>7
      <4>6. QED
        BY Zenon, <1>i, <2>5, <3>7, <4>1, <4>3, <4>4, <4>5
           DEF qdVars, logVars, SegmentInv, AbortPath, CommitPath, Voted
    <3>8. QED
      BY Zenon, <3>2, <3>4, <3>5, <3>6, <3>7 DEF Awaits, CommitPath
  <2>8. CASE p = Rec /\ h = rgid /\ s = q
    <3>1. /\ op = "COMMIT" => cmd[Rec] = "RECOVERY_COMMIT_PREPARED"
          /\ op = "ABORT" => cmd[Rec] = "RECOVERY_ABORT_PREPARED"
          /\ op \notin {"START", "PREPARE", "CANCEL"}
      BY <1>0, <1>i, <2>6, <2>8, QEOpStarts DEF RecoveryInv, op
    <3>2. /\ op = "COMMIT" => h \in durable
          /\ op = "ABORT" => h \notin inserted
          /\ op \in {"COMMIT", "ABORT"} => state[h] = "NONE"
      BY Zenon, <1>0, <1>i, <2>5, <2>8, <3>1 DEF SessionInv, RecoveryInv, Awaits
    <3>3. /\ UNCHANGED <<qe[h][s], reply[h][s]>>
          /\ local'[h][s] = IF op = "COMMIT" /\ local[h][s] = "prepared" THEN "committed"
                            ELSE IF op = "ABORT" /\ local[h][s] = "prepared" THEN "aborted"
                            ELSE local[h][s]
      BY Zenon, <2>1, <2>2, <2>3, <2>8, <3>1, SessionsAre, AfterIs DEF Gid
    <3>4. CASE op \in {"COMMIT", "ABORT"}
      BY Zenon, <1>i, <2>5, <3>2, <3>3, <3>4 DEF qdVars, logVars, SegmentInv, Voted
    <3>5. CASE op \notin {"COMMIT", "ABORT"}
      BY Zenon, <1>i, <2>5, <3>3, <3>5, SegmentFrame
    <3>6. QED
      BY Zenon, <3>4, <3>5
  <2>9. CASE ~(h = p /\ s = q) /\ ~(p = Rec /\ h = rgid /\ s = q)
    <3>1. UNCHANGED <<local[h][s], qe[h][s], reply[h][s], cmd[h]>>
      BY Zenon, <2>1, <2>2, <2>3, <2>5, <2>9 DEF Gid
    <3>2. QED
      BY Zenon, <1>i, <2>5, <3>1, SegmentFrame DEF Tables
  <2> QED
    BY Zenon, <2>7, <2>8, <2>9
<1>2. CASE QEError(p, q)
  <2>1. local'[h][s] = IF h = p /\ s = q /\ qe[h][s] = "WRITER"
                      THEN After("CANCEL", local[h][s]) ELSE local[h][s]
    BY <1>0, <1>i, <1>2, QEErrorLocal DEF Gid, RecoveryInv
  <2>2. qe'[h][s] = IF h = p /\ s = q THEN "LOCAL_ONLY" ELSE qe[h][s]
    BY Zenon, <1>t, <1>2, SessionsAre DEF QEError, Tables
  <2>3. reply'[h][s] = IF h = p /\ s = q THEN "error" ELSE reply[h][s]
    BY Zenon, <1>t, <1>2, SessionsAre DEF QEError, Tables
  <2>4. reply[p][q] = "wait" /\ UNCHANGED <<qdVars, cmd, logVars, recVars>>
    BY Zenon, <1>2 DEF QEError
  <2>5. CASE h = p /\ s = q
    <3>1. /\ qe'[h][s] = "LOCAL_ONLY" /\ reply'[h][s] = "error"
          /\ reply[h][s] = "wait" /\ cmd[h] # "NONE"
      BY Zenon, <1>i, <2>2, <2>3, <2>4, <2>5
    <3>2. local'[h][s] = IF qe[h][s] = "WRITER" /\ local[h][s] = "active" THEN "aborted"
                        ELSE local[h][s]
      BY Zenon, <2>1, <2>5, AfterIs
    <3>3. QED
      BY Zenon, <1>i, <2>4, <3>1, <3>2 DEF qdVars, logVars, recVars, SegmentInv, StartInv
  <2>6. CASE ~(h = p /\ s = q)
    BY Zenon, <1>i, <2>1, <2>2, <2>3, <2>4, <2>6, SegmentFrame DEF recVars
  <2>7. QED
    BY Zenon, <2>5, <2>6
<1> QED
  BY Zenon, <1>1, <1>2

(* Segments and sessions agree when a QE goes on, or dies, without its QD. *)
LEMMA SegmentLate ==
  ASSUME Inv, TypeOK', NEW h \in Gxacts, NEW s \in Segs,
         NEW w \in late, LateRun(w) \/ LateDie(w)
  PROVE  SegmentInv(h, s)'
<1>0. /\ TypeOK /\ SessionInv(h) /\ RecoveryInv
  BY Zenon DEF Inv
<1>i. /\ SegmentInv(h, s) /\ (cmd[h] = "NONE" => reply[h][s] = "none")
      /\ durable \subseteq inserted /\ forgot \subseteq durable
  BY Zenon, SegmentFacts
<1>t. Tables
  BY Zenon, TablesTyped DEF Inv
<1>3. CASE LateRun(w)
  <2>1. local'[h][s] = IF h = w.gid /\ s = w.seg THEN After(w.op, local[h][s]) ELSE local[h][s]
    BY Zenon, <1>0, <1>i, <1>3, LateRunLocal DEF SessionInv
  <2>2. UNCHANGED <<qdVars, cmd, reply, qe, logVars, recVars>>
    BY Zenon, <1>3 DEF LateRun
  <2>3. LateInv(w) /\ w.op \in {"PREPARE", "COMMIT", "ABORT", "CANCEL"}
    BY Zenon, <1>0, <1>i DEF Inv, TypeOK, Late
  <2>4. CASE h = w.gid /\ s = w.seg
    <3>1. CASE w.op = "COMMIT"
      <4>1. h \in durable /\ h \in inserted
        BY Zenon, <1>i, <2>3, <2>4, <3>1 DEF LateInv
      <4>2. state[h] \notin {"ACTIVE_DISTRIBUTED", "PREPARING"} \cup Voted
        BY Zenon, <1>0, <1>i, <1>t, <4>1 DEF CommitPath, Voted, SessionInv, Tables
      <4>3. local'[h][s] = IF local[h][s] = "prepared" THEN "committed" ELSE local[h][s]
        BY Zenon, <2>1, <2>4, <3>1, AfterIs
      <4>4. QED
        BY Zenon, <1>i, <1>t, <2>2, <4>1, <4>2, <4>3 DEF qdVars, logVars, SegmentInv
    <3>2. CASE w.op # "COMMIT"
      <4>1. h \notin inserted /\ state[h] \notin CommitPath \cup Voted
        BY Zenon, <2>3, <2>4, <3>2 DEF LateInv, AbortPath, CommitPath, Voted
      <4>2. local'[h][s] \notin {"committed", "none"} \/ local'[h][s] = local[h][s]
        BY Zenon, <2>1, <2>3, <2>4, <3>2, AfterIs
      <4>3. fate[h] # "idle" /\ state[h] # "ACTIVE_NOT_DISTRIBUTED"
            /\ (state[h] \in {"ACTIVE_DISTRIBUTED", "PREPARING"} =>
                  qe[h][s] = "LOST" /\ reply[h][s] \notin {"ok", "wait"})
        BY Zenon, <1>0, <1>i, <2>3, <2>4, <3>2 DEF LateInv, AbortPath, SessionInv
      <4>4. local[h][s] = "none" => local'[h][s] = "none"
        BY Zenon, <2>1, <2>3, <2>4, AfterIs
      <4>5. QED
        BY Zenon, <1>i, <1>t, <2>2, <4>1, <4>2, <4>3, <4>4
           DEF qdVars, logVars, recVars, SegmentInv, StartInv, Tables
    <3>3. QED
      BY Zenon, <3>1, <3>2
  <2>5. CASE ~(h = w.gid /\ s = w.seg)
    BY Zenon, <1>i, <1>t, <2>1, <2>2, <2>5, SegmentFrame DEF recVars, Tables
  <2>6. QED
    BY Zenon, <2>4, <2>5
<1>4. CASE LateDie(w)
  <2>1. local'[h][s] = IF h = w.gid /\ s = w.seg THEN After("CANCEL", local[h][s]) ELSE local[h][s]
    BY Zenon, <1>0, <1>i, <1>4, LateDieLocal DEF SessionInv
  <2>2. UNCHANGED <<qdVars, cmd, reply, qe, logVars, recVars>>
    BY Zenon, <1>4 DEF LateDie
  <2>3. LateInv(w) /\ w.op \in {"PREPARE", "COMMIT", "ABORT", "CANCEL"}
    BY Zenon, <1>0, <1>i DEF Inv, TypeOK, Late
  <2>4. CASE h = w.gid /\ s = w.seg /\ local[h][s] = "active"
    <3>1. local'[h][s] = "aborted"
      BY Zenon, <2>1, <2>4, AfterIs
    <3>2. h \notin inserted /\ state[h] \notin Voted
      BY Zenon, <1>i, <1>t, <2>4 DEF SegmentInv
    <3>c. w.op # "COMMIT"
      BY Zenon, <1>i, <2>3, <2>4, <3>2 DEF LateInv
    <3>3. state[h] \in {"ACTIVE_DISTRIBUTED", "PREPARING"} => qe[h][s] = "LOST" /\ reply[h][s] # "ok"
      BY Zenon, <2>3, <2>4, <3>2, <3>c DEF LateInv, AbortPath
    <3>4. QED
      BY <1>0, <1>i, <2>2, <2>4, <3>1, <3>2, <3>3, ZenonT(30)
         DEF qdVars, logVars, recVars, SegmentInv, StartInv
  <2>5. CASE ~(h = w.gid /\ s = w.seg /\ local[h][s] = "active")
    <3>1. local'[h][s] = local[h][s]
      BY Zenon, <2>1, <2>5, AfterIs
    <3>2. QED
      BY Zenon, <1>i, <2>2, <3>1, SegmentFrame DEF recVars
  <2>6. QED
    BY Zenon, <2>4, <2>5
<1> QED
  BY Zenon, <1>3, <1>4

(* Segments and sessions agree while the segments work, fail and lose their QD. *)
LEMMA SegmentSegments ==
  ASSUME Inv, TypeOK', NEW h \in Gxacts, NEW s \in Segs,
         SegmentsStep
  PROVE  SegmentInv(h, s)'
BY Zenon, SegmentQE, SegmentLate, SegmentFailures DEF SegmentsStep

(* Segments and sessions keep agreeing on how far a transaction has come. *)
LEMMA SegmentStep ==
  ASSUME Inv, TypeOK', [Next]_vars, NEW h \in Gxacts, NEW s \in Segs
  PROVE  SegmentInv(h, s)'
<1>0. /\ TypeOK /\ SessionInv(h) /\ RecoveryInv
  BY Zenon DEF Inv
<1>i. /\ SegmentInv(h, s) /\ (cmd[h] = "NONE" => reply[h][s] = "none")
      /\ durable \subseteq inserted /\ forgot \subseteq durable
  BY Zenon, SegmentFacts
<1>t. Tables
  BY Zenon, TablesTyped DEF Inv
<1>1. ASSUME NEW g \in Gxacts, WorkStep(g) PROVE SegmentInv(h, s)'
  BY Zenon, <1>1, SegmentWork
<1>2. ASSUME NEW g \in Gxacts, CommitStep(g) PROVE SegmentInv(h, s)'
  BY Zenon, <1>2, SegmentCommit
<1>3. ASSUME NEW g \in Gxacts, AbortStep(g) PROVE SegmentInv(h, s)'
  BY Zenon, <1>3, SegmentAbort
<1>4. CASE MasterStep
  BY Zenon, <1>4, SegmentMaster
<1>5. CASE SegmentsStep
  BY Zenon, <1>5, SegmentSegments
<1>6. CASE UNCHANGED vars
  BY Zenon, <1>i, <1>6, SegmentFrame DEF vars, callVars, recVars
<1>7. QED
  BY Zenon, <1>1, <1>2, <1>3, <1>4, <1>5, <1>6, NextIs

-----------------------------------------------------------------------------
(* The invariant and what follows from it *)

(* The initial state satisfies the invariant. *)
LEMMA InvInit == Init => Inv
<1> SUFFICES ASSUME Init PROVE Inv
  BY Zenon
<1>1. TypeOK
  BY Zenon, TypeInit
<1>2. QED
  BY <1>1, SessionsAre
     DEF Init, Inv, SessionInv, SegmentInv, StartInv, LateInv, RecoveryInv, Awaits,
         CommitPath, AbortPath, Voted, NoReply, NoGang

(* Every step of the DTM preserves the invariant. *)
LEMMA InvStep == Inv /\ [Next]_vars => Inv'
<1> SUFFICES ASSUME Inv, [Next]_vars PROVE Inv'
  BY Zenon
<1>1. TypeOK'
  BY Zenon, TypeStep DEF Inv
<1>2. (durable \subseteq inserted /\ forgot \subseteq durable)'
  BY Zenon, LogStep
<1>3. \A p \in Sessions : (cmd[p] = "NONE" => reply[p] = NoReply)'
  BY Zenon, <1>1, CallStep
<1>4. \A g \in Gxacts : SessionInv(g)'
  BY Zenon, <1>1, SessionStep
<1>5. \A g \in Gxacts, s \in Segs : SegmentInv(g, s)'
  BY Zenon, <1>1, SegmentStep
<1>6. \A w \in late' : LateInv(w)'
  BY Zenon, <1>1, LateStep
<1>7. RecoveryInv'
  BY Zenon, <1>1, RecoveryStep
<1>8. QED
  BY Zenon, <1>1, <1>2, <1>3, <1>4, <1>5, <1>6, <1>7 DEF Inv

(* Sessions, segments, detached QEs and recovery always agree on the outcome
   of every transaction. *)
THEOREM Invariance == Spec => []Inv
<1>1. Inv /\ [Next]_vars => Inv'
  BY Zenon, InvStep
<1>2. QED
  BY InvInit, <1>1, PTL DEF Spec

(* Atomic commitment: no distributed transaction commits on one segment and
   aborts on another. *)
THEOREM AtomicCommitment == Spec => []Atomicity
<1>1. Inv => Atomicity
  <2> SUFFICES ASSUME Inv, NEW g \in Gxacts, NEW s \in Segs, NEW t \in Segs,
                      local[g][s] = "committed"
               PROVE  local[g][t] # "aborted"
    BY Zenon DEF Atomicity
  <2>1. SegmentInv(g, s) /\ SegmentInv(g, t) /\ durable \subseteq inserted
    BY Zenon DEF Inv
  <2>2. QED
    BY Zenon, <2>1 DEF SegmentInv
<1>2. QED
  BY <1>1, Invariance, PTL

(* No segment commits before the distributed-commit record is on disk. *)
THEOREM CommitAfterRecord == Spec => []CommitNeedsDurableRecord
<1>1. Inv => CommitNeedsDurableRecord
  BY Zenon DEF Inv, SegmentInv, CommitNeedsDurableRecord
<1>2. QED
  BY <1>1, Invariance, PTL

(* A client is told of a commit only when every participant has committed. *)
THEOREM CommitReply == Spec => []CommittedEverywhere
<1>1. Inv => CommittedEverywhere
  BY Zenon DEF Inv, SessionInv, CommittedEverywhere
<1>2. QED
  BY <1>1, Invariance, PTL

(* A transaction is forgotten only when no segment holds it prepared. *)
THEOREM ForgetIsSafe == Spec => []ForgetSafe
<1>1. Inv => ForgetSafe
  BY Zenon DEF Inv, SegmentInv, ForgetSafe, TypeOK
<1>2. QED
  BY <1>1, Invariance, PTL

(* A transaction reported aborted has no commit record. *)
THEOREM AbortReply == Spec => []AbortedNotLogged
<1>1. Inv => AbortedNotLogged
  <2> SUFFICES ASSUME Inv, NEW g \in Gxacts, fate[g] = "aborted" PROVE g \notin inserted
    BY Zenon DEF AbortedNotLogged
  <2>1. SessionInv(g)
    BY Zenon DEF Inv
  <2>2. QED
    BY Zenon, <2>1 DEF SessionInv, CommitPath
<1>2. QED
  BY <1>1, Invariance, PTL

(* The DTM is up only when every commit of a finished session is delivered. *)
THEOREM StartedMeansDelivered == Spec => []NoUndeliveredCommit
<1>1. Inv => NoUndeliveredCommit
  BY Zenon DEF Inv, SegmentInv, NoUndeliveredCommit, TypeOK
<1>2. QED
  BY <1>1, Invariance, PTL

-----------------------------------------------------------------------------
(* Dtm implements DistCommit. *)

(* What any step may do to a segment's local transaction. *)
LEMMA LocalMoves ==
  ASSUME Inv, Inv', [Next]_vars, NEW h \in Gxacts, NEW s \in Segs
  PROVE  \/ local'[h][s] = local[h][s]
         \/ local[h][s] = "none" /\ local'[h][s] = "active" /\ h \notin inserted
         \/ local[h][s] = "active" /\ local'[h][s] = "prepared" /\ h \notin inserted
         \/ local[h][s] = "prepared" /\ local'[h][s] = "committed" /\ h \in durable
         \/ local[h][s] \in {"active", "prepared"} /\ local'[h][s] = "aborted"
<1>0. TypeOK /\ SessionInv(h) /\ SegmentInv(h, s) /\ RecoveryInv
  BY Zenon DEF Inv
<1>1. CASE UNCHANGED local
  BY Zenon, <1>1
<1>2. ASSUME NEW g \in Gxacts, NEW T \in SUBSET Segs, GoDistributed(g, T)
      PROVE  \/ local'[h][s] = local[h][s]
             \/ local[h][s] = "none" /\ local'[h][s] = "active" /\ h \notin inserted
  BY Zenon, <1>0, <1>2 DEF GoDistributed, SessionInv, SegmentInv, CommitPath, TypeOK
<1>3. ASSUME NEW p \in Sessions, NEW q \in Segs, QEPerform(p, q)
      PROVE  \/ local'[h][s] = local[h][s]
             \/ local[h][s] = "none" /\ local'[h][s] = "active" /\ h \notin inserted
             \/ local[h][s] = "active" /\ local'[h][s] = "prepared" /\ h \notin inserted
             \/ local[h][s] = "prepared" /\ local'[h][s] = "committed" /\ h \in durable
             \/ local[h][s] \in {"active", "prepared"} /\ local'[h][s] = "aborted"
  <2> DEFINE op == QEOp(cmd[p], qe[p][q])
  <2>1. local'[h][s] = IF h = Gid(p) /\ s = q THEN After(op, local[h][s]) ELSE local[h][s]
    BY <1>0, <1>3, QEPerformLocal
  <2>2. h = Gid(p) /\ op \in {"START", "PREPARE"} => state[h] \in {"ACTIVE_DISTRIBUTED", "PREPARING"}
    BY <1>0, QEOpStarts DEF Gid, RecoveryInv, SessionInv, Awaits
  <2>3. h \in inserted => state[h] \notin {"ACTIVE_DISTRIBUTED", "PREPARING"}
    BY Zenon, <1>0 DEF SessionInv, CommitPath
  <2>4. local'[h][s] = "committed" => h \in durable
    <3>1. SegmentInv(h, s)'
      BY Zenon DEF Inv
    <3>2. QED
      BY Zenon, <1>3, <3>1 DEF SegmentInv, QEPerform, logVars
  <2> HIDE DEF op
  <2>5. QED
    BY Zenon, <2>1, <2>2, <2>3, <2>4, AfterIs
<1>4. ASSUME NEW w \in late, LateRun(w)
      PROVE  \/ local'[h][s] = local[h][s]
             \/ local[h][s] = "active" /\ local'[h][s] = "prepared" /\ h \notin inserted
             \/ local[h][s] = "prepared" /\ local'[h][s] = "committed" /\ h \in durable
             \/ local[h][s] \in {"active", "prepared"} /\ local'[h][s] = "aborted"
  <2>1. LateInv(w) /\ w.op \in {"PREPARE", "COMMIT", "ABORT", "CANCEL"}
    BY Zenon DEF Inv, TypeOK, Late
  <2>2. QED
    BY <1>0, <1>4, <2>1, LateRunLocal, AfterIs DEF LateInv
<1>5. CASE Fault
  BY <1>0, <1>1, <1>5, QEErrorLocal, LateDieLocal, SegmentRestartLocal, AfterIs
     DEF Fault, DispatchThrows, Disconnect, SessionExit, SessionFatal, MasterCrash, MasterDown
<1>6. CASE Request
  BY Zenon, <1>1, <1>2, <1>6
     DEF Request, Begin, EndNotDistributed, Promote, Prepare, RollbackActive,
     RollbackPrepared, InitTM
<1>7. CASE Progress
  BY <1>1, <1>3, <1>4, <1>7, ZenonT(30)
     DEF Progress, Promoted, Prepared, InsertingDistributedCommitted,
         InsertedDistributedCommitted, FlushCommit, NotifyCommitPrepared, CommitNotified,
         CommitNotifyFailed, RetryCommitPrepared, Committed, AbortNoPreparedEnds,
         AbortSomePrepared, PrepareBadGangs, AbortBroadcastEnds, RetryAbortPrepared, Aborted,
         Panic, MasterDown, NotifyCommittedInDoubt, AbortInDoubt, Redo,
         CommittedInDoubtNotified, GatherRMInDoubt, Gathered, InDoubtAborted, DoubleCheck,
         DtmStarted, RecoveryFails
<1>8. CASE UNCHANGED vars
  BY Zenon, <1>1, <1>8 DEF vars
<1>9. QED
  BY Zenon, <1>5, <1>6, <1>7, <1>8 DEF Next

(* Commit records become durable, stay so, and only after they were inserted. *)
LEMMA DurableMoves ==
  ASSUME Inv, [Next]_vars
  PROVE  durable \subseteq durable' /\ durable' \subseteq inserted
<1>0. durable \subseteq inserted
  BY Zenon DEF Inv
<1>1. CASE MasterDown
  BY Zenon, <1>1 DEF MasterDown
<1>2. CASE Fault
  BY <1>0, <1>1, <1>2, ZenonT(30) DEF Fault, DispatchThrows, QEError, Disconnect, LateDie,
     SegmentRestart, SessionExit, SessionFatal, MasterCrash, logVars
<1>3. CASE Request
  BY Zenon, <1>0, <1>3 DEF Request, Begin, EndNotDistributed, Promote, Prepare, RollbackActive,
     RollbackPrepared, GoDistributed, InitTM, logVars
<1>4. CASE Progress
  BY <1>0, <1>1, <1>4, ZenonT(30)
     DEF Progress, QEPerform, LateRun, Promoted, Prepared, InsertingDistributedCommitted,
         InsertedDistributedCommitted, FlushCommit, NotifyCommitPrepared, CommitNotified,
         CommitNotifyFailed, RetryCommitPrepared, Committed, AbortNoPreparedEnds,
         AbortSomePrepared, PrepareBadGangs, AbortBroadcastEnds, RetryAbortPrepared, Aborted,
         Panic, NotifyCommittedInDoubt, AbortInDoubt, Redo, CommittedInDoubtNotified,
         GatherRMInDoubt, Gathered, InDoubtAborted, DoubleCheck, DtmStarted, RecoveryFails, logVars
<1>5. CASE UNCHANGED vars
  BY Zenon, <1>0, <1>5 DEF vars, logVars
<1>6. QED
  BY Zenon, <1>2, <1>3, <1>4, <1>5 DEF Next

(* The refinement mapping, without CASE. *)
LEMMA PartOfIs ==
  ASSUME NEW l
  PROVE  PartOf(l) = IF l = "none" THEN "out" ELSE IF l = "active" THEN "working" ELSE l
BY Zenon DEF PartOf

(* A transaction is decided only once, and decided commit only when every
   segment that takes part has voted for it. *)
LEMMA DecideStep ==
  ASSUME Inv, Inv', [Next]_vars, NEW h \in Gxacts
  PROVE  DC!Decide(h)
<1>0. /\ SessionInv(h)
      /\ h \in durable => h \in durable'
      /\ h \in durable' => h \in inserted /\ h \in inserted'
  BY Zenon, DurableMoves DEF Inv
<1>1. outcomeBar[h] = OutcomeOf(h) /\ outcomeBar'[h] = OutcomeOf(h)'
  BY Zenon DEF outcomeBar
<1>2. \A s \in Segs : SegmentInv(h, s) /\ SegmentInv(h, s)'
  BY Zenon DEF Inv
<1>3. CASE h \in durable
  BY Zenon, <1>0, <1>1, <1>3 DEF OutcomeOf, DC!Decide
<1>4. CASE h \notin durable /\ h \in durable'
  <2>1. h \in inserted /\ target[h] # {} /\ target[h] \subseteq Segs
    BY <1>0, <1>4 DEF SessionInv, Inv, TypeOK
  <2>2. \A s \in Segs : local[h][s] \in {"none", "prepared"}
    BY Zenon, <1>2, <1>4, <2>1 DEF SegmentInv
  <2>3. \E s \in Segs : local[h][s] = "prepared"
    BY Zenon, <1>2, <2>1, <2>2 DEF SegmentInv
  <2>4. outcomeBar[h] = "open" /\ outcomeBar'[h] = "commit"
    BY Zenon, <1>1, <1>4, <2>2 DEF OutcomeOf
  <2>5. \A s \in Segs : partBar[h][s] = PartOf(local[h][s])
    BY Zenon DEF partBar
  <2>6. QED
    BY Zenon, <2>2, <2>3, <2>4, <2>5, PartOfIs DEF DC!Decide
<1>5. CASE h \notin durable /\ h \notin durable'
  <2>1. \A s \in Segs : local[h][s] = "aborted" => local'[h][s] = "aborted"
    BY Zenon, LocalMoves
  <2>2. QED
    BY Zenon, <1>1, <1>5, <2>1 DEF OutcomeOf, DC!Decide
<1>6. QED
  BY Zenon, <1>3, <1>4, <1>5

(* A segment joins, votes on or ends a transaction only as the decision allows. *)
LEMMA ProceedStep ==
  ASSUME Inv, Inv', [Next]_vars, NEW h \in Gxacts, NEW s \in Segs
  PROVE  DC!Proceed(h, s)
<1>1. SegmentInv(h, s)' /\ durable \subseteq inserted /\ (durable \subseteq inserted)'
  BY Zenon DEF Inv
<1>2. partBar[h][s] = PartOf(local[h][s]) /\ partBar'[h][s] = PartOf(local[h][s])'
  BY Zenon DEF partBar
<1>3. outcomeBar[h] = OutcomeOf(h) /\ outcomeBar'[h] = OutcomeOf(h)'
  BY Zenon DEF outcomeBar
<1>4. local'[h][s] = "aborted" => outcomeBar'[h] = "abort"
  BY Zenon, <1>1, <1>3 DEF SegmentInv, OutcomeOf
<1>5. /\ h \notin inserted => outcomeBar[h] # "commit"
      /\ h \in durable => outcomeBar[h] = "commit"
  BY Zenon, <1>1, <1>3 DEF OutcomeOf
<1>6. PartOf(local[h][s])' = PartOf(local'[h][s])
  BY Zenon DEF PartOf
<1>7. QED
  BY <1>2, <1>4, <1>5, <1>6, LocalMoves, PartOfIs DEF DC!Proceed

(* The two-phase commit of Dtm, with its retries and recovery, implements
   DistCommit: each transaction has one outcome, decided once, and every segment
   acts in accordance with it. *)
THEOREM Refinement == Spec => ImplementsDistCommit
<1>1. Init => DC!Init
  <2> SUFFICES ASSUME Init PROVE DC!Init
    BY Zenon
  <2>1. \A g \in Gxacts, s \in Segs : local[g][s] = "none"
    BY Zenon DEF Init
  <2>2. partBar = [g \in Gxacts |-> [s \in Segs |-> "out"]]
    BY Zenon, <2>1, PartOfIs DEF partBar
  <2>3. outcomeBar = [g \in Gxacts |-> "open"]
    BY Zenon, <2>1 DEF Init, outcomeBar, OutcomeOf
  <2>4. QED
    BY Zenon, <2>2, <2>3 DEF DC!Init
<1>2. Inv /\ Inv' /\ [Next]_vars => [DC!Next]_<<partBar, outcomeBar>>
  <2> SUFFICES ASSUME Inv, Inv', [Next]_vars PROVE DC!Next
    BY Zenon
  <2>1. \A g \in Gxacts, s \in Segs : PartOf(local[g][s])' \in DC!Part
    <3>1. \A g \in Gxacts, s \in Segs : local'[g][s] \in Local
      BY DEF Inv, TypeOK
    <3>2. \A g \in Gxacts, s \in Segs : PartOf(local[g][s])' = PartOf(local'[g][s])
      BY Zenon DEF PartOf
    <3>3. QED
      BY Zenon, <3>1, <3>2, PartOfIs DEF Local, DC!Part
  <2>2. partBar' \in [Gxacts -> [Segs -> DC!Part]]
    BY Zenon, <2>1 DEF partBar
  <2>3. outcomeBar' \in [Gxacts -> DC!Outcome]
    BY Zenon DEF outcomeBar, OutcomeOf, DC!Outcome
  <2>4. QED
    BY Zenon, <2>2, <2>3, DecideStep, ProceedStep DEF DC!Next
<1>3. QED
  BY <1>1, <1>2, Invariance, PTL DEF Spec, DC!Spec, ImplementsDistCommit

(* No segment votes on a transaction whose commit record has been written. *)
THEOREM NoLateVote == Spec => NoVoteAfterCommit
<1>1. Inv /\ Inv' /\ [Next]_vars =>
        [\A g \in inserted, s \in Segs :
           local[g][s] # "prepared" => local'[g][s] # "prepared"]_vars
  BY LocalMoves, ZenonT(30) DEF Inv, TypeOK
<1>2. QED
  BY <1>1, Invariance, PTL DEF Spec, NoVoteAfterCommit
=============================================================================
