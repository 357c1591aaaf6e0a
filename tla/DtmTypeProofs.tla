-------------------------- MODULE DtmTypeProofs --------------------------
(***************************************************************************)
(* Type correctness of Dtm for any number of segments, transactions,       *)
(* retries and faults, and the facts about its operators that the proofs   *)
(* of module DtmProofs use.                                                *)
(***************************************************************************)
EXTENDS DtmInvariant, TLAPS

(* A session is a transaction's QD or the recovery session, never both. *)
LEMMA SessionsAre ==
  /\ Rec \in Sessions /\ Rec \notin Gxacts
  /\ \A g \in Gxacts : g \in Sessions /\ g # Rec
  /\ \A p \in Sessions : p # Rec => p \in Gxacts
BY Zenon, RecIsNoGxact DEF Sessions

(* A DTX command is about a transaction, also when it is Rec's broadcast. *)
LEMMA GidType ==
  ASSUME TypeOK, NEW p \in Sessions
  PROVE  Gid(p) \in Gxacts
BY Zenon DEF TypeOK, Gid, Sessions

(* What an operation does to a local transaction. *)
LEMMA AfterIs ==
  ASSUME NEW op, NEW l
  PROVE  After(op, l) = IF op = "START" /\ l = "none" THEN "active"
                        ELSE IF op = "PREPARE" /\ l = "active" THEN "prepared"
                        ELSE IF op = "COMMIT" /\ l = "prepared" THEN "committed"
                        ELSE IF op = "ABORT" /\ l = "prepared" THEN "aborted"
                        ELSE IF op = "CANCEL" /\ l = "active" THEN "aborted" ELSE l
BY Zenon DEF After

(* The DTX context a QE is left in by an operation. *)
LEMMA ContextAfterIs ==
  ASSUME NEW op, NEW x
  PROVE  ContextAfter(op, x) = IF op = "START" THEN "WRITER" ELSE IF op = "PREPARE" THEN "PREPARED"
                        ELSE IF op = "FATAL" THEN "LOST" ELSE IF op = "NOTHING" THEN x ELSE "LOCAL_ONLY"
BY Zenon DEF ContextAfter

(* Which commands lead to which operation. *)
LEMMA QEOpStarts ==
  ASSUME NEW c, NEW x
  PROVE  /\ QEOp(c, x) = "START" <=> c = "BECOME_IMPLIED_WRITER" /\ x = "LOCAL_ONLY"
         /\ QEOp(c, x) = "PREPARE" <=> c = "PREPARE" /\ x = "WRITER"
         /\ QEOp(c, x) = "COMMIT" =>
              c \in {"COMMIT_PREPARED", "RETRY_COMMIT_PREPARED", "RECOVERY_COMMIT_PREPARED"}
         /\ QEOp(c, x) = "ABORT" =>
              c \in {"ABORT_SOME_PREPARED", "ABORT_PREPARED", "RETRY_ABORT_PREPARED",
                     "RECOVERY_ABORT_PREPARED"}
         /\ QEOp(c, x) = "CANCEL" => c \in {"ABORT_NO_PREPARED", "ABORT_SOME_PREPARED"}
BY Zenon DEF QEOp

(* What some commands come to in some contexts: only a writer can prepare, and
   a second-phase commit commits or ends the QE. *)
LEMMA QEOpOf ==
  ASSUME NEW c, NEW x
  PROVE  /\ c = "BECOME_IMPLIED_WRITER" /\ x = "WRITER" => QEOp(c, x) = "NOTHING"
         /\ c = "PREPARE" /\ x # "WRITER" => QEOp(c, x) \in {"ERROR", "FATAL"}
         /\ c \in {"COMMIT_PREPARED", "RETRY_COMMIT_PREPARED", "RECOVERY_COMMIT_PREPARED"} =>
              QEOp(c, x) \in {"COMMIT", "FATAL"}
         /\ c = "GATHER" => QEOp(c, x) = "NOTHING"
BY Zenon DEF QEOp

(* What each step that touches local transactions does to one of them. *)
LEMMA QEPerformLocal ==
  ASSUME TypeOK, NEW p \in Sessions, NEW q \in Segs, QEPerform(p, q),
         NEW h \in Gxacts, NEW s \in Segs
  PROVE  local'[h][s] = IF h = Gid(p) /\ s = q
                        THEN After(QEOp(cmd[p], qe[p][q]), local[h][s]) ELSE local[h][s]
BY Zenon, GidType DEF QEPerform, TypeOK

(* An error aborts the transaction a writer is in, and touches no other. *)
LEMMA QEErrorLocal ==
  ASSUME TypeOK, NEW p \in Sessions, NEW q \in Segs, QEError(p, q),
         NEW h \in Gxacts, NEW s \in Segs
  PROVE  local'[h][s] = IF h = Gid(p) /\ s = q /\ qe[p][q] = "WRITER"
                        THEN After("CANCEL", local[h][s]) ELSE local[h][s]
BY Zenon, GidType DEF QEError, TypeOK

(* A detached QE touches the transaction of its command alone. *)
LEMMA LateRunLocal ==
  ASSUME TypeOK, NEW w \in late, LateRun(w), NEW h \in Gxacts, NEW s \in Segs
  PROVE  local'[h][s] = IF h = w.gid /\ s = w.seg
                        THEN After(w.op, local[h][s]) ELSE local[h][s]
BY Zenon DEF LateRun, TypeOK, Late

(* A detached QE that fails aborts its transaction if it is not prepared. *)
LEMMA LateDieLocal ==
  ASSUME TypeOK, NEW w \in late, LateDie(w), NEW h \in Gxacts, NEW s \in Segs
  PROVE  local'[h][s] = IF h = w.gid /\ s = w.seg
                        THEN After("CANCEL", local[h][s]) ELSE local[h][s]
BY Zenon DEF LateDie, TypeOK, Late

(* A restart aborts what is not prepared on the segment. *)
LEMMA SegmentRestartLocal ==
  ASSUME TypeOK, NEW q \in Segs, SegmentRestart(q), NEW h \in Gxacts, NEW s \in Segs
  PROVE  local'[h][s] = IF s = q THEN After("CANCEL", local[h][s]) ELSE local[h][s]
BY Zenon DEF SegmentRestart, TypeOK

(* What a QE leaves behind when its connection goes is detached work. *)
LEMMA LeftoverType ==
  ASSUME TypeOK, NEW p \in Sessions, NEW s \in Segs
  PROVE  Leftover(p, s) \subseteq Late
<1> DEFINE op == QEOp(cmd[p], qe[p][s])
<1> DEFINE w(o) == [seg |-> s, gid |-> Gid(p), op |-> o]
<1>1. Gid(p) \in Gxacts
  BY Zenon, GidType
<1>2. \A o \in {"PREPARE", "COMMIT", "ABORT", "CANCEL"} : w(o) \in Late
  BY Zenon, <1>1 DEF Late
<1>3. Leftover(p, s) \subseteq {w(o) : o \in {"PREPARE", "COMMIT", "ABORT", "CANCEL"}}
  BY Zenon DEF Leftover
<1>4. QED
  BY Zenon, <1>2, <1>3

(* Destroying a session's gangs leaves detached work only. *)
LEMMA DetachedType ==
  ASSUME TypeOK, NEW p \in Sessions
  PROVE  Detached(p) \in SUBSET Late
BY LeftoverType DEF Detached, TypeOK

(* An operation leaves a local transaction in one of its states. *)
LEMMA OpAfterType ==
  ASSUME NEW op, NEW l \in Local
  PROVE  After(op, l) \in Local
BY Zenon DEF After, Local

(* An operation leaves a QE in one of the DTX contexts. *)
LEMMA ContextAfterType ==
  ASSUME NEW op, NEW x \in Context
  PROVE  ContextAfter(op, x) \in Context
BY Zenon DEF ContextAfter, Context

(* Sending a command keeps the types of calls and gangs. *)
LEMMA SendType ==
  ASSUME TypeOK, NEW p \in Sessions, NEW c \in Command, NEW T \in SUBSET Segs,
         NEW gang \in [Segs -> Context], Send(p, c, T, gang)
  PROVE  /\ cmd' \in [Sessions -> Command]
         /\ reply' \in [Sessions -> [Segs -> {"none", "wait", "ok", "error", "lost", "thrown"}]]
         /\ qe' \in [Sessions -> [Segs -> Context]]
BY Zenon DEF TypeOK, Send

(* The end of a broadcast keeps the types of calls. *)
LEMMA EndCallType ==
  ASSUME TypeOK, NEW p \in Sessions, EndCall(p)
  PROVE  /\ cmd' \in [Sessions -> Command]
         /\ reply' \in [Sessions -> [Segs -> {"none", "wait", "ok", "error", "lost", "thrown"}]]
BY Zenon DEF TypeOK, EndCall, NoReply, Command

(* AllocateWriterGang returns a gang. *)
LEMMA GangType ==
  ASSUME TypeOK, NEW p \in Sessions
  PROVE  Gang(p) \in [Segs -> Context]
BY Zenon DEF TypeOK, Gang, NewGang, Context

(* tmShmemInit leaves every variable with its type. *)
LEMMA TypeInit == Init => TypeOK
BY RetryCountNat, MaxFaultsNat
   DEF Init, TypeOK, NoReply, NoGang, DtxState, Command, Context, Local, Late

(* Every step of QDs, QEs, recovery and faults keeps the types. *)
LEMMA TypeStep == TypeOK /\ [Next]_vars => TypeOK'
<1> SUFFICES ASSUME TypeOK, [Next]_vars PROVE TypeOK'
  BY Zenon
<1> USE RetryCountNat, MaxFaultsNat
<1>1. ASSUME NEW g \in Gxacts PROVE g \in Sessions /\ Rec \in Sessions
  BY Zenon DEF Sessions
<1> USE <1>1
<1>2. ASSUME NEW g \in Gxacts, Begin(g) PROVE TypeOK'
  BY Zenon, <1>2
     DEF Begin, SetState, TypeOK, qdVars, callVars, logVars, recVars, DtxState, Command, Context, Local
<1>3. ASSUME NEW g \in Gxacts, EndNotDistributed(g) PROVE TypeOK'
  BY Zenon, <1>3, DetachedType
     DEF EndNotDistributed, Clear, NoGang, TypeOK, qdVars, callVars, logVars, recVars, DtxState, Command, Context, Local
<1>4. ASSUME NEW g \in Gxacts, Promote(g) PROVE TypeOK'
  BY <1>4, SendType, GangType, ZenonT(30)
     DEF Promote, TypeOK, qdVars, callVars, logVars, recVars, DtxState, Command, Context, Local
<1>5. ASSUME NEW g \in Gxacts, Promoted(g) PROVE TypeOK'
  BY Zenon, <1>5, EndCallType
     DEF Promoted, TypeOK, qdVars, callVars, logVars, recVars, DtxState, Command, Context, Local
<1>6. ASSUME NEW g \in Gxacts, Prepare(g) PROVE TypeOK'
  BY <1>6, SendType, GangType, ZenonT(30)
     DEF Prepare, SetState, TypeOK, qdVars, callVars, logVars, recVars, DtxState, Command, Context, Local
<1>7. ASSUME NEW g \in Gxacts, Prepared(g) PROVE TypeOK'
  BY Zenon, <1>7, EndCallType
     DEF Prepared, SetState, TypeOK, qdVars, callVars, logVars, recVars, DtxState, Command, Context, Local
<1>8. ASSUME NEW g \in Gxacts, InsertingDistributedCommitted(g) PROVE TypeOK'
  BY Zenon, <1>8
     DEF InsertingDistributedCommitted, SetState, TypeOK, qdVars, callVars, logVars, recVars, DtxState, Command, Context, Local
<1>9. ASSUME NEW g \in Gxacts, InsertedDistributedCommitted(g) PROVE TypeOK'
  BY Zenon, <1>9
     DEF InsertedDistributedCommitted, SetState, TypeOK, qdVars, callVars, logVars, recVars, DtxState, Command, Context, Local
<1>10. ASSUME NEW g \in Gxacts, FlushCommit(g) PROVE TypeOK'
  BY Zenon, <1>10
     DEF FlushCommit, TypeOK, qdVars, callVars, logVars, recVars, DtxState, Command, Context, Local
<1>11. ASSUME NEW g \in Gxacts, NotifyCommitPrepared(g) PROVE TypeOK'
  BY <1>11, SendType, GangType, ZenonT(30)
     DEF NotifyCommitPrepared, SetState, TypeOK, qdVars, callVars, logVars, recVars, DtxState, Command, Context, Local
<1>12. ASSUME NEW g \in Gxacts, CommitNotified(g) PROVE TypeOK'
  BY Zenon, <1>12, EndCallType
     DEF CommitNotified, SetState, TypeOK, qdVars, callVars, logVars, recVars, DtxState, Command, Context, Local
<1>13. ASSUME NEW g \in Gxacts, CommitNotifyFailed(g) PROVE TypeOK'
  BY Zenon, <1>13, EndCallType
     DEF CommitNotifyFailed, SetState, TypeOK, qdVars, callVars, logVars, recVars, DtxState, Command, Context, Local
<1>14. ASSUME NEW g \in Gxacts, RetryCommitPrepared(g) PROVE TypeOK'
  <2>1. retry' \in [Gxacts -> 0..RetryCount]
    BY <1>14 DEF RetryCommitPrepared, TypeOK
  <2>2. NewGang \in [Segs -> Context]
    BY Zenon DEF NewGang, Context
  <2>3. QED
    BY <1>14, <2>1, <2>2, SendType, DetachedType, ZenonT(30)
       DEF RetryCommitPrepared, TypeOK, Command, recVars, logVars
<1>15. ASSUME NEW g \in Gxacts, Committed(g) PROVE TypeOK'
  BY Zenon, <1>15, DetachedType
     DEF Committed, Clear, NoGang, TypeOK, qdVars, callVars, logVars, recVars, DtxState, Command, Context, Local
<1>16. ASSUME NEW g \in Gxacts, RollbackActive(g) PROVE TypeOK'
  BY <1>16, SendType, GangType, ZenonT(30)
     DEF RollbackActive, SetState, TypeOK, qdVars, callVars, logVars, recVars, DtxState, Command, Context, Local
<1>17. ASSUME NEW g \in Gxacts, AbortNoPreparedEnds(g) PROVE TypeOK'
  BY Zenon, <1>17, EndCallType, DetachedType
     DEF AbortNoPreparedEnds, Clear, NoGang, TypeOK, qdVars, callVars, logVars, recVars, DtxState, Command, Context, Local
<1>18. ASSUME NEW g \in Gxacts, AbortSomePrepared(g) PROVE TypeOK'
  BY <1>18, SendType, GangType, ZenonT(30)
     DEF AbortSomePrepared, SetState, TypeOK, qdVars, callVars, logVars, recVars, DtxState, Command, Context, Local
<1>19. ASSUME NEW g \in Gxacts, PrepareBadGangs(g) PROVE TypeOK'
  BY Zenon, <1>19, EndCallType
     DEF PrepareBadGangs, SetState, TypeOK, qdVars, callVars, logVars, recVars, DtxState, Command, Context, Local
<1>20. ASSUME NEW g \in Gxacts, RollbackPrepared(g) PROVE TypeOK'
  BY <1>20, SendType, GangType, ZenonT(30)
     DEF RollbackPrepared, SetState, TypeOK, qdVars, callVars, logVars, recVars, DtxState, Command, Context, Local
<1>21. ASSUME NEW g \in Gxacts, AbortBroadcastEnds(g) PROVE TypeOK'
  BY <1>21, EndCallType, ZenonT(30)
     DEF AbortBroadcastEnds, SetState, TypeOK, qdVars, callVars, logVars, recVars, DtxState, Command, Context, Local
<1>22. ASSUME NEW g \in Gxacts, RetryAbortPrepared(g) PROVE TypeOK'
  <2>1. retry' \in [Gxacts -> 0..RetryCount]
    BY <1>22 DEF RetryAbortPrepared, TypeOK
  <2>2. NewGang \in [Segs -> Context]
    BY Zenon DEF NewGang, Context
  <2>3. QED
    BY <1>22, <2>1, <2>2, SendType, DetachedType, ZenonT(30)
       DEF RetryAbortPrepared, TypeOK, Command, recVars, logVars
<1>23. ASSUME NEW g \in Gxacts, Aborted(g) PROVE TypeOK'
  BY Zenon, <1>23, EndCallType, DetachedType
     DEF Aborted, Clear, NoGang, TypeOK, qdVars, callVars, logVars, recVars, DtxState, Command, Context, Local
<1>24. ASSUME NEW g \in Gxacts, SessionExit(g) PROVE TypeOK'
  <2>1. faults' \in 0..MaxFaults
    BY <1>24, MaxFaultsNat DEF SessionExit, TypeOK
  <2>2. QED
    BY Zenon, <1>24, <2>1, EndCallType, DetachedType
       DEF SessionExit, Clear, NoGang, TypeOK, logVars, recVars, DtxState, Context
<1>25. ASSUME NEW g \in Gxacts, Panic(g) PROVE TypeOK'
  BY <1>25, DetachedType
     DEF Panic, MasterDown, NoReply, NoGang, TypeOK, qdVars, callVars, logVars, recVars, DtxState, Command, Context, Local
<1>f. ASSUME NEW g \in Gxacts, SessionFatal(g) PROVE TypeOK'
  BY <1>f, DetachedType
     DEF SessionFatal, MasterDown, NoReply, NoGang, TypeOK, qdVars, callVars, logVars, recVars, DtxState, Command, Context, Local
<1>26. ASSUME NEW g \in Gxacts, NotifyCommittedInDoubt(g) PROVE TypeOK'
  BY <1>26, SendType, GangType, ZenonT(30)
     DEF NotifyCommittedInDoubt, TypeOK, qdVars, callVars, logVars, recVars, DtxState, Command, Context, Local
<1>27. ASSUME NEW g \in Gxacts, AbortInDoubt(g) PROVE TypeOK'
  BY <1>27, SendType, GangType, ZenonT(30)
     DEF AbortInDoubt, TypeOK, qdVars, callVars, logVars, recVars, DtxState, Command, Context, Local
<1>28. CASE MasterCrash
  BY <1>28, DetachedType
     DEF MasterCrash, MasterDown, NoReply, NoGang, TypeOK, qdVars, callVars, logVars, recVars, DtxState, Command, Context, Local
<1>29. CASE Redo
  BY Zenon, <1>29
     DEF Redo, TypeOK, qdVars, callVars, logVars, recVars, DtxState, Command, Context, Local
<1>i. CASE InitTM
  BY Zenon, <1>i DEF InitTM, TypeOK, qdVars, callVars, logVars
<1>30. CASE CommittedInDoubtNotified
  BY Zenon, <1>30, EndCallType
     DEF CommittedInDoubtNotified, TypeOK, qdVars, callVars, logVars, recVars, DtxState, Command, Context, Local
<1>31. CASE GatherRMInDoubt
  BY <1>31, SendType, GangType, ZenonT(30)
     DEF GatherRMInDoubt, TypeOK, qdVars, callVars, logVars, recVars, DtxState, Command, Context, Local
<1>32. CASE Gathered
  BY Zenon, <1>32, EndCallType
     DEF Gathered, TypeOK, qdVars, callVars, logVars, recVars, DtxState, Command, Context, Local
<1>33. CASE InDoubtAborted
  BY Zenon, <1>33, EndCallType
     DEF InDoubtAborted, TypeOK, qdVars, callVars, logVars, recVars, DtxState, Command, Context, Local
<1>34. CASE DoubleCheck
  BY <1>34, SendType, GangType, ZenonT(30)
     DEF DoubleCheck, TypeOK, qdVars, callVars, logVars, recVars, DtxState, Command, Context, Local
<1>35. CASE DtmStarted
  BY Zenon, <1>35, EndCallType
     DEF DtmStarted, NoGang, TypeOK, qdVars, callVars, logVars, recVars, DtxState, Command, Context, Local
<1>36. CASE RecoveryFails
  BY Zenon, <1>36, EndCallType
     DEF RecoveryFails, NoGang, TypeOK, qdVars, callVars, logVars, recVars, DtxState, Command, Context, Local

<1>37. ASSUME NEW g \in Gxacts, NEW T \in SUBSET Segs, GoDistributed(g, T) PROVE TypeOK'
  BY Zenon, <1>37
     DEF GoDistributed, SetState, TypeOK, qdVars, callVars, logVars, recVars, DtxState, Command, Context, Local
<1>38. ASSUME NEW p \in Sessions, NEW s \in Segs, QEPerform(p, s) PROVE TypeOK'
  <2>1. local' \in [Gxacts -> [Segs -> Local]]
    BY Zenon, <1>38, GidType, OpAfterType DEF QEPerform, TypeOK
  <2>2. qe' \in [Sessions -> [Segs -> Context]]
    BY Zenon, <1>38, ContextAfterType DEF QEPerform, TypeOK
  <2>3. QED
    BY Zenon, <1>38, <2>1, <2>2 DEF QEPerform, TypeOK, qdVars, logVars
<1>39. ASSUME NEW p \in Sessions, NEW s \in Segs, QEError(p, s) PROVE TypeOK'
  <2>1. local' \in [Gxacts -> [Segs -> Local]]
    BY Zenon, <1>39, GidType, OpAfterType DEF QEError, TypeOK
  <2>2. QED
    BY <1>39, <2>1 DEF QEError, TypeOK, qdVars, logVars, recVars, Context
<1>40. ASSUME NEW w \in late, LateRun(w) PROVE TypeOK'
  <2>1. w.gid \in Gxacts /\ w.seg \in Segs
    BY Zenon DEF TypeOK, Late
  <2>2. local' \in [Gxacts -> [Segs -> Local]]
    BY Zenon, <1>40, <2>1, OpAfterType DEF LateRun, TypeOK
  <2>3. QED
    BY Zenon, <1>40, <2>2 DEF LateRun, TypeOK, qdVars, logVars, recVars
<1>41. ASSUME NEW w \in late, LateDie(w) PROVE TypeOK'
  <2>1. w.gid \in Gxacts /\ w.seg \in Segs
    BY Zenon DEF TypeOK, Late
  <2>2. local' \in [Gxacts -> [Segs -> Local]]
    BY Zenon, <1>41, <2>1, OpAfterType DEF LateDie, TypeOK
  <2>3. QED
    BY <1>41, <2>2 DEF LateDie, TypeOK, qdVars, logVars, recVars
<1>42. ASSUME NEW p \in Sessions, NEW s \in Segs, Disconnect(p, s) PROVE TypeOK'
  BY <1>42, LeftoverType
     DEF Disconnect, TypeOK, qdVars, callVars, logVars, recVars, DtxState, Command, Context, Local
<1>43. ASSUME NEW s \in Segs, SegmentRestart(s) PROVE TypeOK'
  <2>1. local' \in [Gxacts -> [Segs -> Local]]
    BY Zenon, <1>43, OpAfterType DEF SegmentRestart, TypeOK
  <2>2. QED
    BY <1>43, <2>1 DEF SegmentRestart, TypeOK, qdVars, logVars, recVars, Context
<1>44. ASSUME NEW p \in Sessions, DispatchThrows(p) PROVE TypeOK'
  BY <1>44
     DEF DispatchThrows, TypeOK, qdVars, callVars, logVars, recVars, DtxState, Command, Context, Local
<1>45. CASE UNCHANGED vars
  BY Zenon, <1>45
     DEF vars, TypeOK, qdVars, callVars, logVars, recVars, DtxState, Command, Context,
         Local
<1>46. QED
  BY Zenon, <1>2, <1>3, <1>4, <1>5, <1>6, <1>7, <1>8, <1>9, <1>10, <1>11, <1>12, <1>13, <1>14,
     <1>15, <1>16, <1>17, <1>18, <1>19, <1>20, <1>21, <1>22, <1>23, <1>24, <1>25, <1>26,
     <1>27, <1>28, <1>29, <1>i, <1>f, <1>30, <1>31, <1>32, <1>33, <1>34, <1>35, <1>36, <1>37, <1>38,
     <1>39, <1>40, <1>41, <1>42, <1>43, <1>44, <1>45
     DEF Next, Progress, Request, Fault

(* Every variable of the DTM keeps its type in every behaviour. *)
THEOREM TypeCorrect == Spec => []TypeOK
<1>1. Init => TypeOK
  BY Zenon, TypeInit
<1>2. TypeOK /\ [Next]_vars => TypeOK'
  BY Zenon, TypeStep
<1>3. QED
  BY <1>1, <1>2, PTL DEF Spec

(* The tables that the sessions and the segments keep have their types. *)
LEMMA TablesTyped == TypeOK => Tables
BY Zenon DEF TypeOK, Tables

(* Every step of the DTM belongs to one part of the protocol. *)
LEMMA NextIs ==
  ASSUME [Next]_vars
  PROVE  \/ \E g \in Gxacts : WorkStep(g) \/ CommitStep(g) \/ AbortStep(g)
         \/ MasterStep \/ SegmentsStep \/ UNCHANGED vars
  BY Zenon DEF Next, Progress, Request, Fault, WorkStep, CommitStep, AbortStep, MasterStep, RecoverStep,
         SegmentsStep

(* What the invariant says of a transaction on a segment. *)
LEMMA SegmentFacts ==
  ASSUME Inv, NEW h \in Gxacts, NEW s \in Segs
  PROVE  /\ SegmentInv(h, s) /\ (cmd[h] = "NONE" => reply[h][s] = "none")
         /\ durable \subseteq inserted /\ forgot \subseteq durable
BY Zenon, SessionsAre DEF Inv, NoReply

(* Segments and sessions agree about a transaction on a segment when nothing about it
   changes. *)
LEMMA SegmentFrame ==
  ASSUME NEW h \in Gxacts, NEW s \in Segs, SegmentInv(h, s),
         UNCHANGED <<qdVars, logVars, dtm, todo, cmd[h], reply[h][s], qe[h][s], local[h][s]>>
  PROVE  SegmentInv(h, s)'
BY DEF qdVars, logVars, SegmentInv, StartInv

(* The same of a transaction whose own entries do not change. *)
LEMMA SegmentRow ==
  ASSUME NEW h \in Gxacts, NEW s \in Segs, SegmentInv(h, s),
         UNCHANGED <<state[h], target[h], fate[h], cmd[h], reply[h][s], qe[h][s], local[h][s]>>,
         UNCHANGED <<logVars, dtm, todo>>
  PROVE  SegmentInv(h, s)'
BY DEF logVars, SegmentInv, StartInv

(* The end of the call of one session leaves the answers of the others alone. *)
LEMMA EndCallAside ==
  ASSUME Tables, NEW p \in Sessions, NEW q \in Sessions, p # q, EndCall(p)
  PROVE  UNCHANGED <<cmd[q], reply[q]>>
BY Zenon DEF EndCall, Tables

(* So does its beginning, which leaves their gangs alone too. *)
LEMMA SendAside ==
  ASSUME Tables, NEW p \in Sessions, NEW q \in Sessions, p # q,
         NEW c, NEW T, NEW gang, Send(p, c, T, gang)
  PROVE  UNCHANGED <<cmd[q], reply[q], qe[q]>>
BY Zenon DEF Send, Tables

(* Recovery works with a gang of its own and leaves to the sessions what is theirs. *)
LEMMA RecoveryAside ==
  ASSUME Tables, RecoverStep, NEW h \in Gxacts
  PROVE  UNCHANGED <<qdVars, late, local, inserted, durable, cmd[h], reply[h], qe[h]>>
<1>t. Tables /\ h \in Sessions /\ Rec \in Sessions /\ Rec # h
  BY Zenon, SessionsAre
<1>1. CASE Redo
  BY Zenon, <1>1 DEF Redo, callVars, logVars
<1>i. CASE InitTM
  BY Zenon, <1>i DEF InitTM, callVars, logVars
<1>2. ASSUME NEW g \in Gxacts, NotifyCommittedInDoubt(g)
      PROVE  UNCHANGED <<qdVars, late, local, inserted, durable, cmd[h], reply[h], qe[h]>>
  BY Zenon, <1>t, <1>2, SendAside DEF NotifyCommittedInDoubt, logVars
<1>3. CASE CommittedInDoubtNotified
  BY Zenon, <1>t, <1>3, EndCallAside DEF CommittedInDoubtNotified
<1>4. CASE GatherRMInDoubt
  BY Zenon, <1>t, <1>4, SendAside DEF GatherRMInDoubt, logVars
<1>5. CASE Gathered
  BY Zenon, <1>t, <1>5, EndCallAside DEF Gathered, logVars
<1>6. ASSUME NEW g \in Gxacts, AbortInDoubt(g)
      PROVE  UNCHANGED <<qdVars, late, local, inserted, durable, cmd[h], reply[h], qe[h]>>
  BY Zenon, <1>t, <1>6, SendAside DEF AbortInDoubt, logVars
<1>7. CASE InDoubtAborted
  BY Zenon, <1>t, <1>7, EndCallAside DEF InDoubtAborted, logVars
<1>8. CASE DoubleCheck
  BY Zenon, <1>t, <1>8, SendAside DEF DoubleCheck, logVars
<1>9. CASE DtmStarted
  BY Zenon, <1>t, <1>9, EndCallAside DEF DtmStarted, logVars, Tables
<1>10. CASE RecoveryFails
  BY Zenon, <1>t, <1>10, EndCallAside DEF RecoveryFails, logVars, Tables
<1>11. QED
  BY Zenon, <1>1, <1>i, <1>2, <1>3, <1>4, <1>5, <1>6, <1>7, <1>8, <1>9, <1>10 DEF RecoverStep

=============
