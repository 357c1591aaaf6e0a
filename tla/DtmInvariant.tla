--------------------------- MODULE DtmInvariant ---------------------------
(***************************************************************************)
(* The inductive invariant of Dtm from which its safety properties follow, *)
(* and the refinement mapping to DistCommit.                               *)
(***************************************************************************)
EXTENDS Dtm

(* States from which the commit record has been inserted. *)
CommitPath ==
  {"INSERTED_COMMITTED", "NOTIFYING_COMMIT_PREPARED", "RETRY_COMMIT_PREPARED",
   "INSERTED_FORGET_COMMITTED"}

Voted == {"PREPARED", "INSERTING_COMMITTED"}

AbortPath ==
  {"NOTIFYING_ABORT_NO_PREPARED", "NOTIFYING_ABORT_SOME_PREPARED",
   "NOTIFYING_ABORT_PREPARED", "RETRY_ABORT_PREPARED"}

(* A QD in state st can be waiting for command c. *)
Awaits(st, c) ==
  \/ c = "NONE" /\ st \notin {"PREPARING", "NOTIFYING_COMMIT_PREPARED"}
  \/ c = "BECOME_IMPLIED_WRITER" /\ st = "ACTIVE_DISTRIBUTED"
  \/ c = "PREPARE" /\ st = "PREPARING"
  \/ c = "COMMIT_PREPARED" /\ st = "NOTIFYING_COMMIT_PREPARED"
  \/ c = "RETRY_COMMIT_PREPARED" /\ st = "RETRY_COMMIT_PREPARED"
  \/ /\ c \in {"ABORT_NO_PREPARED", "ABORT_SOME_PREPARED", "ABORT_PREPARED",
               "RETRY_ABORT_PREPARED"}
     /\ st \in AbortPath

(* The session of g is at the point of its protocol that its state says. *)
SessionInv(g) ==
  /\ Awaits(state[g], cmd[g])
  /\ fate[g] = "running" <=> state[g] # "NONE"
  /\ dtm # "up" => state[g] = "NONE"
  /\ state[g] \notin CommitPath /\ fate[g] \notin {"committed", "crashed"} => g \notin inserted
  /\ state[g] \in CommitPath => g \in inserted
  /\ g \in inserted \ durable => state[g] = "INSERTED_COMMITTED"
  /\ state[g] \in CommitPath \ {"INSERTED_COMMITTED"} => g \in durable
  /\ state[g] = "INSERTED_FORGET_COMMITTED" \/ fate[g] = "committed" =>
       target[g] # {} /\ \A s \in target[g] : local[g][s] = "committed"
  /\ state[g] \notin {"NONE", "ACTIVE_NOT_DISTRIBUTED"} => target[g] # {}

(* A QE works on g on the segments that take part, and on no other. *)
StartInv(g, s) ==
  /\ cmd[g] = "BECOME_IMPLIED_WRITER" => s \in target[g]
  /\ s \in target[g] /\ (cmd[g] = "NONE" \/ reply[g][s] = "ok") => qe[g][s] \in {"WRITER", "LOST"}
  /\ s \notin target[g] => qe[g][s] \in {"LOCAL_ONLY", "LOST"}
  /\ reply[g][s] = "wait" =>
       qe[g][s] = "WRITER" \/ (qe[g][s] = "LOCAL_ONLY" /\ local[g][s] = "none")

(* Segment s and the session of g agree on how far g has come. *)
SegmentInv(g, s) ==
  /\ s \notin target[g] => local[g][s] = "none" /\ qe[g][s] # "WRITER"
  /\ s \in target[g] => (cmd[g] # "NONE" => reply[g][s] # "none")
  /\ fate[g] = "idle" \/ state[g] = "ACTIVE_NOT_DISTRIBUTED" => s \notin target[g]
  /\ state[g] = "ACTIVE_DISTRIBUTED" => StartInv(g, s)
  /\ state[g] \in {"ACTIVE_DISTRIBUTED", "PREPARING"} /\ qe[g][s] = "WRITER" =>
       local[g][s] = "active"
  /\ state[g] = "PREPARING" /\ reply[g][s] = "ok" =>
       local[g][s] = "prepared" /\ qe[g][s] # "WRITER"
  /\ state[g] \in Voted /\ s \in target[g] => local[g][s] = "prepared"
  /\ state[g] \in Voted \cup CommitPath \cup {"NONE"} => qe[g][s] # "WRITER"
  /\ g \in inserted => local[g][s] \in {"none", "prepared", "committed"}
  /\ g \in inserted /\ s \in target[g] => local[g][s] # "none"
  /\ local[g][s] = "committed" => g \in durable
  /\ state[g] \in CommitPath /\ reply[g][s] = "ok" => local[g][s] = "committed"
  /\ state[g] \in CommitPath /\ reply[g][s] # "none" => s \in target[g]
  /\ g \in forgot => local[g][s] # "prepared"
  /\ dtm # "down" /\ state[g] = "NONE" /\ g \in durable /\ local[g][s] = "prepared" =>
       dtm \in {"due", "recover"} /\ g \in todo

(* What a detached QE is still doing is in accordance with the outcome. *)
LateInv(w) ==
  IF w.op = "COMMIT" THEN w.gid \in durable
  ELSE /\ w.gid \notin inserted
       /\ \/ state[w.gid] = "NONE" /\ fate[w.gid] # "idle"
          \/ state[w.gid] \in AbortPath
          \/ /\ state[w.gid] \in {"ACTIVE_DISTRIBUTED", "PREPARING"}
             /\ w.op # "ABORT"
             /\ w.seg \in target[w.gid]
             /\ qe[w.gid][w.seg] = "LOST"
             /\ reply[w.gid][w.seg] \notin {"ok", "wait"}

(* Recovery commits and aborts the right transactions. *)
RecoveryInv ==
  /\ dtm \in {"up", "down", "due"} => cmd[Rec] = "NONE"
  /\ dtm # "up" => inserted = durable
  /\ todo \subseteq known /\ known \subseteq durable
  /\ dtm \in {"gather", "abort", "check"} => known = {}
  /\ \A g \in doubt : g \notin inserted /\ fate[g] # "idle" /\ state[g] = "NONE"
  /\ \A s \in Segs : qe[Rec][s] \in {"NONE", "LOST", "LOCAL_ONLY"}
  /\ cmd[Rec] = "RECOVERY_COMMIT_PREPARED" =>
       /\ dtm = "recover" /\ rgid \in durable
       /\ \A s \in Segs : /\ reply[Rec][s] # "none"
                          /\ reply[Rec][s] = "ok" => local[rgid][s] # "prepared"
  /\ cmd[Rec] = "RECOVERY_ABORT_PREPARED" =>
       dtm = "abort" /\ rgid \notin inserted /\ fate[rgid] # "idle"
  /\ cmd[Rec] = "GATHER" => dtm \in {"gather", "check"}
  /\ cmd[Rec] \in {"NONE", "RECOVERY_COMMIT_PREPARED", "RECOVERY_ABORT_PREPARED", "GATHER"}

(* The types of the tables of sessions and segments. *)
Tables ==
  /\ state \in [Gxacts -> DtxState] /\ target \in [Gxacts -> SUBSET Segs]
  /\ cmd \in [Sessions -> Command] /\ qe \in [Sessions -> [Segs -> Context]]
  /\ reply \in [Sessions -> [Segs -> {"none", "wait", "ok", "error", "lost", "thrown"}]]
  /\ local \in [Gxacts -> [Segs -> Local]]

(* The safety of the DTM, inductively: sessions, segments, detached QEs and
   recovery are never at odds about the outcome of a transaction. *)
Inv ==
  /\ TypeOK
  /\ durable \subseteq inserted /\ forgot \subseteq durable
  /\ \A p \in Sessions : cmd[p] = "NONE" => reply[p] = NoReply
  /\ \A g \in Gxacts : SessionInv(g)
  /\ \A g \in Gxacts, s \in Segs : SegmentInv(g, s)
  /\ \A w \in late : LateInv(w)
  /\ RecoveryInv

-----------------------------------------------------------------------------
(* The steps, by the part of the protocol they belong to. *)
WorkStep(g) ==
  \/ Begin(g) \/ EndNotDistributed(g) \/ Promote(g) \/ Promoted(g) \/ Prepare(g)
  \/ Prepared(g)
  \/ \E T \in {Segs} \cup {{s} : s \in Segs} : GoDistributed(g, T)

CommitStep(g) ==
  \/ InsertingDistributedCommitted(g) \/ InsertedDistributedCommitted(g)
  \/ FlushCommit(g) \/ NotifyCommitPrepared(g) \/ CommitNotified(g)
  \/ CommitNotifyFailed(g) \/ RetryCommitPrepared(g) \/ Committed(g)

AbortStep(g) ==
  \/ RollbackActive(g) \/ AbortNoPreparedEnds(g) \/ AbortSomePrepared(g)
  \/ PrepareBadGangs(g) \/ RollbackPrepared(g) \/ AbortBroadcastEnds(g)
  \/ RetryAbortPrepared(g) \/ Aborted(g) \/ SessionExit(g)

RecoverStep ==
  \/ \E g \in Gxacts : NotifyCommittedInDoubt(g) \/ AbortInDoubt(g)
  \/ Redo \/ InitTM \/ CommittedInDoubtNotified \/ GatherRMInDoubt \/ Gathered
  \/ InDoubtAborted \/ DoubleCheck \/ DtmStarted \/ RecoveryFails

MasterStep == (\E g \in Gxacts : Panic(g) \/ SessionFatal(g)) \/ MasterCrash \/ RecoverStep

SegmentsStep ==
  \/ \E p \in Sessions : DispatchThrows(p)
  \/ \E p \in Sessions, s \in Segs : QEPerform(p, s) \/ QEError(p, s) \/ Disconnect(p, s)
  \/ \E w \in late : LateRun(w) \/ LateDie(w)
  \/ \E s \in Segs : SegmentRestart(s)

-----------------------------------------------------------------------------
(* Dtm as a DistCommit: a transaction is decided by its durable commit record,
   or by the first segment that aborts it. *)
PartOf(l) == CASE l = "none" -> "out" [] l = "active" -> "working" [] OTHER -> l

OutcomeOf(g) ==
  IF g \in durable THEN "commit"
  ELSE IF \E s \in Segs : local[g][s] = "aborted" THEN "abort" ELSE "open"

partBar == [g \in Gxacts |-> [s \in Segs |-> PartOf(local[g][s])]]
outcomeBar == [g \in Gxacts |-> OutcomeOf(g)]

DC == INSTANCE DistCommit WITH part <- partBar, outcome <- outcomeBar

(* Dtm implements DistCommit. *)
ImplementsDistCommit == DC!Spec
=============
