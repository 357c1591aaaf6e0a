------------------------------- MODULE Dtm -------------------------------
(***************************************************************************)
(* The distributed transaction manager: two-phase commit between the query *)
(* dispatchers (QDs) on the master and the query executors (QEs) on the    *)
(* segments, with lost connections, failing QEs, segment restarts, master  *)
(* PANICs and the in-doubt recovery of src/backend/cdb/cdbtm.c.            *)
(*                                                                         *)
(* Each distributed transaction (gid) runs in a QD session of its own, so  *)
(* a gid also names the session.  Rec is the session that runs recoverTM.  *)
(* What a segment does with a prepared transaction is one atomic step here;*)
(* module SegTwoPhase opens that step up.  What master recovery reads back *)
(* from the log is a choice between the bounds that module DtmLog checks.  *)
(***************************************************************************)
EXTENDS Naturals

CONSTANTS
  Segs,         \* the segments (content ids) of the cluster
  Gxacts,       \* the distributed transactions
  Rec,          \* the session that performs DTM recovery
  RetryCount,   \* dtx_phase2_retry_count
  MaxFaults     \* bound on the injected faults

ASSUME SegsNonEmpty == Segs # {}
ASSUME RecIsNoGxact == Rec \notin Gxacts
ASSUME RetryCountNat == RetryCount \in Nat
ASSUME MaxFaultsNat == MaxFaults \in Nat

VARIABLES
  state,      \* gxact->state of each session's PGPROC entry
  target,     \* the segments taking part: all, or the one of a direct dispatch
  retry,      \* phase-2 retries used
  cmd,        \* the DTX protocol command a session is waiting for
  rgid,       \* the gid of Rec's current broadcast
  reply,      \* what a session knows of its command on each segment
  qe,         \* DTX context of each session's writer QE on each segment
  late,       \* work of QEs whose QD has gone
  local,      \* each segment's local transaction of a gid
  inserted,   \* gids whose distributed-commit record is in the master's WAL
  durable,    \* ... and flushed
  forgot,     \* gids whose forget record has been inserted
  dtm,        \* phase of DTM start-up
  known,      \* shmCommittedGxactArray: committed gids found by redo
  todo,       \* the part of it that recoverInDoubtTransactions has yet to do
  doubt,      \* in-doubt gids gathered from the segments
  firstTry,   \* initTM: the current recovery attempt is the first
  fate,       \* what the client of each gid has been told
  faults      \* faults injected so far

qdVars == <<state, target, retry, fate>>
callVars == <<cmd, reply, qe, late>>
logVars == <<inserted, durable, forgot>>
recVars == <<dtm, known, todo, doubt, firstTry, rgid>>
vars == <<qdVars, callVars, local, logVars, recVars, faults>>

Sessions == Gxacts \cup {Rec}

DtxState ==
  {"NONE", "ACTIVE_NOT_DISTRIBUTED", "ACTIVE_DISTRIBUTED", "PREPARING",
   "PREPARED", "INSERTING_COMMITTED", "INSERTED_COMMITTED",
   "NOTIFYING_COMMIT_PREPARED", "INSERTED_FORGET_COMMITTED",
   "NOTIFYING_ABORT_NO_PREPARED", "NOTIFYING_ABORT_SOME_PREPARED",
   "NOTIFYING_ABORT_PREPARED", "RETRY_COMMIT_PREPARED",
   "RETRY_ABORT_PREPARED"}

Command ==
  {"NONE", "BECOME_IMPLIED_WRITER", "ABORT_NO_PREPARED", "PREPARE",
   "ABORT_SOME_PREPARED", "COMMIT_PREPARED", "ABORT_PREPARED",
   "RETRY_COMMIT_PREPARED", "RETRY_ABORT_PREPARED",
   "RECOVERY_COMMIT_PREPARED", "RECOVERY_ABORT_PREPARED", "GATHER"}

(* "NONE": no gang; "LOST": the gang exists, its connection to this QE is dead. *)
Context == {"NONE", "LOST", "LOCAL_ONLY", "WRITER", "PREPARED"}

Local == {"none", "active", "prepared", "committed", "aborted"}

Op == {"START", "CANCEL", "PREPARE", "COMMIT", "ABORT", "NOTHING", "ERROR", "FATAL"}

NoReply == [s \in Segs |-> "none"]
NoGang == [s \in Segs |-> "NONE"]
NewGang == [s \in Segs |-> "LOCAL_ONLY"]

Init ==
  /\ state = [g \in Gxacts |-> "NONE"]
  /\ target = [g \in Gxacts |-> {}]
  /\ retry = [g \in Gxacts |-> 0]
  /\ fate = [g \in Gxacts |-> "idle"]
  /\ cmd = [p \in Sessions |-> "NONE"]
  /\ reply = [p \in Sessions |-> NoReply]
  /\ qe = [p \in Sessions |-> NoGang]
  /\ late = {}
  /\ local = [g \in Gxacts |-> [s \in Segs |-> "none"]]
  /\ inserted = {} /\ durable = {} /\ forgot = {}
  /\ dtm = "up"
  /\ known = {} /\ todo = {} /\ doubt = {} /\ firstTry = TRUE
  /\ rgid \in Gxacts
  /\ faults = 0

-----------------------------------------------------------------------------
(* The QE's side: performDtxProtocolCommand. *)

(* What a command makes a QE in the given DTX context do.  "ABORT" and
   "COMMIT" are FinishPreparedTransaction, "CANCEL" is
   AbortOutOfAnyTransaction. *)
QEOp(c, ctx) ==
  CASE c = "BECOME_IMPLIED_WRITER" ->
         IF ctx = "LOCAL_ONLY" THEN "START" ELSE IF ctx = "WRITER" THEN "NOTHING" ELSE "FATAL"
    [] c = "ABORT_NO_PREPARED" -> "CANCEL"
    [] c = "PREPARE" ->
         IF ctx = "WRITER" THEN "PREPARE" ELSE IF ctx = "LOCAL_ONLY" THEN "ERROR" ELSE "FATAL"
    [] c = "ABORT_SOME_PREPARED" -> IF ctx = "PREPARED" THEN "ABORT" ELSE "CANCEL"
    [] c = "COMMIT_PREPARED" -> IF ctx = "PREPARED" THEN "COMMIT" ELSE "FATAL"
    [] c = "ABORT_PREPARED" -> IF ctx = "PREPARED" THEN "ABORT" ELSE "FATAL"
    [] c \in {"RETRY_COMMIT_PREPARED", "RECOVERY_COMMIT_PREPARED"} ->
         IF ctx = "LOCAL_ONLY" THEN "COMMIT" ELSE "FATAL"
    [] c \in {"RETRY_ABORT_PREPARED", "RECOVERY_ABORT_PREPARED"} ->
         IF ctx = "LOCAL_ONLY" THEN "ABORT" ELSE "FATAL"
    [] OTHER -> "NOTHING"

(* The segment's local transaction after the operation; FinishPreparedTransaction
   finds only transactions that are prepared. *)
After(op, l) ==
  CASE op = "START" /\ l = "none" -> "active"
    [] op = "PREPARE" /\ l = "active" -> "prepared"
    [] op = "COMMIT" /\ l = "prepared" -> "committed"
    [] op = "ABORT" /\ l = "prepared" -> "aborted"
    [] op = "CANCEL" /\ l = "active" -> "aborted"
    [] OTHER -> l

(* The QE's DTX context after the operation. *)
ContextAfter(op, ctx) ==
  CASE op = "START" -> "WRITER"
    [] op = "PREPARE" -> "PREPARED"
    [] op = "FATAL" -> "LOST"
    [] op = "NOTHING" -> ctx
    [] OTHER -> "LOCAL_ONLY"

(* raiseErrorIfNotFound: only a first-attempt command insists on the gid. *)
Insists(c) == c \in {"COMMIT_PREPARED", "ABORT_PREPARED", "ABORT_SOME_PREPARED"}

(* The DTX command reports the gid of its session, Rec's that of its broadcast. *)
Gid(p) == IF p = Rec THEN rgid ELSE p

(* A QE reads its command, performs it and answers. *)
QEPerform(p, s) ==
  LET op == QEOp(cmd[p], qe[p][s])
      g == Gid(p)
      answer == IF op = "FATAL" THEN "lost"
                ELSE IF \/ op = "ERROR"
                        \/ op \in {"COMMIT", "ABORT"} /\ Insists(cmd[p])
                           /\ local[g][s] # "prepared"
                THEN "error" ELSE "ok"
  IN  /\ reply[p][s] = "wait"
      /\ local' = [local EXCEPT ![g][s] = After(op, @)]
      /\ qe' = [qe EXCEPT ![p][s] = ContextAfter(op, @)]
      /\ reply' = [reply EXCEPT ![p][s] = answer]
      /\ doubt' = IF cmd[p] = "GATHER"
                  THEN doubt \cup {x \in Gxacts : local[x][s] = "prepared"} ELSE doubt
      /\ UNCHANGED <<qdVars, cmd, late, logVars, dtm, known, todo, firstTry, rgid, faults>>

(* A QE fails before its command takes effect: the error aborts the local
   transaction unless it is prepared already. *)
QEError(p, s) ==
  /\ faults < MaxFaults /\ faults' = faults + 1
  /\ reply[p][s] = "wait"
  /\ local' = IF qe[p][s] = "WRITER"
              THEN [local EXCEPT ![Gid(p)][s] = After("CANCEL", @)] ELSE local
  /\ qe' = [qe EXCEPT ![p][s] = "LOCAL_ONLY"]
  /\ reply' = [reply EXCEPT ![p][s] = "error"]
  /\ UNCHANGED <<qdVars, cmd, late, logVars, recVars>>

(* What the QE of session p on segment s still does once its connection is gone:
   a command it has been sent runs to its end; at the end of its input the
   QE exits, which aborts a transaction that is not prepared. *)
Leftover(p, s) ==
  LET op == QEOp(cmd[p], qe[p][s])
      w(o) == [seg |-> s, gid |-> Gid(p), op |-> o]
  IN  IF reply[p][s] = "wait" /\ op \in {"PREPARE", "COMMIT", "ABORT"} THEN {w(op)}
      ELSE IF qe[p][s] = "WRITER" THEN {w("CANCEL")} ELSE {}

(* DisconnectAndDestroyAllGangs(true) *)
Detached(p) == late \cup UNION {Leftover(p, s) : s \in Segs}

(* A detached QE finishes the command it was executing. *)
LateRun(w) ==
  /\ w \in late
  /\ late' = late \ {w}
  /\ local' = [local EXCEPT ![w.gid][w.seg] = After(w.op, @)]
  /\ UNCHANGED <<qdVars, cmd, reply, qe, logVars, recVars, faults>>

(* A detached QE fails instead; an unprepared transaction aborts. *)
LateDie(w) ==
  /\ faults < MaxFaults /\ faults' = faults + 1
  /\ w \in late
  /\ late' = late \ {w}
  /\ local' = [local EXCEPT ![w.gid][w.seg] = After("CANCEL", @)]
  /\ UNCHANGED <<qdVars, cmd, reply, qe, logVars, recVars>>

(* A QD loses the connection to one of its QEs. *)
Disconnect(p, s) ==
  /\ faults < MaxFaults /\ faults' = faults + 1
  /\ qe[p][s] \notin {"NONE", "LOST"}
  /\ late' = late \cup Leftover(p, s)
  /\ qe' = [qe EXCEPT ![p][s] = "LOST"]
  /\ reply' = [reply EXCEPT ![p][s] = IF @ \in {"none", "thrown"} THEN @ ELSE "lost"]
  /\ UNCHANGED <<qdVars, cmd, local, logVars, recVars>>

(* Segment s crashes and restarts: all its QEs die, active transactions abort,
   prepared ones are recovered. *)
SegmentRestart(s) ==
  /\ faults < MaxFaults /\ faults' = faults + 1
  /\ late' = {w \in late : w.seg # s}
  /\ local' = [g \in Gxacts |-> [local[g] EXCEPT ![s] = After("CANCEL", @)]]
  /\ qe' = [p \in Sessions |->
              [qe[p] EXCEPT ![s] = IF @ = "NONE" THEN @ ELSE "LOST"]]
  /\ reply' = [p \in Sessions |->
              [reply[p] EXCEPT ![s] = IF @ \in {"none", "thrown"} THEN @ ELSE "lost"]]
  /\ UNCHANGED <<qdVars, cmd, logVars, recVars>>

-----------------------------------------------------------------------------
(* Broadcasting a command: doDispatchDtxProtocolCommand. *)

(* AllocateWriterGang: the gang of the session, created if there is none. *)
Gang(p) == IF qe[p] = NoGang THEN NewGang ELSE qe[p]

(* Session p sends command c to the segments T over the given gang. *)
Send(p, c, T, gang) ==
  /\ cmd' = [cmd EXCEPT ![p] = c]
  /\ qe' = [qe EXCEPT ![p] = gang]
  /\ reply' = [reply EXCEPT ![p] =
       [s \in Segs |-> IF s \notin T THEN "none"
                       ELSE IF gang[s] = "LOST" THEN "lost" ELSE "wait"]]

(* The dispatcher throws before any QE has been sent the command: a new gang
   cannot be created, or AllocateWriterGang finds a dead connection in the old one. *)
DispatchThrows(p) ==
  /\ \/ \E s \in Segs : qe[p][s] = "LOST" /\ UNCHANGED faults
     \/ faults < MaxFaults /\ faults' = faults + 1
  /\ cmd[p] # "NONE"
  /\ \A s \in Segs : reply[p][s] \in {"none", "wait", "lost"}
  /\ reply' = [reply EXCEPT ![p] =
       [s \in Segs |-> IF @[s] = "none" THEN "none" ELSE "thrown"]]
  /\ UNCHANGED <<qdVars, cmd, qe, late, local, logVars, recVars>>

Answered(p, c) == cmd[p] = c /\ \A s \in Segs : reply[p][s] # "wait"
Succeeded(p) == \A s \in Segs : reply[p][s] \in {"none", "ok"}

EndCall(p) ==
  /\ cmd' = [cmd EXCEPT ![p] = "NONE"]
  /\ reply' = [reply EXCEPT ![p] = NoReply]

Thrown(p) == \E s \in Segs : reply[p][s] = "thrown"
Lost(p) == \E s \in Segs : reply[p][s] = "lost"

(* clearAndResetGxact; what the session still had on the segments is detached. *)
Clear(g, told) ==
  /\ state' = [state EXCEPT ![g] = "NONE"]
  /\ fate' = [fate EXCEPT ![g] = told]
  /\ qe' = [qe EXCEPT ![g] = NoGang]
  /\ late' = Detached(g)
  /\ UNCHANGED <<target, retry>>

SetState(g, st) == state' = [state EXCEPT ![g] = st]

-----------------------------------------------------------------------------
(* The QD: start of a transaction and dtmPreCommand. *)

Begin(g) ==
  /\ dtm = "up"
  /\ fate[g] = "idle"
  /\ SetState(g, "ACTIVE_NOT_DISTRIBUTED")
  /\ fate' = [fate EXCEPT ![g] = "running"]
  /\ UNCHANGED <<target, retry, callVars, local, logVars, recVars, faults>>

(* A transaction that never went distributed ends on the master alone. *)
EndNotDistributed(g) ==
  /\ state[g] = "ACTIVE_NOT_DISTRIBUTED"
  /\ Clear(g, "local")
  /\ UNCHANGED <<cmd, reply, local, logVars, recVars, faults>>

(* The first writing command is dispatched, to all segments or to one. *)
GoDistributed(g, T) ==
  /\ state[g] = "ACTIVE_NOT_DISTRIBUTED"
  /\ SetState(g, "ACTIVE_DISTRIBUTED")
  /\ target' = [target EXCEPT ![g] = T]
  /\ qe' = [qe EXCEPT ![g] = [s \in Segs |-> IF s \in T THEN "WRITER" ELSE "LOCAL_ONLY"]]
  /\ local' = [local EXCEPT ![g] = [s \in Segs |-> IF s \in T THEN "active" ELSE @[s]]]
  /\ UNCHANGED <<retry, fate, cmd, reply, late, logVars, recVars, faults>>

(* A later command needs more than the direct-dispatch segment. *)
Promote(g) ==
  /\ state[g] = "ACTIVE_DISTRIBUTED" /\ cmd[g] = "NONE"
  /\ target[g] # Segs
  /\ target' = [target EXCEPT ![g] = Segs]
  /\ Send(g, "BECOME_IMPLIED_WRITER", Segs, Gang(g))
  /\ UNCHANGED <<state, retry, fate, late, local, logVars, recVars, faults>>

Promoted(g) ==
  /\ Answered(g, "BECOME_IMPLIED_WRITER") /\ Succeeded(g)
  /\ EndCall(g)
  /\ UNCHANGED <<qdVars, qe, late, local, logVars, recVars, faults>>

-----------------------------------------------------------------------------
(* The QD: doPrepareTransaction and the commit path. *)

Prepare(g) ==
  /\ state[g] = "ACTIVE_DISTRIBUTED" /\ cmd[g] = "NONE"
  /\ SetState(g, "PREPARING")
  /\ Send(g, "PREPARE", target[g], Gang(g))
  /\ UNCHANGED <<target, retry, fate, late, local, logVars, recVars, faults>>

(* Mutant: the votes are not looked at. *)
PreparedAnyway(g) ==
  /\ Answered(g, "PREPARE")
  /\ SetState(g, "PREPARED")
  /\ EndCall(g)
  /\ UNCHANGED <<target, retry, fate, qe, late, local, logVars, recVars, faults>>

Prepared(g) ==
  /\ Answered(g, "PREPARE") /\ Succeeded(g)
  /\ SetState(g, "PREPARED")
  /\ EndCall(g)
  /\ UNCHANGED <<target, retry, fate, qe, late, local, logVars, recVars, faults>>

InsertingDistributedCommitted(g) ==
  /\ state[g] = "PREPARED" /\ cmd[g] = "NONE"
  /\ SetState(g, "INSERTING_COMMITTED")
  /\ UNCHANGED <<target, retry, fate, callVars, local, logVars, recVars, faults>>

(* XLogInsert of the distributed commit, then insertedDistributedCommitted. *)
InsertedDistributedCommitted(g) ==
  /\ state[g] = "INSERTING_COMMITTED"
  /\ SetState(g, "INSERTED_COMMITTED")
  /\ inserted' = inserted \cup {g}
  /\ UNCHANGED <<target, retry, fate, callVars, local, durable, forgot, recVars, faults>>

(* XLogFlush: everything in the WAL buffers goes to disk. *)
FlushCommit(g) ==
  /\ state[g] = "INSERTED_COMMITTED"
  /\ g \in inserted \ durable
  /\ durable' = inserted
  /\ UNCHANGED <<qdVars, callVars, local, inserted, forgot, recVars, faults>>

(* Mutant: phase 2 begins before the commit record is flushed. *)
NotifyBeforeFlush(g) ==
  /\ state[g] = "INSERTED_COMMITTED"
  /\ SetState(g, "NOTIFYING_COMMIT_PREPARED")
  /\ Send(g, "COMMIT_PREPARED", target[g], Gang(g))
  /\ UNCHANGED <<target, retry, fate, late, local, logVars, recVars, faults>>

NotifyCommitPrepared(g) ==
  /\ state[g] = "INSERTED_COMMITTED"
  /\ g \in durable
  /\ SetState(g, "NOTIFYING_COMMIT_PREPARED")
  /\ Send(g, "COMMIT_PREPARED", target[g], Gang(g))
  /\ UNCHANGED <<target, retry, fate, late, local, logVars, recVars, faults>>

(* Mutant: a lost connection counts as an answer. *)
CommitNotifiedAnyway(g) ==
  /\ \/ Answered(g, "COMMIT_PREPARED")
     \/ Answered(g, "RETRY_COMMIT_PREPARED")
  /\ \A s \in Segs : reply[g][s] # "error"
  /\ SetState(g, "INSERTED_FORGET_COMMITTED")
  /\ forgot' = forgot \cup {g}
  /\ EndCall(g)
  /\ UNCHANGED <<target, retry, fate, qe, late, local, inserted, durable, recVars, faults>>

(* Every segment has committed: the forget record is inserted, not flushed. *)
CommitNotified(g) ==
  /\ \/ Answered(g, "COMMIT_PREPARED")
     \/ Answered(g, "RETRY_COMMIT_PREPARED")
  /\ Succeeded(g)
  /\ SetState(g, "INSERTED_FORGET_COMMITTED")
  /\ forgot' = forgot \cup {g}
  /\ EndCall(g)
  /\ UNCHANGED <<target, retry, fate, qe, late, local, inserted, durable, recVars, faults>>

CommitNotifyFailed(g) ==
  /\ \/ Answered(g, "COMMIT_PREPARED")
     \/ Answered(g, "RETRY_COMMIT_PREPARED")
  /\ ~Succeeded(g)
  /\ SetState(g, "RETRY_COMMIT_PREPARED")
  /\ EndCall(g)
  /\ UNCHANGED <<target, retry, fate, qe, late, local, logVars, recVars, faults>>

(* Mutant: one retry too many. *)
RetryOnceMore(g) ==
  /\ state[g] = "RETRY_COMMIT_PREPARED" /\ cmd[g] = "NONE"
  /\ retry[g] <= RetryCount
  /\ retry' = [retry EXCEPT ![g] = @ + 1]
  /\ late' = Detached(g)
  /\ Send(g, "RETRY_COMMIT_PREPARED", target[g], NewGang)
  /\ UNCHANGED <<state, target, fate, local, logVars, recVars, faults>>

(* The gangs are destroyed and a new one is told to commit. *)
RetryCommitPrepared(g) ==
  /\ state[g] = "RETRY_COMMIT_PREPARED" /\ cmd[g] = "NONE"
  /\ retry[g] < RetryCount
  /\ retry' = [retry EXCEPT ![g] = @ + 1]
  /\ late' = Detached(g)
  /\ Send(g, "RETRY_COMMIT_PREPARED", target[g], NewGang)
  /\ UNCHANGED <<state, target, fate, local, logVars, recVars, faults>>

(* clearTransactionState; the client learns of the commit. *)
Committed(g) ==
  /\ state[g] = "INSERTED_FORGET_COMMITTED"
  /\ Clear(g, "committed")
  /\ UNCHANGED <<cmd, reply, local, logVars, recVars, faults>>

-----------------------------------------------------------------------------
(* The QD: rollbackDtxTransaction, doNotifyingAbort, retryAbortPrepared. *)

(* A user's ROLLBACK, an error, or a promotion that failed. *)
RollbackActive(g) ==
  /\ state[g] = "ACTIVE_DISTRIBUTED"
  /\ \/ cmd[g] = "NONE"
     \/ Answered(g, "BECOME_IMPLIED_WRITER") /\ ~Succeeded(g)
  /\ SetState(g, "NOTIFYING_ABORT_NO_PREPARED")
  /\ Send(g, "ABORT_NO_PREPARED", target[g], Gang(g))
  /\ UNCHANGED <<target, retry, fate, late, local, logVars, recVars, faults>>

(* A failed broadcast only means that the gangs are destroyed. *)
AbortNoPreparedEnds(g) ==
  /\ Answered(g, "ABORT_NO_PREPARED")
  /\ EndCall(g)
  /\ Clear(g, "aborted")
  /\ UNCHANGED <<local, logVars, recVars, faults>>

(* A failed PREPARE whose gang is still good: tell those who may have prepared.
   GangOK also fails on a segment that FTS has marked down. *)
AbortSomePrepared(g) ==
  /\ Answered(g, "PREPARE") /\ ~Succeeded(g)
  /\ ~Lost(g)
  /\ SetState(g, "NOTIFYING_ABORT_SOME_PREPARED")
  /\ Send(g, "ABORT_SOME_PREPARED", target[g], Gang(g))
  /\ UNCHANGED <<target, retry, fate, late, local, logVars, recVars, faults>>

(* badPrepareGangs: straight to retryAbortPrepared. *)
PrepareBadGangs(g) ==
  /\ Answered(g, "PREPARE") /\ ~Succeeded(g)
  /\ ~Thrown(g)
  /\ SetState(g, "RETRY_ABORT_PREPARED")
  /\ EndCall(g)
  /\ UNCHANGED <<target, retry, fate, qe, late, local, logVars, recVars, faults>>

(* Mutant: an error after the commit record still rolls back. *)
RollbackTooLate(g) ==
  /\ state[g] \in {"PREPARED", "INSERTED_COMMITTED"} /\ cmd[g] = "NONE"
  /\ SetState(g, "NOTIFYING_ABORT_PREPARED")
  /\ Send(g, "ABORT_PREPARED", target[g], Gang(g))
  /\ UNCHANGED <<target, retry, fate, late, local, logVars, recVars, faults>>

(* An error after every segment has prepared and before the commit record. *)
RollbackPrepared(g) ==
  /\ state[g] = "PREPARED" /\ cmd[g] = "NONE"
  /\ SetState(g, "NOTIFYING_ABORT_PREPARED")
  /\ Send(g, "ABORT_PREPARED", target[g], Gang(g))
  /\ UNCHANGED <<target, retry, fate, late, local, logVars, recVars, faults>>

(* retryAbortPrepared follows whether or not the broadcast succeeded. *)
AbortBroadcastEnds(g) ==
  /\ \/ Answered(g, "ABORT_SOME_PREPARED")
     \/ Answered(g, "ABORT_PREPARED")
     \/ Answered(g, "RETRY_ABORT_PREPARED") /\ ~Succeeded(g)
  /\ IF Succeeded(g) \/ cmd[g] = "RETRY_ABORT_PREPARED" THEN UNCHANGED state
     ELSE SetState(g, "RETRY_ABORT_PREPARED")
  /\ EndCall(g)
  /\ UNCHANGED <<target, retry, fate, qe, late, local, logVars, recVars, faults>>

AbortsPrepared(g) ==
  state[g] \in {"NOTIFYING_ABORT_SOME_PREPARED", "NOTIFYING_ABORT_PREPARED",
                "RETRY_ABORT_PREPARED"}

(* The retry goes to all segments, direct dispatch or not. *)
RetryAbortPrepared(g) ==
  /\ AbortsPrepared(g) /\ cmd[g] = "NONE"
  /\ retry[g] < RetryCount
  /\ retry' = [retry EXCEPT ![g] = @ + 1]
  /\ late' = Detached(g)
  /\ Send(g, "RETRY_ABORT_PREPARED", Segs, NewGang)
  /\ UNCHANGED <<state, target, fate, local, logVars, recVars, faults>>

Aborted(g) ==
  /\ Answered(g, "RETRY_ABORT_PREPARED") /\ Succeeded(g)
  /\ EndCall(g)
  /\ Clear(g, "aborted")
  /\ UNCHANGED <<local, logVars, recVars, faults>>

(* A QD exits before its PREPARE (proc_exit_inprogress), or fails while it tells the
   segments to abort: it only destroys its gangs. *)
SessionExit(g) ==
  /\ faults < MaxFaults /\ faults' = faults + 1
  /\ state[g] \in {"ACTIVE_DISTRIBUTED", "NOTIFYING_ABORT_NO_PREPARED"}
  /\ EndCall(g)
  /\ Clear(g, "aborted")
  /\ UNCHANGED <<local, logVars, recVars>>

-----------------------------------------------------------------------------
(* Master failure, redo of the distributed log, and initTM / recoverTM. *)

(* Every backend of the master dies; an unflushed tail of the WAL may be lost. *)
MasterDown ==
  /\ \E D \in SUBSET inserted : durable \subseteq D /\ durable' = D /\ inserted' = D
  /\ late' = UNION {Detached(p) : p \in Sessions}
  /\ state' = [g \in Gxacts |-> "NONE"]
  /\ fate' = [g \in Gxacts |-> IF fate[g] = "running" THEN "crashed" ELSE fate[g]]
  /\ cmd' = [p \in Sessions |-> "NONE"]
  /\ reply' = [p \in Sessions |-> NoReply]
  /\ qe' = [p \in Sessions |-> NoGang]
  /\ dtm' = "down"
  /\ known' = {} /\ todo' = {} /\ doubt' = {} /\ firstTry' = TRUE
  /\ UNCHANGED <<target, retry, local, forgot, rgid>>

MasterCrash ==
  /\ faults < MaxFaults /\ faults' = faults + 1
  /\ dtm # "down"
  /\ MasterDown

(* errstart: the states in which the FATAL of a QD becomes a PANIC *)
FatalIsPanic ==
  {"PREPARING", "PREPARED", "INSERTING_COMMITTED", "INSERTED_COMMITTED",
   "NOTIFYING_COMMIT_PREPARED", "NOTIFYING_ABORT_SOME_PREPARED",
   "NOTIFYING_ABORT_PREPARED", "RETRY_COMMIT_PREPARED", "RETRY_ABORT_PREPARED"}

(* Mutant: the QD dies silently and leaves its prepared transaction behind. *)
SessionDies(g) ==
  /\ faults < MaxFaults /\ faults' = faults + 1
  /\ state[g] \in FatalIsPanic
  /\ EndCall(g)
  /\ Clear(g, "crashed")
  /\ UNCHANGED <<local, logVars, recVars>>

(* A QD hits FATAL between its PREPARE and the end of its second phase. *)
SessionFatal(g) ==
  /\ faults < MaxFaults /\ faults' = faults + 1
  /\ state[g] \in FatalIsPanic
  /\ MasterDown

(* Mutant: the last retry is never recognised. *)
PanicTooLate(g) ==
  /\ AbortsPrepared(g) \/ state[g] = "RETRY_COMMIT_PREPARED"
  /\ cmd[g] = "NONE"
  /\ retry[g] > RetryCount
  /\ MasterDown
  /\ UNCHANGED faults

(* "unable to complete ... broadcast" after the last retry *)
Panic(g) ==
  /\ AbortsPrepared(g) \/ state[g] = "RETRY_COMMIT_PREPARED"
  /\ cmd[g] = "NONE"
  /\ retry[g] >= RetryCount
  /\ MasterDown
  /\ UNCHANGED faults

(* Mutant: redo misses commits. *)
RedoMisses ==
  /\ dtm = "down"
  /\ \E R \in SUBSET durable : known' = R /\ todo' = R
  /\ dtm' = "due"
  /\ UNCHANGED <<qdVars, callVars, local, logVars, doubt, firstTry, rgid, faults>>

(* Redo finds every durable commit that has not been forgotten, and possibly
   some whose unflushed forget record was lost. *)
Redo ==
  /\ dtm = "down"
  /\ \E R \in SUBSET durable :
       /\ durable \ forgot \subseteq R
       /\ known' = R /\ todo' = R
  /\ dtm' = "due"
  /\ UNCHANGED <<qdVars, callVars, local, logVars, doubt, firstTry, rgid, faults>>

(* A client connects: cdb_setup of its QD finds recovery to be done. *)
InitTM ==
  /\ dtm = "due" /\ dtm' = "recover"
  /\ UNCHANGED <<qdVars, callVars, local, logVars, known, todo, doubt, firstTry, rgid, faults>>

RecIdle(phase) == dtm = phase /\ cmd[Rec] = "NONE"

(* One turn of the loop of recoverInDoubtTransactions. *)
NotifyCommittedInDoubt(g) ==
  /\ RecIdle("recover")
  /\ g \in todo
  /\ rgid' = g
  /\ Send(Rec, "RECOVERY_COMMIT_PREPARED", Segs, Gang(Rec))
  /\ UNCHANGED <<qdVars, late, local, logVars, dtm, known, todo, doubt, firstTry, faults>>

(* Mutant: the forget record is written whatever the segments answered. *)
ForgetAnyway ==
  /\ Answered(Rec, "RECOVERY_COMMIT_PREPARED")
  /\ forgot' = forgot \cup {rgid}
  /\ todo' = todo \ {rgid}
  /\ EndCall(Rec)
  /\ UNCHANGED <<qdVars, qe, late, local, inserted, durable, dtm, known, doubt,
                 firstTry, rgid, faults>>

(* Mutant: the loop does not move on to the next gid. *)
LoopStuck ==
  /\ Answered(Rec, "RECOVERY_COMMIT_PREPARED") /\ Succeeded(Rec)
  /\ forgot' = forgot \cup {rgid}
  /\ EndCall(Rec)
  /\ UNCHANGED <<qdVars, qe, late, local, inserted, durable, dtm, known, todo, doubt,
                 firstTry, rgid, faults>>

CommittedInDoubtNotified ==
  /\ Answered(Rec, "RECOVERY_COMMIT_PREPARED") /\ Succeeded(Rec)
  /\ forgot' = forgot \cup {rgid}
  /\ todo' = todo \ {rgid}
  /\ EndCall(Rec)
  /\ UNCHANGED <<qdVars, qe, late, local, inserted, durable, dtm, known, doubt,
                 firstTry, rgid, faults>>

(* shmNumCommittedGxacts = 0, gatherRMInDoubtTransactions *)
GatherRMInDoubt ==
  /\ RecIdle("recover")
  /\ todo = {}
  /\ known' = {}
  /\ dtm' = "gather"
  /\ Send(Rec, "GATHER", Segs, Gang(Rec))
  /\ UNCHANGED <<qdVars, late, local, logVars, todo, doubt, firstTry, rgid, faults>>

Gathered ==
  /\ dtm = "gather"
  /\ Answered(Rec, "GATHER") /\ Succeeded(Rec)
  /\ dtm' = "abort"
  /\ EndCall(Rec)
  /\ UNCHANGED <<qdVars, qe, late, local, logVars, known, todo, doubt, firstTry, rgid, faults>>

(* One turn of the loop of abortRMInDoubtTransactions. *)
AbortInDoubt(g) ==
  /\ RecIdle("abort")
  /\ g \in doubt
  /\ rgid' = g
  /\ Send(Rec, "RECOVERY_ABORT_PREPARED", Segs, Gang(Rec))
  /\ UNCHANGED <<qdVars, late, local, logVars, dtm, known, todo, doubt, firstTry, faults>>

InDoubtAborted ==
  /\ Answered(Rec, "RECOVERY_ABORT_PREPARED") /\ Succeeded(Rec)
  /\ doubt' = doubt \ {rgid}
  /\ EndCall(Rec)
  /\ UNCHANGED <<qdVars, qe, late, local, logVars, dtm, known, todo, firstTry, rgid, faults>>

(* "yes... we are paranoid and will double check" *)
DoubleCheck ==
  /\ RecIdle("abort")
  /\ doubt = {}
  /\ dtm' = "check"
  /\ Send(Rec, "GATHER", Segs, Gang(Rec))
  /\ UNCHANGED <<qdVars, late, local, logVars, known, todo, doubt, firstTry, rgid, faults>>

(* shmDtmStarted *)
DtmStarted ==
  /\ dtm = "check"
  /\ Answered(Rec, "GATHER") /\ Succeeded(Rec)
  /\ doubt = {}
  /\ dtm' = "up" /\ firstTry' = TRUE
  /\ EndCall(Rec)
  /\ qe' = [qe EXCEPT ![Rec] = NoGang]
  /\ UNCHANGED <<qdVars, late, local, logVars, known, todo, doubt, rgid, faults>>

(* Mutant: the second attempt goes on behind the gid on which the first failed. *)
RecoverySkips ==
  /\ Answered(Rec, cmd[Rec]) /\ cmd[Rec] # "NONE"
  /\ ~Succeeded(Rec) \/ (dtm = "check" /\ doubt # {})
  /\ dtm' = "recover"
  /\ todo' = todo \ {rgid}
  /\ doubt' = {}
  /\ firstTry' = ~firstTry
  /\ qe' = [qe EXCEPT ![Rec] = NoGang]
  /\ EndCall(Rec)
  /\ UNCHANGED <<qdVars, late, local, logVars, known, rgid, faults>>

(* A failed commit or abort broadcast is FATAL; an exception of the dispatcher,
   a failed gather or a remaining in-doubt transaction is an ERROR, which
   initTM turns into a second try and then into FATAL, until another client connects. *)
RecoveryFails ==
  LET fatal == \/ /\ cmd[Rec] \in {"RECOVERY_COMMIT_PREPARED", "RECOVERY_ABORT_PREPARED"}
                  /\ ~Thrown(Rec)
               \/ ~firstTry
  IN  /\ Answered(Rec, cmd[Rec]) /\ cmd[Rec] # "NONE"
      /\ ~Succeeded(Rec) \/ (dtm = "check" /\ doubt # {})
      /\ dtm' = IF fatal THEN "due" ELSE "recover"
      /\ todo' = known
      /\ doubt' = {}
      /\ firstTry' = fatal
      /\ qe' = IF fatal THEN [qe EXCEPT ![Rec] = NoGang] ELSE qe
      /\ EndCall(Rec)
      /\ UNCHANGED <<qdVars, late, local, logVars, known, rgid, faults>>

-----------------------------------------------------------------------------

(* Steps that a running system takes by itself. *)
Progress ==
  \/ \E p \in Sessions, s \in Segs : QEPerform(p, s)
  \/ \E w \in late : LateRun(w)
  \/ \E g \in Gxacts :
       \/ Promoted(g) \/ Prepared(g)
       \/ InsertingDistributedCommitted(g) \/ InsertedDistributedCommitted(g)
       \/ FlushCommit(g) \/ NotifyCommitPrepared(g)
       \/ CommitNotified(g) \/ CommitNotifyFailed(g) \/ RetryCommitPrepared(g)
       \/ Committed(g)
       \/ AbortNoPreparedEnds(g) \/ AbortSomePrepared(g) \/ PrepareBadGangs(g)
       \/ AbortBroadcastEnds(g) \/ RetryAbortPrepared(g) \/ Aborted(g)
       \/ Panic(g)
       \/ NotifyCommittedInDoubt(g) \/ AbortInDoubt(g)
  \/ Redo \/ CommittedInDoubtNotified \/ GatherRMInDoubt \/ Gathered
  \/ InDoubtAborted \/ DoubleCheck \/ DtmStarted \/ RecoveryFails

(* What clients ask for. *)
Request ==
  \/ InitTM
  \/ \E g \in Gxacts :
       \/ Begin(g) \/ EndNotDistributed(g) \/ Promote(g) \/ Prepare(g)
       \/ RollbackActive(g) \/ RollbackPrepared(g)
       \/ \E T \in {Segs} \cup {{s} : s \in Segs} : GoDistributed(g, T)

Fault ==
  \/ \E p \in Sessions : DispatchThrows(p)
  \/ \E p \in Sessions, s \in Segs : QEError(p, s) \/ Disconnect(p, s)
  \/ \E w \in late : LateDie(w)
  \/ \E s \in Segs : SegmentRestart(s)
  \/ \E g \in Gxacts : SessionExit(g) \/ SessionFatal(g)
  \/ MasterCrash

Next == Progress \/ Request \/ Fault

Spec == Init /\ [][Next]_vars /\ WF_vars(Progress)

-----------------------------------------------------------------------------
(* Properties. *)

Late == [seg : Segs, gid : Gxacts, op : {"PREPARE", "COMMIT", "ABORT", "CANCEL"}]

(* Every variable of the DTM keeps its type. *)
TypeOK ==
  /\ state \in [Gxacts -> DtxState]
  /\ target \in [Gxacts -> SUBSET Segs]
  /\ retry \in [Gxacts -> 0..RetryCount]
  /\ fate \in [Gxacts -> {"idle", "running", "local", "committed", "aborted", "crashed"}]
  /\ cmd \in [Sessions -> Command]
  /\ reply \in [Sessions -> [Segs -> {"none", "wait", "ok", "error", "lost", "thrown"}]]
  /\ qe \in [Sessions -> [Segs -> Context]]
  /\ late \in SUBSET Late
  /\ local \in [Gxacts -> [Segs -> Local]]
  /\ inserted \in SUBSET Gxacts /\ durable \in SUBSET Gxacts /\ forgot \in SUBSET Gxacts
  /\ dtm \in {"up", "down", "due", "recover", "gather", "abort", "check"}
  /\ known \in SUBSET Gxacts /\ todo \in SUBSET Gxacts /\ doubt \in SUBSET Gxacts
  /\ firstTry \in BOOLEAN
  /\ rgid \in Gxacts
  /\ faults \in 0..MaxFaults

(* Atomic commitment: no distributed transaction commits on one segment and
   aborts on another, whatever is lost, retried or recovered on the way. *)
Atomicity ==
  \A g \in Gxacts, s, t \in Segs :
    ~(local[g][s] = "committed" /\ local[g][t] = "aborted")

(* A segment commits only after the distributed-commit record is on disk, so
   no crash of the master can forget a commit a segment has performed. *)
CommitNeedsDurableRecord ==
  \A g \in Gxacts, s \in Segs : local[g][s] = "committed" => g \in durable

(* doNotifyingCommitPrepared returns to the client only when every segment the
   transaction wrote on has committed it, also where phase 2 was retried and
   a "not found" counted as success. *)
CommittedEverywhere ==
  \A g \in Gxacts : fate[g] = "committed" =>
    target[g] # {} /\ \A s \in target[g] : local[g][s] = "committed"

(* A forget record is inserted only when no segment needs the commit any more:
   redo may then drop the gid from shmCommittedGxactArray. *)
ForgetSafe ==
  \A g \in forgot, s \in Segs : local[g][s] # "prepared"

(* A client that was told of an abort never finds its transaction committed,
   neither now nor by a later recovery: there is no commit record of it. *)
AbortedNotLogged ==
  \A g \in Gxacts : fate[g] = "aborted" => g \notin inserted

(* New transactions are admitted (shmDtmStarted) only when no segment is left
   holding the locks of a commit whose session has gone. *)
NoUndeliveredCommit ==
  dtm = "up" =>
    \A g \in durable : state[g] = "NONE" => \A s \in Segs : local[g][s] # "prepared"

(* No segment votes on a transaction that has been decided: PREPARE of a
   detached QE never succeeds after the commit record. *)
NoVoteAfterCommit ==
  [][\A g \in inserted, s \in Segs :
       local[g][s] # "prepared" => local'[g][s] # "prepared"]_vars

(* The environment: as long as DTM recovery is due, some client connects in the end.
   Nothing in the server starts initTM by itself. *)
ClientsConnect == []<>(dtm # "due")

(* Once the commit record is on disk every segment that holds the transaction prepared
   eventually commits it, through retries, PANIC and recovery, if clients connect. *)
CommitDelivered ==
  ClientsConnect =>
    \A g \in Gxacts, s \in Segs :
      (g \in durable /\ local[g][s] = "prepared") ~> local[g][s] = "committed"

(* After a master restart the clients that connect get DTM recovery done, in spite of
   late QEs of the crashed sessions and of failed recovery attempts. *)
RecoveryCompletes == ClientsConnect => (dtm = "down" ~> dtm = "up")

(* A session that has sent PREPARE comes to an end: its retries are bounded and
   it either finishes phase 2 or takes the master down for recovery to finish. *)
PhaseTwoEnds ==
  \A g \in Gxacts :
    state[g] \notin {"NONE", "ACTIVE_NOT_DISTRIBUTED", "ACTIVE_DISTRIBUTED"} ~> state[g] = "NONE"

(* What retryAbortPrepared's comment promises: after the gangs are destroyed
   and the abort is retried, an aborted transaction is prepared nowhere. *)
NoOrphan ==
  \A g \in Gxacts, s \in Segs : fate[g] = "aborted" => local[g][s] # "prepared"

=============
