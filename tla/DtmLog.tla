------------------------------ MODULE DtmLog ------------------------------
(***************************************************************************)
(* The master's log of distributed commits: what committing sessions, the  *)
(* checkpointer and DTM recovery write to the WAL, and what redo rebuilds  *)
(* from it in shmCommittedGxactArray after a crash.  The broadcasts of the *)
(* second phase are single steps here (module Dtm opens them up); the      *)
(* record inserts, state changes, the inCommit flag and the pieces of a    *)
(* checkpoint are separate steps, because other processes run in between.  *)
(***************************************************************************)
EXTENDS Naturals, Sequences, FiniteSets, SequencesExt

CONSTANTS
  Gxacts,          \* the distributed transactions; each commits in a session of its own
  MaxRestarts,     \* bound on crashes, shutdowns and failed recoveries of the master
  MaxCheckpoints   \* bound on the checkpoints started while the master is up

ASSUME GxactsFinite == IsFiniteSet(Gxacts)
ASSUME BoundsNat == MaxRestarts \in Nat /\ MaxCheckpoints \in Nat

VARIABLES
  state,      \* gxact->state, "PREPARED" until the session enters its commit
  inCommit,   \* the sessions whose MyProc->inCommit is set
  wal,        \* the master's WAL: commit, forget and checkpoint records
  flushed,    \* records that XLogFlush has guaranteed
  control,    \* ControlFile->checkPoint, as an index into wal
  shm,        \* shmCommittedGxactArray[0 .. *shmNumCommittedGxacts - 1]
  server,     \* "up", "crashed", "shut", "redone" (end-of-recovery checkpoint due)
  started,    \* shmDtmStarted
  recovering, \* the QD of some client is in initTM
  next,       \* recoverInDoubtTransactions: entries of shm dealt with
  ckpt,       \* the checkpointer's local state
  delivered,  \* gids that every segment has committed
  restarts, checkpoints

sessionVars == <<state, inCommit>>
walVars == <<wal, flushed, control>>
recVars == <<shm, started, recovering, next>>
bounds == <<restarts, checkpoints>>
vars == <<sessionVars, walVars, recVars, server, ckpt, delivered, bounds>>

DtxState ==
  {"NONE", "PREPARED", "INSERTING_COMMITTED", "INSERTED_COMMITTED",
   "NOTIFYING_COMMIT_PREPARED", "RETRY_COMMIT_PREPARED",
   "INSERTING_FORGET_COMMITTED", "INSERTED_FORGET_COMMITTED"}

Commit(g) == [type |-> "commit", gid |-> g]
Forget(g) == [type |-> "forget", gid |-> g]
Checkpoint(redo, gxacts) == [type |-> "checkpoint", redo |-> redo, gxacts |-> gxacts]

IdleCheckpointer == [at |-> "idle", redo |-> 0, vxids |-> {}, gxacts |-> <<>>]

Init ==
  /\ state = [g \in Gxacts |-> "PREPARED"]
  /\ inCommit = {}
  /\ wal = <<Checkpoint(1, <<>>)>> /\ flushed = 1 /\ control = 1
  /\ shm = <<>> /\ started = TRUE /\ recovering = FALSE /\ next = 0
  /\ server = "up"
  /\ ckpt = IdleCheckpointer
  /\ delivered = {}
  /\ restarts = 0 /\ checkpoints = 0

(* The gids with a record of the type in log w. *)
Logged(w, type) == {g \in Gxacts : \E i \in DOMAIN w : w[i].type = type /\ w[i].gid = g}

(* XLogInsert *)
Insert(record) == wal' = Append(wal, record)

(* XLogFlush promises no more than the records up to n. *)
FlushTo(n) == flushed' = IF flushed < n THEN n ELSE flushed

SetState(g, st) == state' = [state EXCEPT ![g] = st]

-----------------------------------------------------------------------------
(* A committing session: RecordTransactionCommit, then doNotifyingCommitPrepared. *)

(* MyProc->inCommit = true and insertingDistributedCommitted *)
EnterCommit(g) ==
  /\ server = "up" /\ started
  /\ state[g] = "PREPARED"
  /\ SetState(g, "INSERTING_COMMITTED")
  /\ inCommit' = inCommit \cup {g}
  /\ UNCHANGED <<walVars, recVars, server, ckpt, delivered, bounds>>

InsertCommit(g) ==
  /\ state[g] = "INSERTING_COMMITTED"
  /\ g \notin Logged(wal, "commit")
  /\ Insert(Commit(g))
  /\ UNCHANGED <<sessionVars, flushed, control, recVars, server, ckpt, delivered, bounds>>

InsertedDistributedCommitted(g) ==
  /\ state[g] = "INSERTING_COMMITTED"
  /\ g \in Logged(wal, "commit")
  /\ SetState(g, "INSERTED_COMMITTED")
  /\ UNCHANGED <<inCommit, walVars, recVars, server, ckpt, delivered, bounds>>

(* Mutant of LeaveCommit: the flag stays set. *)
StaysInCommit(g) ==
  /\ state[g] = "INSERTED_COMMITTED" /\ g \in inCommit
  /\ FlushTo(CHOOSE i \in DOMAIN wal : wal[i] = Commit(g))
  /\ UNCHANGED <<sessionVars, wal, control, recVars, server, ckpt, delivered, bounds>>

(* XLogFlush of the commit record, MyProc->inCommit = false *)
LeaveCommit(g) ==
  /\ state[g] = "INSERTED_COMMITTED" /\ g \in inCommit
  /\ FlushTo(CHOOSE i \in DOMAIN wal : wal[i] = Commit(g))
  /\ inCommit' = inCommit \ {g}
  /\ UNCHANGED <<state, wal, control, recVars, server, ckpt, delivered, bounds>>

Notify(g) ==
  /\ state[g] = "INSERTED_COMMITTED" /\ g \notin inCommit
  /\ SetState(g, "NOTIFYING_COMMIT_PREPARED")
  /\ UNCHANGED <<inCommit, walVars, recVars, server, ckpt, delivered, bounds>>

NotifyFails(g) ==
  /\ state[g] = "NOTIFYING_COMMIT_PREPARED"
  /\ SetState(g, "RETRY_COMMIT_PREPARED")
  /\ UNCHANGED <<inCommit, walVars, recVars, server, ckpt, delivered, bounds>>

(* The broadcast succeeds; doInsertForgetCommitted begins. *)
Notified(g) ==
  /\ state[g] \in {"NOTIFYING_COMMIT_PREPARED", "RETRY_COMMIT_PREPARED"}
  /\ SetState(g, "INSERTING_FORGET_COMMITTED")
  /\ delivered' = delivered \cup {g}
  /\ UNCHANGED <<inCommit, walVars, recVars, server, ckpt, bounds>>

(* RecordDistributedForgetCommitted: no flush *)
InsertForget(g) ==
  /\ state[g] = "INSERTING_FORGET_COMMITTED"
  /\ g \notin Logged(wal, "forget")
  /\ Insert(Forget(g))
  /\ UNCHANGED <<sessionVars, flushed, control, recVars, server, ckpt, delivered, bounds>>

InsertedForget(g) ==
  /\ state[g] = "INSERTING_FORGET_COMMITTED"
  /\ g \in Logged(wal, "forget")
  /\ SetState(g, "INSERTED_FORGET_COMMITTED")
  /\ UNCHANGED <<inCommit, walVars, recVars, server, ckpt, delivered, bounds>>

ClearTransactionState(g) ==
  /\ state[g] = "INSERTED_FORGET_COMMITTED"
  /\ SetState(g, "NONE")
  /\ UNCHANGED <<inCommit, walVars, recVars, server, ckpt, delivered, bounds>>

-----------------------------------------------------------------------------
(* The checkpointer: CreateCheckPoint and getDtxCheckPointInfo. *)

IncludeInCheckpointIsNeeded(g) ==
  state[g] \in {"INSERTED_COMMITTED", "NOTIFYING_COMMIT_PREPARED",
                "INSERTING_FORGET_COMMITTED", "RETRY_COMMIT_PREPARED"}

(* Mutant of CopyCommitted: what redo has found is left out. *)
CopyNothing(array) == <<>>

(* The copy of shmCommittedGxactArray into the checkpoint: the loop advances i
   twice a turn, in its header and in its body. *)
CopyCommitted(array) ==
  [j \in 1..(Len(array) + 1) \div 2 |-> array[2 * j - 1]]

(* Compute the REDO pointer: the position of the next record.  A checkpoint that
   CreateCheckPoint skips, nothing having been logged since the last one, is
   made here all the same; it repeats the last one. *)
StartCheckpoint ==
  /\ \/ server = "up" /\ checkpoints < MaxCheckpoints /\ checkpoints' = checkpoints + 1
     \/ server = "redone" /\ UNCHANGED checkpoints
  /\ ckpt.at = "idle"
  /\ ckpt' = [ckpt EXCEPT !.at = "vxids", !.redo = Len(wal) + 1]
  /\ UNCHANGED <<sessionVars, walVars, recVars, server, delivered, restarts>>

(* GetVirtualXIDsDelayingChkpt *)
ReadDelaying ==
  /\ ckpt.at = "vxids"
  /\ ckpt' = [ckpt EXCEPT !.at = "wait", !.vxids = inCommit]
  /\ UNCHANGED <<sessionVars, walVars, recVars, server, delivered, bounds>>

(* Mutant of CopyFound: no wait for the commits in progress. *)
CopyAtOnce ==
  /\ ckpt.at = "wait"
  /\ ckpt' = [ckpt EXCEPT !.at = "gxacts", !.gxacts = CopyCommitted(shm)]
  /\ UNCHANGED <<sessionVars, walVars, recVars, server, delivered, bounds>>

(* Once HaveVirtualXIDsDelayingChkpt is false, copy what redo had found. *)
CopyFound ==
  /\ ckpt.at = "wait"
  /\ ckpt.vxids \cap inCommit = {}
  /\ ckpt' = [ckpt EXCEPT !.at = "gxacts", !.gxacts = CopyCommitted(shm)]
  /\ UNCHANGED <<sessionVars, walVars, recVars, server, delivered, bounds>>

(* Add the running transactions, in the order of the proc array. *)
CopyRunning ==
  /\ ckpt.at = "gxacts"
  /\ \E running \in SetToSeqs({g \in Gxacts : IncludeInCheckpointIsNeeded(g)}) :
       ckpt' = [ckpt EXCEPT !.at = "insert", !.gxacts = @ \o running]
  /\ UNCHANGED <<sessionVars, walVars, recVars, server, delivered, bounds>>

InsertCheckpoint ==
  /\ ckpt.at = "insert"
  /\ Insert(Checkpoint(ckpt.redo, ckpt.gxacts))
  /\ ckpt' = [ckpt EXCEPT !.at = "flush"]
  /\ UNCHANGED <<sessionVars, flushed, control, recVars, server, delivered, bounds>>

(* Mutant of FinishCheckpoint: the control file is updated without the flush. *)
FinishUnflushed ==
  LET n == CHOOSE i \in DOMAIN wal :
             /\ wal[i].type = "checkpoint"
             /\ \A j \in DOMAIN wal : wal[j].type = "checkpoint" => j <= i
  IN  /\ ckpt.at = "flush"
      /\ control' = n
      /\ ckpt' = IdleCheckpointer
      /\ server' = "up"
      /\ UNCHANGED <<sessionVars, wal, flushed, recVars, delivered, bounds>>

(* XLogFlush, UpdateControlFile; recovery ends with such a checkpoint. *)
FinishCheckpoint ==
  LET n == CHOOSE i \in DOMAIN wal :
             /\ wal[i].type = "checkpoint"
             /\ \A j \in DOMAIN wal : wal[j].type = "checkpoint" => j <= i
  IN  /\ ckpt.at = "flush"
      /\ FlushTo(n)
      /\ control' = n
      /\ ckpt' = IdleCheckpointer
      /\ server' = "up"
      /\ UNCHANGED <<sessionVars, wal, recVars, delivered, bounds>>

-----------------------------------------------------------------------------
(* Restart, redo and recoverInDoubtTransactions. *)

(* Mutant of RedoCommit: a gid that is already there is added again. *)
RedoAgain(array, g) == Append(array, g)

(* redoDistributedCommitRecord *)
RedoCommit(array, g) == IF g \in Range(array) THEN array ELSE Append(array, g)

(* redoDistributedForgetCommitRecord: the last entry takes the place of g's. *)
RedoForget(array, g) ==
  IF g \notin Range(array) THEN array
  ELSE LET i == CHOOSE k \in DOMAIN array : array[k] = g
       IN  [k \in 1..Len(array) - 1 |-> IF k = i THEN array[Len(array)] ELSE array[k]]

(* xact_redo; on the master, checkpoint records met on the way change nothing. *)
RedoRecord(array, record) ==
  CASE record.type = "commit" -> RedoCommit(array, record.gid)
    [] record.type = "forget" -> RedoForget(array, record.gid)
    [] OTHER -> array

(* redoDtxCheckPoint of checkpoint c of log w, then the replay of w from its REDO. *)
RedoFrom(w, c) ==
  FoldLeft(RedoRecord, FoldLeft(RedoCommit, <<>>, w[c].gxacts),
           SubSeq(w, w[c].redo, Len(w)))

(* The shared memory of the master is gone. *)
MasterDown ==
  /\ restarts < MaxRestarts /\ restarts' = restarts + 1
  /\ state' = [g \in Gxacts |-> IF state[g] = "PREPARED" THEN "PREPARED" ELSE "NONE"]
  /\ inCommit' = {}
  /\ shm' = <<>> /\ started' = FALSE /\ recovering' = FALSE /\ next' = 0
  /\ ckpt' = IdleCheckpointer

(* Of the records that were not flushed, some first part may survive. *)
Crash ==
  /\ server \in {"up", "redone"} /\ server' = "crashed"
  /\ MasterDown
  /\ \E n \in flushed..Len(wal) : wal' = SubSeq(wal, 1, n) /\ flushed' = n
  /\ UNCHANGED <<control, delivered, checkpoints>>

(* An orderly shutdown, with its checkpoint; DTM recovery need not have run. *)
Shutdown ==
  /\ server = "up" /\ server' = "shut"
  /\ ckpt.at = "idle"
  /\ \A g \in Gxacts : state[g] \in {"PREPARED", "NONE"}
  /\ Insert(Checkpoint(Len(wal) + 1, CopyCommitted(shm)))
  /\ flushed' = Len(wal) + 1 /\ control' = Len(wal) + 1
  /\ MasterDown
  /\ UNCHANGED <<delivered, checkpoints>>

Redo ==
  /\ server \in {"crashed", "shut"}
  /\ shm' = RedoFrom(wal, control)
  /\ server' = IF server = "shut" THEN "up" ELSE "redone"
  /\ UNCHANGED <<sessionVars, walVars, started, recovering, next, ckpt, delivered, bounds>>

(* A client connects: cdb_setup of its QD finds recovery to be done. *)
InitTM ==
  /\ server = "up" /\ ~started
  /\ ~recovering /\ recovering' = TRUE
  /\ UNCHANGED <<sessionVars, walVars, shm, started, next, server, ckpt, delivered, bounds>>

Recovering == server = "up" /\ recovering

(* doNotifyCommittedInDoubt *)
NotifyInDoubt ==
  /\ Recovering /\ next < Len(shm)
  /\ shm[next + 1] \notin delivered
  /\ delivered' = delivered \cup {shm[next + 1]}
  /\ UNCHANGED <<sessionVars, walVars, recVars, server, ckpt, bounds>>

(* RecordDistributedForgetCommitted of that gid *)
ForgetInDoubt ==
  /\ Recovering /\ next < Len(shm)
  /\ shm[next + 1] \in delivered
  /\ Insert(Forget(shm[next + 1]))
  /\ next' = next + 1
  /\ UNCHANGED <<sessionVars, flushed, control, shm, started, recovering, server, ckpt,
                 delivered, bounds>>

(* shmNumCommittedGxacts = 0 *)
ForgetArray ==
  /\ Recovering /\ next = Len(shm) /\ shm # <<>>
  /\ shm' = <<>> /\ next' = 0
  /\ UNCHANGED <<sessionVars, walVars, started, recovering, server, ckpt, delivered, bounds>>

(* Mutant of DtmStarted: the committed transactions need not be dealt with. *)
StartedEarly ==
  /\ Recovering
  /\ started' = TRUE /\ recovering' = FALSE
  /\ UNCHANGED <<sessionVars, walVars, shm, next, server, ckpt, delivered, bounds>>

(* What the segments still hold has been aborted: shmDtmStarted = true. *)
DtmStarted ==
  /\ Recovering /\ shm = <<>>
  /\ started' = TRUE /\ recovering' = FALSE
  /\ UNCHANGED <<sessionVars, walVars, shm, next, server, ckpt, delivered, bounds>>

(* A recovery attempt fails on a later gid, or on the segments; initTM makes a second
   one, or its QD exits. *)
RecoveryFails ==
  /\ Recovering
  /\ restarts < MaxRestarts /\ restarts' = restarts + 1
  /\ next' = 0 /\ recovering' \in BOOLEAN
  /\ UNCHANGED <<sessionVars, walVars, shm, started, server, ckpt, delivered, checkpoints>>

-----------------------------------------------------------------------------

Session(g) ==
  \/ InsertCommit(g) \/ InsertedDistributedCommitted(g) \/ LeaveCommit(g)
  \/ Notify(g) \/ Notified(g) \/ InsertForget(g) \/ InsertedForget(g)
  \/ ClearTransactionState(g)

Checkpointer == ReadDelaying \/ CopyFound \/ CopyRunning \/ InsertCheckpoint \/ FinishCheckpoint

Recovery == Redo \/ NotifyInDoubt \/ ForgetInDoubt \/ ForgetArray \/ DtmStarted

Next ==
  \/ \E g \in Gxacts : EnterCommit(g) \/ NotifyFails(g) \/ Session(g)
  \/ StartCheckpoint \/ Checkpointer
  \/ InitTM \/ Recovery \/ Crash \/ Shutdown \/ RecoveryFails

(* Every process that is not blocked keeps running; the checkpoint that ends recovery is
   made.  No client has to connect. *)
Spec ==
  /\ Init /\ [][Next]_vars
  /\ \A g \in Gxacts : WF_vars(Session(g))
  /\ WF_vars(Checkpointer) /\ WF_vars(Recovery)
  /\ WF_vars(server = "redone" /\ StartCheckpoint)

-----------------------------------------------------------------------------

(* Every variable keeps its type. *)
TypeOK ==
  /\ state \in [Gxacts -> DtxState]
  /\ inCommit \subseteq Gxacts /\ delivered \subseteq Gxacts
  /\ \A i \in DOMAIN wal : wal[i].type \in {"commit", "forget", "checkpoint"}
  /\ flushed \in 1..Len(wal)
  /\ control \in 1..flushed /\ wal[control].type = "checkpoint"
  /\ Range(shm) \subseteq Gxacts
  /\ started \in BOOLEAN /\ recovering \in BOOLEAN
  /\ next \in 0..Len(shm)
  /\ server \in {"up", "crashed", "shut", "redone"}
  /\ ckpt.at \in {"idle", "vxids", "wait", "gxacts", "insert", "flush"}
  /\ ckpt.redo \in 0..Len(wal) + 1 /\ ckpt.vxids \subseteq Gxacts
  /\ Range(ckpt.gxacts) \subseteq Gxacts

(* The array holds, once each, commits of log w, and all those that log w has
   not forgotten. *)
Finds(w, array) ==
  /\ Logged(w, "commit") \ Logged(w, "forget") \subseteq Range(array)
  /\ Range(array) \subseteq Logged(w, "commit")
  /\ IsInjective(array)

(* After redo shmCommittedGxactArray names, once each, only committed
   transactions, and every one without a forget record: the bounds that Dtm's
   Redo assumes, for every log a crash can leave behind and whatever checkpoint
   recovery starts from. *)
RedoFindsCommits == server = "redone" => Finds(wal, shm)

(* At every moment, also in the middle of a commit or of a checkpoint, a crash now would
   find them: no checkpoint of a running master moves the REDO pointer past a commit
   record that it does not carry itself. *)
CrashSafe ==
  \A n \in flushed..Len(wal) :
    LET w == SubSeq(wal, 1, n) IN Finds(w, RedoFrom(w, control))

(* A checkpoint made after a restart has left out the commit of g and carries another: the
   copy of shmCommittedGxactArray never drops its first entry. *)
Skipped(w, g) ==
  /\ restarts > 0
  /\ \E i \in DOMAIN w :
       /\ w[i].type = "checkpoint"
       /\ w[i].gxacts # <<>> /\ g \notin Range(w[i].gxacts)
       /\ \E k \in 1..w[i].redo - 1 : w[k] = Commit(g)

(* How far CrashSafe goes with several restarts, in the middle of a recovery too: redo
   brings back committed transactions only, once each, and misses one only if a
   checkpoint has skipped it. *)
LostOnlyIfSkipped ==
  \A n \in flushed..Len(wal) :
    LET w == SubSeq(wal, 1, n)
        array == RedoFrom(w, control)
    IN  /\ Range(array) \subseteq Logged(w, "commit") /\ IsInjective(array)
        /\ \A g \in Logged(w, "commit") \ Logged(w, "forget") :
             g \in Range(array) \/ Skipped(w, g)

(* The master never admits new transactions while the log holds a commit that
   no session and no recovery will deliver. *)
StartedAfterDelivery ==
  started => \A g \in Logged(wal, "commit") : state[g] = "NONE" => g \in delivered

(* CreateCheckPoint waits for the commits it met, not for those that begin later:
   it ends however many sessions keep committing. *)
CheckpointEnds == ckpt.at # "idle" ~> ckpt.at = "idle"

(* The environment: as long as recovery is to be done, some client connects in the end. *)
ClientsConnect == []<>(server # "up" \/ started \/ recovering)

(* A commit record on disk is delivered to the segments, by its session or by the recovery
   that clients bring about after a crash, unless a checkpoint has skipped it. *)
CommitReachesSegments ==
  ClientsConnect =>
    \A g \in Gxacts :
      (\E i \in 1..flushed : wal[i] = Commit(g)) ~> (g \in delivered \/ Skipped(wal, g))
=============================================================================
