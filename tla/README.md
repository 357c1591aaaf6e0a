# Greenplum: distributed commit in TLA+

A verification development for the server in `src/`. It models how Greenplum
makes a distributed transaction atomic, checks the models with TLC on small
instances, and proves the central safety properties with TLAPS for every number
of segments, transactions, retries and faults.

Paths below are relative to `src/src/backend/` unless they say otherwise.

## 1. The system

A cluster has a *master* and *segments*. A client talks to a backend of the
master, the query dispatcher (QD). A QD runs a statement through *gangs*: one
backend, a query executor (QE), on each segment. A transaction that writes on
segments is *distributed*: it has a gid, and it ends with two-phase commit. Each
segment prepares its local transaction; the master writes a distributed-commit
record to its own WAL; the QD tells the segments to commit and writes a forget
record. After a restart of the master, the QD of the first client that connects runs
*DTM recovery*.

### Inventory

| Part | State | Operations | What makes it hard |
|---|---|---|---|
| DTM (`cdb/cdbtm.c`) | `DtxState` of each gxact, gang of the session, `shmCommittedGxactArray`, `shmDtmStarted` | `doPrepareTransaction`, `doNotifyingCommitPrepared`, `doNotifyingAbort`, `retryAbortPrepared`, `rollbackDtxTransaction`, `recoverTM` | partial failure, retries that overlap with what they retry, PANIC, repeated recovery |
| QE side of DTX commands (`cdbtm.c: performDtxProtocolCommand`) | `DtxContext` of the QE, its local transaction | one per `DtxProtocolCommand` | commands in unexpected contexts, commands that run after the QD has gone |
| Master's commit log (`access/transam/xact.c`, `xlog.c`, `storage/ipc/procarray.c`) | commit, forget and checkpoint records; `inCommit` | `RecordTransactionCommit`, `RecordDistributedForgetCommitted`, `CreateCheckPoint`, redo | a checkpoint that runs through a commit, crash between insert and flush, two crashes in a row |
| Prepared transactions (`access/transam/twophase.c`) | GXACT table, `locking_backend`, `valid` | `MarkAsPreparing`, `EndPrepare`, `LockGXact`, `FinishPreparedTransaction`, `AtAbort_Twophase`, `RecoverPreparedTransactions` | two backends on one gid, errors half way, bounded table, crash |
| Gangs and dispatch (`cdb/dispatcher/`) | connections of a session | `AllocateWriterGang`, `DisconnectAndDestroyAllGangs`, `checkDispatchResult` | lost connections, an exception before or after the send |
| Distributed snapshots (`cdb/cdbdistributedsnapshot.c`, `access/transam/distributedlog.c`) | in-progress gxids, distributed log, oldest xmin | `CreateDistributedSnapshot`, `..._CommittedTest`, `DistributedLog_AdvanceOldestXmin` | a commit that is visible on one segment and not on another; truncation of the log while it is read |
| FTS (`fts/`) | state of each probe, `gp_segment_configuration` | `nextSuccessState`, `nextFailedState`, `processRetry`, `processResponse`, `updateConfiguration` | retries and timeouts, double faults, promotion of a mirror that is not in sync |
| Synchronous replication (`replication/syncrep.c`) | wait queue ordered by LSN | `SyncRepWaitForLSN`, `SyncRepReleaseWaiters`, `SyncRepCancelWait` | lost wake-ups, cancellation against release, switching it off with waiters |
| Global deadlock detector (`utils/gdd/`) | global wait-for graph of solid and dotted edges | `GddCtxReduce`, `GddCtxBreakDeadLock` | a stale graph, reduction order, choice of the victim |
| Resource groups (`utils/resgroup/`), resource queues (`utils/resscheduler/`) | slots, memory quotas, wait queues | `groupAcquireSlot`, `UnassignResGroup`, `ResGroupAlterOnCommit`; `ResLockAcquire`, `ResLockRelease` | lost wake-ups, limits lowered below use, drop against use |
| UDP interconnect (`cdb/motion/ic_udpifc.c`) | per connection: sequence numbers, unacked ring, receive queue | `sendBuffers`, `handleDataPacket`, `handleAcks`, `checkExpiration`, `doSendStopMessageUDPIFC` | loss, duplication, reordering, capacity, early stop, deadlock check |
| Append-only writers (`access/appendonly/appendonlywriter.c`) | state of each segment file | `SetSegnoForWrite`, `AtEOXact_AppendOnly` | two writers on one file, compaction against insert |
| Shared snapshot (`utils/time/sharedsnapshot.c`) | slot of a session | `SharedSnapshotAdd`, `SharedSnapshotLookup`, `readSharedLocalSnapshot_forCursor` | reader that runs ahead of its writer |
| Lock manager, buffer manager, storage, WAL proper | | | PostgreSQL code, used here only through what the modelled code calls |
| TCP interconnect, sequence server, parser, optimizer, executor, utilities | | | I/O or sequential transformation of large data |

The first five parts depend on each other. They are the core that this stage
models; the rest is the plan in section 7. `PROJECT.json` lists all parts with
their sources, and the hazards of the modelled ones at their lines.

### Correctness properties looked for

* **DTM**: atomicity; a segment commits only what the master's log can prove; the
  client's answer is true; recovery ends and leaves nothing undelivered; phase 2
  always ends.
* **Commit log**: for every crash point, redo finds exactly the commits it must.
* **Prepared transactions**: a vote is kept, a gid is finished once, no table slot
  and no lock is lost.
* **Planned parts**: snapshots agree on all segments; FTS never promotes a mirror out of
  sync and never loses both; waiters are woken; deadlocks, and only deadlocks, are
  broken; a motion delivers each chunk once and in order.

## 2. Modules

| Module | What it is |
|---|---|
| `DistCommit` | abstract specification: one outcome per transaction, decided once, obeyed by every segment |
| `Dtm` | QDs, QEs, lost connections, crashes and DTM recovery |
| `DtmInvariant` | inductive invariant of `Dtm` and the refinement mapping to `DistCommit` |
| `DtmTypeProofs`, `DtmMasterProofs`, `DtmSegmentProofs`, `DtmProofs` | TLAPS proofs about `Dtm` |
| `DtmLog` | master's log of distributed commits: sessions, checkpointer, crash, redo, recovery |
| `SegTwoPhase` | prepared transactions of one segment: table, locks, log, crash, replay |
| `SegInvariant` | inductive invariant of `SegTwoPhase` |
| `SegTableProofs`, `SegRestartProofs`, `SegProofs` | TLAPS proofs about `SegTwoPhase` |
| `MCDtm`, `MCDtmLog`, `MCSegTwoPhase` | symmetry sets for TLC |

The three detailed modules cut the system at two seams. What is one step in `Dtm` is
several in the others:

* `Dtm.Redo` chooses any set of commits between "durable and not forgotten" and
  "durable". `DtmLog.RedoFindsCommits` is that bound, checked where the log is modelled
  record by record.
* A QE's `PREPARE`, `COMMIT` or `ABORT` of a local transaction is one step in `Dtm`, and
  `Dtm.SegmentRestart` keeps what is prepared. `SegTwoPhase.PreparedHeld`,
  `CommitAnswerIsDurable`, `FinishOnce` and `NothingFinishedIsReloaded` are what makes
  that right; `LostOnlyToCheckpoint` and `NotFoundOnlyIfLost` say how far the first two go.

Section 5 lists two cases in which the code breaks these bounds. The results about
`Dtm` are conditional on them: they say what the protocol guarantees when log recovery
does what its comments say.

### `Dtm` and the code

A gid names its QD session too; `Rec` is the session that runs `recoverTM`. `state` is
`gxact->state`; `cmd` and `reply` are a broadcast in progress and what the dispatcher
knows of its answers; `qe` is the `DtxContext` of each QE of the session's writer gang.
`late` holds the commands that are still running in QEs whose QD has let go of them.
`inserted`, `durable` and `forgot` abstract the master's log; `known`, `todo`, `doubt`,
`firstTry` and `dtm` are DTM recovery.

* *QE side.* `QEOp` is the switch of `performDtxProtocolCommand` over command and
  context, `After` and `ContextAfter` its effects, `Insists` the argument
  `raiseErrorIfNotFound`. `QEPerform` is the handler as a whole, with its answer.
* *Broadcast.* `Send` … `EndCall` are `doDispatchDtxProtocolCommand`. An answer is `ok`,
  `error`, `lost`, or `thrown` when `AllocateWriterGang` raises an error.
* *Commit.* `Prepare`, `Prepared`, `InsertingDistributedCommitted`,
  `InsertedDistributedCommitted`, `FlushCommit`, `NotifyCommitPrepared`, then
  `CommitNotified` or `CommitNotifyFailed` and `RetryCommitPrepared`, then `Committed`.
* *Rollback.* `RollbackActive`, `AbortSomePrepared`, `PrepareBadGangs`,
  `RollbackPrepared`, `AbortBroadcastEnds`, `RetryAbortPrepared`, `Aborted`;
  `SessionExit` is a QD that, before any PREPARE, exits or fails again while it aborts, and
  only destroys its gangs.
* *Giving up.* `Panic` after the last retry takes the master down. So does `SessionFatal`: in
  the states from PREPARE to the end of phase 2 (`FatalIsPanic`), `errstart` of
  `utils/error/elog.c` turns the FATAL of a QD into a PANIC. That includes the FATAL that
  `rollbackDtxTransaction` raises when it cannot finish an abort of prepared transactions.
* *Recovery.* `Redo` leaves recovery due. `InitTM` is a step of a client: `cdb_setup`
  (`cdb/cdbutil.c:525`) of the QD that serves it calls `initTM`. Then the loops of `recoverInDoubtTransactions`, the gather and abort
  of in-doubt transactions, the double check, and `DtmStarted`. `RecoveryFails` is the
  second try of `initTM` and the FATAL after it, which leaves recovery due for the QD of
  another client.
* *Faults* (at most `MaxFaults`): `QEError`, `Disconnect`, `SegmentRestart`,
  `DispatchThrows`, `LateDie`, `SessionExit`, `SessionFatal`, `MasterCrash`.

A gang is destroyed without waiting for its QEs. So a QE may perform its command after
its QD has gone on: `Detached` moves such commands to `late`, and `LateRun` performs
them at any later time.

### `DtmLog` and the code

`wal` is a sequence of commit, forget and checkpoint records; `flushed` is what
`XLogFlush` has guaranteed. A session's steps follow `RecordTransactionCommit`:
`EnterCommit` (`inCommit`), `InsertCommit`, `InsertedDistributedCommitted`,
`LeaveCommit` (flush), and then phase 2 up to the forget record. The checkpointer's
steps are separate because sessions run in between: `StartCheckpoint` (REDO pointer),
`ReadDelaying`, `CopyFound` (after the wait), `CopyRunning`, `InsertCheckpoint`,
`FinishCheckpoint`. `Crash` keeps any prefix of the log that contains `flushed`.
`RedoFrom` is `redoDtxCheckPoint` and the replay; the array is a sequence because the
code's copying and removal depend on positions. Redo ends with a checkpoint; `InitTM`, again
a client's step, starts DTM recovery afterwards.

### `SegTwoPhase` and the code

`table` is the GXACT table, `at` and `work` say where a backend is in
`PrepareTransaction` or `FinishPreparedTransaction`. Steps inside a critical section
have no `AtAbort`, since an error there is a PANIC. The master is reduced to a verdict
that is commit only after the vote. `Chained` is the list of prepared transactions that
really gets into a checkpoint record. `StartRedo` reads the checkpoint that the control file
names; `Redo` replays one record; at the end of the log comes a checkpoint, and only then
`RecoverPreparedTransactions` reloads the table, in the order of `StartupXLOG`.

## 3. Runs

Every run finishes; none uses a state constraint. Deadlock checking is off because a
cluster in which every transaction has ended, or whose bound on restarts is used up,
may stop.

| Run | Instance | Shows |
|---|---|---|
| `dtm_safety` | 1 transaction, 3 segments, 3 faults, 1 retry | types, `Atomicity`, `CommitNeedsDurableRecord`, `CommittedEverywhere`, `ForgetSafe`, `AbortedNotLogged`, `NoUndeliveredCommit` |
| `dtm_concurrent` | 2 transactions, 2 segments, 2 faults, `dtx_phase2_retry_count` 0 | the inductive invariant `Inv` |
| `dtm_refinement` | 1 transaction, 2 segments, 4 faults | `ImplementsDistCommit`, `NoVoteAfterCommit` |
| `dtm_liveness` | 1 transaction, 2 segments, 3 faults | `CommitDelivered`, `RecoveryCompletes`, `PhaseTwoEnds` |
| `dtm_orphan` | as above | a comment's claim is violated (section 5) |
| `dtmlog_checkpoint` | 2 sessions, 2 checkpoints | types, `CrashSafe` |
| `dtmlog_crash` | 2 sessions, 1 checkpoint, 1 restart | `RedoFindsCommits`, `StartedAfterDelivery`, `CheckpointEnds` |
| `dtmlog_recovery` | 2 sessions, 1 checkpoint, 2 restarts | `LostOnlyIfSkipped`, `CommitReachesSegments` |
| `dtmlog_lost` | 2 sessions, 2 restarts | a comment's claim is violated |
| `seg_table` | 2 backends, 2 transactions, table of 1, 1 checkpoint, 1 crash | types, `FinishOnce`, `UnlockedCanFinish`, `NothingFinishedIsReloaded`, `TableFits`, `LostOnlyToCheckpoint`, `NotFoundOnlyIfLost`, the inductive invariant `SegInv` |
| `seg_crash` | table of 2, no checkpoint while up, 1 crash | `PreparedHeld`, `CommitAnswerIsDurable`, `EntryIsReleased` |
| `seg_lost` | 1 transaction, 1 checkpoint, 1 crash | a comment's claim is violated |

### Bounds

* *Segments.* Two segments show every disagreement; the third in `dtm_safety` adds
  "one committed, one lost, one late". A direct dispatch leaves segments out.
* *Transactions.* They interact only through the flush, `shmCommittedGxactArray` and
  recovery, so two are enough; positions in the array need two as well.
* *Faults.* Three faults reach a lost connection, then a failing retry, then a crash of
  the master or of a recovery. One retry is enough to reach success on a retry, and
  PANIC. `dtm_concurrent` runs without a retry, the boundary of the loop's counter.
* *Restarts and checkpoints.* Two restarts reach a crash before recovery has finished. In
  `DtmLog` the bound on restarts counts failed recovery attempts too.
* *Table of one slot, two transactions.* The limit is reached at once.

`CrashSafe` asks, in each state, about each log a crash could leave. It therefore covers
crashes that `MaxRestarts` would not allow. It is checked of a master that has not been
restarted: with two sessions, a restart and the crash that `CrashSafe` asks about, finding 1
breaks it. What holds across restarts is `LostOnlyIfSkipped`: redo brings back committed
transactions only, each once, and misses one only if a checkpoint after a restart has left it
out and carries another. `LostOnlyToCheckpoint` and `NotFoundOnlyIfLost` bound finding 2 in
the same way.

### Fairness

`Dtm` has weak fairness of `Progress`: some step that the system takes by itself is
eventually taken. The steps are those of QDs, QEs, detached QEs, redo and a recovery attempt
that has begun. Clients (`Request`, with `InitTM`) and faults (`Fault`) have none. This asks for no more than that the
operating system runs processes and that a postmaster restarts after a PANIC. Faults are
finite in number: with infinitely many, recovery need not end.

No process of the server starts DTM recovery by itself, and after a FATAL of `initTM` it
waits for the next client. `CommitDelivered`, `RecoveryCompletes` and
`CommitReachesSegments` are therefore implications from `ClientsConnect`: recovery is not
due for ever without a client whose QD begins it. `crash_recovery_dtm.sql` of the
repository's isolation tests does the same when it connects after the PANIC.
`PhaseTwoEnds` needs no client. `DtmLog` and `SegTwoPhase` have weak fairness of each session or backend, of the checkpointer (a
process of its own that polls) and of start-up.

## 4. Proofs

### `Dtm`

The constants are arbitrary: `Segs` is a nonempty set, `Gxacts` a set without `Rec`,
`RetryCount` and `MaxFaults` are natural numbers. These four facts are the named
assumptions of `Dtm`.

| Theorem | States |
|---|---|
| `TypeCorrect` | `Spec => []TypeOK` |
| `Invariance` | `Spec => []Inv` |
| `AtomicCommitment` | `Spec => []Atomicity` |
| `CommitAfterRecord` | `Spec => []CommitNeedsDurableRecord` |
| `CommitReply` | `Spec => []CommittedEverywhere` |
| `ForgetIsSafe` | `Spec => []ForgetSafe` |
| `AbortReply` | `Spec => []AbortedNotLogged` |
| `StartedMeansDelivered` | `Spec => []NoUndeliveredCommit` |
| `NoLateVote` | `Spec => NoVoteAfterCommit` |
| `Refinement` | `Spec => ImplementsDistCommit` |

**Argument.** `Atomicity` is not inductive. Nothing in it says that a commit command is
sent only when all have voted, or that a detached `PREPARE` or `ABORT` cannot run after
the decision. `Inv` adds what is missing, in four groups:

* `SessionInv(g)`: what a QD waits for in each state, and what its state says of the
  log. A state from `INSERTED_COMMITTED` on implies a commit record, phase 2 a flushed
  one, the forget record a commit on all participants.
* `SegmentInv(g, s)`: what the session's state implies for the segment. Once voted it is
  prepared on every participant; with a record it is not aborted anywhere; a durable
  commit without a session that is still prepared somewhere is on recovery's list.
* `LateInv(w)`: a detached commit has a durable record. Every other detached command
  belongs to a transaction without a record that can no longer get one: its session has
  gone, is rolling back, or has lost that QE and cannot get its vote.
* `RecoveryInv`: recovery broadcasts commits of durable records only, and aborts only
  transactions that have no record and no session.

The group on late QEs is the heart: it is why a retried broadcast may overlap with the
one it retries.

**Layout.** `DtmTypeProofs` has the types and one lemma for each operator and each step
that touches local transactions. `DtmMasterProofs` shows that each step preserves the
groups of sessions and recovery, `DtmSegmentProofs` those of segments and late QEs, with one
case for each action. `DtmProofs` finishes the segments and puts the groups together and derives the theorems. For the refinement, a
transaction is decided by its durable commit record, or by the first segment that aborts
it; `LocalMoves` and `DurableMoves` bound what one step can do to either, and
`DecideStep` and `ProceedStep` map that to `DistCommit`.

### `SegTwoPhase`

`Xacts` is a nonempty finite set, `Backends` a finite set, `MaxPrepared`, `MaxRestarts` and
`MaxCheckpoints` are natural numbers: the theorems hold for every size of the table and any
number of crashes and checkpoints.

| Theorem | States |
|---|---|
| `SegInvariance` | `Spec => []SegInv` |
| `SegTypeCorrect` | `Spec => []TypeOK` |
| `SegFinishesOnce` | `Spec => []FinishOnce` |
| `SegUnlockedCanFinish` | `Spec => []UnlockedCanFinish` |
| `SegNothingFinishedIsReloaded` | `Spec => []NothingFinishedIsReloaded` |
| `SegTableFits` | `Spec => []TableFits` |
| `SegLostOnlyToCheckpoint` | `Spec => []LostOnlyToCheckpoint` |
| `SegNotFoundOnlyIfLost` | `Spec => []NotFoundOnlyIfLost` |
| `SegPreparedHeldFromFirst` | `Spec => [](FromFirst => PreparedHeld /\ CommitAnswerIsDurable)` |

**Argument.** `SegInv` has three parts. `IInv` ties the table to the log: an entry is locked
by the one backend that works on it; at each step of that backend the log holds so much of
its transaction and no more (`Preparing`, `Finishing`, `Free`, `Fresh`); a transaction has one
PREPARE and then at most one finishing record; during the replay the map holds what the
records from REDO up to here have prepared and not finished (`Replayed`). Stating `Replayed`
for each position makes the replay inductive without reasoning about a fold. `Fits` says
that whatever a crash now would bring back is in the table now, which is why a reload cannot
overfill it. `Kept` follows a vote: it is in the table, or in the map, or its PREPARE lies
before a REDO pointer. `OneCheckpoint` counts checkpoints while none has been started by a
running segment; with it `Overtaken` is impossible, and the unconditional `PreparedHeld` and
`CommitAnswerIsDurable` follow for the runs that `FromFirst` describes. Finding 2 shows that
they do not hold beyond.

**Layout.** `SegTableProofs` has the lemmas on appending to and cutting the log and the steps
of backends, `SegRestartProofs` those of the checkpointer, of a crash and of the replay,
`SegProofs` the fate of votes and the theorems.

### Only model-checked

The liveness properties of all modules (liveness under fairness is beyond the prover), and
all of `DtmLog`. What `RedoFrom` computes needs induction over the log, which the prover
cannot do.

## 5. Findings

1. **Commits dropped by the end-of-recovery checkpoint** (`dtmlog_lost`).
   `storage/ipc/procarray.c:1653` advances `i` in the header and in the body of the loop, so
   a checkpoint copies every second entry of `shmCommittedGxactArray`. The comment at
   `access/transam/xlog.c:9034` says that all of them are stored. Two commits and two
   crashes, the second before `recoverTM`, lose one of them: recovery would then abort
   what is prepared of it.
2. **Prepared transactions missing from checkpoints** (`seg_lost`). `CreateCheckPoint`
   ends its data chain at `rdata[1]` (`access/transam/xlog.c:9144`) and attaches the list of
   prepared transactions to `rdata[4]`, which nothing points to. The comment at
   `access/transam/twophase.c:1559` says that they are attached. A checkpoint after the
   vote and a crash lose the prepared transaction. Attaching the list is not enough for
   a repair: with `Chained(prepared) == prepared`, `NothingFinishedIsReloaded` fails, since
   an entry whose commit or abort record precedes the REDO pointer can still be valid when
   the list is read; and the end-of-recovery checkpoint is made before the table is reloaded.
3. **Orphaned prepared transactions** (`dtm_orphan`). `retryAbortPrepared`
   (`cdb/cdbtm.c:885`) does not wait for the QEs of the gang it destroys, although the
   comment at line 879 counts on their transactions being aborted. A `PREPARE` that is
   still running succeeds after the retried abort has found nothing. Atomicity does not
   suffer, as the theorems show. The transaction stays prepared, with its locks, until
   the next DTM recovery gathers it as in doubt and aborts it.

## 6. Abstractions

* A gid, a segment and a backend are model values. A gid is never used again; the code
  relies on a time stamp for that.
* A session runs one transaction. After its end its gang is dropped from the model; in the
  code an idle gang is reused, in the context it had at first.
* What a segment executes between the start of a transaction and PREPARE is one step.
* Subtransactions, explicit `BEGIN` against implicit, one-segment commits without two
  phases, distributed snapshots, the utility-mode redo file, standby masters and the
  limit on `shmCommittedGxactArray` are not in `Dtm` or `DtmLog`.
* `rollbackDtxTransaction` has cases for the states from `INSERTING_COMMITTED` on, which it
  reports as "not expected here" (`cdb/cdbtm.c:1212-1222`). `Dtm` has no action for them: an error between
  the insert of the commit record and the end of the critical section is a PANIC, which
  `MasterCrash` covers, and `doNotifyingCommitPrepared` catches what the dispatcher throws.
* FTS is present as the choice in `PrepareBadGangs`: a gang may be found bad although all
  of its QEs answered.
* `SegTwoPhase` has no resource-manager callbacks, owners or log truncation. Several
  backends and one checkpointer interleave at every step that another process can see.
* Checkpoints that `CreateCheckPoint` would skip in an idle system are made in the models.

## 7. Plan

In this order; each stage adds its runs, mutants and, where said, theorems.

1. `DistSnapshot`: distributed snapshots on the master, the committed test on segments,
   the distributed log and its truncation. Abstract specification: each snapshot sees a
   transaction on all segments or on none. Composition with `Dtm`'s commit order
   (`clearTransactionState` against `CreateDistributedSnapshot`). Bounds: 2 writers,
   1 reader, 2 segments. Theorem: consistency of snapshots.
2. `FtsProbe`: one primary and mirror pair, the probe state machine with retries and
   timeouts, promotion, and syncrep off; then `SyncRep`: queue, release, cancellation, and
   the two composed. Abstract specification: a commit that was acknowledged is on whichever
   segment acts as primary. Theorem: types and the state machine's safety.
3. `Gdd`: reduction of the global wait-for graph as operators, against a definition of
   deadlock by reachability, on all graphs of 4 vertices; stale graphs as an action.
4. `ResGroup`: slots, wait queue, alter and drop, with wake-ups as liveness. Theorem:
   slots are never oversubscribed. Then resource queues in the same form.
5. `IcUdp`: one sender and one receiver with loss, duplication and reordering, capacity,
   retransmission and early stop. Abstract specification: a FIFO channel that may be
   stopped.
6. `DtmLog` with a stepwise redo, as in `SegTwoPhase`, and proofs of `CrashSafe` and
   `LostOnlyIfSkipped`; composition of `SegTwoPhase` with `Dtm` by refinement of the segment's
   step.
7. `Gang`: reader gangs, cancellation and polling of the dispatcher; append-only writers
   and the shared snapshot as small modules of their own.
