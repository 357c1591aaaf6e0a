---------------------------- MODULE SegTwoPhase ----------------------------
(***************************************************************************)
(* Prepared transactions on one segment: the table of GXACTs that backends *)
(* fill in PrepareTransaction and empty in FinishPreparedTransaction, the  *)
(* locking of its entries, the WAL records behind it, checkpoints, and the *)
(* recovery of the table after a crash.  What the master asks of the       *)
(* segment is a request here: a verdict of commit is reached only after    *)
(* the PREPARE was answered, and requests may be repeated and may overlap  *)
(* (module Dtm models the master).                                         *)
(***************************************************************************)
EXTENDS Naturals, Sequences, FiniteSets

CONSTANTS
  Backends,        \* the backends (QEs) of the segment
  Xacts,           \* the transactions; each has one gid
  NoBackend,       \* InvalidBackendId
  MaxPrepared,     \* max_prepared_transactions: the size of the table
  MaxRestarts,     \* bound on crashes
  MaxCheckpoints   \* bound on the checkpoints started while the segment is up

ASSUME NoBackendIsNone == NoBackend \notin Backends /\ "none" \notin Backends \cup {NoBackend}
ASSUME SetsFinite == Xacts # {} /\ IsFiniteSet(Xacts) /\ IsFiniteSet(Backends)
ASSUME BoundsNat == {MaxPrepared, MaxRestarts, MaxCheckpoints} \subseteq Nat

VARIABLES
  table,      \* the GXACT of each transaction in TwoPhaseState->prepXacts
  at,         \* where each backend is in PrepareTransaction or FinishPreparedTransaction
  work,       \* the transaction each backend works on (MyLockedGxact, if it has it locked)
  active,     \* the transactions that have not come to their PREPARE
  wal,        \* the segment's WAL: prepare, commit, abort and checkpoint records
  flushed,    \* records that XLogFlush has guaranteed
  control,    \* ControlFile->checkPoint, as an index into wal
  server,     \* "up", "crashed", "redo", "redone" (end-of-recovery checkpoint due), "reload"
  map,        \* crashRecoverPostCheckpointPreparedTransactions_map_ht in the startup process
  replay,     \* the record that the startup process replays next
  ckpt,       \* the checkpointer's local state
  verdict,    \* what the master has decided
  answered,   \* transactions whose PREPARE the master knows to have succeeded
  finished,   \* transactions whose COMMIT / ABORT PREPARED was answered with success
  restarts, checkpoints

backendVars == <<at, work, active>>
walVars == <<wal, flushed, control>>
startVars == <<server, map, replay>>
masterVars == <<verdict, answered, finished>>
bounds == <<restarts, checkpoints>>
vars == <<table, backendVars, walVars, startVars, ckpt, masterVars, bounds>>

Absent == [valid |-> FALSE, locking |-> "none"]
Entry(valid, b) == [valid |-> valid, locking |-> b]
InTable(x) == table[x] # Absent

IdleCheckpointer == [at |-> "idle", redo |-> 0, vxids |-> {}]

Init ==
  /\ table = [x \in Xacts |-> Absent]
  /\ at = [b \in Backends |-> "idle"]
  /\ work \in [Backends -> {CHOOSE x \in Xacts : TRUE}]
  /\ active = Xacts
  /\ wal = <<[type |-> "checkpoint", redo |-> 1, prepared |-> {}]>>
  /\ flushed = 1 /\ control = 1
  /\ server = "up" /\ map = {} /\ replay = 0
  /\ ckpt = IdleCheckpointer
  /\ verdict = [x \in Xacts |-> "none"] /\ answered = {} /\ finished = {}
  /\ restarts = 0 /\ checkpoints = 0

(* XLogInsert and XLogFlush *)
Insert(record) == wal' = Append(wal, record)
FlushTo(n) == flushed' = IF flushed < n THEN n ELSE flushed

Logged(w, type) == {x \in Xacts : \E i \in DOMAIN w : w[i].type = type /\ w[i].xid = x}
Position(type, x) == CHOOSE i \in DOMAIN wal : wal[i].type = type /\ wal[i].xid = x

Step(b, from, to) == at[b] = from /\ at' = [at EXCEPT ![b] = to]

-----------------------------------------------------------------------------
(* PrepareTransaction *)

(* Mutant of MarkAsPreparing: one entry too many. *)
PreparingOneMore(b, x) ==
  /\ server = "up"
  /\ x \in active /\ active' = active \ {x}
  /\ ~InTable(x)
  /\ Cardinality({y \in Xacts : InTable(y)}) <= MaxPrepared
  /\ Step(b, "idle", "preparing")
  /\ work' = [work EXCEPT ![b] = x]
  /\ table' = [table EXCEPT ![x] = Entry(FALSE, b)]
  /\ UNCHANGED <<walVars, startVars, ckpt, masterVars, bounds>>

(* MarkAsPreparing: reserve the gid with an entry that is locked and not valid. *)
MarkAsPreparing(b, x) ==
  /\ server = "up"
  /\ x \in active /\ active' = active \ {x}
  /\ ~InTable(x)
  /\ Cardinality({y \in Xacts : InTable(y)}) < MaxPrepared
  /\ Step(b, "idle", "preparing")
  /\ work' = [work EXCEPT ![b] = x]
  /\ table' = [table EXCEPT ![x] = Entry(FALSE, b)]
  /\ UNCHANGED <<walVars, startVars, ckpt, masterVars, bounds>>

(* ... "maximum number of prepared transactions reached": the transaction aborts. *)
TableFull(x) ==
  /\ server = "up"
  /\ x \in active /\ active' = active \ {x}
  /\ Cardinality({y \in Xacts : InTable(y)}) >= MaxPrepared
  /\ UNCHANGED <<table, at, work, walVars, startVars, ckpt, masterVars, bounds>>

(* EndPrepare: MyProc->inCommit = true, XLogInsert *)
InsertPrepare(b) ==
  /\ Step(b, "preparing", "prepareInserted")
  /\ Insert([type |-> "prepare", xid |-> work[b]])
  /\ UNCHANGED <<table, work, active, flushed, control, startVars, ckpt, masterVars, bounds>>

(* XLogFlush, MarkAsPrepared, MyProc->inCommit = false *)
MarkAsPrepared(b) ==
  /\ Step(b, "prepareInserted", "valid")
  /\ FlushTo(Position("prepare", work[b]))
  /\ table' = [table EXCEPT ![work[b]].valid = TRUE]
  /\ UNCHANGED <<work, active, wal, control, startVars, ckpt, masterVars, bounds>>

(* PostPrepare_Twophase: unlock; the QE answers. *)
PostPrepare(b) ==
  /\ Step(b, "valid", "idle")
  /\ table' = [table EXCEPT ![work[b]].locking = NoBackend]
  /\ answered' = IF verdict[work[b]] = "none" THEN answered \cup {work[b]} ELSE answered
  /\ UNCHANGED <<work, active, walVars, startVars, ckpt, verdict, finished, bounds>>

-----------------------------------------------------------------------------
(* FinishPreparedTransaction *)

Requested(x) == server = "up" /\ verdict[x] # "none"

(* Mutant of LockGXact: no check that the gid is busy. *)
LockBusy(b, x) ==
  /\ Requested(x)
  /\ table[x].valid
  /\ Step(b, "idle", "locked")
  /\ work' = [work EXCEPT ![b] = x]
  /\ table' = [table EXCEPT ![x].locking = b]
  /\ UNCHANGED <<active, walVars, startVars, ckpt, masterVars, bounds>>

(* LockGXact *)
LockGXact(b, x) ==
  /\ Requested(x)
  /\ table[x].valid /\ table[x].locking = NoBackend
  /\ Step(b, "idle", "locked")
  /\ work' = [work EXCEPT ![b] = x]
  /\ table' = [table EXCEPT ![x].locking = b]
  /\ UNCHANGED <<active, walVars, startVars, ckpt, masterVars, bounds>>

(* ~raiseErrorIfNotFound: a gid without a valid entry counts as finished. *)
NotFound(x) ==
  /\ Requested(x)
  /\ ~table[x].valid
  /\ finished' = finished \cup {x}
  /\ UNCHANGED <<table, backendVars, walVars, startVars, ckpt, verdict, answered, bounds>>

(* RecordTransactionCommitPrepared / RecordTransactionAbortPrepared: the record *)
InsertFinish(b) ==
  /\ Step(b, "locked", "finishInserted")
  /\ Insert([type |-> verdict[work[b]], xid |-> work[b]])
  /\ UNCHANGED <<table, work, active, flushed, control, startVars, ckpt, masterVars, bounds>>

(* Mutant of FlushFinish: no flush. *)
FinishUnflushed(b) ==
  /\ Step(b, "finishInserted", "recorded")
  /\ UNCHANGED <<table, work, active, walVars, startVars, ckpt, masterVars, bounds>>

(* ... its flush, pg_clog, MyProc->inCommit = false *)
FlushFinish(b) ==
  /\ Step(b, "finishInserted", "recorded")
  /\ FlushTo(Position(verdict[work[b]], work[b]))
  /\ UNCHANGED <<table, work, active, wal, control, startVars, ckpt, masterVars, bounds>>

(* ProcArrayRemove, gxact->valid = false *)
Invalidate(b) ==
  /\ Step(b, "recorded", "invalid")
  /\ table' = [table EXCEPT ![work[b]].valid = FALSE]
  /\ UNCHANGED <<work, active, walVars, startVars, ckpt, masterVars, bounds>>

(* The callbacks release the locks; RemoveGXact; the QE answers. *)
RemoveGXact(b) ==
  /\ Step(b, "invalid", "idle")
  /\ table' = [table EXCEPT ![work[b]] = Absent]
  /\ finished' = finished \cup {work[b]}
  /\ UNCHANGED <<work, active, walVars, startVars, ckpt, verdict, answered, bounds>>

(* Mutants of AtAbort: it unlocks every entry, it removes every entry, it leaves
   an entry that is valid as it is. *)
UnlockAlways(b) ==
  /\ at[b] \in {"preparing", "valid", "locked", "invalid"}
  /\ at' = [at EXCEPT ![b] = "idle"]
  /\ table' = [table EXCEPT ![work[b]].locking = NoBackend]
  /\ UNCHANGED <<work, active, walVars, startVars, ckpt, masterVars, bounds>>

RemoveAlways(b) ==
  /\ at[b] \in {"preparing", "valid", "locked", "invalid"}
  /\ at' = [at EXCEPT ![b] = "idle"]
  /\ table' = [table EXCEPT ![work[b]] = Absent]
  /\ UNCHANGED <<work, active, walVars, startVars, ckpt, masterVars, bounds>>

StayLocked(b) ==
  /\ at[b] \in {"preparing", "valid", "locked", "invalid"}
  /\ at' = [at EXCEPT ![b] = "idle"]
  /\ table' = [table EXCEPT ![work[b]] = IF @.valid THEN @ ELSE Absent]
  /\ UNCHANGED <<work, active, walVars, startVars, ckpt, masterVars, bounds>>

(* An error or exit of a backend outside its critical sections: AtAbort_Twophase
   removes an entry that is not valid and unlocks one that is. *)
AtAbort(b) ==
  LET x == work[b]
  IN  /\ at[b] \in {"preparing", "valid", "locked", "invalid"}
      /\ at' = [at EXCEPT ![b] = "idle"]
      /\ table' = [table EXCEPT ![x] = IF @.valid THEN Entry(TRUE, NoBackend) ELSE Absent]
      /\ UNCHANGED <<work, active, walVars, startVars, ckpt, masterVars, bounds>>

-----------------------------------------------------------------------------
(* The master's side, as far as the segment can tell. *)

(* All segments have voted, and the commit record is on disk. *)
DecideCommit(x) ==
  /\ verdict[x] = "none" /\ x \in answered
  /\ verdict' = [verdict EXCEPT ![x] = "commit"]
  /\ UNCHANGED <<table, backendVars, walVars, startVars, ckpt, answered, finished, bounds>>

DecideAbort(x) ==
  /\ verdict[x] = "none"
  /\ verdict' = [verdict EXCEPT ![x] = "abort"]
  /\ UNCHANGED <<table, backendVars, walVars, startVars, ckpt, answered, finished, bounds>>

-----------------------------------------------------------------------------
(* CreateCheckPoint, as far as prepared transactions are concerned *)

(* The backends whose inCommit flag holds a checkpoint up; an abort sets none. *)
InCommit ==
  {b \in Backends : \/ at[b] = "prepareInserted"
                    \/ at[b] = "finishInserted" /\ verdict[work[b]] = "commit"}

(* getTwoPhasePreparedTransactionData *)
Prepared == {x \in Xacts : table[x].valid}

(* The part of the record's rdata chain that XLogInsert follows: it ends at
   rdata[1], and the list of prepared transactions hangs on rdata[4]. *)
Chained(prepared) == {}

(* The REDO pointer; a checkpoint that CreateCheckPoint skips, nothing having been
   logged since the last one, is made here all the same. *)
StartCheckpoint ==
  /\ \/ server = "up" /\ checkpoints < MaxCheckpoints /\ checkpoints' = checkpoints + 1
     \/ server = "redone" /\ UNCHANGED checkpoints
  /\ ckpt.at = "idle"
  /\ ckpt' = [ckpt EXCEPT !.at = "vxids", !.redo = Len(wal) + 1]
  /\ UNCHANGED <<table, backendVars, walVars, startVars, masterVars, restarts>>

ReadDelaying ==
  /\ ckpt.at = "vxids"
  /\ ckpt' = [ckpt EXCEPT !.at = "wait", !.vxids = InCommit]
  /\ UNCHANGED <<table, backendVars, walVars, startVars, masterVars, bounds>>

InsertCheckpoint ==
  /\ ckpt.at = "wait"
  /\ ckpt.vxids \cap InCommit = {}
  /\ Insert([type |-> "checkpoint", redo |-> ckpt.redo, prepared |-> Chained(Prepared)])
  /\ ckpt' = [ckpt EXCEPT !.at = "flush"]
  /\ UNCHANGED <<table, backendVars, flushed, control, startVars, masterVars, bounds>>

(* Mutant of FinishCheckpoint: the control file is updated without the flush. *)
ControlUnflushed ==
  LET n == CHOOSE i \in DOMAIN wal :
             /\ wal[i].type = "checkpoint"
             /\ \A j \in DOMAIN wal : wal[j].type = "checkpoint" => j <= i
  IN  /\ ckpt.at = "flush"
      /\ control' = n
      /\ ckpt' = IdleCheckpointer
      /\ server' = IF server = "redone" THEN "reload" ELSE server
      /\ UNCHANGED <<table, backendVars, wal, flushed, map, replay, masterVars, bounds>>

(* XLogFlush, UpdateControlFile; after recovery the table is reloaded next. *)
FinishCheckpoint ==
  LET n == CHOOSE i \in DOMAIN wal :
             /\ wal[i].type = "checkpoint"
             /\ \A j \in DOMAIN wal : wal[j].type = "checkpoint" => j <= i
  IN  /\ ckpt.at = "flush"
      /\ FlushTo(n)
      /\ control' = n
      /\ ckpt' = IdleCheckpointer
      /\ server' = IF server = "redone" THEN "reload" ELSE server
      /\ UNCHANGED <<table, backendVars, wal, map, replay, masterVars, bounds>>

-----------------------------------------------------------------------------
(* Crash and StartupXLOG *)

(* Shared memory is lost, and any part of the WAL that was not flushed.  A transaction
   that has not come to its PREPARE may as well be one that begins later. *)
Crash ==
  /\ server # "crashed"
  /\ restarts < MaxRestarts /\ restarts' = restarts + 1
  /\ server' = "crashed" /\ map' = {} /\ replay' = 0
  /\ \E n \in flushed..Len(wal) : wal' = SubSeq(wal, 1, n) /\ flushed' = n
  /\ table' = [x \in Xacts |-> Absent]
  /\ at' = [b \in Backends |-> "idle"]
  /\ ckpt' = IdleCheckpointer
  /\ UNCHANGED <<work, active, control, masterVars, checkpoints>>

(* Mutant of RedoRecord: an abort record is passed over. *)
RedoNoAbort(m, record) ==
  CASE record.type = "prepare" -> m \cup {record.xid}
    [] record.type = "commit" -> m \ {record.xid}
    [] OTHER -> m

(* RecreateTwoPhaseFile / RemoveTwoPhaseFile of xact_redo *)
RedoRecord(m, record) ==
  CASE record.type = "prepare" -> m \cup {record.xid}
    [] record.type \in {"commit", "abort"} -> m \ {record.xid}
    [] OTHER -> m

(* Mutant of StartRedo: the replay begins at the checkpoint record. *)
StartAtCheckpoint ==
  /\ server = "crashed" /\ server' = "redo"
  /\ map' = wal[control].prepared /\ replay' = control
  /\ UNCHANGED <<table, backendVars, walVars, ckpt, masterVars, bounds>>

(* SetupCheckpointPreparedTransactionList; the replay begins at REDO. *)
StartRedo ==
  /\ server = "crashed" /\ server' = "redo"
  /\ map' = wal[control].prepared /\ replay' = wal[control].redo
  /\ UNCHANGED <<table, backendVars, walVars, ckpt, masterVars, bounds>>

(* The main redo apply loop; the checkpoint itself lies at REDO or behind it. *)
Redo ==
  /\ server = "redo" /\ server' = IF replay = Len(wal) THEN "redone" ELSE "redo"
  /\ map' = RedoRecord(map, wal[replay]) /\ replay' = replay + 1
  /\ UNCHANGED <<table, backendVars, walVars, ckpt, masterVars, bounds>>

(* RecoverPreparedTransactions: MarkAsPreparing and MarkAsPrepared of each entry *)
RecoverPreparedTransactions ==
  /\ server = "reload" /\ server' = "up"
  /\ table' = [x \in Xacts |-> IF x \in map THEN Entry(TRUE, NoBackend) ELSE Absent]
  /\ map' = {} /\ replay' = 0
  /\ UNCHANGED <<backendVars, walVars, ckpt, masterVars, bounds>>

-----------------------------------------------------------------------------

(* A backend in the middle of its work goes on with it. *)
Backend(b) ==
  \/ InsertPrepare(b) \/ MarkAsPrepared(b) \/ PostPrepare(b)
  \/ InsertFinish(b) \/ FlushFinish(b) \/ Invalidate(b) \/ RemoveGXact(b)

Checkpointer == ReadDelaying \/ InsertCheckpoint \/ FinishCheckpoint

Startup == StartRedo \/ Redo \/ RecoverPreparedTransactions \/ (server = "redone" /\ StartCheckpoint)

Next ==
  \/ \E b \in Backends : Backend(b) \/ AtAbort(b)
  \/ \E b \in Backends, x \in Xacts : MarkAsPreparing(b, x) \/ LockGXact(b, x)
  \/ \E x \in Xacts : TableFull(x) \/ NotFound(x) \/ DecideCommit(x) \/ DecideAbort(x)
  \/ StartCheckpoint \/ Checkpointer
  \/ Crash \/ StartRedo \/ Redo \/ RecoverPreparedTransactions

(* The segment's processes keep running; nothing is assumed of the master. *)
Spec ==
  /\ Init /\ [][Next]_vars
  /\ \A b \in Backends : WF_vars(Backend(b))
  /\ WF_vars(Checkpointer) /\ WF_vars(Startup)

-----------------------------------------------------------------------------

Finish == {"commit", "abort"}

Record ==
  [type : {"prepare"} \cup Finish, xid : Xacts] \cup
  [type : {"checkpoint"}, redo : Nat, prepared : SUBSET Xacts]

(* Every variable keeps its type. *)
TypeOK ==
  /\ table \in [Xacts -> {Absent} \cup [valid : BOOLEAN, locking : Backends \cup {NoBackend}]]
  /\ at \in [Backends -> {"idle", "preparing", "prepareInserted", "valid", "locked",
                          "finishInserted", "recorded", "invalid"}]
  /\ work \in [Backends -> Xacts]
  /\ active \subseteq Xacts
  /\ wal \in Seq(Record)
  /\ flushed \in 1..Len(wal)
  /\ control \in 1..flushed /\ wal[control].type = "checkpoint"
  /\ server \in {"up", "crashed", "redo", "redone", "reload"}
  /\ map \subseteq Xacts /\ replay \in Nat
  /\ ckpt \in [at : {"idle", "vxids", "wait", "flush"}, redo : Nat, vxids : SUBSET Backends]
  /\ verdict \in [Xacts -> {"none"} \cup Finish]
  /\ answered \subseteq Xacts /\ finished \subseteq Xacts
  /\ restarts \in Nat /\ checkpoints \in Nat

(* Nothing overfills the table, RecoverPreparedTransactions least of all: what a crash
   leaves unfinished in the log was in the table, so that the startup process does
   not run into "maximum number of prepared transactions reached". *)
TableFits == Cardinality({x \in Xacts : InTable(x)}) <= MaxPrepared

(* However many backends are told to finish the same gid, and however often
   they fail half way, a transaction gets one commit or abort record: a retry
   never runs into "cannot abort transaction, it was already committed". *)
FinishOnce ==
  \A i, j \in DOMAIN wal :
    (wal[i].type \in Finish /\ wal[j].type \in Finish /\ wal[i].xid = wal[j].xid) => i = j

(* Nobody's entry: an entry that no backend has locked can be finished, i.e. it is
   valid, its PREPARE record is on disk and no record finishes it.  No slot of
   the table is lost to a backend that failed. *)
UnlockedCanFinish ==
  \A x \in Xacts : table[x].locking = NoBackend =>
    /\ table[x].valid
    /\ \E i \in 1..flushed : wal[i].type = "prepare" /\ wal[i].xid = x
    /\ \A i \in DOMAIN wal : wal[i].type \in Finish => wal[i].xid # x

(* A vote is kept: what the segment has answered to PREPARE stays in the table,
   across a crash, until a commit or abort record is on disk. *)
PreparedHeld ==
  server = "up" =>
    \A x \in answered : InTable(x) \/ \E type \in Finish : x \in Logged(wal, type)

(* A COMMIT PREPARED that was answered with success, "not found" included, has
   committed: its record is on disk. *)
CommitAnswerIsDurable ==
  \A x \in finished : verdict[x] = "commit" =>
    \E i \in 1..flushed : wal[i].type = "commit" /\ wal[i].xid = x

(* The PREPARE of x lies before the REDO pointer of a checkpoint that another one follows:
   the one that ends the recovery, if the segment has crashed. *)
Overtaken(x) ==
  /\ restarts > 0
  /\ \E i, j, k \in 1..flushed :
       /\ wal[i].type = "prepare" /\ wal[i].xid = x
       /\ wal[j].type = "checkpoint" /\ i < wal[j].redo
       /\ wal[k].type = "checkpoint" /\ j < k

(* How far PreparedHeld goes, with checkpoints and any number of crashes: a vote is lost
   only if a checkpoint has passed its PREPARE before the crash, since the replay then
   begins behind the record and the checkpoint does not list it. *)
LostOnlyToCheckpoint ==
  server = "up" =>
    \A x \in answered : InTable(x) \/ Overtaken(x) \/ \E type \in Finish : x \in Logged(wal, type)

(* How far CommitAnswerIsDurable goes: "not found" is success by mistake only there. *)
NotFoundOnlyIfLost ==
  \A x \in finished : verdict[x] = "commit" =>
    Overtaken(x) \/ \E i \in 1..flushed : wal[i].type = "commit" /\ wal[i].xid = x

(* RecoverPreparedTransactions brings back no transaction that a record in the log
   has finished: the replay that meets a PREPARE also meets what finished it, whether
   the backend came to remove the entry or crashed before. *)
NothingFinishedIsReloaded ==
  server \in {"redone", "reload"} =>
    \A x \in map, type \in Finish : x \notin Logged(wal, type)

(* A gid does not stay busy: its entry is unlocked or removed, also where the
   backend that had locked it fails. *)
EntryIsReleased ==
  \A x \in Xacts : (\E b \in Backends : table[x].locking = b) ~>
    ~(\E b \in Backends : table[x].locking = b)
=============================================================================
