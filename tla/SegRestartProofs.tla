-------------------------- MODULE SegRestartProofs --------------------------
(***************************************************************************)
(* The rest of the inductive invariant of SegTwoPhase: the checkpointer, the *)
(* crash and the startup process; with them every step keeps it.           *)
(***************************************************************************)
EXTENDS SegTableProofs

-----------------------------------------------------------------------------
(* The checkpointer and the crash *)

(* A step of the checkpointer that neither inserts nor moves the control file *)
LEMMA CheckpointerOnly ==
  ASSUME IInv, UNCHANGED <<table, backendVars, walVars, startVars, masterVars, restarts>>, checkpoints' \in Nat,
         ckpt' \in [at : {"idle", "vxids", "wait", "flush"}, redo : Nat, vxids : SUBSET Backends],
         LogCheckpoint', CheckpointWhen'
  PROVE  IInv'
<1>u. UNCHANGED <<table, at, work, active, wal, flushed, control, server, map, replay, verdict, answered, finished>>
  BY Zenon DEF walVars, startVars, backendVars, masterVars
<1>k. /\ \A y, n : (PreparedBy(y, n)' <=> PreparedBy(y, n)) /\ (FinishedBy(y, n)' <=> FinishedBy(y, n))
      /\ \A n : Unfinished(n)' = Unfinished(n)
  BY Zenon, <1>u DEF Unfinished, PreparedBy, FinishedBy
<1>1. TypeOK' /\ Locks' /\ Down' /\ TableFits'
  BY <1>u DEF IInv, TypeOK, Locks, Down, TableFits, InTable
<1>2. \A b \in Backends : Preparing(b)' /\ Finishing(b)'
  BY Zenon, <1>u, <1>k DEF IInv, Preparing, Finishing
<1>3. \A x \in Xacts : Free(x)' /\ Fresh(x)'
  BY Zenon, <1>u, <1>k DEF IInv, Free, Fresh, InTable
<1>4. LogFinish' /\ LogOrder'
  BY <1>u, <1>k DEF IInv, LogFinish, LogOrder
<1>5. Replayed'
  BY <1>u DEF IInv, Replayed, PreparedBy, FinishedBy
<1>6. Fits'
  BY Zenon, <1>u, <1>k DEF IInv, Fits, InTable
<1> QED
  BY Zenon, <1>1, <1>2, <1>3, <1>4, <1>5, <1>6 DEF IInv

(* StartCheckpoint puts REDO at the end of the log, in front of the record to come. *)
LEMMA StartCheckpointStep ==
  ASSUME IInv, StartCheckpoint
  PROVE  IInv'
<1>0. /\ server \in {"up", "redone"} /\ UNCHANGED <<server, wal, control>> /\ checkpoints' \in Nat
      /\ ckpt'.at = "vxids" /\ ckpt'.redo = Len(wal) + 1
      /\ ckpt' \in [at : {"idle", "vxids", "wait", "flush"}, redo : Nat, vxids : SUBSET Backends]
  <2>1. Len(wal) \in Nat /\ checkpoints \in Nat
    BY DEF IInv, TypeOK
  <2>2. ckpt \in [at : {"idle", "vxids", "wait", "flush"}, redo : Nat, vxids : SUBSET Backends]
    BY Zenon DEF IInv, TypeOK
  <2>3. ckpt' = [at |-> "vxids", redo |-> Len(wal) + 1, vxids |-> ckpt.vxids] /\ ckpt.vxids \in SUBSET Backends
    BY Zenon, <2>2 DEF StartCheckpoint
  <2>4. /\ ckpt'.at = "vxids" /\ ckpt'.redo = Len(wal) + 1
        /\ ckpt' \in [at : {"idle", "vxids", "wait", "flush"}, redo : Nat, vxids : SUBSET Backends]
    BY <2>1, <2>2, <2>3
  <2>5. server \in {"up", "redone"} /\ UNCHANGED <<server, wal, control>> /\ checkpoints' \in Nat
    BY <2>1 DEF StartCheckpoint, startVars, walVars
  <2> QED
    BY Zenon, <2>4, <2>5
<1>1. wal[control].redo \in Nat /\ wal[control].redo <= Len(wal) /\ Len(wal) \in Nat
  BY DEF IInv, TypeOK, LogCheckpoint
<1>2. LogCheckpoint' /\ CheckpointWhen'
  BY <1>0, <1>1 DEF IInv, LogCheckpoint, CheckpointWhen
<1> QED
  BY Zenon, <1>0, <1>2, CheckpointerOnly DEF StartCheckpoint

(* ReadDelaying reads the backends in their critical sections. *)
LEMMA ReadDelayingStep ==
  ASSUME IInv, ReadDelaying
  PROVE  IInv'
<1>0. /\ UNCHANGED <<server, wal, control, checkpoints, restarts>>
      /\ ckpt.at = "vxids" /\ ckpt'.at = "wait" /\ ckpt'.redo = ckpt.redo
      /\ ckpt' \in [at : {"idle", "vxids", "wait", "flush"}, redo : Nat, vxids : SUBSET Backends]
  BY Zenon DEF IInv, TypeOK, ReadDelaying, startVars, walVars, InCommit, bounds
<1>1. LogCheckpoint' /\ CheckpointWhen'
  BY Zenon, <1>0 DEF IInv, LogCheckpoint, CheckpointWhen
<1> QED
  BY Zenon, <1>0, <1>1, CheckpointerOnly DEF ReadDelaying, IInv, TypeOK

(* InsertCheckpoint: the new checkpoint is the last one in the log. *)
LEMMA InsertCheckpointStep ==
  ASSUME IInv, InsertCheckpoint
  PROVE  IInv'
<1> DEFINE r == [type |-> "checkpoint", redo |-> ckpt.redo, prepared |-> {}]
<1>i. /\ TypeOK /\ Locks /\ Down /\ LogOrder /\ LogFinish /\ LogCheckpoint /\ CheckpointWhen
      /\ Replayed /\ TableFits /\ Fits
      /\ \A c \in Backends : Preparing(c) /\ Finishing(c)
      /\ \A x \in Xacts : Free(x) /\ Fresh(x)
  BY Zenon DEF IInv
<1>u. UNCHANGED <<table, at, work, active, flushed, control, server, map, replay, verdict, answered, finished, restarts, checkpoints>>
  BY Zenon DEF InsertCheckpoint, backendVars, startVars, masterVars, bounds
<1>c. /\ ckpt.at = "wait" /\ ckpt'.at = "flush" /\ ckpt'.redo = ckpt.redo /\ ckpt.redo \in Nat
      /\ ckpt' \in [at : {"idle", "vxids", "wait", "flush"}, redo : Nat, vxids : SUBSET Backends]
      /\ server \in {"up", "redone"}
  BY Zenon, <1>i DEF InsertCheckpoint, TypeOK, CheckpointWhen
<1>r. r \in Record /\ wal' = Append(wal, r) /\ wal \in Seq(Record)
  BY Zenon, <1>i, <1>c, Recs DEF InsertCheckpoint, Insert, TypeOK, Chained
<1>x. r.type = "checkpoint" /\ r.type \notin Finish /\ r.type # "prepare" /\ r.redo = ckpt.redo /\ r.prepared = {}
  BY Zenon DEF Finish
<1> HIDE DEF r
<1>a. /\ wal' \in Seq(Record) /\ Len(wal') = Len(wal) + 1 /\ Len(wal) \in Nat
      /\ wal'[Len(wal) + 1] = r
      /\ \A i \in 1..Len(wal) : wal'[i] = wal[i]
  BY Zenon, <1>r, Appended
<1>b. \A x \in Xacts :
         /\ \A n \in 0..Len(wal) : /\ PreparedBy(x, n)' <=> PreparedBy(x, n)
                                   /\ FinishedBy(x, n)' <=> FinishedBy(x, n)
         /\ PreparedBy(x, Len(wal))' <=> PreparedBy(x, Len(wal))
         /\ FinishedBy(x, Len(wal))' <=> FinishedBy(x, Len(wal))
  BY Zenon, <1>r, <1>x, AppendedBy
<1>0. flushed \in 1..Len(wal) /\ control \in 1..flushed
  BY Zenon, <1>i DEF TypeOK
<1>1. TypeOK'
  BY Zenon, <1>i, <1>r, <1>u, <1>c, AppendedType DEF TypeOK
<1>2. Locks' /\ Down'
  BY Zenon, <1>i, <1>u DEF Locks, Down
<1>3. \A c \in Backends : Preparing(c)'
  BY <1>i, <1>a, <1>b, <1>u, <1>0 DEF TypeOK, Preparing
<1>4. \A c \in Backends : Finishing(c)'
  BY <1>i, <1>a, <1>b, <1>u, <1>0 DEF TypeOK, Finishing
<1>5. \A x \in Xacts : Free(x)' /\ Fresh(x)'
  BY <1>i, <1>a, <1>b, <1>u, <1>0 DEF Free, Fresh, InTable
<1>7. LogOrder'
  BY Zenon, <1>i, <1>r, <1>x, AppendedOrder
<1>8. LogFinish'
  <2> SUFFICES ASSUME NEW i \in 1..Len(wal), wal[i].type \in Finish
               PROVE  /\ wal[i].type = verdict[wal[i].xid] /\ PreparedBy(wal[i].xid, i)'
                      /\ i > flushed => \E c \in Backends : work[c] = wal[i].xid /\ at[c] = "finishInserted"
    BY <1>a, <1>x, <1>u DEF LogFinish
  <2>1. wal[i].xid \in Xacts
    BY Zenon, <1>r, RecordType DEF Record, Finish
  <2>2. PreparedBy(wal[i].xid, i)'
    BY <1>a, <1>b, <2>1, <1>i DEF LogFinish
  <2> QED
    BY Zenon, <1>i, <2>2 DEF LogFinish
<1>9. LogCheckpoint'
  <2>1. control \in 1..Len(wal) /\ wal[control].redo \in Nat /\ wal'[control] = wal[control]
    BY <1>a, <1>0, <1>i DEF TypeOK, LogCheckpoint
  <2>2. \A i \in 1..Len(wal') : wal'[i].type = "checkpoint" => wal'[i].redo \in 1..i /\ wal'[i].prepared = {}
    BY <1>a, <1>x, <1>c, <1>i, <2>1 DEF LogCheckpoint
  <2>3. ckpt'.redo \in wal'[control'].redo..(Len(wal') + 1) /\ ckpt'.redo > 0
    BY <1>a, <1>u, <1>c, <1>i, <2>1 DEF LogCheckpoint
  <2>4. /\ Len(wal) + 1 \in 1..Len(wal')
        /\ wal'[Len(wal) + 1].type = "checkpoint" /\ wal'[Len(wal) + 1].redo = ckpt'.redo
        /\ \A i \in ((Len(wal) + 1) + 1)..Len(wal') : wal'[i].type # "checkpoint"
    BY <1>a, <1>x, <1>c
  <2> QED
    BY Zenon, <2>2, <2>3, <2>4 DEF LogCheckpoint
<1>10. CheckpointWhen'
  BY Zenon, <1>u, <1>c DEF CheckpointWhen
<1>11. Replayed'
  BY <1>i, <1>u, <1>c, <1>a, <1>b, <1>0 DEF Replayed, TypeOK
<1>12. TableFits' /\ Fits'
  <2>2. \A x \in Xacts : InTable(x)' <=> InTable(x)
    BY Zenon, <1>u DEF InTable
  <2>3. \A n \in flushed'..Len(wal') : \A x \in Unfinished(n)' :
           (server = "up" => InTable(x)) /\ (server = "redone" => x \in map)
    <3> SUFFICES ASSUME NEW n \in flushed..(Len(wal) + 1), NEW x \in Unfinished(n)'
                 PROVE  (server = "up" => InTable(x)) /\ (server = "redone" => x \in map)
      BY Zenon, <1>a, <1>u
    <3>1. /\ n <= Len(wal) => x \in Unfinished(n)
          /\ n = Len(wal) + 1 => x \in Unfinished(Len(wal))
      BY <1>i, <1>u, <1>0, <1>a, <1>r, <1>x, AppendedUnfinished
    <3> QED
      BY <1>i, <1>0, <1>a, <1>c, <3>1 DEF Fits
  <2>4. \A n : \A x \in Unfinished(n)' : x \in Xacts
    BY Zenon DEF Unfinished
  <2> QED
    BY Zenon, <1>i, <1>u, <1>c, <2>2, <2>3, <2>4 DEF Fits, TableFits
<1> QED
  BY Zenon, <1>1, <1>2, <1>3, <1>4, <1>5, <1>7, <1>8, <1>9, <1>10, <1>11, <1>12 DEF IInv

(* FinishCheckpoint: what a crash would replay only gets less. *)
LEMMA FinishCheckpointStep ==
  ASSUME IInv, FinishCheckpoint
  PROVE  IInv'
<1>0. /\ wal \in Seq(Record) /\ Len(wal) \in Nat /\ DOMAIN wal = 1..Len(wal)
      /\ flushed \in 1..Len(wal) /\ control \in 1..flushed
      /\ ckpt.at = "flush" /\ server \in {"up", "redone"}
      /\ wal[control].redo \in Nat /\ wal[control].redo <= ckpt.redo
  <2>1. /\ wal \in Seq(Record) /\ Len(wal) \in Nat /\ flushed \in 1..Len(wal) /\ control \in 1..flushed
        /\ wal[control].type = "checkpoint" /\ ckpt.redo \in Nat
    BY DEF IInv, TypeOK
  <2>2. DOMAIN wal = 1..Len(wal)
    BY <2>1
  <2>3. ckpt.at = "flush" /\ server \in {"up", "redone"}
    BY Zenon DEF IInv, FinishCheckpoint, CheckpointWhen
  <2>4. wal[control].redo \in Nat /\ wal[control].redo <= ckpt.redo
    BY <2>1, <2>3 DEF IInv, LogCheckpoint
  <2> QED
    BY Zenon, <2>1, <2>2, <2>3, <2>4
<1>n. PICK n \in 1..Len(wal) :
           /\ wal[n].type = "checkpoint" /\ wal[n].redo = ckpt.redo
           /\ flushed' = (IF flushed < n THEN n ELSE flushed) /\ control' = n
  <2> DEFINE Last(i) == wal[i].type = "checkpoint" /\ \A j \in DOMAIN wal : wal[j].type = "checkpoint" => j <= i
             m == CHOOSE i \in DOMAIN wal : Last(i)
  <2>1. PICK k \in 1..Len(wal) : /\ wal[k].type = "checkpoint" /\ wal[k].redo = ckpt.redo
                                 /\ \A i \in (k + 1)..Len(wal) : wal[i].type # "checkpoint"
    BY Zenon, <1>0 DEF IInv, LogCheckpoint
  <2>2. Last(k)
    BY <1>0, <2>1
  <2>3. m \in DOMAIN wal /\ Last(m)
    BY Zenon, <1>0, <2>2
  <2>4. flushed' = (IF flushed < m THEN m ELSE flushed) /\ control' = m
    BY Zenon DEF FinishCheckpoint, FlushTo
  <2> HIDE DEF m
  <2>5. m = k
    BY <1>0, <2>2, <2>3
  <2> QED
    BY Zenon, <2>1, <2>4, <2>5
<1>u. /\ UNCHANGED <<table, at, work, active, wal, map, replay, verdict, answered, finished, restarts, checkpoints>>
      /\ ckpt' = IdleCheckpointer /\ server' = IF server = "redone" THEN "reload" ELSE server
  BY Zenon DEF FinishCheckpoint, backendVars, masterVars, bounds
<1>f. flushed' \in flushed..Len(wal) /\ control' \in 1..flushed' /\ flushed' \in Nat /\ flushed \in Nat
  BY <1>0, <1>n
<1>k. \A y, m : (PreparedBy(y, m)' <=> PreparedBy(y, m)) /\ (FinishedBy(y, m)' <=> FinishedBy(y, m))
  BY Zenon, <1>u DEF PreparedBy, FinishedBy
<1>l. \A y : (PreparedBy(y, flushed) => PreparedBy(y, flushed)') /\ (FinishedBy(y, flushed) => FinishedBy(y, flushed)')
  BY <1>k, <1>f, Longer
<1>1. TypeOK'
  <2>1. /\ ckpt' \in [at : {"idle", "vxids", "wait", "flush"}, redo : Nat, vxids : SUBSET Backends]
        /\ flushed' \in 1..Len(wal') /\ control' \in 1..flushed' /\ wal'[control'].type = "checkpoint"
        /\ server' \in {"up", "reload"}
    BY Zenon, <1>0, <1>n, <1>f, <1>u DEF IdleCheckpointer
  <2> QED
    BY Zenon, <1>u, <2>1 DEF IInv, TypeOK
<1>2. Locks' /\ Down' /\ CheckpointWhen' /\ TableFits'
  BY Zenon, <1>u, <1>0 DEF IInv, Locks, Down, CheckpointWhen, TableFits, InTable, IdleCheckpointer
<1>3. \A b \in Backends : Preparing(b)'
  BY Zenon, <1>u, <1>k, <1>l DEF IInv, Preparing
<1>4. \A b \in Backends : Finishing(b)'
  BY Zenon, <1>u, <1>k, <1>l DEF IInv, Finishing
<1>5. \A x \in Xacts : Free(x)' /\ Fresh(x)'
  BY Zenon, <1>u, <1>k, <1>l DEF IInv, Free, Fresh, InTable
<1>6. LogOrder' /\ LogFinish'
  <2>1. LogOrder'
    BY <1>u DEF IInv, LogOrder
  <2>2. LogFinish'
    BY <1>u, <1>k, <1>f DEF IInv, LogFinish
  <2> QED
    BY Zenon, <2>1, <2>2
<1>7. LogCheckpoint'
  BY Zenon, <1>u DEF IInv, LogCheckpoint, IdleCheckpointer
<1>8. Replayed'
  BY Zenon, <1>u, <1>0, <1>k, <1>l DEF IInv, Replayed
<1>9. Fits'
  <2>1. \A m : \A x \in Unfinished(m)' : x \in Unfinished(m)
    <3> SUFFICES ASSUME NEW m, NEW x \in Unfinished(m)' PROVE x \in Unfinished(m)
      BY Zenon
    <3>1. x \in Xacts /\ ~FinishedBy(x, m)
      BY Zenon, <1>k DEF Unfinished
    <3>2. PICK i \in ckpt.redo..m : wal[i].type = "prepare" /\ wal[i].xid = x
      BY Zenon, <1>u, <1>n DEF Unfinished
    <3>3. i \in wal[control].redo..m
      BY <1>0, <1>n, <3>2 DEF IInv, TypeOK
    <3> QED
      BY Zenon, <3>1, <3>2, <3>3 DEF Unfinished
  <2>2. \A x \in Xacts : InTable(x)' <=> InTable(x)
    BY Zenon, <1>u DEF InTable
  <2>3. \A m \in flushed'..Len(wal') : m \in flushed..Len(wal)
    BY <1>f, <1>0, <1>u
  <2>4. \A m : \A x \in Unfinished(m)' : x \in Xacts
    BY Zenon DEF Unfinished
  <2> QED
    BY Zenon, <1>u, <1>0, <2>1, <2>2, <2>3, <2>4 DEF IInv, Fits
<1> QED
  BY Zenon, <1>1, <1>2, <1>3, <1>4, <1>5, <1>6, <1>7, <1>8, <1>9 DEF IInv

(* Crash: what it leaves unfinished was in the table, or in the map. *)
LEMMA CrashStep ==
  ASSUME IInv, Crash
  PROVE  IInv'
<1>0. /\ wal \in Seq(Record) /\ Len(wal) \in Nat
      /\ flushed \in 1..Len(wal) /\ control \in 1..flushed
      /\ wal[control].redo \in Nat /\ wal[control].redo > 0
  BY Zenon, LogTypes
<1>n. PICK n \in flushed..Len(wal) : wal' = SubSeq(wal, 1, n) /\ flushed' = n
  BY Zenon DEF Crash
<1>u. /\ UNCHANGED <<work, active, control, verdict, answered, finished, checkpoints>> /\ restarts' = restarts + 1
      /\ ckpt' = IdleCheckpointer /\ server' = "crashed" /\ map' = {} /\ replay' = 0 /\ server # "crashed"
      /\ table' = [x \in Xacts |-> Absent] /\ at' = [b \in Backends |-> "idle"]
  BY Zenon DEF Crash, masterVars
<1>c. /\ wal' \in Seq(Record) /\ Len(wal') = n /\ n \in 1..Len(wal)
      /\ \A i \in 1..n : wal'[i] = wal[i]
  BY <1>0, <1>n, Cut
<1>k. \A y : \A m \in 0..n : (PreparedBy(y, m)' <=> PreparedBy(y, m)) /\ (FinishedBy(y, m)' <=> FinishedBy(y, m))
  BY <1>c DEF PreparedBy, FinishedBy
<1>1. TypeOK'
  <2>1. /\ flushed' \in 1..Len(wal') /\ control' \in 1..flushed' /\ wal'[control'].type = "checkpoint"
        /\ ckpt' \in [at : {"idle", "vxids", "wait", "flush"}, redo : Nat, vxids : SUBSET Backends]
        /\ restarts' \in Nat
    BY <1>0, <1>n, <1>c, <1>u DEF IInv, TypeOK, IdleCheckpointer
  <2> QED
    BY Zenon, <1>c, <1>u, <2>1 DEF IInv, TypeOK
<1>2. Locks' /\ Down' /\ CheckpointWhen'
  BY Zenon, <1>u, NoBackendIsNone DEF Locks, Down, CheckpointWhen, IdleCheckpointer, Absent
<1>3. \A b \in Backends : Preparing(b)' /\ Finishing(b)'
  BY Zenon, <1>u DEF Preparing, Finishing
<1>4. \A x \in Xacts : Free(x)' /\ Fresh(x)'
  <2> SUFFICES ASSUME NEW x \in Xacts PROVE Free(x)' /\ Fresh(x)'
    BY Zenon
  <2>1. Free(x)'
    BY Zenon, <1>u, NoBackendIsNone DEF Free, Absent
  <2>2. PreparedBy(x, Len(wal))' => PreparedBy(x, Len(wal))
    BY <1>c, <1>0 DEF PreparedBy
  <2>3. Fresh(x)'
    BY Zenon, <1>u, <2>2 DEF IInv, Fresh, InTable
  <2> QED
    BY Zenon, <2>1, <2>3
<1>5. LogOrder'
  BY <1>c, <1>0 DEF IInv, LogOrder
<1>6. LogFinish'
  <2>0. \A i \in 1..n : ~(i > flushed')
    BY <1>n, <1>c
  <2> SUFFICES ASSUME NEW i \in 1..n, wal[i].type \in Finish
               PROVE  wal[i].type = verdict[wal[i].xid] /\ \E k \in 1..i : wal'[k].type = "prepare" /\ wal'[k].xid = wal[i].xid
    BY <1>c, <1>u, <2>0 DEF LogFinish, PreparedBy
  <2>1. i \in 1..Len(wal)
    BY <1>c
  <2> QED
    BY <1>c, <2>1 DEF IInv, LogFinish, PreparedBy
<1>7. LogCheckpoint'
  BY <1>c, <1>u, <1>0 DEF IInv, LogCheckpoint, IdleCheckpointer
<1>8. Replayed'
  BY Zenon, <1>n, <1>c, <1>u DEF Replayed
<1>9. TableFits'
  BY Zenon, <1>u, NoMore DEF InTable
<1>10. Fits'
  <2>1. Unfinished(Len(wal))' \subseteq Unfinished(n)
    <3> SUFFICES ASSUME NEW x \in Unfinished(Len(wal))' PROVE x \in Unfinished(n)
      BY Zenon
    <3>1. x \in Xacts /\ ~FinishedBy(x, n)
      BY <1>c, <1>k DEF Unfinished
    <3>2. PICK i \in wal[control].redo..n : wal'[i].type = "prepare" /\ wal'[i].xid = x
      BY <1>c, <1>u, <1>0, <1>n DEF Unfinished
    <3>3. wal[i].type = "prepare" /\ wal[i].xid = x
      BY <1>0, <1>c, <3>2
    <3> QED
      BY Zenon, <3>1, <3>2, <3>3 DEF Unfinished
  <2> DEFINE T == {y \in Xacts : InTable(y)}
             U == Unfinished(n)
             V == Unfinished(Len(wal))'
  <2>2. IsFiniteSet(T) /\ IsFiniteSet(map) /\ IsFiniteSet(U) /\ T \subseteq Xacts
    BY Zenon, SetsFinite, FS_Subset DEF IInv, TypeOK, Unfinished
  <2>3. Cardinality(U) <= MaxPrepared
    <3>m. MaxPrepared \in Nat /\ Cardinality(U) \in Nat
      BY Zenon, <2>2, BoundsNat, FS_CardinalityType
    <3>1. CASE server = "up"
      <4>1. U \in SUBSET T /\ Cardinality(T) <= MaxPrepared /\ Cardinality(T) \in Nat
        BY Zenon, <3>1, <2>2, FS_CardinalityType DEF IInv, Fits, TableFits, Unfinished
      <4> HIDE DEF T, U
      <4>2. Cardinality(U) <= Cardinality(T)
        BY Zenon, <4>1, <2>2, FS_Subset
      <4> QED
        BY <4>1, <4>2, <3>m
    <3>2. CASE server = "redo"
      <4>1. n = Len(wal)
        BY <3>2, <1>0 DEF IInv, Replayed
      <4> QED
        BY Zenon, <3>2, <4>1 DEF IInv, Fits
    <3>3. CASE server \in {"redone", "reload"}
      <4>1. U \in SUBSET map /\ Cardinality(map) <= MaxPrepared /\ Cardinality(map) \in Nat
        BY Zenon, <3>3, <2>2, FS_CardinalityType DEF IInv, Fits
      <4> HIDE DEF U
      <4>2. Cardinality(U) <= Cardinality(map)
        BY Zenon, <4>1, <2>2, FS_Subset
      <4> QED
        BY <4>1, <4>2, <3>m
    <3> QED
      BY Zenon, <3>1, <3>2, <3>3, <1>u DEF IInv, TypeOK
  <2>4. V \in SUBSET U
    BY Zenon, <2>1
  <2>5. IsFiniteSet(U) /\ MaxPrepared \in Nat /\ Cardinality(U) <= MaxPrepared
    BY Zenon, <2>2, <2>3, BoundsNat
  <2> HIDE DEF U, V
  <2>6. Cardinality(V) <= Cardinality(U) /\ IsFiniteSet(V)
    BY Zenon, <2>4, <2>5, FS_Subset
  <2>7. Cardinality(V) \in Nat /\ Cardinality(U) \in Nat
    BY Zenon, <2>5, <2>6, FS_CardinalityType
  <2>8. Cardinality(V) <= MaxPrepared
    BY <2>5, <2>6, <2>7
  <2> QED
    BY Zenon, <1>u, <2>8 DEF Fits, V
<1> QED
  BY Zenon, <1>1, <1>2, <1>3, <1>4, <1>5, <1>6, <1>7, <1>8, <1>9, <1>10 DEF IInv

-----------------------------------------------------------------------------
(* The startup process; all actions together *)

(* The startup process works on its own, before the table is reloaded. *)
LEMMA Offline ==
  ASSUME IInv, server # "up", server' \in {"redo", "redone"}, ckpt.at = "idle",
         UNCHANGED <<table, backendVars, walVars, ckpt, masterVars, bounds>>,
         map' \subseteq Xacts, replay' \in Nat, Replayed', Fits'
  PROVE  IInv'
<1>u. UNCHANGED <<table, at, work, active, wal, flushed, control, ckpt, verdict, answered, finished, restarts, checkpoints>>
  BY Zenon DEF walVars, backendVars, masterVars, bounds
<1>k. /\ LogOrder' /\ LogCheckpoint'
      /\ \A y, n : (PreparedBy(y, n)' <=> PreparedBy(y, n)) /\ (FinishedBy(y, n)' <=> FinishedBy(y, n))
  BY Zenon, <1>u, LogKept
<1>1. TypeOK' /\ Locks' /\ Down' /\ TableFits' /\ CheckpointWhen'
  <2>1. TypeOK'
    BY Zenon, <1>u DEF IInv, TypeOK
  <2>2. Locks /\ Down /\ TableFits /\ CheckpointWhen
    BY Zenon DEF IInv
  <2> QED
    BY <1>u, <2>1, <2>2 DEF Locks, Down, TableFits, InTable, CheckpointWhen
<1>2. \A b \in Backends : Preparing(b)' /\ Finishing(b)'
  BY Zenon, <1>u, <1>k DEF IInv, Preparing, Finishing
<1>3. \A x \in Xacts : Free(x)' /\ Fresh(x)'
  BY Zenon, <1>u, <1>k DEF IInv, Free, Fresh, InTable
<1>4. LogFinish'
  BY Zenon, <1>u, <1>k DEF IInv, LogFinish
<1> QED
  BY Zenon, <1>k, <1>1, <1>2, <1>3, <1>4 DEF IInv

(* StartRedo: the checkpoint's own list is empty. *)
LEMMA StartRedoStep ==
  ASSUME IInv, StartRedo
  PROVE  IInv'
<1>0. /\ server = "crashed" /\ server' = "redo" /\ ckpt.at = "idle" /\ UNCHANGED <<wal, flushed, control, ckpt>>
      /\ map' = wal[control].prepared /\ replay' = wal[control].redo
  BY Zenon DEF IInv, StartRedo, CheckpointWhen, walVars
<1>1. /\ wal[control].redo \in 1..Len(wal) /\ wal[control].prepared = {} /\ Len(wal) \in Nat
      /\ flushed = Len(wal)
  BY Zenon, <1>0, LogTypes DEF IInv, Replayed
<1>2. Replayed'
  BY <1>0, <1>1 DEF Replayed
<1>3. \A n : Unfinished(n)' = Unfinished(n)
  BY Zenon, <1>0, LogKept
<1>4. Fits'
  BY Zenon, <1>0, <1>3 DEF IInv, Fits
<1> QED
  BY <1>0, <1>1, <1>2, <1>4, Offline DEF StartRedo

(* Redo: a record's PREPARE comes before what finishes it, so that the order of the log
   is enough for the map to hold the unfinished ones. *)
LEMMA RedoneMap ==
  ASSUME IInv, Redo, NEW x \in Xacts
  PROVE  x \in map' <=> /\ \E i \in wal[control].redo..replay : wal[i].type = "prepare" /\ wal[i].xid = x
                        /\ ~FinishedBy(x, replay)
<1> DEFINE r == wal[replay]
<1>0. /\ replay \in wal[control].redo..Len(wal) /\ wal[control].redo \in Nat /\ wal[control].redo > 0 /\ Len(wal) \in Nat
      /\ map' = RedoRecord(map, r)
      /\ x \in map <=> /\ \E i \in wal[control].redo..(replay - 1) : wal[i].type = "prepare" /\ wal[i].xid = x
                       /\ ~FinishedBy(x, replay - 1)
  <2>1. server = "redo" /\ Replayed /\ map' = RedoRecord(map, r)
    BY Zenon DEF IInv, Redo
  <2> QED
    BY Zenon, <2>1, LogTypes DEF Replayed
<1>r. replay \in 1..Len(wal) /\ r \in Record
  <2>1. replay \in 1..Len(wal) /\ wal \in Seq(Record)
    BY <1>0, LogTypes
  <2> QED
    BY Zenon, <2>1, RecordType
<1>1. /\ FinishedBy(x, replay) <=> FinishedBy(x, replay - 1) \/ (r.type \in Finish /\ r.xid = x)
      /\ (\E i \in wal[control].redo..replay : wal[i].type = "prepare" /\ wal[i].xid = x) <=>
           \/ \E i \in wal[control].redo..(replay - 1) : wal[i].type = "prepare" /\ wal[i].xid = x
           \/ r.type = "prepare" /\ r.xid = x
  BY <1>0, <1>r DEF FinishedBy
<1>2. CASE r.type = "prepare"
  <2>1. map' = map \cup {r.xid}
    BY Zenon, <1>0, <1>2 DEF RedoRecord
  <2>2. r.xid = x => ~FinishedBy(x, replay - 1)
    <3> SUFFICES ASSUME r.xid = x, NEW j \in 1..(replay - 1), wal[j].type \in Finish, wal[j].xid = x
                 PROVE  FALSE
      BY Zenon DEF FinishedBy
    <3>1. PICK i \in 1..j : wal[i].type = "prepare" /\ wal[i].xid = x
      BY <1>r DEF IInv, LogFinish, PreparedBy
    <3>2. i \in 1..Len(wal) /\ i # replay
      BY <1>r, <3>1
    <3> QED
      BY Zenon, <1>2, <1>r, <3>1, <3>2 DEF IInv, LogOrder
  <2> QED
    BY Zenon, <1>0, <1>1, <1>2, <2>1, <2>2 DEF Finish
<1>3. CASE r.type \in Finish
  <2>1. map' = map \ {r.xid}
    BY Zenon, <1>0, <1>3 DEF RedoRecord, Finish
  <2> QED
    BY Zenon, <1>0, <1>1, <1>3, <2>1 DEF Finish
<1>4. CASE r.type = "checkpoint"
  <2>1. map' = map
    BY Zenon, <1>0, <1>4 DEF RedoRecord
  <2> QED
    BY Zenon, <1>0, <1>1, <1>4, <2>1 DEF Finish
<1> QED
  BY Zenon, <1>r, <1>2, <1>3, <1>4 DEF Record

(* Redo keeps the invariant: at the end of the log the map is what is unfinished. *)
LEMMA RedoStep ==
  ASSUME IInv, Redo
  PROVE  IInv'
<1>0. /\ server = "redo" /\ ckpt.at = "idle" /\ UNCHANGED <<wal, flushed, control, ckpt>>
      /\ server' = (IF replay = Len(wal) THEN "redone" ELSE "redo") /\ replay' = replay + 1
      /\ map' = RedoRecord(map, wal[replay])
  BY Zenon DEF IInv, Redo, CheckpointWhen, walVars
<1>1. /\ replay \in wal[control].redo..Len(wal) /\ wal[control].redo \in Nat /\ wal[control].redo > 0 /\ Len(wal) \in Nat
      /\ flushed = Len(wal)
  BY Zenon, <1>0, LogTypes DEF IInv, Replayed
<1>t. map' \subseteq Xacts
  <2>1. wal[replay] \in Record /\ map \subseteq Xacts
    BY <1>1, RecordType DEF IInv, TypeOK
  <2> QED
    BY Zenon, <1>0, <2>1 DEF RedoRecord, Record
<1>m. \A x \in Xacts : x \in map' <=>
         /\ \E i \in wal[control].redo..replay : wal[i].type = "prepare" /\ wal[i].xid = x
         /\ ~FinishedBy(x, replay)
  BY Zenon, RedoneMap
<1>k. /\ \A y, n : (PreparedBy(y, n)' <=> PreparedBy(y, n)) /\ (FinishedBy(y, n)' <=> FinishedBy(y, n))
      /\ \A n : Unfinished(n)' = Unfinished(n)
  BY Zenon, <1>0, LogKept
<1>2. CASE replay = Len(wal)
  <2>1. map' = Unfinished(Len(wal))
    BY Zenon, <1>t, <1>m, <1>2 DEF Unfinished
  <2>2. Replayed'
    <3> SUFFICES ASSUME NEW x \in map' PROVE PreparedBy(x, Len(wal)) /\ ~FinishedBy(x, Len(wal))
      BY Zenon, <1>0, <1>1, <1>2, <1>k DEF Replayed
    <3> QED
      BY <1>1, <2>1 DEF Unfinished, PreparedBy
  <2>3. Fits'
    <3>1. Cardinality(map') <= MaxPrepared
      BY Zenon, <1>0, <2>1 DEF IInv, Fits
    <3>2. \A n \in flushed'..Len(wal') : n = Len(wal)
      BY <1>0, <1>1
    <3> QED
      BY Zenon, <1>0, <1>2, <1>k, <2>1, <3>1, <3>2 DEF Fits
  <2> QED
    BY <1>0, <1>1, <1>t, <1>2, <2>2, <2>3, Offline DEF Redo
<1>3. CASE replay # Len(wal)
  <2>1. replay' \in wal'[control'].redo..Len(wal') /\ replay' - 1 = replay
    BY <1>0, <1>1, <1>3
  <2>2. Replayed'
    <3>1. \A x \in Xacts : x \in map' <=>
            /\ \E i \in wal'[control'].redo..(replay' - 1) : wal'[i].type = "prepare" /\ wal'[i].xid = x
            /\ ~FinishedBy(x, replay' - 1)
      BY Zenon, <1>0, <1>m, <2>1
    <3>2. \A x \in Xacts : FinishedBy(x, replay - 1)' <=> FinishedBy(x, replay' - 1)
      BY Zenon, <1>0 DEF FinishedBy
    <3> QED
      BY Zenon, <1>0, <1>1, <1>3, <2>1, <3>1, <3>2 DEF Replayed
  <2>3. Fits'
    BY Zenon, <1>0, <1>3, <1>k DEF IInv, Fits
  <2> QED
    BY <1>0, <1>1, <1>t, <1>3, <2>2, <2>3, Offline DEF Redo
<1> QED
  BY Zenon, <1>2, <1>3

(* RecoverPreparedTransactions: everything in the map gets an entry that can be finished. *)
LEMMA RecoverPreparedTransactionsStep ==
  ASSUME IInv, RecoverPreparedTransactions
  PROVE  IInv'
<1>u. UNCHANGED <<at, work, active, wal, flushed, control, ckpt, verdict, answered, finished, restarts, checkpoints>>
  BY Zenon DEF RecoverPreparedTransactions, walVars, backendVars, masterVars, bounds
<1>0. /\ server = "reload" /\ server' = "up" /\ map' = {} /\ replay' = 0
      /\ table' = [x \in Xacts |-> IF x \in map THEN Entry(TRUE, NoBackend) ELSE Absent]
      /\ \A b \in Backends : at[b] = "idle"
      /\ \A x \in map : PreparedBy(x, flushed) /\ ~FinishedBy(x, Len(wal))
      /\ flushed \in Nat /\ Len(wal) \in Nat /\ flushed <= Len(wal) /\ map \subseteq Xacts
  BY Zenon, LogTypes DEF IInv, TypeOK, RecoverPreparedTransactions, Locks, Replayed
<1>i. \A x \in Xacts : InTable(x)' <=> x \in map
  BY Zenon, <1>0, NoBackendIsNone DEF InTable, Entry, Absent
<1>k. /\ LogOrder' /\ LogCheckpoint'
      /\ \A y, n : (PreparedBy(y, n)' <=> PreparedBy(y, n)) /\ (FinishedBy(y, n)' <=> FinishedBy(y, n))
      /\ \A n : Unfinished(n)' = Unfinished(n)
  BY Zenon, <1>u, LogKept
<1>1. TypeOK'
  BY Zenon, <1>u, <1>0 DEF IInv, TypeOK, Entry
<1>2. Locks' /\ Down' /\ CheckpointWhen' /\ Replayed'
  BY Zenon, <1>u, <1>0, NoBackendIsNone DEF Locks, Down, CheckpointWhen, Replayed, Entry, Absent
<1>3. \A b \in Backends : Preparing(b)' /\ Finishing(b)'
  BY Zenon, <1>u, <1>0 DEF Preparing, Finishing
<1>4. \A x \in Xacts : Free(x)' /\ Fresh(x)'
  <2> SUFFICES ASSUME NEW x \in Xacts PROVE Free(x)' /\ Fresh(x)'
    BY Zenon
  <2>1. Free(x)'
    BY Zenon, <1>u, <1>0, <1>k, NoBackendIsNone DEF Free, Entry, Absent
  <2>2. Fresh(x)'
    <3>1. x \in map => PreparedBy(x, Len(wal))
      BY Zenon, <1>0, Longer
    <3> QED
      BY Zenon, <1>u, <1>i, <1>k, <3>1 DEF IInv, Fresh
  <2> QED
    BY Zenon, <2>1, <2>2
<1>5. LogFinish'
  BY Zenon, <1>u, <1>k DEF IInv, LogFinish
<1>6. TableFits'
  <2>1. {x \in Xacts : InTable(x)'} = map
    BY Zenon, <1>0, <1>i
  <2> QED
    BY Zenon, <1>0, <2>1 DEF IInv, Fits, TableFits
<1>7. Fits'
  BY Zenon, <1>u, <1>0, <1>i, <1>k DEF IInv, Fits
<1> QED
  BY Zenon, <1>k, <1>1, <1>2, <1>3, <1>4, <1>5, <1>6, <1>7 DEF IInv

(* A step that changes nothing *)
LEMMA StutterStep ==
  ASSUME IInv, UNCHANGED vars
  PROVE  IInv'
<1>1. verdict \in [Xacts -> {"none"} \cup Finish] /\ finished \subseteq Xacts
  BY Zenon DEF IInv, TypeOK
<1> QED
  BY Zenon, <1>1, Quiet DEF vars, backendVars, masterVars

(* Every step of the segment keeps the invariant. *)
LEMMA NextStep ==
  ASSUME IInv, [Next]_vars
  PROVE  IInv'
<1>1. ASSUME NEW b \in Backends, Backend(b) \/ AtAbort(b)
      PROVE  IInv'
  BY Zenon, <1>1, InsertPrepareStep, MarkAsPreparedStep, PostPrepareStep, InsertFinishStep, FlushFinishStep, InvalidateStep,
     RemoveGXactStep, AtAbortStep DEF Backend
<1>2. ASSUME NEW b \in Backends, NEW x \in Xacts, MarkAsPreparing(b, x) \/ LockGXact(b, x)
      PROVE  IInv'
  BY Zenon, <1>2, MarkAsPreparingStep, LockGXactStep
<1>3. ASSUME NEW x \in Xacts, TableFull(x) \/ NotFound(x) \/ DecideCommit(x) \/ DecideAbort(x)
      PROVE  IInv'
  BY Zenon, <1>3, QuietSteps
<1>4. CASE StartCheckpoint \/ Checkpointer
  BY Zenon, <1>4, StartCheckpointStep, ReadDelayingStep, InsertCheckpointStep, FinishCheckpointStep DEF Checkpointer
<1>5. CASE Crash \/ StartRedo \/ Redo \/ RecoverPreparedTransactions
  BY Zenon, <1>5, CrashStep, StartRedoStep, RedoStep, RecoverPreparedTransactionsStep
<1>6. CASE UNCHANGED vars
  BY Zenon, <1>6, StutterStep
<1> QED
  BY Zenon, <1>1, <1>2, <1>3, <1>4, <1>5, <1>6 DEF Next

(* It holds at the start: an empty table and a log with one checkpoint. *)
LEMMA InitIInv == Init => IInv
<1> SUFFICES ASSUME Init PROVE IInv
  BY Zenon
<1> DEFINE r == [type |-> "checkpoint", redo |-> 1, prepared |-> {}]
<1>0. /\ wal = <<r>> /\ r \in Record /\ flushed = 1 /\ control = 1 /\ server = "up" /\ active = Xacts
      /\ r.type = "checkpoint" /\ r.redo = 1 /\ r.prepared = {}
  BY Zenon, Recs DEF Init
<1> HIDE DEF r
<1>w. wal \in Seq(Record) /\ Len(wal) = 1 /\ wal[1] = r
  BY <1>0
<1>a. /\ \A x \in Xacts : table[x] = Absent /\ ~InTable(x)
      /\ \A b \in Backends : at[b] = "idle"
      /\ answered = {} /\ ckpt.at = "idle"
  BY Zenon DEF Init, InTable, IdleCheckpointer
<1>1. TypeOK
  <2>1. (CHOOSE x \in Xacts : TRUE) \in Xacts
    BY Zenon, SetsFinite
  <2>2. ckpt \in [at : {"idle", "vxids", "wait", "flush"}, redo : Nat, vxids : SUBSET Backends]
    BY Zenon DEF Init, IdleCheckpointer
  <2> QED
    BY <1>0, <1>w, <2>1, <2>2 DEF Init, TypeOK
<1>2. Locks /\ Down /\ CheckpointWhen
  BY <1>0, <1>a, NoBackendIsNone DEF Locks, Down, CheckpointWhen, Absent
<1>3. \A b \in Backends : Preparing(b) /\ Finishing(b)
  BY Zenon, <1>a DEF Preparing, Finishing
<1>4. \A x : ~PreparedBy(x, Len(wal)) /\ ~FinishedBy(x, Len(wal))
  BY <1>0, <1>w DEF PreparedBy, FinishedBy, Finish
<1>5. \A x \in Xacts : Free(x) /\ Fresh(x)
  BY <1>a, <1>4, NoBackendIsNone DEF Free, Fresh, Absent
<1>6. LogOrder /\ LogFinish
  BY <1>0, <1>w DEF LogOrder, LogFinish, Finish
<1>7. LogCheckpoint
  BY <1>0, <1>w, <1>a DEF LogCheckpoint
<1>8. Replayed
  BY Zenon, <1>0 DEF Replayed
<1>9. TableFits
  <2>1. {x \in Xacts : InTable(x)} = {}
    BY Zenon, <1>a
  <2> QED
    BY <2>1, BoundsNat, FS_EmptySet DEF TableFits
<1>10. Fits
  BY <1>0, <1>w DEF Fits, Unfinished
<1> QED
  BY Zenon, <1>1, <1>2, <1>3, <1>5, <1>6, <1>7, <1>8, <1>9, <1>10 DEF IInv
=============================================================================
