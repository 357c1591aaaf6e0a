--------------------------- MODULE SegTableProofs ---------------------------
(***************************************************************************)
(* The backends' part of the inductive invariant of SegTwoPhase: facts about *)
(* its log, and the steps of PREPARE, COMMIT PREPARED and ROLLBACK PREPARED *)
(***************************************************************************)
EXTENDS SegInvariant, FiniteSetTheorems, TLAPS

-----------------------------------------------------------------------------
(* The log *)

(* XLogInsert leaves the records before the new one as they are. *)
LEMMA Appended ==
  ASSUME wal \in Seq(Record), NEW r \in Record, wal' = Append(wal, r)
  PROVE  /\ wal' \in Seq(Record) /\ Len(wal') = Len(wal) + 1 /\ Len(wal) \in Nat
         /\ wal'[Len(wal) + 1] = r
         /\ \A i \in 1..Len(wal) : wal'[i] = wal[i]
  OBVIOUS

(* A crash leaves a first part of the log. *)
LEMMA Cut ==
  ASSUME wal \in Seq(Record), NEW n \in 0..Len(wal), wal' = SubSeq(wal, 1, n)
  PROVE  /\ wal' \in Seq(Record) /\ Len(wal') = n /\ Len(wal) \in Nat
         /\ \A i \in 1..n : wal'[i] = wal[i]
  OBVIOUS

(* Every element of the log is a record. *)
LEMMA RecordType ==
  ASSUME wal \in Seq(Record), NEW i \in 1..Len(wal)
  PROVE  wal[i] \in Record
  OBVIOUS

(* The records that the actions insert are records. *)
LEMMA Recs ==
  /\ \A t \in {"prepare"} \cup Finish, x \in Xacts : [type |-> t, xid |-> x] \in Record
  /\ \A r \in Nat, p \in SUBSET Xacts : [type |-> "checkpoint", redo |-> r, prepared |-> p] \in Record
  BY Zenon DEF Record

(* What the log says of a transaction does not change when a record is added behind. *)
LEMMA AppendedBy ==
  ASSUME wal \in Seq(Record), NEW r \in Record, wal' = Append(wal, r), NEW x \in Xacts
  PROVE  /\ \A n \in 0..Len(wal) : /\ PreparedBy(x, n)' <=> PreparedBy(x, n)
                                   /\ FinishedBy(x, n)' <=> FinishedBy(x, n)
         /\ PreparedBy(x, Len(wal))' <=> PreparedBy(x, Len(wal)) \/ (r.type = "prepare" /\ r.xid = x)
         /\ FinishedBy(x, Len(wal))' <=> FinishedBy(x, Len(wal)) \/ (r.type \in Finish /\ r.xid = x)
  BY Appended DEF PreparedBy, FinishedBy

(* The order of the records survives an insert that repeats none. *)
LEMMA AppendedOrder ==
  ASSUME LogOrder, wal \in Seq(Record), NEW r \in Record, wal' = Append(wal, r),
         r.type = "prepare" => ~PreparedBy(r.xid, Len(wal)),
         r.type \in Finish => ~FinishedBy(r.xid, Len(wal))
  PROVE  LogOrder'
<1>a. /\ Len(wal') = Len(wal) + 1 /\ Len(wal) \in Nat
      /\ wal'[Len(wal) + 1] = r
      /\ \A i \in 1..Len(wal) : wal'[i] = wal[i]
  BY Zenon, Appended
<1> SUFFICES ASSUME NEW i \in 1..(Len(wal) + 1), NEW j \in 1..(Len(wal) + 1)
             PROVE  /\ wal'[i].type = "prepare" /\ wal'[j].type = "prepare" /\ wal'[i].xid = wal'[j].xid => i = j
                    /\ wal'[i].type \in Finish /\ wal'[j].type \in Finish /\ wal'[i].xid = wal'[j].xid => i = j
  BY Zenon, <1>a DEF LogOrder
<1>1. CASE i \in 1..Len(wal) /\ j \in 1..Len(wal)
  BY Zenon, <1>1, <1>a DEF LogOrder
<1>2. CASE i = Len(wal) + 1 /\ j \in 1..Len(wal)
  BY Zenon, <1>2, <1>a DEF PreparedBy, FinishedBy
<1>3. CASE i \in 1..Len(wal) /\ j = Len(wal) + 1
  BY Zenon, <1>3, <1>a DEF PreparedBy, FinishedBy
<1> QED
  BY <1>1, <1>2, <1>3, <1>a

(* ... and the REDO pointers, when it is not a checkpoint. *)
LEMMA AppendedCheckpoint ==
  ASSUME LogCheckpoint, TypeOK, NEW r \in Record, wal' = Append(wal, r), r.type # "checkpoint",
         UNCHANGED <<ckpt, control>>
  PROVE  LogCheckpoint'
<1>a. /\ Len(wal') = Len(wal) + 1 /\ Len(wal) \in Nat
      /\ wal'[Len(wal) + 1] = r
      /\ \A i \in 1..Len(wal) : wal'[i] = wal[i]
  BY Zenon, Appended DEF TypeOK
<1>0. control \in 1..Len(wal) /\ wal[control].redo \in Nat /\ ckpt.redo \in Nat
  BY <1>a DEF TypeOK, LogCheckpoint
<1>1. \A i \in 1..Len(wal') : wal'[i].type = "checkpoint" => wal'[i].redo \in 1..i /\ wal'[i].prepared = {}
  BY <1>a DEF LogCheckpoint
<1>2. ckpt'.at # "idle" => ckpt'.redo \in wal'[control'].redo..(Len(wal') + 1) /\ ckpt'.redo > 0
  BY <1>0, <1>a DEF LogCheckpoint
<1>3. ckpt'.at = "flush" =>
       \E n \in 1..Len(wal') : /\ wal'[n].type = "checkpoint" /\ wal'[n].redo = ckpt'.redo
                               /\ \A i \in (n + 1)..Len(wal') : wal'[i].type # "checkpoint"
  <2> SUFFICES ASSUME ckpt.at = "flush"
               PROVE  \E n \in 1..Len(wal') : /\ wal'[n].type = "checkpoint" /\ wal'[n].redo = ckpt'.redo
                                              /\ \A i \in (n + 1)..Len(wal') : wal'[i].type # "checkpoint"
    BY Zenon
  <2>1. PICK n \in 1..Len(wal) : /\ wal[n].type = "checkpoint" /\ wal[n].redo = ckpt.redo
                                 /\ \A i \in (n + 1)..Len(wal) : wal[i].type # "checkpoint"
    BY Zenon DEF LogCheckpoint
  <2>2. n \in 1..Len(wal') /\ wal'[n].type = "checkpoint" /\ wal'[n].redo = ckpt'.redo
    BY <1>a, <2>1
  <2>3. \A i \in (n + 1)..Len(wal') : wal'[i].type # "checkpoint"
    BY <1>a, <2>1
  <2> QED
    BY Zenon, <2>2, <2>3
<1> QED
  BY Zenon, <1>1, <1>2, <1>3 DEF LogCheckpoint

(* ... its type *)
LEMMA AppendedType ==
  ASSUME TypeOK, NEW r \in Record, wal' = Append(wal, r), UNCHANGED <<flushed, control>>
  PROVE  /\ wal' \in Seq(Record) /\ flushed' \in 1..Len(wal')
         /\ control' \in 1..flushed' /\ wal'[control'].type = "checkpoint"
<1>a. /\ wal' \in Seq(Record) /\ Len(wal') = Len(wal) + 1 /\ Len(wal) \in Nat
      /\ \A i \in 1..Len(wal) : wal'[i] = wal[i]
  BY Zenon, Appended DEF TypeOK
<1>1. flushed \in 1..Len(wal) /\ control \in 1..flushed /\ wal[control].type = "checkpoint"
  BY Zenon DEF TypeOK
<1>2. control \in 1..Len(wal)
  BY <1>1, <1>a
<1> QED
  BY <1>a, <1>1, <1>2

(* ... and what a crash would find unfinished, the new record apart. *)
LEMMA AppendedUnfinished ==
  ASSUME TypeOK, LogCheckpoint, NEW r \in Record, wal' = Append(wal, r), UNCHANGED control,
         NEW n \in 0..(Len(wal) + 1), NEW x \in Unfinished(n)'
  PROVE  /\ n <= Len(wal) => x \in Unfinished(n)
         /\ n = Len(wal) + 1 => /\ x \in Unfinished(Len(wal)) \/ (r.type = "prepare" /\ r.xid = x)
                                /\ ~(r.type \in Finish /\ r.xid = x)
<1>a. /\ Len(wal') = Len(wal) + 1 /\ Len(wal) \in Nat
      /\ wal'[Len(wal) + 1] = r
      /\ \A i \in 1..Len(wal) : wal'[i] = wal[i]
  BY Zenon, Appended DEF TypeOK
<1>0. control \in 1..Len(wal) /\ wal[control].redo \in Nat /\ wal[control].redo > 0
  BY <1>a DEF TypeOK, LogCheckpoint
<1>1. x \in Xacts /\ ~FinishedBy(x, n)'
  BY Zenon DEF Unfinished
<1>2. PICK i \in wal[control].redo..n : wal'[i].type = "prepare" /\ wal'[i].xid = x
  BY Zenon, <1>0, <1>a DEF Unfinished
<1>3. CASE n <= Len(wal)
  <2>1. wal[i].type = "prepare" /\ wal[i].xid = x
    BY <1>0, <1>a, <1>2, <1>3
  <2>2. ~FinishedBy(x, n)
    BY <1>1, <1>3, <1>a DEF FinishedBy
  <2> QED
    BY <1>0, <1>1, <1>2, <1>3, <2>1, <2>2 DEF Unfinished
<1>4. CASE n = Len(wal) + 1
  <2>1. ~FinishedBy(x, Len(wal)) /\ ~(r.type \in Finish /\ r.xid = x)
    BY <1>1, <1>4, <1>a DEF FinishedBy
  <2> QED
    BY <1>0, <1>1, <1>2, <1>4, <1>a, <2>1 DEF Unfinished
<1> QED
  BY Zenon, <1>0, <1>3, <1>4

(* An insert prepares: InsertPrepare *)
LEMMA InsertPrepareStep ==
  ASSUME IInv, NEW b \in Backends, InsertPrepare(b)
  PROVE  IInv'
<1> DEFINE r == [type |-> "prepare", xid |-> work[b]]
<1>i. /\ TypeOK /\ Locks /\ Down /\ LogOrder /\ LogFinish /\ LogCheckpoint /\ CheckpointWhen
      /\ Replayed /\ TableFits /\ Fits
      /\ \A c \in Backends : Preparing(c) /\ Finishing(c)
      /\ \A x \in Xacts : Free(x) /\ Fresh(x)
  BY Zenon DEF IInv
<1>r. r \in Record /\ wal' = Append(wal, r) /\ work[b] \in Xacts /\ wal \in Seq(Record)
  BY Zenon, <1>i, Recs DEF InsertPrepare, Insert, TypeOK
<1>x. r.type = "prepare" /\ r.xid = work[b]
  BY Zenon
<1> HIDE DEF r
<1>a. /\ wal' \in Seq(Record) /\ Len(wal') = Len(wal) + 1 /\ Len(wal) \in Nat
      /\ wal'[Len(wal) + 1] = r
      /\ \A i \in 1..Len(wal) : wal'[i] = wal[i]
  BY Zenon, <1>r, Appended
<1>b. \A x \in Xacts :
         /\ \A n \in 0..Len(wal) : /\ PreparedBy(x, n)' <=> PreparedBy(x, n)
                                   /\ FinishedBy(x, n)' <=> FinishedBy(x, n)
         /\ PreparedBy(x, Len(wal))' <=> PreparedBy(x, Len(wal)) \/ (r.type = "prepare" /\ r.xid = x)
         /\ FinishedBy(x, Len(wal))' <=> FinishedBy(x, Len(wal)) \/ (r.type \in Finish /\ r.xid = x)
  BY Zenon, <1>r, AppendedBy
<1>0. flushed \in 1..Len(wal) /\ control \in 1..flushed
  BY Zenon, <1>i DEF TypeOK
<1>1. TypeOK'
  BY Zenon, <1>i, <1>r, AppendedType DEF TypeOK, InsertPrepare, Step, startVars, masterVars, bounds
<1>2. Locks' /\ Down'
  BY <1>i, <1>1 DEF TypeOK, Locks, Down, InsertPrepare, Step, startVars
<1>3. \A c \in Backends : Preparing(c)'
  BY <1>i, <1>a, <1>b, <1>x DEF TypeOK, Preparing, InsertPrepare, Step, startVars, masterVars, Locks, Finish
<1>4. \A c \in Backends : Finishing(c)'
  BY <1>i, <1>a, <1>b, <1>x DEF TypeOK, Finishing, InsertPrepare, Step, startVars, masterVars, Locks, Finish
<1>5. \A x \in Xacts : Free(x)'
  BY <1>i, <1>a, <1>b, <1>x DEF TypeOK, Free, InsertPrepare, Locks, Finish
<1>6. \A x \in Xacts : Fresh(x)'
  BY <1>i, <1>a, <1>b, <1>x, NoBackendIsNone DEF TypeOK, Fresh, InTable, InsertPrepare, Step, masterVars, Locks, Absent
<1>7. LogOrder'
  BY Zenon, <1>i, <1>r, <1>x, AppendedOrder DEF Preparing, InsertPrepare, Step, Finish
<1>8. LogFinish'
  <2> SUFFICES ASSUME NEW i \in 1..Len(wal), wal[i].type \in Finish
               PROVE  /\ wal[i].type = verdict'[wal[i].xid] /\ PreparedBy(wal[i].xid, i)'
                      /\ i > flushed' => \E c \in Backends : work'[c] = wal[i].xid /\ at'[c] = "finishInserted"
    BY <1>a, <1>x DEF LogFinish, Finish
  <2>1. wal[i].xid \in Xacts
    BY Zenon, <1>r, RecordType DEF Record, Finish
  <2>2. PreparedBy(wal[i].xid, i)'
    BY <1>a, <1>b, <2>1, <1>i DEF LogFinish
  <2> QED
    BY Zenon, <1>i, <2>2 DEF LogFinish, InsertPrepare, Step, masterVars, TypeOK
<1>12. CheckpointWhen'
  BY Zenon, <1>i DEF CheckpointWhen, InsertPrepare, startVars
<1>9. LogCheckpoint'
  BY Zenon, <1>i, <1>r, <1>x, AppendedCheckpoint DEF InsertPrepare
<1>10. Replayed'
  BY Zenon, <1>i DEF Replayed, InsertPrepare, Step, Locks, startVars
<1>11. TableFits' /\ Fits'
  <2>1. server = "up" /\ InTable(work[b])
    BY <1>i, NoBackendIsNone DEF InsertPrepare, Step, Locks, InTable, Absent
  <2>2. UNCHANGED <<table, server, map, flushed>> /\ \A x \in Xacts : InTable(x)' <=> InTable(x)
    BY Zenon DEF InsertPrepare, startVars, InTable
  <2>3. \A n \in flushed'..Len(wal') : \A x \in Unfinished(n)' : InTable(x)'
    <3> SUFFICES ASSUME NEW n \in flushed..(Len(wal) + 1), NEW x \in Unfinished(n)' PROVE InTable(x)
      BY Zenon, <1>a, <2>2 DEF Unfinished
    <3>1. /\ n <= Len(wal) => x \in Unfinished(n)
          /\ n = Len(wal) + 1 => x \in Unfinished(Len(wal)) \/ x = work[b]
      BY <1>i, <1>0, <1>a, <1>r, <1>x, AppendedUnfinished DEF InsertPrepare
    <3> QED
      BY <1>i, <1>0, <1>a, <2>1, <3>1 DEF Fits
  <2> QED
    BY Zenon, <1>i, <2>1, <2>2, <2>3 DEF Fits, TableFits
<1> QED
  BY Zenon, <1>1, <1>2, <1>3, <1>4, <1>5, <1>6, <1>7, <1>8, <1>9, <1>10, <1>11, <1>12 DEF IInv

(* A step that inserts nothing and leaves the control file and the checkpointer alone *)
LEMMA LogKept ==
  ASSUME IInv, UNCHANGED <<wal, control, ckpt>>
  PROVE  /\ LogOrder' /\ LogCheckpoint'
         /\ \A x, n : (PreparedBy(x, n)' <=> PreparedBy(x, n)) /\ (FinishedBy(x, n)' <=> FinishedBy(x, n))
         /\ \A n : Unfinished(n)' = Unfinished(n)
<1>1. LogOrder'
  BY DEF IInv, LogOrder
<1>2. LogCheckpoint'
  BY Zenon DEF IInv, LogCheckpoint
<1>3. \A x, n : (PreparedBy(x, n)' <=> PreparedBy(x, n)) /\ (FinishedBy(x, n)' <=> FinishedBy(x, n))
  BY Zenon DEF PreparedBy, FinishedBy
<1>4. \A n : Unfinished(n)' = Unfinished(n)
  BY Zenon DEF Unfinished, FinishedBy
<1> QED
  BY Zenon, <1>1, <1>2, <1>3, <1>4

(* More of the log prepares and finishes what less of it does. *)
LEMMA Longer ==
  ASSUME NEW m \in Nat, NEW n \in Nat, m <= n, NEW x
  PROVE  (PreparedBy(x, m) => PreparedBy(x, n)) /\ (FinishedBy(x, m) => FinishedBy(x, n))
  BY DEF PreparedBy, FinishedBy

(* XLogFlush up to a record that is there *)
LEMMA Flushed ==
  ASSUME TypeOK, NEW type, NEW x, \E i \in 1..Len(wal) : wal[i].type = type /\ wal[i].xid = x,
         FlushTo(Position(type, x))
  PROVE  /\ flushed' \in flushed..Len(wal) /\ Len(wal) \in Nat
         /\ \E i \in 1..flushed' : i <= Len(wal) /\ wal[i].type = type /\ wal[i].xid = x
<1> DEFINE p == Position(type, x)
<1>1. wal \in Seq(Record) /\ flushed \in 1..Len(wal) /\ Len(wal) \in Nat
  BY DEF TypeOK
<1>2. DOMAIN wal = 1..Len(wal)
  BY <1>1
<1>3. p \in 1..Len(wal) /\ wal[p].type = type /\ wal[p].xid = x
  BY Zenon, <1>2 DEF Position
<1>4. flushed' = IF flushed < p THEN p ELSE flushed
  BY Zenon DEF FlushTo
<1> HIDE DEF p
<1> QED
  BY <1>1, <1>3, <1>4

(* The log and the pointers into it *)
LEMMA LogTypes ==
  ASSUME IInv
  PROVE  /\ wal \in Seq(Record) /\ Len(wal) \in Nat /\ flushed \in 1..Len(wal) /\ control \in 1..flushed
         /\ flushed \in Nat /\ flushed <= Len(wal) /\ control \in Nat /\ control \in 1..Len(wal)
         /\ wal[control].type = "checkpoint" /\ wal[control].prepared = {}
         /\ wal[control].redo \in 1..control /\ wal[control].redo \in 1..Len(wal)
         /\ wal[control].redo \in Nat /\ wal[control].redo > 0
<1>1. /\ wal \in Seq(Record) /\ flushed \in 1..Len(wal) /\ control \in 1..flushed
      /\ wal[control].type = "checkpoint"
  BY Zenon DEF IInv, TypeOK
<1>2. Len(wal) \in Nat /\ flushed \in Nat /\ flushed <= Len(wal) /\ control \in Nat /\ control \in 1..Len(wal)
  BY <1>1
<1>3. wal[control].redo \in 1..control /\ wal[control].prepared = {}
  BY Zenon, <1>1, <1>2 DEF IInv, LogCheckpoint
<1> QED
  BY <1>1, <1>2, <1>3

(* The frame of a backend's step that inserts nothing: it touches the entry of x only. *)
Touches(b, x) ==
  /\ server = "up" /\ UNCHANGED <<server, map, replay, verdict, wal, control, ckpt>>
  /\ flushed' \in flushed..Len(wal)
  /\ \A c \in Backends \ {b} : /\ at'[c] = at[c] /\ work'[c] = work[c]
                               /\ at[c] # "idle" => work[c] # x
  /\ \A y \in Xacts \ {x} : /\ table'[y] = table[y]
                            /\ y \in active' => y \in active
                            /\ y \in answered' => y \in answered

(* What such a step leaves as it was *)
Spared(b, x) ==
  /\ LogOrder' /\ LogCheckpoint' /\ CheckpointWhen' /\ Down' /\ Replayed'
  /\ \A c \in Backends \ {b} : Preparing(c)' /\ Finishing(c)'
  /\ \A y \in Xacts \ {x} : Free(y)' /\ Fresh(y)'
  /\ \A y, n : (PreparedBy(y, n)' <=> PreparedBy(y, n)) /\ (FinishedBy(y, n)' <=> FinishedBy(y, n))
  /\ flushed' \in 1..Len(wal') /\ control' \in 1..flushed' /\ wal'[control'].type = "checkpoint"

(* It does so because the entry of another transaction is another backend's. *)
LEMMA Untouched ==
  ASSUME IInv, NEW b \in Backends, NEW x \in Xacts, Touches(b, x)
  PROVE  Spared(b, x)
<1>k. /\ LogOrder' /\ LogCheckpoint'
      /\ \A y, n : (PreparedBy(y, n)' <=> PreparedBy(y, n)) /\ (FinishedBy(y, n)' <=> FinishedBy(y, n))
  BY Zenon, LogKept DEF Touches
<1>t. flushed \in Nat /\ flushed' \in Nat /\ flushed <= flushed' /\ Len(wal) \in Nat /\ wal' = wal
  BY DEF IInv, TypeOK, Touches
<1>l. \A y : (PreparedBy(y, flushed) => PreparedBy(y, flushed)') /\ (FinishedBy(y, flushed) => FinishedBy(y, flushed)')
  BY Zenon, <1>k, <1>t, Longer
<1>1. CheckpointWhen' /\ Down' /\ Replayed'
  BY Zenon DEF IInv, CheckpointWhen, Down, Replayed, Touches
<1>2. ASSUME NEW c \in Backends \ {b}
      PROVE  Preparing(c)' /\ Finishing(c)'
  <2>1. /\ at'[c] = at[c] /\ work'[c] = work[c] /\ work[c] \in Xacts /\ verdict' = verdict
        /\ at[c] # "idle" => table'[work[c]] = table[work[c]] /\ (work[c] \in answered' => work[c] \in answered)
    BY Zenon DEF IInv, TypeOK, Touches
  <2>2. Preparing(c) /\ Finishing(c)
    BY Zenon DEF IInv
  <2>3. Preparing(c)'
    BY Zenon, <1>k, <1>l, <1>t, <2>1, <2>2 DEF Preparing
  <2>4. Finishing(c)'
    BY Zenon, <1>k, <1>l, <1>t, <2>1, <2>2 DEF Finishing
  <2> QED
    BY Zenon, <2>3, <2>4
<1>3. ASSUME NEW y \in Xacts \ {x}
      PROVE  Free(y)' /\ Fresh(y)'
  <2>1. table'[y] = table[y] /\ (y \in active' => y \in active) /\ (y \in answered' => y \in answered)
    BY Zenon DEF Touches
  <2>2. Free(y) /\ Fresh(y)
    BY Zenon DEF IInv
  <2> QED
    BY Zenon, <1>k, <1>l, <1>t, <2>1, <2>2 DEF Free, Fresh, InTable
<1>4. flushed' \in 1..Len(wal') /\ control' \in 1..flushed' /\ wal'[control'].type = "checkpoint"
  BY <1>t DEF IInv, TypeOK, Touches
<1> QED
  BY Zenon, <1>k, <1>1, <1>2, <1>3, <1>4 DEF Spared

(* A step of a backend that is not about to flush leaves the records that finish as they are. *)
LEMMA LogFinishTouched ==
  ASSUME IInv, NEW b \in Backends, NEW x \in Xacts, Touches(b, x), at[b] # "finishInserted"
  PROVE  LogFinish'
<1>1. /\ wal' = wal /\ verdict' = verdict /\ flushed \in Nat /\ flushed' \in Nat /\ flushed <= flushed'
      /\ Len(wal) \in Nat
  BY DEF IInv, TypeOK, Touches
<1>2. \A c \in Backends : at[c] = "finishInserted" => at'[c] = at[c] /\ work'[c] = work[c]
  BY Zenon DEF Touches
<1>3. \A i \in 1..Len(wal) : i > flushed' => i > flushed
  BY <1>1
<1>4. LogFinish
  BY Zenon DEF IInv
<1> SUFFICES ASSUME NEW i \in 1..Len(wal), wal[i].type \in Finish
             PROVE  /\ wal[i].type = verdict[wal[i].xid] /\ PreparedBy(wal[i].xid, i)
                    /\ i > flushed' => \E c \in Backends : work'[c] = wal[i].xid /\ at'[c] = "finishInserted"
  BY <1>1 DEF LogFinish, PreparedBy
<1> QED
  BY <1>2, <1>3, <1>4 DEF LogFinish

(* Such a step keeps every entry with its backend, if it does so for x. *)
LEMMA LocksTouched ==
  ASSUME IInv, NEW b \in Backends, NEW x \in Xacts, Touches(b, x),
         at'[b] # "idle" => work'[b] = x,
         at[b] # "idle" => work[b] = x,
         IF at'[b] = "idle" THEN table'[x].locking \notin Backends ELSE table'[x].locking = b
  PROVE  Locks'
<1>1. ASSUME NEW c \in Backends, at'[c] # "idle"
      PROVE  server' = "up" /\ table'[work'[c]].locking = c
  BY <1>1 DEF IInv, Locks, Touches, TypeOK
<1>2. ASSUME NEW y \in Xacts, NEW c \in Backends, table'[y].locking = c
      PROVE  at'[c] # "idle" /\ work'[c] = y
  <2>1. CASE y = x
    BY Zenon, <1>2, <2>1
  <2>2. CASE y # x
    <3>1. at[c] # "idle" /\ work[c] = y
      BY Zenon, <1>2, <2>2 DEF IInv, Locks, Touches
    <3> QED
      BY Zenon, <2>2, <3>1 DEF Touches
  <2> QED
    BY Zenon, <2>1, <2>2
<1> QED
  BY Zenon, <1>1, <1>2 DEF Locks

(* It overfills nothing, if x was in the table or the log does not hold it as unfinished. *)
LEMMA FitsTouched ==
  ASSUME IInv, NEW b \in Backends, NEW x \in Xacts, Touches(b, x),
         \/ InTable(x)'
         \/ ~PreparedBy(x, Len(wal))
         \/ FinishedBy(x, flushed)
  PROVE  Fits'
<1>1. /\ server' = "up" /\ flushed \in Nat /\ flushed' \in Nat /\ flushed <= flushed' /\ Len(wal) \in Nat
      /\ wal' = wal /\ wal[control].redo \in Nat /\ wal[control].redo > 0
  BY DEF IInv, TypeOK, LogCheckpoint, Touches
<1>2. \A n : Unfinished(n)' = Unfinished(n)
  BY Zenon, LogKept DEF Touches
<1>3. \A n \in flushed'..Len(wal') : \A y \in Unfinished(n)' : InTable(y)'
  <2> SUFFICES ASSUME NEW n \in flushed..Len(wal), NEW y \in Unfinished(n)
               PROVE  InTable(y)'
    BY <1>1, <1>2
  <2>1. InTable(y) /\ y \in Xacts
    BY Zenon, <1>1 DEF IInv, Fits, Unfinished, Touches
  <2>2. CASE y # x
    BY Zenon, <2>1, <2>2 DEF Touches, InTable
  <2>3. CASE y = x
    <3>1. PreparedBy(x, Len(wal)) /\ ~FinishedBy(x, n)
      BY <1>1, <2>3 DEF Unfinished, PreparedBy
    <3>2. ~FinishedBy(x, flushed)
      BY <1>1, <3>1 DEF FinishedBy
    <3> QED
      BY Zenon, <2>3, <3>1, <3>2
  <2> QED
    BY Zenon, <2>2, <2>3
<1> QED
  BY Zenon, <1>1, <1>3 DEF Fits

(* MarkAsPreparing adds one entry. *)
LEMMA MarkAsPreparingStep ==
  ASSUME IInv, NEW b \in Backends, NEW x \in Xacts, MarkAsPreparing(b, x)
  PROVE  IInv'
<1>0. /\ at[b] = "idle" /\ at'[b] = "preparing" /\ work'[b] = x
      /\ ~InTable(x) /\ table'[x] = Entry(FALSE, b) /\ x \notin active' /\ x \in active
      /\ UNCHANGED <<wal, flushed, answered>>
  BY Zenon DEF IInv, TypeOK, MarkAsPreparing, Step, walVars, masterVars
<1>t. Touches(b, x)
  BY NoBackendIsNone DEF IInv, TypeOK, Touches, Locks, InTable, Absent, MarkAsPreparing, Step, walVars, startVars, masterVars
<1>u. Spared(b, x)
  BY Zenon, <1>t, Untouched
<1>1. TypeOK'
  BY Zenon DEF IInv, TypeOK, MarkAsPreparing, Step, Entry, walVars, startVars, masterVars, bounds
<1>2. Locks'
  BY <1>0, <1>t, LocksTouched DEF Entry
<1>p. ~PreparedBy(x, Len(wal)) /\ x \notin answered
  BY Zenon, <1>0 DEF IInv, Fresh
<1>e. ~FinishedBy(x, Len(wal))
  <2>1. LogFinish /\ Len(wal) \in Nat
    BY DEF IInv, TypeOK
  <2> QED
    BY <1>p, <2>1 DEF LogFinish, FinishedBy, PreparedBy
<1>3. Preparing(b)' /\ Finishing(b)' /\ Free(x)' /\ Fresh(x)'
  <2>1. /\ PreparedBy(x, Len(wal))' <=> PreparedBy(x, Len(wal))
        /\ FinishedBy(x, Len(wal))' <=> FinishedBy(x, Len(wal))
    BY Zenon, <1>0, <1>u DEF Spared
  <2> QED
    BY <1>0, <1>p, <1>e, <2>1, NoBackendIsNone DEF Preparing, Finishing, Free, Fresh, Entry
<1>4. LogFinish'
  BY Zenon, <1>0, <1>t, LogFinishTouched
<1>5. TableFits'
  <2> DEFINE T == {y \in Xacts : InTable(y)}
             U == {y \in Xacts : InTable(y)'}
  <2>1. IsFiniteSet(T) /\ Cardinality(T) \in Nat /\ Cardinality(T) < MaxPrepared /\ MaxPrepared \in Nat
    BY Zenon, SetsFinite, BoundsNat, FS_Subset, FS_CardinalityType DEF MarkAsPreparing
  <2>2. U = T \cup {x}
    BY <1>0, <1>t, NoBackendIsNone DEF Touches, InTable, Entry, Absent
  <2> HIDE DEF T, U
  <2>3. Cardinality(U) <= Cardinality(T) + 1 /\ Cardinality(U) \in Nat
    <3>1. Cardinality(T \cup {x}) = IF x \in T THEN Cardinality(T) ELSE Cardinality(T) + 1
      BY Zenon, <2>1, FS_AddElement
    <3> QED
      BY <2>1, <2>2, <3>1
  <2> QED
    BY <2>1, <2>3 DEF TableFits, U
<1>6. Fits'
  BY Zenon, <1>t, <1>p, FitsTouched
<1> QED
  BY Zenon, <1>u, <1>1, <1>2, <1>3, <1>4, <1>5, <1>6 DEF Spared, IInv

(* A step that adds no entry *)
LEMMA NoMore ==
  ASSUME IInv, \A y \in Xacts : InTable(y)' => InTable(y)
  PROVE  TableFits'
<1> DEFINE T == {y \in Xacts : InTable(y)}
           U == {y \in Xacts : InTable(y)'}
<1>1. IsFiniteSet(T) /\ Cardinality(T) \in Nat /\ U \in SUBSET T
  BY Zenon, SetsFinite, FS_Subset, FS_CardinalityType
<1>2. Cardinality(T) <= MaxPrepared /\ MaxPrepared \in Nat
  BY Zenon, BoundsNat DEF IInv, TableFits
<1> HIDE DEF T, U
<1>3. Cardinality(U) <= Cardinality(T) /\ IsFiniteSet(U)
  BY Zenon, <1>1, FS_Subset
<1>4. Cardinality(U) \in Nat
  BY Zenon, <1>3, FS_CardinalityType
<1> QED
  BY <1>1, <1>2, <1>3, <1>4 DEF TableFits, U

(* No two backends work on the same transaction. *)
LEMMA OneHolder ==
  ASSUME IInv, NEW b \in Backends, at[b] # "idle"
  PROVE  /\ server = "up" /\ work[b] \in Xacts /\ InTable(work[b]) /\ table[work[b]].locking = b
         /\ \A c \in Backends \ {b} : at[c] # "idle" => work[c] # work[b]
  BY NoBackendIsNone DEF IInv, TypeOK, Locks, InTable, Absent

(* MarkAsPrepared: the PREPARE record is on disk before the entry is valid. *)
LEMMA MarkAsPreparedStep ==
  ASSUME IInv, NEW b \in Backends, MarkAsPrepared(b)
  PROVE  IInv'
<1>x. PICK x \in Xacts : x = work[b]
  BY Zenon, OneHolder DEF MarkAsPrepared, Step
<1>h. /\ server = "up" /\ InTable(x) /\ table[x].locking = b
      /\ \A c \in Backends \ {b} : at[c] # "idle" => work[c] # x
  BY Zenon, <1>x, OneHolder DEF MarkAsPrepared, Step
<1>0. /\ at[b] = "prepareInserted" /\ at'[b] = "valid" /\ work'[b] = x
      /\ table'[x] = [table[x] EXCEPT !.valid = TRUE]
      /\ table[x] \in [valid : BOOLEAN, locking : Backends \cup {NoBackend}]
      /\ UNCHANGED <<wal, answered, active>>
  BY Zenon, <1>x, <1>h DEF IInv, TypeOK, MarkAsPrepared, Step, masterVars, InTable
<1>f. /\ flushed' \in flushed..Len(wal) /\ Len(wal) \in Nat
      /\ \E i \in 1..flushed' : i <= Len(wal) /\ wal[i].type = "prepare" /\ wal[i].xid = x
  <2>1. \E i \in 1..Len(wal) : wal[i].type = "prepare" /\ wal[i].xid = x
    BY <1>x, <1>0 DEF IInv, Preparing, PreparedBy
  <2> QED
    BY <1>x, <2>1, Flushed DEF IInv, MarkAsPrepared
<1>t. Touches(b, x)
  BY Zenon, <1>x, <1>h, <1>f DEF IInv, TypeOK, Touches, MarkAsPrepared, Step, startVars, masterVars
<1>u. Spared(b, x)
  BY Zenon, <1>t, Untouched
<1>1. TypeOK'
  BY Zenon, <1>x, <1>0, <1>u DEF Spared, IInv, TypeOK, MarkAsPrepared, Step, startVars, masterVars, bounds
<1>l. table'[x].locking = b /\ table'[x].valid
  BY Zenon, <1>h, <1>0
<1>2. Locks'
  BY Zenon, <1>x, <1>0, <1>h, <1>l, <1>t, LocksTouched
<1>p. PreparedBy(x, flushed)' /\ ~FinishedBy(x, Len(wal))
  BY Zenon, <1>x, <1>0, <1>f DEF IInv, Preparing, PreparedBy
<1>i. InTable(x)'
  BY <1>l, NoBackendIsNone DEF InTable, Absent
<1>a. x \notin active
  BY Zenon, <1>h DEF IInv, Fresh
<1>3. Preparing(b)' /\ Finishing(b)' /\ Free(x)' /\ Fresh(x)'
  BY <1>x, <1>0, <1>u, <1>p, <1>l, <1>a, NoBackendIsNone DEF Spared, Preparing, Finishing, Free, Fresh
<1>4. LogFinish'
  BY Zenon, <1>0, <1>t, LogFinishTouched
<1>5. TableFits'
  BY Zenon, <1>h, <1>t, NoMore DEF Touches, InTable
<1>6. Fits'
  BY Zenon, <1>h, <1>t, <1>i, FitsTouched
<1> QED
  BY Zenon, <1>h, <1>u, <1>1, <1>2, <1>3, <1>4, <1>5, <1>6 DEF Spared, IInv

(* PostPrepare: the entry is unlocked when it can be finished. *)
LEMMA PostPrepareStep ==
  ASSUME IInv, NEW b \in Backends, PostPrepare(b)
  PROVE  IInv'
<1>x. PICK x \in Xacts : x = work[b]
  BY Zenon, OneHolder DEF PostPrepare, Step
<1>h. /\ server = "up" /\ InTable(x) /\ table[x].locking = b
      /\ \A c \in Backends \ {b} : at[c] # "idle" => work[c] # x
  BY Zenon, <1>x, OneHolder DEF PostPrepare, Step
<1>0. /\ at[b] = "valid" /\ at'[b] = "idle" /\ work'[b] = x
      /\ table'[x] = [table[x] EXCEPT !.locking = NoBackend]
      /\ table[x] \in [valid : BOOLEAN, locking : Backends \cup {NoBackend}]
      /\ UNCHANGED <<wal, flushed, active>>
  BY Zenon, <1>x, <1>h DEF IInv, TypeOK, PostPrepare, Step, masterVars, walVars, InTable
<1>t. Touches(b, x)
  BY <1>x, <1>h DEF IInv, TypeOK, Touches, PostPrepare, Step, startVars, walVars
<1>u. Spared(b, x)
  BY Zenon, <1>t, Untouched
<1>1. TypeOK'
  <2>1. table' \in [Xacts -> {Absent} \cup [valid : BOOLEAN, locking : Backends \cup {NoBackend}]]
    BY Zenon, <1>x, <1>0 DEF IInv, TypeOK, PostPrepare
  <2>2. answered' \subseteq Xacts
    BY Zenon, <1>x DEF IInv, TypeOK, PostPrepare
  <2> QED
    BY Zenon, <2>1, <2>2, <1>u DEF Spared, IInv, TypeOK, PostPrepare, Step, walVars, startVars, bounds
<1>l. table'[x].locking = NoBackend /\ table'[x].valid /\ PreparedBy(x, flushed) /\ ~FinishedBy(x, Len(wal))
  BY <1>x, <1>h, <1>0 DEF IInv, Preparing
<1>2. Locks'
  BY Zenon, <1>x, <1>0, <1>h, <1>l, <1>t, LocksTouched, NoBackendIsNone
<1>i. InTable(x)' /\ x \notin active
  BY <1>h, <1>l, NoBackendIsNone DEF IInv, Fresh, InTable, Absent
<1>3. Preparing(b)' /\ Finishing(b)' /\ Free(x)' /\ Fresh(x)'
  BY Zenon, <1>0, <1>u, <1>l, <1>i DEF Spared, Preparing, Finishing, Free, Fresh
<1>4. LogFinish'
  BY Zenon, <1>0, <1>t, LogFinishTouched
<1>5. TableFits'
  BY Zenon, <1>h, <1>t, NoMore DEF Touches, InTable
<1>6. Fits'
  BY Zenon, <1>h, <1>t, <1>i, FitsTouched
<1> QED
  BY Zenon, <1>u, <1>1, <1>2, <1>3, <1>4, <1>5, <1>6 DEF Spared, IInv

(* LockGXact takes an entry that nobody has. *)
LEMMA LockGXactStep ==
  ASSUME IInv, NEW b \in Backends, NEW x \in Xacts, LockGXact(b, x)
  PROVE  IInv'
<1>h. /\ server = "up" /\ verdict[x] # "none" /\ table[x].valid /\ table[x].locking = NoBackend
      /\ \A c \in Backends \ {b} : at[c] # "idle" => work[c] # x
  BY NoBackendIsNone DEF IInv, Locks, LockGXact, Requested
<1>0. /\ at[b] = "idle" /\ at'[b] = "locked" /\ work'[b] = x
      /\ table'[x] = [table[x] EXCEPT !.locking = b] /\ InTable(x)
      /\ table[x] \in [valid : BOOLEAN, locking : Backends \cup {NoBackend}]
      /\ UNCHANGED <<wal, flushed, active, verdict, answered>>
  BY <1>h, NoBackendIsNone DEF IInv, TypeOK, LockGXact, Step, masterVars, walVars, InTable, Absent
<1>t. Touches(b, x)
  BY <1>h DEF IInv, TypeOK, Touches, LockGXact, Step, startVars, walVars, masterVars
<1>u. Spared(b, x)
  BY Zenon, <1>t, Untouched
<1>1. TypeOK'
  BY Zenon, <1>0, <1>u DEF Spared, IInv, TypeOK, LockGXact, Step, walVars, startVars, masterVars, bounds
<1>l. table'[x].locking = b /\ table'[x].valid /\ PreparedBy(x, flushed) /\ ~FinishedBy(x, Len(wal))
  BY Zenon, <1>h, <1>0 DEF IInv, Free
<1>2. Locks'
  BY Zenon, <1>0, <1>h, <1>l, <1>t, LocksTouched
<1>i. InTable(x)' /\ x \notin active
  BY <1>0, <1>l, NoBackendIsNone DEF IInv, Fresh, InTable, Absent
<1>3. Preparing(b)' /\ Finishing(b)' /\ Free(x)' /\ Fresh(x)'
  BY Zenon, <1>h, <1>0, <1>u, <1>l, <1>i, NoBackendIsNone DEF Spared, Preparing, Finishing, Free, Fresh
<1>4. LogFinish'
  BY Zenon, <1>0, <1>t, LogFinishTouched
<1>5. TableFits'
  BY Zenon, <1>0, <1>t, NoMore DEF Touches, InTable
<1>6. Fits'
  BY Zenon, <1>t, <1>i, FitsTouched
<1> QED
  BY Zenon, <1>u, <1>1, <1>2, <1>3, <1>4, <1>5, <1>6 DEF Spared, IInv

(* FlushFinish: the one record that finishes the transaction is on disk. *)
LEMMA FlushFinishStep ==
  ASSUME IInv, NEW b \in Backends, FlushFinish(b)
  PROVE  IInv'
<1>x. PICK x \in Xacts : x = work[b]
  BY Zenon, OneHolder DEF FlushFinish, Step
<1>h. /\ server = "up" /\ InTable(x) /\ table[x].locking = b
      /\ \A c \in Backends \ {b} : at[c] # "idle" => work[c] # x
  BY Zenon, <1>x, OneHolder DEF FlushFinish, Step
<1>0. /\ at[b] = "finishInserted" /\ at'[b] = "recorded" /\ work'[b] = x
      /\ UNCHANGED <<table, wal, active, verdict, answered>>
      /\ verdict[x] # "none" /\ table[x].valid /\ FinishedBy(x, Len(wal)) /\ PreparedBy(x, flushed)
  BY Zenon, <1>x, <1>h DEF IInv, TypeOK, FlushFinish, Step, masterVars, Finishing
<1>f. /\ flushed' \in flushed..Len(wal) /\ Len(wal) \in Nat
      /\ \E i \in 1..flushed' : i <= Len(wal) /\ wal[i].type = verdict[x] /\ wal[i].xid = x
  <2>1. \E i \in 1..Len(wal) : wal[i].type = verdict[x] /\ wal[i].xid = x
    BY Zenon, <1>0 DEF IInv, LogFinish, FinishedBy
  <2> QED
    BY <1>x, <2>1, Flushed DEF IInv, FlushFinish
<1>t. Touches(b, x)
  BY Zenon, <1>x, <1>h, <1>f DEF IInv, TypeOK, Touches, FlushFinish, Step, startVars, masterVars
<1>u. Spared(b, x)
  BY Zenon, <1>t, Untouched
<1>1. TypeOK'
  BY Zenon, <1>0, <1>u DEF Spared, IInv, TypeOK, FlushFinish, Step, startVars, masterVars, bounds
<1>2. Locks'
  BY Zenon, <1>x, <1>0, <1>h, <1>t, LocksTouched
<1>p. PreparedBy(x, flushed)' /\ FinishedBy(x, flushed)' /\ flushed \in Nat
  <2>1. flushed \in Nat /\ verdict[x] \in {"none"} \cup Finish
    BY DEF IInv, TypeOK
  <2>2. FinishedBy(x, flushed)'
    BY Zenon, <1>0, <1>f, <2>1 DEF FinishedBy
  <2>3. PreparedBy(x, flushed)'
    BY <1>0, <1>f, <2>1 DEF PreparedBy
  <2> QED
    BY Zenon, <2>1, <2>2, <2>3
<1>i. InTable(x)' /\ x \notin active
  BY Zenon, <1>h, <1>0 DEF IInv, Fresh, InTable
<1>3. Preparing(b)' /\ Finishing(b)' /\ Free(x)' /\ Fresh(x)'
  BY Zenon, <1>0, <1>h, <1>u, <1>p, <1>i, NoBackendIsNone DEF Spared, Preparing, Finishing, Free, Fresh
<1>4. LogFinish'
  <2> SUFFICES ASSUME NEW i \in 1..Len(wal), wal[i].type \in Finish
               PROVE  /\ wal[i].type = verdict[wal[i].xid] /\ PreparedBy(wal[i].xid, i)'
                      /\ i > flushed' => \E c \in Backends : work'[c] = wal[i].xid /\ at'[c] = "finishInserted"
    BY Zenon, <1>0 DEF LogFinish
  <2>1. wal[i].type = verdict[wal[i].xid] /\ PreparedBy(wal[i].xid, i)'
    BY Zenon, <1>u, <1>0 DEF Spared, IInv, LogFinish
  <2>2. ASSUME i > flushed'
        PROVE  \E c \in Backends : work'[c] = wal[i].xid /\ at'[c] = "finishInserted"
    <3>1. wal[i].xid # x
      <4>1. verdict[x] \in Finish
        BY Zenon, <1>0 DEF IInv, TypeOK
      <4>2. PICK k \in 1..flushed' : k <= Len(wal) /\ wal[k].type = verdict[x] /\ wal[k].xid = x
        BY Zenon, <1>f
      <4>3. k \in 1..Len(wal) /\ k # i
        BY <1>f, <1>p, <4>2, <2>2
      <4> QED
        BY Zenon, <4>1, <4>2, <4>3 DEF IInv, LogOrder
    <3>2. PICK c \in Backends : work[c] = wal[i].xid /\ at[c] = "finishInserted"
      BY <1>f, <1>p, <2>2 DEF IInv, LogFinish
    <3> QED
      BY Zenon, <1>x, <1>t, <3>1, <3>2 DEF Touches
  <2> QED
    BY Zenon, <2>1, <2>2
<1>5. TableFits'
  BY Zenon, <1>0, NoMore DEF InTable
<1>6. Fits'
  BY Zenon, <1>t, <1>i, FitsTouched
<1> QED
  BY Zenon, <1>u, <1>1, <1>2, <1>3, <1>4, <1>5, <1>6 DEF Spared, IInv

(* Invalidate: from here on the backend only has to remove the entry. *)
LEMMA InvalidateStep ==
  ASSUME IInv, NEW b \in Backends, Invalidate(b)
  PROVE  IInv'
<1>x. PICK x \in Xacts : x = work[b]
  BY Zenon, OneHolder DEF Invalidate, Step
<1>h. /\ server = "up" /\ InTable(x) /\ table[x].locking = b
      /\ \A c \in Backends \ {b} : at[c] # "idle" => work[c] # x
  BY Zenon, <1>x, OneHolder DEF Invalidate, Step
<1>0. /\ at[b] = "recorded" /\ at'[b] = "invalid" /\ work'[b] = x
      /\ table'[x] = [table[x] EXCEPT !.valid = FALSE]
      /\ table[x] \in [valid : BOOLEAN, locking : Backends \cup {NoBackend}]
      /\ UNCHANGED <<wal, flushed, active, verdict, answered>>
  BY Zenon, <1>x, <1>h DEF IInv, TypeOK, Invalidate, Step, masterVars, walVars, InTable
<1>t. Touches(b, x)
  BY <1>x, <1>h DEF IInv, TypeOK, Touches, Invalidate, Step, startVars, walVars, masterVars
<1>u. Spared(b, x)
  BY Zenon, <1>t, Untouched
<1>1. TypeOK'
  <2>1. table' \in [Xacts -> {Absent} \cup [valid : BOOLEAN, locking : Backends \cup {NoBackend}]]
    BY Zenon, <1>x, <1>0 DEF IInv, TypeOK, Invalidate
  <2> QED
    BY Zenon, <2>1, <1>u DEF Spared, IInv, TypeOK, Invalidate, Step, walVars, startVars, masterVars, bounds
<1>l. /\ table'[x].locking = b /\ ~table'[x].valid /\ PreparedBy(x, flushed) /\ FinishedBy(x, flushed)
      /\ verdict[x] # "none"
  BY Zenon, <1>x, <1>h, <1>0 DEF IInv, Finishing
<1>2. Locks'
  BY Zenon, <1>x, <1>0, <1>h, <1>l, <1>t, LocksTouched
<1>i. x \notin active
  BY Zenon, <1>h DEF IInv, Fresh
<1>3. Preparing(b)' /\ Finishing(b)' /\ Free(x)' /\ Fresh(x)'
  BY <1>0, <1>u, <1>l, <1>i, NoBackendIsNone DEF Spared, Preparing, Finishing, Free, Fresh
<1>4. LogFinish'
  BY Zenon, <1>0, <1>t, LogFinishTouched
<1>5. TableFits'
  BY Zenon, <1>h, <1>t, NoMore DEF Touches, InTable
<1>6. Fits'
  BY Zenon, <1>t, <1>l, FitsTouched
<1> QED
  BY Zenon, <1>u, <1>1, <1>2, <1>3, <1>4, <1>5, <1>6 DEF Spared, IInv

(* RemoveGXact: the entry goes when the record that finishes it is on disk. *)
LEMMA RemoveGXactStep ==
  ASSUME IInv, NEW b \in Backends, RemoveGXact(b)
  PROVE  IInv'
<1>x. PICK x \in Xacts : x = work[b]
  BY Zenon, OneHolder DEF RemoveGXact, Step
<1>h. /\ server = "up" /\ InTable(x) /\ table[x].locking = b
      /\ \A c \in Backends \ {b} : at[c] # "idle" => work[c] # x
  BY Zenon, <1>x, OneHolder DEF RemoveGXact, Step
<1>0. /\ at[b] = "invalid" /\ at'[b] = "idle" /\ work'[b] = x /\ table'[x] = Absent
      /\ UNCHANGED <<wal, flushed, active, verdict, answered>>
  BY Zenon, <1>x, <1>h DEF IInv, TypeOK, RemoveGXact, Step, walVars
<1>t. Touches(b, x)
  BY <1>x, <1>h DEF IInv, TypeOK, Touches, RemoveGXact, Step, startVars, walVars
<1>u. Spared(b, x)
  BY Zenon, <1>t, Untouched
<1>1. TypeOK'
  BY Zenon, <1>u DEF Spared, IInv, TypeOK, RemoveGXact, Step, walVars, startVars, bounds
<1>l. table'[x].locking = "none" /\ FinishedBy(x, flushed)
  <2>1. Finishing(b)
    BY Zenon DEF IInv
  <2> QED
    BY <1>x, <1>0, <2>1 DEF Finishing, Absent
<1>2. Locks'
  BY Zenon, <1>x, <1>0, <1>h, <1>l, <1>t, LocksTouched, NoBackendIsNone
<1>i. x \notin active
  BY Zenon, <1>h DEF IInv, Fresh
<1>3. Preparing(b)' /\ Finishing(b)' /\ Free(x)' /\ Fresh(x)'
  BY Zenon, <1>0, <1>l, <1>i, NoBackendIsNone DEF Preparing, Finishing, Free, Fresh
<1>4. LogFinish'
  BY Zenon, <1>0, <1>t, LogFinishTouched
<1>5. TableFits'
  BY Zenon, <1>h, <1>t, NoMore DEF Touches, InTable
<1>6. Fits'
  BY Zenon, <1>t, <1>l, FitsTouched
<1> QED
  BY Zenon, <1>u, <1>1, <1>2, <1>3, <1>4, <1>5, <1>6 DEF Spared, IInv

(* AtAbort removes an entry that was never prepared or is finished, and unlocks the others. *)
LEMMA AtAbortStep ==
  ASSUME IInv, NEW b \in Backends, AtAbort(b)
  PROVE  IInv'
<1>x. PICK x \in Xacts : x = work[b]
  BY Zenon, OneHolder DEF AtAbort
<1>h. /\ server = "up" /\ InTable(x) /\ table[x].locking = b
      /\ \A c \in Backends \ {b} : at[c] # "idle" => work[c] # x
  BY Zenon, <1>x, OneHolder DEF AtAbort
<1>0. /\ at[b] \in {"preparing", "valid", "locked", "invalid"} /\ at'[b] = "idle" /\ work'[b] = x
      /\ table'[x] = IF table[x].valid THEN Entry(TRUE, NoBackend) ELSE Absent
      /\ UNCHANGED <<wal, flushed, active, verdict, answered>>
  BY Zenon, <1>x, <1>h DEF IInv, TypeOK, AtAbort, masterVars, walVars
<1>t. Touches(b, x)
  BY <1>x, <1>h DEF IInv, TypeOK, Touches, AtAbort, startVars, walVars, masterVars
<1>u. Spared(b, x)
  BY Zenon, <1>t, Untouched
<1>1. TypeOK'
  <2>1. table' \in [Xacts -> {Absent} \cup [valid : BOOLEAN, locking : Backends \cup {NoBackend}]]
    BY Zenon, <1>x, <1>0 DEF IInv, TypeOK, AtAbort, Entry
  <2> QED
    BY Zenon, <2>1, <1>u DEF Spared, IInv, TypeOK, AtAbort, walVars, startVars, masterVars, bounds
<1>l. \/ table'[x] = Absent /\ (~PreparedBy(x, Len(wal)) \/ FinishedBy(x, flushed))
      \/ /\ table'[x] = Entry(TRUE, NoBackend) /\ InTable(x)'
         /\ PreparedBy(x, flushed) /\ ~FinishedBy(x, Len(wal))
  <2>1. CASE at[b] \in {"preparing", "invalid"}
    BY Zenon, <2>1, <1>x, <1>0 DEF IInv, Preparing, Finishing
  <2>2. CASE at[b] \in {"valid", "locked"}
    <3>1. Preparing(b) /\ Finishing(b)
      BY Zenon DEF IInv
    <3> QED
      BY <2>2, <1>x, <1>0, <3>1, NoBackendIsNone DEF Preparing, Finishing, InTable, Entry, Absent
  <2> QED
    BY Zenon, <2>1, <2>2, <1>0
<1>n. table'[x].locking \notin Backends
  BY <1>l, NoBackendIsNone DEF Absent, Entry
<1>2. Locks'
  BY Zenon, <1>x, <1>0, <1>h, <1>n, <1>t, LocksTouched
<1>i. x \notin active
  BY Zenon, <1>h DEF IInv, Fresh
<1>3. Preparing(b)' /\ Finishing(b)' /\ Free(x)' /\ Fresh(x)'
  <2>1. Preparing(b)' /\ Finishing(b)' /\ Fresh(x)'
    BY Zenon, <1>0, <1>i DEF Preparing, Finishing, Fresh
  <2>2. Free(x)'
    BY <1>0, <1>l, <1>u, NoBackendIsNone DEF Free, Entry, Absent, Spared
  <2> QED
    BY Zenon, <2>1, <2>2
<1>4. LogFinish'
  BY Zenon, <1>0, <1>t, LogFinishTouched
<1>5. TableFits'
  BY Zenon, <1>h, <1>t, NoMore DEF Touches, InTable
<1>6. Fits'
  BY Zenon, <1>t, <1>l, FitsTouched
<1> QED
  BY Zenon, <1>u, <1>1, <1>2, <1>3, <1>4, <1>5, <1>6 DEF Spared, IInv

(* InsertFinish: the backend that has the entry locked is the only one to log its end. *)
LEMMA InsertFinishStep ==
  ASSUME IInv, NEW b \in Backends, InsertFinish(b)
  PROVE  IInv'
<1> DEFINE r == [type |-> verdict[work[b]], xid |-> work[b]]
<1>i. /\ TypeOK /\ Locks /\ Down /\ LogOrder /\ LogFinish /\ LogCheckpoint /\ CheckpointWhen
      /\ Replayed /\ TableFits /\ Fits
      /\ \A c \in Backends : Preparing(c) /\ Finishing(c)
      /\ \A x \in Xacts : Free(x) /\ Fresh(x)
  BY Zenon DEF IInv
<1>p. /\ work[b] \in Xacts /\ verdict[work[b]] \in Finish
      /\ PreparedBy(work[b], flushed) /\ ~FinishedBy(work[b], Len(wal))
  BY Zenon, <1>i DEF InsertFinish, Step, Finishing, TypeOK
<1>r. r \in Record /\ wal' = Append(wal, r) /\ wal \in Seq(Record)
  BY Zenon, <1>i, <1>p, Recs DEF InsertFinish, Insert, TypeOK
<1>x. r.type \in Finish /\ r.type # "prepare" /\ r.type # "checkpoint" /\ r.xid = work[b] /\ r.type = verdict[work[b]]
  BY Zenon, <1>p DEF Finish
<1> HIDE DEF r
<1>a. /\ wal' \in Seq(Record) /\ Len(wal') = Len(wal) + 1 /\ Len(wal) \in Nat
      /\ wal'[Len(wal) + 1] = r
      /\ \A i \in 1..Len(wal) : wal'[i] = wal[i]
  BY Zenon, <1>r, Appended
<1>b. \A x \in Xacts :
         /\ \A n \in 0..Len(wal) : /\ PreparedBy(x, n)' <=> PreparedBy(x, n)
                                   /\ FinishedBy(x, n)' <=> FinishedBy(x, n)
         /\ PreparedBy(x, Len(wal))' <=> PreparedBy(x, Len(wal)) \/ (r.type = "prepare" /\ r.xid = x)
         /\ FinishedBy(x, Len(wal))' <=> FinishedBy(x, Len(wal)) \/ (r.type \in Finish /\ r.xid = x)
  BY Zenon, <1>r, AppendedBy
<1>0. flushed \in 1..Len(wal) /\ control \in 1..flushed
  BY Zenon, <1>i DEF TypeOK
<1>1. TypeOK'
  BY Zenon, <1>i, <1>r, AppendedType DEF TypeOK, InsertFinish, Step, startVars, masterVars, bounds
<1>f. /\ UNCHANGED <<table, server, verdict, work, answered, flushed>>
      /\ at[b] = "locked" /\ at'[b] = "finishInserted" /\ \A c \in Backends \ {b} : at'[c] = at[c]
  BY Zenon, <1>i DEF TypeOK, InsertFinish, Step, startVars, masterVars
<1>g. \A x \in Xacts : /\ PreparedBy(x, flushed)' <=> PreparedBy(x, flushed)
                       /\ FinishedBy(x, flushed)' <=> FinishedBy(x, flushed)
                       /\ PreparedBy(x, Len(wal))' <=> PreparedBy(x, Len(wal))
                       /\ FinishedBy(x, Len(wal))' <=> FinishedBy(x, Len(wal)) \/ x = work[b]
  <2>1. flushed \in 0..Len(wal)
    BY <1>0
  <2> QED
    BY Zenon, <2>1, <1>b, <1>x, <1>f
<1>h. /\ \A c \in Backends \ {b} : at[c] # "idle" => work[c] \in Xacts /\ work[c] # work[b]
      /\ table[work[b]].locking = b
  <2>1. Locks /\ work \in [Backends -> Xacts]
    BY Zenon, <1>i DEF TypeOK
  <2> QED
    BY <1>f, <2>1 DEF Locks
<1>2. Locks' /\ Down'
  <2>1. Locks /\ Down
    BY Zenon, <1>i
  <2> QED
    BY <1>f, <2>1 DEF Locks, Down
<1>3. \A c \in Backends : Preparing(c)'
  BY Zenon, <1>i, <1>f, <1>g, <1>h DEF Preparing
<1>4. \A c \in Backends : Finishing(c)'
  BY Zenon, <1>i, <1>p, <1>f, <1>g, <1>h DEF Finishing
<1>5. \A x \in Xacts : Free(x)'
  BY Zenon, <1>i, <1>f, <1>g, <1>h, NoBackendIsNone DEF Free
<1>6. \A x \in Xacts : Fresh(x)'
  BY Zenon, <1>i, <1>a, <1>b, <1>x DEF Fresh, InTable, InsertFinish, masterVars
<1>7. LogOrder'
  BY Zenon, <1>i, <1>r, <1>p, <1>x, AppendedOrder
<1>8. LogFinish'
  <2>u. /\ UNCHANGED <<flushed, verdict, work>> /\ at' = [at EXCEPT ![b] = "finishInserted"]
        /\ at \in [Backends -> {"idle", "preparing", "prepareInserted", "valid", "locked",
                                "finishInserted", "recorded", "invalid"}]
    BY Zenon, <1>i DEF InsertFinish, Step, masterVars, TypeOK
  <2>1. ASSUME NEW i \in 1..Len(wal), wal[i].type \in Finish
        PROVE  /\ wal[i].type = verdict[wal[i].xid] /\ PreparedBy(wal[i].xid, i)'
               /\ i > flushed => \E c \in Backends : work[c] = wal[i].xid /\ at'[c] = "finishInserted"
    <3>1. wal[i].xid \in Xacts
      BY Zenon, <1>r, <2>1, RecordType DEF Record, Finish
    <3>2. PreparedBy(wal[i].xid, i)'
      BY <1>a, <1>b, <2>1, <3>1, <1>i DEF LogFinish
    <3> QED
      BY Zenon, <1>i, <2>1, <3>2, <2>u DEF LogFinish
  <2>2. \E k \in 1..(Len(wal) + 1) : wal'[k].type = "prepare" /\ wal'[k].xid = work[b]
    <3>1. PICK k \in 1..flushed : wal[k].type = "prepare" /\ wal[k].xid = work[b]
      BY Zenon, <1>p DEF PreparedBy
    <3> QED
      BY <1>a, <1>0, <3>1
  <2>3. SUFFICES ASSUME NEW i \in 1..(Len(wal) + 1), wal'[i].type \in Finish
                 PROVE  /\ wal'[i].type = verdict[wal'[i].xid]
                        /\ \E k \in 1..i : wal'[k].type = "prepare" /\ wal'[k].xid = wal'[i].xid
                        /\ i > flushed => \E c \in Backends : work[c] = wal'[i].xid /\ at'[c] = "finishInserted"
    BY Zenon, <1>a, <2>u DEF LogFinish, PreparedBy
  <2>4. CASE i \in 1..Len(wal)
    BY Zenon, <2>1, <2>3, <2>4, <1>a DEF PreparedBy
  <2>5. CASE i = Len(wal) + 1
    BY Zenon, <2>2, <2>5, <1>a, <1>x, <2>u
  <2> QED
    BY <2>4, <2>5, <1>a
<1>12. CheckpointWhen'
  BY Zenon, <1>i DEF CheckpointWhen, InsertFinish, startVars
<1>9. LogCheckpoint'
  BY Zenon, <1>i, <1>r, <1>x, AppendedCheckpoint DEF InsertFinish
<1>10. Replayed'
  BY Zenon, <1>i DEF Replayed, InsertFinish, Step, Locks, startVars
<1>11. TableFits' /\ Fits'
  <2>1. server = "up"
    BY Zenon, <1>i DEF InsertFinish, Step, Locks
  <2>2. UNCHANGED <<table, server, map, flushed>> /\ \A x \in Xacts : InTable(x)' <=> InTable(x)
    BY Zenon DEF InsertFinish, startVars, InTable
  <2>3. \A n \in flushed'..Len(wal') : \A x \in Unfinished(n)' : InTable(x)'
    <3> SUFFICES ASSUME NEW n \in flushed..(Len(wal) + 1), NEW x \in Unfinished(n)' PROVE InTable(x)
      BY Zenon, <1>a, <2>2 DEF Unfinished
    <3>1. /\ n <= Len(wal) => x \in Unfinished(n)
          /\ n = Len(wal) + 1 => x \in Unfinished(Len(wal))
      BY <1>i, <1>0, <1>a, <1>r, <1>x, AppendedUnfinished DEF InsertFinish
    <3> QED
      BY <1>i, <1>0, <1>a, <2>1, <3>1 DEF Fits
  <2> QED
    BY Zenon, <1>i, <2>1, <2>2, <2>3 DEF Fits, TableFits
<1> QED
  BY Zenon, <1>1, <1>2, <1>3, <1>4, <1>5, <1>6, <1>7, <1>8, <1>9, <1>10, <1>11, <1>12 DEF IInv

(* What the master decides, and what needs no entry, touches neither the table nor the log. *)
LEMMA Quiet ==
  ASSUME IInv, UNCHANGED <<table, at, work, walVars, startVars, ckpt, answered, bounds>>,
         active' \subseteq active, finished' \subseteq Xacts, verdict' \in [Xacts -> {"none"} \cup Finish],
         \A x \in Xacts : verdict[x] # "none" => verdict'[x] = verdict[x]
  PROVE  IInv'
<1>u. UNCHANGED <<table, at, work, wal, flushed, control, server, map, replay, ckpt, answered>>
  BY Zenon DEF walVars, startVars
<1>k. /\ LogOrder' /\ LogCheckpoint'
      /\ \A y, n : (PreparedBy(y, n)' <=> PreparedBy(y, n)) /\ (FinishedBy(y, n)' <=> FinishedBy(y, n))
      /\ \A n : Unfinished(n)' = Unfinished(n)
  BY Zenon, <1>u, LogKept
<1>0. /\ Locks' /\ Down' /\ CheckpointWhen' /\ TableFits'
  <2>1. Locks /\ Down /\ CheckpointWhen /\ TableFits
    BY Zenon DEF IInv
  <2> QED
    BY <1>u, <2>1 DEF Locks, Down, CheckpointWhen, TableFits, InTable
<1>1. TypeOK'
  BY Zenon, <1>u DEF IInv, TypeOK, bounds
<1>2. ASSUME NEW b \in Backends PROVE Preparing(b)' /\ Finishing(b)'
  <2>1. Preparing(b) /\ Finishing(b) /\ work[b] \in Xacts
    BY Zenon DEF IInv, TypeOK
  <2>2. Preparing(b)'
    BY Zenon, <1>u, <1>k, <2>1 DEF Preparing
  <2>3. Finishing(b)'
    BY Zenon, <1>u, <1>k, <2>1 DEF Finishing
  <2> QED
    BY Zenon, <2>2, <2>3
<1>3. \A x \in Xacts : Free(x)' /\ Fresh(x)'
  BY Zenon, <1>u, <1>k DEF IInv, Free, Fresh, InTable
<1>4. LogFinish'
  <2> SUFFICES ASSUME NEW i \in 1..Len(wal), wal[i].type \in Finish
               PROVE  /\ wal[i].type = verdict'[wal[i].xid] /\ PreparedBy(wal[i].xid, i)
                      /\ i > flushed => \E c \in Backends : work[c] = wal[i].xid /\ at[c] = "finishInserted"
    BY <1>u, <1>k DEF LogFinish
  <2>1. wal[i].xid \in Xacts
    BY Zenon, RecordType DEF IInv, TypeOK, Record, Finish
  <2> QED
    BY Zenon, <2>1 DEF IInv, LogFinish, Finish
<1>5. Replayed'
  <2>1. Replayed
    BY Zenon DEF IInv
  <2> QED
    BY <1>u, <2>1 DEF Replayed, PreparedBy, FinishedBy
<1>6. Fits'
  BY Zenon, <1>u, <1>k DEF IInv, Fits, InTable
<1> QED
  BY Zenon, <1>k, <1>0, <1>1, <1>2, <1>3, <1>4, <1>5, <1>6 DEF IInv

(* TableFull, NotFound, DecideCommit and DecideAbort are such steps. *)
LEMMA QuietSteps ==
  ASSUME IInv, NEW x \in Xacts, TableFull(x) \/ NotFound(x) \/ DecideCommit(x) \/ DecideAbort(x)
  PROVE  IInv'
<1>t. verdict \in [Xacts -> {"none"} \cup Finish] /\ finished \subseteq Xacts
  BY Zenon DEF IInv, TypeOK
<1>1. CASE TableFull(x)
  BY Zenon, <1>1, <1>t, Quiet DEF TableFull, masterVars
<1>2. CASE NotFound(x)
  BY Zenon, <1>2, <1>t, Quiet DEF NotFound, backendVars
<1>3. CASE DecideCommit(x)
  BY Zenon, <1>3, <1>t, Quiet DEF DecideCommit, backendVars, Finish
<1>4. CASE DecideAbort(x)
  BY Zenon, <1>4, <1>t, Quiet DEF DecideAbort, backendVars, Finish
<1> QED
  BY Zenon, <1>1, <1>2, <1>3, <1>4
=============================================================================
