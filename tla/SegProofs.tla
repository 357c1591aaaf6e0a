------------------------------ MODULE SegProofs -----------------------------
(***************************************************************************)
(* The safety of SegTwoPhase for any set of backends and transactions, any *)
(* size of the table and any number of crashes and checkpoints: what       *)
(* becomes of a vote, and the theorems.                                    *)
(***************************************************************************)
EXTENDS SegRestartProofs

-----------------------------------------------------------------------------
(* What becomes of a vote *)

(* The log only grows, and more of it is on disk: every step but Crash *)
LogGrows ==
  /\ Len(wal') \in Nat /\ Len(wal) <= Len(wal')
  /\ \A i \in 1..Len(wal) : wal'[i] = wal[i]
  /\ flushed' \in flushed..Len(wal')

(* XLogInsert makes it grow, *)
LEMMA AppendGrows ==
  ASSUME TypeOK, NEW r \in Record, wal' = Append(wal, r), UNCHANGED flushed
  PROVE  LogGrows
<1>1. wal \in Seq(Record) /\ flushed \in 1..Len(wal)
  BY Zenon DEF TypeOK
<1>2. Len(wal') = Len(wal) + 1 /\ Len(wal) \in Nat /\ \A i \in 1..Len(wal) : wal'[i] = wal[i]
  BY Zenon, <1>1, Appended
<1> QED
  BY <1>1, <1>2 DEF LogGrows

(* ... XLogFlush puts more of it on disk. *)
LEMMA SameGrows ==
  ASSUME TypeOK, wal' = wal, flushed' \in flushed..Len(wal)
  PROVE  LogGrows
<1>1. wal \in Seq(Record) /\ Len(wal) \in Nat
  BY DEF TypeOK
<1> QED
  BY <1>1 DEF LogGrows

(* What is on disk stays there, across a crash too. *)
LEMMA OnDisk ==
  ASSUME IInv, LogGrows \/ Crash, restarts' \in {restarts, restarts + 1}, NEW x
  PROVE  /\ PreparedBy(x, flushed) => PreparedBy(x, flushed)'
         /\ FinishedBy(x, flushed) => FinishedBy(x, flushed)'
         /\ (\E i \in 1..flushed : wal[i].type = "commit" /\ wal[i].xid = x) =>
              \E i \in 1..flushed' : wal'[i].type = "commit" /\ wal'[i].xid = x
         /\ Overtaken(x) => Overtaken(x)'
<1>1. wal \in Seq(Record) /\ Len(wal) \in Nat /\ flushed \in 1..Len(wal) /\ restarts \in Nat
  BY DEF IInv, TypeOK
<1>2. flushed' \in Nat /\ flushed <= flushed' /\ (\A i \in 1..flushed : wal'[i] = wal[i])
  <2>1. CASE LogGrows
    BY <1>1, <2>1 DEF LogGrows
  <2>2. CASE Crash
    <3>1. PICK n \in flushed..Len(wal) : wal' = SubSeq(wal, 1, n) /\ flushed' = n
      BY Zenon, <2>2 DEF Crash
    <3>2. \A i \in 1..n : wal'[i] = wal[i]
      BY <1>1, <3>1, Cut
    <3> QED
      BY <1>1, <3>1, <3>2
  <2> QED
    BY Zenon, <2>1, <2>2
<1>3. \A i \in 1..flushed : i \in 1..flushed'
  BY <1>1, <1>2
<1>4. (PreparedBy(x, flushed) => PreparedBy(x, flushed)') /\ (FinishedBy(x, flushed) => FinishedBy(x, flushed)')
  BY Zenon, <1>2, <1>3 DEF PreparedBy, FinishedBy
<1>5. ASSUME Overtaken(x) PROVE Overtaken(x)'
  <2>1. PICK i \in 1..flushed, j \in 1..flushed, k \in 1..flushed :
           /\ wal[i].type = "prepare" /\ wal[i].xid = x
           /\ wal[j].type = "checkpoint" /\ i < wal[j].redo
           /\ wal[k].type = "checkpoint" /\ j < k
    BY Zenon, <1>5 DEF Overtaken
  <2>2. restarts' > 0
    BY <1>1, <1>5 DEF Overtaken
  <2> QED
    BY Zenon, <1>2, <1>3, <2>1, <2>2 DEF Overtaken
<1> QED
  BY Zenon, <1>2, <1>3, <1>4, <1>5

(* Kept is kept by a step that takes no entry from the table unless its transaction is finished, and
   counts a transaction as finished only when it is. *)
LEMMA KeptOn ==
  ASSUME IInv, Kept, LogGrows, UNCHANGED <<map, restarts>>,
         server' = server \/ (server = "redone" /\ server' = "reload"),
         server' = "redone" => control' = control,
         ckpt'.at = "flush" => \E n \in (control' + 1)..Len(wal') : wal'[n].type = "checkpoint",
         server' = "reload" => server = "reload" \/ \A x \in answered : PreparedBy(x, wal[control].redo - 1) => Overtaken(x)',
         answered \subseteq answered', answered' \subseteq Xacts,
         \A x \in answered' \ answered : server = "up" /\ InTable(x)' /\ PreparedBy(x, flushed),
         \A x \in answered : InTable(x) => InTable(x)' \/ FinishedBy(x, flushed),
         \A x \in Xacts : verdict[x] # "none" => verdict'[x] = verdict[x],
         \A x \in Xacts : verdict'[x] = "commit" => x \in answered',
         finished' \subseteq Xacts,
         \A x \in finished' \ finished :
            /\ verdict[x] # "none"
            /\ verdict[x] = "commit" => Overtaken(x) \/ \E i \in 1..flushed : wal[i].type = "commit" /\ wal[i].xid = x
  PROVE  Kept'
<1>0. /\ wal \in Seq(Record) /\ Len(wal) \in Nat /\ flushed \in 1..Len(wal) /\ control \in 1..flushed
      /\ restarts \in Nat /\ answered \subseteq Xacts /\ finished \subseteq Xacts
      /\ wal[control].redo \in 1..control
  BY Zenon, LogTypes DEF IInv, TypeOK
<1>d. \A x : /\ PreparedBy(x, flushed) => PreparedBy(x, flushed)'
             /\ FinishedBy(x, flushed) => FinishedBy(x, flushed)'
             /\ (\E i \in 1..flushed : wal[i].type = "commit" /\ wal[i].xid = x) =>
                  \E i \in 1..flushed' : wal'[i].type = "commit" /\ wal'[i].xid = x
             /\ Overtaken(x) => Overtaken(x)'
  BY Zenon, <1>0, OnDisk
<1>f. \A x : /\ FinishedBy(x, Len(wal)) => FinishedBy(x, Len(wal))'
             /\ FinishedBy(x, flushed) => FinishedBy(x, Len(wal))'
  <2>1. \A i \in 1..Len(wal) : i \in 1..Len(wal') /\ wal'[i] = wal[i]
    BY <1>0 DEF LogGrows
  <2>2. \A i \in 1..flushed : i \in 1..Len(wal)
    BY <1>0
  <2> QED
    BY Zenon, <2>1, <2>2 DEF FinishedBy
<1>1. restarts' = 0 => server' = "up"
  BY Zenon DEF Kept
<1>2. /\ \A x \in finished' : verdict'[x] # "none"
      /\ \A x \in Xacts : verdict'[x] = "commit" => x \in answered'
  BY Zenon, <1>0 DEF Kept
<1>3. \A x \in answered' : PreparedBy(x, flushed)'
  BY Zenon, <1>d DEF Kept
<1>4. ASSUME NEW x \in answered', server' = "up"
      PROVE  InTable(x)' \/ Overtaken(x)' \/ FinishedBy(x, Len(wal))'
  BY Zenon, <1>4, <1>d, <1>f DEF Kept
<1>5. ASSUME NEW x \in answered', server' = "redone"
      PROVE  x \in map' \/ PreparedBy(x, wal[control].redo - 1)' \/ FinishedBy(x, Len(wal))'
  <2>1. server = "redone" /\ x \in answered /\ control' = control /\ wal'[control] = wal[control]
    BY <1>5, <1>0 DEF LogGrows
  <2>2. PreparedBy(x, wal[control].redo - 1) => PreparedBy(x, wal[control].redo - 1)'
    <3>1. \A i \in 1..(wal[control].redo - 1) : wal'[i] = wal[i]
      BY <1>0 DEF LogGrows
    <3> QED
      BY <2>1, <3>1 DEF PreparedBy
  <2> QED
    BY Zenon, <2>1, <2>2, <1>f DEF Kept
<1>6. ASSUME NEW x \in answered', server' = "reload"
      PROVE  x \in map' \/ Overtaken(x)' \/ FinishedBy(x, Len(wal))'
  BY Zenon, <1>6, <1>d, <1>f DEF Kept
<1>7. NotFoundOnlyIfLost'
  BY <1>d, <1>0 DEF Kept, NotFoundOnlyIfLost
<1> QED
  BY Zenon, <1>1, <1>2, <1>3, <1>4, <1>5, <1>6, <1>7 DEF Kept

(* A transaction that no entry is valid for, and whose PREPARE was answered, is finished on
   disk or has lost its entry to a crash. *)
LEMMA NotValid ==
  ASSUME IInv, Kept, server = "up", NEW x \in answered, ~table[x].valid
  PROVE  Overtaken(x) \/ FinishedBy(x, flushed)
<1>0. x \in Xacts /\ flushed \in 1..Len(wal) /\ Len(wal) \in Nat
  BY DEF IInv, TypeOK
<1>1. CASE InTable(x)
  <2>1. table[x].locking # NoBackend
    BY Zenon, <1>0 DEF IInv, Free
  <2>2. table[x] \in [valid : BOOLEAN, locking : Backends \cup {NoBackend}]
    BY Zenon, <1>0, <1>1 DEF IInv, TypeOK, InTable
  <2>3. PICK b \in Backends : table[x].locking = b
    BY Zenon, <2>1, <2>2
  <2>4. at[b] # "idle" /\ work[b] = x
    BY Zenon, <1>0, <2>3 DEF IInv, Locks
  <2>5. at[b] = "invalid"
    BY Zenon, <2>4 DEF IInv, TypeOK, Preparing, Finishing
  <2> QED
    BY Zenon, <2>4, <2>5 DEF IInv, Finishing
<1>2. CASE ~InTable(x) /\ ~Overtaken(x)
  <2>1. PICK i \in 1..Len(wal) : wal[i].type \in Finish /\ wal[i].xid = x
    BY Zenon, <1>2 DEF Kept, FinishedBy
  <2>2. ~ i > flushed
    <3> SUFFICES ASSUME i > flushed PROVE FALSE
      BY Zenon
    <3>1. PICK b \in Backends : work[b] = x /\ at[b] = "finishInserted"
      BY Zenon, <2>1 DEF IInv, LogFinish
    <3>2. InTable(x)
      BY Zenon, <3>1, OneHolder
    <3> QED
      BY Zenon, <1>2, <3>2
  <2> QED
    BY <1>0, <2>1, <2>2 DEF FinishedBy
<1> QED
  BY Zenon, <1>1, <1>2

(* What is finished on disk is finished as decided. *)
LEMMA FinishedAsDecided ==
  ASSUME IInv, NEW x, FinishedBy(x, flushed), verdict[x] = "commit"
  PROVE  \E i \in 1..flushed : wal[i].type = "commit" /\ wal[i].xid = x
<1>1. flushed \in 1..Len(wal) /\ Len(wal) \in Nat
  BY DEF IInv, TypeOK
<1>2. PICK i \in 1..flushed : wal[i].type \in Finish /\ wal[i].xid = x
  BY Zenon DEF FinishedBy
<1>3. i \in 1..Len(wal)
  BY <1>1
<1> QED
  BY Zenon, <1>2, <1>3 DEF IInv, LogFinish

(* The steps of a backend *)
LEMMA KeptBackend ==
  ASSUME IInv, Kept, NEW b \in Backends, Backend(b) \/ AtAbort(b)
  PROVE  Kept'
<1>x. PICK x \in Xacts : x = work[b]
  BY Zenon, OneHolder DEF Backend, AtAbort, InsertPrepare, MarkAsPrepared, PostPrepare, InsertFinish, FlushFinish,
                   Invalidate, RemoveGXact, Step
<1>h. server = "up" /\ InTable(x) /\ table[x].locking = b
  BY Zenon, <1>x, OneHolder DEF Backend, AtAbort, InsertPrepare, MarkAsPrepared, PostPrepare, InsertFinish, FlushFinish,
                         Invalidate, RemoveGXact, Step
<1>t. /\ TypeOK /\ table \in [Xacts -> {Absent} \cup [valid : BOOLEAN, locking : Backends \cup {NoBackend}]]
      /\ answered \subseteq Xacts /\ finished \subseteq Xacts /\ flushed \in 1..Len(wal) /\ control \in 1..flushed
      /\ Len(wal) \in Nat
  BY DEF IInv, TypeOK
<1>c. UNCHANGED <<control, ckpt, map, restarts, server, verdict>>
  BY Zenon DEF Backend, AtAbort, InsertPrepare, MarkAsPrepared, PostPrepare, InsertFinish, FlushFinish, Invalidate,
         RemoveGXact, walVars, startVars, masterVars, bounds
<1>g. LogGrows
  <2>1. CASE InsertPrepare(b)
    BY Zenon, <2>1, <1>t, <1>x, Recs, AppendGrows DEF InsertPrepare, Insert
  <2>2. CASE InsertFinish(b)
    <3>1. verdict[x] \in Finish
      BY Zenon, <2>2, <1>x DEF InsertFinish, Step, IInv, TypeOK, Finishing
    <3> QED
      BY Zenon, <2>2, <3>1, <1>t, <1>x, Recs, AppendGrows DEF InsertFinish, Insert
  <2>3. CASE MarkAsPrepared(b)
    <3>1. \E i \in 1..Len(wal) : wal[i].type = "prepare" /\ wal[i].xid = x
      BY Zenon, <2>3, <1>x DEF MarkAsPrepared, Step, IInv, Preparing, PreparedBy
    <3> QED
      BY Zenon, <2>3, <3>1, <1>t, <1>x, Flushed, SameGrows DEF MarkAsPrepared
  <2>4. CASE FlushFinish(b)
    <3>1. \E i \in 1..Len(wal) : wal[i].type = verdict[x] /\ wal[i].xid = x
      BY <2>4, <1>x DEF FlushFinish, Step, IInv, Finishing, LogFinish, FinishedBy
    <3> QED
      BY Zenon, <2>4, <3>1, <1>t, <1>x, Flushed, SameGrows DEF FlushFinish
  <2>5. CASE PostPrepare(b) \/ Invalidate(b) \/ RemoveGXact(b) \/ AtAbort(b)
    <3>1. wal' = wal /\ flushed' = flushed
      BY Zenon, <2>5 DEF PostPrepare, Invalidate, RemoveGXact, AtAbort, walVars
    <3> QED
      BY <3>1, <1>t, SameGrows
  <2> QED
    BY Zenon, <2>1, <2>2, <2>3, <2>4, <2>5 DEF Backend
<1>f. ckpt'.at = "flush" => \E n \in (control' + 1)..Len(wal') : wal'[n].type = "checkpoint"
  <2> SUFFICES ASSUME ckpt.at = "flush" PROVE \E n \in (control + 1)..Len(wal') : wal'[n].type = "checkpoint"
    BY Zenon, <1>c
  <2>1. PICK n \in (control + 1)..Len(wal) : wal[n].type = "checkpoint"
    BY Zenon DEF Kept
  <2> QED
    BY <1>t, <1>g, <2>1 DEF LogGrows
<1>a. /\ answered \subseteq answered' /\ answered' \subseteq Xacts
      /\ \A y \in answered' \ answered : InTable(y)' /\ PreparedBy(y, flushed)
  <2>1. CASE PostPrepare(b)
    <3>1. answered \subseteq answered' /\ answered' \subseteq answered \cup {x}
      BY Zenon, <2>1, <1>x DEF PostPrepare
    <3>2. table'[x].locking = NoBackend
      BY Zenon, <2>1, <1>x, <1>h, <1>t DEF PostPrepare, InTable
    <3>3. PreparedBy(x, flushed)
      BY Zenon, <2>1, <1>x DEF PostPrepare, Step, IInv, Preparing
    <3> QED
      BY <3>1, <3>2, <3>3, <1>t, NoBackendIsNone DEF InTable, Absent
  <2>2. CASE ~PostPrepare(b)
    <3>1. answered' = answered
      BY Zenon, <2>2 DEF Backend, AtAbort, InsertPrepare, MarkAsPrepared, InsertFinish, FlushFinish, Invalidate,
                  RemoveGXact, masterVars
    <3> QED
      BY Zenon, <3>1, <1>t
  <2> QED
    BY Zenon, <2>1, <2>2
<1>i. \A y \in answered : InTable(y) => InTable(y)' \/ FinishedBy(y, flushed)
  <2>1. CASE RemoveGXact(b)
    <3>1. FinishedBy(x, flushed)
      BY Zenon, <2>1, <1>x DEF RemoveGXact, Step, IInv, Finishing
    <3>2. \A y \in Xacts \ {x} : table'[y] = table[y]
      BY Zenon, <2>1, <1>x, <1>t DEF RemoveGXact
    <3> QED
      BY Zenon, <3>1, <3>2, <1>t DEF InTable
  <2>2. CASE AtAbort(b)
    <3>1. \A y \in Xacts \ {x} : table'[y] = table[y]
      BY Zenon, <2>2, <1>x, <1>t DEF AtAbort
    <3>2. x \in answered => InTable(x)' \/ FinishedBy(x, flushed)
      <4>1. CASE table[x].valid
        BY Zenon, <2>2, <4>1, <1>x, <1>t, NoBackendIsNone DEF AtAbort, InTable, Entry, Absent
      <4>2. CASE ~table[x].valid
        BY Zenon, <2>2, <4>2, <1>x DEF AtAbort, IInv, Preparing, Finishing
      <4> QED
        BY Zenon, <4>1, <4>2
    <3> QED
      BY Zenon, <3>1, <3>2, <1>t DEF InTable
  <2>3. CASE MarkAsPrepared(b) \/ PostPrepare(b) \/ Invalidate(b)
    <3>0. table[x] \in [valid : BOOLEAN, locking : Backends \cup {NoBackend}]
      BY Zenon, <1>h, <1>t DEF InTable
    <3>1. \A y \in Xacts \ {x} : table'[y] = table[y]
      BY Zenon, <2>3, <1>x, <1>t DEF MarkAsPrepared, PostPrepare, Invalidate
    <3>2. table'[x] \in [valid : BOOLEAN, locking : Backends \cup {NoBackend}]
      <4>1. CASE MarkAsPrepared(b)
        BY Zenon, <4>1, <1>x, <1>t, <3>0 DEF MarkAsPrepared
      <4>2. CASE PostPrepare(b)
        BY Zenon, <4>2, <1>x, <1>t, <3>0 DEF PostPrepare
      <4>3. CASE Invalidate(b)
        BY Zenon, <4>3, <1>x, <1>t, <3>0 DEF Invalidate
      <4> QED
        BY Zenon, <2>3, <4>1, <4>2, <4>3
    <3> QED
      BY <3>1, <3>2, <1>t, NoBackendIsNone DEF InTable, Absent
  <2>4. CASE InsertPrepare(b) \/ InsertFinish(b) \/ FlushFinish(b)
    BY Zenon, <2>4 DEF InsertPrepare, InsertFinish, FlushFinish, InTable
  <2> QED
    BY Zenon, <2>1, <2>2, <2>3, <2>4 DEF Backend
<1>e. /\ finished' \subseteq Xacts
      /\ \A y \in finished' \ finished :
            /\ verdict[y] # "none"
            /\ verdict[y] = "commit" => \E i \in 1..flushed : wal[i].type = "commit" /\ wal[i].xid = y
  <2>1. CASE RemoveGXact(b)
    <3>1. finished' = finished \cup {x} /\ FinishedBy(x, flushed) /\ verdict[x] # "none"
      BY Zenon, <2>1, <1>x DEF RemoveGXact, Step, IInv, Finishing
    <3> QED
      BY Zenon, <3>1, <1>t, FinishedAsDecided
  <2>2. CASE ~RemoveGXact(b)
    <3>1. finished' = finished
      BY Zenon, <2>2 DEF Backend, AtAbort, InsertPrepare, MarkAsPrepared, PostPrepare, InsertFinish, FlushFinish, Invalidate, masterVars
    <3> QED
      BY Zenon, <3>1, <1>t
  <2> QED
    BY Zenon, <2>1, <2>2
<1>v. \A y \in Xacts : verdict'[y] = "commit" => y \in answered'
  BY Zenon, <1>c, <1>a DEF Kept
<1> QED
  BY Zenon, <1>h, <1>c, <1>g, <1>f, <1>a, <1>i, <1>e, <1>v, KeptOn

(* A step that leaves the log and the checkpointer alone *)
LEMMA SameLog ==
  ASSUME IInv, Kept, UNCHANGED <<walVars, ckpt>>
  PROVE  /\ LogGrows
         /\ ckpt'.at = "flush" => \E n \in (control' + 1)..Len(wal') : wal'[n].type = "checkpoint"
<1>1. TypeOK /\ flushed \in 1..Len(wal) /\ Len(wal) \in Nat
  BY DEF IInv, TypeOK
<1> QED
  BY <1>1, SameGrows DEF walVars, Kept

(* The steps that begin a backend's work *)
LEMMA KeptBegin ==
  ASSUME IInv, Kept, NEW b \in Backends, NEW x \in Xacts, MarkAsPreparing(b, x) \/ LockGXact(b, x)
  PROVE  Kept'
<1>t. /\ table \in [Xacts -> {Absent} \cup [valid : BOOLEAN, locking : Backends \cup {NoBackend}]]
      /\ answered \subseteq Xacts /\ finished \subseteq Xacts
  BY Zenon DEF IInv, TypeOK
<1>u. UNCHANGED <<walVars, ckpt, control, map, restarts, server, verdict, answered, finished>>
  BY Zenon DEF MarkAsPreparing, LockGXact, walVars, startVars, masterVars, bounds
<1>i. \A y \in answered : InTable(y) => InTable(y)'
  <2>1. \A y \in Xacts \ {x} : table'[y] = table[y]
    BY Zenon, <1>t DEF MarkAsPreparing, LockGXact
  <2>2. InTable(x) => InTable(x)'
    <3>1. CASE MarkAsPreparing(b, x)
      BY Zenon, <3>1 DEF MarkAsPreparing
    <3>2. CASE LockGXact(b, x)
      <4>1. InTable(x)
        BY <3>2, NoBackendIsNone DEF LockGXact, InTable, Absent
      <4>2. table[x] \in [valid : BOOLEAN, locking : Backends \cup {NoBackend}]
        BY Zenon, <4>1, <1>t DEF InTable
      <4>3. table'[x].locking = b
        BY Zenon, <3>2, <4>2, <1>t DEF LockGXact
      <4> QED
        BY <4>3, NoBackendIsNone DEF InTable, Absent
    <3> QED
      BY Zenon, <3>1, <3>2
  <2> QED
    BY Zenon, <1>t, <2>1, <2>2 DEF InTable
<1>v. \A y \in Xacts : verdict'[y] = "commit" => y \in answered'
  BY Zenon, <1>u DEF Kept
<1> QED
  BY Zenon, <1>t, <1>u, <1>i, <1>v, SameLog, KeptOn

(* TableFull, NotFound and the master's decisions *)
LEMMA KeptQuiet ==
  ASSUME IInv, Kept, NEW x \in Xacts, TableFull(x) \/ NotFound(x) \/ DecideCommit(x) \/ DecideAbort(x)
  PROVE  Kept'
<1>t. /\ answered \subseteq Xacts /\ finished \subseteq Xacts /\ verdict \in [Xacts -> {"none"} \cup Finish]
  BY Zenon DEF IInv, TypeOK
<1>u. UNCHANGED <<table, walVars, ckpt, control, map, restarts, server, answered>>
  BY Zenon DEF TableFull, NotFound, DecideCommit, DecideAbort, walVars, startVars, masterVars, bounds
<1>v. /\ \A y \in Xacts : verdict[y] # "none" => verdict'[y] = verdict[y]
      /\ \A y \in Xacts : verdict'[y] = "commit" => y \in answered'
  BY Zenon, <1>t DEF TableFull, NotFound, DecideCommit, DecideAbort, masterVars, Kept
<1>e. /\ finished' \subseteq Xacts
      /\ \A y \in finished' \ finished :
            /\ verdict[y] # "none"
            /\ verdict[y] = "commit" => Overtaken(y) \/ \E i \in 1..flushed : wal[i].type = "commit" /\ wal[i].xid = y
  <2>1. CASE NotFound(x)
    <3>1. finished' = finished \cup {x} /\ verdict[x] # "none" /\ server = "up" /\ ~table[x].valid
      BY Zenon, <2>1 DEF NotFound, Requested
    <3>2. verdict[x] = "commit" => Overtaken(x) \/ \E i \in 1..flushed : wal[i].type = "commit" /\ wal[i].xid = x
      BY Zenon, <3>1, NotValid, FinishedAsDecided DEF Kept
    <3> QED
      BY Zenon, <3>1, <3>2, <1>t
  <2>2. CASE ~NotFound(x)
    <3>1. finished' = finished
      BY Zenon, <2>2 DEF TableFull, DecideCommit, DecideAbort, masterVars
    <3> QED
      BY Zenon, <3>1, <1>t
  <2> QED
    BY Zenon, <2>1, <2>2
<1>i. \A y \in answered : InTable(y) => InTable(y)'
  BY Zenon, <1>u DEF InTable
<1> QED
  BY Zenon, <1>t, <1>u, <1>v, <1>e, <1>i, SameLog, KeptOn

(* The checkpointer: the end of a recovery is where a vote is overtaken. *)
LEMMA KeptCheckpointer ==
  ASSUME IInv, Kept, StartCheckpoint \/ Checkpointer
  PROVE  Kept'
<1>t. /\ answered \subseteq Xacts /\ finished \subseteq Xacts /\ TypeOK
      /\ wal \in Seq(Record) /\ Len(wal) \in Nat /\ flushed \in 1..Len(wal) /\ control \in 1..flushed
      /\ ckpt \in [at : {"idle", "vxids", "wait", "flush"}, redo : Nat, vxids : SUBSET Backends]
      /\ restarts \in Nat /\ wal[control].type = "checkpoint" /\ wal[control].redo \in Nat
  BY Zenon, LogTypes DEF IInv, TypeOK
<1>u. UNCHANGED <<table, map, restarts, verdict, answered, finished>>
  BY Zenon DEF StartCheckpoint, Checkpointer, ReadDelaying, InsertCheckpoint, FinishCheckpoint, startVars, masterVars, bounds
<1>i. \A y \in answered : InTable(y) => InTable(y)'
  BY Zenon, <1>u DEF InTable
<1>v. \A y \in Xacts : verdict'[y] = "commit" => y \in answered'
  BY Zenon, <1>u DEF Kept
<1>1. CASE StartCheckpoint \/ ReadDelaying
  <2>1. UNCHANGED <<wal, flushed, control, server>> /\ ckpt'.at # "flush"
    BY Zenon, <1>1, <1>t DEF StartCheckpoint, ReadDelaying, walVars, startVars
  <2>2. LogGrows
    BY <2>1, <1>t, SameGrows
  <2> QED
    BY Zenon, <1>t, <1>u, <1>i, <1>v, <2>1, <2>2, KeptOn
<1>2. CASE InsertCheckpoint
  <2>1. /\ UNCHANGED <<flushed, control, server>>
        /\ wal' = Append(wal, [type |-> "checkpoint", redo |-> ckpt.redo, prepared |-> {}])
        /\ [type |-> "checkpoint", redo |-> ckpt.redo, prepared |-> {}] \in Record
    BY Zenon, <1>2, <1>t, Recs DEF InsertCheckpoint, Insert, Chained, startVars
  <2>2. LogGrows
    BY Zenon, <2>1, <1>t, AppendGrows
  <2>3. Len(wal') = Len(wal) + 1 /\ wal'[Len(wal) + 1].type = "checkpoint"
    BY <2>1, <1>t, Appended
  <2>4. \E n \in (control' + 1)..Len(wal') : wal'[n].type = "checkpoint"
    BY <2>1, <2>3, <1>t
  <2> QED
    BY Zenon, <1>t, <1>u, <1>i, <1>v, <2>1, <2>2, <2>4, KeptOn
<1>3. CASE FinishCheckpoint
  <2>0. DOMAIN wal = 1..Len(wal)
    BY <1>t
  <2>1. PICK n \in 1..Len(wal) :
           /\ wal[n].type = "checkpoint" /\ n > control
           /\ flushed' = (IF flushed < n THEN n ELSE flushed) /\ control' = n
    <3> DEFINE Last(i) == wal[i].type = "checkpoint" /\ \A j \in DOMAIN wal : wal[j].type = "checkpoint" => j <= i
               m == CHOOSE i \in DOMAIN wal : Last(i)
    <3>1. PICK k \in 1..Len(wal) : /\ wal[k].type = "checkpoint"
                                   /\ \A i \in (k + 1)..Len(wal) : wal[i].type # "checkpoint"
      BY Zenon, <1>3 DEF FinishCheckpoint, IInv, LogCheckpoint
    <3>2. Last(k)
      BY <2>0, <3>1, <1>t
    <3>3. m \in DOMAIN wal /\ Last(m)
      BY Zenon, <2>0, <3>2
    <3>4. flushed' = (IF flushed < m THEN m ELSE flushed) /\ control' = m
      BY Zenon, <1>3 DEF FinishCheckpoint, FlushTo
    <3>5. PICK l \in (control + 1)..Len(wal) : wal[l].type = "checkpoint"
      BY Zenon, <1>3 DEF FinishCheckpoint, Kept
    <3> HIDE DEF m
    <3>6. m > control
      BY <1>t, <2>0, <3>3, <3>5
    <3> QED
      BY Zenon, <2>0, <3>3, <3>4, <3>6
  <2>2. wal' = wal /\ ckpt'.at # "flush" /\ server' = (IF server = "redone" THEN "reload" ELSE server) /\ flushed' \in flushed..Len(wal)
    BY <1>3, <1>t, <2>1 DEF FinishCheckpoint, IdleCheckpointer
  <2>3. LogGrows
    BY Zenon, <1>t, <2>2, SameGrows
  <2>4. server = "redone" => \A x \in answered : PreparedBy(x, wal[control].redo - 1) => Overtaken(x)'
    <3> SUFFICES ASSUME server = "redone", NEW x, NEW i \in 1..(wal[control].redo - 1), wal[i].type = "prepare", wal[i].xid = x
                 PROVE  Overtaken(x)'
      BY Zenon DEF PreparedBy
    <3>1. restarts' > 0
      BY <1>u, <1>t DEF Kept
    <3>2. i < wal[control].redo /\ control \in 1..flushed' /\ n \in 1..flushed' /\ control < n
      BY <1>t, <2>1
    <3>3. wal[control].redo <= control
      BY <1>t DEF IInv, LogCheckpoint
    <3>4. i \in 1..flushed'
      BY <1>t, <3>2, <3>3, <2>1
    <3> QED
      BY Zenon, <1>t, <2>1, <2>2, <3>1, <3>2, <3>4 DEF Overtaken
  <2> QED
    BY Zenon, <1>t, <1>u, <1>i, <1>v, <2>2, <2>3, <2>4, KeptOn
<1> QED
  BY Zenon, <1>1, <1>2, <1>3 DEF Checkpointer

(* Crash, and the replay up to the reload *)
LEMMA KeptCrash ==
  ASSUME IInv, Kept, Crash
  PROVE  Kept'
<1>1. /\ server' = "crashed" /\ ckpt'.at = "idle" /\ restarts' = restarts + 1 /\ restarts \in Nat
      /\ UNCHANGED <<verdict, answered, finished>>
  BY Zenon DEF IInv, TypeOK, Crash, masterVars, IdleCheckpointer
<1>2. \A x : /\ PreparedBy(x, flushed) => PreparedBy(x, flushed)'
             /\ (\E i \in 1..flushed : wal[i].type = "commit" /\ wal[i].xid = x) =>
                  \E i \in 1..flushed' : wal'[i].type = "commit" /\ wal'[i].xid = x
             /\ Overtaken(x) => Overtaken(x)'
  BY Zenon, <1>1, OnDisk
<1>3. NotFoundOnlyIfLost'
  BY Zenon, <1>1, <1>2 DEF Kept, NotFoundOnlyIfLost
<1> QED
  BY <1>1, <1>2, <1>3 DEF Kept

(* The replay finds every PREPARE that the checkpoint has not passed. *)
LEMMA KeptStartup ==
  ASSUME IInv, Kept, StartRedo \/ Redo \/ RecoverPreparedTransactions
  PROVE  Kept'
<1>t. /\ wal \in Seq(Record) /\ Len(wal) \in Nat /\ flushed \in 1..Len(wal) /\ answered \subseteq Xacts
      /\ wal[control].redo \in Nat /\ wal[control].redo > 0
  BY Zenon, LogTypes DEF IInv, TypeOK
<1>u. UNCHANGED <<wal, flushed, control, ckpt, verdict, answered, finished, restarts>>
  BY Zenon DEF StartRedo, Redo, RecoverPreparedTransactions, walVars, masterVars, bounds
<1>k. /\ \A x, n : (PreparedBy(x, n)' <=> PreparedBy(x, n)) /\ (FinishedBy(x, n)' <=> FinishedBy(x, n))
      /\ \A x : Overtaken(x)' <=> Overtaken(x)
  BY Zenon, <1>u DEF PreparedBy, FinishedBy, Overtaken
<1>1. /\ restarts # 0
      /\ ckpt'.at = "flush" => \E n \in (control' + 1)..Len(wal') : wal'[n].type = "checkpoint"
      /\ \A x \in finished' : verdict'[x] # "none"
      /\ \A x \in Xacts : verdict'[x] = "commit" => x \in answered'
      /\ \A x \in answered' : PreparedBy(x, flushed)'
  BY Zenon, <1>u, <1>k DEF Kept, StartRedo, Redo, RecoverPreparedTransactions
<1>2. NotFoundOnlyIfLost'
  BY Zenon, <1>u, <1>k DEF Kept, NotFoundOnlyIfLost
<1>3. ASSUME NEW x \in answered'
      PROVE  /\ server' = "up" => InTable(x)' \/ Overtaken(x)' \/ FinishedBy(x, Len(wal))'
             /\ server' = "redone" => x \in map' \/ PreparedBy(x, wal[control].redo - 1)' \/ FinishedBy(x, Len(wal))'
             /\ server' = "reload" => x \in map' \/ Overtaken(x)' \/ FinishedBy(x, Len(wal))'
  <2>x. x \in Xacts /\ x \in answered /\ PreparedBy(x, flushed)
    BY Zenon, <1>t, <1>u DEF Kept
  <2>1. CASE StartRedo
    BY Zenon, <2>1 DEF StartRedo
  <2>2. CASE Redo
    <3>1. CASE replay = Len(wal)
      <4>0. server' = "redone" /\ flushed = Len(wal)
        BY Zenon, <2>2, <3>1 DEF Redo, IInv, Replayed
      <4>1. x \in map' <=> /\ \E i \in wal[control].redo..Len(wal) : wal[i].type = "prepare" /\ wal[i].xid = x
                           /\ ~FinishedBy(x, Len(wal))
        BY Zenon, <2>2, <3>1, <2>x, RedoneMap
      <4>2. PICK i \in 1..Len(wal) : wal[i].type = "prepare" /\ wal[i].xid = x
        BY Zenon, <2>x, <4>0 DEF PreparedBy
      <4>3. CASE i < wal[control].redo
        <5>1. PreparedBy(x, wal[control].redo - 1)
          BY <1>t, <4>2, <4>3 DEF PreparedBy
        <5> QED
          BY Zenon, <1>u, <1>k, <4>0, <5>1
      <4>4. CASE ~(i < wal[control].redo)
        <5>1. i \in wal[control].redo..Len(wal)
          BY <1>t, <4>4
        <5> QED
          BY Zenon, <1>u, <1>k, <4>0, <4>1, <4>2, <5>1
      <4> QED
        BY Zenon, <4>3, <4>4
    <3>2. CASE replay # Len(wal)
      BY Zenon, <2>2, <3>2 DEF Redo
    <3> QED
      BY Zenon, <3>1, <3>2
  <2>3. CASE RecoverPreparedTransactions
    <3>1. server = "reload" /\ server' = "up"
      BY Zenon, <2>3 DEF RecoverPreparedTransactions
    <3>2. x \in map => InTable(x)'
      BY Zenon, <2>3, <2>x, NoBackendIsNone DEF RecoverPreparedTransactions, InTable, Entry, Absent
    <3> QED
      BY Zenon, <1>u, <1>k, <2>x, <3>1, <3>2 DEF Kept
  <2> QED
    BY Zenon, <2>1, <2>2, <2>3
<1> QED
  BY Zenon, <1>u, <1>1, <1>2, <1>3 DEF Kept

(* A step that changes nothing loses nothing. *)
LEMMA KeptStutter ==
  ASSUME IInv, Kept, UNCHANGED vars
  PROVE  Kept'
<1>t. answered \subseteq Xacts /\ finished \subseteq Xacts
  BY Zenon DEF IInv, TypeOK
<1>u. UNCHANGED <<walVars, ckpt, control, map, restarts, server, verdict, answered, finished, table>>
  BY Zenon DEF vars, walVars, startVars, masterVars, bounds
<1>i. \A y \in answered : InTable(y) => InTable(y)'
  BY Zenon, <1>u DEF InTable
<1>v. \A y \in Xacts : verdict'[y] = "commit" => y \in answered'
  BY Zenon, <1>u DEF Kept
<1> QED
  BY Zenon, <1>t, <1>u, <1>i, <1>v, SameLog, KeptOn

(* Every step keeps the votes as far as Kept says. *)
LEMMA KeptNext ==
  ASSUME IInv, Kept, [Next]_vars
  PROVE  Kept'
<1>1. ASSUME NEW b \in Backends, Backend(b) \/ AtAbort(b)
      PROVE  Kept'
  BY Zenon, <1>1, KeptBackend
<1>2. ASSUME NEW b \in Backends, NEW x \in Xacts, MarkAsPreparing(b, x) \/ LockGXact(b, x)
      PROVE  Kept'
  BY Zenon, <1>2, KeptBegin
<1>3. ASSUME NEW x \in Xacts, TableFull(x) \/ NotFound(x) \/ DecideCommit(x) \/ DecideAbort(x)
      PROVE  Kept'
  BY Zenon, <1>3, KeptQuiet
<1>4. CASE StartCheckpoint \/ Checkpointer
  BY Zenon, <1>4, KeptCheckpointer
<1>5. CASE Crash \/ StartRedo \/ Redo \/ RecoverPreparedTransactions
  BY Zenon, <1>5, KeptCrash, KeptStartup
<1>6. CASE UNCHANGED vars
  BY Zenon, <1>6, KeptStutter
<1> QED
  BY Zenon, <1>1, <1>2, <1>3, <1>4, <1>5, <1>6 DEF Next

(* At the start there are none. *)
LEMMA InitKept == Init => Kept
<1> SUFFICES ASSUME Init PROVE Kept
  BY Zenon
<1>1. /\ restarts = 0 /\ server = "up" /\ ckpt.at = "idle" /\ finished = {} /\ answered = {}
      /\ \A x \in Xacts : verdict[x] = "none"
  BY Zenon DEF Init, IdleCheckpointer
<1> QED
  BY Zenon, <1>1 DEF Kept, NotFoundOnlyIfLost

-----------------------------------------------------------------------------

(* An insert of a record that is no checkpoint, or none at all *)
LEMMA OneMoreRecord ==
  ASSUME IInv, OneCheckpoint, LogGrows, Len(wal') = Len(wal) \/ (Len(wal') = Len(wal) + 1 /\ wal'[Len(wal')].type # "checkpoint"),
         UNCHANGED <<server, ckpt, restarts, checkpoints>>
  PROVE  OneCheckpoint'
<1>1. Len(wal) \in Nat
  BY DEF IInv, TypeOK
<1>2. \A j \in 2..Len(wal') : wal'[j].type = "checkpoint" => j \in 2..Len(wal) /\ wal[j].type = "checkpoint"
  BY <1>1 DEF LogGrows
<1> QED
  BY Zenon, <1>2 DEF OneCheckpoint, Early

(* Every step leaves the log with that one checkpoint as long as the segment is Early. *)
LEMMA OneCheckpointNext ==
  ASSUME IInv, Kept, OneCheckpoint, [Next]_vars
  PROVE  OneCheckpoint'
<1>t. /\ wal \in Seq(Record) /\ Len(wal) \in Nat /\ restarts \in Nat /\ checkpoints \in Nat /\ TypeOK
      /\ flushed \in 1..Len(wal) /\ control \in 1..flushed
      /\ ckpt \in [at : {"idle", "vxids", "wait", "flush"}, redo : Nat, vxids : SUBSET Backends]
  BY DEF IInv, TypeOK
<1>1. ASSUME NEW b \in Backends, InsertPrepare(b) \/ InsertFinish(b)
      PROVE  OneCheckpoint'
  <2> DEFINE type == IF InsertPrepare(b) THEN "prepare" ELSE verdict[work[b]]
             r == [type |-> type, xid |-> work[b]]
  <2>1. wal' = Append(wal, r) /\ UNCHANGED <<flushed, server, ckpt, restarts, checkpoints>>
    BY Zenon, <1>1 DEF InsertPrepare, InsertFinish, Step, Insert, startVars, bounds
  <2>2. type \in {"prepare"} \cup Finish /\ work[b] \in Xacts
    BY Zenon, <1>1 DEF InsertFinish, Step, IInv, TypeOK, Finishing
  <2> HIDE DEF type
  <2>3. r \in Record /\ r.type # "checkpoint"
    BY Zenon, <2>2, Recs DEF Finish
  <2> HIDE DEF r
  <2>4. LogGrows /\ Len(wal') = Len(wal) + 1 /\ wal'[Len(wal')].type # "checkpoint"
    BY Zenon, <2>1, <2>3, <1>t, AppendGrows, Appended
  <2> QED
    BY Zenon, <2>1, <2>4, OneMoreRecord
<1>2. CASE UNCHANGED <<wal, server, ckpt, restarts, checkpoints>>
  BY Zenon, <1>2 DEF OneCheckpoint, Early
<1>3. CASE StartCheckpoint
  BY <1>3, <1>t DEF StartCheckpoint, OneCheckpoint, Early, walVars, startVars
<1>4. CASE ReadDelaying
  BY Zenon, <1>4, <1>t DEF ReadDelaying, OneCheckpoint, Early, walVars, startVars, bounds
<1>5. CASE InsertCheckpoint
  <2>1. /\ UNCHANGED <<server, restarts, checkpoints>> /\ ckpt.at = "wait" /\ ckpt'.at = "flush"
        /\ wal' = Append(wal, [type |-> "checkpoint", redo |-> ckpt.redo, prepared |-> {}])
        /\ [type |-> "checkpoint", redo |-> ckpt.redo, prepared |-> {}] \in Record
    BY Zenon, <1>5, <1>t, Recs DEF InsertCheckpoint, Insert, Chained, startVars, bounds
  <2>2. Len(wal') = Len(wal) + 1 /\ \A j \in 1..Len(wal) : wal'[j] = wal[j]
    BY Zenon, <2>1, <1>t, Appended
  <2>3. ASSUME Early'
        PROVE  server' = "redone" /\ \A j \in 2..Len(wal') : wal'[j].type = "checkpoint" => j = Len(wal) + 1
    <3>1. Early /\ server = "redone" /\ \A j \in 2..Len(wal) : wal[j].type # "checkpoint"
      BY Zenon, <2>1, <2>3 DEF OneCheckpoint, Early
    <3> QED
      BY <2>1, <2>2, <3>1, <1>t
  <2> QED
    BY Zenon, <2>1, <2>3 DEF OneCheckpoint
<1>6. CASE FinishCheckpoint
  <2>1. /\ UNCHANGED <<wal, restarts, checkpoints>> /\ ckpt.at = "flush" /\ ckpt'.at = "idle"
        /\ server' = IF server = "redone" THEN "reload" ELSE server
    BY Zenon, <1>6 DEF FinishCheckpoint, IdleCheckpointer, bounds
  <2> QED
    BY <2>1, <1>t DEF OneCheckpoint, Early, Kept
<1>7. CASE Crash
  <2>1. PICK n \in flushed..Len(wal) : wal' = SubSeq(wal, 1, n)
    BY Zenon, <1>7 DEF Crash
  <2>2. Len(wal') = n /\ \A j \in 1..n : wal'[j] = wal[j]
    BY <2>1, <1>t, Cut
  <2>3. restarts' = restarts + 1 /\ checkpoints' = checkpoints /\ ckpt'.at = "idle"
    BY Zenon, <1>7 DEF Crash, IdleCheckpointer
  <2>4. ASSUME Early', NEW j \in 2..Len(wal') PROVE wal'[j].type # "checkpoint"
    <3>1. Early /\ restarts = 0 /\ server = "up"
      BY <2>3, <2>4, <1>t DEF Early, Kept
    <3>2. wal[j].type # "checkpoint"
      BY <2>1, <2>2, <1>t, <3>1 DEF OneCheckpoint
    <3> QED
      BY <2>1, <2>2, <1>t, <3>2
  <2> QED
    BY Zenon, <2>3, <2>4 DEF OneCheckpoint
<1>8. CASE StartRedo \/ Redo \/ RecoverPreparedTransactions
  <2>1. UNCHANGED <<wal, ckpt, restarts, checkpoints>>
    BY Zenon, <1>8 DEF StartRedo, Redo, RecoverPreparedTransactions, walVars, bounds
  <2>2. ckpt.at = "idle"
    BY Zenon, <1>8, <1>t DEF StartRedo, Redo, RecoverPreparedTransactions, IInv, CheckpointWhen
  <2> QED
    BY Zenon, <1>8, <2>1, <2>2, <1>t DEF StartRedo, Redo, RecoverPreparedTransactions, OneCheckpoint, Early
<1>9. ASSUME NEW b \in Backends, Backend(b) \/ AtAbort(b)
      PROVE  OneCheckpoint'
  <2>1. CASE InsertPrepare(b) \/ InsertFinish(b)
    BY Zenon, <2>1, <1>1
  <2>2. CASE ~(InsertPrepare(b) \/ InsertFinish(b))
    <3>1. UNCHANGED <<wal, server, ckpt, restarts, checkpoints>>
      BY Zenon, <1>9, <2>2 DEF Backend, MarkAsPrepared, PostPrepare, FlushFinish, Invalidate, RemoveGXact, AtAbort,
                        walVars, startVars, bounds
    <3> QED
      BY Zenon, <3>1, <1>2
  <2> QED
    BY Zenon, <2>1, <2>2
<1>10. ASSUME NEW b \in Backends, NEW x \in Xacts, MarkAsPreparing(b, x) \/ LockGXact(b, x)
       PROVE  OneCheckpoint'
  <2>1. UNCHANGED <<wal, server, ckpt, restarts, checkpoints>>
    BY Zenon, <1>10 DEF MarkAsPreparing, LockGXact, walVars, startVars, bounds
  <2> QED
    BY Zenon, <2>1, <1>2
<1>11. ASSUME NEW x \in Xacts, TableFull(x) \/ NotFound(x) \/ DecideCommit(x) \/ DecideAbort(x)
       PROVE  OneCheckpoint'
  <2>1. UNCHANGED <<wal, server, ckpt, restarts, checkpoints>>
    BY Zenon, <1>11 DEF TableFull, NotFound, DecideCommit, DecideAbort, walVars, startVars, bounds
  <2> QED
    BY Zenon, <2>1, <1>2
<1>12. CASE UNCHANGED vars
  <2>1. UNCHANGED <<wal, server, ckpt, restarts, checkpoints>>
    BY Zenon, <1>12 DEF vars, walVars, startVars, bounds
  <2> QED
    BY Zenon, <2>1, <1>2
<1> QED
  BY Zenon, <1>3, <1>4, <1>5, <1>6, <1>7, <1>8, <1>9, <1>10, <1>11, <1>12 DEF Next, Checkpointer

(* At the start the log has the first checkpoint only. *)
LEMMA InitOneCheckpoint == Init => OneCheckpoint
<1> SUFFICES ASSUME Init PROVE OneCheckpoint
  BY Zenon
<1>1. Len(wal) = 1 /\ ckpt.at = "idle"
  BY Zenon DEF Init, IdleCheckpointer
<1> QED
  BY <1>1 DEF OneCheckpoint

-----------------------------------------------------------------------------
(* The theorems *)

(* The invariant holds in every behaviour of the segment: who holds an entry, what the log
   says of it, what the replay makes of the log, and where a vote is found. *)
THEOREM SegInvariance == Spec => []SegInv
<1>1. Init => SegInv
  BY Zenon, InitIInv, InitKept, InitOneCheckpoint DEF SegInv
<1>2. SegInv /\ [Next]_vars => SegInv'
  BY Zenon, NextStep, KeptNext, OneCheckpointNext DEF SegInv
<1> QED
  BY <1>1, <1>2, PTL DEF Spec

(* Every variable of the segment keeps its type. *)
THEOREM SegTypeCorrect == Spec => []TypeOK
<1>1. IInv => TypeOK
  BY Zenon DEF IInv
<1> QED
  BY <1>1, SegInvariance, PTL DEF SegInv

(* One record finishes a transaction, however many backends and restarts try to. *)
THEOREM SegFinishesOnce == Spec => []FinishOnce
<1>1. ASSUME IInv PROVE FinishOnce
  <2>1. DOMAIN wal = 1..Len(wal)
    BY <1>1 DEF IInv, TypeOK
  <2> QED
    BY Zenon, <1>1, <2>1 DEF IInv, LogOrder, FinishOnce
<1> QED
  BY <1>1, SegInvariance, PTL DEF SegInv

(* An entry that nobody has locked can be finished. *)
THEOREM SegUnlockedCanFinish == Spec => []UnlockedCanFinish
<1>1. ASSUME IInv PROVE UnlockedCanFinish
  <2>1. DOMAIN wal = 1..Len(wal)
    BY <1>1 DEF IInv, TypeOK
  <2> QED
    BY Zenon, <1>1, <2>1 DEF IInv, Free, PreparedBy, FinishedBy, UnlockedCanFinish
<1> QED
  BY <1>1, SegInvariance, PTL DEF SegInv

(* The recovery brings back nothing that the log has finished. *)
THEOREM SegNothingFinishedIsReloaded == Spec => []NothingFinishedIsReloaded
<1>1. ASSUME IInv PROVE NothingFinishedIsReloaded
  <2>1. DOMAIN wal = 1..Len(wal)
    BY <1>1 DEF IInv, TypeOK
  <2> QED
    BY Zenon, <1>1, <2>1 DEF IInv, Replayed, FinishedBy, NothingFinishedIsReloaded, Logged
<1> QED
  BY <1>1, SegInvariance, PTL DEF SegInv

(* The table never overflows, the reload after a crash included. *)
THEOREM SegTableFits == Spec => []TableFits
<1>1. IInv => TableFits
  BY Zenon DEF IInv
<1> QED
  BY <1>1, SegInvariance, PTL DEF SegInv

(* The records that finish x are the ones that PreparedHeld looks for. *)
LEMMA LoggedFinish ==
  ASSUME IInv, NEW x \in Xacts
  PROVE  FinishedBy(x, Len(wal)) <=> \E type \in Finish : x \in Logged(wal, type)
<1>1. DOMAIN wal = 1..Len(wal)
  BY DEF IInv, TypeOK
<1> QED
  BY Zenon, <1>1 DEF FinishedBy, Logged

(* A vote is lost only to a crash behind a checkpoint that has passed its PREPARE. *)
THEOREM SegLostOnlyToCheckpoint == Spec => []LostOnlyToCheckpoint
<1>1. ASSUME IInv, Kept PROVE LostOnlyToCheckpoint
  BY Zenon, <1>1, LoggedFinish DEF IInv, TypeOK, Kept, LostOnlyToCheckpoint
<1> QED
  BY <1>1, SegInvariance, PTL DEF SegInv

(* A COMMIT PREPARED is answered with success without a commit record only for such a vote. *)
THEOREM SegNotFoundOnlyIfLost == Spec => []NotFoundOnlyIfLost
<1>1. Kept => NotFoundOnlyIfLost
  BY Zenon DEF Kept
<1> QED
  BY <1>1, SegInvariance, PTL DEF SegInv

(* Nothing is overtaken until a checkpoint is followed by a crash. *)
LEMMA NotOvertaken ==
  ASSUME IInv, OneCheckpoint, FromFirst, NEW x, Overtaken(x)
  PROVE  FALSE
<1>0. restarts \in Nat /\ restarts > 0 /\ Early
  BY DEF Overtaken, FromFirst, IInv, TypeOK
<1>1. PICK i \in 1..flushed, j \in 1..flushed, k \in 1..flushed :
           /\ wal[j].type = "checkpoint" /\ i < wal[j].redo
           /\ wal[k].type = "checkpoint" /\ j < k
  BY Zenon DEF Overtaken
<1>2. flushed \in 1..Len(wal) /\ Len(wal) \in Nat
  BY DEF IInv, TypeOK
<1>3. j \in 1..Len(wal) /\ k \in 1..Len(wal)
  BY <1>2
<1>4. wal[j].redo \in 1..j
  BY Zenon, <1>1, <1>3 DEF IInv, LogCheckpoint
<1>5. j \in 2..Len(wal) /\ k \in 2..Len(wal) /\ j # k
  BY <1>1, <1>3, <1>4
<1> QED
  BY Zenon, <1>0, <1>1, <1>5 DEF OneCheckpoint

(* A vote is kept, and the answer to COMMIT PREPARED true, until the first crash, and across
   it if no checkpoint was taken before. *)
THEOREM SegPreparedHeldFromFirst == Spec => [](FromFirst => PreparedHeld /\ CommitAnswerIsDurable)
<1>1. ASSUME IInv, Kept, OneCheckpoint, FromFirst
      PROVE  PreparedHeld /\ CommitAnswerIsDurable
  <2>1. \A x : ~Overtaken(x)
    BY Zenon, <1>1, NotOvertaken
  <2>2. PreparedHeld
    BY Zenon, <1>1, <2>1, LoggedFinish DEF IInv, TypeOK, Kept, PreparedHeld
  <2>3. CommitAnswerIsDurable
    BY Zenon, <1>1, <2>1 DEF Kept, NotFoundOnlyIfLost, CommitAnswerIsDurable
  <2> QED
    BY Zenon, <2>2, <2>3
<1> QED
  BY <1>1, SegInvariance, PTL DEF SegInv
=============================================================================
