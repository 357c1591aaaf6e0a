---------------------------- MODULE SegInvariant ----------------------------
(***************************************************************************)
(* The inductive invariant behind the safety of SegTwoPhase: who holds an  *)
(* entry of the table, what the log holds of its transaction at each step  *)
(* of the holder, and what the replay has made of the log so far.          *)
(***************************************************************************)
EXTENDS SegTwoPhase

(* The first n records of the log prepare x, or finish it. *)
PreparedBy(x, n) == \E i \in 1..n : wal[i].type = "prepare" /\ wal[i].xid = x
FinishedBy(x, n) == \E i \in 1..n : wal[i].type \in Finish /\ wal[i].xid = x

(* An entry is locked by the one backend that works on it. *)
Locks ==
  /\ \A b \in Backends : at[b] # "idle" => server = "up" /\ table[work[b]].locking = b
  /\ \A x \in Xacts, b \in Backends : table[x].locking = b => at[b] # "idle" /\ work[b] = x

(* The table is empty until it is reloaded. *)
Down == server # "up" => \A x \in Xacts : table[x] = Absent

(* What the entry and the log look like at each step of PrepareTransaction ... *)
Preparing(b) ==
  LET x == work[b]
  IN  /\ at[b] \in {"preparing", "prepareInserted"} => ~table[x].valid /\ x \notin answered
      /\ at[b] = "preparing" => ~PreparedBy(x, Len(wal))
      /\ at[b] = "prepareInserted" => PreparedBy(x, Len(wal))
      /\ at[b] = "valid" => table[x].valid /\ PreparedBy(x, flushed)
      /\ at[b] \in {"preparing", "prepareInserted", "valid"} => ~FinishedBy(x, Len(wal))

(* ... and of FinishPreparedTransaction. *)
Finishing(b) ==
  LET x == work[b]
  IN  /\ at[b] \in {"locked", "finishInserted", "recorded", "invalid"} =>
           verdict[x] # "none" /\ PreparedBy(x, flushed)
      /\ at[b] \in {"locked", "finishInserted", "recorded"} => table[x].valid
      /\ at[b] = "locked" => ~FinishedBy(x, Len(wal))
      /\ at[b] = "finishInserted" => FinishedBy(x, Len(wal))
      /\ at[b] = "recorded" => FinishedBy(x, flushed)
      /\ at[b] = "invalid" => ~table[x].valid /\ FinishedBy(x, flushed)

Free(x) ==
  table[x].locking = NoBackend =>
    table[x].valid /\ PreparedBy(x, flushed) /\ ~FinishedBy(x, Len(wal))

(* A transaction that has not come to its PREPARE has left no trace. *)
Fresh(x) ==
  x \in active => ~PreparedBy(x, Len(wal)) /\ ~InTable(x) /\ x \notin answered

(* The log: one PREPARE of a transaction, then at most one record that finishes it,
   as decided; while that record is not on disk its backend is about to flush it. *)
LogOrder ==
  \A i, j \in 1..Len(wal) :
    /\ wal[i].type = "prepare" /\ wal[j].type = "prepare" /\ wal[i].xid = wal[j].xid => i = j
    /\ wal[i].type \in Finish /\ wal[j].type \in Finish /\ wal[i].xid = wal[j].xid => i = j

LogFinish ==
  \A i \in 1..Len(wal) : wal[i].type \in Finish =>
    LET x == wal[i].xid
    IN  /\ wal[i].type = verdict[x]
        /\ PreparedBy(x, i)
        /\ i > flushed => \E b \in Backends : work[b] = x /\ at[b] = "finishInserted"

(* Checkpoints list no prepared transaction; their REDO pointers advance. *)
LogCheckpoint ==
  /\ \A i \in 1..Len(wal) : wal[i].type = "checkpoint" => wal[i].redo \in 1..i /\ wal[i].prepared = {}
  /\ ckpt.at # "idle" => ckpt.redo \in wal[control].redo..(Len(wal) + 1) /\ ckpt.redo > 0
  /\ ckpt.at = "flush" =>
       \E n \in 1..Len(wal) : /\ wal[n].type = "checkpoint" /\ wal[n].redo = ckpt.redo
                              /\ \A i \in (n + 1)..Len(wal) : wal[i].type # "checkpoint"

(* The table that a checkpoint looks at is either in use or still empty. *)
CheckpointWhen == ckpt.at # "idle" => server \in {"up", "redone"}

(* The replay: the map holds what the records from REDO up to here have prepared and
   not finished. *)
Replayed ==
  /\ server \in {"crashed", "redo"} => flushed = Len(wal)
  /\ server = "redo" =>
       /\ replay \in wal[control].redo..Len(wal)
       /\ \A x \in Xacts : x \in map <=>
            /\ \E i \in wal[control].redo..(replay - 1) : wal[i].type = "prepare" /\ wal[i].xid = x
            /\ ~FinishedBy(x, replay - 1)
  /\ server \in {"redone", "reload"} =>
       \A x \in map : PreparedBy(x, flushed) /\ ~FinishedBy(x, Len(wal))

(* What a crash now would bring back from the records behind REDO, if it left n of them *)
Unfinished(n) ==
  {x \in Xacts : /\ \E i \in wal[control].redo..n : wal[i].type = "prepare" /\ wal[i].xid = x
                 /\ ~FinishedBy(x, n)}

(* ... fits into the table: all of it is there now. *)
Fits ==
  /\ server = "up" => \A n \in flushed..Len(wal) : \A x \in Unfinished(n) : InTable(x)
  /\ server \in {"crashed", "redo"} => Cardinality(Unfinished(Len(wal))) <= MaxPrepared
  /\ server \in {"redone", "reload"} =>
       Cardinality(map) <= MaxPrepared /\ \A n \in flushed..Len(wal) : \A x \in Unfinished(n) : x \in map

IInv ==
  /\ TypeOK /\ Locks /\ Down
  /\ \A b \in Backends : Preparing(b) /\ Finishing(b)
  /\ \A x \in Xacts : Free(x) /\ Fresh(x)
  /\ LogOrder /\ LogFinish /\ LogCheckpoint /\ CheckpointWhen
  /\ Replayed
  /\ TableFits /\ Fits

(* A vote is in the table, or in the map that the table is reloaded from, or its PREPARE
   lies before the REDO pointer that the replay began at. *)
Kept ==
  /\ restarts = 0 => server = "up"
  /\ ckpt.at = "flush" => \E n \in (control + 1)..Len(wal) : wal[n].type = "checkpoint"
  /\ \A x \in finished : verdict[x] # "none"
  /\ \A x \in Xacts : verdict[x] = "commit" => x \in answered
  /\ \A x \in answered :
       /\ PreparedBy(x, flushed)
       /\ server = "up" => InTable(x) \/ Overtaken(x) \/ FinishedBy(x, Len(wal))
       /\ server = "redone" => x \in map \/ PreparedBy(x, wal[control].redo - 1) \/ FinishedBy(x, Len(wal))
       /\ server = "reload" => x \in map \/ Overtaken(x) \/ FinishedBy(x, Len(wal))
  /\ NotFoundOnlyIfLost

(* No checkpoint has been started while the segment was up, and it has crashed once at most. *)
Early == restarts <= 1 /\ checkpoints = 0

(* The log then has, apart from the first one, no checkpoint but the one that ends the recovery. *)
OneCheckpoint ==
  Early =>
    /\ \A j, k \in 2..Len(wal) : wal[j].type = "checkpoint" /\ wal[k].type = "checkpoint" => j = k
    /\ \A j \in 2..Len(wal) : wal[j].type = "checkpoint" =>
         (server \in {"up", "reload"} /\ restarts = 1) \/ (server = "redone" /\ ckpt.at = "flush")
    /\ ckpt.at # "idle" => server = "redone"

(* The inductive invariant: every step of the segment preserves it. *)
SegInv == IInv /\ Kept /\ OneCheckpoint

(* A crash replays the log from its beginning. *)
FromFirst == restarts = 0 \/ Early
=============================================================================
