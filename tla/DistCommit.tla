---------------------------- MODULE DistCommit ----------------------------
(***************************************************************************)
(* What the distributed transaction manager promises, without saying how:  *)
(* each distributed transaction has one outcome, decided once.  It is      *)
(* decided commit only when every segment that took part has prepared, and *)
(* a segment ends its part only in accordance with the outcome.            *)
(***************************************************************************)
CONSTANTS Segs, Gxacts

VARIABLES
  part,      \* each segment's part in each transaction
  outcome    \* the decision on each transaction

Part == {"out", "working", "prepared", "committed", "aborted"}
Outcome == {"open", "commit", "abort"}

Init ==
  /\ part = [g \in Gxacts |-> [s \in Segs |-> "out"]]
  /\ outcome = [g \in Gxacts |-> "open"]

(* The decision on g stands, or is taken now. *)
Decide(g) ==
  \/ outcome'[g] = outcome[g]
  \/ outcome[g] = "open" /\ outcome'[g] = "abort"
  \/ /\ outcome[g] = "open" /\ outcome'[g] = "commit"
     /\ \A s \in Segs : part[g][s] \in {"out", "prepared"}
     /\ \E s \in Segs : part[g][s] = "prepared"

(* Segment s joins g, prepares it, or ends its part as decided. *)
Proceed(g, s) ==
  \/ part'[g][s] = part[g][s]
  \/ part[g][s] = "out" /\ part'[g][s] = "working" /\ outcome[g] # "commit"
  \/ part[g][s] = "working" /\ part'[g][s] = "prepared" /\ outcome[g] # "commit"
  \/ part[g][s] = "prepared" /\ part'[g][s] = "committed" /\ outcome[g] = "commit"
  \/ part[g][s] \in {"working", "prepared"} /\ part'[g][s] = "aborted" /\ outcome'[g] = "abort"

Next ==
  /\ part' \in [Gxacts -> [Segs -> Part]]
  /\ outcome' \in [Gxacts -> Outcome]
  /\ \A g \in Gxacts : Decide(g) /\ \A s \in Segs : Proceed(g, s)

Spec == Init /\ [][Next]_<<part, outcome>>
=============
