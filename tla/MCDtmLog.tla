----------------------------- MODULE MCDtmLog -----------------------------
(* DtmLog for TLC: the transactions are interchangeable model values. *)
EXTENDS DtmLog, TLC

Interchange == Permutations(Gxacts)
=============================================================================
