------------------------------ MODULE MCDtm ------------------------------
(* Instances of Dtm for TLC.  Segments and transactions are interchangeable. *)
EXTENDS DtmInvariant, TLC

Interchange == Permutations(Segs) \cup Permutations(Gxacts)
=============
