-------------------------- MODULE MCSegTwoPhase --------------------------
(* SegTwoPhase for TLC: the backends are interchangeable. *)
EXTENDS SegInvariant, TLC

Interchange == Permutations(Backends)
=============================================================================
