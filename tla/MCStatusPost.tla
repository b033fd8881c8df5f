---------------------------- MODULE MCStatusPost ----------------------------
(* Instances of StatusPost for TLC. *)
EXTENDS StatusPost, TLC

CONSTANTS c1, c2

\* The calling goroutines are interchangeable.
Symmetry == Permutations(Caller)
=============================================================================
