------------------------------ MODULE MCBridge ------------------------------
(* Instances of Bridge for TLC. *)
EXTENDS Bridge, TLC

CONSTANTS j1, j2, thread

\* All jobs in one thread.
OneThread == [j \in Job |-> thread]

\* The jobs are alike.
Symmetry == Permutations(Job)
=============================================================================
