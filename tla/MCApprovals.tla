---------------------------- MODULE MCApprovals ----------------------------
(* Instances of Approvals for TLC. *)
EXTENDS Approvals, TLC

CONSTANTS a1, a2

\* The approvals of a job are interchangeable.
Symmetry == Permutations(Approval)
=============================================================================
