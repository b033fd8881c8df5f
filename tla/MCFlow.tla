------------------------------- MODULE MCFlow -------------------------------
(* An instance of Flow for TLC: buffers so small that two of the three      *)
(* envelopes, with the progress of a job, can make the two sides block each *)
(* other, and one cannot.                                                   *)
EXTENDS Flow

CONSTANTS d1, d2, u1
=============================================================================
