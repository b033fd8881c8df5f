---------------------------- MODULE MCOnboarding ----------------------------
(* Commands for TLC: k1 and k2 claim the same code, k3 adds a bot to the    *)
(* paired harness and asks for k1's name.                                   *)
EXTENDS Onboarding

MCCodeOf == [k \in Cmd |-> IF k = "k3" THEN NoCode ELSE "c1"]
MCNameOf == [k \in Cmd |-> IF k = "k3" THEN "k1" ELSE k]
=============================================================================
