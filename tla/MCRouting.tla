----------------------------- MODULE MCRouting -----------------------------
(* A thread for TLC: t1 is the root post, a task that names b1, and the     *)
(* others are replies: s another task for b1, c a cancel that names no bot, *)
(* o a task that names only b2, and u a task of another user.               *)
EXTENDS Routing

MCRoot == [p \in Post |-> "t1"]
MCKind == [p \in Post |-> IF p = "c" THEN "cancel" ELSE "task"]
MCForeign == Post \cap {"u"}
MCNames == [p \in Post |-> CASE p = "c" -> {} [] p = "o" -> {"b2"} [] OTHER -> {"b1"}]

\* b1 is in the channel; the post that starts the thread starts with its
\* trigger word too.
MCStreamed == [p \in Post |-> {"b1"}]
MCHooked == [p \in Post |-> IF p = "t1" THEN {"b1"} ELSE {}]
============================================================================
