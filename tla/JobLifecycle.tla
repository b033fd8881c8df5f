--------------------------- MODULE JobLifecycle ---------------------------
(***************************************************************************)
(* What the broker promises about the state column of its jobs table       *)
(* (internal/store/store.go, internal/broker/core/core.go): which state     *)
(* may follow which.  Nothing is said of connections, outboxes or          *)
(* harnesses; Bridge and Approvals implement this specification.            *)
(***************************************************************************)

CONSTANT Job          \* the jobs that may ever be created

VARIABLE state        \* state[j]: the row's state, "none" before CreateJob

ActiveStates == {"queued", "dispatched", "running", "awaiting_approval"}

Terminal == {"succeeded", "failed", "cancelled", "lost", "expired"}

JobState == ActiveStates \cup Terminal

\* The outcomes a job.result can carry, as job states (OnResult).
Outcome == {"succeeded", "failed", "cancelled"}

\* Terminal states no event ever leaves; "lost" is the one that is not final.
Final == Terminal \ {"lost"}

\* The edges of the lifecycle.  A job is created queued or dispatched; only
\* a queued job expires; "queued" is never entered again; a lost job can
\* still be ended by a late result, and by nothing else.
MayFollow(s, t) ==
  \/ s = "none" /\ t \in {"queued", "dispatched"}
  \/ s = "queued" /\ t \in {"dispatched", "running", "expired"}
  \/ s = "dispatched" /\ t \in {"running", "awaiting_approval", "lost"}
  \/ s = "running" /\ t \in {"awaiting_approval", "lost"}
  \/ s = "awaiting_approval" /\ t \in {"running", "lost"}
  \/ s \in ActiveStates \cup {"lost"} /\ t \in Outcome

Init == state = [j \in Job |-> "none"]

\* One broker event; OnHello settles every job of a harness at once.
Next ==
  /\ state' \in [Job -> JobState \cup {"none"}]
  /\ \A j \in Job : state'[j] = state[j] \/ MayFollow(state[j], state'[j])

Spec == Init /\ [][Next]_state
===========================================================================
