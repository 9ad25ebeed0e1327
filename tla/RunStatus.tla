------------------------------ MODULE RunStatus ------------------------------
(***************************************************************************)
(* The states of a review run and the moves between them, as the run       *)
(* store (src/src/prcritiq/store.py) fixes them.  A status is a row of     *)
(* review_runs; a key no run was recorded for is "absent".                 *)
(***************************************************************************)

Statuses == {"pending", "running", "summarized", "posted", "failed", "skipped"}

Absent == "absent"

\* _TRANSITIONS: the legal moves, as pairs.
Transitions ==
  ({"pending"} \X {"running", "skipped", "failed"}) \cup
  ({"running"} \X {"summarized", "failed"}) \cup
  ({"summarized"} \X {"posted", "failed"})

\* can_transition, and the test assert_transition raises on.
CanTransition(current, target) == <<current, target>> \in Transitions

Terminal == {"posted", "failed", "skipped"}

\* What a worker writes about a run, each in a transaction of its own:
\* record_files, record_routing, record_tool_runs and record_findings.
Parts == {"files", "routing", "tools", "findings"}

==============================================================================
