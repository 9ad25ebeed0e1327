------------------------------ MODULE RunLedger ------------------------------
(***************************************************************************)
(* What the run store promises whoever reads it, whatever workers write:   *)
(* one row per idempotency key, created once and pending; a status that    *)
(* only moves along the legal transitions; and evidence that is written    *)
(* once per kind, and only while the run it belongs to is running.         *)
(* WebhookIntake and CliPosting each implement this specification.         *)
(***************************************************************************)
EXTENDS RunStatus

CONSTANT Keys             \* idempotency keys a worker may compute

VARIABLES
  status,                 \* [Keys -> status of the run, or Absent]
  parts                   \* [Keys -> the kinds of evidence stored for it]

ledgerVars == <<status, parts>>

LedgerTypeOK ==
  /\ status \in [Keys -> Statuses \cup {Absent}]
  /\ parts \in [Keys -> SUBSET Parts]

LedgerInit ==
  /\ status = [k \in Keys |-> Absent]
  /\ parts = [k \in Keys |-> {}]

\* create_or_get_run, for the one caller whose INSERT wins.
Create(k) ==
  /\ status[k] = Absent
  /\ status' = [status EXCEPT ![k] = "pending"]
  /\ UNCHANGED parts

\* update_run_status.
Move(k, target) ==
  /\ CanTransition(status[k], target)
  /\ status' = [status EXCEPT ![k] = target]
  /\ UNCHANGED parts

\* record_files, record_routing, record_tool_runs, record_findings.
Record(k, part) ==
  /\ status[k] = "running"
  /\ part \notin parts[k]
  /\ parts' = [parts EXCEPT ![k] = @ \cup {part}]
  /\ UNCHANGED status

LedgerNext ==
  \E k \in Keys :
    \/ Create(k)
    \/ \E target \in Statuses : Move(k, target)
    \/ \E part \in Parts : Record(k, part)

LedgerSpec == LedgerInit /\ [][LedgerNext]_ledgerVars

------------------------------------------------------------------------------
\* A run in a terminal state is never reopened or rewritten: neither its status
\* nor its evidence changes again (store.py, _TRANSITIONS).
TerminalIsFinal ==
  [][\A k \in Keys : status[k] \in Terminal =>
       status'[k] = status[k] /\ parts'[k] = parts[k]]_ledgerVars

\* Evidence is never written to a run that has not started or has ended, and is
\* never taken back (store.py, record_files to record_findings).
EvidenceOnlyWhileRunning ==
  [][\A k \in Keys : /\ parts[k] \subseteq parts'[k]
                     /\ parts'[k] # parts[k] => status[k] = "running"]_ledgerVars

\* A run that never started holds no evidence (intake._execute and
\* review._persist_run record only after the move to running).
NoEvidenceBeforeStart ==
  \A k \in Keys : status[k] \in {Absent, "pending", "skipped"} => parts[k] = {}

==============================================================================
