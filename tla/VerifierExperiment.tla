-------------------------- MODULE VerifierExperiment --------------------------
(***************************************************************************)
(* A live verifier experiment (run_verifier_comparison.main): replays of   *)
(* recorded findings (verification_replay.run_verification_replay), one    *)
(* after another, whose requests all go through one spend ledger           *)
(* (BudgetedVerifier).  The ledger is written to disk around each request; *)
(* the process may die anywhere, and is never resumed.                     *)
(*                                                                         *)
(* Money is counted in whole units.  What a request is really billed is    *)
(* kept beside what the ledger knows of it.                                *)
(***************************************************************************)
EXTENDS Naturals, Sequences

CONSTANTS
  Replays,                \* the rows of each replay, by what context preparation makes of them
  Budget,                 \* --budget-usd
  Reserves,               \* what request_reserve may return
  MaxRequests,            \* 48
  MaxCandidates           \* max_candidates: requests of one replay

RowKinds == {"structural_reject", "context_unavailable", "eligible"}

ASSUME InputsFit ==
  /\ Replays \in Seq(Seq(RowKinds))
  /\ Budget \in Nat /\ Reserves \subseteq Nat \ {0}
  /\ MaxRequests \in Nat /\ MaxCandidates \in Nat

VARIABLES
  node,                   \* where the driver is
  done,                   \* replays finished
  statuses,               \* the current replay's rows ruled on so far
  report,                 \* its report
  ledger, saved,          \* the spend ledger, and manifest.json's copy of it
  told,                   \* what the finished replays' manifest entries add up to
  reply,                  \* the provider's answer to the request in flight
  sent, billed,           \* requests the provider got, and what it billed for them
  doubt                   \* it reported a usage that does not add up with an error

vars == <<node, done, statuses, report, ledger, saved, told, reply, sent, billed, doubt>>

StopReasons == {"none", "request_cap_exhausted", "working_budget_reserve_exhausted",
                "provider_error", "inconsistent_usage", "frozen_input_changed"}

Ledgers == [requests : Nat, cost : Nat, complete : BOOLEAN, flight : Nat, stop : StopReasons]

\* A checkpoint the process died in leaves a file that cannot be read.
Torn == [torn |-> TRUE]

Reports == [calls : Nat, cost : Nat, complete : BOOLEAN, aborted : BOOLEAN]

\* The usage reported: "known" is what is billed, "odd" does not add up.
Replies == [failed : BOOLEAN, usage : {"known", "odd", "missing"}, cost : Nat]

Statuses == {"aborted", "structural_reject", "context_unavailable", "budget_exceeded",
             "provider_error", "decided"}

TypeOK ==
  /\ node \in {"schedule", "replaying", "dispatched", "sent", "completed", "aborted",
               "raised", "dead"}
  /\ done \in Nat
  /\ statuses \in Seq(Statuses)
  /\ report \in Reports
  /\ ledger \in Ledgers /\ saved \in Ledgers \cup {Torn}
  /\ told \in [calls : Nat, cost : Nat]
  /\ reply \in Replies
  /\ sent \in Nat /\ billed \in Nat /\ doubt \in BOOLEAN

NoReply == [failed |-> FALSE, usage |-> "missing", cost |-> 0]

Init ==
  /\ node = "schedule" /\ done = 0
  /\ statuses = <<>>
  /\ report = [calls |-> 0, cost |-> 0, complete |-> TRUE, aborted |-> FALSE]
  /\ ledger = [requests |-> 0, cost |-> 0, complete |-> TRUE, flight |-> 0, stop |-> "none"]
  /\ saved = ledger
  /\ told = [calls |-> 0, cost |-> 0]
  /\ reply = NoReply
  /\ sent = 0 /\ billed = 0 /\ doubt = FALSE

------------------------------------------------------------------------------
(***************************************************************************)
(* The driver.                                                             *)
(***************************************************************************)

\* A frozen input has changed: no further call.
Refreeze ==
  /\ node = "schedule" /\ done < Len(Replays)
  /\ ledger' = [ledger EXCEPT !.stop = "frozen_input_changed"]
  /\ saved' = ledger'
  /\ node' = "raised"
  /\ UNCHANGED <<done, statuses, report, told, reply, sent, billed, doubt>>

\* The next replay begins, with a report of its own and the one ledger.
Open ==
  /\ node = "schedule" /\ done < Len(Replays)
  /\ saved' = ledger
  /\ report' = [calls |-> 0, cost |-> 0, complete |-> TRUE, aborted |-> FALSE]
  /\ statuses' = <<>>
  /\ node' = "replaying"
  /\ UNCHANGED <<done, ledger, told, reply, sent, billed, doubt>>

\* A replay is over; an aborted one ends the experiment.
Close ==
  /\ node = "replaying" /\ Len(statuses) = Len(Replays[done + 1])
  /\ done' = done + 1
  /\ told' = [calls |-> told.calls + report.calls, cost |-> told.cost + report.cost]
  /\ saved' = ledger
  /\ node' = IF report.aborted THEN "aborted"
             ELSE IF done' = Len(Replays) THEN "completed" ELSE "schedule"
  /\ UNCHANGED <<statuses, report, ledger, reply, sent, billed, doubt>>

\* The process dies, or the operator stops it; perhaps in a checkpoint.
Die ==
  /\ node \in {"schedule", "replaying", "dispatched", "sent"}
  /\ node' = "dead"
  /\ saved' \in {saved, Torn}
  /\ UNCHANGED <<done, statuses, report, ledger, told, reply, sent, billed, doubt>>

(***************************************************************************)
(* A replay's rows.                                                        *)
(***************************************************************************)

Row == Replays[done + 1][Len(statuses) + 1]

AtRow == node = "replaying" /\ Len(statuses) < Len(Replays[done + 1])

NeedsRequest == ~report.aborted /\ Row = "eligible" /\ report.calls < MaxCandidates

\* A row that is ruled on without a request.
RuleOut ==
  /\ AtRow /\ ~NeedsRequest
  /\ statuses' = Append(statuses, IF report.aborted THEN "aborted"
                                  ELSE IF Row = "eligible" THEN "budget_exceeded" ELSE Row)
  /\ UNCHANGED <<node, done, report, ledger, saved, told, reply, sent, billed, doubt>>

\* Replay: a failed request aborts it.
Abort(complete, cost) ==
  report' = [report EXCEPT !.calls = IF node = "replaying" THEN @ + 1 ELSE @,
                           !.cost = @ + cost,
                           !.complete = @ /\ complete,
                           !.aborted = TRUE]

(***************************************************************************)
(* BudgetedVerifier.verify.                                                *)
(***************************************************************************)

Stopped ==
  \/ ledger.requests >= MaxRequests \/ ledger.stop # "none"
  \/ ~ledger.complete \/ ledger.flight # 0

\* Slip: what the request itself may cost is not counted.
OverSpent(reserve) == ledger.cost > Budget

Over(reserve) == ledger.cost + reserve > Budget

\* The request is not made, and no usage is reported for it.
Refuse(reserve) ==
  /\ AtRow /\ NeedsRequest /\ (Stopped \/ Over(reserve))
  /\ ledger' = [ledger EXCEPT !.stop =
                  IF ~Stopped THEN "working_budget_reserve_exhausted"
                  ELSE IF @ = "none" THEN "request_cap_exhausted" ELSE @]
  /\ saved' = ledger'
  /\ Abort(TRUE, 0)
  /\ statuses' = Append(statuses, "provider_error")
  /\ UNCHANGED <<node, done, told, reply, sent, billed, doubt>>

\* Slip: the request is checkpointed only when it is answered.
DispatchUnsaved(reserve) ==
  /\ AtRow /\ NeedsRequest /\ ~Stopped /\ ~Over(reserve)
  /\ ledger' = [ledger EXCEPT !.requests = @ + 1, !.flight = reserve]
  /\ report' = [report EXCEPT !.calls = @ + 1]
  /\ node' = "dispatched"
  /\ UNCHANGED <<done, statuses, saved, told, reply, sent, billed, doubt>>

\* The request is entered and checkpointed, and then made.
Dispatch(reserve) ==
  /\ AtRow /\ NeedsRequest /\ ~Stopped /\ ~Over(reserve)
  /\ ledger' = [ledger EXCEPT !.requests = @ + 1, !.flight = reserve]
  /\ saved' = ledger'
  /\ report' = [report EXCEPT !.calls = @ + 1]
  /\ node' = "dispatched"
  /\ UNCHANGED <<done, statuses, told, reply, sent, billed, doubt>>

\* The provider bills the request, within its reserve, and answers.  The usage
\* it reports is what it bills, or does not add up, or is missing.
Serve(bill, answer) ==
  /\ node = "dispatched" /\ bill <= ledger.flight
  /\ answer.usage = "known" => answer.cost = bill
  /\ answer.usage = "missing" => answer.failed /\ answer.cost = 0
  /\ reply' = answer
  /\ sent' = sent + 1 /\ billed' = billed + bill
  /\ doubt' = (doubt \/ (answer.failed /\ answer.usage = "odd"))
  /\ node' = "sent"
  /\ UNCHANGED <<done, statuses, report, ledger, saved, told>>

\* An answer whose usage adds up.
Settle ==
  /\ node = "sent" /\ ~reply.failed /\ reply.usage = "known"
  /\ ledger' = [ledger EXCEPT !.cost = @ + reply.cost, !.flight = 0]
  /\ saved' = ledger'
  /\ report' = [report EXCEPT !.cost = @ + reply.cost]
  /\ statuses' = Append(statuses, "decided")
  /\ node' = "replaying"
  /\ UNCHANGED <<done, told, reply, sent, billed, doubt>>

\* An answer whose usage does not add up is charged nothing and stops everything.
Distrust ==
  /\ node = "sent" /\ ~reply.failed /\ reply.usage # "known"
  /\ ledger' = [ledger EXCEPT !.complete = FALSE, !.stop = "inconsistent_usage", !.flight = 0]
  /\ saved' = ledger'
  /\ Abort(FALSE, 0)
  /\ statuses' = Append(statuses, "provider_error")
  /\ node' = "replaying"
  /\ UNCHANGED <<done, told, reply, sent, billed, doubt>>

\* Slip: a failed request is not charged to the ledger.
FaultUncharged ==
  /\ node = "sent" /\ reply.failed
  /\ ledger' = [ledger EXCEPT !.complete = @ /\ reply.usage # "missing",
                              !.stop = "provider_error", !.flight = 0]
  /\ saved' = ledger'
  /\ Abort(reply.usage # "missing", reply.cost)
  /\ statuses' = Append(statuses, "provider_error")
  /\ node' = "replaying"
  /\ UNCHANGED <<done, told, reply, sent, billed, doubt>>

\* The request failed: what usage it reports is charged, as it stands.
Fault ==
  /\ node = "sent" /\ reply.failed
  /\ ledger' = [ledger EXCEPT !.cost = @ + reply.cost,
                              !.complete = @ /\ reply.usage # "missing",
                              !.stop = "provider_error", !.flight = 0]
  /\ saved' = ledger'
  /\ Abort(reply.usage # "missing", reply.cost)
  /\ statuses' = Append(statuses, "provider_error")
  /\ node' = "replaying"
  /\ UNCHANGED <<done, told, reply, sent, billed, doubt>>

MaxReserve == CHOOSE r \in Reserves : \A s \in Reserves : s <= r

Next ==
  \/ Refreeze \/ Open \/ Close \/ Die \/ RuleOut
  \/ \E reserve \in Reserves : Refuse(reserve) \/ Dispatch(reserve)
  \/ \E bill, cost \in 0..MaxReserve, failed \in BOOLEAN, usage \in {"known", "odd", "missing"} :
       Serve(bill, [failed |-> failed, usage |-> usage, cost |-> cost])
  \/ Settle \/ Distrust \/ Fault

Spec == Init /\ [][Next]_vars

------------------------------------------------------------------------------
\* Whatever the provider reports or keeps silent about, the experiment is never
\* billed more than its budget as long as each request stays within its reserve
\* (BudgetedVerifier, request_reserve).
SpendWithinBudget == billed <= Budget /\ sent <= MaxRequests

\* The manifest of an experiment that died tells what was spent: every request
\* the provider got is on disk, and the known cost is the whole bill but for the
\* request in flight, unless the manifest says that usage is incomplete
\* (BudgetedVerifier, checkpoint before and after the request).
SavedAccounts ==
  saved # Torn =>
    /\ sent <= saved.requests
    /\ saved.complete /\ ~doubt =>
         /\ saved.cost <= billed /\ billed <= saved.cost + saved.flight
         /\ saved.requests - sent <= (IF saved.flight = 0 THEN 0 ELSE 1)

\* The replays' reports agree with the ledger: they tell the same cost, and one
\* call for each request, besides the call that was refused
\* (run_verification_replay, BudgetedVerifier.verify).
ReportsAddUp ==
  node \in {"schedule", "completed", "aborted"} =>
    /\ told.cost = ledger.cost
    /\ told.calls = ledger.requests
         + (IF ledger.stop \in {"request_cap_exhausted", "working_budget_reserve_exhausted"}
              THEN 1 ELSE 0)
    /\ node # "aborted" => ledger.complete /\ ledger.stop = "none"
==============================================================================
