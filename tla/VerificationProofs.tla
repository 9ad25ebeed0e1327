------------------------- MODULE VerificationProofs -------------------------
(***************************************************************************)
(* The promises of the two programs that ask a verifier.  The experiment's *)
(* hold for every schedule of replays, every budget and reserve, and       *)
(* wherever the process dies; the replay's for every study, every source   *)
(* and layout of it, every limit, and whatever GitHub and the model answer.*)
(***************************************************************************)
EXTENDS VerifierExperiment, SemanticReplay, SumProofs, FiniteSetTheorems, SequenceTheorems, TLAPS

\* The ledger on disk is the one in memory, or cannot be read.
SavedInv ==
  /\ saved \in {ledger, Torn}
  /\ node # "dead" => saved = ledger

\* What the ledger knows of the bill, at each point of a request.
MoneyInv ==
  /\ ledger.requests <= MaxRequests /\ billed <= Budget /\ sent <= ledger.requests
  /\ ledger.complete /\ ~doubt =>
       /\ ledger.cost <= billed /\ billed <= ledger.cost + ledger.flight
       /\ ledger.requests <= sent + (IF ledger.flight = 0 THEN 0 ELSE 1)
  /\ node \in {"schedule", "replaying", "completed", "aborted", "raised"} =>
       ledger.flight = 0 /\ sent = ledger.requests

CleanInv ==
  node \in {"schedule", "replaying", "dispatched", "completed"} /\ ledger.stop = "none" =>
    ledger.complete /\ ~doubt

FlightInv ==
  /\ node \in {"dispatched", "sent"} =>
       /\ ledger.flight # 0 /\ ledger.complete /\ ledger.stop = "none" /\ ~report.aborted
       /\ ledger.cost + ledger.flight <= Budget
  /\ node = "dispatched" => sent + 1 = ledger.requests /\ billed = ledger.cost
  /\ node = "sent" =>
       /\ sent = ledger.requests
       /\ doubt <=> reply.failed /\ reply.usage = "odd"
       /\ reply.usage = "known" => billed = ledger.cost + reply.cost
       /\ reply.usage = "missing" => reply.cost = 0

Refused ==
  IF ledger.stop \in {"request_cap_exhausted", "working_budget_reserve_exhausted"} THEN 1 ELSE 0

\* The replay under way makes up what the finished ones do not tell.
ReportInv ==
  /\ node \in {"replaying", "dispatched", "sent"} =>
       /\ told.cost + report.cost = ledger.cost
       /\ told.calls + report.calls = ledger.requests + Refused
       /\ ledger.stop # "frozen_input_changed"
  /\ node = "replaying" => (report.aborted <=> ledger.stop # "none")
  /\ node \in {"schedule", "completed"} => ledger.stop = "none"
  /\ node \in {"schedule", "completed", "aborted"} =>
       told.cost = ledger.cost /\ told.calls = ledger.requests + Refused

\* A replay under way is one of the schedule.
ScheduleInv == node \in {"replaying", "dispatched", "sent"} => done < Len(Replays)

IInv == TypeOK /\ ScheduleInv /\ SavedInv /\ MoneyInv /\ CleanInv /\ FlightInv /\ ReportInv

LEMMA InitInvariant == Init => IInv
  <1> SUFFICES ASSUME Init PROVE IInv
    OBVIOUS
  <1>1. /\ node = "schedule" /\ done = 0 /\ statuses = <<>> /\ saved = ledger
        /\ reply = NoReply /\ sent = 0 /\ billed = 0 /\ doubt = FALSE
        /\ told = [calls |-> 0, cost |-> 0]
        /\ report = [calls |-> 0, cost |-> 0, complete |-> TRUE, aborted |-> FALSE]
        /\ ledger = [requests |-> 0, cost |-> 0, complete |-> TRUE, flight |-> 0, stop |-> "none"]
    BY DEF Init
  <1>2. ledger \in Ledgers /\ report \in Reports /\ reply \in Replies
    BY <1>1 DEF Ledgers, Reports, Replies, StopReasons, NoReply
  <1>3. statuses \in Seq(Statuses) /\ saved \in Ledgers \cup {Torn}
    BY <1>1, <1>2
  <1>4. TypeOK
    BY <1>1, <1>2, <1>3 DEF TypeOK
  <1> QED
    BY <1>1, <1>4, InputsFit
       DEF IInv, SavedInv, MoneyInv, CleanInv, FlightInv, ReportInv, ScheduleInv, Refused

\* The steps of the driver leave the account of requests alone.
LEMMA RefreezeStep == IInv /\ Refreeze => IInv'
  BY DEF Refreeze, IInv, TypeOK, SavedInv, MoneyInv, CleanInv, FlightInv, ReportInv, ScheduleInv, Refused, Ledgers, StopReasons

LEMMA OpenStep == IInv /\ Open => IInv'
  BY DEF Open, IInv, TypeOK, SavedInv, MoneyInv, CleanInv, FlightInv, ReportInv, ScheduleInv, Refused, Ledgers, Reports

LEMMA CloseStep == IInv /\ Close => IInv'
  BY DEF Close, IInv, TypeOK, SavedInv, MoneyInv, CleanInv, FlightInv, ReportInv, ScheduleInv, Refused, Ledgers, Reports

LEMMA DieStep == IInv /\ Die => IInv'
  BY DEF Die, IInv, TypeOK, SavedInv, MoneyInv, CleanInv, FlightInv, ReportInv, ScheduleInv, Refused

LEMMA RuleOutStep == IInv /\ RuleOut => IInv'
  <1> SUFFICES ASSUME IInv, RuleOut PROVE IInv'
    OBVIOUS
  <1> DEFINE status == IF report.aborted THEN "aborted"
                       ELSE IF Row = "eligible" THEN "budget_exceeded" ELSE Row
  <1>1. /\ node = "replaying" /\ Len(statuses) < Len(Replays[done + 1])
        /\ statuses' = Append(statuses, status)
        /\ UNCHANGED <<node, done, report, ledger, saved, told, reply, sent, billed, doubt>>
    BY DEF RuleOut, AtRow
  <1>2. Row \in RowKinds
    <2>1. done \in Nat /\ done < Len(Replays) /\ statuses \in Seq(Statuses)
      BY <1>1 DEF IInv, TypeOK, ScheduleInv
    <2>2. Replays[done + 1] \in Seq(RowKinds)
      BY <2>1, InputsFit
    <2> QED
      BY <1>1, <2>1, <2>2 DEF Row
  <1>3. status \in Statuses
    BY <1>2 DEF Statuses, RowKinds
  <1>4. TypeOK'
    BY <1>1, <1>3 DEF IInv, TypeOK
  <1> QED
    BY <1>1, <1>4 DEF IInv, SavedInv, MoneyInv, CleanInv, FlightInv, ReportInv, ScheduleInv, Refused

LEMMA RefuseStep == ASSUME NEW reserve \in Reserves, IInv, Refuse(reserve) PROVE IInv'
  <1> DEFINE stop == IF ~Stopped THEN "working_budget_reserve_exhausted"
                     ELSE IF ledger.stop = "none" THEN "request_cap_exhausted" ELSE ledger.stop
  <1>1. /\ node = "replaying" /\ ~report.aborted
        /\ ledger' = [ledger EXCEPT !.stop = stop] /\ saved' = ledger'
        /\ report' = [report EXCEPT !.calls = @ + 1, !.cost = @ + 0, !.complete = @ /\ TRUE,
                                    !.aborted = TRUE]
        /\ statuses' = Append(statuses, "provider_error")
        /\ UNCHANGED <<node, done, told, reply, sent, billed, doubt>>
    BY DEF Refuse, AtRow, NeedsRequest, Abort
  <1>2. ledger.stop = "none" /\ ledger \in Ledgers /\ report \in Reports
    BY <1>1 DEF IInv, TypeOK, ReportInv, StopReasons, Ledgers
  <1>3. stop \in {"working_budget_reserve_exhausted", "request_cap_exhausted"}
    BY <1>2
  <1> HIDE DEF stop
  <1>4. /\ ledger'.requests = ledger.requests /\ ledger'.cost = ledger.cost
        /\ ledger'.complete = ledger.complete /\ ledger'.flight = ledger.flight
        /\ ledger'.stop = stop /\ ledger' \in Ledgers
    BY <1>1, <1>2, <1>3 DEF Ledgers, StopReasons
  <1>5. /\ report'.calls = report.calls + 1 /\ report'.cost = report.cost
        /\ report'.aborted /\ report' \in Reports
    <2>1. report.calls + 1 \in Nat /\ report.cost \in Nat /\ report.cost + 0 = report.cost
      BY <1>2 DEF Reports
    <2>2. report' = [report EXCEPT !.calls = report.calls + 1, !.cost = report.cost,
                                   !.complete = @ /\ TRUE, !.aborted = TRUE]
      BY <1>1, <2>1, Zenon
    <2> QED
      BY <1>2, <2>1, <2>2, Zenon DEF Reports
  <1>6. TypeOK'
    BY <1>1, <1>4, <1>5 DEF IInv, TypeOK, Statuses
  <1>7. SavedInv' /\ ScheduleInv' /\ MoneyInv'
    BY <1>1, <1>4 DEF IInv, SavedInv, ScheduleInv, MoneyInv
  <1>8. CleanInv' /\ FlightInv'
    BY <1>1, <1>3, <1>4 DEF CleanInv, FlightInv
  <1>9. ReportInv'
    <2>1. Refused = 0 /\ Refused' = 1
      BY <1>2, <1>3, <1>4 DEF Refused
    <2>2. /\ told.cost + report'.cost = ledger'.cost
          /\ told.calls + report'.calls = ledger'.requests + 1
      BY SMTT(30), <1>1, <1>2, <1>4, <1>5, <2>1 DEF IInv, TypeOK, ReportInv, Ledgers, Reports
    <2> QED
      BY <1>1, <1>3, <1>4, <1>5, <2>1, <2>2 DEF ReportInv
  <1> QED
    BY <1>6, <1>7, <1>8, <1>9 DEF IInv

LEMMA DispatchStep == ASSUME NEW reserve \in Reserves, IInv, Dispatch(reserve) PROVE IInv'
  <1>1. /\ node = "replaying" /\ ~report.aborted /\ node' = "dispatched"
        /\ ledger' = [ledger EXCEPT !.requests = @ + 1, !.flight = reserve] /\ saved' = ledger'
        /\ report' = [report EXCEPT !.calls = @ + 1]
        /\ UNCHANGED <<done, statuses, told, reply, sent, billed, doubt>>
    BY DEF Dispatch, AtRow, NeedsRequest
  <1>2. /\ ~(ledger.requests >= MaxRequests) /\ ledger.stop = "none" /\ ledger.complete
        /\ ledger.flight = 0 /\ ~(ledger.cost + reserve > Budget)
    BY DEF Dispatch, Stopped, Over
  <1>3. ledger \in Ledgers /\ report \in Reports /\ reserve \in Nat /\ reserve # 0
    BY InputsFit DEF IInv, TypeOK
  <1>4. /\ ledger'.requests = ledger.requests + 1 /\ ledger'.cost = ledger.cost
        /\ ledger'.complete = ledger.complete /\ ledger'.flight = reserve
        /\ ledger'.stop = ledger.stop /\ ledger' \in Ledgers
    <2>1. ledger.requests + 1 \in Nat /\ ledger.cost \in Nat /\ ledger.stop \in StopReasons
      BY <1>3 DEF Ledgers
    <2>2. ledger' = [ledger EXCEPT !.requests = ledger.requests + 1, !.cost = ledger.cost,
                                   !.complete = @ /\ TRUE, !.flight = reserve, !.stop = ledger.stop]
      BY <1>1, <1>3 DEF Ledgers
    <2> QED
      BY <1>2, <1>3, <2>1, <2>2, Zenon DEF Ledgers
  <1>5. /\ report'.calls = report.calls + 1 /\ report'.cost = report.cost
        /\ report'.aborted = report.aborted /\ report' \in Reports
    BY <1>1, <1>3 DEF Reports
  <1>6. TypeOK'
    BY <1>1, <1>4, <1>5 DEF IInv, TypeOK
  <1>7. sent = ledger.requests /\ billed = ledger.cost /\ ~doubt
    BY <1>1, <1>2, <1>3 DEF IInv, TypeOK, MoneyInv, CleanInv, Ledgers
  <1>8. SavedInv' /\ ScheduleInv'
    BY <1>1 DEF IInv, SavedInv, ScheduleInv
  <1>9. MoneyInv'
    BY SMTT(30), <1>1, <1>2, <1>3, <1>4, <1>7, InputsFit DEF IInv, TypeOK, MoneyInv, Ledgers
  <1>10. CleanInv'
    BY <1>1, <1>2, <1>4, <1>7 DEF CleanInv
  <1>11. FlightInv'
    BY <1>1, <1>2, <1>3, <1>4, <1>5, <1>7, InputsFit DEF FlightInv, Ledgers
  <1>12. ReportInv'
    <2>1. Refused = 0 /\ Refused' = 0
      BY <1>2, <1>4 DEF Refused
    <2>2. /\ told.cost + report'.cost = ledger'.cost
          /\ told.calls + report'.calls = ledger'.requests + 0
      BY SMTT(30), <1>1, <1>3, <1>4, <1>5, <2>1 DEF IInv, TypeOK, ReportInv, Ledgers, Reports
    <2> QED
      BY <1>1, <1>2, <1>4, <2>1, <2>2 DEF ReportInv
  <1> QED
    BY <1>6, <1>8, <1>9, <1>10, <1>11, <1>12 DEF IInv

LEMMA ServeStep ==
  ASSUME NEW bill \in Nat, NEW answer \in Replies, IInv, Serve(bill, answer)
  PROVE  IInv'
  <1>1. /\ node = "dispatched" /\ node' = "sent" /\ bill <= ledger.flight
        /\ reply' = answer /\ sent' = sent + 1 /\ billed' = billed + bill
        /\ UNCHANGED <<done, statuses, report, ledger, saved, told>>
    BY DEF Serve
  <1>2. /\ ledger \in Ledgers /\ ledger.flight # 0 /\ ledger.complete /\ ledger.stop = "none"
        /\ ~report.aborted /\ ~doubt /\ ledger.cost + ledger.flight <= Budget
        /\ sent + 1 = ledger.requests /\ billed = ledger.cost
    BY <1>1 DEF IInv, TypeOK, FlightInv, CleanInv
  <1>3. TypeOK'
    BY <1>1 DEF Serve, IInv, TypeOK
  <1>4. doubt' <=> answer.failed /\ answer.usage = "odd"
    BY <1>2 DEF Serve
  <1>5. SavedInv' /\ ScheduleInv' /\ CleanInv'
    BY <1>1 DEF IInv, SavedInv, ScheduleInv, CleanInv
  <1>6. MoneyInv'
    <2>1. ledger.requests <= MaxRequests /\ billed \in Nat /\ sent \in Nat
      BY DEF IInv, TypeOK, MoneyInv
    <2>2. ledger.requests \in Nat /\ ledger.cost \in Nat /\ ledger.flight \in Nat
      BY <1>2 DEF Ledgers
    <2>3. billed' <= Budget /\ ledger.cost <= billed' /\ billed' <= ledger.cost + ledger.flight
      BY <1>1, <1>2, <2>1, <2>2, InputsFit
    <2>4. sent' = ledger.requests /\ ledger.requests <= sent' + 1
      BY <1>1, <1>2, <2>1, <2>2
    <2> QED
      BY <1>1, <1>2, <2>1, <2>2, <2>3, <2>4 DEF MoneyInv
  <1>7. FlightInv'
    <2>1. answer.usage = "known" => billed' = ledger.cost + answer.cost
      BY <1>1, <1>2 DEF Serve
    <2>2. answer.usage = "missing" => answer.cost = 0
      BY DEF Serve
    <2> QED
      BY <1>1, <1>2, <1>4, <2>1, <2>2 DEF FlightInv
  <1>8. ReportInv'
    BY <1>1 DEF IInv, ReportInv, Refused
  <1> QED
    BY <1>3, <1>5, <1>6, <1>7, <1>8 DEF IInv

\* The common ground of the three ways a request ends: it is in the ledger, which
\* has charged it nothing yet.
LEMMA AtReply ==
  ASSUME IInv, node = "sent"
  PROVE  /\ ledger \in Ledgers /\ report \in Reports /\ reply \in Replies
         /\ told \in [calls : Nat, cost : Nat] /\ billed \in Nat /\ sent \in Nat
         /\ ledger.stop = "none" /\ ledger.complete /\ ~report.aborted
         /\ sent = ledger.requests /\ ledger.requests <= MaxRequests /\ billed <= Budget
         /\ done < Len(Replays)
         /\ told.cost + report.cost = ledger.cost
         /\ told.calls + report.calls = ledger.requests
         /\ doubt <=> reply.failed /\ reply.usage = "odd"
         /\ reply.usage = "known" => billed = ledger.cost + reply.cost
         /\ reply.usage = "missing" => reply.cost = 0
  <1>1. /\ ledger \in Ledgers /\ report \in Reports /\ reply \in Replies
        /\ told \in [calls : Nat, cost : Nat] /\ billed \in Nat /\ sent \in Nat
    BY DEF IInv, TypeOK
  <1>2. /\ ledger.requests <= MaxRequests /\ billed <= Budget /\ done < Len(Replays)
    BY DEF IInv, MoneyInv, ScheduleInv
  <1>3. /\ ledger.stop = "none" /\ ledger.complete /\ ~report.aborted /\ sent = ledger.requests
        /\ doubt <=> reply.failed /\ reply.usage = "odd"
        /\ reply.usage = "known" => billed = ledger.cost + reply.cost
        /\ reply.usage = "missing" => reply.cost = 0
    BY DEF IInv, FlightInv
  <1>4. Refused = 0
    BY <1>3 DEF Refused
  <1>5. told.cost + report.cost = ledger.cost /\ told.calls + report.calls = ledger.requests
    <2>1. told.calls + report.calls = ledger.requests + 0 /\ ledger.requests \in Nat
      BY <1>1, <1>4 DEF IInv, ReportInv, Ledgers
    <2> QED
      BY <2>1 DEF IInv, ReportInv
  <1> QED
    BY <1>1, <1>2, <1>3, <1>5

LEMMA SettleStep == IInv /\ Settle => IInv'
  <1> SUFFICES ASSUME IInv, Settle PROVE IInv'
    OBVIOUS
  <1>1. /\ node = "sent" /\ ~reply.failed /\ reply.usage = "known" /\ node' = "replaying"
        /\ ledger' = [ledger EXCEPT !.cost = @ + reply.cost, !.flight = 0] /\ saved' = ledger'
        /\ report' = [report EXCEPT !.cost = @ + reply.cost]
        /\ statuses' = Append(statuses, "decided")
        /\ UNCHANGED <<done, told, reply, sent, billed, doubt>>
    BY DEF Settle
  <1>2. /\ ledger'.requests = ledger.requests /\ ledger'.cost = ledger.cost + reply.cost
        /\ ledger'.complete = ledger.complete /\ ledger'.flight = 0
        /\ ledger'.stop = ledger.stop /\ ledger' \in Ledgers
    BY <1>1, AtReply DEF Ledgers, Replies
  <1>3. /\ report'.calls = report.calls /\ report'.cost = report.cost + reply.cost
        /\ report'.aborted = report.aborted /\ report' \in Reports
    <2>1. /\ report.calls \in Nat /\ report.cost + reply.cost \in Nat
          /\ report.aborted \in BOOLEAN /\ report \in Reports
      BY <1>1, AtReply DEF Reports, Replies
    <2>2. report' = [report EXCEPT !.calls = report.calls, !.cost = report.cost + reply.cost,
                                   !.complete = @ /\ TRUE, !.aborted = report.aborted]
      BY <1>1, <2>1 DEF Reports
    <2> QED
      BY <2>1, <2>2, Zenon DEF Reports
  <1>4. TypeOK'
    BY <1>1, <1>2, <1>3 DEF IInv, TypeOK, Statuses
  <1>5. SavedInv' /\ ScheduleInv' /\ FlightInv'
    BY <1>1, AtReply DEF SavedInv, ScheduleInv, FlightInv
  <1>6. MoneyInv' /\ CleanInv'
    BY <1>1, <1>2, AtReply DEF MoneyInv, CleanInv, Ledgers, Replies
  <1>7. ReportInv'
    <2>1. Refused' = 0
      BY <1>2, AtReply, <1>1 DEF Refused
    <2>2. /\ told.cost + report'.cost = ledger'.cost
          /\ told.calls + report'.calls = ledger'.requests + 0
      <3>1. /\ told.cost \in Nat /\ told.calls \in Nat /\ report.cost \in Nat
            /\ reply.cost \in Nat /\ ledger.cost \in Nat /\ ledger.requests \in Nat
        BY <1>1, AtReply DEF Ledgers, Reports, Replies
      <3>2. told.cost + report.cost = ledger.cost /\ told.calls + report.calls = ledger.requests
        BY <1>1, AtReply
      <3> QED
        BY <1>2, <1>3, <3>1, <3>2
    <2> QED
      BY <1>1, <1>2, <1>3, AtReply, <2>1, <2>2 DEF ReportInv
  <1> QED
    BY <1>4, <1>5, <1>6, <1>7 DEF IInv

LEMMA DistrustStep == IInv /\ Distrust => IInv'
  <1> SUFFICES ASSUME IInv, Distrust PROVE IInv'
    OBVIOUS
  <1>1. /\ node = "sent" /\ node' = "replaying"
        /\ ledger' = [ledger EXCEPT !.complete = FALSE, !.stop = "inconsistent_usage", !.flight = 0]
        /\ saved' = ledger'
        /\ report' = [report EXCEPT !.calls = @, !.cost = @ + 0, !.complete = @ /\ FALSE,
                                    !.aborted = TRUE]
        /\ statuses' = Append(statuses, "provider_error")
        /\ UNCHANGED <<done, told, reply, sent, billed, doubt>>
    BY DEF Distrust, Abort
  <1>2. /\ ledger'.requests = ledger.requests /\ ledger'.cost = ledger.cost
        /\ ~ledger'.complete /\ ledger'.flight = 0
        /\ ledger'.stop = "inconsistent_usage" /\ ledger' \in Ledgers
    BY <1>1, AtReply DEF Ledgers, StopReasons
  <1>3. /\ report'.calls = report.calls /\ report'.cost = report.cost
        /\ report'.aborted /\ report' \in Reports
    <2>1. /\ report.calls \in Nat /\ report.cost \in Nat /\ report.cost + 0 = report.cost
          /\ report \in Reports
      BY <1>1, AtReply DEF Reports
    <2>2. report' = [report EXCEPT !.calls = report.calls, !.cost = report.cost,
                                   !.complete = @ /\ FALSE, !.aborted = TRUE]
      BY <1>1, <2>1, Zenon
    <2> QED
      BY <2>1, <2>2, Zenon DEF Reports
  <1>4. TypeOK'
    BY <1>1, <1>2, <1>3 DEF IInv, TypeOK, Statuses
  <1>5. SavedInv' /\ ScheduleInv' /\ FlightInv'
    BY <1>1, AtReply DEF SavedInv, ScheduleInv, FlightInv
  <1>6. MoneyInv' /\ CleanInv'
    BY <1>1, <1>2, AtReply DEF MoneyInv, CleanInv, Ledgers
  <1>7. ReportInv'
    <2>1. Refused' = 0
      BY <1>2, AtReply, <1>1 DEF Refused
    <2>2. /\ told.cost + report'.cost = ledger'.cost
          /\ told.calls + report'.calls = ledger'.requests + 0
      BY <1>1, <1>2, <1>3, AtReply DEF Ledgers, Reports, Replies
    <2> QED
      BY <1>1, <1>2, <1>3, AtReply, <2>1, <2>2 DEF ReportInv
  <1> QED
    BY <1>4, <1>5, <1>6, <1>7 DEF IInv

LEMMA FaultStep == IInv /\ Fault => IInv'
  <1> SUFFICES ASSUME IInv, Fault PROVE IInv'
    OBVIOUS
  <1> DEFINE reported == reply.usage # "missing"
  <1>1. /\ node = "sent" /\ reply.failed /\ node' = "replaying"
        /\ ledger' = [ledger EXCEPT !.cost = @ + reply.cost, !.complete = @ /\ reported,
                                    !.stop = "provider_error", !.flight = 0]
        /\ saved' = ledger'
        /\ report' = [report EXCEPT !.calls = @, !.cost = @ + reply.cost, !.complete = @ /\ reported,
                                    !.aborted = TRUE]
        /\ statuses' = Append(statuses, "provider_error")
        /\ UNCHANGED <<done, told, reply, sent, billed, doubt>>
    BY DEF Fault, Abort
  <1>2. /\ ledger'.requests = ledger.requests /\ ledger'.cost = ledger.cost + reply.cost
        /\ ledger'.complete => reported
        /\ ledger'.flight = 0 /\ ledger'.stop = "provider_error" /\ ledger' \in Ledgers
    <2>1. /\ ledger.requests \in Nat /\ ledger.cost + reply.cost \in Nat /\ ledger \in Ledgers
          /\ "provider_error" \in StopReasons
      BY <1>1, AtReply DEF Ledgers, Replies, StopReasons
    <2>2. ledger' = [ledger EXCEPT !.requests = ledger.requests, !.cost = ledger.cost + reply.cost,
                                   !.complete = @ /\ reported, !.flight = 0,
                                   !.stop = "provider_error"]
      BY <1>1, <2>1 DEF Ledgers
    <2> HIDE DEF reported
    <2> QED
      BY <2>1, <2>2, Zenon DEF Ledgers
  <1>3. /\ report'.calls = report.calls /\ report'.cost = report.cost + reply.cost
        /\ report'.aborted /\ report' \in Reports
    <2>1. report.calls \in Nat /\ report.cost + reply.cost \in Nat /\ report \in Reports
      BY <1>1, AtReply DEF Reports, Replies
    <2>2. report' = [report EXCEPT !.calls = report.calls, !.cost = report.cost + reply.cost,
                                   !.complete = @ /\ reported, !.aborted = TRUE]
      BY <1>1, <2>1
    <2> HIDE DEF reported
    <2> QED
      BY <2>1, <2>2, Zenon DEF Reports
  <1>4. TypeOK'
    BY <1>1, <1>2, <1>3 DEF IInv, TypeOK, Statuses
  <1>5. SavedInv' /\ ScheduleInv' /\ FlightInv'
    BY <1>1, AtReply DEF SavedInv, ScheduleInv, FlightInv
  <1>6. ledger'.complete /\ ~doubt' => billed = ledger'.cost
    BY <1>1, <1>2, AtReply DEF Replies
  <1>7. MoneyInv' /\ CleanInv'
    BY <1>1, <1>2, <1>6, AtReply DEF MoneyInv, CleanInv, Ledgers
  <1>8. ReportInv'
    <2>1. Refused' = 0
      BY <1>2, AtReply, <1>1 DEF Refused
    <2>2. /\ told.cost + report'.cost = ledger'.cost
          /\ told.calls + report'.calls = ledger'.requests + 0
      <3>1. /\ told.cost \in Nat /\ told.calls \in Nat /\ report.cost \in Nat
            /\ reply.cost \in Nat /\ ledger.cost \in Nat /\ ledger.requests \in Nat
        BY <1>1, AtReply DEF Ledgers, Reports, Replies
      <3>2. told.cost + report.cost = ledger.cost /\ told.calls + report.calls = ledger.requests
        BY <1>1, AtReply
      <3> QED
        BY <1>2, <1>3, <3>1, <3>2
    <2> QED
      BY <1>1, <1>2, <1>3, AtReply, <2>1, <2>2 DEF ReportInv
  <1> QED
    BY <1>4, <1>5, <1>7, <1>8 DEF IInv

LEMMA NextInvariant == IInv /\ [Next]_vars => IInv'
  <1> SUFFICES ASSUME IInv, [Next]_vars PROVE IInv'
    OBVIOUS
  <1>1. CASE UNCHANGED vars
    BY <1>1 DEF vars, IInv, TypeOK, ScheduleInv, SavedInv, MoneyInv, CleanInv, FlightInv,
                ReportInv, Refused
  <1>2. CASE Refreeze \/ Open \/ Close \/ Die \/ RuleOut
    BY <1>2, RefreezeStep, OpenStep, CloseStep, DieStep, RuleOutStep
  <1>3. ASSUME NEW reserve \in Reserves, Refuse(reserve) \/ Dispatch(reserve)
        PROVE  IInv'
    BY <1>3, RefuseStep, DispatchStep
  <1>4. ASSUME NEW bill \in 0..MaxReserve, NEW cost \in 0..MaxReserve, NEW failed \in BOOLEAN,
               NEW usage \in {"known", "odd", "missing"},
               Serve(bill, [failed |-> failed, usage |-> usage, cost |-> cost])
        PROVE  IInv'
    <2>1. bill \in Nat /\ cost \in Nat
      OBVIOUS
    <2>2. [failed |-> failed, usage |-> usage, cost |-> cost] \in Replies
      BY <2>1 DEF Replies
    <2> QED
      BY <1>4, <2>1, <2>2, ServeStep
  <1>5. CASE Settle \/ Distrust \/ Fault
    BY <1>5, SettleStep, DistrustStep, FaultStep
  <1> QED
    BY <1>1, <1>2, <1>3, <1>4, <1>5 DEF Next

LEMMA Invariant == Spec => []IInv
  BY InitInvariant, NextInvariant, PTL DEF Spec

------------------------------------------------------------------------------
(***************************************************************************)
(* The theorems.                                                           *)
(***************************************************************************)

\* Ledger, manifest and reports keep their shape in every run of the experiment
\* (run_verifier_comparison.main).
THEOREM ExperimentTypeCorrect == Spec => []TypeOK
  <1>1. IInv => TypeOK
    BY DEF IInv
  <1> QED
    BY <1>1, Invariant, PTL

\* With any replays, prices and provider the bill stays within the budget, as long
\* as no request is billed more than its reserve (BudgetedVerifier.verify).
THEOREM BudgetHolds == Spec => []SpendWithinBudget
  <1>1. IInv => SpendWithinBudget
    BY InputsFit DEF IInv, TypeOK, MoneyInv, SpendWithinBudget, Ledgers
  <1> QED
    BY <1>1, Invariant, PTL

\* Wherever the process dies, a manifest that can be read accounts for every
\* request the provider got (BudgetedVerifier.verify, checkpoint).
THEOREM ManifestAccounts == Spec => []SavedAccounts
  <1>1. IInv => SavedAccounts
    <2> SUFFICES ASSUME IInv, saved # Torn PROVE SavedAccounts
      BY DEF SavedAccounts
    <2>1. saved = ledger
      BY DEF IInv, SavedInv
    <2>2. ledger.requests \in Nat /\ sent \in Nat
      BY DEF IInv, TypeOK, Ledgers
    <2>3. ledger.complete /\ ~doubt =>
            ledger.requests - sent <= (IF ledger.flight = 0 THEN 0 ELSE 1)
      BY <2>2 DEF IInv, MoneyInv
    <2> QED
      BY <2>1, <2>3 DEF IInv, MoneyInv, SavedAccounts
  <1> QED
    BY <1>1, Invariant, PTL

\* The replays' reports add up to the ledger, whatever failed and was refused
\* (run_verification_replay).
THEOREM ReportsAgree == Spec => []ReportsAddUp
  <1>1. IInv => ReportsAddUp
    BY DEF IInv, CleanInv, ReportInv, Refused, ReportsAddUp
  <1> QED
    BY <1>1, Invariant, PTL

------------------------------------------------------------------------------
Answers == {"confirmed", "partial", "rejected", "uncertain"}

Failures == {"aborted", "provider_error"}

Rulings == [status : Incomplete \cup Failures \cup Answers \cup {"prepared"},
            cites : SUBSET (Sides \cup {"unknown"})]

\* What is looked at of the findings that are.
Views == {Seen(n) : n \in {m \in DOMAIN study.findings : ~Structural(study.findings[m])}}

Ready == {view \in Views : Usable(view.context)}

BeforeFindings == {"arguments", "cases", "report", "bundle", "key", "sources"}

Ended == {"refused", "raised", "dead", "done"}

StageInv ==
  /\ stage \in BeforeFindings \cup {"findings", "looking", "asking"} \cup Ended
  /\ study \in Studies /\ live \in BOOLEAN /\ fetching \in BOOLEAN
  /\ stage \in BeforeFindings \cup {"refused"} =>
       rulings = <<>> /\ looked = <<>> /\ requested = <<>>
  /\ stage \in {"looking", "asking"} => looked # <<>> /\ ~account.aborted
  /\ stage = "asking" => live /\ requested # <<>>

ViewsInv ==
  /\ rulings \in Seq(Rulings) /\ looked \in Seq(Views) /\ requested \in Seq(Ready)

AccountInv ==
  /\ account \in [calls : Nat, cost : Nat, complete : BOOLEAN, aborted : BOOLEAN]
  /\ charged \in Nat
  /\ Len(requested) = account.calls /\ account.calls <= MaxCalls
  /\ ~live => requested = <<>>
  /\ ~account.aborted => account.complete
  /\ ~account.aborted /\ stage # "raised" => account.cost = charged

\* An answer to each, while nothing was left out.
AnsweredInv ==
  live /\ ~account.aborted /\ (\A i \in DOMAIN rulings : rulings[i].status \notin Incomplete)
    /\ stage \notin Ended
    => Len(requested) = Len(rulings)
         + (IF stage = "asking" THEN 1 ELSE 0)

RulingsInv ==
  \A i \in DOMAIN rulings :
    /\ rulings[i].status \in Failures => account.aborted
    /\ rulings[i].status \in Incomplete \cup Failures
                               \cup (IF live THEN Answers ELSE {"prepared"})
    /\ rulings[i].status \in {"confirmed", "partial"} => Sides \subseteq rulings[i].cites

ExitInv == ExitZeroIsComplete /\ (exit = 0 => stage = "done")

ReplayInv == StageInv /\ ViewsInv /\ AccountInv /\ AnsweredInv /\ RulingsInv /\ ExitInv

USE DEF given, sources, results, accounts

LEMMA ReplayInitially == ReplayInit => ReplayInv
  <1> SUFFICES ASSUME ReplayInit PROVE ReplayInv
    OBVIOUS
  <1> USE DEF ReplayInit
  <1>1. StageInv
    BY DEF StageInv, BeforeFindings
  <1>2. ViewsInv
    BY EmptySeq DEF ViewsInv
  <1>3. AccountInv
    BY StudiesFit DEF AccountInv
  <1>4. AnsweredInv
    BY DEF AnsweredInv
  <1>5. RulingsInv
    BY DEF RulingsInv
  <1>6. ExitInv
    BY DEF ExitInv, ExitZeroIsComplete
  <1> QED
    BY <1>1, <1>2, <1>3, <1>4, <1>5, <1>6 DEF ReplayInv

LEMMA FlawsFit ==
  ASSUME StageInv
  PROVE  study.flaws \subseteq {"arguments", "cases", "report", "bundle", "key"}
  BY StudiesFit DEF StageInv, StudyFlaws

\* The steps before the first finding, which touch neither rulings nor accounts.
LEMMA PreparingStep ==
  ASSUME ReplayInv,
         stage \in BeforeFindings, stage' \in BeforeFindings \cup {"findings", "refused"},
         stage' = "refused" => exit' = 1, stage' # "refused" => exit' = exit,
         UNCHANGED <<given, results, account, requested, charged>>
  PROVE  ReplayInv'
  <1> USE DEF ReplayInv, BeforeFindings, Ended
  <1>0. rulings = <<>> /\ looked = <<>> /\ requested = <<>> /\ exit # 0
    BY DEF StageInv, ExitInv
  <1>1. StageInv'
    BY <1>0 DEF StageInv
  <1>2. ViewsInv'
    BY <1>0, EmptySeq DEF ViewsInv
  <1>3. AccountInv'
    BY DEF AccountInv
  <1>4. AnsweredInv'
    BY <1>0 DEF AnsweredInv
  <1>5. RulingsInv'
    BY <1>0 DEF RulingsInv
  <1>6. ExitInv'
    BY <1>0 DEF ExitInv, ExitZeroIsComplete
  <1> QED
    BY <1>1, <1>2, <1>3, <1>4, <1>5, <1>6 DEF ReplayInv

LEMMA PreparingActions ==
  ASSUME ReplayInv,
         \/ Pass \/ Reject \/ TakeBundle \/ NoBundle \/ HaveKey
         \/ \E source \in todo : Fetch(source) \/ FetchFails(source)
         \/ WriteSources \/ CannotWrite
  PROVE  ReplayInv'
  <1> USE DEF BeforeFindings
  <1>1. ASSUME Pass PROVE ReplayInv'
    BY <1>1, PreparingStep DEF Pass, Preflight
  <1>2. ASSUME Reject PROVE ReplayInv'
    BY <1>2, PreparingStep, FlawsFit DEF Reject, Stop, ReplayInv
  <1>3. ASSUME NoBundle PROVE ReplayInv'
    BY <1>3, PreparingStep DEF NoBundle
  <1>4. ASSUME HaveKey PROVE ReplayInv'
    BY <1>4, PreparingStep DEF HaveKey
  <1>5. ASSUME TakeBundle PROVE ReplayInv'
    BY <1>5, PreparingStep DEF TakeBundle
  <1>6. ASSUME NEW source \in todo, Fetch(source) PROVE ReplayInv'
    BY <1>6, PreparingStep DEF Fetch, InTurn
  <1>7. ASSUME NEW source \in todo, FetchFails(source) PROVE ReplayInv'
    BY <1>7, PreparingStep DEF FetchFails, InTurn
  <1>8. ASSUME WriteSources PROVE ReplayInv'
    BY <1>8, PreparingStep DEF WriteSources
  <1>9. ASSUME CannotWrite PROVE ReplayInv'
    BY <1>9, PreparingStep DEF CannotWrite, Stop
  <1> QED
    BY <1>1, <1>2, <1>3, <1>4, <1>5, <1>6, <1>7, <1>8, <1>9

\* The finding at hand is one of the study's.
LEMMA CurrentFits ==
  ASSUME StageInv, ViewsInv, AtFinding
  PROVE  /\ Current \in ToSet(study.findings)
         /\ Len(rulings) + 1 \in DOMAIN study.findings
  <1>1. study.findings \in Seq(Findings)
    BY StudiesFit DEF StageInv
  <1>2. Len(rulings) + 1 \in DOMAIN study.findings
    BY <1>1 DEF AtFinding, ViewsInv
  <1> QED
    BY <1>2 DEF Current, ToSet

LEMMA Appended ==
  ASSUME NEW S, NEW s \in Seq(S), NEW x \in S
  PROVE  /\ Append(s, x) \in Seq(S) /\ Len(Append(s, x)) = Len(s) + 1
         /\ Append(s, x) # <<>>
         /\ Len(s) + 1 \in DOMAIN Append(s, x) /\ Append(s, x)[Len(s) + 1] = x
         /\ \A i \in DOMAIN s : i \in DOMAIN Append(s, x) /\ Append(s, x)[i] = s[i]
         /\ \A i \in DOMAIN Append(s, x) : i \in DOMAIN s \/ i = Len(s) + 1
  <1>1. /\ Append(s, x) \in Seq(S) /\ Len(Append(s, x)) = Len(s) + 1
        /\ \A i \in 1..Len(s) : Append(s, x)[i] = s[i]
        /\ Append(s, x)[Len(s) + 1] = x
    BY AppendProperties
  <1>2. Len(s) \in Nat /\ DOMAIN s = 1..Len(s) /\ DOMAIN Append(s, x) = 1..(Len(s) + 1)
    BY <1>1
  <1> QED
    BY <1>1, <1>2, EmptySeq

\* A ruling more; `requests` says that it was asked for.
LEMMA RuledStep ==
  ASSUME ReplayInv, NEW status \in Incomplete \cup Failures \cup Answers \cup {"prepared"},
         NEW cites \in SUBSET (Sides \cup {"unknown"}),
         rulings' = Append(rulings, Ruling(status, cites)),
         stage \in {"findings", "looking", "asking"}, stage' = "findings",
         UNCHANGED <<given, sources, looked, requested, exit>>,
         account' \in [calls : Nat, cost : Nat, complete : BOOLEAN, aborted : BOOLEAN],
         account'.calls = account.calls,
         charged' \in Nat,
         account.aborted => account'.aborted,
         ~account'.aborted => account'.complete /\ (account.cost = charged => account'.cost = charged'),
         status \in Failures => account'.aborted,
         status = "prepared" => ~live,
         status \in Answers => stage = "asking",
         status \in {"confirmed", "partial"} => Sides \subseteq cites,
         stage = "asking" \/ account'.aborted \/ status \in Incomplete \/ ~live,
         stage = "asking" => status # "prepared"
  PROVE  ReplayInv'
  <1> USE DEF ReplayInv
  <1> DEFINE r == Ruling(status, cites)
  <1>0. r \in Rulings /\ r.status = status /\ r.cites = cites
    BY DEF Ruling, Rulings
  <1>1. /\ rulings' \in Seq(Rulings) /\ Len(rulings') = Len(rulings) + 1
        /\ \A i \in DOMAIN rulings' : i \in DOMAIN rulings \/ i = Len(rulings) + 1
        /\ Len(rulings) + 1 \in DOMAIN rulings' /\ rulings'[Len(rulings) + 1] = r
        /\ \A i \in DOMAIN rulings : i \in DOMAIN rulings' /\ rulings'[i] = rulings[i]
    <2>1. rulings \in Seq(Rulings)
      BY DEF ViewsInv
    <2> HIDE DEF r
    <2> QED
      BY <1>0, <2>1, Appended DEF r
  <1>2. StageInv'
    BY DEF StageInv, BeforeFindings, Ended
  <1>3. ViewsInv'
    <2>1. Views' = Views /\ Ready' = Ready
      BY DEF Views, Ready, Seen, Input, Structural, OnDiff
    <2> QED
      BY <1>1, <2>1 DEF ViewsInv
  <1>4. AccountInv'
    BY DEF AccountInv
  <1>5. AnsweredInv'
    <2> SUFFICES ASSUME live, ~account'.aborted,
                        \A i \in DOMAIN rulings' : rulings'[i].status \notin Incomplete
                 PROVE  Len(requested) = Len(rulings')
      BY DEF AnsweredInv
    <2>1. status \notin Incomplete /\ \A i \in DOMAIN rulings : rulings[i].status \notin Incomplete
      BY <1>0, <1>1
    <2>2. stage = "asking" /\ ~account.aborted
      BY <2>1
    <2> QED
      BY <1>1, <2>1, <2>2 DEF AnsweredInv, Ended
  <1>6. RulingsInv'
    <2> SUFFICES ASSUME NEW i \in DOMAIN rulings'
                 PROVE  /\ rulings'[i].status \in Failures => account'.aborted
                        /\ rulings'[i].status \in Incomplete \cup Failures
                              \cup (IF live THEN Answers ELSE {"prepared"})
                        /\ rulings'[i].status \in {"confirmed", "partial"} =>
                             Sides \subseteq rulings'[i].cites
      BY DEF RulingsInv
    <2>1. CASE i \in DOMAIN rulings
      BY <1>1, <2>1 DEF RulingsInv
    <2>2. CASE i = Len(rulings) + 1
      <3>1. rulings'[i].status = status /\ rulings'[i].cites = cites
        BY <1>0, <1>1, <2>2
      <3> QED
        BY <3>1 DEF StageInv
    <2> QED
      BY <1>1, <2>1, <2>2
  <1>7. ExitInv'
    BY DEF ExitInv, ExitZeroIsComplete
  <1> QED
    BY <1>2, <1>3, <1>4, <1>5, <1>6, <1>7

USE DEF given, sources, results, accounts

LEMMA CallsFit == MaxCalls \in Nat /\ Prices \subseteq Nat
  BY StudiesFit

LEMMA RulingActions ==
  ASSUME ReplayInv,
         \/ Skip \/ Dismiss \/ NoVerifier
         \/ \E price \in Prices : \E known \in BOOLEAN : Fail(price, known)
         \/ \E price \in Prices : \E verdict \in Answers, cites \in SUBSET (Sides \cup {"unknown"}),
              full \in BOOLEAN : Answer(verdict, cites, full, price)
  PROVE  ReplayInv'
  <1> USE DEF Incomplete, Failures, Answers
  <1>0. /\ account \in [calls : Nat, cost : Nat, complete : BOOLEAN, aborted : BOOLEAN]
        /\ charged \in Nat /\ Prices \subseteq Nat
        /\ ~account.aborted => account.complete
    BY CallsFit DEF ReplayInv, AccountInv
  <1>1. CASE Skip
    <2>1. PICK status \in {"aborted", "structural_reject"} :
            /\ rulings' = Append(rulings, Ruling(status, {}))
            /\ status = "aborted" => account.aborted
      BY <1>1 DEF Skip
    <2>2. /\ stage = "findings" /\ stage' = "findings"
          /\ UNCHANGED <<given, sources, looked, accounts, exit>>
      BY <1>1 DEF Skip, AtFinding
    <2>3. /\ account' \in [calls : Nat, cost : Nat, complete : BOOLEAN, aborted : BOOLEAN]
          /\ account'.calls = account.calls
      BY <1>0, <2>2
    <2> QED
      BY <1>0, <2>1, <2>2, <2>3, RuledStep
  <1>2. CASE Dismiss
    <2>1. PICK status \in {"context_unavailable", "budget_exceeded", "prepared"} :
            /\ rulings' = Append(rulings, Ruling(status, {}))
            /\ status = "prepared" => ~live
      BY <1>2 DEF Dismiss
    <2>2. /\ stage = "looking" /\ stage' = "findings"
          /\ UNCHANGED <<given, sources, looked, accounts, exit>>
      BY <1>2 DEF Dismiss
    <2>3. /\ account' \in [calls : Nat, cost : Nat, complete : BOOLEAN, aborted : BOOLEAN]
          /\ account'.calls = account.calls
      BY <1>0, <2>2
    <2> QED
      BY <1>0, <2>1, <2>2, <2>3, RuledStep
  <1>3. CASE NoVerifier
    <2>1. /\ rulings' = Append(rulings, Ruling("provider_error", {}))
          /\ stage = "looking" /\ stage' = "findings"
          /\ UNCHANGED <<given, sources, looked, requested, exit, charged>>
          /\ account' = [account EXCEPT !.complete = FALSE, !.aborted = TRUE]
      BY <1>3 DEF NoVerifier, NeedsCall, Decide
    <2>2. /\ account' \in [calls : Nat, cost : Nat, complete : BOOLEAN, aborted : BOOLEAN]
          /\ account'.aborted /\ account'.calls = account.calls
      BY <1>0, <2>1
    <2> QED
      BY <1>0, <2>1, <2>2, RuledStep
  <1>4. ASSUME NEW price \in Prices, NEW known \in BOOLEAN, Fail(price, known)
        PROVE  ReplayInv'
    <2>1. /\ rulings' = Append(rulings, Ruling("provider_error", {}))
          /\ stage = "asking" /\ stage' = "findings"
          /\ UNCHANGED <<given, sources, looked, requested, exit>>
          /\ charged' = charged + price
          /\ account' = [account EXCEPT !.cost = IF known THEN @ + price ELSE @,
                                        !.complete = @ /\ known, !.aborted = TRUE]
      BY <1>4 DEF Fail, Decide
    <2>2. /\ account' \in [calls : Nat, cost : Nat, complete : BOOLEAN, aborted : BOOLEAN]
          /\ account'.aborted /\ account'.calls = account.calls /\ charged' \in Nat
      <3> DEFINE cost == IF known THEN account.cost + price ELSE account.cost
                 complete == account.complete /\ known
      <3>1. cost \in Nat /\ complete \in BOOLEAN /\ charged' \in Nat
        BY <1>0, <2>1
      <3>2. account' = [account EXCEPT !.cost = cost, !.complete = complete, !.aborted = TRUE]
        BY <2>1
      <3> HIDE DEF cost, complete
      <3> QED
        BY <1>0, <3>1, <3>2
    <2> QED
      BY SMTT(30), <1>0, <2>1, <2>2, RuledStep
  <1>5. ASSUME NEW price \in Prices, NEW verdict \in Answers,
               NEW cites \in SUBSET (Sides \cup {"unknown"}), NEW full \in BOOLEAN,
               Answer(verdict, cites, full, price)
        PROVE  ReplayInv'
    <2>1. PICK status \in Answers \cup {"invalid_decision"} :
            /\ rulings' = Append(rulings, Ruling(status, cites))
            /\ status \in {"confirmed", "partial"} => Sides \subseteq cites
      <3>1. CASE Unusable(verdict, cites, full)
        BY <1>5, <3>1 DEF Answer, Decide
      <3>2. CASE ~Unusable(verdict, cites, full)
        BY <1>5, <3>2 DEF Answer, Decide, Unusable
      <3> QED
        BY <3>1, <3>2
    <2>2. /\ stage = "asking" /\ stage' = "findings"
          /\ UNCHANGED <<given, sources, looked, requested, exit>>
          /\ charged' = charged + price
          /\ account' = [account EXCEPT !.cost = @ + price]
      BY <1>5 DEF Answer, Decide
    <2>3. /\ account' \in [calls : Nat, cost : Nat, complete : BOOLEAN, aborted : BOOLEAN]
          /\ charged' \in Nat /\ account'.aborted = account.aborted
          /\ account'.calls = account.calls
          /\ account'.complete = account.complete
          /\ account.cost = charged => account'.cost = charged'
      BY <1>0, <2>2
    <2> QED
      BY <1>0, <2>1, <2>2, <2>3, RuledStep
  <1> QED
    BY <1>1, <1>2, <1>3, <1>4, <1>5

LEMMA ViewsStay ==
  ASSUME UNCHANGED <<study, bundles>>
  PROVE  Views' = Views /\ Ready' = Ready
  BY DEF Views, Ready, Seen, Input, Structural, OnDiff

LEMMA LookStep == ReplayInv /\ Look => ReplayInv'
  <1> SUFFICES ASSUME ReplayInv, Look PROVE ReplayInv'
    OBVIOUS
  <1> USE DEF ReplayInv
  <1>0. /\ stage = "findings" /\ stage' = "looking" /\ ~account.aborted
        /\ UNCHANGED <<given, sources, rulings, accounts, exit>>
        /\ looked' = Append(looked, Seen(Len(rulings) + 1))
    BY DEF Look, AtFinding
  <1>1. Seen(Len(rulings) + 1) \in Views
    BY CurrentFits DEF Look, Views, Current
  <1>2. looked \in Seq(Views)
    BY DEF ViewsInv
  <1>3. looked' \in Seq(Views) /\ looked' # <<>>
    BY <1>0, <1>1, <1>2, Appended
  <1>4. StageInv'
    BY <1>0, <1>3 DEF StageInv, BeforeFindings, Ended
  <1>5. ViewsInv'
    BY <1>0, <1>3, ViewsStay DEF ViewsInv
  <1>6. AccountInv'
    BY <1>0 DEF AccountInv
  <1>7. AnsweredInv'
    BY <1>0 DEF AnsweredInv, Ended
  <1>8. RulingsInv' /\ ExitInv'
    BY <1>0 DEF RulingsInv, ExitInv, ExitZeroIsComplete
  <1> QED
    BY <1>4, <1>5, <1>6, <1>7, <1>8

LEMMA AskStep == ReplayInv /\ Ask => ReplayInv'
  <1> SUFFICES ASSUME ReplayInv, Ask PROVE ReplayInv'
    OBVIOUS
  <1> USE DEF ReplayInv
  <1>0. /\ stage = "looking" /\ stage' = "asking" /\ live /\ account.calls < MaxCalls
        /\ Usable(Last(looked).context)
        /\ account' = [account EXCEPT !.calls = @ + 1]
        /\ UNCHANGED <<given, sources, results, written, charged, exit>>
        /\ requested' = Append(requested, Last(looked))
    BY DEF Ask, NeedsCall
  <1>1. Last(looked) \in Ready
    <2>1. looked \in Seq(Views) /\ looked # <<>>
      BY <1>0 DEF StageInv, ViewsInv
    <2>2. Len(looked) \in DOMAIN looked
      BY <2>1, EmptySeq
    <2>3. looked[Len(looked)] \in Views
      BY <2>1, <2>2
    <2> QED
      BY <1>0, <2>3 DEF Last, Ready
  <1>2. requested \in Seq(Ready)
    BY DEF ViewsInv
  <1>3. requested' \in Seq(Ready) /\ requested' # <<>> /\ Len(requested') = Len(requested) + 1
    BY <1>0, <1>1, <1>2, Appended
  <1>4. StageInv'
    BY <1>0, <1>3 DEF StageInv, BeforeFindings, Ended
  <1>5. ViewsInv'
    BY <1>0, <1>3, ViewsStay DEF ViewsInv
  <1>6. AccountInv'
    BY <1>0, <1>3, CallsFit DEF AccountInv
  <1>7. AnsweredInv'
    BY <1>0, <1>3 DEF AnsweredInv, Ended, AccountInv
  <1>8. RulingsInv' /\ ExitInv'
    BY <1>0 DEF RulingsInv, ExitInv, ExitZeroIsComplete, AccountInv
  <1> QED
    BY <1>4, <1>5, <1>6, <1>7, <1>8

LEMMA RaiseStep == ASSUME NEW price \in Prices, ReplayInv, Raise(price) PROVE ReplayInv'
  <1> USE DEF ReplayInv
  <1>0. /\ stage = "asking" /\ stage' = "raised" /\ exit' = 1
        /\ charged' = charged + price
        /\ UNCHANGED <<account, given, sources, results, requested>>
    BY DEF Raise
  <1>1. StageInv'
    BY <1>0 DEF StageInv, BeforeFindings, Ended
  <1>2. ViewsInv'
    BY <1>0, ViewsStay DEF ViewsInv
  <1>3. AccountInv'
    BY <1>0, CallsFit DEF AccountInv
  <1>4. AnsweredInv' /\ RulingsInv' /\ ExitInv'
    BY <1>0 DEF AnsweredInv, RulingsInv, ExitInv, ExitZeroIsComplete, Ended
  <1> QED
    BY <1>1, <1>2, <1>3, <1>4

LEMMA KilledStep == ReplayInv /\ Killed => ReplayInv'
  <1> SUFFICES ASSUME ReplayInv, Killed PROVE ReplayInv'
    OBVIOUS
  <1> USE DEF ReplayInv
  <1>0. /\ stage \in {"findings", "looking", "asking"} /\ stage' = "dead"
        /\ UNCHANGED <<given, sources, results, account, requested, charged, exit>>
    BY DEF Killed
  <1>1. StageInv'
    BY <1>0 DEF StageInv, BeforeFindings, Ended
  <1>2. ViewsInv'
    BY <1>0, ViewsStay DEF ViewsInv
  <1>3. AccountInv'
    BY <1>0 DEF AccountInv
  <1>4. AnsweredInv' /\ RulingsInv' /\ ExitInv'
    BY <1>0 DEF AnsweredInv, RulingsInv, ExitInv, ExitZeroIsComplete, Ended
  <1> QED
    BY <1>1, <1>2, <1>3, <1>4

LEMMA FinishStep == ReplayInv /\ Finish => ReplayInv'
  <1> SUFFICES ASSUME ReplayInv, Finish PROVE ReplayInv'
    OBVIOUS
  <1> USE DEF ReplayInv
  <1>0. /\ stage = "findings" /\ stage' = "done" /\ Len(rulings) = Len(study.findings)
        /\ written' = [calls |-> account.calls, cost |-> account.cost, rulings |-> rulings]
        /\ UNCHANGED <<account, given, sources, results, requested, charged>>
        /\ exit' = IF account.aborted \/ \E i \in DOMAIN rulings : rulings[i].status \in Incomplete
                   THEN 1 ELSE 0
    BY DEF Finish, Copy
  <1>1. StageInv'
    BY <1>0 DEF StageInv, BeforeFindings, Ended
  <1>2. ViewsInv'
    BY <1>0, ViewsStay DEF ViewsInv
  <1>3. AccountInv'
    BY <1>0 DEF AccountInv
  <1>4. AnsweredInv' /\ RulingsInv'
    BY <1>0 DEF AnsweredInv, RulingsInv, Ended
  <1>5. ExitInv'
    <2> SUFFICES ASSUME exit' = 0 PROVE ExitZeroIsComplete'
      BY <1>0 DEF ExitInv, ExitZeroIsComplete
    <2>1. ~account.aborted /\ \A i \in DOMAIN rulings : rulings[i].status \notin Incomplete
      BY <1>0
    <2>2. account.cost = charged /\ account.complete /\ (~live => requested = <<>>)
      BY <1>0, <2>1 DEF AccountInv
    <2>3. Len(requested) = (IF live THEN Len(study.findings) ELSE 0)
      BY <1>0, <2>1, <2>2 DEF AnsweredInv, Ended
    <2>4. \A i \in DOMAIN rulings :
            /\ rulings[i].status \in (IF live THEN Answers ELSE {"prepared"})
            /\ rulings[i].status \in {"confirmed", "partial"} => Sides \subseteq rulings[i].cites
      BY <2>1 DEF RulingsInv
    <2> QED
      BY <1>0, <2>2, <2>3, <2>4 DEF ExitZeroIsComplete, Answers
  <1> QED
    BY <1>1, <1>2, <1>3, <1>4, <1>5

LEMMA ReplayInductive == ReplayInv /\ [ReplayNext]_replayVars => ReplayInv'
  <1> SUFFICES ASSUME ReplayInv, [ReplayNext]_replayVars PROVE ReplayInv'
    OBVIOUS
  <1>1. ASSUME UNCHANGED replayVars PROVE ReplayInv'
    BY <1>1, ViewsStay DEF replayVars, ReplayInv, StageInv, ViewsInv, AccountInv, AnsweredInv,
       RulingsInv, ExitInv, ExitZeroIsComplete
  <1> QED
    BY <1>1, PreparingActions, RulingActions, LookStep, AskStep, RaiseStep, KilledStep, FinishStep
    DEF ReplayNext, Answers

LEMMA ReplayInvariant == ReplaySpec => []ReplayInv
  BY ReplayInitially, ReplayInductive, PTL DEF ReplaySpec

\* `prcritiq verify` exits with 0 only when every finding is settled and the report
\* on disk is the whole one (cli._run_verify).
THEOREM ExitZeroMeansSettled == ReplaySpec => []ExitZeroIsComplete
  <1>1. ReplayInv => ExitZeroIsComplete
    BY DEF ReplayInv, ExitInv
  <1> QED
    BY <1>1, ReplayInvariant, PTL

(***************************************************************************)
(* Choosing a least element.                                               *)
(***************************************************************************)

LEMMA LeastOf ==
  ASSUME NEW H, H # {}, NEW f, \A h \in H : f[h] \in Nat
  PROVE  \E h \in H : \A g \in H : f[h] <= f[g]
  <1> DEFINE T == {f[h] : h \in H}
  <1>1. T \in SUBSET Nat /\ T # {}
    OBVIOUS
  <1> HIDE DEF T
  <1>2. PICK n \in T : \A m \in T : n <= m
    BY <1>1, LeastNumber
  <1> QED
    BY <1>2 DEF T

\* A symbol is some lines of its source, and has a name.
LEMMA SymbolFits ==
  ASSUME NEW source \in Sources, NEW s \in source.symbols
  PROVE  /\ s.start \in Nat /\ s.end \in Nat /\ s.name \in Seq(Names) /\ s.name # <<>>
         /\ 1 <= s.start /\ s.start <= s.end /\ s.end <= Len(source.sizes)
  <1>1. s \in [name : Seq(Names), start : Nat, end : Nat, function : BOOLEAN]
    BY DEF Sources
  <1>2. s.name # <<>> /\ 1 <= s.start /\ s.start <= s.end /\ s.end <= Len(source.sizes)
    BY DEF Sources
  <1> QED
    BY <1>1, <1>2

LEMMA EnclosingIsAround ==
  ASSUME NEW source \in Sources, NEW line \in Nat, Around(source, line) # {}
  PROVE  Enclosing(source, line) \in Around(source, line)
  <1> DEFINE A == Around(source, line)
             length == [s \in A |-> s.end - s.start]
             before == [s \in A |-> line - s.start]
             Shortest == {s \in A : \A t \in A : length[s] <= length[t]}
  <1>1. \A s \in A : /\ s.start \in Nat /\ s.end \in Nat /\ s.start <= line /\ s.start <= s.end
                     /\ length[s] \in Nat /\ before[s] \in Nat
    <2> SUFFICES ASSUME NEW s \in A
                 PROVE  /\ s.start \in Nat /\ s.end \in Nat /\ s.start <= line
                        /\ s.start <= s.end
                        /\ s.end - s.start \in Nat /\ line - s.start \in Nat
      OBVIOUS
    <2>1. s \in source.symbols /\ s.start <= line
      BY DEF Around
    <2>2. s.start \in Nat /\ s.end \in Nat /\ s.start <= s.end
      BY <2>1, SymbolFits
    <2> QED
      BY <2>1, <2>2
  <1>2. Shortest # {}
    BY <1>1, LeastOf
  <1>3. PICK s \in Shortest : \A t \in Shortest : before[s] <= before[t]
    BY <1>1, <1>2, LeastOf
  <1>4. ASSUME NEW t \in A
        PROVE  \/ s.end - s.start < t.end - t.start
               \/ s.end - s.start = t.end - t.start /\ s.start >= t.start
    <2>1. length[s] <= length[t]
      BY <1>3, <1>4
    <2>2. CASE length[s] < length[t]
      BY <2>2
    <2>3. CASE length[s] = length[t]
      <3>1. t \in Shortest
        BY <1>3, <2>3
      <3>2. before[s] <= before[t] /\ s \in A
        BY <1>3, <3>1
      <3> QED
        BY <1>1, <2>3, <3>2
    <2> QED
      BY <1>1, <1>3, <2>1, <2>2, <2>3
  <1>5. s \in A
    BY <1>3
  <1> QED
    BY <1>4, <1>5 DEF Enclosing

\* Those that come first by one number of their rank.
Lowest(H, called, k) == {h \in H : \A g \in H : Rank(called, h)[k] <= Rank(called, g)[k]}

LEMMA SomeAreLowest ==
  ASSUME NEW H, H # {}, NEW called, NEW k, \A h \in H : Rank(called, h)[k] \in Nat
  PROVE  Lowest(H, called, k) # {} /\ Lowest(H, called, k) \subseteq H
  <1> DEFINE f == [h \in H |-> Rank(called, h)[k]]
  <1>1. \A h \in H : f[h] \in Nat /\ f[h] = Rank(called, h)[k]
    OBVIOUS
  <1> HIDE DEF f
  <1>2. PICK h \in H : \A g \in H : f[h] <= f[g]
    BY <1>1, LeastOf
  <1> QED
    BY <1>1, <1>2 DEF Lowest

LEMMA RankIsOfFive == ASSUME NEW called, NEW h PROVE DOMAIN Rank(called, h) = 1..5
  <1>1. \A a, b, c, d, e : DOMAIN <<a, b, c, d, e>> = 1..5
    OBVIOUS
  <1> QED
    BY <1>1 DEF Rank

\* Of ranks of five numbers there is one that no other comes before.
LEMMA ForemostIsOne ==
  ASSUME NEW H, H # {}, NEW called,
         \A h \in H : \A k \in 1..5 : Rank(called, h)[k] \in Nat
  PROVE  Foremost(H, called) \in H
  <1> DEFINE H1 == Lowest(H, called, 1)
             H2 == Lowest(H1, called, 2)
             H3 == Lowest(H2, called, 3)
             H4 == Lowest(H3, called, 4)
             H5 == Lowest(H4, called, 5)
  <1>1. H1 # {} /\ H1 \subseteq H
    BY SomeAreLowest
  <1> HIDE DEF H1
  <1>2. H2 # {} /\ H2 \subseteq H1
    BY <1>1, SomeAreLowest
  <1> HIDE DEF H2
  <1>3. H3 # {} /\ H3 \subseteq H2
    BY <1>1, <1>2, SomeAreLowest
  <1> HIDE DEF H3
  <1>4. H4 # {} /\ H4 \subseteq H3
    BY <1>1, <1>2, <1>3, SomeAreLowest
  <1> HIDE DEF H4
  <1>5. H5 # {} /\ H5 \subseteq H4
    BY <1>1, <1>2, <1>3, <1>4, SomeAreLowest
  <1> HIDE DEF H5
  <1>6. PICK h \in H5 : TRUE
    BY <1>5
  <1>7. h \in H /\ h \in H1 /\ h \in H2 /\ h \in H3 /\ h \in H4
    BY <1>1, <1>2, <1>3, <1>4, <1>5
  <1> USE DEF Lowest
  <1>8. ASSUME NEW g \in H, Before(Rank(called, g), Rank(called, h)) PROVE FALSE
    <2> DEFINE a == Rank(called, g)
               b == Rank(called, h)
    <2>1. PICK i \in 1..5 : a[i] < b[i] /\ \A j \in 1..(i - 1) : a[j] = b[j]
      BY <1>8, RankIsOfFive DEF Before
    <2>2. \A k \in 1..5 : a[k] \in Nat /\ b[k] \in Nat
      BY <1>7
    <2>3. b[1] <= a[1] /\ (b[1] = a[1] => g \in H1)
      BY <1>7 DEF H1
    <2>4. g \in H1 => b[2] <= a[2] /\ (b[2] = a[2] => g \in H2)
      BY <1>7 DEF H2
    <2>5. g \in H2 => b[3] <= a[3] /\ (b[3] = a[3] => g \in H3)
      BY <1>7 DEF H3
    <2>6. g \in H3 => b[4] <= a[4] /\ (b[4] = a[4] => g \in H4)
      BY <1>7 DEF H4
    <2>7. g \in H4 => b[5] <= a[5]
      BY <1>6 DEF H5
    <2> HIDE DEF a, b
    <2> QED
      BY <2>1, <2>2, <2>3, <2>4, <2>5, <2>6, <2>7
  <1> QED
    BY <1>7, <1>8 DEF Foremost

(***************************************************************************)
(* Windows and what is clipped.                                            *)
(***************************************************************************)

RegionFits(region) ==
  /\ region.side \in Sides /\ region.path \in Paths /\ region.source \in Sources
  /\ region.start \in Nat /\ region.end \in Nat /\ region.anchor \in Nat
  /\ 1 <= region.start /\ region.start <= region.anchor /\ region.anchor <= region.end
  /\ region.end <= Len(region.source.sizes)

LEMMA LimitsFit ==
  MaxBytes \in Nat /\ MaxBytes # 0 /\ MaxLines \in Nat /\ MaxLines # 0 /\ PathOrder \in [Paths -> Nat]
  BY LimitsArePositive

LEMMA WindowHolds ==
  ASSUME NEW region, RegionFits(region), NEW n \in Nat,
         1 <= n, n <= region.end - region.start + 1
  PROVE  LET w == Window(region, n)
         IN  /\ w[1] \in Nat /\ w[2] \in Nat /\ w = <<w[1], w[2]>>
             /\ region.start <= w[1] /\ w[1] <= region.anchor
             /\ region.anchor <= w[2] /\ w[2] <= region.end
             /\ n = region.end - region.start + 1 => w = <<region.start, region.end>>
  <1>1. n \div 2 \in Nat /\ n \div 2 <= n - 1
    OBVIOUS
  <1> DEFINE s == region.start
             e == region.end
             a == region.anchor
             h == n \div 2
             b == Greater(s, Smaller(a - h, e - n + 1))
  <1>2. s \in Nat /\ e \in Nat /\ a \in Nat /\ s <= a /\ a <= e
    BY DEF RegionFits
  <1>3. Window(region, n) = <<b, b + n - 1>>
    BY DEF Window
  <1> HIDE DEF s, e, a, h, b
  <1>4. h \in Nat /\ h <= n - 1 /\ n <= e - s + 1
    BY <1>1 DEF h, s, e
  <1>5. b \in Nat /\ s <= b /\ b <= a /\ a <= b + n - 1 /\ b + n - 1 <= e
    BY <1>2, <1>4 DEF b, Greater, Smaller
  <1>6. n = e - s + 1 => b = s
    BY <1>2, <1>4 DEF b, Greater, Smaller
  <1>7. b + n - 1 \in Nat
    BY <1>2, <1>5
  <1> QED
    BY <1>2, <1>3, <1>5, <1>6, <1>7 DEF s, e, a

LEMMA BytesAreNatural ==
  ASSUME NEW source \in Sources, NEW a \in Nat, NEW b \in Nat, 1 <= a, b <= Len(source.sizes)
  PROVE  Bytes(source, <<a, b>>) \in Nat
  <1>1. source.sizes \in Seq(Nat)
    BY DEF Sources
  <1>2. Summable(source.sizes, a..b)
    <2>1. IsFiniteSet(a..b)
      BY FS_Interval
    <2>2. \A x \in a..b : source.sizes[x] \in Nat
      BY <1>1
    <2> QED
      BY <2>1, <2>2 DEF Summable
  <1> QED
    BY <1>2, SumIsNatural DEF Bytes

LEMMA CountHolds ==
  ASSUME NEW region, RegionFits(region)
  PROVE  /\ Count(region) \in Nat /\ 1 <= Count(region)
         /\ Count(region) <= region.end - region.start + 1
         /\ Short(region) => Count(region) = region.end - region.start + 1
  BY LimitsFit DEF RegionFits, Count, Smaller, Short

LEMMA ClipHolds ==
  ASSUME NEW region, RegionFits(region), NEW budget \in Nat
  PROVE  LET w == Clip(region, budget)
         IN  /\ w[1] \in Nat /\ w[2] \in Nat /\ w = <<w[1], w[2]>>
             /\ region.start <= w[1] /\ w[1] <= region.anchor
             /\ region.anchor <= w[2] /\ w[2] <= region.end
             /\ Short(region) /\ RegionBytes(region) <= budget =>
                  w = <<region.start, region.end>>
  <1> DEFINE fitting == {n \in 1..Count(region) :
                            Bytes(region.source, Window(region, n)) <= budget}
             n == IF fitting = {} THEN 1 ELSE Max(fitting)
  <1>0. /\ Count(region) \in Nat /\ 1 <= Count(region)
        /\ Count(region) <= region.end - region.start + 1
        /\ Short(region) => Count(region) = region.end - region.start + 1
    BY CountHolds
  <1>1. fitting \in SUBSET Nat /\ IsFiniteSet(fitting) /\ fitting \subseteq 1..Count(region)
    <2>1. IsFiniteSet(1..Count(region))
      BY <1>0, FS_Interval
    <2> QED
      BY <1>0, <2>1, FS_Subset
  <1>2. Clip(region, budget) = Window(region, n)
    BY DEF Clip
  <1>3. fitting # {} => Max(fitting) \in fitting /\ \A m \in fitting : m <= Max(fitting)
    <2> HIDE DEF fitting
    <2>1. SUFFICES ASSUME fitting # {}
                   PROVE  Max(fitting) \in fitting /\ \A m \in fitting : m <= Max(fitting)
      OBVIOUS
    <2>2. PICK x \in fitting : \A m \in fitting : m <= x
      BY <1>1, <2>1, GreatestNumber
    <2>3. \A m \in fitting : x >= m
      BY <1>1, <2>2
    <2>4. Max(fitting) \in fitting /\ \A m \in fitting : Max(fitting) >= m
      BY <2>3 DEF Max
    <2> QED
      BY <1>1, <2>4
  <1>4. n \in 1..Count(region)
    BY <1>0, <1>1, <1>3
  <1>5. Short(region) /\ RegionBytes(region) <= budget => n = Count(region)
    <2> SUFFICES ASSUME Short(region), RegionBytes(region) <= budget PROVE n = Count(region)
      OBVIOUS
    <2>0. region.start \in Nat /\ region.end \in Nat /\ region.start <= region.end
      BY DEF RegionFits
    <2>1. Window(region, Count(region)) = <<region.start, region.end>>
      BY <1>0, WindowHolds
    <2>2. Count(region) \in fitting
      BY <1>0, <2>1 DEF RegionBytes
    <2>3. Count(region) <= n
      BY <1>3, <2>2
    <2> HIDE DEF n
    <2> QED
      BY <1>0, <1>4, <2>3
  <1> HIDE DEF n, fitting
  <1>6. n \in Nat /\ 1 <= n /\ n <= region.end - region.start + 1
    <2>1. region.start \in Nat /\ region.end \in Nat
      BY DEF RegionFits
    <2> QED
      BY <1>0, <1>4, <2>1
  <1> QED
    BY <1>0, <1>2, <1>5, <1>6, WindowHolds

\* The code's loop drops the line that is farther from the anchor; what is left is
\* the window of one line less.
THEOREM DroppingALineIsAWindow ==
  ASSUME NEW region, RegionFits(region), NEW n \in Nat,
         2 <= n, n <= region.end - region.start + 1
  PROVE  LET w == Window(region, n)
         IN  Window(region, n - 1) =
               IF region.anchor - w[1] > w[2] - region.anchor THEN <<w[1] + 1, w[2]>>
               ELSE <<w[1], w[2] - 1>>
  <1> DEFINE s == region.start
             e == region.end
             a == region.anchor
             h == n \div 2
             g == (n - 1) \div 2
             b == Greater(s, Smaller(a - h, e - n + 1))
             c == Greater(s, Smaller(a - g, e - (n - 1) + 1))
  <1>1. h \in Nat /\ g \in Nat /\ h + g = n - 1 /\ (h = g \/ h = g + 1)
    OBVIOUS
  <1>2. s \in Nat /\ e \in Nat /\ a \in Nat /\ s <= a /\ a <= e
    BY DEF RegionFits
  <1>3. Window(region, n) = <<b, b + n - 1>> /\ Window(region, n - 1) = <<c, c + (n - 1) - 1>>
    BY DEF Window
  <1>4. n <= e - s + 1
    OBVIOUS
  <1> HIDE DEF s, e, a, h, g, b, c
  <1>5. b \in Int /\ c \in Int
    BY <1>1, <1>2 DEF b, c, Greater, Smaller
  <1>6. IF a - b > (b + n - 1) - a THEN c = b + 1 ELSE c = b
    BY <1>1, <1>2, <1>4 DEF b, c, Greater, Smaller
  <1>7. CASE a - b > (b + n - 1) - a
    <2>1. c = b + 1 /\ c + (n - 1) - 1 = b + n - 1
      BY <1>5, <1>6, <1>7
    <2> QED
      BY <1>3, <1>7, <2>1 DEF a
  <1>8. CASE ~(a - b > (b + n - 1) - a)
    <2> DEFINE f == b + n - 1
               l == c + (n - 1) - 1
    <2>1. c = b /\ l = f - 1
      BY <1>5, <1>6, <1>8
    <2>2. Window(region, n) = <<b, f>> /\ Window(region, n - 1) = <<b, f - 1>>
      BY <1>3, <2>1
    <2>3. ~(a - b > f - a)
      BY <1>8
    <2> HIDE DEF f, l
    <2> QED
      BY <2>2, <2>3 DEF a
  <1> QED
    BY <1>7, <1>8

\* _snippet's loop as a function of the span it starts with: `loop` is what is left.
IsLoop(loop, region, budget) ==
  \A start \in region.start..region.end : \A end \in start..region.end :
    loop[<<start, end>>] =
      IF Bytes(region.source, <<start, end>>) > budget /\ start < end
      THEN loop[IF region.anchor - start > end - region.anchor THEN <<start + 1, end>>
                ELSE <<start, end - 1>>]
      ELSE <<start, end>>

\* The window Clip would leave of n lines.
Left(region, budget, n) ==
  LET fitting == {m \in 1..n : Bytes(region.source, Window(region, m)) <= budget}
  IN  Window(region, IF fitting = {} THEN 1 ELSE Max(fitting))

LEMMA LeftIsWindow ==
  ASSUME NEW region, NEW budget, NEW n \in Nat, 1 <= n
  PROVE  /\ Bytes(region.source, Window(region, n)) <= budget
              => Left(region, budget, n) = Window(region, n)
         /\ n = 1 => Left(region, budget, n) = Window(region, n)
         /\ ~(Bytes(region.source, Window(region, n)) <= budget) /\ 1 < n
              => Left(region, budget, n) = Left(region, budget, n - 1)
  <1> DEFINE Affords(m) == Bytes(region.source, Window(region, m)) <= budget
             fitting(k) == {m \in 1..k : Affords(m)}
  <1>1. Left(region, budget, n) = Window(region, IF fitting(n) = {} THEN 1 ELSE Max(fitting(n)))
    BY DEF Left
  <1>2. Left(region, budget, n - 1)
          = Window(region, IF fitting(n - 1) = {} THEN 1 ELSE Max(fitting(n - 1)))
    BY DEF Left
  <1> HIDE DEF Affords
  <1>3. Affords(n) => n \in fitting(n) /\ \A m \in fitting(n) : n >= m
    OBVIOUS
  <1>4. Affords(n) => Max(fitting(n)) = n
    <2> SUFFICES ASSUME Affords(n) PROVE Max(fitting(n)) = n
      OBVIOUS
    <2>1. fitting(n) \in SUBSET Nat
      OBVIOUS
    <2> HIDE DEF fitting
    <2>2. Max(fitting(n)) \in fitting(n) /\ \A m \in fitting(n) : Max(fitting(n)) >= m
      BY <1>3 DEF Max
    <2> QED
      BY <1>3, <2>1, <2>2
  <1>5. ~Affords(n) => fitting(n) = fitting(n - 1)
    OBVIOUS
  <1>6. n = 1 /\ ~Affords(n) => fitting(n) = {}
    OBVIOUS
  <1>7. Affords(n) => fitting(n) # {}
    BY <1>3
  <1> HIDE DEF fitting
  <1> QED
    BY <1>1, <1>2, <1>4, <1>5, <1>6, <1>7 DEF Affords

\* Clip is what the whole loop leaves of the lines a region starts with (_snippet).
THEOREM ClipIsTheLoop ==
  ASSUME NEW region, RegionFits(region), NEW budget \in Nat,
         NEW loop, IsLoop(loop, region, budget)
  PROVE  Clip(region, budget) = loop[Window(region, Count(region))]
  <1> DEFINE size == region.end - region.start + 1
             Wrong == {n \in 1..size : loop[Window(region, n)] # Left(region, budget, n)}
  <1>0. /\ Count(region) \in Nat /\ 1 <= Count(region) /\ Count(region) <= size
        /\ region.start \in Nat /\ region.end \in Nat /\ region.anchor \in Nat /\ size \in Nat
    BY CountHolds DEF RegionFits
  <1>1. Clip(region, budget) = Left(region, budget, Count(region))
    BY DEF Clip, Left
  <1>2. ASSUME NEW n \in Wrong, \A m \in Wrong : n <= m
        PROVE  FALSE
    <2> DEFINE w == Window(region, n)
               a == w[1]
               b == w[2]
               narrow == IF region.anchor - a > b - region.anchor THEN <<a + 1, b>> ELSE <<a, b - 1>>
    <2>1. n \in Nat /\ 1 <= n /\ n <= size /\ n \in 1..size
      BY <1>0
    <2>2. /\ a \in Nat /\ b \in Nat /\ w = <<a, b>>
          /\ region.start <= a /\ a <= region.anchor /\ region.anchor <= b /\ b <= region.end
      BY <2>1, WindowHolds
    <2>3. b = a + n - 1
      <3>1. \E c \in Int : w = <<c, c + n - 1>>
        <4>1. Greater(region.start, Smaller(region.anchor - n \div 2, region.end - n + 1)) \in Int
          BY <1>0, <2>1 DEF Greater, Smaller
        <4> QED
          BY <4>1 DEF Window
      <3> QED
        BY <3>1
    <2>4. Bytes(region.source, w) \in Nat
      <3>1. region.source \in Sources /\ 1 <= a /\ b <= Len(region.source.sizes)
        <4>1. region.source.sizes \in Seq(Nat) /\ 1 <= region.start /\ region.end <= Len(region.source.sizes)
              /\ region.source \in Sources
          BY DEF RegionFits, Sources
        <4>2. Len(region.source.sizes) \in Nat
          BY <4>1
        <4> HIDE DEF a, b, w
        <4> QED
          BY SMTT(30), <1>0, <2>2, <4>1, <4>2
      <3> HIDE DEF a, b, w
      <3> QED
        BY <2>2, <3>1, BytesAreNatural
    <2>5. a \in region.start..region.end /\ b \in a..region.end
      <3> HIDE DEF a, b
      <3> QED
        BY <1>0, <2>2
    <2>6. 1 < n => Window(region, n - 1) = narrow
      BY <1>0, <2>1, DroppingALineIsAWindow
    <2> HIDE DEF w, a, b, narrow
    <2>7. loop[w] = IF Bytes(region.source, w) > budget /\ a < b THEN loop[narrow] ELSE w
      <3>1. loop[<<a, b>>] = IF Bytes(region.source, <<a, b>>) > budget /\ a < b THEN loop[narrow] ELSE <<a, b>>
        BY <2>5 DEF IsLoop, narrow
      <3> QED
        BY <2>2, <3>1
    <2>8. loop[w] # Left(region, budget, n)
      BY DEF w
    <2>9. CASE Bytes(region.source, w) <= budget
      <3>1. Left(region, budget, n) = w
        BY <2>1, <2>9, LeftIsWindow DEF w
      <3>2. loop[w] = w
        BY <2>4, <2>7, <2>9
      <3> QED
        BY <2>8, <3>1, <3>2
    <2>10. CASE n = 1
      <3>1. Left(region, budget, n) = w
        BY <2>1, <2>10, LeftIsWindow DEF w
      <3>2. ~(a < b)
        BY <2>2, <2>3, <2>10
      <3> QED
        BY <2>7, <2>8, <3>1, <3>2
    <2>11. CASE ~(Bytes(region.source, w) <= budget) /\ 1 < n
      <3>1. Left(region, budget, n) = Left(region, budget, n - 1)
        BY <2>1, <2>11, LeftIsWindow DEF w
      <3>2. a < b
        BY <2>1, <2>2, <2>3, <2>11
      <3>3. loop[w] = loop[Window(region, n - 1)]
        BY <2>4, <2>6, <2>7, <2>11, <3>2
      <3>4. n - 1 \in 1..size /\ n - 1 < n
        BY <1>0, <2>1, <2>11
      <3>5. n - 1 \notin Wrong
        <4> HIDE DEF Wrong
        <4>1. ASSUME n - 1 \in Wrong PROVE FALSE
          BY <1>2, <2>1, <3>4, <4>1
        <4> QED
          BY <4>1
      <3>6. loop[Window(region, n - 1)] = Left(region, budget, n - 1)
        BY <3>4, <3>5
      <3> QED
        BY <2>8, <3>1, <3>3, <3>6
    <2> QED
      BY <2>1, <2>9, <2>10, <2>11
  <1>3. Wrong = {}
    <2>1. Wrong \in SUBSET Nat
      OBVIOUS
    <2> HIDE DEF Wrong
    <2>2. Wrong # {} => \E n \in Wrong : \A m \in Wrong : n <= m
      BY <2>1, LeastNumber
    <2> QED
      BY <1>2, <2>2
  <1>4. Count(region) \in 1..size
    BY <1>0
  <1> QED
    BY <1>1, <1>3, <1>4

(***************************************************************************)
(* The regions of a context.                                               *)
(***************************************************************************)

\* Inputs as _replay_ makes them, with something to start from.
InputFits(in) ==
  /\ in.path \in Paths /\ in.old \in Paths /\ in.line \in Nat /\ in.related \subseteq Paths
  /\ \A path \in DOMAIN in.head : in.head[path] \in Sources
  /\ \A path \in DOMAIN in.base : in.base[path] \in Sources
  /\ Unreachable(in) = {}

LEMMA StartIsThere ==
  ASSUME NEW in, InputFits(in)
  PROVE  /\ in.path \in DOMAIN in.head /\ in.head[in.path] \in Sources
         /\ in.line \in 1..Len(in.head[in.path].sizes)
  <1>1. CASE in.path \in UnsafePaths
    BY <1>1 DEF InputFits, Unreachable
  <1>2. CASE in.path \notin UnsafePaths /\ in.path \notin DOMAIN in.head
    BY <1>2 DEF InputFits, Unreachable
  <1>3. CASE in.path \notin UnsafePaths /\ in.path \in DOMAIN in.head
    <2>1. Unreachable(in) = IF in.line \in 1..Len(in.head[in.path].sizes) THEN {}
                            ELSE {"head_line_out_of_range"}
      BY <1>3 DEF Unreachable
    <2> QED
      BY <1>3, <2>1 DEF InputFits
  <1> QED
    BY <1>1, <1>2, <1>3

LEMMA HeadSymbolsFit ==
  ASSUME NEW in, InputFits(in)
  PROVE  \A s \in HeadSymbols(in) :
           /\ s \in in.head[in.path].symbols /\ HeadSymbols(in) = {s}
           /\ s.start <= in.line /\ in.line <= s.end
  <1>1. Around(in.head[in.path], in.line) # {} =>
          Enclosing(in.head[in.path], in.line) \in Around(in.head[in.path], in.line)
    BY StartIsThere, EnclosingIsAround DEF InputFits
  <1> QED
    BY <1>1 DEF HeadSymbols, Around

LEMMA HeadRegionFits ==
  ASSUME NEW in, InputFits(in)
  PROVE  /\ RegionFits(HeadRegion(in)) /\ HeadRegion(in).side = "head"
         /\ HeadRegion(in).path = in.path /\ HeadRegion(in).source = in.head[in.path]
  <1> DEFINE source == in.head[in.path]
  <1>0. source \in Sources /\ in.line \in 1..Len(source.sizes) /\ in.line \in Nat /\ in.path \in Paths
        /\ Len(source.sizes) \in Nat
    <2>1. source.sizes \in Seq(Nat)
      BY StartIsThere DEF Sources
    <2> QED
      BY <2>1, StartIsThere DEF InputFits
  <1>1. CASE HeadSymbols(in) = {}
    BY <1>0, <1>1 DEF HeadRegion, Region, RegionFits, Sides
  <1>2. CASE HeadSymbols(in) # {}
    <2> DEFINE s == CHOOSE s \in HeadSymbols(in) : TRUE
    <2>1. s \in HeadSymbols(in)
      BY <1>2
    <2>2. s \in source.symbols /\ s.start <= in.line /\ in.line <= s.end
      BY <2>1, HeadSymbolsFit
    <2>3. s.start \in Nat /\ s.end \in Nat /\ 1 <= s.start /\ s.end <= Len(source.sizes)
      BY <1>0, <2>2, SymbolFits
    <2>4. HeadRegion(in) = [side |-> "head", path |-> in.path, source |-> source,
                            anchor |-> in.line, start |-> s.start, end |-> s.end]
      BY <1>2 DEF HeadRegion, Region
    <2> HIDE DEF s, source
    <2> QED
      BY <1>0, <2>2, <2>3, <2>4 DEF RegionFits, Sides, source
  <1> QED
    BY <1>1, <1>2

LEMMA BaseRegionFits ==
  ASSUME NEW in, InputFits(in), HasBase(in)
  PROVE  /\ RegionFits(BaseRegion(in)) /\ BaseRegion(in).side = "base"
         /\ BaseRegion(in).path = in.old /\ BaseRegion(in).source = in.base[in.old]
  <1> DEFINE source == in.base[in.old]
             n == Len(source.sizes)
  <1>0. /\ source \in Sources /\ source.sizes \in Seq(Nat) /\ source.sizes # <<>>
        /\ in.line \in Nat /\ 1 <= in.line /\ in.old \in Paths
    <2>1. source \in Sources /\ source.sizes # <<>> /\ in.old \in Paths
      BY DEF HasBase, InputFits
    <2>2. source.sizes \in Seq(Nat)
      BY <2>1 DEF Sources
    <2>3. in.line \in Nat /\ 1 <= in.line
      BY StartIsThere DEF InputFits
    <2> QED
      BY <2>1, <2>2, <2>3
  <1>n. n \in Nat /\ 1 <= n
    BY <1>0, EmptySeq
  <1>1. CASE Counterparts(in) = {}
    <2>1. BaseRegion(in) = [side |-> "base", path |-> in.old, source |-> source,
                            anchor |-> Smaller(in.line, n), start |-> 1, end |-> n]
      BY <1>1 DEF BaseRegion, Region
    <2> HIDE DEF source
    <2>2. Smaller(in.line, n) \in 1..n
      BY <1>0, <1>n DEF Smaller
    <2> HIDE DEF n
    <2> QED
      BY <1>0, <1>n, <2>1, <2>2 DEF RegionFits, Sides, source, n
  <1>2. CASE Counterparts(in) # {}
    <2> DEFINE c == CHOOSE s \in Counterparts(in) : TRUE
               s == CHOOSE s \in HeadSymbols(in) : TRUE
               anchor == Smaller(c.end, c.start + in.line - s.start)
    <2>1. c \in Counterparts(in)
      BY <1>2
    <2>2. c \in source.symbols /\ HeadSymbols(in) # {}
      BY <2>1 DEF Counterparts
    <2>3. s \in HeadSymbols(in)
      BY <2>2
    <2>4. s \in in.head[in.path].symbols /\ s.start <= in.line
      BY <2>3, HeadSymbolsFit
    <2>5. s.start \in Nat
      BY <2>4, StartIsThere, SymbolFits
    <2>6. c.start \in Nat /\ c.end \in Nat /\ 1 <= c.start /\ c.start <= c.end /\ c.end <= n
      BY <1>0, <2>2, SymbolFits
    <2>7. BaseRegion(in) = [side |-> "base", path |-> in.old, source |-> source,
                            anchor |-> anchor, start |-> c.start, end |-> c.end]
      BY <1>2 DEF BaseRegion, Region
    <2> HIDE DEF c, s, source
    <2>8. anchor \in Nat /\ c.start <= anchor /\ anchor <= c.end
      BY SMTT(30), <1>0, <2>4, <2>5, <2>6 DEF Smaller
    <2> HIDE DEF n, anchor
    <2> QED
      BY <1>0, <1>n, <2>6, <2>7, <2>8 DEF RegionFits, Sides, source, n
  <1> QED
    BY <1>1, <1>2

LEMMA HelperFits ==
  ASSUME NEW in, InputFits(in), NEW h \in Helpers(in, HeadRegion(in))
  PROVE  /\ h[1] \in DOMAIN in.head /\ h[1] \in Paths /\ h[2] \in in.head[h[1]].symbols
         /\ in.head[h[1]] \in Sources
  BY DEF Helpers, Known, InputFits

LEMMA HelperRegionFits ==
  ASSUME NEW in, InputFits(in), NEW h \in Helpers(in, HeadRegion(in))
  PROVE  /\ RegionFits(HelperRegion(in, h)) /\ HelperRegion(in, h).side = "head"
         /\ HelperRegion(in, h).path = h[1]
  <1>1. /\ h[2].start \in Nat /\ h[2].end \in Nat /\ 1 <= h[2].start
        /\ h[2].start <= h[2].end /\ h[2].end <= Len(in.head[h[1]].sizes)
    BY HelperFits, SymbolFits
  <1>2. HelperRegion(in, h) = [side |-> "head", path |-> h[1], source |-> in.head[h[1]],
                               anchor |-> h[2].start, start |-> h[2].start, end |-> h[2].end]
    <2>1. (CHOOSE s \in {h[2]} : TRUE) = h[2]
      OBVIOUS
    <2> QED
      BY <2>1 DEF HelperRegion, Region
  <1>3. h[1] \in Paths /\ in.head[h[1]] \in Sources
    BY HelperFits
  <1> QED
    BY <1>1, <1>2, <1>3 DEF RegionFits, Sides

\* The helpers taken are among those there are.
LEMMA ChosenAreHelpers ==
  ASSUME NEW in, InputFits(in), NEW called
  PROVE  LET chosen == Chosen(Helpers(in, HeadRegion(in)), called)
         IN  \A i \in DOMAIN chosen : chosen[i] \in Helpers(in, HeadRegion(in))
  <1> DEFINE H == Helpers(in, HeadRegion(in))
             first == Foremost(H, called)
             others == H \ {first}
  <1>1. \A h \in H : \A k \in 1..5 : Rank(called, h)[k] \in Nat
    <2> SUFFICES ASSUME NEW h \in H PROVE \A k \in 1..5 : Rank(called, h)[k] \in Nat
      OBVIOUS
    <2>1. h[2].start \in Nat /\ h[2].end \in Nat /\ PathOrder[h[1]] \in Nat
      BY HelperFits, SymbolFits, LimitsFit
    <2>2. \A a, b, c, d, e \in Nat : \A k \in 1..5 : <<a, b, c, d, e>>[k] \in Nat
      OBVIOUS
    <2> QED
      BY <2>1, <2>2 DEF Rank
  <1>2. H # {} => first \in H
    BY <1>1, ForemostIsOne
  <1>3. others # {} => Foremost(others, called) \in H
    <2> HIDE DEF H, first
    <2>1. \A h \in others : \A k \in 1..5 : Rank(called, h)[k] \in Nat
      BY <1>1
    <2>2. others # {} => Foremost(others, called) \in others
      BY <2>1, ForemostIsOne
    <2> QED
      BY <2>2
  <1>4. Chosen(H, called) = IF H = {} THEN <<>>
                            ELSE IF others = {} THEN <<first>>
                            ELSE <<first, Foremost(others, called)>>
    BY DEF Chosen
  <1> HIDE DEF H, first, others
  <1>5. \A i \in DOMAIN Chosen(H, called) : Chosen(H, called)[i] \in H
    <2>1. CASE H = {}
      BY <1>4, <2>1
    <2>2. CASE H # {} /\ others = {}
      BY <1>2, <1>4, <2>2
    <2>3. CASE H # {} /\ others # {}
      <3> DEFINE second == Foremost(others, called)
      <3>1. first \in H /\ second \in H /\ Chosen(H, called) = <<first, second>>
        BY <1>2, <1>3, <1>4, <2>3
      <3> HIDE DEF second
      <3> QED
        BY <3>1
    <2> QED
      BY <2>1, <2>2, <2>3
  <1> QED
    BY <1>5 DEF H

(***************************************************************************)
(* A snippet more.                                                         *)
(***************************************************************************)

Snips == [side : Sides, path : Paths, start : Nat, end : Nat, bytes : Nat, truncated : BOOLEAN]

\* What can be wrong with a context.
Issues == {"base_symbol", "unsafe_base_path", "missing_base_source", "base_parse_failed",
           "head_parse_failed", "unsafe_related_path", "missing_related_source",
           "line_exceeds_byte_budget", "helper_exceeds_byte_budget"}

Contexts == [snippets : Seq(Snips), issues : SUBSET Issues, truncated : BOOLEAN, left : Nat]

Spent(context) == SumFunction([i \in DOMAIN context.snippets |-> context.snippets[i].bytes])

Shows(snippet, region) ==
  /\ snippet.side = region.side /\ snippet.path = region.path
  /\ region.anchor \in snippet.start..snippet.end

ShownIn(context, region) ==
  \E i \in DOMAIN context.snippets :
    /\ Shows(context.snippets[i], region)
    /\ ~context.truncated => Whole(context.snippets[i], region)

WholeIn(context, region) == \E i \in DOMAIN context.snippets : Whole(context.snippets[i], region)

\* What a context is of some regions.
Holds(context, regions) ==
  /\ context \in Contexts
  /\ Spent(context) + context.left = MaxBytes
  /\ \A i \in DOMAIN context.snippets : \E region \in regions :
       /\ Shows(context.snippets[i], region)
       /\ ~context.truncated => Whole(context.snippets[i], region)

Extends(context, more) ==
  /\ \A i \in DOMAIN context.snippets :
       i \in DOMAIN more.snippets /\ more.snippets[i] = context.snippets[i]
  /\ context.issues \subseteq more.issues
  /\ context.truncated => more.truncated

LEMMA ShownStays ==
  ASSUME NEW context, NEW more, NEW region, Extends(context, more)
  PROVE  /\ ShownIn(context, region) => ShownIn(more, region)
         /\ WholeIn(context, region) => WholeIn(more, region)
  BY DEF Extends, ShownIn, WholeIn

LEMMA ExtendsOn ==
  ASSUME NEW context, NEW more, NEW most, Extends(context, more), Extends(more, most)
  PROVE  Extends(context, most)
  BY DEF Extends

\* What is spent is the bytes of what there was and of the snippet that joins it.
LEMMA SpentGrows ==
  ASSUME NEW snippets \in Seq(Snips), NEW snippet \in Snips
  PROVE  LET more == Append(snippets, snippet)
         IN  SumFunction([i \in DOMAIN more |-> more[i].bytes])
               = SumFunction([i \in DOMAIN snippets |-> snippets[i].bytes]) + snippet.bytes
  <1> DEFINE more == Append(snippets, snippet)
             n == Len(snippets)
             f == [i \in DOMAIN snippets |-> snippets[i].bytes]
             g == [i \in DOMAIN more |-> more[i].bytes]
  <1>1. /\ more \in Seq(Snips) /\ Len(more) = n + 1 /\ n \in Nat
        /\ DOMAIN snippets = 1..n /\ DOMAIN more = 1..(n + 1)
        /\ more[n + 1] = snippet /\ \A i \in 1..n : more[i] = snippets[i]
    BY AppendProperties
  <1>2. /\ \A i \in 1..n : f[i] = snippets[i].bytes /\ g[i] = f[i] /\ g[i] \in Nat
        /\ g[n + 1] = snippet.bytes /\ g[n + 1] \in Nat
    <2>1. \A i \in 1..n : i \in 1..(n + 1) /\ snippets[i] \in Snips
      BY <1>1
    <2>2. n + 1 \in 1..(n + 1)
      BY <1>1
    <2> QED
      BY <1>1, <2>1, <2>2 DEF Snips
  <1>3. IsFiniteSet(1..n) /\ 1..(n + 1) = (1..n) \cup {n + 1} /\ n + 1 \notin 1..n
    <2>1. n \in Nat
      BY <1>1
    <2>2. IsFiniteSet(1..n)
      BY <2>1, FS_Interval
    <2>3. \A k \in Nat : 1..(k + 1) = (1..k) \cup {k + 1} /\ k + 1 \notin 1..k
      OBVIOUS
    <2> HIDE DEF n
    <2> QED
      BY <2>1, <2>2, <2>3
  <1>4. DOMAIN f = 1..n /\ DOMAIN g = 1..(n + 1)
    BY <1>1
  <1> HIDE DEF f, g
  <1>5. Summable(g, 1..n)
    BY <1>2, <1>3 DEF Summable
  <1>6. SumFunctionOnSet(g, (1..n) \cup {n + 1}) = SumFunctionOnSet(g, 1..n) + g[n + 1]
    <2>1. g[n + 1] \in Nat /\ n + 1 \notin 1..n
      BY <1>2, <1>3
    <2> QED
      BY ZenonT(30), <1>5, <2>1, SumWithOne
  <1>7. SumFunctionOnSet(g, 1..n) = SumFunctionOnSet(f, 1..n)
    BY <1>2, <1>5, SumOfEquals
  <1>8. SumFunction(g) = SumFunction(f) + snippet.bytes
    BY <1>2, <1>3, <1>4, <1>6, <1>7 DEF SumFunction
  <1> QED
    BY <1>8 DEF f, g

LEMMA SnippetFits ==
  ASSUME NEW region, RegionFits(region), NEW budget \in Nat
  PROVE  LET snippet == Snippet(region, Clip(region, budget))
         IN  /\ snippet \in Snips /\ Shows(snippet, region)
             /\ ~snippet.truncated => Whole(snippet, region)
             /\ Short(region) /\ RegionBytes(region) <= budget =>
                  Whole(snippet, region) /\ snippet.bytes = RegionBytes(region)
  <1> DEFINE w == Clip(region, budget)
             snippet == Snippet(region, w)
  <1>1. /\ w[1] \in Nat /\ w[2] \in Nat /\ w = <<w[1], w[2]>>
        /\ region.start <= w[1] /\ w[1] <= region.anchor
        /\ region.anchor <= w[2] /\ w[2] <= region.end
        /\ Short(region) /\ RegionBytes(region) <= budget => w = <<region.start, region.end>>
    BY ClipHolds
  <1>2. /\ region.side \in Sides /\ region.path \in Paths /\ region.source \in Sources
        /\ region.start \in Nat /\ region.end \in Nat /\ region.anchor \in Nat
        /\ 1 <= region.start /\ region.end <= Len(region.source.sizes)
        /\ Len(region.source.sizes) \in Nat
    <2>1. region.source.sizes \in Seq(Nat)
      BY DEF RegionFits, Sources
    <2> QED
      BY <2>1 DEF RegionFits
  <1>3. snippet = [side |-> region.side, path |-> region.path, start |-> w[1], end |-> w[2],
                   bytes |-> Bytes(region.source, w),
                   truncated |-> w # <<region.start, region.end>>]
    BY DEF Snippet
  <1> HIDE DEF w
  <1>4. Bytes(region.source, w) \in Nat
    <2>1. 1 <= w[1] /\ w[2] <= Len(region.source.sizes)
      BY <1>1, <1>2
    <2>2. Bytes(region.source, <<w[1], w[2]>>) \in Nat
      BY <1>1, <1>2, <2>1, BytesAreNatural
    <2> QED
      BY <1>1, <2>2
  <1>5. snippet \in Snips
    BY <1>1, <1>2, <1>3, <1>4 DEF Snips
  <1>6. Shows(snippet, region)
    BY <1>1, <1>2, <1>3 DEF Shows
  <1>7. w = <<region.start, region.end>> => Whole(snippet, region)
    BY <1>3 DEF Whole
  <1>8. ~snippet.truncated => Whole(snippet, region)
    <2>1. snippet.truncated = (w # <<region.start, region.end>>)
      BY <1>3
    <2> HIDE DEF snippet
    <2> QED
      BY <1>7, <2>1
  <1>9. Short(region) /\ RegionBytes(region) <= budget => snippet.bytes = RegionBytes(region)
    BY <1>1, <1>3 DEF RegionBytes
  <1> QED
    BY <1>1, <1>5, <1>6, <1>7, <1>8, <1>9 DEF w

LEMMA RegionBytesNatural ==
  ASSUME NEW region, RegionFits(region)
  PROVE  RegionBytes(region) \in Nat /\ Size(region) \in Nat
         /\ (Short(region) => Size(region) = RegionBytes(region))
  <1>1. /\ region.start \in Nat /\ region.end \in Nat /\ 1 <= region.start
        /\ region.end <= Len(region.source.sizes) /\ region.source \in Sources
    BY DEF RegionFits
  <1>2. RegionBytes(region) \in Nat
    BY <1>1, BytesAreNatural DEF RegionBytes
  <1> DEFINE n == Count(region)
             w == Window(region, n)
  <1>3. /\ n \in Nat /\ 1 <= n /\ n <= region.end - region.start + 1
        /\ Short(region) => n = region.end - region.start + 1
    BY CountHolds
  <1> HIDE DEF n
  <1>4. /\ w[1] \in Nat /\ w[2] \in Nat /\ w = <<w[1], w[2]>>
        /\ region.start <= w[1] /\ w[2] <= region.end
        /\ Short(region) => w = <<region.start, region.end>>
    BY <1>3, WindowHolds
  <1>5. Size(region) = Bytes(region.source, w)
    BY DEF Size, n
  <1> HIDE DEF w
  <1>6. Bytes(region.source, <<w[1], w[2]>>) \in Nat
    <2>1. region.source.sizes \in Seq(Nat)
      BY <1>1 DEF Sources
    <2>2. 1 <= w[1] /\ w[2] <= Len(region.source.sizes)
      BY <1>1, <1>4, <2>1
    <2> QED
      BY <1>1, <1>4, <2>2, BytesAreNatural
  <1> QED
    BY <1>2, <1>4, <1>5, <1>6 DEF RegionBytes

LEMMA AddEffect ==
  ASSUME NEW context, NEW regions, Holds(context, regions),
         NEW region, RegionFits(region), NEW budget \in Nat, budget <= context.left,
         NEW loss \in Issues
  PROVE  LET more == Add(context, region, budget, loss)
         IN  /\ Holds(more, regions \cup {region}) /\ Extends(context, more)
             /\ more.left >= context.left - budget
             /\ loss \in more.issues \/ ShownIn(more, region)
             /\ Short(region) /\ RegionBytes(region) <= budget =>
                  WholeIn(more, region) /\ more.left = context.left - RegionBytes(region)
  <1> DEFINE snippet == Snippet(region, Clip(region, budget))
             more == Add(context, region, budget, loss)
  <1>0. context \in Contexts
    BY DEF Holds
  <1>1. /\ snippet \in Snips /\ Shows(snippet, region)
        /\ ~snippet.truncated => Whole(snippet, region)
        /\ Short(region) /\ RegionBytes(region) <= budget =>
             Whole(snippet, region) /\ snippet.bytes = RegionBytes(region)
    BY SnippetFits
  <1>2. more = Join(context, snippet, budget, loss)
    BY DEF Add
  <1> HIDE DEF snippet, more
  <1>3. snippet.bytes \in Nat /\ snippet.truncated \in BOOLEAN
    BY <1>1 DEF Snips
  <1>c. /\ context.snippets \in Seq(Snips) /\ context.issues \in SUBSET Issues
        /\ context.truncated \in BOOLEAN /\ context.left \in Nat
    BY <1>0 DEF Contexts
  <1>4. CASE snippet.bytes > budget
    <2>1. /\ more.snippets = context.snippets /\ more.issues = context.issues \cup {loss}
          /\ more.truncated = TRUE /\ more.left = context.left /\ more \in Contexts
      BY <1>0, <1>2, <1>4, <1>c DEF Join, Contexts
    <2>2. Holds(more, regions \cup {region})
      BY <2>1 DEF Holds, Spent
    <2>3. Extends(context, more)
      BY <2>1 DEF Extends
    <2>4. ~(Short(region) /\ RegionBytes(region) <= budget)
      BY <1>1, <1>3, <1>4
    <2>5. more.left >= context.left - budget
      BY <1>c, <2>1
    <2> QED
      BY <2>1, <2>2, <2>3, <2>4, <2>5 DEF more
  <1>5. CASE ~(snippet.bytes > budget)
    <2> DEFINE longer == Append(context.snippets, snippet)
    <2>0. snippet.bytes <= budget /\ context.left - snippet.bytes \in Nat
      BY <1>3, <1>5, <1>c
    <2>a. /\ longer \in Seq(Snips) /\ Len(context.snippets) + 1 \in DOMAIN longer
          /\ longer[Len(context.snippets) + 1] = snippet
          /\ \A i \in DOMAIN context.snippets :
               i \in DOMAIN longer /\ longer[i] = context.snippets[i]
          /\ \A i \in DOMAIN longer :
               i \in DOMAIN context.snippets \/ i = Len(context.snippets) + 1
      BY <1>1, <1>c, Appended
    <2>b. /\ more.snippets = longer /\ more.issues = context.issues
          /\ more.truncated = (context.truncated \/ snippet.truncated)
          /\ more.left = context.left - snippet.bytes /\ DOMAIN more = DOMAIN context
      BY <1>0, <1>2, <1>5 DEF Join, Contexts
    <2>d. more = [snippets |-> longer, issues |-> context.issues,
                  truncated |-> context.truncated \/ snippet.truncated,
                  left |-> context.left - snippet.bytes]
      BY <1>0, <1>2, <1>5 DEF Join, Contexts
    <2>c. Spent(more) = Spent(context) + snippet.bytes
      BY <1>1, <1>c, <2>b, SpentGrows DEF Spent
    <2> HIDE DEF longer
    <2>1. more \in Contexts
      <3>1. (context.truncated \/ snippet.truncated) \in BOOLEAN
        BY <1>c, <1>3
      <3> QED
        BY <1>c, <2>0, <2>a, <2>d, <3>1 DEF Contexts
    <2>2. Extends(context, more)
      BY <2>a, <2>b DEF Extends
    <2>3. ShownIn(more, region)
      BY <1>1, <2>a, <2>b DEF ShownIn
    <2>4. ASSUME NEW i \in DOMAIN more.snippets
          PROVE  \E r \in regions \cup {region} :
                   /\ Shows(more.snippets[i], r)
                   /\ ~more.truncated => Whole(more.snippets[i], r)
      <3>1. CASE i = Len(context.snippets) + 1
        BY <1>1, <2>a, <2>b, <3>1
      <3>2. CASE i \in DOMAIN context.snippets
        <4>1. PICK r \in regions :
                /\ Shows(context.snippets[i], r)
                /\ ~context.truncated => Whole(context.snippets[i], r)
          BY <3>2 DEF Holds
        <4> QED
          BY <2>a, <2>b, <3>2, <4>1
      <3> QED
        BY <2>a, <2>b, <3>1, <3>2
    <2>5. Spent(more) + more.left = MaxBytes
      <3>1. Spent(context) + context.left = MaxBytes /\ Spent(context) \in Nat
        <4>1. Summable([i \in DOMAIN context.snippets |-> context.snippets[i].bytes],
                       DOMAIN context.snippets)
          <5>1. IsFiniteSet(DOMAIN context.snippets)
            <6>1. DOMAIN context.snippets = 1..Len(context.snippets) /\ Len(context.snippets) \in Nat
              BY <1>c
            <6> QED
              BY <6>1, FS_Interval
          <5>2. \A i \in DOMAIN context.snippets : context.snippets[i] \in Snips
            BY <1>c
          <5> QED
            BY <5>1, <5>2 DEF Summable, Snips
        <4> QED
          BY <4>1, SumIsNatural DEF Holds, Spent, SumFunction
      <3> QED
        BY <1>3, <1>c, <2>b, <2>c, <3>1
    <2>6. Holds(more, regions \cup {region})
      BY <2>1, <2>4, <2>5 DEF Holds
    <2>7. more.left >= context.left - budget
      BY <1>3, <1>c, <2>0, <2>b
    <2>8. Short(region) /\ RegionBytes(region) <= budget =>
            WholeIn(more, region) /\ more.left = context.left - RegionBytes(region)
      BY <1>1, <2>a, <2>b DEF WholeIn
    <2> QED
      BY <2>2, <2>3, <2>6, <2>7, <2>8 DEF more
  <1> QED
    BY <1>4, <1>5

(***************************************************************************)
(* The whole context.                                                      *)
(***************************************************************************)

LEMMA PrimaryIs ==
  ASSUME NEW in, InputFits(in)
  PROVE  /\ HasBase(in) /\ ~BaseFails(in) =>
              Primary(in) = <<HeadRegion(in), BaseRegion(in)>>
              /\ ToSet(Primary(in)) = {HeadRegion(in), BaseRegion(in)}
              /\ HeadRegion(in) # BaseRegion(in)
         /\ ~(HasBase(in) /\ ~BaseFails(in)) =>
              Primary(in) = <<HeadRegion(in)>> /\ ToSet(Primary(in)) = {HeadRegion(in)}
  <1>1. ASSUME HasBase(in) PROVE HeadRegion(in) # BaseRegion(in)
    BY <1>1, HeadRegionFits, BaseRegionFits
  <1>2. \A a, b : DOMAIN <<a, b>> = {1, 2} /\ ToSet(<<a, b>>) = {a, b} /\ ToSet(<<a>>) = {a}
    BY DEF ToSet
  <1> QED
    BY <1>1, <1>2 DEF Primary

LEMMA StartsEmpty ==
  ASSUME NEW issues \in SUBSET Issues
  PROVE  Holds(Empty(issues), {})
  <1>1. Empty(issues) \in Contexts
    BY LimitsFit, EmptySeq DEF Empty, Contexts
  <1>2. Spent(Empty(issues)) = 0
    BY SumOfNone DEF Spent, SumFunction, Empty
  <1>3. DOMAIN Empty(issues).snippets = {} /\ Empty(issues).left = MaxBytes
    BY DEF Empty
  <1> QED
    BY <1>1, <1>2, <1>3, LimitsFit DEF Holds

LEMMA GapsAreIssues == ASSUME NEW in PROVE Gaps(in) \in SUBSET Issues
  <1>1. BaseIssues(in) \in SUBSET Issues
    BY DEF BaseIssues, Issues
  <1> QED
    BY <1>1 DEF Gaps, Issues

LEMMA HalfFits == MaxBytes \div 2 \in Nat /\ 2 * (MaxBytes \div 2) <= MaxBytes
  BY LimitsFit

PrimaryContext(in) == AddPrimary(Empty(Gaps(in)), Primary(in))

HelperRegions(in) == {HelperRegion(in, h) : h \in Helpers(in, HeadRegion(in))}

Lost == "line_exceeds_byte_budget"

\* What a region may count on: half of the bytes, or all that the other leaves.
Fits(in, region) ==
  /\ Short(region)
  /\ \/ RegionBytes(region) <= MaxBytes \div 2
     \/ /\ \A r \in ToSet(Primary(in)) : Short(r)
        /\ SumFunction([r \in ToSet(Primary(in)) |-> RegionBytes(r)]) <= MaxBytes

LEMMA BytesOfBoth ==
  ASSUME NEW in, InputFits(in), HasBase(in), ~BaseFails(in)
  PROVE  SumFunction([r \in ToSet(Primary(in)) |-> RegionBytes(r)])
           = RegionBytes(HeadRegion(in)) + RegionBytes(BaseRegion(in))
  <1> DEFINE h == HeadRegion(in)
             b == BaseRegion(in)
             f == [r \in ToSet(Primary(in)) |-> RegionBytes(r)]
  <1>1. ToSet(Primary(in)) = {h} \cup {b} /\ h # b
    BY PrimaryIs
  <1>2. RegionBytes(h) \in Nat /\ RegionBytes(b) \in Nat
    BY HeadRegionFits, BaseRegionFits, RegionBytesNatural
  <1>3. DOMAIN f = {h} \cup {b} /\ f[h] = RegionBytes(h) /\ f[b] = RegionBytes(b)
    BY <1>1
  <1> HIDE DEF f, h, b
  <1>4. Summable(f, {}) /\ Summable(f, {h}) /\ h \notin {} /\ b \notin {h}
    BY <1>1, <1>2, <1>3, FS_EmptySet, FS_Singleton DEF Summable
  <1>5. SumFunctionOnSet(f, {} \cup {h}) = SumFunctionOnSet(f, {}) + f[h]
    BY <1>2, <1>3, <1>4, SumWithOne, Zenon
  <1>6. SumFunctionOnSet(f, {h} \cup {b}) = SumFunctionOnSet(f, {h}) + f[b]
    BY <1>2, <1>3, <1>4, SumWithOne, Zenon
  <1>7. {} \cup {h} = {h}
    OBVIOUS
  <1>8. SumFunctionOnSet(f, {h}) = f[h]
    BY <1>2, <1>3, <1>5, <1>7, SumOfNone
  <1> QED
    BY <1>3, <1>6, <1>8 DEF SumFunction, f, h, b

LEMMA BytesOfHead ==
  ASSUME NEW in, InputFits(in), ~(HasBase(in) /\ ~BaseFails(in))
  PROVE  SumFunction([r \in ToSet(Primary(in)) |-> RegionBytes(r)]) = RegionBytes(HeadRegion(in))
  <1> DEFINE h == HeadRegion(in)
             f == [r \in ToSet(Primary(in)) |-> RegionBytes(r)]
  <1>1. ToSet(Primary(in)) = {h}
    BY PrimaryIs
  <1>2. RegionBytes(h) \in Nat
    BY HeadRegionFits, RegionBytesNatural
  <1>3. DOMAIN f = {h} /\ f[h] = RegionBytes(h)
    BY <1>1
  <1> HIDE DEF f, h
  <1>4. Summable(f, {}) /\ h \notin {}
    BY FS_EmptySet DEF Summable
  <1>5. SumFunctionOnSet(f, {} \cup {h}) = SumFunctionOnSet(f, {}) + f[h]
    BY <1>2, <1>3, <1>4, SumWithOne, Zenon
  <1>7. {} \cup {h} = {h}
    OBVIOUS
  <1> QED
    BY <1>2, <1>3, <1>5, <1>7, SumOfNone DEF SumFunction, f, h

\* After the primary regions each is shown or missed, and shown whole if it fits.
LEMMA PrimaryHolds ==
  ASSUME NEW in, InputFits(in)
  PROVE  LET context == PrimaryContext(in)
         IN  /\ Holds(context, ToSet(Primary(in))) /\ Gaps(in) \subseteq context.issues
             /\ \A region \in ToSet(Primary(in)) :
                  /\ Lost \in context.issues \/ ShownIn(context, region)
                  /\ Fits(in, region) => WholeIn(context, region)
  <1> DEFINE h == HeadRegion(in)
             b == BaseRegion(in)
             empty == Empty(Gaps(in))
             budget == HeadBudget(Primary(in))
             one == Add(empty, h, budget, Lost)
             two == AddRest(one, b, Lost)
  <1>1. Holds(empty, {}) /\ empty.left = MaxBytes /\ empty.issues = Gaps(in)
    BY StartsEmpty, GapsAreIssues DEF Empty
  <1>2. RegionFits(h) /\ RegionBytes(h) \in Nat
    BY HeadRegionFits, RegionBytesNatural
  <1>3. Lost \in Issues
    BY DEF Lost, Issues
  <1>4. MaxBytes \in Nat
    BY LimitsFit
  <1>5. CASE ~(HasBase(in) /\ ~BaseFails(in))
    <2>1. Primary(in) = <<h>> /\ ToSet(Primary(in)) = {h}
      BY <1>5, PrimaryIs
    <2>2. budget = MaxBytes /\ PrimaryContext(in) = one
      BY <2>1 DEF HeadBudget, PrimaryContext, AddPrimary, Lost
    <2>3. Fits(in, h) => Short(h) /\ RegionBytes(h) <= budget
      <3>1. SumFunction([r \in ToSet(Primary(in)) |-> RegionBytes(r)]) = RegionBytes(h)
        BY <1>5, BytesOfHead
      <3> QED
        BY <1>2, <1>4, <2>2, <3>1, HalfFits DEF Fits
    <2> HIDE DEF h, empty, budget
    <2>4. /\ Holds(one, {} \cup {h}) /\ Extends(empty, one)
          /\ Lost \in one.issues \/ ShownIn(one, h)
          /\ Short(h) /\ RegionBytes(h) <= budget => WholeIn(one, h)
      <3>1. budget \in Nat /\ budget <= empty.left
        BY <1>1, <1>4, <2>2
      <3> QED
        BY <1>1, <1>2, <1>3, <3>1, AddEffect
    <2>5. {} \cup {h} = {h}
      OBVIOUS
    <2> HIDE DEF one
    <2>6. Holds(one, ToSet(Primary(in))) /\ Gaps(in) \subseteq one.issues
      BY <1>1, <2>1, <2>4, <2>5 DEF Extends
    <2> QED
      BY <2>1, <2>2, <2>3, <2>4, <2>6
  <1>6. CASE HasBase(in) /\ ~BaseFails(in)
    <2>1. Primary(in) = <<h, b>> /\ ToSet(Primary(in)) = {h, b}
      BY <1>6, PrimaryIs
    <2>2. RegionFits(b) /\ RegionBytes(b) \in Nat /\ Size(b) \in Nat
          /\ (Short(b) => Size(b) = RegionBytes(b))
      BY <1>6, BaseRegionFits, RegionBytesNatural
    <2>3. budget = MaxBytes - Smaller(Size(b), MaxBytes \div 2) /\ PrimaryContext(in) = two
      BY <2>1 DEF HeadBudget, PrimaryContext, AddPrimary, Lost
    <2>4. budget \in Nat /\ budget <= MaxBytes /\ MaxBytes \div 2 <= budget
      <3> HIDE DEF budget
      <3> QED
        BY <1>4, <2>2, <2>3, HalfFits DEF Smaller
    <2>5. SumFunction([r \in ToSet(Primary(in)) |-> RegionBytes(r)])
            = RegionBytes(h) + RegionBytes(b)
      BY <1>6, BytesOfBoth
    <2> HIDE DEF h, b, empty, budget
    <2>6. Fits(in, h) => Short(h) /\ RegionBytes(h) <= budget
      <3>1. CASE RegionBytes(h) <= MaxBytes \div 2
        BY <1>2, <1>4, <2>4, <3>1, HalfFits DEF Fits
      <3>2. ASSUME Short(b), RegionBytes(h) + RegionBytes(b) <= MaxBytes
            PROVE  RegionBytes(h) <= budget
        BY <1>2, <1>4, <2>2, <2>3, <3>2, HalfFits DEF Smaller
      <3> QED
        BY <2>1, <2>5, <3>1, <3>2 DEF Fits
    <2>7. /\ Holds(one, {} \cup {h}) /\ Extends(empty, one)
          /\ one.left >= empty.left - budget
          /\ Lost \in one.issues \/ ShownIn(one, h)
          /\ Short(h) /\ RegionBytes(h) <= budget =>
               WholeIn(one, h) /\ one.left = empty.left - RegionBytes(h)
      BY <1>1, <1>2, <1>3, <1>4, <2>4, AddEffect
    <2>8. one.left \in Nat
      BY <2>7 DEF Holds, Contexts
    <2>9. two = Add(one, b, one.left, Lost)
      BY DEF AddRest
    <2> HIDE DEF one, two
    <2>10. /\ Holds(two, ({} \cup {h}) \cup {b}) /\ Extends(one, two)
           /\ Lost \in two.issues \/ ShownIn(two, b)
           /\ Short(b) /\ RegionBytes(b) <= one.left => WholeIn(two, b)
      <3>1. Holds(one, {} \cup {h}) /\ RegionFits(b)
        BY <2>2, <2>7
      <3>2. one.left \in Nat /\ one.left <= one.left
        BY <2>8
      <3> QED
        BY <1>3, <2>9, <3>1, <3>2, AddEffect
    <2>11. Fits(in, b) => Short(b) /\ RegionBytes(b) <= one.left
      <3> SUFFICES ASSUME Fits(in, b) PROVE Short(b) /\ RegionBytes(b) <= one.left
        OBVIOUS
      <3>0. Short(b) /\ Size(b) = RegionBytes(b) /\ one.left >= MaxBytes - budget
        BY <1>1, <2>2, <2>7 DEF Fits
      <3>1. CASE RegionBytes(b) <= MaxBytes \div 2
        BY <1>4, <2>2, <2>3, <2>4, <2>8, <3>0, <3>1, HalfFits DEF Smaller
      <3>2. CASE ~(RegionBytes(b) <= MaxBytes \div 2)
        <4>1. Short(h) /\ RegionBytes(h) + RegionBytes(b) <= MaxBytes
          BY <2>1, <2>5, <3>2 DEF Fits
        <4>2. Fits(in, h)
          BY <2>1, <2>5, <3>2 DEF Fits
        <4>3. one.left = MaxBytes - RegionBytes(h)
          BY <1>1, <2>6, <2>7, <4>2
        <4> QED
          BY <1>2, <1>4, <2>2, <2>8, <3>0, <4>1, <4>3
      <3> QED
        BY <3>1, <3>2
    <2>12. ({} \cup {h}) \cup {b} = ToSet(Primary(in))
      BY <2>1
    <2>13. /\ Lost \in two.issues \/ ShownIn(two, h)
           /\ Fits(in, h) => WholeIn(two, h)
      BY <2>6, <2>7, <2>10, ShownStays DEF Extends
    <2>14. Gaps(in) \subseteq two.issues
      BY <1>1, <2>7, <2>10 DEF Extends
    <2> QED
      BY <2>1, <2>3, <2>10, <2>11, <2>12, <2>13, <2>14
  <1> QED
    BY <1>5, <1>6

\* A context of some regions is one of more.
LEMMA HoldsOfMore ==
  ASSUME NEW context, NEW some, NEW more, Holds(context, some), some \subseteq more
  PROVE  Holds(context, more)
  <1>1. ASSUME NEW i \in DOMAIN context.snippets
        PROVE  \E region \in more :
                 /\ Shows(context.snippets[i], region)
                 /\ ~context.truncated => Whole(context.snippets[i], region)
    <2>1. PICK region \in some :
            /\ Shows(context.snippets[i], region)
            /\ ~context.truncated => Whole(context.snippets[i], region)
      BY DEF Holds
    <2> QED
      BY <2>1
  <1> QED
    BY <1>1 DEF Holds

LEMMA ExtendsItself == ASSUME NEW context PROVE Extends(context, context)
  BY DEF Extends

WithHelper(context, in, chosen, i) ==
  IF i \notin DOMAIN chosen THEN context
  ELSE AddRest(context, HelperRegion(in, chosen[i]), "helper_exceeds_byte_budget")

\* A helper takes nothing away from what is shown.
LEMMA HelperEffect ==
  ASSUME NEW in, InputFits(in), NEW context, NEW regions, Holds(context, regions), NEW i,
         NEW chosen, \A j \in DOMAIN chosen : chosen[j] \in Helpers(in, HeadRegion(in))
  PROVE  LET more == WithHelper(context, in, chosen, i)
         IN  Holds(more, regions \cup HelperRegions(in)) /\ Extends(context, more)
  <1> DEFINE more == WithHelper(context, in, chosen, i)
             all == regions \cup HelperRegions(in)
  <1>1. CASE i \notin DOMAIN chosen
    <2>1. more = context
      BY <1>1 DEF WithHelper
    <2>2. Holds(context, all)
      BY HoldsOfMore
    <2> QED
      BY <2>1, <2>2, ExtendsItself
  <1>2. CASE i \in DOMAIN chosen
    <2> DEFINE region == HelperRegion(in, chosen[i])
               loss == "helper_exceeds_byte_budget"
    <2>1. RegionFits(region) /\ region \in HelperRegions(in)
      BY <1>2, HelperRegionFits DEF HelperRegions
    <2>2. more = Add(context, region, context.left, loss)
      BY <1>2 DEF WithHelper, AddRest
    <2>3. loss \in Issues
      BY DEF Issues
    <2> HIDE DEF region, loss, more
    <2>4. context.left \in Nat /\ context.left <= context.left
      BY DEF Holds, Contexts
    <2>5. Holds(more, regions \cup {region}) /\ Extends(context, more)
      BY <2>1, <2>2, <2>3, <2>4, AddEffect
    <2>6. regions \cup {region} \subseteq all
      BY <2>1
    <2>7. Holds(more, all)
      BY <2>5, <2>6, HoldsOfMore
    <2> QED
      BY <2>5, <2>7 DEF more
  <1> QED
    BY <1>1, <1>2

\* What the context of a finding is, whatever it has to be cut to.
LEMMA ContextHolds ==
  ASSUME NEW in, InputFits(in)
  PROVE  LET context == Context(in)
         IN  /\ Holds(context, ToSet(Primary(in)) \cup HelperRegions(in))
             /\ \A region \in ToSet(Primary(in)) :
                  /\ Lost \in context.issues \/ ShownIn(context, region)
                  /\ Fits(in, region) => WholeIn(context, region)
  <1> DEFINE primary == PrimaryContext(in)
             regions == ToSet(Primary(in))
             chosen == Chosen(Helpers(in, HeadRegion(in)), Called(HeadRegion(in)))
             one == WithHelper(primary, in, chosen, 1)
             two == WithHelper(one, in, chosen, 2)
  <1>1. Context(in) = two
    BY DEF Context, AddHelpers, WithHelper, InputFits, PrimaryContext
  <1>2. /\ Holds(primary, regions)
        /\ \A region \in regions :
             /\ Lost \in primary.issues \/ ShownIn(primary, region)
             /\ Fits(in, region) => WholeIn(primary, region)
    BY PrimaryHolds
  <1>3. \A j \in DOMAIN chosen : chosen[j] \in Helpers(in, HeadRegion(in))
    BY ChosenAreHelpers
  <1> HIDE DEF primary, regions, chosen
  <1>4. Holds(one, regions \cup HelperRegions(in)) /\ Extends(primary, one)
    BY <1>2, <1>3, HelperEffect
  <1> HIDE DEF one
  <1>5. /\ Holds(two, (regions \cup HelperRegions(in)) \cup HelperRegions(in))
        /\ Extends(one, two)
    BY <1>3, <1>4, HelperEffect
  <1>6. (regions \cup HelperRegions(in)) \cup HelperRegions(in) = regions \cup HelperRegions(in)
    OBVIOUS
  <1> HIDE DEF two
  <1>7. Extends(primary, two)
    BY <1>4, <1>5, ExtendsOn
  <1>8. ASSUME NEW region \in regions
        PROVE  /\ Lost \in two.issues \/ ShownIn(two, region)
               /\ Fits(in, region) => WholeIn(two, region)
    <2>1. primary.issues \subseteq two.issues
      BY <1>7 DEF Extends
    <2>2. /\ ShownIn(primary, region) => ShownIn(two, region)
          /\ WholeIn(primary, region) => WholeIn(two, region)
      BY <1>7, ShownStays
    <2> QED
      BY <1>2, <2>1, <2>2
  <1> QED
    BY <1>1, <1>5, <1>6, <1>8 DEF regions

\* Without an issue a context has a snippet of the base, so there are two primary regions.
LEMMA BothSidesArePrimary ==
  ASSUME NEW in, InputFits(in),
         NEW i \in DOMAIN Context(in).snippets, Context(in).snippets[i].side # "head"
  PROVE  /\ HasBase(in) /\ ~BaseFails(in)
         /\ Cardinality(ToSet(Primary(in))) = 2
  <1>1. PICK region \in ToSet(Primary(in)) \cup HelperRegions(in) :
          Shows(Context(in).snippets[i], region)
    BY ContextHolds DEF Holds
  <1>2. region.side # "head"
    BY <1>1 DEF Shows
  <1>3. region \notin HelperRegions(in)
    BY <1>2, HelperRegionFits DEF HelperRegions
  <1>4. HeadRegion(in).side = "head"
    BY HeadRegionFits
  <1>5. HasBase(in) /\ ~BaseFails(in)
    BY <1>1, <1>2, <1>3, <1>4, PrimaryIs
  <1>6. /\ ToSet(Primary(in)) = {HeadRegion(in)} \cup {BaseRegion(in)}
        /\ HeadRegion(in) # BaseRegion(in)
    BY <1>5, PrimaryIs
  <1>7. Cardinality(ToSet(Primary(in))) = 2
    <2> DEFINE a == HeadRegion(in)
               b == BaseRegion(in)
    <2>1. a # b
      BY <1>6
    <2> HIDE DEF a, b
    <2>2. IsFiniteSet({a}) /\ Cardinality({a}) = 1 /\ b \notin {a}
      BY <2>1, FS_Singleton
    <2>3. Cardinality({a} \cup {b}) = Cardinality({a}) + 1
      BY <2>2, FS_AddElement
    <2>4. Cardinality({a} \cup {b}) = 2
      BY <2>2, <2>3
    <2> QED
      BY <1>6, <2>4 DEF a, b
  <1> QED
    BY <1>5, <1>7

LEMMA SpentIsNatural == ASSUME NEW context \in Contexts PROVE Spent(context) \in Nat
  <1>1. context.snippets \in Seq(Snips)
    BY DEF Contexts
  <1>2. Summable([i \in DOMAIN context.snippets |-> context.snippets[i].bytes],
                 DOMAIN context.snippets)
    <2>1. IsFiniteSet(DOMAIN context.snippets)
      <3>1. DOMAIN context.snippets = 1..Len(context.snippets) /\ Len(context.snippets) \in Nat
        BY <1>1
      <3> QED
        BY <3>1, FS_Interval
    <2>2. \A i \in DOMAIN context.snippets : context.snippets[i] \in Snips
      BY <1>1
    <2> QED
      BY <2>1, <2>2 DEF Summable, Snips
  <1> QED
    BY <1>2, SumIsNatural DEF Spent, SumFunction

InContext(in) == NeedingBase(Context(in))

\* Needing the base changes a context's issues alone.
LEMMA NeedingBaseKeeps ==
  ASSUME NEW in, InputFits(in)
  PROVE  LET context == Context(in)
             more == InContext(in)
         IN  /\ more.snippets = context.snippets /\ more.truncated = context.truncated
             /\ more.issues = {} => context.issues = {}
             /\ more.issues = {} => \E i \in DOMAIN context.snippets : context.snippets[i].side # "head"
  <1> DEFINE context == Context(in)
  <1>1. context \in Contexts
    BY ContextHolds DEF Holds
  <1> HIDE DEF context
  <1>2. LET more == NeedingBase(context)
        IN  /\ more.snippets = context.snippets /\ more.truncated = context.truncated
            /\ more.issues = {} => context.issues = {}
            /\ more.issues = {} => \E i \in DOMAIN context.snippets : context.snippets[i].side # "head"
    BY <1>1 DEF NeedingBase, Contexts
  <1> QED
    BY <1>2 DEF context, InContext

\* What build_candidate_context promises of every input it can start from.
THEOREM ContextsAreWhole ==
  ASSUME NEW in, InputFits(in)
  PROVE  IsWhole(in, InContext(in), ToSet(Primary(in)), ToSet(InContext(in).snippets))
  <1> DEFINE context == InContext(in)
             primary == ToSet(Primary(in))
             shown == ToSet(InContext(in).snippets)
  <1>1. /\ context.snippets = Context(in).snippets /\ context.truncated = Context(in).truncated
        /\ context.issues = {} => Context(in).issues = {}
        /\ context.issues = {} => \E i \in DOMAIN Context(in).snippets : Context(in).snippets[i].side # "head"
    BY NeedingBaseKeeps
  <1>2. /\ Context(in) \in Contexts /\ Spent(Context(in)) + Context(in).left = MaxBytes
        /\ \A i \in DOMAIN Context(in).snippets : \E region \in primary \cup HelperRegions(in) :
             /\ Shows(Context(in).snippets[i], region)
             /\ ~Context(in).truncated => Whole(Context(in).snippets[i], region)
    BY ContextHolds DEF Holds
  <1>3. \A region \in primary :
          /\ Lost \in Context(in).issues \/ ShownIn(Context(in), region)
          /\ Fits(in, region) => WholeIn(Context(in), region)
    BY ContextHolds
  <1>4. shown = {context.snippets[i] : i \in DOMAIN context.snippets}
    BY DEF ToSet
  <1>5. SumFunction([i \in DOMAIN context.snippets |-> context.snippets[i].bytes]) <= MaxBytes
    <2>1. Spent(Context(in)) \in Nat /\ Context(in).left \in Nat
      BY <1>2, SpentIsNatural DEF Contexts
    <2>2. Spent(Context(in)) <= MaxBytes
      BY <1>2, <2>1, LimitsFit
    <2> QED
      BY <1>1, <2>2 DEF Spent
  <1>6. context.issues = {} => Cardinality(primary) = 2
    BY <1>1, BothSidesArePrimary
  <1> HIDE DEF context, primary, shown
  <1>7. ASSUME NEW region \in primary, Short(region),
               \/ RegionBytes(region) <= MaxBytes \div 2
               \/ /\ \A r \in primary : Short(r)
                  /\ SumFunction([r \in primary |-> RegionBytes(r)]) <= MaxBytes
        PROVE  \E snippet \in shown : Whole(snippet, region)
    <2>1. Fits(in, region)
      BY <1>7 DEF Fits, primary
    <2>2. WholeIn(Context(in), region)
      BY <1>3, <2>1
    <2> QED
      BY <1>1, <1>4, <2>2 DEF WholeIn
  <1>8. ASSUME NEW snippet \in shown
        PROVE  \E region \in primary \cup {HelperRegion(in, h) : h \in Helpers(in, HeadRegion(in))} :
                 /\ snippet.side = region.side /\ snippet.path = region.path
                 /\ region.anchor \in snippet.start..snippet.end
                 /\ ~context.truncated => Whole(snippet, region)
    <2>1. PICK i \in DOMAIN Context(in).snippets : snippet = Context(in).snippets[i]
      BY <1>1, <1>4
    <2>2. PICK region \in primary \cup HelperRegions(in) :
            /\ Shows(Context(in).snippets[i], region)
            /\ ~Context(in).truncated => Whole(Context(in).snippets[i], region)
      BY <1>2
    <2> QED
      BY <1>1, <2>1, <2>2 DEF Shows, HelperRegions
  <1>9. ASSUME context.issues = {}, NEW region \in primary
        PROVE  \E snippet \in shown :
                 /\ snippet.side = region.side /\ snippet.path = region.path
                 /\ region.anchor \in snippet.start..snippet.end
    <2>1. ShownIn(Context(in), region)
      BY <1>1, <1>3, <1>9
    <2> QED
      BY <1>1, <1>4, <2>1 DEF ShownIn, Shows
  <1>10. IsWhole(in, context, primary, shown)
    BY <1>5, <1>6, <1>7, <1>8, <1>9 DEF IsWhole
  <1> QED
    BY <1>10 DEF context, primary, shown

(***************************************************************************)
(* What a replay reads, and whom it asks.                                  *)
(***************************************************************************)

\* Where a case's sources are from.
Held(i) == IF fetching THEN study.cases[i] ELSE study.bundle[i]

\* What is at hand of a case is what its repository has, or what the bundle says.
BundlesInv ==
  /\ DOMAIN bundles = DOMAIN study.cases
  /\ \A i \in DOMAIN study.cases :
       /\ DOMAIN bundles[i] = Sides
       /\ \A side \in Sides : \A path \in DOMAIN bundles[i][side] :
            path \in DOMAIN Held(i)[side] /\ bundles[i][side][path] = Held(i)[side][path]

\* A case of which nothing is left to read has been compared with its patches, and
\* nothing is left to read of any when the findings are looked at.
CheckedInv ==
  /\ \A i \in DOMAIN study.cases :
       (\A other \in todo : other[1] # i) => Agrees(bundles[i], Held(i).wrong)
  /\ todo # {} => fetching /\ stage \in {"sources", "refused"}

WantedInv == todo \subseteq Wanted /\ asked \subseteq Wanted

\* The flaws that a replay of this kind never looks for.
Tolerated == (IF fetching THEN {"bundle"} ELSE {}) \cup (IF live THEN {} ELSE {"key"})

\* Each stage knows what was checked before it.
FlawsInv ==
  /\ stage = "cases" => study.flaws \subseteq {"cases", "report", "bundle", "key"}
  /\ stage = "report" => study.flaws \subseteq {"report", "bundle", "key"}
  /\ stage = "bundle" => study.flaws \subseteq {"bundle", "key"}
  /\ stage = "key" => study.flaws \subseteq (IF fetching THEN {"bundle"} ELSE {}) \cup {"key"}
  /\ stage \in {"sources", "findings", "looking", "asking"} \/ asked # {} \/ requested # <<>> =>
       study.flaws \subseteq Tolerated

\* The report on disk is behind by the request under way at most.
WrittenInv ==
  /\ stage \in {"findings", "looking"} => written.calls = account.calls
  /\ stage = "asking" => written.calls + 1 = account.calls
  /\ written # NoReport => account.calls <= written.calls + 1

DiskInv == BundlesInv /\ CheckedInv /\ WantedInv /\ FlawsInv /\ WrittenInv

LEMMA DiskInitially == ReplayInit => DiskInv
  <1> SUFFICES ASSUME ReplayInit PROVE DiskInv
    OBVIOUS
  <1> USE DEF ReplayInit
  <1>1. BundlesInv /\ CheckedInv
    BY DEF BundlesInv, CheckedInv, Agrees, NoSources
  <1>2. WantedInv
    BY DEF WantedInv
  <1>3. FlawsInv
    BY DEF FlawsInv
  <1>4. WrittenInv
    BY DEF WrittenInv, NoReport
  <1> QED
    BY <1>1, <1>2, <1>3, <1>4 DEF DiskInv

\* What is wanted is a matter of the study.
LEMMA WantedStays == ASSUME UNCHANGED study PROVE Wanted' = Wanted
  BY DEF Wanted, SourcesOf, HeadPaths, BasePaths

LEMMA StudyFits ==
  ASSUME StageInv
  PROVE  /\ study.findings \in Seq(Findings)
         /\ \A i \in DOMAIN study.findings : study.findings[i].case \in DOMAIN study.cases
         /\ \A i \in DOMAIN study.cases : study.cases[i].diffs \in Seq(Diffs)
         /\ \A i \in DOMAIN study.cases : Files(Held(i))
  BY StudiesFit DEF StageInv, Held

\* A source that is wanted is one of a side of a case.
LEMMA WantedFits ==
  ASSUME StageInv, NEW source \in Wanted
  PROVE  source[1] \in DOMAIN study.cases /\ source[2] \in Sides
  <1>1. PICK finding \in ToSet(study.findings) : source \in SourcesOf(finding.case)
    BY DEF Wanted
  <1>2. finding.case \in DOMAIN study.cases
    BY <1>1, StudyFits DEF ToSet
  <1>3. source[1] = finding.case /\ source[2] \in Sides
    BY <1>1 DEF SourcesOf, Sides
  <1> QED
    BY <1>2, <1>3

LEMMA BundlesOfNone ==
  ASSUME BundlesInv, CheckedInv, UNCHANGED <<study, fetching, bundles, todo>>,
         stage' = "refused" \/ stage \notin {"sources", "refused"} \/ stage' = stage \/ todo = {}
  PROVE  BundlesInv' /\ CheckedInv'
  BY DEF BundlesInv, CheckedInv, Agrees, Held

LEMMA TakeBundleStep ==
  ASSUME ReplayInv, DiskInv, TakeBundle
  PROVE  DiskInv'
  <1> USE DEF DiskInv
  <1>0. /\ stage = "bundle" /\ stage' = "key" /\ stage \notin study.flaws /\ ~fetching
        /\ UNCHANGED <<given, todo, asked, results, accounts, exit>>
        /\ bundles' = [i \in DOMAIN study.cases |-> [side \in Sides |-> study.bundle[i][side]]]
    BY DEF TakeBundle
  <1>1. BundlesInv'
    BY <1>0 DEF BundlesInv, Held
  <1>2. WantedInv'
    BY <1>0, WantedStays DEF WantedInv
  <1>3. FlawsInv'
    BY <1>0 DEF FlawsInv, Tolerated
  <1>4. WrittenInv'
    BY <1>0 DEF WrittenInv
  <1>5. CheckedInv'
    <2>1. \A i \in DOMAIN study.cases : Agrees(study.bundle[i], study.bundle[i].wrong)
      BY DEF TakeBundle, BundleFits
    <2>2. \A i \in DOMAIN study.cases : Agrees(bundles'[i], study.bundle[i].wrong)
      BY <1>0, <2>1 DEF Agrees
    <2>3. todo = {}
      BY <1>0 DEF CheckedInv
    <2> QED
      BY <1>0, <2>2, <2>3 DEF CheckedInv, Held, Agrees
  <1> QED
    BY <1>1, <1>2, <1>3, <1>4, <1>5

LEMMA FetchStep ==
  ASSUME ReplayInv, DiskInv, NEW source \in todo, Fetch(source)
  PROVE  DiskInv'
  <1> USE DEF DiskInv
  <1> DEFINE case == source[1]
             side == source[2]
             path == source[3]
             there == study.cases[case][side]
             had == bundles[case][side]
             read == [p \in DOMAIN had \cup {path} |-> IF p = path THEN there[p] ELSE had[p]]
  <1>0. /\ stage = "sources" /\ todo' = todo \ {source} /\ asked' = asked \cup {source}
        /\ UNCHANGED <<stage, given, results, accounts, exit>>
        /\ bundles' = IF path \in DOMAIN there THEN [bundles EXCEPT ![case][side] = read]
                      ELSE bundles
        /\ (\A other \in todo' : other[1] # case) =>
             Agrees(bundles'[case], study.cases[case].wrong)
    BY DEF Fetch, InTurn
  <1>1. source \in Wanted /\ case \in DOMAIN study.cases /\ side \in Sides
    <2>1. source \in Wanted
      BY DEF WantedInv
    <2> QED
      BY <2>1, WantedFits DEF ReplayInv
  <1>h. fetching /\ \A i \in DOMAIN study.cases : Held(i) = study.cases[i] /\ Held(i)' = Held(i)
    BY <1>0 DEF CheckedInv, Held
  <1>2. BundlesInv' /\ \A i \in DOMAIN study.cases : i # case => bundles'[i] = bundles[i]
    <2>1. CASE path \notin DOMAIN there
      BY <1>0, <1>h, <2>1 DEF BundlesInv
    <2>2. CASE path \in DOMAIN there
      <3>1. \A p \in DOMAIN read : p \in DOMAIN there /\ read[p] = there[p]
        <4>1. \A p \in DOMAIN bundles[case][side] :
                p \in DOMAIN there /\ bundles[case][side][p] = there[p]
          BY <1>1, <1>h DEF BundlesInv
        <4> QED
          BY <2>2, <4>1
      <3>2. bundles' = [bundles EXCEPT ![case][side] = read]
        BY <1>0, <2>2
      <3> HIDE DEF read
      <3>3. /\ DOMAIN bundles' = DOMAIN study.cases
            /\ \A i \in DOMAIN study.cases : DOMAIN bundles'[i] = Sides
            /\ \A i \in DOMAIN study.cases, s \in Sides :
                 bundles'[i][s] = IF i = case /\ s = side THEN read ELSE bundles[i][s]
            /\ \A i \in DOMAIN study.cases : i # case => bundles'[i] = bundles[i]
        BY <1>1, <3>2 DEF BundlesInv
      <3> QED
        BY <1>0, <1>h, <3>1, <3>3 DEF BundlesInv
    <2> QED
      BY <2>1, <2>2
  <1>3. WantedInv'
    BY <1>0, <1>1, WantedStays DEF WantedInv
  <1>4. FlawsInv'
    BY <1>0 DEF FlawsInv, Tolerated
  <1>5. WrittenInv'
    BY <1>0 DEF WrittenInv
  <1>6. CheckedInv'
    <2> SUFFICES ASSUME NEW i \in DOMAIN study.cases, \A other \in todo' : other[1] # i
                 PROVE  Agrees(bundles'[i], study.cases[i].wrong)
      BY <1>0, <1>h DEF CheckedInv, Agrees
    <2>1. CASE i = case
      BY <1>0, <2>1
    <2>2. CASE i # case
      <3>1. \A other \in todo : other[1] # i
        BY <1>0, <2>2
      <3>2. Agrees(bundles[i], study.cases[i].wrong)
        BY <1>h, <3>1 DEF CheckedInv
      <3> QED
        BY <1>2, <2>2, <3>2 DEF Agrees
    <2> QED
      BY <2>1, <2>2
  <1> QED
    BY <1>2, <1>3, <1>4, <1>5, <1>6

\* The other steps of the preparation.
LEMMA ReadingActions ==
  ASSUME ReplayInv, DiskInv,
         \/ Pass \/ Reject \/ TakeBundle \/ NoBundle \/ HaveKey
         \/ \E source \in todo : Fetch(source) \/ FetchFails(source)
         \/ WriteSources \/ CannotWrite
  PROVE  DiskInv'
  <1> USE DEF DiskInv
  <1>f. study.flaws \subseteq {"arguments", "cases", "report", "bundle", "key"}
    BY FlawsFit DEF ReplayInv
  <1>1. ASSUME Pass PROVE DiskInv'
    <2>0. /\ stage \in {"arguments", "cases", "report"} /\ stage \notin study.flaws
          /\ stage' = Preflight[stage] /\ UNCHANGED <<given, sources, results, accounts, exit>>
      BY <1>1 DEF Pass, Preflight
    <2>1. \/ stage = "arguments" /\ stage' = "cases"
          \/ stage = "cases" /\ stage' = "report"
          \/ stage = "report" /\ stage' = "bundle"
      <3>1. CASE stage = "arguments"
        BY <2>0, <3>1 DEF Preflight
      <3>2. CASE stage = "cases"
        BY <2>0, <3>2 DEF Preflight
      <3>3. CASE stage = "report"
        BY <2>0, <3>3 DEF Preflight
      <3> QED
        BY <2>0, <3>1, <3>2, <3>3
    <2>2. FlawsInv'
      BY <1>f, <2>0, <2>1 DEF FlawsInv, Tolerated
    <2> QED
      BY <2>0, <2>1, <2>2, BundlesOfNone, WantedStays DEF WantedInv, WrittenInv
  <1>2. ASSUME Reject \/ CannotWrite PROVE DiskInv'
    <2>0. stage' = "refused" /\ UNCHANGED <<given, sources, results, accounts>>
      BY <1>2 DEF Reject, CannotWrite, Stop
    <2>1. FlawsInv'
      BY <2>0 DEF FlawsInv, Tolerated
    <2> QED
      BY <2>0, <2>1, BundlesOfNone, WantedStays DEF WantedInv, WrittenInv
  <1>3. ASSUME NoBundle PROVE DiskInv'
    <2>0. /\ stage = "bundle" /\ fetching /\ stage' = "key"
          /\ UNCHANGED <<given, sources, results, accounts, exit>>
      BY <1>3 DEF NoBundle
    <2>1. FlawsInv'
      BY <2>0 DEF FlawsInv, Tolerated
    <2> QED
      BY <2>0, <2>1, BundlesOfNone, WantedStays DEF WantedInv, WrittenInv
  <1>4. ASSUME HaveKey PROVE DiskInv'
    <2>0. /\ stage = "key" /\ (~live \/ stage \notin study.flaws) /\ stage' = "sources"
          /\ todo' = IF fetching THEN Wanted ELSE {}
          /\ UNCHANGED <<given, asked, bundles, results, accounts, exit>>
      BY <1>4 DEF HaveKey
    <2>1. FlawsInv'
      BY <2>0 DEF FlawsInv, Tolerated
    <2>2. WantedInv'
      BY <2>0, WantedStays DEF WantedInv
    <2>3. BundlesInv' /\ CheckedInv'
      BY <2>0 DEF BundlesInv, CheckedInv, Agrees, Held
    <2> QED
      BY <2>0, <2>1, <2>2, <2>3 DEF WrittenInv
  <1>5. ASSUME NEW source \in todo, FetchFails(source) PROVE DiskInv'
    <2>0. /\ stage = "sources" /\ stage' = "refused" /\ asked' = asked \cup {source}
          /\ UNCHANGED <<given, todo, bundles, results, accounts>>
      BY <1>5 DEF FetchFails, InTurn
    <2>1. FlawsInv'
      BY <2>0 DEF FlawsInv, Tolerated
    <2>2. WantedInv'
      BY <2>0, WantedStays DEF WantedInv
    <2> QED
      BY <2>0, <2>1, <2>2, BundlesOfNone DEF WrittenInv
  <1>6. ASSUME WriteSources PROVE DiskInv'
    <2>0. /\ stage = "sources" /\ stage' = "findings" /\ todo = {}
          /\ UNCHANGED <<account, given, sources, results, requested, charged, exit>>
          /\ written' = [calls |-> account.calls, cost |-> account.cost, rulings |-> <<>>]
      BY <1>6 DEF WriteSources, Copy
    <2>1. FlawsInv'
      BY <2>0 DEF FlawsInv, Tolerated
    <2>2. WrittenInv'
      <3>1. account.calls \in Nat
        BY DEF ReplayInv, AccountInv
      <3>2. written'.calls = account.calls /\ account' = account /\ stage' = "findings"
        BY <2>0
      <3> QED
        BY <3>1, <3>2 DEF WrittenInv
    <2> QED
      BY <2>0, <2>1, <2>2, BundlesOfNone, WantedStays DEF WantedInv
  <1> QED
    BY <1>1, <1>2, <1>3, <1>4, <1>5, <1>6, TakeBundleStep, FetchStep

\* The steps behind the first finding read nothing any more.
LEMMA AskingActions ==
  ASSUME ReplayInv, DiskInv,
         \/ Skip \/ Look \/ Dismiss \/ Ask \/ NoVerifier \/ Killed \/ Finish
         \/ \E price \in Prices :
              \/ Raise(price) \/ \E known \in BOOLEAN : Fail(price, known)
              \/ \E verdict \in Answers,
                   cites \in SUBSET (Sides \cup {"unknown"}), full \in BOOLEAN :
                   Answer(verdict, cites, full, price)
  PROVE  DiskInv'
  <1> USE DEF DiskInv
  <1>0. account \in [calls : Nat, cost : Nat, complete : BOOLEAN, aborted : BOOLEAN]
    BY DEF ReplayInv, AccountInv
  <1>1. /\ UNCHANGED <<given, sources>> /\ stage \in {"findings", "looking", "asking"}
        /\ stage' \in {"findings", "looking", "asking", "raised", "dead", "done"}
    BY DEF Skip, Look, Dismiss, Ask, NoVerifier, Killed, Finish, Raise, Fail, Answer, Decide,
       AtFinding, NeedsCall
  <1>2. BundlesInv' /\ CheckedInv' /\ WantedInv'
    BY <1>1, BundlesOfNone, WantedStays DEF WantedInv
  <1>3. FlawsInv'
    BY <1>1 DEF FlawsInv, Tolerated
  <1>4. WrittenInv'
    <2>1. CASE Skip \/ Look \/ Dismiss
      <3>1. /\ stage \in {"findings", "looking"} /\ stage' \in {"findings", "looking"}
            /\ UNCHANGED <<account, written>>
        BY <2>1 DEF Skip, Look, Dismiss, AtFinding
      <3> QED
        BY <1>0, <3>1 DEF WrittenInv
    <2>2. CASE Ask
      <3>1. /\ stage = "looking" /\ stage' = "asking" /\ UNCHANGED written
            /\ account'.calls = account.calls + 1
        BY <1>0, <2>2 DEF Ask, NeedsCall
      <3> QED
        BY <1>0, <3>1 DEF WrittenInv
    <2>3. CASE Killed
      <3>1. stage' = "dead" /\ UNCHANGED account /\ written' \in {written, NoReport}
        BY <2>3 DEF Killed
      <3> QED
        BY <3>1 DEF WrittenInv
    <2>4. CASE ~(Skip \/ Look \/ Dismiss \/ Ask \/ Killed)
      <3> DEFINE Saves == /\ stage' \in {"findings", "raised", "done"}
                          /\ \E rows : written' = [calls |-> account'.calls,
                                                   cost |-> account'.cost, rulings |-> rows]
                          /\ account'.calls = account.calls
      <3>1. Saves
        <4>1. CASE NoVerifier
          BY <1>0, <4>1 DEF NoVerifier, Decide, Copy
        <4>2. CASE Finish
          BY <4>2 DEF Finish, Copy
        <4>3. ASSUME NEW price \in Prices, Raise(price) PROVE Saves
          BY <4>3 DEF Raise, Copy
        <4>4. ASSUME NEW price \in Prices, NEW known \in BOOLEAN, Fail(price, known)
              PROVE  Saves
          BY <1>0, <4>4 DEF Fail, Decide, Copy
        <4>5. ASSUME NEW price \in Prices, NEW verdict \in Answers,
                     NEW cites \in SUBSET (Sides \cup {"unknown"}), NEW full \in BOOLEAN,
                     Answer(verdict, cites, full, price)
              PROVE  Saves
          BY <1>0, <4>5 DEF Answer, Decide, Copy
        <4> QED
          BY <2>4, <4>1, <4>2, <4>3, <4>4, <4>5
      <3>2. written'.calls = account'.calls /\ account'.calls \in Nat
        BY <1>0, <3>1
      <3> QED
        BY <3>1, <3>2 DEF WrittenInv
    <2> QED
      BY <2>1, <2>2, <2>3, <2>4
  <1> QED
    BY <1>2, <1>3, <1>4


LEMMA DiskInvariant == ReplaySpec => [](ReplayInv /\ DiskInv)
  <1>1. ReplayInit => ReplayInv /\ DiskInv
    BY ReplayInitially, DiskInitially
  <1>2. ReplayInv /\ DiskInv /\ [ReplayNext]_replayVars => (ReplayInv /\ DiskInv)'
    <2> SUFFICES ASSUME ReplayInv, DiskInv, [ReplayNext]_replayVars PROVE DiskInv'
      BY ReplayInductive
    <2>1. ASSUME UNCHANGED replayVars PROVE DiskInv'
      BY <2>1, BundlesOfNone, WantedStays
      DEF replayVars, DiskInv, WantedInv, FlawsInv, WrittenInv, Tolerated
    <2> QED
      BY <2>1, ReadingActions, AskingActions DEF ReplayNext, Answers
  <1> QED
    BY <1>1, <1>2, PTL DEF ReplaySpec

LEMMA Listed ==
  ASSUME NEW S, NEW s \in Seq(S)
  PROVE  \A x \in ToSet(s) : x \in S /\ \E i \in DOMAIN s : x = s[i]
  BY DEF ToSet

\* The input of a finding that is not rejected for its structure.
LEMMA InputIs ==
  ASSUME ReplayInv, BundlesInv, NEW finding \in ToSet(study.findings), ~Structural(finding)
  PROVE  LET in == Input(finding)
             case == study.cases[finding.case]
             held == Held(finding.case)
         IN  /\ finding.case \in DOMAIN study.cases
             /\ Unreachable(in) = {} => InputFits(in)
             /\ in.path = finding.path /\ in.line = finding.line
             /\ in.path \in Paths /\ in.old \in Paths
             /\ in.head = bundles[finding.case]["head"] /\ in.base = bundles[finding.case]["base"]
             /\ \E diff \in ToSet(case.diffs) : diff.path = in.path /\ in.line \in diff.added
             /\ \A path \in DOMAIN in.head :
                  path \in Paths /\ path \in DOMAIN held["head"] /\ in.head[path] = held["head"][path]
             /\ \A path \in DOMAIN in.base :
                  path \in Paths /\ path \in DOMAIN held["base"] /\ in.base[path] = held["base"][path]
  <1> DEFINE case == study.cases[finding.case]
             held == Held(finding.case)
             n == CHOOSE i \in OnDiff(finding) : TRUE
             in == Input(finding)
  <1>1. finding \in Findings /\ finding.case \in DOMAIN study.cases
    BY StudyFits, Listed DEF ReplayInv, ToSet
  <1>2. case.diffs \in Seq(Diffs)
    BY <1>1, StudyFits DEF ReplayInv
  <1>3. n \in OnDiff(finding)
    BY DEF Structural
  <1>4. /\ n \in DOMAIN case.diffs /\ case.diffs[n] \in Diffs
        /\ case.diffs[n].path = finding.path /\ finding.line \in case.diffs[n].added
    <2>1. OnDiff(finding) = {i \in DOMAIN case.diffs : case.diffs[i].path = finding.path
                                                     /\ finding.line \in case.diffs[i].added}
      BY DEF OnDiff
    <2> HIDE DEF case, n
    <2>2. n \in DOMAIN case.diffs
      BY <1>3, <2>1
    <2>3. case.diffs[n] \in Diffs
      BY <1>2, <2>2
    <2> QED
      BY <1>3, <2>1, <2>2, <2>3
  <1>5. case.diffs[n] \in ToSet(case.diffs)
    BY <1>4 DEF ToSet
  <1>6. HeadPaths(case) \subseteq Paths
    <2>1. \A diff \in ToSet(case.diffs) : diff.path \in Paths
      <3> HIDE DEF case
      <3>1. \A diff \in ToSet(case.diffs) : diff \in Diffs
        BY <1>2, Listed
      <3> QED
        BY <3>1 DEF Diffs
    <2> QED
      BY <2>1 DEF HeadPaths
  <1>7. in = [path |-> finding.path, line |-> finding.line, words |-> finding.words,
              old |-> case.diffs[n].old,
              head |-> bundles[finding.case]["head"], base |-> bundles[finding.case]["base"],
              related |-> HeadPaths(case), absent |-> case.diffs[n].status = "added"]
    BY DEF Input
  <1>8. \A side \in Sides : \A path \in DOMAIN bundles[finding.case][side] :
          /\ path \in DOMAIN held[side] /\ bundles[finding.case][side][path] = held[side][path]
          /\ path \in Paths /\ held[side][path] \in Sources
    <2>1. \A side \in Sides : \A path \in DOMAIN held[side] :
            path \in Paths /\ held[side][path] \in Sources
      BY <1>1, StudyFits DEF ReplayInv, Files
    <2> QED
      BY <1>1, <2>1 DEF BundlesInv
  <1> HIDE DEF case, n, in, held
  <1>9. /\ in.path = finding.path /\ in.line = finding.line /\ in.old = case.diffs[n].old
        /\ in.related = HeadPaths(case)
        /\ in.head = bundles[finding.case]["head"] /\ in.base = bundles[finding.case]["base"]
    BY <1>7
  <1>10. in.path \in Paths /\ in.old \in Paths /\ in.line \in Nat
    BY <1>1, <1>4, <1>9 DEF Findings, Diffs
  <1>11. "head" \in Sides /\ "base" \in Sides
    BY DEF Sides
  <1>12. /\ \A path \in DOMAIN in.head :
              /\ path \in DOMAIN held["head"] /\ in.head[path] = held["head"][path]
              /\ path \in Paths /\ in.head[path] \in Sources
         /\ \A path \in DOMAIN in.base :
              /\ path \in DOMAIN held["base"] /\ in.base[path] = held["base"][path]
              /\ path \in Paths /\ in.base[path] \in Sources
    BY <1>8, <1>9, <1>11
  <1>13. Unreachable(in) = {} => InputFits(in)
    BY <1>6, <1>9, <1>10, <1>12 DEF InputFits
  <1>14. \E diff \in ToSet(case.diffs) : diff.path = in.path /\ in.line \in diff.added
    BY <1>4, <1>5, <1>9
  <1> QED
    BY <1>1, <1>9, <1>10, <1>12, <1>13, <1>14 DEF case, in, held

\* A view is of a finding.
LEMMA ViewIs ==
  ASSUME ReplayInv, BundlesInv, NEW view \in Views
  PROVE  /\ view.of \in DOMAIN study.findings /\ study.findings[view.of] \in ToSet(study.findings)
         /\ ~Structural(study.findings[view.of])
         /\ view.in = Input(study.findings[view.of]) /\ view.context = InContext(view.in)
  BY DEF Views, Seen, InContext, ToSet

\* Every context that is built is whole, for every input, every limit and every study:
\* no finding's evidence is cut where its case has room for it, and what was cut says so.
THEOREM ContextsStayWhole == ReplaySpec => []ContextIsWhole
  <1>1. ReplayInv /\ DiskInv => ContextIsWhole
    <2> SUFFICES ASSUME ReplayInv, DiskInv, NEW i \in DOMAIN looked,
                        Unreachable(looked[i].in) = {}
                 PROVE  IsWhole(looked[i].in, looked[i].context, ToSet(Primary(looked[i].in)),
                                ToSet(looked[i].context.snippets))
      BY DEF ContextIsWhole
    <2>1. looked[i] \in Views
      BY DEF ReplayInv, ViewsInv
    <2>2. /\ study.findings[looked[i].of] \in ToSet(study.findings)
          /\ ~Structural(study.findings[looked[i].of])
      BY <2>1, ViewIs DEF DiskInv
    <2>3. looked[i].in = Input(study.findings[looked[i].of])
          /\ looked[i].context = InContext(looked[i].in)
      BY <2>1, ViewIs DEF DiskInv
    <2>4. InputFits(looked[i].in)
      BY <2>2, <2>3, InputIs DEF DiskInv
    <2> QED
      BY <2>3, <2>4, ContextsAreWhole
  <1> QED
    BY <1>1, DiskInvariant, PTL

\* A context that may be shown is uncut, and of both sides.
LEMMA UsableIsWhole ==
  ASSUME NEW in, Unreachable(in) = {} => InputFits(in), Usable(InContext(in))
  PROVE  LET shown == ToSet(InContext(in).snippets)
         IN  /\ \A region \in ToSet(Primary(in)) : \E snippet \in shown : Whole(snippet, region)
             /\ Sides = {snippet.side : snippet \in shown}
             /\ \A snippet \in shown :
                  IF snippet.side = "head" THEN snippet.path \in DOMAIN in.head
                  ELSE snippet.side = "base" /\ snippet.path \in DOMAIN in.base
  <1> DEFINE context == InContext(in)
             shown == ToSet(context.snippets)
  <1>1. context.issues = {} /\ ~context.truncated
    BY DEF Usable
  <1>2. InputFits(in)
    <2> SUFFICES ASSUME Unreachable(in) # {} PROVE FALSE
      OBVIOUS
    <2>1. Context(in) = Empty(Unreachable(in))
      BY DEF Context
    <2>2. Context(in).issues = Unreachable(in)
      BY <2>1 DEF Empty
    <2>3. InContext(in) = Context(in)
      BY <2>2 DEF InContext, NeedingBase
    <2> QED
      BY <1>1, <2>2, <2>3
  <1>3. /\ context.snippets = Context(in).snippets /\ context.truncated = Context(in).truncated
        /\ Context(in).issues = {}
        /\ \E i \in DOMAIN Context(in).snippets : Context(in).snippets[i].side # "head"
    BY <1>1, <1>2, NeedingBaseKeeps
  <1>4. /\ \A i \in DOMAIN Context(in).snippets : \E region \in ToSet(Primary(in)) \cup HelperRegions(in) :
             Shows(Context(in).snippets[i], region)
        /\ \A region \in ToSet(Primary(in)) :
             Lost \in Context(in).issues \/ ShownIn(Context(in), region)
    BY <1>2, ContextHolds DEF Holds
  <1>5. shown = {Context(in).snippets[i] : i \in DOMAIN Context(in).snippets}
    BY <1>3 DEF ToSet
  <1>6. HasBase(in) /\ ~BaseFails(in)
    BY <1>2, <1>3, BothSidesArePrimary
  <1>7. ToSet(Primary(in)) = {HeadRegion(in), BaseRegion(in)}
    BY <1>2, <1>6, PrimaryIs
  <1>8. /\ HeadRegion(in).side = "head" /\ HeadRegion(in).path \in DOMAIN in.head
        /\ BaseRegion(in).side = "base" /\ BaseRegion(in).path \in DOMAIN in.base
    BY <1>2, <1>6, HeadRegionFits, BaseRegionFits, StartIsThere DEF HasBase
  <1>9. \A region \in HelperRegions(in) : region.side = "head" /\ region.path \in DOMAIN in.head
    BY <1>2, HelperRegionFits, HelperFits DEF HelperRegions
  <1> HIDE DEF context, shown
  <1>10. \A region \in ToSet(Primary(in)) : \E snippet \in shown : Whole(snippet, region)
    <2> SUFFICES ASSUME NEW region \in ToSet(Primary(in))
                 PROVE  \E snippet \in shown : Whole(snippet, region)
      OBVIOUS
    <2>1. ShownIn(Context(in), region) /\ ~Context(in).truncated
      BY <1>1, <1>3, <1>4
    <2> QED
      BY <1>5, <2>1 DEF ShownIn
  <1>11. \A snippet \in shown :
           IF snippet.side = "head" THEN snippet.path \in DOMAIN in.head
           ELSE snippet.side = "base" /\ snippet.path \in DOMAIN in.base
    <2> SUFFICES ASSUME NEW snippet \in shown
                 PROVE  \/ snippet.side = "head" /\ snippet.path \in DOMAIN in.head
                        \/ snippet.side = "base" /\ snippet.path \in DOMAIN in.base
      OBVIOUS
    <2>1. PICK region \in ToSet(Primary(in)) \cup HelperRegions(in) : Shows(snippet, region)
      BY <1>4, <1>5
    <2>2. snippet.side = region.side /\ snippet.path = region.path
      BY <2>1 DEF Shows
    <2>3. \/ region.side = "head" /\ region.path \in DOMAIN in.head
          \/ region.side = "base" /\ region.path \in DOMAIN in.base
      BY <1>7, <1>8, <1>9
    <2> QED
      BY <2>2, <2>3
  <1>12. Sides = {snippet.side : snippet \in shown}
    <2>1. PICK h \in shown : h.side = "head"
      BY <1>7, <1>8, <1>10 DEF Whole
    <2>2. PICK b \in shown : b.side = "base"
      BY <1>7, <1>8, <1>10 DEF Whole
    <2> QED
      BY <1>11, <2>1, <2>2 DEF Sides
  <1> QED
    BY <1>10, <1>11, <1>12 DEF context, shown

\* Nothing leaves before all that can be checked is, and the model sees whole evidence
\* of both sides: the sources at hand of the finding's own case, each of which has the
\* lines of that case's frozen patches (run_verification_replay, _check_patch_sources).
THEOREM RequestsStayWhole == ReplaySpec => []RequestsAreWhole
  <1>1. ReplayInv /\ DiskInv => RequestsAreWhole
    <2> SUFFICES ASSUME ReplayInv, DiskInv PROVE RequestsAreWhole
      OBVIOUS
    <2>1. asked \subseteq Wanted
      BY DEF DiskInv, WantedInv
    <2>2. asked # {} \/ requested # <<>> =>
            study.flaws \subseteq (IF fetching THEN {"bundle"} ELSE {})
                                   \cup (IF live THEN {} ELSE {"key"})
      BY DEF DiskInv, FlawsInv, Tolerated
    <2>3. requested # <<>> => live /\ Len(requested) <= MaxCalls
      BY DEF ReplayInv, AccountInv, StageInv
    <2>4. written # NoReport => Len(requested) <= written.calls + 1
      BY DEF DiskInv, WrittenInv, ReplayInv, AccountInv
    <2>5. ASSUME NEW i \in DOMAIN requested
          PROVE  LET in == requested[i].in
                     shown == ToSet(requested[i].context.snippets)
                     finding == study.findings[requested[i].of]
                     case == study.cases[finding.case]
                     held == IF fetching THEN case ELSE study.bundle[finding.case]
                 IN  /\ \A region \in ToSet(Primary(in)) : \E snippet \in shown : Whole(snippet, region)
                     /\ in.path = finding.path /\ in.line = finding.line
                     /\ \E diff \in ToSet(case.diffs) : diff.path = in.path /\ in.line \in diff.added
                     /\ \A snippet \in shown :
                          LET ours == IF snippet.side = "head" THEN in.head ELSE in.base
                          IN  /\ ours[snippet.path] = held[snippet.side][snippet.path]
                              /\ <<snippet.side, snippet.path>> \notin held.wrong
                     /\ Sides = {snippet.side : snippet \in shown}
      <3> DEFINE in == requested[i].in
                 shown == ToSet(requested[i].context.snippets)
                 finding == study.findings[requested[i].of]
                 case == study.cases[finding.case]
                 held == IF fetching THEN case ELSE study.bundle[finding.case]
      <3>1. requested[i] \in Views /\ Usable(requested[i].context)
        BY DEF ReplayInv, ViewsInv, Ready
      <3>2. finding \in ToSet(study.findings) /\ ~Structural(finding)
        BY <3>1, ViewIs DEF DiskInv
      <3>3. in = Input(finding) /\ requested[i].context = InContext(in)
        BY <3>1, ViewIs DEF DiskInv
      <3> HIDE DEF finding
      <3>4. held = Held(finding.case)
        BY DEF Held
      <3>5. /\ finding.case \in DOMAIN study.cases
            /\ Unreachable(in) = {} => InputFits(in)
            /\ in.path = finding.path /\ in.line = finding.line
            /\ in.head = bundles[finding.case]["head"] /\ in.base = bundles[finding.case]["base"]
            /\ \E diff \in ToSet(case.diffs) : diff.path = in.path /\ in.line \in diff.added
            /\ \A path \in DOMAIN in.head : path \in Paths /\ in.head[path] = held["head"][path]
            /\ \A path \in DOMAIN in.base : path \in Paths /\ in.base[path] = held["base"][path]
        BY <3>2, <3>3, <3>4, InputIs DEF DiskInv
      <3>6. Agrees(bundles[finding.case], held.wrong)
        <4>1. requested # <<>>
          OBVIOUS
        <4>2. todo = {}
          BY <4>1 DEF DiskInv, CheckedInv, ReplayInv, StageInv, BeforeFindings
        <4> QED
          BY <3>4, <3>5, <4>2 DEF DiskInv, CheckedInv
      <3> HIDE DEF in, case, held
      <3>7. /\ \A region \in ToSet(Primary(in)) : \E snippet \in shown : Whole(snippet, region)
            /\ Sides = {snippet.side : snippet \in shown}
            /\ \A snippet \in shown :
                 IF snippet.side = "head" THEN snippet.path \in DOMAIN in.head
                 ELSE snippet.side = "base" /\ snippet.path \in DOMAIN in.base
        BY <3>1, <3>3, <3>5, UsableIsWhole
      <3> HIDE DEF shown
      <3>8. ASSUME NEW snippet \in shown
            PROVE  LET ours == IF snippet.side = "head" THEN in.head ELSE in.base
                   IN  /\ ours[snippet.path] = held[snippet.side][snippet.path]
                       /\ <<snippet.side, snippet.path>> \notin held.wrong
        <4>1. CASE snippet.side = "head"
          BY <3>5, <3>6, <3>7, <4>1 DEF Agrees, Sides
        <4>2. CASE snippet.side # "head"
          BY <3>5, <3>6, <3>7, <4>2 DEF Agrees, Sides
        <4> QED
          BY <4>1, <4>2
      <3> QED
        BY <3>5, <3>7, <3>8 DEF in, shown, finding, case, held
    <2> QED
      BY <2>1, <2>2, <2>3, <2>4, <2>5 DEF RequestsAreWhole
  <1> QED
    BY <1>1, DiskInvariant, PTL
==============================================================================
