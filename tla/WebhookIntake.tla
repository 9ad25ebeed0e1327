---------------------------- MODULE WebhookIntake ----------------------------
(***************************************************************************)
(* A signed pull_request delivery becomes one recorded dry-run review:     *)
(* the webhook handler (api.github_webhook), the acceptance it runs in a   *)
(* thread (intake.accept_event) and the background task that executes the  *)
(* run (intake.execute_run), against the run store (store.py) and GitHub.  *)
(*                                                                         *)
(* Each slot is one request of the single uvicorn process: its handler,    *)
(* then the background task the handler schedules.  Slots interleave at    *)
(* every store transaction and every GitHub call; a store call may fail,   *)
(* or take effect and lose its answer; the process may be restarted.       *)
(***************************************************************************)
EXTENDS Naturals, RunStatus

CONSTANTS
  Events,                 \* the pull_request deliveries GitHub may send
  Slots,                  \* requests the process handles at once
  Heads,                  \* commits a pull request's head may be at
  None,                   \* no slot
  MaxRequests,            \* bound: deliveries received, redeliveries included
  MaxMoves,               \* bound: pushes to a pull request, visibility changes
  MaxFaults,              \* bound: store calls that fail or lose their answer
  MaxCrashes              \* bound: restarts of the process

\* parse_pull_request_event: the fields of a delivery the intake reads.
\* Installation and repository are folded into the pull request.
ASSUME EventFields ==
  /\ Events # {}
  /\ \A e \in Events : /\ DOMAIN e = {"pr", "head", "id", "action", "private"}
                       /\ e.head \in Heads
                       /\ e.private \in BOOLEAN

ASSUME SlotsAreNotNone == None \notin Slots

ASSUME BoundsAreNaturals == {MaxRequests, MaxMoves, MaxFaults, MaxCrashes} \subseteq Nat

SupportedActions == {"opened", "reopened", "ready_for_review", "synchronize"}

\* build_review_run_key: the delivery id is part of the key.
Key(e) == <<e.pr, e.head, e.id>>

Keys == {Key(e) : e \in Events}

PullRequests == {e.pr : e \in Events}

\* What an idle slot's delivery is: nothing reads it.
AnyEvent == CHOOSE e \in Events : TRUE

VARIABLES
  status, parts,          \* the store: RunLedger's variables
  lock,                   \* [Keys -> slot whose open transaction holds the row]
  pc, event, target,      \* each slot: where it is, its delivery, the status it moves to
  head, hidden,           \* GitHub: each pull request's head; is its repository private
  review,                 \* settings.webhook_review of this deployment
  answers,                \* [Events -> the answers GitHub got for its deliveries]
  requests, moves, faults, crashes,
  mishap                  \* [Keys -> what went wrong with the run and no code makes good]

storeVars == <<status, parts, lock>>
slotVars == <<pc, event, target>>
githubVars == <<head, hidden, review>>
counters == <<requests, moves, faults, crashes, mishap>>
vars == <<storeVars, slotVars, githubVars, answers, counters>>

Ledger == INSTANCE RunLedger

\* Where a slot can be.  "inserted" and "locked" are inside a transaction; a
\* part's name is the step that records it.
PCs == {"idle", "accepting", "inserted", "accepted", "queued", "starting",
        "moving", "locked", "listing", "gathering"} \cup Parts

\* "unheard insert": the run was committed and its handler not told.
\* "unheard summary": the run was summarized and its task not told.
\* "unrecorded failure": the store failed while the run's failure was recorded.
\* "restart": the process stopped under the run's handler or task.
Mishaps == {"unheard insert", "unheard summary", "unrecorded failure", "restart"}

TypeOK ==
  /\ status \in [Keys -> Statuses \cup {Absent}]
  /\ parts \in [Keys -> SUBSET Parts]
  /\ lock \in [Keys -> Slots \cup {None}]
  /\ pc \in [Slots -> PCs]
  /\ event \in [Slots -> Events]
  /\ target \in [Slots -> Statuses]
  /\ head \in [PullRequests -> Heads]
  /\ hidden \in [PullRequests -> BOOLEAN]
  /\ review \in BOOLEAN
  /\ answers \in [Events -> SUBSET {"ignored", "accepted", "duplicate", "refused"}]
  /\ requests \in Nat /\ moves \in Nat /\ faults \in Nat /\ crashes \in Nat
  /\ mishap \in [Keys -> SUBSET Mishaps]

Init ==
  /\ status = [k \in Keys |-> Absent]
  /\ parts = [k \in Keys |-> {}]
  /\ lock = [k \in Keys |-> None]
  /\ pc = [s \in Slots |-> "idle"]
  /\ event = [s \in Slots |-> AnyEvent]
  /\ target = [s \in Slots |-> "running"]
  /\ head \in [PullRequests -> Heads]
  /\ hidden = [p \in PullRequests |-> FALSE]
  /\ review \in BOOLEAN
  /\ answers = [e \in Events |-> {}]
  /\ requests = 0 /\ moves = 0 /\ faults = 0 /\ crashes = 0
  /\ mishap = [k \in Keys |-> {}]

------------------------------------------------------------------------------
\* The run a slot's delivery is about, and its row in the slot's transaction.
KeyOf(s) == Key(event[s])

TakeRow(s) == lock' = [lock EXCEPT ![KeyOf(s)] = s]

\* Slot s goes on at `step`, to move its run to `goal` when it gets to moving it.
Goto(s, step, goal) ==
  /\ pc' = [pc EXCEPT ![s] = step]
  /\ target' = [target EXCEPT ![s] = goal]
  /\ UNCHANGED event

\* The request and its background task are over.
Retire(s) ==
  /\ pc' = [pc EXCEPT ![s] = "idle"]
  /\ event' = [event EXCEPT ![s] = AnyEvent]
  /\ target' = [target EXCEPT ![s] = "running"]

Answer(s, answer) == answers' = [answers EXCEPT ![event[s]] = @ \cup {answer}]

(***************************************************************************)
(* The handler.                                                            *)
(***************************************************************************)

\* Signature, event name, action and visibility, in github_webhook's order.
Admitted(e) == e.action \in SupportedActions /\ ~e.private

\* github_webhook up to the call of accept_event.  Any delivery may arrive, and
\* arrive again: a redelivery is the same event.
Receive(s, e) ==
  /\ pc[s] = "idle" /\ requests < MaxRequests
  /\ requests' = requests + 1
  /\ \/ /\ ~Admitted(e)
        /\ answers' = [answers EXCEPT ![e] = @ \cup {"ignored"}]
        /\ UNCHANGED slotVars
     \/ /\ Admitted(e)
        /\ pc' = [pc EXCEPT ![s] = "accepting"]
        /\ event' = [event EXCEPT ![s] = e]
        /\ UNCHANGED <<target, answers>>
  /\ UNCHANGED <<storeVars, githubVars, moves, faults, crashes, mishap>>

\* create_or_get_run: INSERT ... ON CONFLICT DO NOTHING.  It waits for another
\* transaction that has inserted the key and not ended.
InsertRun(s) ==
  /\ pc[s] = "accepting"
  /\ status[KeyOf(s)] = Absent /\ lock[KeyOf(s)] = None
  /\ TakeRow(s)
  /\ Goto(s, "inserted", target[s])
  /\ UNCHANGED <<status, parts, githubVars, answers, counters>>

\* Slip: a found run is scheduled like a created one.
FindRunReruns(s) ==
  /\ pc[s] = "accepting"
  /\ status[KeyOf(s)] # Absent
  /\ Goto(s, "accepted", target[s])
  /\ UNCHANGED <<storeVars, answers, githubVars, counters>>

\* The INSERT returned no row: the run is reported, and not run again.
FindRun(s) ==
  /\ pc[s] = "accepting"
  /\ status[KeyOf(s)] # Absent
  /\ Answer(s, "duplicate")
  /\ Retire(s)
  /\ UNCHANGED <<storeVars, githubVars, counters>>

CommitRow(s) ==
  /\ status' = [status EXCEPT ![KeyOf(s)] = "pending"]
  /\ lock' = [lock EXCEPT ![KeyOf(s)] = None]
  /\ UNCHANGED parts

\* Slip: the insert is never committed.
CommitRunForgets(s) ==
  /\ pc[s] = "inserted"
  /\ Goto(s, "accepted", target[s])
  /\ UNCHANGED <<storeVars, githubVars, answers, counters>>

CommitRun(s) ==
  /\ pc[s] = "inserted"
  /\ CommitRow(s)
  /\ Goto(s, "accepted", target[s])
  /\ UNCHANGED <<githubVars, answers, counters>>

\* A created run is answered, and execute_run scheduled behind the answer.
AnswerAccepted(s) ==
  /\ pc[s] = "accepted"
  /\ Answer(s, "accepted")
  /\ Goto(s, "queued", target[s])
  /\ UNCHANGED <<storeVars, githubVars, counters>>

(***************************************************************************)
(* The background task.                                                    *)
(***************************************************************************)

\* Slip: the test of the pending status is the wrong way round.
BeginInverted(s) ==
  /\ pc[s] = "queued"
  /\ IF status[KeyOf(s)] = "pending" THEN Retire(s) ELSE Goto(s, "starting", target[s])
  /\ UNCHANGED <<storeVars, githubVars, answers, counters>>

\* execute_run: only a pending run is executed.
Begin(s) ==
  /\ pc[s] = "queued"
  /\ IF status[KeyOf(s)] = "pending" THEN Goto(s, "starting", target[s]) ELSE Retire(s)
  /\ UNCHANGED <<storeVars, githubVars, answers, counters>>

\* Slip: the comparison of heads inverted.
GoalInverted(e, seenHead, seenHidden) ==
  IF seenHidden \/ seenHead = e.head THEN "skipped" ELSE "running"

\* _execute, on what get_pull_request answered.
Goal(e, seenHead, seenHidden) ==
  IF seenHidden \/ seenHead # e.head THEN "skipped" ELSE "running"

FetchPullRequest(s) ==
  /\ pc[s] = "starting"
  /\ Goto(s, "moving", Goal(event[s], head[event[s].pr], hidden[event[s].pr]))
  /\ UNCHANGED <<storeVars, githubVars, answers, counters>>

\* The slot is inside _fail.
Failing(s) == pc[s] \in {"moving", "locked"} /\ target[s] = "failed"

\* Slip: the exception ends the task and is not recorded on the run.
RaiseForgets(s) == Retire(s)

\* An exception inside execute_run: the connection is closed and _fail records
\* it on the run.  An exception inside _fail is swallowed.
Raise(s) ==
  IF Failing(s) THEN Retire(s) ELSE Goto(s, "moving", "failed")

\* Slip: no assert_transition before the update.
LockRowUnchecked(s) ==
  /\ pc[s] = "moving" /\ lock[KeyOf(s)] = None
  /\ TakeRow(s)
  /\ Goto(s, "locked", target[s])
  /\ UNCHANGED <<status, parts, githubVars, answers, counters>>

\* update_run_status: SELECT ... FOR UPDATE waits for the row, then
\* assert_transition raises on a move the current status does not allow.
LockRow(s) ==
  /\ pc[s] = "moving" /\ lock[KeyOf(s)] = None
  /\ IF CanTransition(status[KeyOf(s)], target[s])
       THEN /\ TakeRow(s)
            /\ Goto(s, "locked", target[s])
       ELSE Raise(s) /\ UNCHANGED lock
  /\ UNCHANGED <<status, parts, githubVars, answers, counters>>

CommitMove(s) ==
  /\ status' = [status EXCEPT ![KeyOf(s)] = target[s]]
  /\ lock' = [lock EXCEPT ![KeyOf(s)] = None]
  /\ UNCHANGED parts

\* Slip: _fail is called on the way out of a review that succeeded, too.
MoveRowFailsAlways(s) ==
  /\ pc[s] = "locked"
  /\ CommitMove(s)
  /\ CASE target[s] = "running" -> Goto(s, "listing", target[s])
       [] target[s] = "summarized" -> Goto(s, "moving", "failed")
       [] OTHER -> Retire(s)
  /\ UNCHANGED <<githubVars, answers, counters>>

\* The UPDATE and its commit.  Every move but the one to running is the task's last.
MoveRow(s) ==
  /\ pc[s] = "locked"
  /\ CommitMove(s)
  /\ IF target[s] = "running" THEN Goto(s, "listing", target[s]) ELSE Retire(s)
  /\ UNCHANGED <<githubVars, answers, counters>>

\* list_changed_files and the guardrails; then gather_evidence and the review graph.
Fetch(s) ==
  /\ pc[s] \in {"listing", "gathering"}
  /\ Goto(s, IF pc[s] = "listing" THEN "files" ELSE "routing", target[s])
  /\ UNCHANGED <<storeVars, githubVars, answers, counters>>

\* The step after a part, in _execute's order.
After(part) ==
  CASE part = "files" -> "gathering" [] part = "routing" -> "tools" [] part = "tools" -> "findings"

\* Slip: the run is summarized before the model review.
ContinueEarly(s) ==
  IF pc[s] \in {"findings", "files"}
    THEN Goto(s, "moving", "summarized")
    ELSE Goto(s, After(pc[s]), target[s])

Continue(s) ==
  IF pc[s] = "findings" \/ (pc[s] = "files" /\ ~review)
    THEN Goto(s, "moving", "summarized")
    ELSE Goto(s, After(pc[s]), target[s])

\* record_files, record_routing, record_tool_runs or record_findings: the row's
\* foreign key makes it wait for a transaction that holds the run's row.
CommitPart(s) ==
  /\ lock[KeyOf(s)] = None
  /\ parts' = [parts EXCEPT ![KeyOf(s)] = @ \cup {pc[s]}]
  /\ UNCHANGED <<status, lock>>

RecordPart(s) ==
  /\ pc[s] \in Parts
  /\ CommitPart(s)
  /\ Continue(s)
  /\ UNCHANGED <<githubVars, answers, counters>>

\* No tool ran, or no candidate was drafted: nothing is recorded.
NothingToRecord(s) ==
  /\ pc[s] \in {"tools", "findings"}
  /\ Continue(s)
  /\ UNCHANGED <<storeVars, githubVars, answers, counters>>

(***************************************************************************)
(* Failures.                                                               *)
(***************************************************************************)

\* client_factory, a GitHub read, or the model call raises.
RemoteFault(s) ==
  /\ pc[s] \in {"starting", "listing", "gathering"}
  /\ Raise(s)
  /\ UNCHANGED <<storeVars, githubVars, answers, counters>>

\* A slot that is at a store call.
AtStore(s) == pc[s] \in {"accepting", "inserted", "queued", "moving", "locked"} \cup Parts

\* What the slot does when its store call raises: the handler answers 503, the
\* task records the failure.
StoreRaised(s) ==
  IF pc[s] \in {"accepting", "inserted"}
    THEN Answer(s, "refused") /\ Retire(s)
    ELSE Raise(s) /\ UNCHANGED answers

\* The run of slot s has met with `what`.
Meet(s, what) == mishap' = [mishap EXCEPT ![KeyOf(s)] = @ \cup what]

\* The call did not take effect, and the connection's transaction is rolled back.
StoreFault(s) ==
  /\ AtStore(s) /\ faults < MaxFaults
  /\ faults' = faults + 1
  /\ Meet(s, IF Failing(s) THEN {"unrecorded failure"} ELSE {})
  /\ StoreRaised(s)
  /\ lock' = [k \in Keys |-> IF lock[k] = s THEN None ELSE lock[k]]
  /\ UNCHANGED <<status, parts, githubVars, requests, moves, crashes>>

\* The commit took effect and its answer was lost.
LostAnswer(s) ==
  /\ faults < MaxFaults
  /\ faults' = faults + 1
  /\ \/ pc[s] = "inserted" /\ CommitRow(s)
     \/ pc[s] = "locked" /\ CommitMove(s)
     \/ pc[s] \in Parts /\ CommitPart(s)
  /\ Meet(s, CASE pc[s] = "inserted" -> {"unheard insert"}
               [] pc[s] = "locked" /\ target[s] = "summarized" -> {"unheard summary"}
               [] OTHER -> {})
  /\ StoreRaised(s)
  /\ UNCHANGED <<githubVars, requests, moves, crashes>>

\* A slot in which a run, committed and not moved to its end, would stop.
Stopped(s) == pc[s] \notin {"idle", "accepting", "inserted"}

\* The process stops and is started again: every handler, every scheduled task
\* and every open transaction is gone, and nothing takes the runs up again.
Restart ==
  /\ crashes < MaxCrashes
  /\ crashes' = crashes + 1
  /\ pc' = [s \in Slots |-> "idle"]
  /\ event' = [s \in Slots |-> AnyEvent]
  /\ target' = [s \in Slots |-> "running"]
  /\ lock' = [k \in Keys |-> None]
  /\ mishap' = [k \in Keys |-> IF \E s \in Slots : Stopped(s) /\ KeyOf(s) = k
                               THEN mishap[k] \cup {"restart"} ELSE mishap[k]]
  /\ UNCHANGED <<status, parts, githubVars, answers, requests, moves, faults>>

\* GitHub: a push moves the pull request's head; a repository turns private.
Push(p, h) ==
  /\ moves < MaxMoves /\ head[p] # h
  /\ moves' = moves + 1
  /\ head' = [head EXCEPT ![p] = h]
  /\ UNCHANGED <<storeVars, slotVars, hidden, review, answers, requests, faults, crashes,
                 mishap>>

Hide(p) ==
  /\ moves < MaxMoves /\ ~hidden[p]
  /\ moves' = moves + 1
  /\ hidden' = [hidden EXCEPT ![p] = TRUE]
  /\ UNCHANGED <<storeVars, slotVars, head, review, answers, requests, faults, crashes,
                 mishap>>

------------------------------------------------------------------------------
\* A step of slot s that its thread takes by itself.
SlotStep(s) ==
  \/ InsertRun(s) \/ FindRun(s) \/ CommitRun(s) \/ AnswerAccepted(s)
  \/ Begin(s) \/ FetchPullRequest(s) \/ LockRow(s) \/ MoveRow(s)
  \/ Fetch(s) \/ RecordPart(s) \/ NothingToRecord(s) \/ RemoteFault(s)

Next ==
  \/ \E s \in Slots : \/ \E e \in Events : Receive(s, e)
                      \/ SlotStep(s) \/ StoreFault(s) \/ LostAnswer(s)
  \/ \E p \in PullRequests : Hide(p) \/ \E h \in Heads : Push(p, h)
  \/ Restart

\* Threads are scheduled, remote calls have timeouts and transactions end, so a
\* slot that can step does.  GitHub owes no delivery; faults and restarts are
\* never owed.
Spec == Init /\ [][Next]_vars /\ \A s \in Slots : WF_vars(SlotStep(s))

------------------------------------------------------------------------------
\* A slot that created its run and is not done with it.
Owning(s) == pc[s] \notin {"idle", "accepting"}

\* A run has one executor: of all the deliveries and redeliveries of an event,
\* at most one ever holds the run (store.create_or_get_run, "two workers racing
\* on the same redelivered webhook cannot both win").
OneExecutor ==
  \A s, t \in Slots : Owning(s) /\ Owning(t) /\ KeyOf(s) = KeyOf(t) => s = t

\* No run is left behind: a pending or running run has a slot that will move it
\* on, unless its own commit was not heard of, its own failure could not be
\* recorded, or the process was restarted under it; other runs' faults, and its
\* own faults that _fail makes good, excuse nothing (intake.execute_run, "Carry one
\* accepted run to a terminal state").
NoOrphanRuns ==
  \A k \in Keys :
    status[k] \in {"pending", "running"} =>
      \/ \E s \in Slots : Owning(s) /\ KeyOf(s) = k
      \/ mishap[k] \cap {"unheard insert", "unrecorded failure", "restart"} # {}

\* A run whose review was committed is never turned into a failure, unless the
\* answer to that very commit was lost: a fault before it, or a commit that was
\* rolled back, never does it (intake._fail).
DoneIsNotFailed ==
  [][\A k \in Keys : status[k] = "summarized" /\ status'[k] # "summarized"
                       => "unheard summary" \in mishap[k]]_vars

\* A run is skipped only when the pull request moved after it was opened or
\* pushed to at that commit, or its repository was made private: an event that
\* is current when it arrives and stays so is reviewed (intake._execute).
SkipNeedsMove ==
  \A e \in Events :
    status[Key(e)] = "skipped" => hidden[e.pr] \/ head[e.pr] # e.head \/ moves > 0

\* A summarized run has its guardrail verdicts, and a routing decision exactly
\* when the model review is on (intake._execute).
SummaryIsBacked ==
  \A k \in Keys :
    status[k] = "summarized" => "files" \in parts[k] /\ ("routing" \in parts[k] <=> review)

\* The whole intake implements the ledger the store promises.
ImplementsLedger == Ledger!LedgerSpec

\* A delivery GitHub was told is accepted is carried to a final state, whatever
\* faults it meets, unless its failure cannot be recorded or the process is
\* restarted under it (intake.execute_run, _fail).
AcceptedSettles ==
  \A e \in Events :
    "accepted" \in answers[e] ~>
      \/ status[Key(e)] \in {"summarized", "skipped", "failed"}
      \/ mishap[Key(e)] \cap {"unrecorded failure", "restart"} # {}

\* Every delivery is answered: no handler waits for ever on another's transaction.
HandlersAnswer ==
  \A s \in Slots : pc[s] = "accepting" ~> pc[s] \notin {"accepting", "inserted"}

\* A delivery that was only ever refused, and that nothing is working on, left
\* no run behind, so that redelivering it runs it (api.py, "The run store is
\* unavailable; redeliver this event later").
RefusedCanBeRedelivered ==
  \A e \in Events :
    answers[e] = {"refused"} /\ (\A s \in Slots : pc[s] = "idle" \/ event[s] # e)
      => status[Key(e)] = Absent \/ crashes > 0
==============================================================================
