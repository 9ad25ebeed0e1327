# Verification of prcritiq

TLA+ models of prcritiq's core logic, TLC configurations that check them on small instances, and
proofs for TLAPS. Source paths below are relative to the repository; `store.py` and the like are in
`src/prcritiq/`.

Contents: [what the system is](#the-system) · [modules](#modules) · [runs](#runs) ·
[bounds](#bounds) · [fairness](#fairness) · [theorems](#theorems) ·
[where code and text disagree](#where-code-and-text-disagree) · [what is left out](#what-is-left-out) ·
[plan](#plan)

Checking a run: `tlc -workers 2 -config WebhookIntake.cfg MCWebhookIntake`. Checking the proofs of a
module: `tlapm WebhookIntakeProofs.tla`.

## The system

prcritiq reviews GitHub pull requests. There are three ways in, over one set of parts: a webhook
(reviews, records, never posts), a command (`prcritiq review`, which may record and post) and a
public demo (reviews, keeps nothing). Beside them stands an evaluation harness.

```text
 GitHub --delivery--> api.github_webhook --> intake.accept_event --+
                            | background task                      |  create_or_get_run
                            v                                      v
                      intake.execute_run ------------------------> store (Postgres)
                            |                                      ^   ^
 prcritiq review --> review.run_dry_run --> review._persist_run ---+   | posted_comments
                            |            \-> posting.post_findings ----+--> GitHub comments
                            v
        gather_evidence: workspace -> tools -> retrieval
        run_review_graph: diff -> guardrails -> model -> critique
```

### Components

**Run store** (`store.py`, `migrations/`). State: one row of `review_runs` per idempotency key, with a
status, and rows of evidence (files, routing, tool runs, findings) and of posted comments. Operations:
`create_or_get_run` (`INSERT ... ON CONFLICT DO NOTHING`), `update_run_status` (`SELECT ... FOR UPDATE`,
then `assert_transition`), the four `record_*`. Each is a transaction. Shared by every handler, task and
command. Hard: races on one key, waits for one row, a commit whose answer is lost. Right when a run is
created once, moves only along the legal transitions, and its evidence is written once, while it runs.

**Webhook intake** (`api.py`, `intake.py`, `webhooks.py`). State: the request threads of one process and
the background tasks they schedule; nothing else survives a restart. Operations: receive, refuse or ignore
a delivery; accept it; answer; execute the run (look at the pull request again, move to running, gather,
record, summarize; `_fail` on any exception). Hard: redelivery during or after the first delivery, a push
or a change of visibility in between, store faults at every call, a restart anywhere. Right when a
delivery's run has one executor, is carried to an end, and is skipped, failed or summarized for a reason.

**Command** (`review.py`, `posting.py`). State: the run it writes, the comments it has posted. Operations:
`run_dry_run`, `_persist_run`, `post_findings`. Hard: two invocations at once, an invocation stopped
between a comment and its record, a push between two reads. Right when nothing on record is posted again,
records and comments agree, and "posted" is true.

**Demo rate limit** (`ratelimit.py`). State: a deque of stamps for each client, under a lock. One
operation, `acquire`, from every request thread. Hard: the clock is read outside the lock; trimming and
pruning forget stamps. Right when no window holds more than the limit, the Retry-After answer suffices,
and idle clients are dropped.

**Diff parser** (`diff.py`). State while parsing: cursors and the hunk under way. Hard: counts left out,
sides without lines, lines split by `str.splitlines`, cut patches. Right when an accepted patch means what
git meant, and a whole patch is accepted.

**Review graph** (`graph.py`, `guardrails.py`, `critique.py`, `findings.py`). State: the graph's state,
passed from node to node. Hard: precedence of objections, a budget by order, duplicates among suppressed
and published candidates. Right when the first reviewable files are kept, each place gets one finding, and
no sound finding is lost to a bad one.

**Evidence** (`workspace.py`, `tools.py`, `chunking.py`, `retrieval.py`, orchestrated by
`review.gather_evidence`). State: a temporary directory, sources in memory, tool runs, the context under
construction. Hard: several bounds at once, an exception at any member, cut tool output, a budget shared by
two kinds of chunk, and several reasons for one chunk. Right when every bound holds at every moment, an
"ok" is a whole answer, and the context keeps what is most related.

**Semantic verification** (`verification.py`, `verification_context.py`, `verification_sources.py`,
`verification_replay.py`, `cli._run_verify`). State: sources of two commits by case, the rulings so far, calls and
cost, `verification.json`. Operations: check the inputs, fetch or take the sources, build a finding's context, ask,
rule, write. Hard: one byte budget for both sides, a failure or an unusable answer in the middle of many findings, an
exit code that sums them up. Right when nothing is sent before it could be checked, a context is never quietly cut, and
exit 0 means that every finding was settled.

**Verifier experiment** (`eval/run_verifier_comparison.py`, over the replay).
State: a spend ledger, a manifest on disk, the replay under way. Hard: death between a request and its
record, failed requests with partial usage, two accounts of one cost. Right when the budget holds and the
manifest and the reports account for every request.

**Benchmark** (`benchmark.py`, `cli._run_eval`). State: the raw runs of the cases so far, what the provider charged,
and, in the search that pairs findings with labels, a matching shared by recursive calls. Operations: certify, run a
case, score, aggregate, judge, sweep thresholds. Hard: cases that fail or end the batch, labels that do not count, a
draft judged again at another threshold. Right when the pairing is one-to-one and a maximum, "passed" is earned by
every selected case, and the report is the run's.

**Ground truth** (`dataset.py`, `eval/build_dataset.py`, `eval/adjudicate_dataset.py`, `benchmark.certify_dataset`).
State: files only (fixture, dataset, queue, adjudicated dataset) and the thread on GitHub, which goes on. Operations:
harvest, export a queue, edit it by hand, apply it, certify. Hard: days between commands, files of different
harvests, rewritten comment positions, decisions of agents and of humans. Right when only what a human confirmed of
that revision is scored, and what is so confirmed is not refused without a reason.

**Not stateful or not the program's own logic**: GitHub client and App authentication (remote calls),
prompts and providers, configuration, schemas, reports, Markdown, tracing.

How they interact: the store is shared state between handlers, tasks and commands; GitHub is read, by
everyone, more than once per review and may change between the reads; the review graph and the evidence are
called by the intake and the command and share nothing with other calls; the limiter is shared by the
demo's threads. So each of the last four is modelled by itself, and the store with those who write it.

## Modules

| Code | Model | Proofs | What a step is |
|---|---|---|---|
| `store.py` status and evidence | `RunStatus` (constants), `RunLedger` (abstract) | `SharedStateProofs` | a transaction |
| `api.py`, `intake.py`, `webhooks.py`, `store.py` | `WebhookIntake` | `WebhookIntakeProofs` | a lock taken, a commit, a GitHub read |
| `review.py`, `posting.py`, `store.py` | `CliPosting` | `CliPostingProofs` | a transaction, a GitHub call |
| `ratelimit.py` | `RateLimiter` | `SharedStateProofs` | the clock read; the locked section |
| `diff.parse_patch` | `PatchParser` | `ReviewProofs` | a line of the patch |
| `graph.py`, `guardrails.py`, `critique.py` | `ReviewGraph` | `ReviewProofs` | a node, a file, a candidate |
| `workspace.py`, `tools.py`, `retrieval.py` | `SourceEvidence` | `SourceEvidenceProofs` | an archive member, a tool pass, a chunk |
| `chunking.py` | `Chunking` | `SourceEvidenceProofs` | a definition, or the rest of a file |
| `run_verifier_comparison.py`, `verification_replay.py` | `VerifierExperiment` | `VerificationProofs` | a checkpoint, a request, an answer, a row |
| `verification_context.py` | `CandidateContext` (operators) | `VerificationProofs` | |
| `verification_replay.py`, `verification_sources.py`, `verification.py`, `cli._run_verify` | `SemanticReplay`, which extends `CandidateContext` | `VerificationProofs` | a check of the inputs, a source, a call, a finding |
| `cli._run_eval`, `benchmark.py` | `BenchmarkRun` | `EvaluationProofs` | a case, a verdict on the dataset, the report |
| `dataset.py`, `build_dataset.py`, `adjudicate_dataset.py`, `benchmark.certify_dataset` | `GroundTruth` | `EvaluationProofs` | a command, an edited row, a comment |
| `benchmark._maximum_matching` | `FindingMatching` | `EvaluationProofs` | an iteration of `assign`, a call, a return |

`MC*` modules hold the values of constants for TLC. Four of them put machines side by side that share no state, so
that a behaviour is of one of them: `MCReview` (parsing a patch; the review graph), `MCSourceEvidence` (gathering;
cutting a file), `MCVerification` (the experiment; the replay command) and `MCEvaluation` (pairing; a run; ground
truth). Each machine starts from all its inputs while the others stay at one. Definitions named after "Slip:" comments are plausible
mistakes in the definition that follows them; nothing uses them, they are there to show that a property
would notice. `SumProofs` holds what the proofs of several components need to know of a sum.

**RunLedger** is what the store promises a reader: rows are created pending, moved along `_TRANSITIONS`, and
given each kind of evidence once, while running. `WebhookIntake` and `CliPosting` both implement it
(`ImplementsLedger`), for different keys (a delivery; a head) and with different failures.

**WebhookIntake.** A slot is a request of the process, `pc[s]` its place in `github_webhook`,
`accept_event` and `execute_run`. `InsertRun`/`CommitRun` split `create_or_get_run` at the point where
another INSERT of the key waits for it; `LockRow`/`MoveRow` split `update_run_status` at its row lock;
`RecordPart` waits for that lock too, because of its foreign key. `StoreFault` is a call that raises and
rolls back, `LostAnswer` one that committed and raises; both go where the code's handlers go (`Raise` is
`execute_run`'s `except` and `_fail`, which swallows its own exceptions). `Restart` forgets every slot.
`mishap` keeps, for each run by itself, what happened to it that no code makes good: the answer to its INSERT or to its
summarizing commit was lost, its failure could not be recorded, the process was restarted under it.
Pushes and visibility changes happen between any two steps.

**CliPosting.** A call is an invocation of the command, `seen[c]` the head `get_pull_request` gave it,
`diff[c]` the head whose files `list_changed_files` served. A store transaction is one step. A call may
`Stop` anywhere, so a call that took effect and lost its answer is its step and `Stop`. GitHub refuses a
comment on a line outside the commit's diff, and accepts one on its context lines.

**RateLimiter.** `Arrive` reads the clock, `Enter` does everything under the lock, `Tick` passes in between.

**PatchParser.** git and the parser run side by side: `Header` and `Body` are lines git writes, and the
parser reads them. The remainder of a source line split at a form feed or a line separator, which git did not write as
a line of its own, is read as a line of a hunk (`Rest`) or, when it looks like one, as a hunk header of any numbers
(`RestHeader`, remembered in `forged`). `End` may come anywhere, also inside a hunk. `gitChanged` and `gitDropped` are
the truth the parser's result is compared with.

**ReviewGraph.** A file carries the marks `evaluate_file` would find, a candidate the flaws `critique`
would; the model drafts anything. Gate and critique go file by file, candidate by candidate.

**SourceEvidence.** Extraction counts a member before it writes it; an exception at any member, or in the
download, leaves through the workspace's exit. `Read(n, size)` is what becomes of ruff's answer, of n problems in
`size` bytes of output, at the output cap: what is cut inside is not valid JSON, and nothing at all reads as no
problems. A pull request's files may be listed twice, and no setting is assumed to be positive.
`Offer` is `retrieve_context`'s inner function of that name; similarity is any score; `Score` is in units
of a tenth of the highest similarity, so that it stays a whole number. What a file holds is a constant.

**VerifierExperiment.** What a request is really billed (`billed`, `sent`) is kept beside what the ledger
knows of it. A death may tear the manifest that is being written (`Torn`).

**Chunking.** A text is the definitions the visit comes to, in its order; `Visit` claims the lines of one, as
`claimed` does in the code, and `Remain` makes runs of what is left. Lines are counted as `str.splitlines` does
(`Count`), definitions placed as the parser does; `feeds` is the difference.

**CandidateContext.** `Context(in)` is `build_candidate_context`, from the finding's enclosing function (`Enclosing`)
and its one counterpart in the base, each clipped around its anchor within what the budget leaves it
(`HeadBudget`), to the helpers in the order of their `Rank`. The code clips by dropping lines one by one from the end
that is farther from the anchor; `Clip` is the window that leaves, of the largest number of lines that fits. That the
two are the same is a theorem (`ClipIsTheLoop`). A source is the sizes of its lines and the functions in
it; `issues` are by kind.

**SemanticReplay.** A study is what the input files say, a supplied bundle of sources included, which may say anything
of a case: `BundleFits` is what the code checks of it, and `TakeBundle` takes what passes as it is. `Pass` and `Reject` are the checks before anything is sent,
in the code's order; `Fetch` reads one source, the one of those left (`todo`) whose `Turn` comes first by the order
of findings, sides and diffs, within the limits of a file and of a revision, and compares a case with
its frozen patches at its last. A finding is skipped (`Skip`) or its context is built (`Look`); then
`Dismiss` rules on it, or `Ask` and one of `Answer`, `Fail`, `Raise`; `written` is the
copy on disk. `Killed` may tear it. `Finish` computes the exit code. `requested` and `charged` keep what was really
asked and billed beside what the report knows.

**FindingMatching.** `stack` is the calls of `assign` under way.

**BenchmarkRun.** A candidate is what critique tests of it. `Review` keeps the draft and the evidence of a case's own
run, `served` what its own graph published; `Fail` and `Abort` are the two ways a case ends otherwise. `Metrics(t)`
judges every completed case again at threshold `t`; `Gates` is `evaluate_gates` on rates rounded to units of
1/`Scale` (10000 in the code), where a tie falls either way. `CostOf` is `Usage.cost_usd`: nothing of a model without a
listed price. The report's cost is rounded to multiples of `Grain`. `Matched` is `_maximum_matching` by its result, which the `FindingMatching` machine of the same run computes as
the code does and checks (`Maximum`).

**GroundTruth.** One pull request with several head revisions. A comment keeps `revision` and `line` (GitHub's
`original_*`) and has a rewritten `commit` and `shown`. `Harvest` freezes the strongest revision's fixture at once and
keeps the case in memory until `WriteDataset`, so `Stop` leaves a new fixture beside an old dataset. `Decide` edits a
row of the queue in any way, `Apply` is `adjudicate_dataset apply`, by label id, complete or draft. `Evaluate` begins
a live evaluation of either dataset file.

## Runs

Properties are commented where they are defined. All runs but five must pass.

| Run | Question | Properties |
|---|---|---|
| `intake` | What becomes of a delivery, with a second one, a push or a hiding, two store faults and a restart? | `OneExecutor`, `NoOrphanRuns`, `SkipNeedsMove`, `SummaryIsBacked`, `DoneIsNotFailed`, `ImplementsLedger`, `AcceptedSettles`, `HandlersAnswer` |
| `intake_refused` | Does a refused delivery leave nothing behind? It does not hold. | `RefusedCanBeRedelivered` |
| `posting` | Do two commands on one pull request, stopped anywhere, keep record, comments and runs in order? | `NoRepost`, `RecordFitsComments`, `PostedFitsComments`, `WriterOwnsRun`, `ImplementsLedger`, `RunsSettle` |
| `posting_line` | Does a comment only target a line the pull request added? It does not hold. | `CommentsTargetAddedLines` |
| `posting_twins` | Is every published finding posted? It does not hold. | `EveryFindingPosted` |
| `limiter` | Does the limiter keep its limit, its answer and its table, with requests one at a time? | `AtMostLimit`, `RetryFits`, `TableStaysSmall` |
| `limiter_threads` | Does it keep its limit with two threads? It does not hold. | `AtMostLimit` |
| `review` | Does an accepted patch mean what git meant, and is a whole one accepted; do gate and critique keep their promises on files and drafts in any order? | `MappedUnlessForged`, `WholeIsParsed`, `CutNeedsSplits`; `BudgetKeepsFirst`, `OnePerPlace`, `SoundIsServed` |
| `patch_split` | Is a patch with split lines mapped right or rejected, whatever was split? It does not hold. | `MappedOrRejected` |
| `evidence` | Do the bounds hold, is the context the strongest there is, and is every line of a file in a chunk? | `BoundsHold`, `StrongestKept`, `OkIsWhole`, `ChunksCover` |
| `experiment` | Does the money add up, whatever the provider answers and wherever the process dies; and does a replay send only what is checked and whole, and say so when it is not complete? | `SpendWithinBudget`, `SavedAccounts`, `ReportsAddUp`; `ContextIsWhole`, `RequestsAreWhole`, `ExitZeroIsComplete` |
| `matching` | Is the pairing one-to-one, stable and a maximum; is a pass earned and the report the run's; is what is scored ground truth, and refused for cause only? | `OneToOne`, `MatchedStays`, `Maximum`; `PassIsEarned`, `ReportIsTheRun`; `ScoredIsGroundTruth`, `RefusedForCause` |

Safety and liveness of the intake share one run, as those of the command do: they are asked of the same
behaviours. Type invariants that are proved are not run as well (`TypeOK` of every module with proofs), nor are
`ScopeBeforeModel` (no model call without a file in scope, `ModelNeedsScope`) and `DepthBounded` (the recursion is
as deep as there are labels at most, `RecursionIsBounded`).

Every cfg turns deadlock checking off, because the programs do stop: a command ends, a review is summarized,
the bounded environment has no delivery left to send. That nobody waits for ever is stated by the liveness
properties instead.

## Bounds

| Run | Bounds | Why they are enough |
|---|---|---|
| `intake` | 2 slots, 2 deliveries of 4 events (one opened, one pushed, two ignored), 1 push or hiding, 2 faults, 1 restart | Two requests meet on one key in every way a third could: one holds the row, the other waits or finds it. Two faults reach a failure inside `_fail` (the second fault in the handling of the first). |
| `intake_refused` | the same with 3 deliveries and 1 fault | refusal, redelivery, and its answer |
| `posting` | 2 calls, 2 heads, 3 lines, 2 texts, drafts of 0 to 2 findings, 1 push | Two calls on one head, or on two; a draft with a finding on record and one that is not; a line that is context in one head and added in the other |
| `limiter` | 1 thread, 2 clients, limit 2, window 4 ticks of half a second, threshold 1, 6 ticks | A stamp leaves the window, a refusal is rounded up, the table passes its threshold |
| `review`, parser, and `patch_split` | hunks of up to 2 old and 2 new lines, gaps up to 1, 2 hunks, 2 remainders of any kind, among them headers of starts and counts up to 2; cut anywhere | Counts 0, 1 (left out) and 2; a hunk closed by a header and one closed by the end; a remainder that makes a line too many, one that makes up for it, and one that closes a hunk early beside one that fills the hunk it opens |
| `review`, graph | up to 3 of 7 kinds of file, up to 3 of 6 kinds of candidate, budget 2 | The budget runs out before, at and after a skipped file; three candidates on one place |
| `evidence`, chunks | Python files of 6 lines and a possible form feed, of 6 layouts with any lines blank; scripts of 4 lines with any declarations; short is under 3 lines | A method folded into its class, nested classes, a run before, between and behind definitions, an empty run |
| `evidence`, gathering | 7 paths, 7 chunks, 3 archives, 3 changed-file lists, one with a file twice, 2 to 4 values of each limit (0, 1, 3 and 10 chunks; an output cap of 0, 2 and 3), scores 1 and 2 | Each limit is met exactly, passed by one and left unused; a limit of nothing; each reason alone and with each other |
| `experiment`, replay | context of 8 bytes and 3 lines per region, files of up to 4 lines; sources of 10 bytes, 14 in a revision; 2 calls, prices 0 and 1; up to 3 findings of up to 2 cases. Every layout of head, base and helper in a dry run that fetches; every other study in every mode | Head, base or both over their half, a line over all; a budget that helpers pass; the call limit met in the middle; sources of one case beside another's |
| `experiment`, experiment | 2 replays of 4 and 3 rows, 3 requests, budget 6, reserves 2 and 3 | Request cap, candidate cap and budget each stop it somewhere; a replay follows one that stopped |
| `matching`, run | 2 cases, the first with 0 to 2 labels of any standing, the second with 1 or 2; 7 drafts, 2 retrievals, thresholds 50 and 60, bills 0 and 2 with a price listed or not, cost in multiples of 3, rates in tenths, at least 1 case | A gate that holds on what is left only; 2 findings of 3, which is 0.7 once rounded and less before; a draft that is published at one threshold and hides another there; a failed and an aborted case with a bill; a total that rounding raises |
| `matching`, ground truth | 2 comments, the second of any kind or a reply; 2 revisions, 2 signals, 2 harvests, 1 edit, 4 decisions, 2 rows | A comment whose place was rewritten, a fixture newer than its dataset, words changed between queue and approval, a row twice |
| `matching`, pairing | 3 findings, 3 labels, every overlap, every order | Chains of hand-overs of length 2, owners that cannot move |

The proofs do not use these bounds, except that a bound is a constant they leave arbitrary.

## Fairness

`WebhookIntake` has weak fairness of each slot's own steps and `CliPosting` of each call's: request threads
and a started command are scheduled, GitHub and model calls have timeouts, and transactions end, so something
that can go on does. Every step a fair action needs is enabled by itself except those that wait for a row
lock, and a lock's holder is a fair slot. Not owed, and so never fair: deliveries, pushes, faults, a lost
answer, a restart, `Stop`. The liveness properties say so: an accepted run settles, whatever faults it meets,
*or* its failure could not be recorded or the process was restarted under it (`mishap`, which is that run's own);
the command's run settles *or* a call was stopped. The other specifications promise safety only and have no fairness.

## Theorems

A theorem holds for every value of the constants that satisfies the module's named assumptions. These are typing
(sets of records, naturals, finite sets), `SlotsAreNotNone`, and:

- `DefinitionsNest` (`Chunking`): definitions are within the parser's lines and overlap only where one is in a class
  around it, as in any syntax tree whose methods are visited with their class;
- `LimitsArePositive` and `StudiesFit` (`CandidateContext`, `SemanticReplay`): the byte and line limits are at least 1,
  a function's lines are lines of its file, and a finding's case is one of the study's;
- `EvaluationFits` (`BenchmarkRun`): thresholds are finitely many and the configured one is among them;
- `ScaleIsEven` (`BenchmarkRun`): rates are rounded to units of one over an even number, as 10000 is, so that one half
  is a rate and nothing below it rounds past it.

Every proof has the same shape: an inductive invariant of named parts; `Init` implies it; one lemma per action or per
group of actions, with a part's frame lemma where an action does not touch it; `[]` of it by PTL; and the properties
from it. The properties themselves are seldom inductive. What has to be added:

- **WebhookIntakeProofs**: `TypeOK`, `LockHeld` (who holds a row is inside a transaction on it),
  `OneExecutor`, `StepFits` (what a slot's place says of its run's status), `PartsFit` (what it says of the
  evidence: the parts recorded are those before its step), `EmptyUntilStarted`, `NoOrphanRuns`. Three further
  inductive parts rest on these: `DoneFits` (nobody works on a summarized run, unless the answer to its own summarizing commit was lost),
  `SummaryFits` (a slot about to summarize has recorded every part) and `SkipFits` (a slot about to skip saw a
  head or a visibility that has `Moved`). Theorems: `TypeCorrect`, `RunHasOneExecutor`, `OrphansNeedFaults`,
  `IntakeImplementsLedger`, `DoneStaysDone`, `SummaryHasEvidence`, `SkipHasReason`. The refinement needs
  `StepFits` to know that a move's test, made when the row is locked, still holds when it commits, and
  `PartsFit` that a part is never written twice.
- **CliPostingProofs**: `OneWriter` (one call writes a run), `WriterFits`, `EmptyUntilRunning`, `DraftFits`,
  `CommentsFit`, `RecordingFits` (a call that is recording has just posted that very comment),
  `RecordFitsComments`, `KnownFits` (records only grow), `NoRepost`, `ClosingFits` (a call that closes a run
  has a comment on record for it), `PostedFitsComments`. Theorems: `CliTypeCorrect`, `RerunRepeatsNothing`,
  `RecordsMatchComments`, `PostedIsTrue`, `WriterIsUndisturbed`, `CliImplementsLedger`.
- **SharedStateProofs**, the ledger: `LedgerTerminalIsFinal`, `LedgerNoEvidenceBeforeStart`, which the two
  refinements carry over to the intake and the command.
  The limiter: `TableIsPruned` holds for any threads. The other two are proved while `OneInside` holds, that at most
  one call is between its clock reading and the lock, which a single thread meets by itself
  (`OneThreadKeepsTheLimit`); without it the limit does not hold, which is finding 5. `OrderInv` (what was let through
  is in order, and not after the clock), `DequeInv` (a deque is the end of what was let through, the rest is out of
  every window to come), `SpacedInv` (a window passes between a stamp and the `Limit`-th after it), `RefusalInv` (what
  a refused client waits for). Theorems: `LimitHolds`, `RetryIsExact`.
- **ReviewProofs**, the parser: while reading (`Reading`), a cursor and the lines git has left of its side together
  reach at least to where the header says the side ends, and exactly there only if no split line was counted into
  the side, and then its lines are git's (`NewSide`, `OldSide`). That is the point of the strict counts: a remainder
  only ever adds to a cursor, so one that ends where the header says was never ahead. It holds of remainders that are
  lines of a hunk. One that reads as a header closes git's hunk early and opens one that git has no lines for; alone it
  leaves one of the two short, and so the theorem excepts patches with such a remainder and a second one beside it
  (finding 4). How far a cut patch may fall short of its hunk is counted in remainders. Theorems: `ParserTypeCorrect`,
  `AcceptedIsMapped` (for any number of remainders, but for that exception), `WholeIsAccepted`,
  `CutNeedsRemainders`.
  The graph: `GateInv` (the count of kept files is the number in scope), `ScopeInv`,
  `CritiqueInv` (`seen` is the keys of what is published). Theorems: `GraphTypeCorrect`, `BudgetIsFirstCome`,
  `PlacePublishedOnce`, `SoundFindingServed`, `ModelNeedsScope`.
- **SumProofs**: totals of bytes, cost and outcomes are folds over a set, and induction on one is beyond the provers.
  But a sum of naturals is the number of its units, the pairs of an element and a number up to its value
  (`SumIsCount`), and about `Cardinality` the library knows enough. Where an induction is needed underneath, the least
  counterexample does instead (`LeastNumber`, from the library's fact that `<` is well-founded on the naturals). A sum
  then grows with a new element by its value, is monotone, and splits over disjoint sets.
- **SourceEvidenceProofs**, gathering: `SnapshotInv` (the disk has no more files than were counted), `ToolsInv`,
  `FocusInv` (the focus is of files already taken, and only of a file listed twice is a chunk in it again or still to
  come), `RelatedInv`
  (what is kept outranks what is to come), `ReasonsHold`, `TiersHold`; and about sizes `DiskInv` (what is on disk was
  counted), `SpentInv` (what is spent is the sizes of what is kept), `LeftOutInv` (a related chunk is still to come, is
  kept, or did not fit beside those at least as strong) and `TruncatedInv` (what had its turn and is not kept is told of;
  `Came` is the changed chunks that had theirs). Theorems: `EvidenceTypeCorrect`,
  `OkAnswerIsWhole`, `SizesWithinBudget`, `StrongestAreKept`, and of the latter's parts, at every moment,
  `ReasonsAreStrongest` and `TiersAreOrdered`. `PrecedesTier` is the arithmetic of the score: nine tenths never make up
  for a tier. Chunks: `CutInv` (each definition visited that stands alone has its chunk, and its lines are claimed);
  the runs between are all of the rest. Theorem: `FileIsCovered`.
- **VerificationProofs**, the experiment: `ScheduleInv`, `SavedInv`, `MoneyInv`, `CleanInv`, `FlightInv` (what is known
  while a request is under way), `ReportInv`. Theorems: `ExperimentTypeCorrect`, `BudgetHolds`,
  `ManifestAccounts`, `ReportsAgree`.
  The context is an operator, so its theorem is about every input (`ContextsAreWhole`): `ClipIsTheLoop`
  (`Clip` is what the code's loop leaves, `DroppingALineIsAWindow` being a turn of it), `ClipHolds` (a clip is within
  its region, holds the anchor, and is whole if the region fits), `AddEffect` (what one snippet adds to a context),
  `PrimaryHolds` (neither half of the budget is taken from the other side), and helpers only add (`Extends`).
  The replay: `ReplayInv` (`StageInv`, `ViewsInv`, `AccountInv`, `AnsweredInv`: while nothing was left out each ruling
  had its request; `RulingsInv`, `ExitInv`) gives `ExitZeroMeansSettled`; `DiskInv` (`BundlesInv`: what is at hand of a
  case is its repository's if it was fetched and the bundle's own of that very case if it was supplied; `CheckedInv`:
  the case's frozen patches do not contradict it; `WantedInv`; `FlawsInv`: each stage knows what was checked before it; `WrittenInv`: the
  report is behind by one request at most) gives, with the context's theorem, `ContextsStayWhole` and
  `RequestsStayWhole`.
- **EvaluationProofs**, the matching: `WaitInv` (each waiting call is at a visited label of its own, which belongs
  to the finding it asked), `OwnerInv` (only a finding that has just found another label owns two), `LoopInv`, and
  for the depth `DepthInv`. Theorems: `MatchingTypeCorrect`, `PairingIsOneToOne`, `LabelledStaysLabelled`,
  `RecursionIsBounded`. `PairingIsMaximum` does not go by augmenting paths, which would be an induction, but by a
  certificate the search leaves behind: a set of labels, all owned, that neither their owners nor the findings without
  a label match anything outside of (`Sealed`). `SearchInv` says that what a search has tried becomes such a set if it
  fails, `SealInv` that later searches keep one, and `SealedIsMaximum` counts.
  Ground truth: `FilesInv` (shapes), `PlacesInv` (a label on any file has the place its
  comment has for good, whichever harvest wrote it) and `WordsInv` (while no dataset was written over a queue, a
  decision is about the words the file has) give `ScoredIsConfirmed`; `SourceInv` (what any file labels was a
  reviewer's comment on an added line of the harvested revision) gives `RefusalHasCause`.
  A run: `ProgressInv`, `ServedInv` (what each case's graph published is what critique leaves of its draft), `BillInv`,
  `MadeInv` give `ReportsTheRun` and `PassesAreEarned`. The latter takes the largest pairing of each case
  (`MatchedIsReached`), and puts them side by side in one answer, as many as the sum of the parts (`FanIsSum`).
  A rounded rate is within half a unit of the exact one, and as the scale is even one that is over a half was over a
  half before, so that half of the gate is exact and the other is stated with its half unit.

Only model-checked:

- liveness (`AcceptedSettles`, `HandlersAnswer`, `RunsSettle`): out of the prover's reach, as is `ENABLED`;
- what the five runs that expect a violation show.

Every other invariant and action property of a passing run is a theorem. No module uses a `RECURSIVE` operator.

## Where code and text disagree

Each of the first five is a run that must find its counterexample.

1. **A refused delivery can leave a run behind** (`intake_refused`). `api.py:171` answers 503, "redeliver this
   event later", to every exception of `accept_event`, also when the INSERT was committed and its answer lost.
   The redelivery has the same key, finds the pending run, and is told that it was not run again. The run stays
   pending.
2. **A comment can target a line the pull request did not add** (`posting_line`). `run_dry_run` reads the head,
   then the diff of whatever the head is by then; comments go to the first at lines of the second. `README.md:35`
   says that cannot be.
3. **Equal findings on two lines get one comment** (`posting_twins`). The text of a comment names neither path nor
   line, and `_already_posted` goes by its hash. `posting.py:110` says "Post every published finding that still
   validates, exactly once."
4. **A patch with split lines can be mapped wrong** (`patch_split`). `parse_patch` splits with `str.splitlines`, which
   also splits at a form feed inside a source line. A remainder that reads as a hunk header closes the hunk and opens
   another, and a second remainder can fill that one: `@@ -1,1 +1,2 @@`, ` a`, `+b\f@@ -9,0 +9,1 @@\f+c` is accepted
   with added lines 2 and 9, of which git wrote only the first. `diff.py:3-7` says that "a silently mis-mapped line
   number is exactly the failure this module exists to prevent". For the same reason a patch cut inside a hunk is
   accepted when remainders stand in for the missing lines (`@@ -0,0 +1,2 @@`, `+a\f+b`), and not otherwise
   (`CutNeedsSplits`).
5. **Two threads can pass the limit** (`limiter_threads`). `acquire` reads the clock before it takes the lock; a
   thread that enters late adds a stamp to a deque another has already trimmed beyond it. `ratelimit.py:22` says "at
   most `limit` hits per key within any `window_seconds` span".
6. Noted, without a run: tools look for configuration in the snapshot, which has indexable source files only. So
   `ruff.toml`, `.eslintrc.json` and `tsconfig.json` are never found: the comment at `tools.py:271` ("honored") does
   not come about, `tsc` always reports that there is no `tsconfig.json`, and `eslint` is refused (`README.md:40`)
   only for configurations that are scripts. `SourceEvidence` has it: `TsConfig` is on no disk it can reach.

7. Noted, without a run, in the evaluation:
   - A label is made of a comment's `original_commit_id` and `original_line` (`dataset.py:361`, `docs/evaluation.md:25`,
     "reconstructed from its immutable"), but certification compares `commit_id` and `line` first
     (`benchmark.py:671`), which GitHub rewrites. A human-approved label on a comment that was rewritten before the
     harvest is refused. `RefusedForCause` says that this is the only unearned refusal there is.
   - Decisions are applied by label id alone (`dataset.py:712`): after another harvest of an edited comment, an approval
     lands on words the human did not read. `ScoredIsGroundTruth` excepts that case (`stale`).
   - A failed case counts no cost even when its call was billed (`benchmark.py:940`), and a model without a listed
     price costs nothing (`providers.py:88`); `docs/evaluation.md:17` says every case records its estimated cost.
     `ReportIsTheRun` says that the cost is at most the bill, and the bill when
     nothing failed and every price is listed, either but for half a unit of rounding.
   - `prcritiq eval` writes its report at the end: a process that dies in between loses the runs that were paid for.
   - The gate judges rates after they are rounded to four places (`benchmark.py:428`), so 1402 of 2003 findings pass as
     0.70. `PassIsEarned` allows for it.
   - A harvest sees the newest 100 comments of a pull request only (`build_dataset.py:189`).
   - A label whose category is JSON null is stored as the string "None" (`dataset.py:723`).
8. Noted, without a run, in the replay and the chunks: a finding on an added file never gets a verdict, because a
   context without a base is not usable (`verification_replay.py:374`, as a comment there says); a helper that exceeds
   the budget makes the whole context unusable, though both primary regions are there; the text of a chunk is cut at
   `str.splitlines` lines and its bounds counted in the parser's, so a form feed shifts every chunk behind it
   (`chunking.py:89`). `ChunksCover` is about the bounds, which still cover. Sources that are supplied as a bundle are
   checked against the patches' lines and otherwise trusted, as `verification_replay.py:332` says, so what a request
   shows of them is the bundle's word.
9. Noted, without a run, in the evidence: no output at all from ruff, or an output cap of 0, reads as ok without
   problems (`tools.py:216`, wanted by `tests/test_tools.py:210`); a context of 0 chunks still shows one of the changed
   files (`retrieval.py:246`); and of a file that is listed twice a chunk is shown, and counted, twice.

Known and documented limits are not findings: a run interrupted by a restart is not reclaimed, and posting is not
crash-safe or concurrency-safe exactly-once (`docs/security.md:38`, `README.md:69`, `docs/architecture.md:57`,
`docs/deployment.md:165`). `NoOrphanRuns`, `RecordFitsComments` and `NoRepost` are stated to what is promised.

## What is left out

Abstractions inside the modules:

- `WebhookIntake`: signature and payload refusals, which change no state; installation and repository are folded
  into the pull request. Reads by `run_status`.
- `CliPosting`: gating of flags and tokens before the run starts.
- `RateLimiter`: real time is ticks. The address a client is known by comes from outside.
- `PatchParser`: lines before the first header.
- `ReviewGraph`: texts of files and findings (marks and flaws); `static_analysis` and `retrieve_context` only carry
  what the review was given, which is `SourceEvidence`'s.
- `SourceEvidence`: how identifiers are scored; the floating point of 0.7 and 0.9;
  the child process of a tool; members that are not regular files or have unsafe names count as not indexable. The
  size of the downloaded archive is not bounded by the code, nor here. Settings are natural numbers (nothing in
  `config.py` refuses a negative one), and a pull request's files come in one list.
- `VerifierExperiment`: preparation and validation of cases. A request is billed within its reserve: that is the
  assumption `request_reserve` makes. The usage a failed request reports is charged as it stands, so
  `SavedAccounts` excepts the case that it does not add up (`doubt`).
- `FindingMatching`: how edges come about (paths, lines and words in common) is `MCEvaluation`'s enumeration.
- `Chunking`: symbols and the text itself; the parser's answer is the definitions of a text. A tree too deep for the
  interpreter's recursion is not modelled (`chunk_python` does not catch it).
- `CandidateContext`: the digest of a snippet, the text of an issue beyond its kind, a syntax error's position.
- `SemanticReplay`: the wording of prompts; a study's flaws are given, one at each check, not derived from file
  contents; whether a source has the lines of its patch is a mark (`wrong`).
- `BenchmarkRun`: latency, the provider and effort columns; the report's file.
- `GroundTruth`: the text tests of a comment (defect language, bots, paths) are marks; the scan of repositories;
  ids, hashes and paths of files.

Components that are not modelled, and why, are in PROJECT.json: those without state of their own (demo endpoint,
client, authentication), those that build strings or parse arguments, and one-shot file transformations.

## Plan

In order of what they would add:

1. A run on tool configuration (6 above), and one on certification (7, its first point), once runs can be spared.
2. Proofs: what holds of the limiter under several threads; that a run of the benchmark uses the pairing the
   `FindingMatching` machine finds, as a refinement instead of by its size; that a replay's contexts depend on its
   sources only.
3. Pages of `list_changed_files` under a push (a hazard without a property), and `migrate` by two processes.
4. The preparation of the experiment's frozen inputs and its blinded export.
