----------------------------- MODULE BenchmarkRun -----------------------------
(***************************************************************************)
(* One run of `prcritiq eval` (cli._run_eval): the dataset is certified    *)
(* whole before a live run, its first cases are reviewed one by one        *)
(* (benchmark.execute_case), and what the reviews drafted is scored and    *)
(* judged (score_raw, aggregate, evaluate_gates, threshold_sweep).         *)
(*                                                                         *)
(* A label is what a human decided of it and whether it is on an added     *)
(* line of the fixture; a candidate is what critique tests of it, and the  *)
(* labels `matches` says it answers.  Certification is told here by its    *)
(* verdict on a case's provenance; GroundTruth has it in full.             *)
(***************************************************************************)
EXTENDS Naturals, Sequences, FiniteSets, FiniteSetsExt, Functions

CONSTANTS
  Corpora,                \* what the dataset file may hold: sequences of cases
  Places,                 \* _duplicate_key: path, line and category
  Refs,                   \* what a candidate may cite
  Retrievals,             \* what a run may have retrieved: sets of them
  Reviews,                \* what the model may draft: sequences of candidates
  Thresholds,             \* publish thresholds of the sweep, the configured one among them
  MinConfidence,          \* settings.min_publish_confidence
  Enough,                 \* the corpus size gate's least number of reviewed cases
  Bills,                  \* what a provider may charge for one case
  Scale,                  \* a rate is reported in units of 1 / Scale: four places
  Grain                   \* what is charged in one unit a cost is reported in: four places

LabelKinds == [status : {"confirmed", "excluded", "provisional"}, onLine : BOOLEAN]

Cases == [labels : Seq(LabelKinds), sourced : BOOLEAN]

Candidates == [place : Places, flaws : SUBSET {"invalid_line", "no_evidence", "generic"},
               refs : SUBSET Refs, confidence : Nat, near : SUBSET Nat]

ASSUME EvaluationFits ==
  /\ Corpora \subseteq Seq(Cases) /\ Reviews \subseteq Seq(Candidates)
  /\ Thresholds \subseteq Nat /\ IsFiniteSet(Thresholds) /\ MinConfidence \in Thresholds
  /\ Retrievals \subseteq SUBSET Refs
  /\ Enough \in Nat \ {0} /\ Bills \subseteq Nat /\ Grain \in Nat \ {0}

\* A half is a number of units.
ASSUME ScaleIsEven == Scale \in Nat \ {0} /\ \E half \in 1..Scale : Scale = 2 * half

VARIABLES
  stage, corpus,
  live,                   \* not --fixture-mode
  selected,               \* cases[:limit], its length
  raws,                   \* RawCaseRun of each case run so far
  served,                 \* what each case's own graph run published
  billed,                 \* what the provider has charged
  aborted, report

evalVars == <<stage, corpus, live, selected, raws, served, billed, aborted, report>>

NoReport == [passed |-> FALSE, cost |-> 0, sweep |-> <<>>]

EvalInit ==
  /\ stage = "start" /\ corpus \in Corpora /\ live \in BOOLEAN
  /\ selected = 0 /\ raws = <<>> /\ served = <<>> /\ billed = 0
  /\ aborted = FALSE /\ report = NoReport

------------------------------------------------------------------------------
(***************************************************************************)
(* Scoring.                                                                *)
(***************************************************************************)

\* critique asks of a citation only when the run had evidence to cite.
Invented(candidate, known) ==
  known # {} /\ candidate.refs # {} /\ candidate.refs \cap known = {}

\* Nothing but its confidence, or an earlier finding, can suppress it.
Sound(candidate, known) == candidate.flaws = {} /\ ~Invented(candidate, known)

\* critique: the first fit finding of each place.
Published(drafted, known, threshold) ==
  LET fit == {i \in DOMAIN drafted :
                Sound(drafted[i], known) /\ drafted[i].confidence >= threshold}
  IN  {i \in fit : \A j \in fit : j < i => drafted[j].place # drafted[i].place}

\* Suppressed as generic, or as the duplicate of a published finding.
Spam(drafted, known, threshold) ==
  {i \in DOMAIN drafted :
     /\ drafted[i].flaws \subseteq {"generic"} /\ ~Invented(drafted[i], known)
     /\ \/ drafted[i].flaws # {}
        \/ \E j \in Published(drafted, known, threshold) :
             j < i /\ drafted[j].place = drafted[i].place}

\* score_case: the labels a case is scored on.
Eligible(labels) == {l \in DOMAIN labels : labels[l].status # "excluded" /\ labels[l].onLine}

Invalid(labels) == {l \in DOMAIN labels : labels[l].status # "excluded" /\ ~labels[l].onLine}

\* _maximum_matching by what it returns (see FindingMatching): its size.
Matched(drafted, published, labels) ==
  LET edges == {e \in published \X Eligible(labels) : e[2] \in drafted[e[1]].near}
      OneToOnePairs == {pairs \in SUBSET edges : \A e, f \in pairs : e[1] = f[1] <=> e[2] = f[2]}
  IN  Max({Cardinality(pairs) : pairs \in OneToOnePairs})

\* score_case: what one case's reviewed findings say of its labels.
ScoreCase(labels, drafted, published, spam) ==
  LET eligible == Eligible(labels)
  IN  [labels |-> Cardinality(eligible),
       unadjudicated |-> Cardinality({l \in eligible : labels[l].status # "confirmed"}),
       invalid |-> Cardinality(Invalid(labels)),
       findings |-> Cardinality(published),
       matched |-> Matched(drafted, published, labels),
       spam |-> Cardinality(spam)]

\* score_raw: a case judged again at a threshold, by what its run had.
Outcome(case, raw, threshold) ==
  ScoreCase(case.labels, raw.drafted, Published(raw.drafted, raw.known, threshold),
            Spam(raw.drafted, raw.known, threshold))

Completed == {i \in DOMAIN raws : ~raws[i].failed}

\* aggregate, over the cases that did not fail.
Metrics(threshold) ==
  LET outcome == [i \in Completed |-> Outcome(corpus[i], raws[i], threshold)]
      Total(field) == SumFunction([i \in Completed |-> outcome[i][field]])
  IN  [field \in {"labels", "unadjudicated", "invalid", "findings", "matched", "spam"} |->
         Total(field)]

\* round(m / n, ..): the nearest unit.  A tie falls as the float next to the quotient
\* does, which the model leaves open.
Rounded(m, n) == CHOOSE r \in 0..m : 2 * n * r <= 2 * m + n /\ 2 * m <= 2 * n * r + n

Rate(m, n) == IF n = 0 THEN 0 ELSE Rounded(Scale * m, n)

\* Slip: failed cases do not count against the run.
GatesSkipFailures(m) ==
  /\ Cardinality(Completed) >= Enough
  /\ m.labels > 0 /\ m.unadjudicated = 0 /\ m.invalid = 0
  /\ 2 * Rate(m.matched, m.labels) > Scale
  /\ 10 * Rate(m.matched, m.findings) >= 7 * Scale
  /\ 10 * Rate(m.spam, m.findings + m.spam) <= Scale

\* evaluate_gates, on the rates as aggregate rounds them.  The invalid-line and no-evidence rates are over published
\* findings, and critique publishes none that has either flaw.
Gates(m) ==
  /\ Cardinality(Completed) >= Enough
  /\ Completed = DOMAIN raws
  /\ m.labels > 0 /\ m.unadjudicated = 0 /\ m.invalid = 0
  /\ 2 * Rate(m.matched, m.labels) > Scale
  /\ 10 * Rate(m.matched, m.findings) >= 7 * Scale
  /\ 10 * Rate(m.spam, m.findings + m.spam) <= Scale

------------------------------------------------------------------------------
(***************************************************************************)
(* The run.                                                                *)
(***************************************************************************)

\* No dataset file, or --model with no provider to give it to.
Refuse ==
  /\ stage \in {"start", "certified"}
  /\ stage' = "refused"
  /\ UNCHANGED <<corpus, live, selected, raws, served, billed, aborted, report>>

\* certify_dataset, one case.
CaseCertifies(case) ==
  /\ case.sourced
  /\ \A l \in DOMAIN case.labels :
       \/ case.labels[l].status = "excluded"
       \/ case.labels[l] = [status |-> "confirmed", onLine |-> TRUE]
  /\ \E l \in DOMAIN case.labels : case.labels[l].status # "excluded"

\* The whole dataset, before --limit; not in fixture mode.
Certify ==
  /\ stage = "start"
  /\ stage' = IF live /\ (corpus = <<>> \/ \E i \in DOMAIN corpus : ~CaseCertifies(corpus[i]))
              THEN "refused" ELSE "certified"
  /\ UNCHANGED <<corpus, live, selected, raws, served, billed, aborted, report>>

\* cases[:limit], all of them for 0.
Select(limit) ==
  /\ stage = "certified"
  /\ selected' = IF limit = 0 THEN Len(corpus) ELSE Min({limit, Len(corpus)})
  /\ stage' = "running"
  /\ UNCHANGED <<corpus, live, raws, served, billed, aborted, report>>

Charge(bill) == billed' = IF live THEN billed + bill ELSE billed

Running == stage = "running" /\ Len(raws) < selected

\* Usage.cost_usd: nothing, of a model that has no price listed.
CostOf(bill, listed) == IF live /\ listed THEN bill ELSE 0

\* Slip: the raw run is kept without its retrieval.
ReviewForgets(drafted, known, bill, listed) ==
  /\ Running
  /\ Charge(bill)
  /\ raws' = Append(raws, [drafted |-> drafted, known |-> {}, failed |-> FALSE,
                           listed |-> listed, cost |-> CostOf(bill, listed)])
  /\ served' = Append(served, Published(drafted, known, MinConfidence))
  /\ UNCHANGED <<stage, corpus, live, selected, aborted, report>>

\* execute_case: the evidence is kept, and what the graph's usage cost.
Review(drafted, known, bill, listed) ==
  /\ Running
  /\ Charge(bill)
  /\ raws' = Append(raws, [drafted |-> drafted, known |-> known, failed |-> FALSE,
                           listed |-> listed, cost |-> CostOf(bill, listed)])
  /\ served' = Append(served, Published(drafted, known, MinConfidence))
  /\ UNCHANGED <<stage, corpus, live, selected, aborted, report>>

\* Any other exception: a failed case, whose usage is not known.
Fail(bill) ==
  /\ Running
  /\ Charge(bill)
  /\ raws' = Append(raws, [drafted |-> <<>>, known |-> {}, failed |-> TRUE,
                           listed |-> FALSE, cost |-> 0])
  /\ served' = Append(served, {})
  /\ UNCHANGED <<stage, corpus, live, selected, aborted, report>>

\* ProviderBillingError ends the batch; the case is not among the outcomes.
Abort(bill) ==
  /\ Running /\ live
  /\ Charge(bill)
  /\ aborted' = TRUE /\ stage' = "aborted"
  /\ UNCHANGED <<corpus, live, selected, raws, served, report>>

\* threshold_sweep.
Sweep == [t \in Thresholds |-> Metrics(t)]

\* The report, from the runs there are.
Report ==
  /\ \/ stage = "running" /\ Len(raws) = selected
     \/ stage = "aborted"
  /\ report' = [passed |-> Gates(Metrics(MinConfidence)) /\ ~aborted,
                cost |-> Rounded(SumFunction([i \in DOMAIN raws |-> raws[i].cost]), Grain),
                sweep |-> Sweep]
  /\ stage' = "done"
  /\ UNCHANGED <<corpus, live, selected, raws, served, billed, aborted>>

EvalNext ==
  \/ Refuse \/ Certify \/ Report
  \/ \E limit \in 0..Len(corpus) : Select(limit)
  \/ \E bill \in Bills :
       \/ Fail(bill) \/ Abort(bill)
       \/ \E drafted \in Reviews, known \in Retrievals, listed \in BOOLEAN :
            Review(drafted, known, bill, listed)

EvalSpec == EvalInit /\ [][EvalNext]_evalVars

------------------------------------------------------------------------------
(***************************************************************************)
(* Properties.                                                             *)
(***************************************************************************)

\* The defects humans confirmed in the selected cases.
Defects ==
  UNION {{<<i, l>> : l \in {k \in DOMAIN corpus[i].labels :
                              corpus[i].labels[k].status = "confirmed"}} : i \in 1..selected}

AllPriced == \A i \in DOMAIN raws : ~raws[i].failed /\ raws[i].listed

PublishedCount == SumFunction([i \in DOMAIN served |-> Cardinality(served[i])])

\* A report that says passed was earned: every selected case was reviewed and every
\* label of theirs decided by a human, and the published findings can be told apart
\* so that each answers at most one defect, more than half of all confirmed defects
\* are answered, and 7 in 10 findings answer one but for half a unit of rounding (1402
\* of 2003 are 0.70 to the gate: evaluate_gates, "letting it fill the corpus would let
\* a run that never reviewed anything report a passing corpus size"; the gates are
\* sums over the cases and labels that remain after failures and exclusions).
PassIsEarned ==
  stage = "done" /\ report.passed =>
    /\ selected >= Enough /\ Completed = 1..selected
    /\ \A i \in 1..selected : \A l \in DOMAIN corpus[i].labels :
         corpus[i].labels[l].status # "provisional"
    /\ \E answer \in [Defects -> {0} \cup UNION {served[i] : i \in DOMAIN served}] :
         LET answered == {d \in Defects : answer[d] # 0}
         IN  /\ \A d \in answered :
                  /\ answer[d] \in served[d[1]] /\ d[2] \in raws[d[1]].drafted[answer[d]].near
                  /\ \A e \in answered : d[1] = e[1] /\ answer[d] = answer[e] => d = e
             /\ 2 * Cardinality(answered) > Cardinality(Defects)
             /\ 20 * Scale * Cardinality(answered) + 10 * PublishedCount
                  >= 14 * Scale * PublishedCount

\* The report is the run's: at the configured threshold it counts what the graph
\* itself published, a lower threshold publishes on every place a higher one does
\* (score_raw; docs/evaluation.md, "threshold sweeps preserve the graph's
\* retrieval/tool evidence, so unknown-reference suppression cannot disappear during
\* evaluation"), and its cost is no more than what was charged, and no less either
\* when no case failed (execute_case, `except Exception`) and each case's model has
\* a price listed (Usage.cost_usd), half a unit of rounding apart.
ReportIsTheRun ==
  stage = "done" =>
    /\ report.sweep[MinConfidence].findings = PublishedCount
    /\ \A i \in DOMAIN raws : \A low, high \in Thresholds : low <= high =>
         LET On(t) == {raws[i].drafted[k].place :
                         k \in Published(raws[i].drafted, raws[i].known, t)}
         IN  On(high) \subseteq On(low)
    /\ 2 * Grain * report.cost <= 2 * billed + Grain
    /\ ~aborted /\ AllPriced => 2 * billed <= 2 * Grain * report.cost + Grain
==============================================================================
