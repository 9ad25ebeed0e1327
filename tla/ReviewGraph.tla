----------------------------- MODULE ReviewGraph -----------------------------
(***************************************************************************)
(* One review of a pull request (graph.run_review_graph): the guardrail    *)
(* gate over the changed files (guardrails.apply_guardrails), the model's  *)
(* draft, and self-critique over its candidates (critique.critique).       *)
(*                                                                         *)
(* The gate and the critique take one file, one candidate a step.  What    *)
(* they test of a file or of a finding's text is a set of marks the file   *)
(* or finding carries; what the model drafts is anything at all.           *)
(***************************************************************************)
EXTENDS Naturals, Sequences, FiniteSets

CONSTANTS
  Paths, Lines, Categories,
  PullRequests,           \* what list_changed_files may serve: sequences of changed files
  Drafts,                 \* what the model may draft: sequences of candidates
  MaxFiles                \* settings.max_files

\* Why a file may be out of scope, in the order evaluate_file asks, and the
\* decision it is skipped with.
Precedence == <<
  [mark |-> "unsafe_path",       decision |-> "skipped_unsafe_path"],
  [mark |-> "binary",            decision |-> "skipped_binary"],
  [mark |-> "lockfile",          decision |-> "skipped_lockfile"],
  [mark |-> "vendored",          decision |-> "skipped_vendor"],
  [mark |-> "generated_name",    decision |-> "skipped_generated"],
  [mark |-> "generated_segment", decision |-> "skipped_generated"],
  [mark |-> "generated_marker",  decision |-> "skipped_generated"],
  [mark |-> "other_language",    decision |-> "skipped_unsupported_language"],
  [mark |-> "oversized_patch",   decision |-> "skipped_oversized_file"],
  [mark |-> "no_patch",          decision |-> "skipped_oversized_diff"],
  [mark |-> "too_many_changes",  decision |-> "skipped_oversized_diff"]>>

Marks == {Precedence[i].mark : i \in DOMAIN Precedence}

Decisions == {"reviewable"} \cup {Precedence[i].decision : i \in DOMAIN Precedence}

\* `parses` is whether parse_patch accepts the patch, `added` its added lines.
ChangedFiles == [path : Paths, marks : SUBSET Marks, parses : BOOLEAN, added : SUBSET Lines]

\* What a candidate's text and citations may lack.
Flaws == {"no_evidence", "unknown_source_ref", "generic", "low_confidence"}

Candidates == [path : Paths, line : Lines, category : Categories, flaws : SUBSET Flaws]

ASSUME InputsFit ==
  /\ PullRequests \subseteq Seq(ChangedFiles)
  /\ Drafts \subseteq Seq(Candidates)
  /\ MaxFiles \in Nat

VARIABLES
  node,                   \* the node the graph is at
  files,                  \* changed_files
  outcomes, kept,         \* the gate's decisions so far, and its count of reviewable ones
  asked,                  \* was the model asked
  drafted,                \* the candidates
  seen, verdicts          \* critique's keys published so far, and its verdicts

vars == <<node, files, outcomes, kept, asked, drafted, seen, verdicts>>

Reasons == {"invalid_line", "duplicate"} \cup Flaws

Keys == Paths \X Lines \X Categories

TypeOK ==
  /\ node \in {"fetch_diff", "guardrail_gate", "reason_and_draft", "self_critique",
               "summarized", "raised"}
  /\ files \in Seq(ChangedFiles)
  /\ outcomes \in Seq(Decisions)
  /\ kept \in Nat
  /\ asked \in BOOLEAN
  /\ drafted \in Seq(Candidates)
  /\ seen \subseteq Keys
  /\ verdicts \in Seq(Reasons \cup {"published"})

Init ==
  /\ node = "fetch_diff"
  /\ files \in PullRequests
  /\ outcomes = <<>> /\ kept = 0
  /\ asked = FALSE
  /\ drafted = <<>>
  /\ seen = {} /\ verdicts = <<>>

------------------------------------------------------------------------------
(***************************************************************************)
(* The gate.                                                               *)
(***************************************************************************)

\* fetch_diff: one patch that cannot be parsed fails the whole review.
FetchDiff ==
  /\ node = "fetch_diff"
  /\ node' = IF \A i \in DOMAIN files : files[i].parses THEN "guardrail_gate" ELSE "raised"
  /\ UNCHANGED <<files, outcomes, kept, asked, drafted, seen, verdicts>>

\* evaluate_file: the first objection decides.
Evaluate(file) ==
  LET hits == {i \in DOMAIN Precedence : Precedence[i].mark \in file.marks}
  IN  IF hits = {} THEN "reviewable"
      ELSE Precedence[CHOOSE i \in hits : \A j \in hits : i <= j].decision

\* Slip: every file that was judged counts against the budget.
JudgeCountsAll(file) ==
  LET alone == Evaluate(file)
      over == alone = "reviewable" /\ kept >= MaxFiles
  IN  /\ outcomes' = Append(outcomes, IF over THEN "skipped_oversized_diff" ELSE alone)
      /\ kept' = kept + 1

\* apply_guardrails, on its next file.
Judge(file) ==
  LET alone == Evaluate(file)
      over == alone = "reviewable" /\ kept >= MaxFiles
  IN  /\ outcomes' = Append(outcomes, IF over THEN "skipped_oversized_diff" ELSE alone)
      /\ kept' = IF alone = "reviewable" /\ ~over THEN kept + 1 ELSE kept

JudgeNext ==
  /\ node = "guardrail_gate" /\ Len(outcomes) < Len(files)
  /\ Judge(files[Len(outcomes) + 1])
  /\ UNCHANGED <<node, files, asked, drafted, seen, verdicts>>

\* static_analysis and retrieve_context only carry what the run was given.
CloseGate ==
  /\ node = "guardrail_gate" /\ Len(outcomes) = Len(files)
  /\ node' = "reason_and_draft"
  /\ UNCHANGED <<files, outcomes, kept, asked, drafted, seen, verdicts>>

\* reviewable_files, by their places among the changed files.
InScope == {i \in DOMAIN outcomes : outcomes[i] = "reviewable"}

(***************************************************************************)
(* The model.                                                              *)
(***************************************************************************)

\* reason_and_draft with nothing to review.
SkipDraft ==
  /\ node = "reason_and_draft" /\ InScope = {}
  /\ node' = "self_critique"
  /\ UNCHANGED <<files, outcomes, kept, asked, drafted, seen, verdicts>>

\* The model answers, or the provider raises.
Draft(candidates) ==
  /\ node = "reason_and_draft" /\ InScope # {}
  /\ asked' = TRUE
  /\ drafted' = candidates
  /\ node' = "self_critique"
  /\ UNCHANGED <<files, outcomes, kept, seen, verdicts>>

ModelFault ==
  /\ node = "reason_and_draft" /\ InScope # {}
  /\ asked' = TRUE
  /\ node' = "raised"
  /\ UNCHANGED <<files, outcomes, kept, drafted, seen, verdicts>>

(***************************************************************************)
(* Self-critique.                                                          *)
(***************************************************************************)

\* DiffIndex: of two changed files with one path the last is indexed.  It holds
\* every changed file, in scope or not.
Commentable(path) ==
  LET places == {i \in DOMAIN files : files[i].path = path}
  IN  IF places = {} THEN {}
      ELSE files[CHOOSE i \in places : \A j \in places : j <= i].added

\* _duplicate_key.
KeyOf(candidate) == <<candidate.path, candidate.line, candidate.category>>

\* What critique finds wrong with a candidate, with these keys published already.
Faults(candidate, published) ==
  candidate.flaws
    \cup (IF candidate.line \in Commentable(candidate.path) THEN {} ELSE {"invalid_line"})
    \cup (IF KeyOf(candidate) \in published THEN {"duplicate"} ELSE {})

\* The order it asks in: the first fault is the reason recorded.
Order == <<"invalid_line", "no_evidence", "unknown_source_ref", "generic", "duplicate",
           "low_confidence">>

Reason(faults) ==
  Order[CHOOSE i \in DOMAIN Order :
          Order[i] \in faults /\ \A j \in 1..(i - 1) : Order[j] \notin faults]

\* Slips: a suppressed candidate's key is taken too; a published one's is not.
RuleTakesAll(candidate) ==
  LET faults == Faults(candidate, seen)
  IN  /\ verdicts' = Append(verdicts, IF faults = {} THEN "published" ELSE Reason(faults))
      /\ seen' = seen \cup {KeyOf(candidate)}

RuleForgets(candidate) ==
  LET faults == Faults(candidate, seen)
  IN  /\ verdicts' = Append(verdicts, IF faults = {} THEN "published" ELSE Reason(faults))
      /\ UNCHANGED seen

\* critique, on its next candidate.
Rule(candidate) ==
  LET faults == Faults(candidate, seen)
  IN  /\ verdicts' = Append(verdicts, IF faults = {} THEN "published" ELSE Reason(faults))
      /\ seen' = IF faults = {} THEN seen \cup {KeyOf(candidate)} ELSE seen

RuleNext ==
  /\ node = "self_critique" /\ Len(verdicts) < Len(drafted)
  /\ Rule(drafted[Len(verdicts) + 1])
  /\ UNCHANGED <<node, files, outcomes, kept, asked, drafted>>

\* post_or_summarize.
Summarize ==
  /\ node = "self_critique" /\ Len(verdicts) = Len(drafted)
  /\ node' = "summarized"
  /\ UNCHANGED <<files, outcomes, kept, asked, drafted, seen, verdicts>>

Next ==
  \/ FetchDiff \/ JudgeNext \/ CloseGate
  \/ SkipDraft \/ ModelFault \/ \E candidates \in Drafts : Draft(candidates)
  \/ RuleNext \/ Summarize

Spec == Init /\ [][Next]_vars

------------------------------------------------------------------------------
\* The files that are reviewable by themselves, among the first n.
Fine(n) == {i \in 1..n : Evaluate(files[i]) = "reviewable"}

\* The budget keeps the first MaxFiles reviewable files and skips the rest: what
\* is skipped for another reason takes none of it, and no reviewable file is
\* skipped while there is room (guardrails.apply_guardrails, "keeps the first
\* `max_files` of them and reports the rest honestly").
BudgetKeepsFirst ==
  \A i \in DOMAIN outcomes :
    i \in InScope <=> i \in Fine(i) /\ Cardinality(Fine(i - 1)) < MaxFiles

Published == {i \in DOMAIN verdicts : verdicts[i] = "published"}

\* At most one finding is published for a path, line and category (critique,
\* _duplicate_key).
OnePerPlace ==
  \A i, j \in Published : KeyOf(drafted[i]) = KeyOf(drafted[j]) => i = j

\* A finding with nothing wrong with it reaches the reader, itself or as an
\* earlier finding on the same place: no suppressed draft stands in its way
\* (critique, `if reason is None: seen.add`).
SoundIsServed ==
  \A i \in DOMAIN verdicts :
    Faults(drafted[i], {}) = {} =>
      \E j \in Published : j <= i /\ KeyOf(drafted[j]) = KeyOf(drafted[i])

\* The model is never asked about a pull request with nothing to review, and
\* then nothing is published (graph.reason_and_draft, "skipped, no reviewable
\* files").
ScopeBeforeModel ==
  /\ asked => InScope # {} /\ Len(outcomes) = Len(files)
  /\ Published # {} => asked
==============================================================================
