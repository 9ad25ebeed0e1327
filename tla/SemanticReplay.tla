---------------------------- MODULE SemanticReplay ----------------------------
(***************************************************************************)
(* A semantic verification replay (`prcritiq verify`, cli._run_verify,     *)
(* verification_replay.run_verification_replay): the inputs are checked    *)
(* whole, the sources of the findings' cases are read from GitHub          *)
(* (verification_sources.fetch_sources) or from a bundle, and each saved   *)
(* finding is ruled on, with --live by a model that is shown its context.  *)
(*                                                                         *)
(* A study is what the files of a replay say: its cases, each with its     *)
(* reviewable diffs and what the repository has at its two commits, the    *)
(* saved findings in order, the source bundle, which may say anything of a *)
(* case, and the parts of it all that fail their checks.                   *)
(***************************************************************************)
EXTENDS CandidateContext

CONSTANTS
  Studies,
  MaxCalls,               \* max_candidates
  FileLimit, TotalLimit,  \* _MAX_FILE_BYTES, _MAX_TOTAL_BYTES of one revision
  Prices                  \* what one call may cost

Sides == {"base", "head"}

\* `old` is previous_path, or the path.
Diffs == [path : Paths, old : Paths, status : {"added", "modified", "removed"},
          added : SUBSET Nat]

Findings == [case : Nat, path : Paths, line : Nat, words : SUBSET Names, evidence : BOOLEAN]

StudyFlaws == {"arguments", "cases", "report", "bundle", "key"}

\* A case's files at its commits, and the bundle's of it: of each, `wrong` are the
\* sources that do not have the lines of the case's frozen patches.
Files(held) ==
  /\ \A side \in Sides : \A path \in DOMAIN held[side] :
       path \in Paths /\ held[side][path] \in Sources
  /\ held.wrong \subseteq Sides \X Paths

ASSUME StudiesFit ==
  /\ \A study \in Studies :
       /\ study.flaws \subseteq StudyFlaws
       /\ \A i \in DOMAIN study.cases : study.cases[i].diffs \in Seq(Diffs)
       /\ DOMAIN study.bundle = DOMAIN study.cases
       /\ \A i \in DOMAIN study.cases : Files(study.cases[i]) /\ Files(study.bundle[i])
       /\ study.findings \in Seq(Findings)
       /\ \A i \in DOMAIN study.findings : study.findings[i].case \in DOMAIN study.cases
  /\ MaxCalls \in 1..100 /\ FileLimit \in Nat /\ TotalLimit \in Nat /\ Prices \subseteq Nat

VARIABLES
  stage, study,
  live, fetching,         \* --live; --fetch-context, and not --source-bundle
  todo,                   \* sources still to be read: case, side and path
  asked,                  \* those GitHub was asked for
  bundles,                \* the sources of each case, by side
  rulings,                \* on the findings so far
  looked,                 \* the contexts that were built, each beside its finding and input
  account, written,       \* the report, and verification.json's copy of it
  requested, charged,     \* findings the model was asked about, and what it charged
  exit                    \* the command's exit code, -1 while it runs

given == <<study, live, fetching>>
sources == <<todo, asked, bundles>>
results == <<rulings, looked>>
accounts == <<account, written, requested, charged>>
replayVars == <<stage, given, sources, results, accounts, exit>>

\* There is no report yet, or none that can be read.
NoReport == [none |-> TRUE]

NoSources == [side \in Sides |-> <<>>]

ReplayInit ==
  /\ stage = "arguments" /\ study \in Studies
  /\ live \in BOOLEAN /\ fetching \in BOOLEAN
  /\ todo = {} /\ asked = {} /\ bundles = [i \in DOMAIN study.cases |-> NoSources]
  /\ rulings = <<>> /\ looked = <<>>
  /\ account = [calls |-> 0, cost |-> 0, complete |-> TRUE, aborted |-> FALSE]
  /\ written = NoReport /\ requested = <<>> /\ charged = 0 /\ exit = -1

------------------------------------------------------------------------------
(***************************************************************************)
(* Preflight.                                                              *)
(***************************************************************************)

HeadPaths(case) == {diff.path : diff \in {d \in ToSet(case.diffs) : d.status # "removed"}}

BasePaths(case) == {diff.old : diff \in {d \in ToSet(case.diffs) : d.status # "added"}}

\* The sources to read: of each case that has findings, the base's and the head's.
SourcesOf(i) ==
  {<<i, "base", path>> : path \in BasePaths(study.cases[i])}
    \cup {<<i, "head", path>> : path \in HeadPaths(study.cases[i])}

Wanted == UNION {SourcesOf(finding.case) : finding \in ToSet(study.findings)}

\* ReplayError and its like: nothing is written.
Stop ==
  /\ stage' = "refused" /\ exit' = 1
  /\ UNCHANGED <<given, sources, results, accounts>>

\* What is checked before anything is read from GitHub.
Preflight == [arguments |-> "cases", cases |-> "report", report |-> "bundle"]

\* The arguments, _prepare_cases and _prepare_candidates, each whole.
Pass ==
  /\ stage \in DOMAIN Preflight /\ stage \notin study.flaws
  /\ stage' = Preflight[stage]
  /\ UNCHANGED <<given, sources, results, accounts, exit>>

SizeOf(source) == Bytes(source, <<1, Len(source.sizes)>>)

TotalOf(files) == SumFunction([path \in DOMAIN files |-> SizeOf(files[path])])

\* _check_patch_sources: every source at hand has the lines of the frozen patches.
Agrees(bundle, wrong) ==
  \A side \in Sides, path \in Paths : path \in DOMAIN bundle[side] => <<side, path>> \notin wrong

\* _source_bundle: of each case the bundle has sources of its diffs only, within the
\* limits, and none that its frozen patches contradict.  It says no more of them.
BundleFits ==
  \A i \in DOMAIN study.cases :
    LET said == study.bundle[i]
    IN  /\ DOMAIN said["base"] \subseteq BasePaths(study.cases[i])
        /\ DOMAIN said["head"] \subseteq HeadPaths(study.cases[i])
        /\ Agrees(said, said.wrong)
        /\ \A side \in Sides :
             /\ TotalOf(said[side]) <= TotalLimit
             /\ \A path \in DOMAIN said[side] : SizeOf(said[side][path]) <= FileLimit

Reject ==
  /\ stage \in study.flaws \/ (stage = "bundle" /\ ~BundleFits)
  /\ stage = "bundle" => ~fetching
  /\ stage = "key" => live
  /\ Stop

\* The bundle's sources are taken as they are.
TakeBundle ==
  /\ stage = "bundle" /\ stage \notin study.flaws /\ ~fetching /\ BundleFits
  /\ bundles' = [i \in DOMAIN study.cases |-> [side \in Sides |-> study.bundle[i][side]]]
  /\ stage' = "key"
  /\ UNCHANGED <<given, todo, asked, results, accounts, exit>>

NoBundle ==
  /\ stage = "bundle" /\ fetching
  /\ stage' = "key"
  /\ UNCHANGED <<given, sources, results, accounts, exit>>

\* The key is asked of a live run before the first request to GitHub.
HaveKey ==
  /\ stage = "key" /\ (~live \/ stage \notin study.flaws)
  /\ todo' = IF fetching THEN Wanted ELSE {}
  /\ stage' = "sources"
  /\ UNCHANGED <<given, asked, bundles, results, accounts, exit>>

------------------------------------------------------------------------------
(***************************************************************************)
(* Sources.                                                                *)
(***************************************************************************)

\* The cases in the findings' order, of each the base and then the head, path by path.
Turn(source) ==
  LET diffs == study.cases[source[1]].diffs
      Of(diff) == IF source[2] = "base" THEN diff.status # "added" /\ diff.old = source[3]
                  ELSE diff.status # "removed" /\ diff.path = source[3]
  IN  <<Min({n \in DOMAIN study.findings : study.findings[n].case = source[1]}),
        IF source[2] = "base" THEN 0 ELSE 1,
        Min({n \in DOMAIN diffs : Of(diffs[n])})>>

InTurn(source) ==
  /\ stage = "sources"
  /\ \A other \in todo : ~Before(Turn(other), Turn(source))

\* A source is read within the limits of a file and of a revision, or is not in the
\* repository at that commit (404); a case's last source is compared with its patches.
Fetch(source) ==
  /\ InTurn(source)
  /\ todo' = todo \ {source} /\ asked' = asked \cup {source}
  /\ LET case == source[1]
         side == source[2]
         path == source[3]
         there == study.cases[case][side]
         had == bundles[case][side]
         read == [p \in DOMAIN had \cup {path} |-> IF p = path THEN there[p] ELSE had[p]]
     IN  /\ bundles' = IF path \in DOMAIN there THEN [bundles EXCEPT ![case][side] = read]
                       ELSE bundles
         /\ path \in DOMAIN there => SizeOf(there[path]) <= FileLimit /\ TotalOf(read) <= TotalLimit
         /\ (\A other \in todo' : other[1] # case) =>
               Agrees(bundles'[case], study.cases[case].wrong)
  /\ UNCHANGED <<stage, given, results, accounts, exit>>

\* The request fails, its answer is over a limit, or a case's sources are not those
\* of its frozen patches.
FetchFails(source) ==
  /\ InTurn(source)
  /\ asked' = asked \cup {source}
  /\ stage' = "refused" /\ exit' = 1
  /\ UNCHANGED <<given, todo, bundles, results, accounts>>

\* The report as it is written.
Copy(rows) == [calls |-> account'.calls, cost |-> account'.cost, rulings |-> rows]

\* The sources and a first report are written; they may be too many, or the
\* directory be there by now.
WriteSources ==
  /\ stage = "sources" /\ todo = {}
  /\ stage' = "findings"
  /\ UNCHANGED account
  /\ written' = Copy(<<>>)
  /\ UNCHANGED <<given, sources, results, requested, charged, exit>>

CannotWrite == stage = "sources" /\ todo = {} /\ Stop

------------------------------------------------------------------------------
(***************************************************************************)
(* Findings.                                                               *)
(***************************************************************************)

AtFinding == stage = "findings" /\ Len(rulings) < Len(study.findings)

Current == study.findings[Len(rulings) + 1]

\* The diff whose added line a finding is on.
OnDiff(finding) ==
  LET diffs == study.cases[finding.case].diffs
  IN  {i \in DOMAIN diffs : diffs[i].path = finding.path /\ finding.line \in diffs[i].added}

\* Slip: the sources are those of the first finding's case.
InputOfFirst(finding) ==
  LET case == study.cases[finding.case]
      diff == case.diffs[CHOOSE i \in OnDiff(finding) : TRUE]
      first == Head(study.findings).case
  IN  [path |-> finding.path, line |-> finding.line, words |-> finding.words, old |-> diff.old,
       head |-> bundles[first]["head"], base |-> bundles[first]["base"],
       related |-> HeadPaths(case), absent |-> diff.status = "added"]

Input(finding) ==
  LET case == study.cases[finding.case]
      diff == case.diffs[CHOOSE i \in OnDiff(finding) : TRUE]
  IN  [path |-> finding.path, line |-> finding.line, words |-> finding.words, old |-> diff.old,
       head |-> bundles[finding.case]["head"], base |-> bundles[finding.case]["base"],
       related |-> HeadPaths(case), absent |-> diff.status = "added"]

\* Without a base there is no verdict to be had.
NeedingBase(context) ==
  IF context.issues = {} /\ \A i \in DOMAIN context.snippets : context.snippets[i].side = "head"
  THEN [context EXCEPT !.issues = {"base_evidence_missing_for_v2"}]
  ELSE context

Usable(context) == context.issues = {} /\ ~context.truncated /\ context.snippets # <<>>

Structural(finding) == OnDiff(finding) = {} \/ ~finding.evidence

Ruling(status, cites) == [status |-> status, cites |-> cites]

\* A finding that is ruled on without a look at its sources.
Skip ==
  /\ AtFinding /\ (account.aborted \/ Structural(Current))
  /\ rulings' = Append(rulings, Ruling(IF account.aborted THEN "aborted" ELSE "structural_reject",
                                      {}))
  /\ UNCHANGED <<stage, given, sources, looked, accounts, exit>>

\* What is built for the n-th finding.
Seen(n) ==
  LET in == Input(study.findings[n])
  IN  [of |-> n, in |-> in, context |-> NeedingBase(Context(in))]

\* Its context is built.
Look ==
  /\ AtFinding /\ ~account.aborted /\ ~Structural(Current)
  /\ looked' = Append(looked, Seen(Len(rulings) + 1))
  /\ stage' = "looking"
  /\ UNCHANGED <<given, sources, rulings, accounts, exit>>

NeedsCall ==
  stage = "looking" /\ Usable(Last(looked).context) /\ live /\ account.calls < MaxCalls

\* It is ruled on without the model.
Dismiss ==
  /\ stage = "looking" /\ ~NeedsCall
  /\ rulings' = Append(rulings, Ruling(IF ~Usable(Last(looked).context) THEN "context_unavailable"
                                      ELSE IF live THEN "budget_exceeded" ELSE "prepared", {}))
  /\ stage' = "findings"
  /\ UNCHANGED <<given, sources, looked, accounts, exit>>

\* The model is asked; the call is counted before it is made.
Ask ==
  /\ NeedsCall
  /\ account' = [account EXCEPT !.calls = @ + 1]
  /\ requested' = Append(requested, Last(looked))
  /\ stage' = "asking"
  /\ UNCHANGED <<given, sources, results, written, charged, exit>>

\* The finding asked about is ruled on, and the report is written.
Decide(status, cites) ==
  /\ rulings' = Append(rulings, Ruling(status, cites))
  /\ written' = Copy(rulings')
  /\ stage' = "findings"
  /\ UNCHANGED <<given, sources, looked, requested, exit>>

\* validate_verification: a verdict that cites what was not shown, or that claims a
\* defect without citing both sides and with a part of the claim left out.
Unusable(verdict, cites, full) ==
  \/ "unknown" \in cites
  \/ verdict \in {"confirmed", "partial"} /\ ~(Sides \subseteq cites /\ full)

Answer(verdict, cites, full, price) ==
  /\ stage = "asking"
  /\ charged' = charged + price
  /\ account' = [account EXCEPT !.cost = @ + price]
  /\ Decide(IF Unusable(verdict, cites, full) THEN "invalid_decision" ELSE verdict, cites)

\* Slip: the findings behind a failed call go on.
FailGoesOn(price, known) ==
  /\ stage = "asking"
  /\ charged' = charged + price
  /\ account' = [account EXCEPT !.cost = IF known THEN @ + price ELSE @, !.complete = @ /\ known]
  /\ Decide("provider_error", {})

\* ProviderError: the findings that follow are aborted; usage it does not report is
\* announced as incomplete.
Fail(price, known) ==
  /\ stage = "asking"
  /\ charged' = charged + price
  /\ account' = [account EXCEPT !.cost = IF known THEN @ + price ELSE @,
                                !.complete = @ /\ known, !.aborted = TRUE]
  /\ Decide("provider_error", {})

\* The verifier cannot be made: no call is counted.
NoVerifier ==
  /\ NeedsCall /\ account.calls = 0
  /\ UNCHANGED charged
  /\ account' = [account EXCEPT !.complete = FALSE, !.aborted = TRUE]
  /\ Decide("provider_error", {})

\* Any other exception leaves through `finally`, which writes the report.
Raise(price) ==
  /\ stage = "asking"
  /\ charged' = charged + price /\ UNCHANGED account
  /\ written' = Copy(rulings)
  /\ stage' = "raised" /\ exit' = 1
  /\ UNCHANGED <<given, sources, results, requested>>

\* The process dies, perhaps while it writes the report.
Killed ==
  /\ stage \in {"findings", "looking", "asking"}
  /\ stage' = "dead" /\ written' \in {written, NoReport}
  /\ UNCHANGED <<given, sources, results, account, requested, charged, exit>>

\* The command's exit code.
Incomplete == {"context_unavailable", "structural_reject", "budget_exceeded", "invalid_decision"}

Finish ==
  /\ stage = "findings" /\ Len(rulings) = Len(study.findings)
  /\ UNCHANGED account
  /\ written' = Copy(rulings)
  /\ exit' = IF account.aborted \/ \E i \in DOMAIN rulings : rulings[i].status \in Incomplete
             THEN 1 ELSE 0
  /\ stage' = "done"
  /\ UNCHANGED <<given, sources, results, requested, charged>>

ReplayNext ==
  \/ Pass \/ Reject \/ TakeBundle \/ NoBundle \/ HaveKey
  \/ \E source \in todo : Fetch(source) \/ FetchFails(source)
  \/ WriteSources \/ CannotWrite
  \/ Skip \/ Look \/ Dismiss \/ Ask \/ NoVerifier \/ Killed \/ Finish
  \/ \E price \in Prices :
       \/ Raise(price) \/ \E known \in BOOLEAN : Fail(price, known)
       \/ \E verdict \in {"confirmed", "partial", "rejected", "uncertain"},
            cites \in SUBSET (Sides \cup {"unknown"}), full \in BOOLEAN :
            Answer(verdict, cites, full, price)

ReplaySpec == ReplayInit /\ [][ReplayNext]_replayVars

------------------------------------------------------------------------------
\* The snippet of a region is all of it.
Whole(snippet, region) ==
  /\ snippet.side = region.side /\ snippet.path = region.path
  /\ <<snippet.start, snippet.end>> = <<region.start, region.end>>

RegionBytes(region) == Bytes(region.source, <<region.start, region.end>>)

Short(region) == region.end - region.start < MaxLines

\* `primary` are the primary regions of an input, `shown` the snippets of its context.
IsWhole(in, context, primary, shown) ==
  /\ SumFunction([i \in DOMAIN context.snippets |-> context.snippets[i].bytes]) <= MaxBytes
  /\ \A region \in primary :
       /\ Short(region)
       /\ \/ RegionBytes(region) <= MaxBytes \div 2
          \/ /\ \A r \in primary : Short(r)
             /\ SumFunction([r \in primary |-> RegionBytes(r)]) <= MaxBytes
       => \E snippet \in shown : Whole(snippet, region)
  /\ \A snippet \in shown :
       \E region \in primary \cup {HelperRegion(in, h) : h \in Helpers(in, HeadRegion(in))} :
         /\ snippet.side = region.side /\ snippet.path = region.path
         /\ region.anchor \in snippet.start..snippet.end
         /\ ~context.truncated => Whole(snippet, region)
  /\ context.issues = {} =>
       /\ Cardinality(primary) = 2
       /\ \A region \in primary : \E snippet \in shown :
            /\ snippet.side = region.side /\ snippet.path = region.path
            /\ region.anchor \in snippet.start..snippet.end

\* Evidence is fairly shared and never quietly cut (build_candidate_context): a
\* context is within its bytes; a primary region that needs no more than its half is
\* shown whole, and both are when they fit together; what is shown of a region holds
\* the line it is about; and a context without issue or cut mark shows whole regions
\* only, among them the finding's and its counterpart in the base.
ContextIsWhole ==
  \A i \in DOMAIN looked :
    \/ Unreachable(looked[i].in) # {}
    \/ IsWhole(looked[i].in, looked[i].context, ToSet(Primary(looked[i].in)),
               ToSet(looked[i].context.snippets))

\* Nothing leaves before everything that can be checked is (run_verification_replay):
\* GitHub is asked only for sources of the findings' cases, when all inputs are sound
\* and a live run has its key; the model is asked only by a live run, within its
\* calls, about findings on added lines, and shown both sides whole; what it is shown
\* are the sources of the very case of that finding, at its commits when they are
\* read from GitHub and otherwise as the bundle has them, and none that the case's
\* frozen patches contradict; and the report on disk counts each request but the
\* one under way.
RequestsAreWhole ==
  /\ asked \subseteq Wanted
  /\ asked # {} \/ requested # <<>> =>
       study.flaws \subseteq (IF fetching THEN {"bundle"} ELSE {})
                              \cup (IF live THEN {} ELSE {"key"})
  /\ requested # <<>> => live /\ Len(requested) <= MaxCalls
  /\ \A i \in DOMAIN requested :
       LET in == requested[i].in
           shown == ToSet(requested[i].context.snippets)
           finding == study.findings[requested[i].of]
           case == study.cases[finding.case]
           held == IF fetching THEN case ELSE study.bundle[finding.case]
       IN  /\ \A region \in ToSet(Primary(in)) : \E snippet \in shown : Whole(snippet, region)
           /\ in.path = finding.path /\ in.line = finding.line
           /\ \E diff \in ToSet(case.diffs) : diff.path = in.path /\ in.line \in diff.added
           /\ \A snippet \in shown :
                LET ours == IF snippet.side = "head" THEN in.head ELSE in.base
                IN  /\ ours[snippet.path] = held[snippet.side][snippet.path]
                    /\ <<snippet.side, snippet.path>> \notin held.wrong
           /\ Sides = {snippet.side : snippet \in shown}
  /\ written # NoReport => Len(requested) <= written.calls + 1

\* Exit code 0 means that every finding was settled: prepared, or ruled on by an
\* answer that is usable, nothing failed, skipped or left over, and the report on
\* disk has every ruling and the whole cost (cli._run_verify).
ExitZeroIsComplete ==
  exit = 0 =>
    /\ Len(rulings) = Len(study.findings) /\ written.rulings = rulings
    /\ written.cost = charged /\ account.complete
    /\ Len(requested) = (IF live THEN Len(study.findings) ELSE 0)
    /\ \A i \in DOMAIN rulings :
         /\ rulings[i].status \in (IF live THEN {"confirmed", "partial", "rejected", "uncertain"}
                                   ELSE {"prepared"})
         /\ rulings[i].status \in {"confirmed", "partial"} => Sides \subseteq rulings[i].cites
==============================================================================
