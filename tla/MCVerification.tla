---------------------------- MODULE MCVerification ----------------------------
(***************************************************************************)
(* The two programs that ask a verifier, each on small inputs: the live    *)
(* experiment over its spend ledger, and the replay command with the       *)
(* contexts it builds.  A behaviour is of one of them.                     *)
(***************************************************************************)
EXTENDS VerifierExperiment, SemanticReplay

VARIABLE program

\* More eligible rows than requests, a replay with more than its share, rows
\* that need no request before and behind them.
MCReplays == <<<<"eligible", "structural_reject", "eligible", "eligible">>,
               <<"context_unavailable", "eligible", "eligible">>>>

(***************************************************************************)
(* Sources.                                                                *)
(***************************************************************************)
Symbol(name, start, end, function) ==
  [name |-> name, start |-> start, end |-> end, function |-> function]

File(sizes, calls, parses, symbols) ==
  [sizes |-> sizes, calls |-> [l \in DOMAIN sizes |-> calls], parses |-> parses,
   symbols |-> symbols]

Case(diffs, base, head, wrong) ==
  [diffs |-> diffs, base |-> base, head |-> head, wrong |-> wrong]

Diff(path, old, status, added) ==
  [path |-> path, old |-> old, status |-> status, added |-> added]

Finding(case, path, line, words) ==
  [case |-> case, path |-> path, line |-> line, words |-> words, evidence |-> TRUE]

\* What the bundle of a study says of a case: the repository's sources, or none of
\* the base, or another base, or sources of any path.
Supply(case, kind) ==
  LET Scoped(files, paths) == Restrict(files, DOMAIN files \cap paths)
      base == Scoped(case.base, BasePaths(case))
      head == Scoped(case.head, HeadPaths(case))
  IN  CASE kind = "genuine" -> [base |-> base, head |-> head, wrong |-> case.wrong]
        [] kind = "partial" -> [base |-> <<>>, head |-> head, wrong |-> {}]
        [] kind = "other" ->
             [base |-> [path \in BasePaths(case) |-> File(<<1, 2>>, {}, TRUE, {Symbol(<<"f">>, 1, 2, TRUE)})],
              head |-> head, wrong |-> {}]
        [] kind = "unscoped" -> [base |-> case.base, head |-> case.head, wrong |-> {}]

Supplied(flaws, cases, findings, kind) ==
  [flaws |-> flaws, cases |-> cases, findings |-> findings,
   bundle |-> [i \in DOMAIN cases |-> Supply(cases[i], kind)]]

Study(flaws, cases, findings) == Supplied(flaws, cases, findings, "genuine")

Function(name, start, end) == Symbol(<<name>>, start, end, TRUE)

(***************************************************************************)
(* One finding on any line of a file, for files of any of these lines and  *)
(* layouts and for any base: no function around it, one, one nested in     *)
(* another, a method; in the base the same, elsewhere, twice, or none.     *)
(***************************************************************************)
HeadSizes == {<<1, 3, 1, 2>>, <<3, 3, 1>>, <<2, 2, 2>>, <<1, 1>>, <<7, 1>>, <<1, 1, 1, 1>>}

BaseSizes == {<<3>>, <<1, 3, 1>>, <<2, 2>>, <<1, 1, 1, 1>>}

HeadLayouts(n) ==
  {{}, {Function("f", 1, n)}, {Function("f", 2, n)},
   {Function("f", 1, n), Symbol(<<"f", "g">>, 2, 2, TRUE)},
   {Symbol(<<"k">>, 1, n, FALSE), Symbol(<<"k", "f">>, 2, n, TRUE)}}

BaseLayouts(n) ==
  {{}, {Function("f", 1, n)}, {Function("f", n, n), Function("g", 1, 1)},
   {Function("f", 1, 1), Function("f", n, n), Symbol(<<"k", "f">>, 1, 1, TRUE)}}

HeadFiles ==
  UNION {{File(sizes, {"h"}, TRUE, symbols) : symbols \in HeadLayouts(Len(sizes))} :
           sizes \in HeadSizes}

BaseFiles ==
  {File(<<2, 1>>, {}, FALSE, {})} \cup
  UNION {{File(sizes, {}, TRUE, symbols) : symbols \in BaseLayouts(Len(sizes))} :
           sizes \in BaseSizes}

\* Called and mentioned helpers, too large or not.
HelperFiles ==
  {File(<<1, 2, 1>>, {}, TRUE, {Function("h", 2, 2), Function("w", 3, 3)}),
   File(<<1, 1, 1>>, {}, TRUE, {Symbol(<<"k", "h">>, 1, 1, TRUE), Function("h", 2, 2),
                                Function("w", 3, 3)})}

Aside(head, base, helper) ==
  Case(<<Diff("a", "a", "modified", DOMAIN head.sizes), Diff("b", "b", "added", {1})>>,
       "a" :> base, ("a" :> head) @@ ("b" :> helper), {})

ContextStudies ==
  {Study({}, <<Aside(head, base, helper)>>, <<Finding(1, "a", line, {"w"})>>) :
     head \in HeadFiles, base \in BaseFiles, helper \in HelperFiles, line \in 1..4}

Fitting ==
  {s \in ContextStudies : s.findings[1].line \in s.cases[1].diffs[1].added}

(***************************************************************************)
(* What else can come about: flaws of the inputs, a live budget, findings  *)
(* without evidence or off the diff, files that are new, renamed, missing, *)
(* unsafe, unparsed, too large, or not those of the patches.               *)
(***************************************************************************)
Small == File(<<1, 1>>, {}, TRUE, {Function("f", 1, 2)})

Other == File(<<1, 2>>, {}, TRUE, {Function("f", 1, 2)})

Plain == Case(<<Diff("a", "a", "modified", {1, 2})>>, "a" :> Small, "a" :> Small, {})

Twice == <<Finding(1, "a", 1, {}), Finding(1, "a", 2, {})>>

SuppliedStudies(kind) ==
  {Study(flaws, <<Plain>>, <<Finding(1, "a", 1, {})>>) :
     flaws \in {{}} \cup {{flaw} : flaw \in StudyFlaws}}
  \cup
  {Supplied({}, <<Plain, Case(<<Diff("a", "a", "modified", {1})>>, "a" :> Other, "a" :> Small, {})>>,
         <<Finding(2, "a", 1, {}), Finding(1, "a", 2, {}),
           [Finding(1, "a", 1, {}) EXCEPT !.evidence = evidence]>>, kind) : evidence \in BOOLEAN}
  \cup
  {Supplied({}, <<Plain>>, Twice, kind)}
  \cup
  {Supplied({}, <<Case(<<diff>>, ("a" :> base) @@ ("b" :> base), head, wrong)>>, Twice, kind) :
     diff \in {Diff("a", "a", "modified", {1}), Diff("a", "b", "modified", {1, 2}),
               Diff("a", "a", "added", {1, 2})},
     base \in {Small, File(<<4, 1>>, {}, TRUE, {Function("f", 1, 2)}),
               File(<<9, 9>>, {}, TRUE, {})},
     head \in {"a" :> Small, "a" :> File(<<1, 1>>, {}, FALSE, {}),
               "a" :> File(<<3, 3>>, {}, TRUE, {Function("f", 1, 2)}), "b" :> Small},
     wrong \in {{}, {<<"base", "a">>}}}
  \cup
  {Supplied({}, <<Case(<<Diff("u", "u", "modified", {1})>>, "u" :> Small, "u" :> Small, {})>>,
         <<Finding(1, "u", 1, {})>>, kind)}

CommandStudies ==
  UNION {SuppliedStudies(kind) : kind \in {"genuine", "partial", "other", "unscoped"}}

MCStudies == Fitting \cup CommandStudies

MCPathOrder == [path \in Paths |-> CASE path = "a" -> 1 [] path = "b" -> 2 [] OTHER -> 3]

------------------------------------------------------------------------------
NoReplay ==
  study = (CHOOSE s \in SuppliedStudies("genuine") : s.flaws = {"arguments"}) /\ ~live /\ ~fetching

\* The contexts are prepared from GitHub, the rest in every mode.
MCInit ==
  /\ Init /\ ReplayInit
  /\ \/ program = "experiment" /\ NoReplay
     \/ program = "replay" /\ (study \in Fitting => ~live /\ fetching)
                               /\ (fetching => study \in Fitting \cup SuppliedStudies("genuine"))

MCNext ==
  /\ UNCHANGED program
  /\ \/ program = "experiment" /\ Next /\ UNCHANGED replayVars
     \/ program = "replay" /\ ReplayNext /\ UNCHANGED vars

MCSpec == MCInit /\ [][MCNext]_<<vars, replayVars, program>>
==============================================================================
