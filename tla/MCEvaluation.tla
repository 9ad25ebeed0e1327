------------------------------ MODULE MCEvaluation ------------------------------
(***************************************************************************)
(* The three machines of an evaluation, each on small inputs: how labels   *)
(* are made, how a run is scored, and how a case's findings and labels are *)
(* paired.  A behaviour is of one of them: they meet only in files.        *)
(***************************************************************************)
EXTENDS FindingMatching, BenchmarkRun, GroundTruth, SequencesExt

CONSTANT Lines

VARIABLE machine

(***************************************************************************)
(* Edges that findings and labels of one file can have: any words may be   *)
(* shared, and a finding's labels are sorted by their distance, equal      *)
(* distances by their index.                                               *)
(***************************************************************************)
Apart(m, n) == IF m < n THEN n - m ELSE m - n

Nearest(labels, lineOf, line) ==
  SetToSortSeq(labels, LAMBDA k, l :
    \/ Apart(lineOf[k], line) < Apart(lineOf[l], line)
    \/ Apart(lineOf[k], line) = Apart(lineOf[l], line) /\ k < l)

MCEdgeLists ==
  UNION {[Findings -> {Nearest(labels, lineOf, line) : labels \in SUBSET Labels, line \in Lines}] :
           lineOf \in [Labels -> Lines]}

(***************************************************************************)
(* Two cases: the first with any two labels, the second with one or two    *)
(* confirmed ones.  What a model drafts of either answers labels, repeats  *)
(* a place, cites what no run has, is generic, off the diff or unsure.     *)
(***************************************************************************)
LabelOf(status, onLine) == [status |-> status, onLine |-> onLine]

LabelLists ==
  UNION {[1..n -> {LabelOf("confirmed", TRUE), LabelOf("confirmed", FALSE),
                   LabelOf("excluded", TRUE), LabelOf("provisional", TRUE)}] : n \in 0..2}

MCCorpora ==
  {<<>>} \cup
  {<<[labels |-> first, sourced |-> TRUE], [labels |-> second, sourced |-> sourced]>> :
     first \in LabelLists, sourced \in BOOLEAN,
     second \in {[l \in 1..n |-> LabelOf("confirmed", TRUE)] : n \in 1..2}}

Draft(place, flaws, refs, confidence, near) ==
  [place |-> place, flaws |-> flaws, refs |-> refs, confidence |-> confidence, near |-> near]

MCReviews == {
  <<>>,
  <<Draft("p", {}, {}, 60, {1})>>,
  <<Draft("p", {}, {}, 60, {1, 2}), Draft("q", {}, {}, 60, {1})>>,
  <<Draft("p", {}, {}, 50, {1}), Draft("p", {}, {}, 60, {2})>>,
  <<Draft("p", {}, {"s"}, 60, {1}), Draft("q", {}, {"r"}, 60, {2})>>,
  <<Draft("p", {"generic"}, {}, 60, {1}), Draft("q", {}, {}, 50, {1})>>,
  <<Draft("p", {"invalid_line"}, {}, 60, {1}), Draft("p", {}, {}, 60, {})>>}

(***************************************************************************)
(* A thread of two comments: a defect reported on the first revision whose *)
(* commit and line GitHub may have rewritten, and any other comment or     *)
(* reply.                                                                  *)
(***************************************************************************)
Root(by, says, product, revision, line, commit, shown) ==
  [parent |-> NoComment, by |-> by, says |-> says, product |-> product, requested |-> FALSE,
   revision |-> revision, line |-> line, commit |-> commit, shown |-> shown, text |-> 0]

MCThreads ==
  {[c \in Comments |-> IF c = 1 THEN first ELSE second] :
     first \in {Root("reviewer", "defect", TRUE, 1, 1, commit, shown) :
                  commit \in {1, 2}, shown \in {0, 2}},
     second \in
       {Root(by, "defect", TRUE, 2, 2, 2, 2) : by \in {"reviewer", "author", "bot"}}
         \cup {Root("reviewer", says, TRUE, 1, 2, 1, 0) : says \in {"request", "thin"}}
         \cup {Root("reviewer", "defect", product, 1, 1, 1, 1) : product \in BOOLEAN}
         \cup {[Root(by, says, TRUE, 1, 1, 1, 1) EXCEPT !.parent = 1] :
                 by \in {"author", "reviewer"},
                 says \in {"resolution", "deferral", "rejection", "defect"}}}

MCAdded == [r \in Revisions |-> 1..r]

MCChanges == [r \in Revisions |-> r]

Decision(verdict, notes, approved, named) ==
  [verdict |-> verdict, notes |-> notes, approved |-> approved, named |-> named]

\* Signed, an agent's proposal, and one without notes.
MCDecisions == {Decision("confirmed_defect", TRUE, TRUE, TRUE),
                Decision("excluded", TRUE, TRUE, TRUE),
                Decision("confirmed_defect", TRUE, FALSE, FALSE),
                Decision("confirmed_defect", FALSE, TRUE, TRUE)}

------------------------------------------------------------------------------
NoMatching == edges = CHOOSE lists \in EdgeLists : TRUE

NoEvaluation == corpus = <<>> /\ live = FALSE

NoThread == thread = (CHOOSE t \in Threads : TRUE) /\ signal = CHOOSE s \in Signals : TRUE

MCInit ==
  /\ \/ machine = "matching" /\ NoEvaluation /\ NoThread
     \/ machine = "evaluation" /\ NoMatching /\ NoThread
     \/ machine = "ground truth" /\ NoMatching /\ NoEvaluation
  /\ Init /\ EvalInit /\ TruthInit

MCNext ==
  /\ UNCHANGED machine
  /\ \/ machine = "matching" /\ Next /\ UNCHANGED <<evalVars, truthVars>>
     \/ machine = "evaluation" /\ EvalNext /\ UNCHANGED <<vars, truthVars>>
     \/ machine = "ground truth" /\ TruthNext /\ UNCHANGED <<vars, evalVars>>

MCSpec == MCInit /\ [][MCNext]_<<vars, evalVars, truthVars, machine>>
==============================================================================
