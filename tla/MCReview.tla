------------------------------ MODULE MCReview ------------------------------
(***************************************************************************)
(* The two machines of a review without sources, each on small inputs: how *)
(* a patch is parsed, and what becomes of changed files and drafts.  A     *)
(* behaviour is of one of them: the graph knows of a patch only whether it *)
(* parses and which lines it adds.                                         *)
(***************************************************************************)
EXTENDS ReviewGraph, PatchParser

VARIABLE machine

File(path, marks, lines) == [path |-> path, marks |-> marks, parses |-> TRUE, added |-> lines]

Broken(path) == [path |-> path, marks |-> {}, parses |-> FALSE, added |-> {}]

\* Files that are fine, skipped for one reason or for two of which the order
\* decides, without added lines, or listed twice by a moved page.
MCFiles == {
  File("a", {}, {1, 2}), File("a", {}, {2}), File("b", {}, {1}), File("b", {}, {}),
  File("b", {"lockfile", "oversized_patch"}, {1}), File("b", {"no_patch"}, {}), Broken("a")}

MCPullRequests == UNION {[1..n -> MCFiles] : n \in 0..3}

Cand(path, line, flaws) ==
  [path |-> path, line |-> line, category |-> "bug", flaws |-> flaws]

Other(candidate) == [candidate EXCEPT !.category = "contract"]

\* Sound drafts, flawed ones, and twins of both.
MCCandidates == {
  Cand("a", 1, {}), Cand("a", 2, {}), Cand("a", 1, {"low_confidence"}),
  Cand("a", 1, {"no_evidence", "generic"}), Cand("b", 1, {}), Other(Cand("a", 1, {}))}

MCDrafts == UNION {[1..n -> MCCandidates] : n \in 0..3}

------------------------------------------------------------------------------
MCInit ==
  /\ \/ machine = "parser" /\ files = <<>>
     \/ machine = "graph"
  /\ Init /\ PatchInit

MCNext ==
  /\ UNCHANGED machine
  /\ \/ machine = "parser" /\ PatchNext /\ UNCHANGED vars
     \/ machine = "graph" /\ Next /\ UNCHANGED patchVars

MCSpec == MCInit /\ [][MCNext]_<<vars, patchVars, machine>>
==============================================================================
