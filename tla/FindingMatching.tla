---------------------------- MODULE FindingMatching ----------------------------
(***************************************************************************)
(* How a benchmark case pairs published findings with labels               *)
(* (benchmark._maximum_matching): each finding in turn is given a label by *)
(* a depth-first search that may move other findings on to labels of their *)
(* own.  The calls of the nested function `assign` under way are kept as a *)
(* stack, so that what holds between them can be stated.                   *)
(***************************************************************************)
EXTENDS Naturals, Sequences, FiniteSets

CONSTANTS
  Count,                  \* published findings: 1..Count
  Labels,                 \* eligible labels
  EdgeLists               \* what `edges` may be: each finding's labels, nearest first

Findings == 1..Count

ASSUME EdgesAreLists ==
  /\ Count \in Nat /\ IsFiniteSet(Labels)
  /\ EdgeLists \subseteq [Findings -> Seq(Labels)]

VARIABLES
  edges, finding,         \* the finding the outer loop is at
  owner,                  \* label_owner, 0 for none
  stack,                  \* calls of assign under way: their finding, their place in its edges
  visited,                \* labels tried for the finding the outer loop is at
  result                  \* what the last call returned, "none" while one is searching

vars == <<edges, finding, owner, stack, visited, result>>

TypeOK ==
  /\ edges \in [Findings -> Seq(Labels)]
  /\ finding \in 1..(Count + 1)
  /\ owner \in [Labels -> 0..Count]
  /\ stack \in Seq([finding : Findings, at : Nat])
  /\ visited \subseteq Labels
  /\ result \in {"none", "true", "false"}

Init ==
  /\ edges \in EdgeLists
  /\ finding = 1
  /\ owner = [l \in Labels |-> 0]
  /\ stack = <<>> /\ visited = {} /\ result = "none"

------------------------------------------------------------------------------
Top == stack[Len(stack)]

Pop == SubSeq(stack, 1, Len(stack) - 1)

\* The label the innermost call is at.
Label == edges[Top.finding][Top.at]

\* The outer loop calls assign for its finding.
Begin ==
  /\ stack = <<>> /\ result = "none" /\ finding <= Count
  /\ stack' = <<[finding |-> finding, at |-> 1]>>
  /\ visited' = {}
  /\ UNCHANGED <<edges, finding, owner, result>>

Searching == stack # <<>> /\ result = "none"

AtLabel == Searching /\ Top.at <= Len(edges[Top.finding])

\* The next label of the innermost call's finding.
NextLabel == stack' = [stack EXCEPT ![Len(stack)].at = @ + 1]

Skip ==
  /\ AtLabel /\ Label \in visited
  /\ NextLabel
  /\ UNCHANGED <<edges, finding, owner, visited, result>>

\* A label nobody owns.
Take ==
  /\ AtLabel /\ Label \notin visited /\ owner[Label] = 0
  /\ visited' = visited \cup {Label}
  /\ owner' = [owner EXCEPT ![Label] = Top.finding]
  /\ stack' = Pop /\ result' = "true"
  /\ UNCHANGED <<edges, finding>>

\* Slip: the label's owner loses it at once.
AskSteals ==
  /\ AtLabel /\ Label \notin visited /\ owner[Label] # 0
  /\ visited' = visited \cup {Label}
  /\ stack' = Append(stack, [finding |-> owner[Label], at |-> 1])
  /\ owner' = [owner EXCEPT ![Label] = Top.finding]
  /\ UNCHANGED <<edges, finding, result>>

\* An owned label: its owner is asked to find another.
Ask ==
  /\ AtLabel /\ Label \notin visited /\ owner[Label] # 0
  /\ visited' = visited \cup {Label}
  /\ stack' = Append(stack, [finding |-> owner[Label], at |-> 1])
  /\ UNCHANGED <<edges, finding, owner, result>>

\* No label is left.
GiveUp ==
  /\ Searching /\ Top.at > Len(edges[Top.finding])
  /\ stack' = Pop /\ result' = "false"
  /\ UNCHANGED <<edges, finding, owner, visited>>

\* Slip: the caller does not take the label over.
HandOverForgets ==
  /\ stack # <<>> /\ result = "true"
  /\ stack' = Pop
  /\ UNCHANGED <<edges, finding, owner, visited, result>>

\* The owner found another label, and the caller takes this one over.
HandOver ==
  /\ stack # <<>> /\ result = "true"
  /\ owner' = [owner EXCEPT ![Label] = Top.finding]
  /\ stack' = Pop
  /\ UNCHANGED <<edges, finding, visited, result>>

\* Slip: the search ends with the first owner that cannot move.
TryOnFails ==
  /\ stack # <<>> /\ result = "false"
  /\ stack' = Pop
  /\ UNCHANGED <<edges, finding, owner, visited, result>>

\* It did not: the caller goes on to its next label.
TryOn ==
  /\ stack # <<>> /\ result = "false"
  /\ NextLabel
  /\ result' = "none"
  /\ UNCHANGED <<edges, finding, owner, visited>>

\* The outer loop goes on to the next finding.
Advance ==
  /\ stack = <<>> /\ result # "none"
  /\ finding' = finding + 1 /\ result' = "none"
  /\ UNCHANGED <<edges, owner, stack, visited>>

Next == Begin \/ Skip \/ Take \/ Ask \/ GiveUp \/ HandOver \/ TryOn \/ Advance

Spec == Init /\ [][Next]_vars

------------------------------------------------------------------------------
Owns(f) == \E l \in Labels : owner[l] = f

\* Between two findings no finding owns two labels, and a finding owns only
\* labels it matches (_maximum_matching, "one finding can no longer claim several
\* labels and several findings can no longer claim one label").
OneToOne ==
  stack = <<>> =>
    \A l \in Labels : owner[l] # 0 =>
      /\ \E i \in DOMAIN edges[owner[l]] : edges[owner[l]][i] = l
      /\ \A k \in Labels : owner[k] = owner[l] => k = l

\* A finding that has a label keeps one, at every step of every search: its label
\* is taken over only when it has found another (assign).
MatchedStays == [][\A f \in Findings : Owns(f) => Owns(f)']_vars

\* assign nests no deeper than there are labels, whatever matches what: no label
\* is tried twice for one finding (assign, visited).
DepthBounded == Len(stack) <= Cardinality(Labels) + 1

\* What the search ends with is a maximum: no one-to-one choice of matching
\* labels gives more findings one (_maximum_matching, "a maximum-cardinality,
\* one-to-one finding/label matching").
Maximum ==
  finding > Count =>
    \A choice \in [Labels -> 0..Count] :
      (\A l \in Labels : choice[l] # 0 =>
         /\ \E i \in DOMAIN edges[choice[l]] : edges[choice[l]][i] = l
         /\ \A k \in Labels : choice[k] = choice[l] => k = l)
      => Cardinality({l \in Labels : choice[l] # 0}) <= Cardinality({l \in Labels : owner[l] # 0})
==============================================================================
