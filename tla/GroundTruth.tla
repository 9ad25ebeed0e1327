----------------------------- MODULE GroundTruth ------------------------------
(***************************************************************************)
(* How a review thread of a merged pull request becomes labels a paid      *)
(* evaluation may score on: eval/build_dataset.py freezes a fixture of the *)
(* strongest review revision and writes the dataset, adjudicate_dataset.py *)
(* exports a queue of decisions and applies the edited file, and           *)
(* benchmark.certify_dataset compares the result with the fixture.         *)
(*                                                                         *)
(* The three are separate commands run days apart on files; meanwhile the  *)
(* thread goes on.  GitHub keeps a comment's original commit and line and  *)
(* rewrites its commit and line as the pull request is pushed to.  One     *)
(* pull request is modelled: certification is a conjunction over cases.    *)
(***************************************************************************)
EXTENDS Naturals, FiniteSets

CONSTANTS
  Comments, NoComment,
  Revisions,              \* head commits the pull request has had
  Threads,                \* review threads: functions from Comments
  Added,                  \* each revision's added lines against the base
  Changes,                \* each revision's changed lines, in number
  Signals,                \* --signal of the harvest
  Decisions,              \* what a row of the queue may be edited to
  MaxHarvests, MaxEdits,  \* bounds on harvests and on edits of comments
  MaxRows                 \* bound on the rows of the edited queue

\* `shown` is the comment's rewritten line, 0 for null.
Remark == [parent : Comments \cup {NoComment}, by : {"reviewer", "author", "bot"},
           says : {"defect", "request", "thin", "resolution", "deferral", "rejection"},
           product : BOOLEAN, requested : BOOLEAN, revision : Revisions, line : Nat,
           commit : Revisions, shown : Nat, text : Nat]

Verdicts == [verdict : {"unreviewed", "confirmed_defect", "excluded"},
             notes : BOOLEAN, approved : BOOLEAN, named : BOOLEAN]

ASSUME ThreadsFit ==
  /\ NoComment \notin Comments /\ Revisions \subseteq Nat
  /\ Threads \subseteq [Comments -> Remark]
  /\ Added \in [Revisions -> SUBSET Nat] /\ Changes \in [Revisions -> Nat]
  /\ Signals \subseteq {"defect", "accepted", "requested_changes", "all"}
  /\ Decisions \subseteq Verdicts
  /\ MaxHarvests \in Nat /\ MaxEdits \in Nat /\ MaxRows \in Nat

VARIABLES
  thread, posted,         \* the thread, and the comments of it that are there yet
  signal, harvests, edits,
  fixture,                \* the frozen fixture on disk
  collected,              \* the case the harvest holds in memory
  dataset, queue, adjudicated,   \* the files on disk
  stale,                  \* was the dataset written again after a queue was exported
  evaluated               \* the case a live evaluation began on, and its fixture

truthVars == <<thread, posted, signal, harvests, edits, fixture, collected, dataset, queue,
          adjudicated, stale, evaluated>>

\* No case, no fixture: an empty file, or none.
Nothing == [head |-> 0]

TruthInit ==
  /\ thread \in Threads
  /\ posted = {c \in Comments : thread[c].parent = NoComment}
  /\ signal \in Signals /\ harvests = 0 /\ edits = 0
  /\ fixture = Nothing /\ collected = Nothing /\ dataset = Nothing
  /\ queue = {} /\ adjudicated = Nothing /\ stale = FALSE /\ evaluated = Nothing

------------------------------------------------------------------------------
(***************************************************************************)
(* GitHub.                                                                 *)
(***************************************************************************)

Post(c) ==
  /\ evaluated = Nothing /\ c \notin posted
  /\ posted' = posted \cup {c}
  /\ UNCHANGED <<thread, signal, harvests, edits, fixture, collected, dataset, queue,
                 adjudicated, stale, evaluated>>

Edit(c) ==
  /\ evaluated = Nothing /\ c \in posted /\ edits < MaxEdits
  /\ thread' = [thread EXCEPT ![c].text = @ + 1]
  /\ edits' = edits + 1
  /\ UNCHANGED <<posted, signal, harvests, fixture, collected, dataset, queue, adjudicated,
                 stale, evaluated>>

(***************************************************************************)
(* The harvest.                                                            *)
(***************************************************************************)

Replies(c) == {r \in posted : thread[r].parent = c}

\* _direct_author_resolutions.
Resolved(c) == \E r \in Replies(c) : thread[r].by = "author" /\ thread[r].says = "resolution"

\* The lead a signal asks for, in labels_from_review_revision.
Leads(c) ==
  CASE signal = "defect" ->
         /\ thread[c].says = "defect"
         /\ \/ Resolved(c)
            \/ \A r \in Replies(c) :
                 /\ thread[r].says # "deferral"
                 /\ thread[r].says = "rejection" => thread[r].by # "author"
    [] signal = "accepted" -> Resolved(c)
    [] signal = "requested_changes" -> thread[c].requested
    [] signal = "all" -> TRUE

\* Slip: a reply is taken for a comment.
LabelledReplies(revision) ==
  {c \in posted :
     /\ thread[c].by = "reviewer"
     /\ thread[c].says # "thin" /\ thread[c].product
     /\ thread[c].revision = revision
     /\ Leads(c)}

\* labels_from_review_revision: the comments of one revision that become labels.
Labelled(revision) ==
  {c \in posted :
     /\ thread[c].parent = NoComment /\ thread[c].by = "reviewer"
     /\ thread[c].says # "thin" /\ thread[c].product
     /\ thread[c].revision = revision
     /\ Leads(c)}

\* harvest_pull_request keeps those on an added line of the revision.
Targets(revision) == {c \in Labelled(revision) : thread[c].line \in Added[revision]}

NewLabel(c) ==
  [comment |-> c, text |-> thread[c].text, revision |-> thread[c].revision,
   line |-> thread[c].line, decision |-> [verdict |-> "unreviewed", notes |-> FALSE,
   approved |-> FALSE, named |-> FALSE], read |-> thread[c].text]

\* More labels, then fewer changed lines, then the greater hash.
Stronger(r, s) ==
  \/ Cardinality(Targets(r)) > Cardinality(Targets(s))
  \/ /\ Cardinality(Targets(r)) = Cardinality(Targets(s))
     /\ \/ Changes[r] < Changes[s]
        \/ Changes[r] = Changes[s] /\ r > s

\* harvest_pull_request: of the revisions whose comparison with the base is served,
\* the strongest.  The fixture is written at once, over an older one; the case only
\* joins the collected ones, and of two cases of one pull request (a seed dataset
\* names it and the scan finds it) the first is kept.
Harvest(compared) ==
  /\ evaluated = Nothing /\ harvests < MaxHarvests
  /\ harvests' = harvests + 1
  /\ \E head \in compared :
       /\ Targets(head) # {}
       /\ \A r \in compared \ {head} : Targets(r) # {} => Stronger(head, r)
       /\ fixture' = [head |-> head, thread |-> [c \in posted |-> thread[c]]]
       /\ collected' = IF collected # Nothing THEN collected
                       ELSE [head |-> head, labels |-> {NewLabel(c) : c \in Targets(head)}]
  /\ UNCHANGED <<thread, posted, signal, edits, dataset, queue, adjudicated, stale, evaluated>>

\* write_dataset, at the end of the harvest; with no usable case it empties the file.
WriteDataset ==
  /\ evaluated = Nothing /\ harvests > 0
  /\ dataset' = collected /\ collected' = Nothing
  /\ stale' = (stale \/ queue # {})
  /\ UNCHANGED <<thread, posted, signal, harvests, edits, fixture, queue, adjudicated,
                 evaluated>>

\* The harvest stops before it writes the dataset.
Stop ==
  /\ collected # Nothing
  /\ collected' = Nothing
  /\ UNCHANGED <<thread, posted, signal, harvests, edits, fixture, dataset, queue,
                 adjudicated, stale, evaluated>>

(***************************************************************************)
(* Adjudication.                                                           *)
(***************************************************************************)

\* adjudication_queue.
Export ==
  /\ evaluated = Nothing /\ dataset # Nothing /\ fixture # Nothing
  /\ queue' = {[comment |-> l.comment, text |-> l.text, decision |-> l.decision] :
                 l \in dataset.labels}
  /\ UNCHANGED <<thread, posted, signal, harvests, edits, fixture, collected, dataset,
                 adjudicated, stale, evaluated>>

\* A row is decided, or a second one written for its label.
Decide(row, decision) ==
  /\ evaluated = Nothing
  /\ \E kept \in {queue, queue \ {row}} :
       /\ queue' = kept \cup {[row EXCEPT !.decision = decision]}
       /\ Cardinality(queue') <= MaxRows
  /\ UNCHANGED <<thread, posted, signal, harvests, edits, fixture, collected, dataset,
                 adjudicated, stale, evaluated>>

\* What apply_adjudications refuses in a decision.
WellFormed(d) ==
  /\ d.verdict # "unreviewed" => d.notes
  /\ d.approved => d.verdict # "unreviewed" /\ d.named

\* Label.human_adjudicated.
HumanAdjudicated(l) ==
  l.decision.verdict # "unreviewed" /\ l.decision.approved /\ l.decision.named

Confirmed(l) == HumanAdjudicated(l) /\ l.decision.verdict = "confirmed_defect"

Excluded(l) == HumanAdjudicated(l) /\ l.decision.verdict = "excluded"

\* apply_adjudications, by comment id alone.
Applied(labels) ==
  {LET rows == {row \in queue : row.comment = l.comment}
   IN  IF rows = {} THEN l
       ELSE LET row == CHOOSE row \in rows : TRUE
            IN  [l EXCEPT !.decision = row.decision, !.read = row.text] : l \in labels}

\* adjudicate_dataset.main: a complete apply, or a draft.  --confirmed-only drops the
\* case when nothing in it is confirmed; a draft may not ask for it.
Apply(draft, confirmedOnly) ==
  /\ evaluated = Nothing /\ dataset # Nothing /\ queue # {}
  /\ ~(draft /\ confirmedOnly)
  /\ \A row, other \in queue : row.comment = other.comment => row = other
  /\ \A row \in queue : WellFormed(row.decision)
  /\ \A row \in queue : \E l \in dataset.labels : l.comment = row.comment
  /\ \A l \in dataset.labels : draft \/ \E row \in queue : row.comment = l.comment
  /\ LET labels == Applied(dataset.labels)
     IN  /\ draft \/ \A l \in labels : Confirmed(l) \/ Excluded(l)
         /\ adjudicated' = IF confirmedOnly /\ ~\E l \in labels : Confirmed(l) THEN Nothing
                           ELSE [dataset EXCEPT !.labels = labels]
  /\ UNCHANGED <<thread, posted, signal, harvests, edits, fixture, collected, dataset, queue,
                 stale, evaluated>>

(***************************************************************************)
(* Certification.                                                          *)
(***************************************************************************)

\* The line certify_dataset reads: `line or original_line`.
ShownLine(remark) == IF remark.shown # 0 THEN remark.shown ELSE remark.line

\* What it asks of a confirmed label.
Sourced(case, l) ==
  /\ l.revision = case.head
  /\ l.line \in Added[fixture.head]
  /\ l.comment \in DOMAIN fixture.thread
  /\ LET source == fixture.thread[l.comment]
     IN  /\ ShownLine(source) = l.line
         /\ source.text = l.text
         /\ source.commit = l.revision
         /\ source.parent = NoComment
         /\ source.by = "reviewer"

\* Slip: undecided labels are passed over.
CertifiesDecided(case) ==
  /\ case # Nothing /\ fixture # Nothing /\ fixture.head = case.head
  /\ \E l \in case.labels : Confirmed(l)
  /\ \A l \in case.labels : Confirmed(l) => Sourced(case, l)

\* certify_dataset: every label is decided, with notes, by a named human, and every
\* confirmed one has its source in the fixture of the case's own revision.
Certifies(case) ==
  /\ case # Nothing /\ fixture # Nothing /\ fixture.head = case.head
  /\ \E l \in case.labels : ~Excluded(l)
  /\ \A l \in case.labels :
       /\ HumanAdjudicated(l) /\ l.decision.notes
       /\ Excluded(l) \/ Sourced(case, l)

\* `prcritiq eval`, live, on either file.
Evaluate ==
  /\ evaluated = Nothing
  /\ \E case \in {dataset, adjudicated} :
       /\ Certifies(case)
       /\ evaluated' = [head |-> case.head, labels |-> case.labels, fixture |-> fixture]
  /\ UNCHANGED <<thread, posted, signal, harvests, edits, fixture, collected, dataset, queue,
                 adjudicated, stale>>

TruthNext ==
  \/ \E c \in Comments : Post(c) \/ Edit(c)
  \/ \E compared \in SUBSET Revisions : Harvest(compared)
  \/ WriteDataset \/ Stop \/ Export
  \/ \E row \in queue, decision \in Decisions : Decide(row, decision)
  \/ \E draft, confirmedOnly \in BOOLEAN : Apply(draft, confirmedOnly)
  \/ Evaluate

TruthSpec == TruthInit /\ [][TruthNext]_truthVars

------------------------------------------------------------------------------
(***************************************************************************)
(* Properties.                                                             *)
(***************************************************************************)

\* What a live evaluation scores on is ground truth: each scored label is a root
\* comment of a reviewer who is neither the author nor a bot, on a line its revision
\* adds, in the words the frozen thread has; a named human confirmed it with notes,
\* no label of the case was left undecided, and unless the dataset was harvested
\* again after a queue was exported, the words are the ones that human read
\* (benchmark.certify_dataset; dataset.py, "without mistaking provisional agent
\* review for human approval").
ScoredIsGroundTruth ==
  evaluated # Nothing =>
    \A l \in evaluated.labels :
      /\ l.decision.approved /\ l.decision.named /\ l.decision.notes
      /\ l.decision.verdict = "confirmed_defect" =>
           LET source == evaluated.fixture.thread[l.comment]
           IN  /\ source.parent = NoComment /\ source.by = "reviewer"
               /\ source.line \in Added[evaluated.fixture.head] /\ source.line = l.line
               /\ source.revision = evaluated.fixture.head
               /\ source.text = l.text
               /\ ~stale => l.read = l.text

\* A completely adjudicated harvest is refused for three reasons only: nothing in it
\* is confirmed, its fixture was written again, or GitHub rewrote the commit or the
\* line of a confirmed comment between its review and the harvest.  The harvest takes
\* the comment's place from the original fields and certification compares the
\* rewritten ones (labels_from_review_revision; certify_dataset, source_line and
\* commit_id).
RefusedForCause ==
  \A case \in {adjudicated} \ {Nothing} :
    /\ \A l \in case.labels : Confirmed(l) \/ Excluded(l)
    /\ fixture # Nothing /\ fixture.head = case.head
    /\ \A l \in case.labels :
         l.comment \in DOMAIN fixture.thread /\ fixture.thread[l.comment].text = l.text
    => (Certifies(case) <=>
          /\ \E l \in case.labels : Confirmed(l)
          /\ \A l \in case.labels : Confirmed(l) =>
               LET source == fixture.thread[l.comment]
               IN  source.commit = source.revision /\ source.shown \in {0, source.line})
==============================================================================
