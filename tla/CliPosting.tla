----------------------------- MODULE CliPosting -----------------------------
(***************************************************************************)
(* `prcritiq review --persist` and `--post` on one pull request: the dry   *)
(* run (review.run_dry_run), what it stores (review._persist_run) and the  *)
(* comments it posts (posting.post_findings), against the run store and    *)
(* GitHub.                                                                 *)
(*                                                                         *)
(* A call is one invocation of the command.  Calls interleave at every     *)
(* store transaction and every GitHub call; a call may stop anywhere, so a *)
(* remote call that takes effect and whose answer is lost is its step      *)
(* followed by Stop.  A store transaction is one step: nothing shows what  *)
(* it wrote before it ends.                                                *)
(***************************************************************************)
EXTENDS Naturals, Sequences, SequencesExt, RunStatus

CONSTANTS
  Calls,                  \* invocations of the command
  Heads,                  \* commits the pull request's head may be at
  Added,                  \* [Heads -> lines the pull request adds, at that head]
  Shown,                  \* [Heads -> lines GitHub counts into the diff, there]
  Bodies,                 \* comment texts
  Drafts,                 \* what a review may publish: sequences of findings
  MaxPushes               \* bound: pushes while the calls run

Lines == UNION {Shown[h] : h \in Heads}
Findings == [line : Lines, body : Bodies]

ASSUME DiffsFit ==
  /\ Heads # {}
  /\ \A h \in Heads : Added[h] \subseteq Shown[h]
ASSUME DraftsFit == Drafts \subseteq Seq(Findings)
ASSUME PushesAreBounded == MaxPushes \in Nat

VARIABLES
  status, parts,          \* the store: RunLedger's variables, a run per head
  recorded,               \* posted_comments: [Heads -> bodies recorded for the run]
  comments,               \* GitHub: the review comments posted to the pull request
  head,                   \* GitHub: the pull request's head
  pc, posts,              \* each call: where it is; was it given --post
  seen, diff,             \* ... the head it reviews, the head whose diff it was served
  draft, at,              \* ... the findings it publishes, the one it is at
  known,                  \* history: what was on record for its run when it began
  pushes

storeVars == <<status, parts, recorded>>
callVars == <<pc, posts, seen, diff, draft, at, known>>
vars == <<storeVars, comments, head, callVars, pushes>>

Ledger == INSTANCE RunLedger WITH Keys <- Heads

Over == {"done", "stopped"}

PCs == {"begin", "listing", "creating", "starting", "summarizing", "opening",
        "checking", "commenting", "recording", "closing"} \cup Parts \cup Over

Comments == [call : Calls, commit : Heads, line : Lines, body : Bodies]

TypeOK ==
  /\ status \in [Heads -> Statuses \cup {Absent}]
  /\ parts \in [Heads -> SUBSET Parts]
  /\ recorded \in [Heads -> SUBSET Bodies]
  /\ comments \subseteq Comments
  /\ head \in Heads
  /\ pc \in [Calls -> PCs]
  /\ posts \in [Calls -> BOOLEAN]
  /\ seen \in [Calls -> Heads] /\ diff \in [Calls -> Heads]
  /\ draft \in [Calls -> Seq(Findings)]
  /\ at \in [Calls -> Nat \ {0}]
  /\ known \in [Calls -> SUBSET Bodies]
  /\ pushes \in 0..MaxPushes

Init ==
  /\ status = [h \in Heads |-> Absent]
  /\ parts = [h \in Heads |-> {}]
  /\ recorded = [h \in Heads |-> {}]
  /\ comments = {}
  /\ head \in Heads
  /\ pc = [c \in Calls |-> "begin"]
  /\ posts \in [Calls -> BOOLEAN]
  /\ seen = [c \in Calls |-> head] /\ diff = [c \in Calls |-> head]
  /\ draft = [c \in Calls |-> <<>>]
  /\ at = [c \in Calls |-> 1]
  /\ known = [c \in Calls |-> {}]
  /\ pushes = 0

------------------------------------------------------------------------------
Goto(c, step) == pc' = [pc EXCEPT ![c] = step]

\* The finding call c is at, and the run its comments are recorded under.
Item(c) == draft[c][at[c]]

AtEnd(c) == at[c] > Len(draft[c])

Mine(c) == {x \in comments : x.call = c}

(***************************************************************************)
(* run_dry_run: read the pull request and review it.                       *)
(***************************************************************************)

\* get_pull_request: the head the run is keyed by and comments are made on.
FetchPullRequest(c) ==
  /\ pc[c] = "begin"
  /\ seen' = [seen EXCEPT ![c] = head]
  /\ known' = [known EXCEPT ![c] = recorded[head]]
  /\ Goto(c, "listing")
  /\ UNCHANGED <<storeVars, comments, head, posts, diff, draft, at, pushes>>

\* list_changed_files, which serves the diff of the head as it is by then, and
\* the review of it: self-critique publishes no finding off that diff's added lines.
Review(c, published) ==
  /\ pc[c] = "listing"
  /\ \A f \in ToSet(published) : f.line \in Added[head]
  /\ diff' = [diff EXCEPT ![c] = head]
  /\ draft' = [draft EXCEPT ![c] = published]
  /\ Goto(c, "creating")
  /\ UNCHANGED <<storeVars, comments, head, posts, seen, at, known, pushes>>

(***************************************************************************)
(* _persist_run: write the run, or find the run that exists.               *)
(***************************************************************************)

\* Where a call goes once its run is in the store.
Stored(c) == IF posts[c] THEN "opening" ELSE "done"

\* Slip: the created flag read as found.
CreateRunLeaves(c) ==
  /\ pc[c] = "creating" /\ status[seen[c]] = Absent
  /\ status' = [status EXCEPT ![seen[c]] = "pending"]
  /\ Goto(c, Stored(c))
  /\ UNCHANGED <<parts, recorded, comments, head, posts, seen, diff, draft, at, known, pushes>>

CreateRun(c) ==
  /\ pc[c] = "creating" /\ status[seen[c]] = Absent
  /\ status' = [status EXCEPT ![seen[c]] = "pending"]
  /\ Goto(c, "starting")
  /\ UNCHANGED <<parts, recorded, comments, head, posts, seen, diff, draft, at, known, pushes>>

\* Slip: no early return for a run that already existed.
FindRunRewrites(c) ==
  /\ pc[c] = "creating" /\ status[seen[c]] # Absent
  /\ Goto(c, "starting")
  /\ UNCHANGED <<storeVars, comments, head, posts, seen, diff, draft, at, known, pushes>>

FindRun(c) ==
  /\ pc[c] = "creating" /\ status[seen[c]] # Absent
  /\ Goto(c, Stored(c))
  /\ UNCHANGED <<storeVars, comments, head, posts, seen, diff, draft, at, known, pushes>>

\* Slip: no assert_transition before the update.
MoveRunUnchecked(c, target, next) ==
  /\ status' = [status EXCEPT ![seen[c]] = target]
  /\ Goto(c, next)
  /\ UNCHANGED <<parts, recorded, comments, head, posts, seen, diff, draft, at, known, pushes>>

\* update_run_status: assert_transition's StoreError ends the call.
MoveRun(c, target, next) ==
  /\ IF CanTransition(status[seen[c]], target)
       THEN /\ status' = [status EXCEPT ![seen[c]] = target]
            /\ Goto(c, next)
       ELSE Goto(c, "stopped") /\ UNCHANGED status
  /\ UNCHANGED <<parts, recorded, comments, head, posts, seen, diff, draft, at, known, pushes>>

Start(c) == pc[c] = "starting" /\ MoveRun(c, "running", "routing")

\* The step after a part, in _persist_run's order.
After(part) ==
  CASE part = "routing" -> "files" [] part = "files" -> "tools"
    [] part = "tools" -> "findings" [] part = "findings" -> "summarizing"

RecordPart(c) ==
  /\ pc[c] \in Parts
  /\ parts' = [parts EXCEPT ![seen[c]] = @ \cup {pc[c]}]
  /\ Goto(c, After(pc[c]))
  /\ UNCHANGED <<status, recorded, comments, head, posts, seen, diff, draft, at, known, pushes>>

\* No tool ran, or the review drafted nothing (a review may draft and publish nothing).
NothingToRecord(c) ==
  /\ pc[c] \in {"tools", "findings"}
  /\ pc[c] = "findings" => draft[c] = <<>>
  /\ Goto(c, After(pc[c]))
  /\ UNCHANGED <<storeVars, comments, head, posts, seen, diff, draft, at, known, pushes>>

Summarize(c) == pc[c] = "summarizing" /\ MoveRun(c, "summarized", Stored(c))

(***************************************************************************)
(* _post_findings and post_findings.                                       *)
(***************************************************************************)

\* Slip: the run is moved to posted whether or not anything was posted.
OpenCloses(c) ==
  /\ pc[c] = "opening"
  /\ Goto(c, IF draft[c] = <<>> THEN "closing" ELSE "checking")
  /\ UNCHANGED <<storeVars, comments, head, posts, seen, diff, draft, at, known, pushes>>

\* No published finding: nothing is posted and the run is left as it is.
Open(c) ==
  /\ pc[c] = "opening"
  /\ Goto(c, IF draft[c] = <<>> THEN "done" ELSE "checking")
  /\ UNCHANGED <<storeVars, comments, head, posts, seen, diff, draft, at, known, pushes>>

\* Slip: the body is not looked up before it is posted.
CheckForgets(c) ==
  /\ pc[c] = "checking" /\ ~AtEnd(c)
  /\ IF Item(c).line \in Added[diff[c]]
       THEN Goto(c, "commenting") /\ UNCHANGED at
       ELSE at' = [at EXCEPT ![c] = @ + 1] /\ UNCHANGED pc
  /\ UNCHANGED <<storeVars, comments, head, posts, seen, diff, draft, known, pushes>>

\* validate_line against the diff the call was served, then _already_posted.
Check(c) ==
  /\ pc[c] = "checking" /\ ~AtEnd(c)
  /\ IF Item(c).line \in Added[diff[c]] /\ Item(c).body \notin recorded[seen[c]]
       THEN Goto(c, "commenting") /\ UNCHANGED at
       ELSE at' = [at EXCEPT ![c] = @ + 1] /\ UNCHANGED pc
  /\ UNCHANGED <<storeVars, comments, head, posts, seen, diff, draft, known, pushes>>

\* create_review_comment on the head the call saw.  GitHub refuses a line it
\* does not count into that commit's diff, and the refusal ends the call.
Comment(c) ==
  /\ pc[c] = "commenting"
  /\ IF Item(c).line \in Shown[seen[c]]
       THEN /\ comments' = comments \cup
                 {[call |-> c, commit |-> seen[c], line |-> Item(c).line, body |-> Item(c).body]}
            /\ Goto(c, "recording")
       ELSE Goto(c, "stopped") /\ UNCHANGED comments
  /\ UNCHANGED <<storeVars, head, posts, seen, diff, draft, at, known, pushes>>

\* Slip: the posted body is not committed.
RecordCommentForgets(c) ==
  /\ pc[c] = "recording"
  /\ at' = [at EXCEPT ![c] = @ + 1]
  /\ Goto(c, "checking")
  /\ UNCHANGED <<storeVars, comments, head, posts, seen, diff, draft, known, pushes>>

\* _record_posted: ON CONFLICT DO NOTHING.
RecordComment(c) ==
  /\ pc[c] = "recording"
  /\ recorded' = [recorded EXCEPT ![seen[c]] = @ \cup {Item(c).body}]
  /\ at' = [at EXCEPT ![c] = @ + 1]
  /\ Goto(c, "checking")
  /\ UNCHANGED <<status, parts, comments, head, posts, seen, diff, draft, known, pushes>>

\* Every finding is done with.
FinishPosting(c) ==
  /\ pc[c] = "checking" /\ AtEnd(c)
  /\ Goto(c, IF Mine(c) = {} THEN "done" ELSE "closing")
  /\ UNCHANGED <<storeVars, comments, head, posts, seen, diff, draft, at, known, pushes>>

Close(c) == pc[c] = "closing" /\ MoveRun(c, "posted", "done")

------------------------------------------------------------------------------
\* The command is interrupted, or a GitHub or store call of it raises: nothing
\* catches that before the command ends, and nothing marks the run.
Stop(c) ==
  /\ pc[c] \notin Over
  /\ Goto(c, "stopped")
  /\ UNCHANGED <<storeVars, comments, head, posts, seen, diff, draft, at, known, pushes>>

Push(h) ==
  /\ pushes < MaxPushes /\ head # h
  /\ pushes' = pushes + 1
  /\ head' = h
  /\ UNCHANGED <<storeVars, comments, callVars>>

CallStep(c) ==
  \/ FetchPullRequest(c) \/ \E published \in Drafts : Review(c, published)
  \/ CreateRun(c) \/ FindRun(c) \/ Start(c) \/ RecordPart(c) \/ NothingToRecord(c)
  \/ Summarize(c) \/ Open(c) \/ Check(c) \/ Comment(c) \/ RecordComment(c)
  \/ FinishPosting(c) \/ Close(c)

Next ==
  \/ \E c \in Calls : CallStep(c) \/ Stop(c)
  \/ \E h \in Heads : Push(h)

\* A command that was started runs until it ends: every GitHub call has a
\* timeout and every transaction ends.  Being stopped is never owed.
Spec == Init /\ [][Next]_vars /\ \A c \in Calls : WF_vars(CallStep(c))

------------------------------------------------------------------------------
\* A call never posts a comment that was on record for its run when it began,
\* so re-running a review does not repeat a comment (posting.py, "re-running a
\* review cannot post the same comment twice").
NoRepost == \A x \in comments : x.body \notin known[x.call]

\* The record fits GitHub: every body on record was posted on that commit, and
\* every comment is on record unless its call is between posting and recording
\* it, or was stopped (posting.post_findings, _record_posted).
RecordFitsComments ==
  /\ \A h \in Heads : recorded[h] \subseteq {x.body : x \in {y \in comments : y.commit = h}}
  /\ \A x \in comments : x.body \in recorded[x.commit] \/ pc[x.call] \in {"recording", "stopped"}

\* "posted" tells the truth: a posted run has a comment on record, and the run
\* of a call that commented and ended well is posted (review._post_findings).
PostedFitsComments ==
  /\ \A h \in Heads : status[h] = "posted" => recorded[h] # {}
  /\ \A c \in Calls : pc[c] = "done" /\ Mine(c) # {} => status[seen[c]] = "posted"

\* A second call does not spoil the first one's run: whatever other calls find
\* and post under it meanwhile, the call that is writing a run finds it where it
\* left it (review._persist_run, "The existing run is returned untouched").
WriterOwnsRun ==
  \A c \in Calls :
    /\ pc[c] = "starting" => status[seen[c]] = "pending"
    /\ pc[c] \in Parts => status[seen[c]] = "running" /\ pc[c] \notin parts[seen[c]]
    /\ pc[c] = "summarizing" => status[seen[c]] = "running"

\* The command implements the ledger the store promises.
ImplementsLedger == Ledger!LedgerSpec

\* A run is carried to a reviewed state unless a call was stopped on the way:
\* no call can leave another's run pending or running.
RunsSettle ==
  \A h \in Heads :
    status[h] = "pending" ~>
      status[h] \in {"summarized", "posted"} \/ \E c \in Calls : pc[c] = "stopped"

\* What the README says of inline comments: "an inline comment can only ever
\* target a line this pull request actually added".
CommentsTargetAddedLines == \A x \in comments : x.line \in Added[x.commit]

\* What post_findings' docstring says: "Post every published finding that still
\* validates, exactly once."  A call that ended well left a comment for each.
EveryFindingPosted ==
  \A c \in Calls :
    pc[c] = "done" /\ posts[c] =>
      \A f \in ToSet(draft[c]) :
        f.line \in Added[diff[c]] =>
          \E x \in comments : x.commit = seen[c] /\ x.line = f.line /\ x.body = f.body
==============================================================================
