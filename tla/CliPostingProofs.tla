-------------------------- MODULE CliPostingProofs --------------------------
(***************************************************************************)
(* Theorems of CliPosting, for every set of calls, heads, diffs and        *)
(* drafts and any number of pushes.  The inductive invariant says that a   *)
(* run being written has one writer, which finds it where it left it; that *)
(* a comment is made on the head its call keyed its run by; and that only  *)
(* a call that is between posting and recording holds an unrecorded one.   *)
(***************************************************************************)
EXTENDS CliPosting, TLAPS

\* The steps of a call that is writing the run it created.
Writing(c) == pc[c] \in {"starting", "summarizing"} \cup Parts

\* The steps before a call may have commented.
Early(c) ==
  pc[c] \in {"begin", "listing", "creating", "starting", "summarizing", "opening"} \cup Parts

\* What a writer may have stored when it is at `step`.
StoredBefore(step) ==
  CASE step = "files" -> {"routing"}
    [] step = "tools" -> {"routing", "files"}
    [] step = "findings" -> {"routing", "files", "tools"}
    [] OTHER -> {}

OneWriter ==
  \A c, d \in Calls : Writing(c) /\ Writing(d) /\ seen[c] = seen[d] => c = d

WriterFits ==
  \A c \in Calls :
    /\ pc[c] = "starting" => status[seen[c]] = "pending"
    /\ pc[c] \in Parts \cup {"summarizing"} => status[seen[c]] = "running"
    /\ pc[c] \in Parts => parts[seen[c]] \subseteq StoredBefore(pc[c])

EmptyUntilRunning ==
  \A h \in Heads : status[h] \in {Absent, "pending"} => parts[h] = {}

DraftFits ==
  \A c \in Calls : pc[c] \in {"commenting", "recording"} => at[c] \in 1..Len(draft[c])

CommentsFit ==
  \A x \in comments : x.commit = seen[x.call] /\ ~Early(x.call)

RecordingFits ==
  \A c \in Calls :
    pc[c] = "recording" =>
      /\ \E x \in comments : x.call = c /\ x.body = Item(c).body
      /\ \A x \in comments :
           x.call = c => x.body \in recorded[x.commit] \/ x.body = Item(c).body

KnownFits ==
  \A c \in Calls :
    /\ known[c] \subseteq recorded[seen[c]]
    /\ pc[c] = "commenting" => Item(c).body \notin known[c]

ClosingFits ==
  \A c \in Calls : pc[c] = "closing" => Mine(c) # {}

IInv ==
  /\ TypeOK /\ OneWriter /\ WriterFits /\ EmptyUntilRunning
  /\ DraftFits /\ CommentsFit /\ RecordingFits /\ RecordFitsComments
  /\ KnownFits /\ NoRepost /\ ClosingFits /\ PostedFitsComments

------------------------------------------------------------------------------
LEMMA ItemType ==
  ASSUME TypeOK, DraftFits, NEW c \in Calls, pc[c] \in {"commenting", "recording"}
  PROVE  Item(c) \in Findings /\ Item(c).line \in Lines /\ Item(c).body \in Bodies
  <1>1. Item(c) \in Findings
    BY DEF TypeOK, DraftFits, Item
  <1> QED
    BY <1>1 DEF Findings

\* Every call and every step of it keeps the types.
LEMMA StepTypeOK == TypeOK /\ DraftFits /\ [Next]_vars => TypeOK'
  <1> SUFFICES ASSUME TypeOK, DraftFits, [Next]_vars PROVE TypeOK'
    OBVIOUS
  <1> USE DEF TypeOK, Goto, PCs, Over, Parts
  <1>1. ASSUME NEW c \in Calls, FetchPullRequest(c) PROVE TypeOK'
    BY <1>1 DEF FetchPullRequest, storeVars
  <1>2. ASSUME NEW c \in Calls, NEW published \in Drafts, Review(c, published) PROVE TypeOK'
    BY <1>2, DraftsFit DEF Review, storeVars
  <1>3. ASSUME NEW c \in Calls, CreateRun(c) PROVE TypeOK'
    BY <1>3 DEF CreateRun, Statuses
  <1>4. ASSUME NEW c \in Calls, FindRun(c) \/ Open(c) \/ FinishPosting(c) \/ Stop(c)
        PROVE  TypeOK'
    BY <1>4 DEF FindRun, Open, FinishPosting, Stop, Stored, storeVars
  <1>5. ASSUME NEW c \in Calls, Start(c) \/ Summarize(c) \/ Close(c) PROVE TypeOK'
    BY <1>5 DEF Start, Summarize, Close, MoveRun, Stored, Statuses
  <1>6. ASSUME NEW c \in Calls, RecordPart(c) PROVE TypeOK'
    BY <1>6 DEF RecordPart, After
  <1>7. ASSUME NEW c \in Calls, NothingToRecord(c) PROVE TypeOK'
    BY <1>7 DEF NothingToRecord, After, storeVars
  <1>8. ASSUME NEW c \in Calls, Check(c) PROVE TypeOK'
    <2>1. at' \in [Calls -> Nat \ {0}] /\ pc' \in [Calls -> PCs]
      BY <1>8 DEF Check
    <2> QED
      BY <1>8, <2>1 DEF Check, storeVars
  <1>9. ASSUME NEW c \in Calls, Comment(c) PROVE TypeOK'
    <2>0. /\ Item(c).line \in Lines /\ Item(c).body \in Bodies /\ seen[c] \in Heads
          /\ \A x \in comments : x \in Comments
      BY <1>9, ItemType DEF Comment
    <2>1. comments' \subseteq Comments
      BY <1>9, <2>0 DEF Comment, Comments
    <2>2. pc' \in [Calls -> PCs]
      BY ZenonT(30), <1>9 DEF Comment
    <2> QED
      BY <1>9, <2>1, <2>2 DEF Comment, storeVars
  <1>10. ASSUME NEW c \in Calls, RecordComment(c) PROVE TypeOK'
    BY <1>10, ItemType DEF RecordComment
  <1>11. ASSUME NEW h \in Heads, Push(h) PROVE TypeOK'
    BY <1>11, PushesAreBounded DEF Push, storeVars, callVars
  <1>12. CASE UNCHANGED vars
    BY <1>12 DEF vars, storeVars, callVars
  <1> QED
    BY <1>1, <1>2, <1>3, <1>4, <1>5, <1>6, <1>7, <1>8, <1>9, <1>10, <1>11, <1>12
    DEF Next, CallStep

------------------------------------------------------------------------------
(***************************************************************************)
(* What a step may do to a run: the ledger's half of the invariant.        *)
(***************************************************************************)

\* The steps that leave every run and every writer as they are.
LEMMA QuietSteps ==
  ASSUME TypeOK, NEW c \in Calls,
         \/ FetchPullRequest(c) \/ \E published \in Drafts : Review(c, published)
         \/ FindRun(c) \/ Open(c) \/ Check(c) \/ Comment(c) \/ RecordComment(c)
         \/ FinishPosting(c) \/ Stop(c)
  PROVE  /\ UNCHANGED <<status, parts>>
         /\ \A d \in Calls : Writing(d)' => Writing(d) /\ pc'[d] = pc[d] /\ seen'[d] = seen[d]
  <1> USE DEF TypeOK, Goto, Writing, Parts
  <1>1. CASE FetchPullRequest(c)
    BY <1>1 DEF FetchPullRequest, storeVars
  <1>2. CASE \E published \in Drafts : Review(c, published)
    BY <1>2 DEF Review, storeVars
  <1>3. CASE FindRun(c) \/ Open(c) \/ FinishPosting(c) \/ Stop(c)
    BY <1>3 DEF FindRun, Open, FinishPosting, Stop, Stored, storeVars
  <1>4. CASE Check(c)
    BY <1>4 DEF Check, storeVars
  <1>5. CASE Comment(c)
    BY <1>5 DEF Comment, storeVars
  <1>6. CASE RecordComment(c)
    BY <1>6 DEF RecordComment
  <1> QED
    BY <1>1, <1>2, <1>3, <1>4, <1>5, <1>6

\* A closing call moves no run but a summarized one.
LEMMA CloseStep ==
  ASSUME TypeOK, NEW c \in Calls, Close(c)
  PROVE  /\ \A h \in Heads : status'[h] # status[h] =>
              h = seen[c] /\ status[h] = "summarized" /\ status'[h] = "posted"
         /\ UNCHANGED <<parts, seen>>
         /\ \A d \in Calls : Writing(d)' => Writing(d) /\ pc'[d] = pc[d]
  BY DEF Close, MoveRun, Goto, TypeOK, Writing, Parts, CanTransition, Transitions

\* A writer's own move is legal, so it never stops there.
LEMMA WriterMoves ==
  ASSUME TypeOK, WriterFits, NEW c \in Calls
  PROVE  /\ Start(c) => /\ status' = [status EXCEPT ![seen[c]] = "running"]
                        /\ pc' = [pc EXCEPT ![c] = "routing"]
                        /\ UNCHANGED <<parts, seen>>
         /\ Summarize(c) => /\ status' = [status EXCEPT ![seen[c]] = "summarized"]
                            /\ pc' = [pc EXCEPT ![c] = Stored(c)]
                            /\ UNCHANGED <<parts, seen>>
  BY DEF Start, Summarize, MoveRun, Goto, WriterFits, CanTransition, Transitions

LEMMA PartSteps ==
  ASSUME TypeOK, NEW c \in Calls, RecordPart(c) \/ NothingToRecord(c)
  PROVE  /\ pc[c] \in Parts /\ pc' = [pc EXCEPT ![c] = After(pc[c])]
         /\ \/ parts' = [parts EXCEPT ![seen[c]] = @ \cup {pc[c]}]
            \/ UNCHANGED parts
         /\ UNCHANGED <<status, seen>>
  BY DEF RecordPart, NothingToRecord, Goto, Parts, storeVars

\* A run being written has one writer, the call that created it.
LEMMA StepOneWriter == IInv /\ [Next]_vars => OneWriter'
  <1> SUFFICES ASSUME IInv, [Next]_vars PROVE OneWriter'
    OBVIOUS
  <1>0. TypeOK /\ OneWriter /\ WriterFits
    BY DEF IInv
  <1>1. ASSUME NEW c \in Calls, CreateRun(c) PROVE OneWriter'
    BY <1>0, <1>1 DEF CreateRun, Goto, OneWriter, WriterFits, Writing, TypeOK, Parts, Absent
  <1>2. ASSUME NEW c \in Calls, Start(c) \/ Summarize(c) PROVE OneWriter'
    <2>1. \A d \in Calls : Writing(d)' => Writing(d)
      BY <1>0, <1>2, WriterMoves DEF Start, Summarize, Writing, TypeOK, Parts, Stored
    <2>2. UNCHANGED seen
      BY <1>0, <1>2, WriterMoves
    <2> QED
      BY <1>0, <2>1, <2>2 DEF OneWriter
  <1>3. ASSUME NEW c \in Calls, RecordPart(c) \/ NothingToRecord(c) PROVE OneWriter'
    BY <1>0, <1>3, PartSteps DEF OneWriter, Writing, TypeOK, Parts
  <1>4. ASSUME NEW c \in Calls, Close(c) PROVE OneWriter'
    BY <1>0, <1>4, CloseStep DEF OneWriter
  <1>5. ASSUME NEW c \in Calls,
               \/ FetchPullRequest(c) \/ \E published \in Drafts : Review(c, published)
               \/ FindRun(c) \/ Open(c) \/ Check(c) \/ Comment(c) \/ RecordComment(c)
               \/ FinishPosting(c) \/ Stop(c)
        PROVE  OneWriter'
    BY <1>0, <1>5, QuietSteps DEF OneWriter
  <1>6. ASSUME UNCHANGED vars \/ \E h \in Heads : Push(h) PROVE OneWriter'
    BY <1>0, <1>6 DEF OneWriter, Writing, Push, vars, callVars
  <1> QED
    BY <1>1, <1>2, <1>3, <1>4, <1>5, <1>6 DEF Next, CallStep

\* A writer finds its run where it left it.
LEMMA StepWriterFits == IInv /\ [Next]_vars => WriterFits'
  <1> SUFFICES ASSUME IInv, [Next]_vars PROVE WriterFits'
    OBVIOUS
  <1>0. TypeOK /\ OneWriter /\ WriterFits /\ EmptyUntilRunning
    BY DEF IInv
  <1> USE <1>0 DEF TypeOK, Parts
  <1>1. ASSUME NEW c \in Calls, CreateRun(c) PROVE WriterFits'
    BY <1>1 DEF CreateRun, Goto, WriterFits, Absent
  <1>2. ASSUME NEW c \in Calls, Start(c) PROVE WriterFits'
    <2>1. pc[c] = "starting" /\ parts[seen[c]] = {}
      BY <1>2 DEF Start, WriterFits, EmptyUntilRunning
    <2>2. /\ status' = [status EXCEPT ![seen[c]] = "running"]
          /\ pc' = [pc EXCEPT ![c] = "routing"]
          /\ UNCHANGED <<parts, seen>>
      BY <1>2, WriterMoves
    <2>3. \A d \in Calls : d # c /\ Writing(d)' => Writing(d) /\ seen[d] # seen[c]
      BY <2>1, <2>2 DEF OneWriter, Writing
    <2> QED
      BY <2>1, <2>2, <2>3 DEF Writing, WriterFits
  <1>3. ASSUME NEW c \in Calls, Summarize(c) PROVE WriterFits'
    <2>1. pc[c] = "summarizing"
      BY <1>3 DEF Summarize
    <2>2. /\ status' = [status EXCEPT ![seen[c]] = "summarized"]
          /\ pc' = [pc EXCEPT ![c] = Stored(c)] /\ Stored(c) \in {"opening", "done"}
          /\ UNCHANGED <<parts, seen>>
      BY <1>3, WriterMoves DEF Stored
    <2>3. \A d \in Calls : Writing(d)' => d # c /\ Writing(d) /\ seen[d] # seen[c]
      BY <2>1, <2>2 DEF OneWriter, Writing
    <2> QED
      BY <2>1, <2>2, <2>3 DEF Writing, WriterFits
  <1>4. ASSUME NEW c \in Calls, RecordPart(c) \/ NothingToRecord(c) PROVE WriterFits'
    <2>1. /\ After(pc[c]) \in {"files", "tools", "findings", "summarizing"}
          /\ After(pc[c]) # "summarizing" =>
               StoredBefore(pc[c]) \cup {pc[c]} \subseteq StoredBefore(After(pc[c]))
      BY <1>4, PartSteps DEF After, StoredBefore
    <2> QED
      BY <1>4, <2>1, PartSteps DEF OneWriter, Writing, WriterFits
  <1>5. ASSUME NEW c \in Calls, Close(c) PROVE WriterFits'
    BY <1>5, CloseStep DEF WriterFits, Writing
  <1>6. ASSUME NEW c \in Calls,
               \/ FetchPullRequest(c) \/ \E published \in Drafts : Review(c, published)
               \/ FindRun(c) \/ Open(c) \/ Check(c) \/ Comment(c) \/ RecordComment(c)
               \/ FinishPosting(c) \/ Stop(c)
        PROVE  WriterFits'
    BY <1>6, QuietSteps DEF WriterFits, Writing
  <1>7. ASSUME UNCHANGED vars \/ \E h \in Heads : Push(h) PROVE WriterFits'
    BY <1>7 DEF WriterFits, Push, vars, callVars, storeVars
  <1> QED
    BY <1>1, <1>2, <1>3, <1>4, <1>5, <1>6, <1>7 DEF Next, CallStep

\* A run that was not started holds no evidence.
LEMMA StepEmptyUntilRunning == IInv /\ [Next]_vars => EmptyUntilRunning'
  <1> SUFFICES ASSUME IInv, [Next]_vars PROVE EmptyUntilRunning'
    OBVIOUS
  <1>0. TypeOK /\ WriterFits /\ EmptyUntilRunning
    BY DEF IInv
  <1> USE <1>0 DEF TypeOK, EmptyUntilRunning
  <1>1. ASSUME NEW c \in Calls, CreateRun(c) PROVE EmptyUntilRunning'
    BY <1>1 DEF CreateRun
  <1>2. ASSUME NEW c \in Calls, Start(c) \/ Summarize(c) PROVE EmptyUntilRunning'
    BY <1>2, WriterMoves DEF Absent
  <1>3. ASSUME NEW c \in Calls, RecordPart(c) \/ NothingToRecord(c) PROVE EmptyUntilRunning'
    <2>1. status[seen[c]] = "running"
      BY <1>3, PartSteps DEF WriterFits
    <2>2. /\ UNCHANGED status
          /\ \A h \in Heads : h # seen[c] => parts'[h] = parts[h]
      BY <1>3 DEF RecordPart, NothingToRecord, storeVars
    <2> QED
      BY <2>1, <2>2 DEF Absent
  <1>4. ASSUME NEW c \in Calls, Close(c) PROVE EmptyUntilRunning'
    BY <1>4, CloseStep DEF Absent
  <1>5. ASSUME NEW c \in Calls,
               \/ FetchPullRequest(c) \/ \E published \in Drafts : Review(c, published)
               \/ FindRun(c) \/ Open(c) \/ Check(c) \/ Comment(c) \/ RecordComment(c)
               \/ FinishPosting(c) \/ Stop(c)
        PROVE  EmptyUntilRunning'
    BY <1>5, QuietSteps
  <1>6. ASSUME UNCHANGED vars \/ \E h \in Heads : Push(h) PROVE EmptyUntilRunning'
    BY <1>6 DEF Push, vars, storeVars
  <1> QED
    BY <1>1, <1>2, <1>3, <1>4, <1>5, <1>6 DEF Next, CallStep

------------------------------------------------------------------------------
(***************************************************************************)
(* What a step may do to comments and their records: the posting half.     *)
(***************************************************************************)

postVars == <<recorded, comments, seen, draft, at, known>>

\* The steps that post and record nothing, and where they may take a call.
LEMMA StillSteps ==
  ASSUME TypeOK, NEW c \in Calls,
         \/ CreateRun(c) \/ FindRun(c) \/ Start(c) \/ RecordPart(c) \/ NothingToRecord(c)
         \/ Summarize(c) \/ Open(c) \/ FinishPosting(c) \/ Close(c) \/ Stop(c)
  PROVE  /\ UNCHANGED postVars
         /\ \A d \in Calls : d # c => pc'[d] = pc[d]
         /\ pc'[c] \notin {"commenting", "recording"}
         /\ Early(c)' => Early(c)
         /\ pc[c] = "recording" => pc'[c] = "stopped"
  <1> USE DEF TypeOK, Goto, Early, Parts, postVars
  <1>1. CASE CreateRun(c)
    BY <1>1 DEF CreateRun
  <1>2. CASE FindRun(c) \/ Open(c) \/ FinishPosting(c) \/ Stop(c)
    BY <1>2 DEF FindRun, Open, FinishPosting, Stop, Stored, storeVars
  <1>3. CASE Start(c) \/ Summarize(c) \/ Close(c)
    BY <1>3 DEF Start, Summarize, Close, MoveRun, Stored
  <1>4. CASE RecordPart(c) \/ NothingToRecord(c)
    BY <1>4 DEF RecordPart, NothingToRecord, After, storeVars
  <1> QED
    BY <1>1, <1>2, <1>3, <1>4

\* FetchPullRequest, the only step that changes the head a call reviews.
LEMMA FetchStep ==
  ASSUME TypeOK, NEW c \in Calls, FetchPullRequest(c)
  PROVE  /\ pc[c] = "begin" /\ pc' = [pc EXCEPT ![c] = "listing"]
         /\ seen' = [seen EXCEPT ![c] = head]
         /\ known' = [known EXCEPT ![c] = recorded[head]]
         /\ UNCHANGED <<status, recorded, comments, draft, at>>
  BY DEF FetchPullRequest, Goto, storeVars

LEMMA ReviewStep ==
  ASSUME TypeOK, NEW c \in Calls, \E published \in Drafts : Review(c, published)
  PROVE  /\ pc[c] = "listing" /\ pc' = [pc EXCEPT ![c] = "creating"]
         /\ \A d \in Calls : d # c => draft'[d] = draft[d]
         /\ UNCHANGED <<status, recorded, comments, seen, at, known>>
  BY DEF Review, Goto, storeVars, TypeOK

LEMMA CheckStep ==
  ASSUME TypeOK, NEW c \in Calls, Check(c)
  PROVE  /\ pc[c] = "checking"
         /\ UNCHANGED <<status, recorded, comments, seen, draft, known>>
         /\ \/ /\ pc' = [pc EXCEPT ![c] = "commenting"]
               /\ at[c] \in 1..Len(draft[c]) /\ UNCHANGED at
               /\ Item(c).body \notin recorded[seen[c]]
            \/ UNCHANGED pc /\ \A d \in Calls : d # c => at'[d] = at[d]
  BY DEF Check, Goto, storeVars, TypeOK, AtEnd

LEMMA CommentStep ==
  ASSUME TypeOK, NEW c \in Calls, Comment(c)
  PROVE  /\ pc[c] = "commenting" /\ pc'[c] \in {"recording", "stopped"}
         /\ \A d \in Calls : d # c => pc'[d] = pc[d]
         /\ UNCHANGED <<status, recorded, seen, draft, at, known>>
         /\ comments \subseteq comments'
         /\ \A x \in comments' :
              \/ x \in comments
              \/ x.call = c /\ x.commit = seen[c] /\ x.body = Item(c).body
         /\ pc'[c] = "recording" => \E x \in comments' : x.call = c /\ x.body = Item(c).body
  <1>1. /\ pc[c] = "commenting" /\ pc'[c] \in {"recording", "stopped"}
        /\ \A d \in Calls : d # c => pc'[d] = pc[d]
        /\ UNCHANGED <<status, recorded, seen, draft, at, known>>
    BY DEF Comment, Goto, storeVars, TypeOK
  <1>2. CASE comments' = comments \cup
               {[call |-> c, commit |-> seen[c], line |-> Item(c).line, body |-> Item(c).body]}
    <2> DEFINE new == [call |-> c, commit |-> seen[c], line |-> Item(c).line,
                       body |-> Item(c).body]
    <2>1. new.call = c /\ new.commit = seen[c] /\ new.body = Item(c).body
      OBVIOUS
    <2>2. comments' = comments \cup {new}
      BY <1>2
    <2> HIDE DEF new
    <2> QED
      BY <1>1, <2>1, <2>2
  <1>3. CASE comments' = comments /\ pc'[c] = "stopped"
    BY <1>1, <1>3
  <1> QED
    BY <1>2, <1>3 DEF Comment, Goto, TypeOK

LEMMA RecordStep ==
  ASSUME TypeOK, NEW c \in Calls, RecordComment(c)
  PROVE  /\ pc[c] = "recording" /\ pc' = [pc EXCEPT ![c] = "checking"]
         /\ recorded' = [recorded EXCEPT ![seen[c]] = @ \cup {Item(c).body}]
         /\ \A h \in Heads : recorded[h] \subseteq recorded'[h]
         /\ \A d \in Calls : d # c => at'[d] = at[d]
         /\ UNCHANGED <<status, comments, seen, draft, known>>
  BY DEF RecordComment, Goto, TypeOK

\* A push, or nothing.
LEMMA ElseStep ==
  ASSUME UNCHANGED vars \/ \E h \in Heads : Push(h)
  PROVE  UNCHANGED <<status, pc, postVars>>
  BY DEF Push, vars, storeVars, callVars, postVars

StillStep(c) ==
  \/ CreateRun(c) \/ FindRun(c) \/ Start(c) \/ RecordPart(c) \/ NothingToRecord(c)
  \/ Summarize(c) \/ Open(c) \/ FinishPosting(c) \/ Close(c) \/ Stop(c)

LEMMA StepKinds ==
  ASSUME [Next]_vars
  PROVE  \/ \E c \in Calls :
              \/ StillStep(c) \/ FetchPullRequest(c)
              \/ \E published \in Drafts : Review(c, published)
              \/ Check(c) \/ Comment(c) \/ RecordComment(c)
         \/ UNCHANGED vars \/ \E h \in Heads : Push(h)
  BY DEF Next, CallStep, StillStep

\* A call that posts is at one of its findings.
LEMMA StepDraftFits == TypeOK /\ DraftFits /\ [Next]_vars => DraftFits'
  <1> SUFFICES ASSUME TypeOK, DraftFits, [Next]_vars PROVE DraftFits'
    OBVIOUS
  <1> USE DEF TypeOK, DraftFits
  <1>1. ASSUME NEW c \in Calls, StillStep(c) PROVE DraftFits'
    BY <1>1, StillSteps DEF StillStep, postVars
  <1>2. ASSUME NEW c \in Calls, FetchPullRequest(c) PROVE DraftFits'
    BY <1>2, FetchStep
  <1>3. ASSUME NEW c \in Calls, \E published \in Drafts : Review(c, published)
        PROVE  DraftFits'
    BY <1>3, ReviewStep
  <1>4. ASSUME NEW c \in Calls, Check(c) PROVE DraftFits'
    BY <1>4, CheckStep
  <1>5. ASSUME NEW c \in Calls, Comment(c) PROVE DraftFits'
    BY <1>5, CommentStep
  <1>6. ASSUME NEW c \in Calls, RecordComment(c) PROVE DraftFits'
    BY <1>6, RecordStep
  <1>7. ASSUME UNCHANGED vars \/ \E h \in Heads : Push(h) PROVE DraftFits'
    BY <1>7, ElseStep DEF postVars
  <1> QED
    BY <1>1, <1>2, <1>3, <1>4, <1>5, <1>6, <1>7, StepKinds

\* A comment is on the head its call keyed its run by.
LEMMA StepCommentsFit == IInv /\ [Next]_vars => CommentsFit'
  <1> SUFFICES ASSUME IInv, [Next]_vars PROVE CommentsFit'
    OBVIOUS
  <1>0. TypeOK /\ DraftFits /\ CommentsFit /\ \A x \in comments : x.call \in Calls
    BY DEF IInv, TypeOK, Comments
  <1> USE <1>0 DEF TypeOK, CommentsFit, Early, Parts
  <1>1. ASSUME NEW c \in Calls, StillStep(c) PROVE CommentsFit'
    <2>1. \A d \in Calls : Early(d)' => Early(d)
      BY <1>1, StillSteps DEF StillStep
    <2>2. UNCHANGED <<comments, seen>>
      BY <1>1, StillSteps DEF StillStep, postVars
    <2> QED
      BY <2>1, <2>2
  <1>2. ASSUME NEW c \in Calls, FetchPullRequest(c) PROVE CommentsFit'
    BY <1>2, FetchStep
  <1>3. ASSUME NEW c \in Calls, \E published \in Drafts : Review(c, published)
        PROVE  CommentsFit'
    <2>1. UNCHANGED <<comments, seen>>
      BY <1>3, ReviewStep
    <2>2. \A d \in Calls : Early(d)' => Early(d)
      BY <1>3, ReviewStep
    <2> QED
      BY <2>1, <2>2
  <1>4. ASSUME NEW c \in Calls, Check(c) PROVE CommentsFit'
    <2>1. UNCHANGED <<comments, seen>>
      BY <1>4, CheckStep
    <2>a. \/ pc' = [pc EXCEPT ![c] = "commenting"]
          \/ pc' = pc
      BY <1>4, CheckStep
    <2>2. \A d \in Calls : Early(d)' => Early(d)
      BY <2>a
    <2> QED
      BY <2>1, <2>2
  <1>5. ASSUME NEW c \in Calls, Comment(c) PROVE CommentsFit'
    <2>1. UNCHANGED seen /\ \A d \in Calls : Early(d)' => Early(d) /\ d # c
      BY ZenonT(30), <1>5, CommentStep
    <2>2. \A x \in comments' : x \in comments \/ (x.call = c /\ x.commit = seen[c])
      BY <1>5, CommentStep
    <2> QED
      BY <2>1, <2>2
  <1>6. ASSUME NEW c \in Calls, RecordComment(c) PROVE CommentsFit'
    BY <1>6, RecordStep
  <1>7. ASSUME UNCHANGED vars \/ \E h \in Heads : Push(h) PROVE CommentsFit'
    BY <1>7, ElseStep DEF postVars
  <1> QED
    BY <1>1, <1>2, <1>3, <1>4, <1>5, <1>6, <1>7, StepKinds

\* A call between posting and recording holds the one comment off the record.
LEMMA StepRecordingFits == IInv /\ [Next]_vars => RecordingFits'
  <1> SUFFICES ASSUME IInv, [Next]_vars PROVE RecordingFits'
    OBVIOUS
  <1>0. /\ TypeOK /\ DraftFits /\ RecordingFits /\ RecordFitsComments
        /\ \A x \in comments : x.call \in Calls /\ x.commit \in Heads
    BY DEF IInv, TypeOK, Comments
  <1> USE <1>0 DEF TypeOK, RecordingFits
  <1>1. ASSUME NEW c \in Calls, StillStep(c) PROVE RecordingFits'
    <2>1. /\ UNCHANGED <<comments, recorded, draft, at>>
          /\ \A d \in Calls : pc'[d] = "recording" => pc[d] = "recording"
      BY <1>1, StillSteps DEF StillStep, postVars
    <2> QED
      BY <2>1 DEF Item
  <1>2. ASSUME NEW c \in Calls, FetchPullRequest(c) PROVE RecordingFits'
    <2>1. /\ UNCHANGED <<comments, recorded, draft, at>>
          /\ \A d \in Calls : pc'[d] = "recording" => pc[d] = "recording"
      BY <1>2, FetchStep
    <2> QED
      BY <2>1 DEF Item
  <1>3. ASSUME NEW c \in Calls, \E published \in Drafts : Review(c, published)
        PROVE  RecordingFits'
    <2>1. /\ UNCHANGED <<comments, recorded, at>>
          /\ \A d \in Calls : pc'[d] = "recording" =>
               pc[d] = "recording" /\ draft'[d] = draft[d]
      BY <1>3, ReviewStep
    <2> QED
      BY <2>1 DEF Item
  <1>4. ASSUME NEW c \in Calls, Check(c) PROVE RecordingFits'
    <2>1. /\ UNCHANGED <<comments, recorded, draft>>
          /\ \A d \in Calls : pc'[d] = "recording" => pc[d] = "recording" /\ at'[d] = at[d]
      BY <1>4, CheckStep
    <2> QED
      BY <2>1 DEF Item
  <1>5. ASSUME NEW c \in Calls, Comment(c) PROVE RecordingFits'
    <2>1. /\ UNCHANGED <<recorded, draft, at>> /\ comments \subseteq comments'
          /\ \A d \in Calls : d # c => pc'[d] = pc[d]
          /\ \A d \in Calls : Item(d)' = Item(d)
      BY <1>5, CommentStep DEF Item
    <2>2. \A x \in comments : x.call = c => x.body \in recorded[x.commit]
      BY ZenonT(30), <1>5, CommentStep DEF RecordFitsComments
    <2>3. \A x \in comments' : x \in comments \/ (x.call = c /\ x.body = Item(c).body)
      BY <1>5, CommentStep
    <2>4. pc'[c] = "recording" => \E x \in comments' : x.call = c /\ x.body = Item(c).body
      BY <1>5, CommentStep
    <2>5. ASSUME NEW d \in Calls, d # c, pc'[d] = "recording"
          PROVE  /\ \E x \in comments' : x.call = d /\ x.body = Item(d)'.body
                 /\ \A x \in comments' :
                      x.call = d => x.body \in recorded'[x.commit] \/ x.body = Item(d)'.body
      BY <2>1, <2>3, <2>5
    <2>6. \A x \in comments' :
            x.call = c => x.body \in recorded'[x.commit] \/ x.body = Item(c)'.body
      BY <2>1, <2>2, <2>3
    <2> QED
      BY <2>1, <2>4, <2>5, <2>6
  <1>6. ASSUME NEW c \in Calls, RecordComment(c) PROVE RecordingFits'
    <2>1. /\ UNCHANGED <<comments, draft>>
          /\ \A d \in Calls : pc'[d] = "recording" => pc[d] = "recording" /\ at'[d] = at[d]
          /\ \A h \in Heads : recorded[h] \subseteq recorded'[h]
      BY <1>6, RecordStep
    <2> QED
      BY <2>1 DEF Item
  <1>7. ASSUME UNCHANGED vars \/ \E h \in Heads : Push(h) PROVE RecordingFits'
    BY <1>7, ElseStep DEF postVars, Item
  <1> QED
    BY <1>1, <1>2, <1>3, <1>4, <1>5, <1>6, <1>7, StepKinds

\* The record fits GitHub.
LEMMA StepRecordFitsComments == IInv /\ [Next]_vars => RecordFitsComments'
  <1> SUFFICES ASSUME IInv, [Next]_vars PROVE RecordFitsComments'
    OBVIOUS
  <1>0. /\ TypeOK /\ DraftFits /\ RecordingFits /\ RecordFitsComments /\ CommentsFit
        /\ \A x \in comments : x.call \in Calls /\ x.commit \in Heads
    BY DEF IInv, TypeOK, Comments
  <1> USE <1>0 DEF TypeOK, RecordFitsComments
  <1>s. ASSUME UNCHANGED <<comments, recorded>>,
               \A d \in Calls : pc[d] \in {"recording", "stopped"} =>
                 pc'[d] \in {"recording", "stopped"}
        PROVE  RecordFitsComments'
    BY <1>s
  <1>1. ASSUME NEW c \in Calls, StillStep(c) PROVE RecordFitsComments'
    <2>1. pc[c] = "stopped" => pc'[c] = "stopped"
      BY <1>1 DEF StillStep, CreateRun, FindRun, Start, RecordPart, NothingToRecord,
                  Summarize, Open, FinishPosting, Close, Stop, Parts, Over
    <2> QED
      BY <1>1, <1>s, <2>1, StillSteps DEF StillStep, postVars
  <1>2. ASSUME NEW c \in Calls, FetchPullRequest(c) PROVE RecordFitsComments'
    BY <1>2, <1>s, FetchStep
  <1>3. ASSUME NEW c \in Calls, \E published \in Drafts : Review(c, published)
        PROVE  RecordFitsComments'
    BY <1>3, <1>s, ReviewStep
  <1>4. ASSUME NEW c \in Calls, Check(c) PROVE RecordFitsComments'
    BY <1>4, <1>s, CheckStep
  <1>5. ASSUME NEW c \in Calls, Comment(c) PROVE RecordFitsComments'
    <2>1. /\ UNCHANGED recorded /\ comments \subseteq comments'
          /\ \A d \in Calls : d # c => pc'[d] = pc[d]
          /\ pc'[c] \in {"recording", "stopped"}
      BY <1>5, CommentStep
    <2>2. \A x \in comments' : x \in comments \/ x.call = c
      BY <1>5, CommentStep
    <2>3. \A x \in comments' : x.body \in recorded'[x.commit] \/ pc'[x.call] \in {"recording", "stopped"}
      BY <2>1, <2>2
    <2>4. \A h \in Heads :
            {x.body : x \in {y \in comments : y.commit = h}}
              \subseteq {x.body : x \in {y \in comments' : y.commit = h}}
      BY <2>1
    <2> QED
      BY <2>1, <2>3, <2>4
  <1>6. ASSUME NEW c \in Calls, RecordComment(c) PROVE RecordFitsComments'
    <2>1. /\ UNCHANGED comments /\ seen[c] \in Heads
          /\ recorded' = [recorded EXCEPT ![seen[c]] = @ \cup {Item(c).body}]
          /\ \A d \in Calls : d # c => pc'[d] = pc[d]
          /\ pc[c] = "recording"
      BY <1>6, RecordStep
    <2>2. PICK y \in comments : y.call = c /\ y.body = Item(c).body
      BY <2>1 DEF RecordingFits
    <2>3. y.commit = seen[c]
      BY <2>2 DEF CommentsFit
    <2>4. \A h \in Heads : recorded'[h] \subseteq {x.body : x \in {z \in comments : z.commit = h}}
      BY <2>1, <2>2, <2>3
    <2>5. \A x \in comments : x.call = c => x.body \in recorded'[x.commit]
      BY <2>1 DEF RecordingFits, CommentsFit
    <2> QED
      BY <2>1, <2>4, <2>5
  <1>7. ASSUME UNCHANGED vars \/ \E h \in Heads : Push(h) PROVE RecordFitsComments'
    BY <1>7, ElseStep DEF postVars
  <1> QED
    BY <1>1, <1>2, <1>3, <1>4, <1>5, <1>6, <1>7, StepKinds

\* What was on record when a call began is still on record, and the comment it
\* is about to post is not among it.
LEMMA StepKnownFits == IInv /\ [Next]_vars => KnownFits'
  <1> SUFFICES ASSUME IInv, [Next]_vars PROVE KnownFits'
    OBVIOUS
  <1>0. TypeOK /\ KnownFits
    BY DEF IInv
  <1> USE <1>0 DEF TypeOK, KnownFits
  <1>1. ASSUME NEW c \in Calls, StillStep(c) PROVE KnownFits'
    <2>1. /\ UNCHANGED <<recorded, seen, known, draft, at>>
          /\ \A d \in Calls : pc'[d] = "commenting" => pc[d] = "commenting"
      BY <1>1, StillSteps DEF StillStep, postVars
    <2> QED
      BY <2>1 DEF Item
  <1>2. ASSUME NEW c \in Calls, FetchPullRequest(c) PROVE KnownFits'
    <2>1. /\ UNCHANGED <<recorded, draft, at>>
          /\ \A d \in Calls : d # c => seen'[d] = seen[d] /\ known'[d] = known[d]
          /\ seen'[c] = head /\ known'[c] = recorded[head]
          /\ pc'[c] # "commenting" /\ \A d \in Calls : d # c => pc'[d] = pc[d]
      BY <1>2, FetchStep
    <2> QED
      BY <2>1 DEF Item
  <1>3. ASSUME NEW c \in Calls, \E published \in Drafts : Review(c, published)
        PROVE  KnownFits'
    <2>1. /\ UNCHANGED <<recorded, seen, known, at>>
          /\ \A d \in Calls : pc'[d] = "commenting" =>
               pc[d] = "commenting" /\ draft'[d] = draft[d]
      BY <1>3, ReviewStep
    <2> QED
      BY <2>1 DEF Item
  <1>4. ASSUME NEW c \in Calls, Check(c) PROVE KnownFits'
    <2>1. /\ UNCHANGED <<recorded, seen, known, draft>>
          /\ \A d \in Calls : d # c => pc'[d] = pc[d] /\ at'[d] = at[d]
          /\ pc'[c] = "commenting" => at' = at /\ Item(c).body \notin recorded[seen[c]]
      BY <1>4, CheckStep
    <2> QED
      BY <2>1 DEF Item
  <1>5. ASSUME NEW c \in Calls, Comment(c) PROVE KnownFits'
    <2>1. /\ UNCHANGED <<recorded, seen, known, draft, at>>
          /\ \A d \in Calls : pc'[d] = "commenting" => pc[d] = "commenting"
      BY <1>5, CommentStep
    <2> QED
      BY <2>1 DEF Item
  <1>6. ASSUME NEW c \in Calls, RecordComment(c) PROVE KnownFits'
    <2>1. /\ UNCHANGED <<seen, known, draft>>
          /\ \A h \in Heads : recorded[h] \subseteq recorded'[h]
          /\ \A d \in Calls : pc'[d] = "commenting" => pc[d] = "commenting" /\ at'[d] = at[d]
      BY <1>6, RecordStep
    <2> QED
      BY <2>1 DEF Item
  <1>7. ASSUME UNCHANGED vars \/ \E h \in Heads : Push(h) PROVE KnownFits'
    BY <1>7, ElseStep DEF postVars, Item
  <1> QED
    BY <1>1, <1>2, <1>3, <1>4, <1>5, <1>6, <1>7, StepKinds

\* No step of a call repeats a comment that was on record when it began.
LEMMA StepNoRepost == IInv /\ [Next]_vars => NoRepost'
  <1> SUFFICES ASSUME IInv, [Next]_vars PROVE NoRepost'
    OBVIOUS
  <1>0. TypeOK /\ KnownFits /\ CommentsFit /\ NoRepost /\ \A x \in comments : x.call \in Calls
    BY DEF IInv, TypeOK, Comments
  <1> USE <1>0 DEF TypeOK, NoRepost
  <1>1. ASSUME NEW c \in Calls, StillStep(c) PROVE NoRepost'
    BY <1>1, StillSteps DEF StillStep, postVars
  <1>2. ASSUME NEW c \in Calls, FetchPullRequest(c) PROVE NoRepost'
    <2>1. /\ UNCHANGED comments /\ Early(c)
          /\ \A d \in Calls : d # c => known'[d] = known[d]
      BY <1>2, FetchStep DEF Early
    <2> QED
      BY <2>1 DEF CommentsFit
  <1>3. ASSUME NEW c \in Calls, \E published \in Drafts : Review(c, published)
        PROVE  NoRepost'
    BY <1>3, ReviewStep
  <1>4. ASSUME NEW c \in Calls, Check(c) PROVE NoRepost'
    BY <1>4, CheckStep
  <1>5. ASSUME NEW c \in Calls, Comment(c) PROVE NoRepost'
    <2>1. /\ UNCHANGED known /\ Item(c).body \notin known[c]
          /\ \A x \in comments' : x \in comments \/ (x.call = c /\ x.body = Item(c).body)
      BY <1>5, CommentStep DEF KnownFits
    <2> QED
      BY <2>1
  <1>6. ASSUME NEW c \in Calls, RecordComment(c) PROVE NoRepost'
    BY <1>6, RecordStep
  <1>7. ASSUME UNCHANGED vars \/ \E h \in Heads : Push(h) PROVE NoRepost'
    BY <1>7, ElseStep DEF postVars
  <1> QED
    BY <1>1, <1>2, <1>3, <1>4, <1>5, <1>6, <1>7, StepKinds

\* Only a call that commented closes its run.
LEMMA StepClosingFits == IInv /\ [Next]_vars => ClosingFits'
  <1> SUFFICES ASSUME IInv, [Next]_vars PROVE ClosingFits'
    OBVIOUS
  <1>0. TypeOK /\ ClosingFits
    BY DEF IInv
  <1> USE <1>0 DEF TypeOK, ClosingFits, Mine
  <1>s. ASSUME comments \subseteq comments',
               \A d \in Calls : pc'[d] = "closing" => pc[d] = "closing"
        PROVE  ClosingFits'
    BY <1>s
  <1>1. ASSUME NEW c \in Calls, StillStep(c) PROVE ClosingFits'
    <2>1. UNCHANGED comments /\ \A d \in Calls : d # c => pc'[d] = pc[d]
      BY <1>1, StillSteps DEF StillStep, postVars
    <2>2. pc'[c] = "closing" => Mine(c) # {}
      BY <1>1 DEF StillStep, CreateRun, FindRun, Start, RecordPart, NothingToRecord, MoveRun,
                  Summarize, Open, FinishPosting, Close, Stop, Goto, Stored, After, Parts
    <2> QED
      BY <2>1, <2>2
  <1>2. ASSUME NEW c \in Calls, FetchPullRequest(c) PROVE ClosingFits'
    BY <1>2, <1>s, FetchStep
  <1>3. ASSUME NEW c \in Calls, \E published \in Drafts : Review(c, published)
        PROVE  ClosingFits'
    BY <1>3, <1>s, ReviewStep
  <1>4. ASSUME NEW c \in Calls, Check(c) PROVE ClosingFits'
    BY <1>4, <1>s, CheckStep
  <1>5. ASSUME NEW c \in Calls, Comment(c) PROVE ClosingFits'
    BY <1>5, <1>s, CommentStep
  <1>6. ASSUME NEW c \in Calls, RecordComment(c) PROVE ClosingFits'
    BY <1>6, <1>s, RecordStep
  <1>7. ASSUME UNCHANGED vars \/ \E h \in Heads : Push(h) PROVE ClosingFits'
    BY <1>7, <1>s, ElseStep DEF postVars
  <1> QED
    BY <1>1, <1>2, <1>3, <1>4, <1>5, <1>6, <1>7, StepKinds

\* "posted" is final, and only a closing call moves a run to it.
LEMMA PostedSteps ==
  ASSUME TypeOK, [Next]_vars, NEW h \in Heads
  PROVE  /\ status[h] = "posted" => status'[h] = "posted"
         /\ status'[h] = "posted" =>
              status[h] = "posted" \/ \E c \in Calls : pc[c] = "closing" /\ seen[c] = h
  <1> USE DEF TypeOK
  <1>1. ASSUME NEW c \in Calls, NEW target, NEW next, MoveRun(c, target, next)
        PROVE  /\ status[h] = "posted" => status'[h] = "posted"
               /\ status'[h] = "posted" => status[h] = "posted" \/ (target = "posted" /\ seen[c] = h)
    BY <1>1 DEF MoveRun, CanTransition, Transitions
  <1>2. ASSUME NEW c \in Calls, StillStep(c)
        PROVE  /\ status[h] = "posted" => status'[h] = "posted"
               /\ status'[h] = "posted" =>
                    status[h] = "posted" \/ (pc[c] = "closing" /\ seen[c] = h)
    <2>1. CASE Start(c) \/ Summarize(c) \/ Close(c)
      BY <1>1, <2>1 DEF Start, Summarize, Close
    <2>2. CASE CreateRun(c)
      BY <2>2 DEF CreateRun, Absent
    <2>3. CASE \/ FindRun(c) \/ RecordPart(c) \/ NothingToRecord(c) \/ Open(c)
               \/ FinishPosting(c) \/ Stop(c)
      BY <2>3 DEF FindRun, RecordPart, NothingToRecord, Open, FinishPosting, Stop, storeVars
    <2> QED
      BY <1>2, <2>1, <2>2, <2>3 DEF StillStep
  <1>3. ASSUME NEW c \in Calls,
               \/ FetchPullRequest(c) \/ \E published \in Drafts : Review(c, published)
               \/ Check(c) \/ Comment(c) \/ RecordComment(c)
        PROVE  UNCHANGED status
    BY <1>3, FetchStep, ReviewStep, CheckStep, CommentStep, RecordStep
  <1>4. ASSUME UNCHANGED vars \/ \E g \in Heads : Push(g) PROVE UNCHANGED status
    BY <1>4, ElseStep
  <1> QED
    BY <1>2, <1>3, <1>4, StepKinds

\* "posted" tells the truth.
LEMMA StepPostedFitsComments == IInv /\ [Next]_vars => PostedFitsComments'
  <1> SUFFICES ASSUME IInv, [Next]_vars PROVE PostedFitsComments'
    OBVIOUS
  <1>0. /\ TypeOK /\ DraftFits /\ CommentsFit /\ RecordFitsComments /\ ClosingFits
        /\ PostedFitsComments
        /\ \A x \in comments : x.call \in Calls
    BY DEF IInv, TypeOK, Comments
  <1>1. \A h \in Heads : recorded[h] \subseteq recorded'[h]
    <2>1. ASSUME NEW c \in Calls, StillStep(c) PROVE UNCHANGED recorded
      BY <1>0, <2>1, StillSteps DEF StillStep, postVars
    <2>2. ASSUME NEW c \in Calls,
                 \/ FetchPullRequest(c) \/ \E published \in Drafts : Review(c, published)
                 \/ Check(c) \/ Comment(c)
          PROVE  UNCHANGED recorded
      BY <1>0, <2>2, FetchStep, ReviewStep, CheckStep, CommentStep
    <2>3. ASSUME NEW c \in Calls, RecordComment(c)
          PROVE  \A h \in Heads : recorded[h] \subseteq recorded'[h]
      BY <1>0, <2>3, RecordStep
    <2>4. ASSUME UNCHANGED vars \/ \E h \in Heads : Push(h) PROVE UNCHANGED recorded
      BY <2>4, ElseStep DEF postVars
    <2> QED
      BY <2>1, <2>2, <2>3, <2>4, StepKinds
  <1>2. ASSUME NEW h \in Heads, status'[h] = "posted" PROVE recorded'[h] # {}
    <2>1. CASE status[h] = "posted"
      BY <1>0, <1>1, <2>1 DEF PostedFitsComments
    <2>2. ASSUME NEW c \in Calls, pc[c] = "closing", seen[c] = h PROVE recorded[h] # {}
      <3>1. PICK x \in comments : x.call = c
        BY <1>0, <2>2 DEF ClosingFits, Mine
      <3>2. x.commit = h /\ x.body \in recorded[h]
        BY <1>0, <2>2, <3>1 DEF CommentsFit, RecordFitsComments
      <3> QED
        BY <3>2
    <2> QED
      BY <1>0, <1>1, <1>2, <2>1, <2>2, PostedSteps
  <1>3. ASSUME NEW d \in Calls, pc'[d] = "done", Mine(d)' # {} PROVE status'[seen'[d]] = "posted"
    <2> USE <1>0, <1>3 DEF TypeOK
    <2>1. ASSUME Mine(d)' = Mine(d), seen'[d] = seen[d], pc[d] = "done"
          PROVE  status'[seen'[d]] = "posted"
      BY <2>1, PostedSteps DEF PostedFitsComments
    <2>2. ASSUME NEW c \in Calls, StillStep(c) PROVE status'[seen'[d]] = "posted"
      <3>1. /\ Mine(d)' = Mine(d) /\ seen'[d] = seen[d]
            /\ d # c => pc'[d] = pc[d]
        BY <2>2, StillSteps DEF StillStep, postVars, Mine
      <3>2. Early(d) => Mine(d) = {}
        BY DEF CommentsFit, Mine
      <3>3. ASSUME d = c, pc[d] # "done" PROVE Close(c)
        BY <2>2, <3>1, <3>2, <3>3
        DEF StillStep, CreateRun, FindRun, Start, RecordPart, NothingToRecord, MoveRun, Stop,
            Summarize, Open, FinishPosting, Goto, Stored, After, Parts, Early, Over
      <3>4. ASSUME d = c, Close(c) PROVE status'[seen'[d]] = "posted"
        BY <3>1, <3>4 DEF Close, MoveRun, Goto
      <3> QED
        BY <2>1, <3>1, <3>3, <3>4
    <2>3. ASSUME NEW c \in Calls,
                 \/ FetchPullRequest(c) \/ \E published \in Drafts : Review(c, published)
                 \/ Check(c) \/ RecordComment(c)
          PROVE  status'[seen'[d]] = "posted"
      <3>1. Mine(d)' = Mine(d) /\ pc[d] = "done" /\ seen'[d] = seen[d]
        BY <2>3, FetchStep, ReviewStep, CheckStep, RecordStep DEF Mine
      <3> QED
        BY <2>1, <3>1
    <2>4. ASSUME NEW c \in Calls, Comment(c) PROVE status'[seen'[d]] = "posted"
      <3>1. d # c /\ pc[d] = "done" /\ seen'[d] = seen[d]
        BY <2>4, CommentStep
      <3>2. Mine(d)' = Mine(d)
        BY <2>4, <3>1, CommentStep DEF Mine
      <3> QED
        BY <2>1, <3>1, <3>2
    <2>5. ASSUME UNCHANGED vars \/ \E h \in Heads : Push(h) PROVE status'[seen'[d]] = "posted"
      BY <2>1, <2>5, ElseStep DEF postVars, Mine
    <2> QED
      BY <2>2, <2>3, <2>4, <2>5, StepKinds
  <1> QED
    BY <1>2, <1>3 DEF PostedFitsComments

------------------------------------------------------------------------------
LEMMA InitIInv == Init => IInv
  <1> SUFFICES ASSUME Init PROVE IInv
    OBVIOUS
  <1>1. TypeOK
    BY PushesAreBounded DEF Init, TypeOK, PCs
  <1>2. /\ OneWriter /\ WriterFits /\ DraftFits /\ RecordingFits /\ KnownFits /\ ClosingFits
        /\ EmptyUntilRunning
    BY DEF Init, OneWriter, Writing, WriterFits, DraftFits, RecordingFits, KnownFits,
           ClosingFits, EmptyUntilRunning, Parts
  <1>3. CommentsFit /\ RecordFitsComments /\ NoRepost /\ PostedFitsComments
    BY DEF Init, CommentsFit, RecordFitsComments, NoRepost, PostedFitsComments, Absent
  <1> QED
    BY <1>1, <1>2, <1>3 DEF IInv

LEMMA StepIInv == IInv /\ [Next]_vars => IInv'
  <1> SUFFICES ASSUME IInv, [Next]_vars PROVE IInv'
    OBVIOUS
  <1>1. TypeOK' /\ DraftFits'
    BY StepTypeOK, StepDraftFits DEF IInv
  <1> QED
    BY <1>1, StepOneWriter, StepWriterFits, StepEmptyUntilRunning, StepCommentsFit,
       StepRecordingFits, StepRecordFitsComments, StepKnownFits, StepNoRepost,
       StepClosingFits, StepPostedFitsComments
    DEF IInv

LEMMA SpecIInv == Spec => []IInv
  BY InitIInv, StepIInv, PTL DEF Spec

\* Whatever calls run, stop and push, every variable keeps its type.
THEOREM CliTypeCorrect == Spec => []TypeOK
  <1>1. IInv => TypeOK
    BY DEF IInv
  <1> QED
    BY <1>1, SpecIInv, PTL

\* Re-running a review never repeats a comment that was on record when the
\* command was started (posting.post_findings, _already_posted).
THEOREM RerunRepeatsNothing == Spec => []NoRepost
  <1>1. IInv => NoRepost
    BY DEF IInv
  <1> QED
    BY <1>1, SpecIInv, PTL

\* posted_comments and GitHub differ only by the comment of a call that is
\* between posting and recording it, or was stopped there.
THEOREM RecordsMatchComments == Spec => []RecordFitsComments
  <1>1. IInv => RecordFitsComments
    BY DEF IInv
  <1> QED
    BY <1>1, SpecIInv, PTL

\* A posted run has comments, and a call that commented and ended well posted it.
THEOREM PostedIsTrue == Spec => []PostedFitsComments
  <1>1. IInv => PostedFitsComments
    BY DEF IInv
  <1> QED
    BY <1>1, SpecIInv, PTL

\* No other call disturbs the run a call is writing.
THEOREM WriterIsUndisturbed == Spec => []WriterOwnsRun
  <1>1. ASSUME NEW c \in Calls, pc[c] \in Parts PROVE pc[c] \notin StoredBefore(pc[c])
    BY <1>1 DEF Parts, StoredBefore
  <1>2. IInv => WriterOwnsRun
    BY <1>1 DEF IInv, WriterFits, WriterOwnsRun
  <1> QED
    BY <1>2, SpecIInv, PTL

------------------------------------------------------------------------------
\* Every step of a call is a step of the ledger, or none of its concern.
LEMMA StepRefines == IInv /\ [Next]_vars => [Ledger!LedgerNext]_(Ledger!ledgerVars)
  <1> SUFFICES ASSUME IInv, [Next]_vars PROVE [Ledger!LedgerNext]_(Ledger!ledgerVars)
    OBVIOUS
  <1>0. TypeOK /\ WriterFits
    BY DEF IInv
  <1>h. \A c \in Calls : seen[c] \in Heads
    BY <1>0 DEF TypeOK
  <1>1. ASSUME NEW c \in Calls, CreateRun(c) PROVE Ledger!LedgerNext
    <2>1. Ledger!Create(seen[c])
      BY <1>1 DEF CreateRun, Ledger!Create, Ledger!Absent, Absent
    <2> QED
      BY <1>h, <2>1 DEF Ledger!LedgerNext
  <1>2. ASSUME NEW c \in Calls, NEW target \in Statuses, NEW next, MoveRun(c, target, next)
        PROVE  Ledger!LedgerNext \/ UNCHANGED Ledger!ledgerVars
    <2>1. CASE CanTransition(status[seen[c]], target)
      <3>1. Ledger!Move(seen[c], target)
        BY <1>2, <2>1 DEF MoveRun, Ledger!Move, Ledger!CanTransition, CanTransition,
                          Ledger!Transitions, Transitions
      <3> QED
        BY <1>h, <3>1 DEF Ledger!LedgerNext, Ledger!Statuses, Statuses
    <2>2. CASE ~CanTransition(status[seen[c]], target)
      BY <1>2, <2>2 DEF MoveRun, Ledger!ledgerVars
    <2> QED
      BY <2>1, <2>2
  <1>3. ASSUME NEW c \in Calls, Start(c) \/ Summarize(c) \/ Close(c)
        PROVE  Ledger!LedgerNext \/ UNCHANGED Ledger!ledgerVars
    BY <1>2, <1>3 DEF Start, Summarize, Close, Statuses
  <1>4. ASSUME NEW c \in Calls, RecordPart(c) PROVE Ledger!LedgerNext
    <2>1. pc[c] \notin StoredBefore(pc[c]) /\ pc[c] \in Parts
      BY <1>4 DEF RecordPart, StoredBefore, Parts
    <2>2. status[seen[c]] = "running" /\ pc[c] \notin parts[seen[c]]
      BY <1>0, <2>1 DEF WriterFits
    <2>3. Ledger!Record(seen[c], pc[c])
      BY <1>4, <2>2 DEF RecordPart, Ledger!Record
    <2> QED
      BY <1>h, <2>1, <2>3 DEF Ledger!LedgerNext, Ledger!Parts, Parts
  <1>5. ASSUME NEW c \in Calls, NothingToRecord(c) PROVE UNCHANGED Ledger!ledgerVars
    BY <1>5 DEF NothingToRecord, storeVars, Ledger!ledgerVars
  <1>6. ASSUME NEW c \in Calls,
               \/ FetchPullRequest(c) \/ \E published \in Drafts : Review(c, published)
               \/ FindRun(c) \/ Open(c) \/ Check(c) \/ Comment(c) \/ RecordComment(c)
               \/ FinishPosting(c) \/ Stop(c)
        PROVE  UNCHANGED Ledger!ledgerVars
    BY <1>0, <1>6, QuietSteps DEF Ledger!ledgerVars
  <1>7. ASSUME UNCHANGED vars \/ \E h \in Heads : Push(h) PROVE UNCHANGED Ledger!ledgerVars
    BY <1>7 DEF Push, vars, storeVars, Ledger!ledgerVars
  <1> QED
    BY <1>1, <1>3, <1>4, <1>5, <1>6, <1>7 DEF Next, CallStep

\* The command keeps the ledger's promises, stopped anywhere.
THEOREM CliImplementsLedger == Spec => ImplementsLedger
  <1>1. Init => Ledger!LedgerInit
    BY DEF Init, Ledger!LedgerInit, Ledger!Absent, Absent
  <1> QED
    BY <1>1, SpecIInv, StepRefines, PTL DEF Spec, ImplementsLedger, Ledger!LedgerSpec
==============================================================================
