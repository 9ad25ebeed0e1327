------------------------- MODULE WebhookIntakeProofs -------------------------
(***************************************************************************)
(* For any deliveries, slots and bounds: the intake is type correct, has   *)
(* one executor per run, strands no run but by a mishap of its own, and    *)
(* implements the ledger.  A summary has its evidence and stays one, and a *)
(* run is skipped only for a reason.                                       *)
(***************************************************************************)
EXTENDS WebhookIntake, TLAPS

\* A transaction holds a row exactly while its slot is inside it.
LockHeld ==
  \A k \in Keys, s \in Slots :
    lock[k] = s <=> KeyOf(s) = k /\ pc[s] \in {"inserted", "locked"}

\* What a slot's step says of its run's status.
StepFits ==
  \A s \in Slots :
    /\ pc[s] = "inserted" => status[KeyOf(s)] = Absent
    /\ pc[s] \in {"accepted", "queued", "starting"} => status[KeyOf(s)] = "pending"
    /\ pc[s] \in {"listing", "gathering"} \cup Parts => status[KeyOf(s)] = "running"
    /\ pc[s] \in {"moving", "locked"} =>
         /\ status[KeyOf(s)] # Absent
         /\ pc[s] = "locked" \/ target[s] # "failed" =>
              CanTransition(status[KeyOf(s)], target[s])

\* The evidence a slot's step still has to write is not there yet.
PartsFit ==
  \A s \in Slots :
    /\ pc[s] \in {"listing", "files"} => parts[KeyOf(s)] = {}
    /\ pc[s] \in {"gathering", "routing"} => parts[KeyOf(s)] \subseteq {"files"}
    /\ pc[s] = "tools" => parts[KeyOf(s)] \subseteq {"files", "routing"}
    /\ pc[s] = "findings" => parts[KeyOf(s)] \subseteq {"files", "routing", "tools"}

\* A run that has not started holds no evidence.
EmptyUntilStarted ==
  \A k \in Keys : status[k] \in {Absent, "pending"} => parts[k] = {}

IInv ==
  /\ TypeOK /\ LockHeld /\ OneExecutor /\ StepFits /\ PartsFit
  /\ EmptyUntilStarted /\ NoOrphanRuns

------------------------------------------------------------------------------
LEMMA AnyEventIsOne == AnyEvent \in Events
  BY EventFields DEF AnyEvent

\* Every event has a key and a pull request, and its head is a commit.
LEMMA EventParts ==
  ASSUME NEW e \in Events
  PROVE  Key(e) \in Keys /\ e.pr \in PullRequests /\ e.head \in Heads
  BY EventFields DEF Keys, PullRequests

LEMMA InitTypeOK == Init => TypeOK
  BY AnyEventIsOne, SMT DEF Init, TypeOK, Statuses, Parts, PCs, Absent

\* A failed store call, but for the mark it leaves.
LEMMA StoreFaultEffect ==
  ASSUME NEW s \in Slots, StoreFault(s)
  PROVE  /\ pc[s] \in {"accepting", "inserted", "queued", "moving", "locked"} \cup Parts
         /\ StoreRaised(s)
         /\ lock' = [k \in Keys |-> IF lock[k] = s THEN None ELSE lock[k]]
         /\ faults' = faults + 1
         /\ UNCHANGED <<status, parts, head, hidden, review, requests, moves, crashes>>
  BY DEF StoreFault, AtStore, githubVars

\* A lost answer, but for the mark it leaves.
LEMMA LostAnswerEffect ==
  ASSUME NEW s \in Slots, LostAnswer(s)
  PROVE  /\ \/ pc[s] = "inserted" /\ CommitRow(s)
            \/ pc[s] = "locked" /\ CommitMove(s)
            \/ pc[s] \in Parts /\ CommitPart(s)
         /\ StoreRaised(s)
         /\ faults' = faults + 1
         /\ UNCHANGED <<head, hidden, review, requests, moves, crashes>>
  BY DEF LostAnswer, githubVars

\* Every step keeps the types.
LEMMA StepTypeOK == TypeOK /\ [Next]_vars => TypeOK'
  <1> SUFFICES ASSUME TypeOK, [Next]_vars PROVE TypeOK'
    OBVIOUS
  <1> USE DEF TypeOK, storeVars, slotVars, githubVars, counters, KeyOf, Statuses, PCs, Parts
  <1>g. \A s \in Slots, step \in PCs, goal \in Statuses :
          Goto(s, step, goal) => /\ pc' \in [Slots -> PCs]
                                 /\ event' \in [Slots -> Events]
                                 /\ target' \in [Slots -> Statuses]
    BY DEF Goto
  <1>r. \A s \in Slots : Retire(s) => /\ pc' \in [Slots -> PCs]
                                      /\ event' \in [Slots -> Events]
                                      /\ target' \in [Slots -> Statuses]
    BY AnyEventIsOne DEF Retire
  <1>x. \A s \in Slots : Raise(s) => /\ pc' \in [Slots -> PCs]
                                     /\ event' \in [Slots -> Events]
                                     /\ target' \in [Slots -> Statuses]
    BY <1>g, <1>r DEF Raise, Failing
  <1>k. \A s \in Slots : KeyOf(s) \in Keys
    BY EventParts
  <1>m. \A s \in Slots : StoreFault(s) \/ LostAnswer(s) => mishap' \in [Keys -> SUBSET Mishaps]
    <2> SUFFICES ASSUME NEW s \in Slots, StoreFault(s) \/ LostAnswer(s)
                 PROVE  mishap' \in [Keys -> SUBSET Mishaps]
      OBVIOUS
    <2>1. PICK what \in SUBSET Mishaps : Meet(s, what)
      BY DEF StoreFault, LostAnswer, Mishaps
    <2> QED
      BY <2>1 DEF Meet
  <1>1. ASSUME NEW s \in Slots, NEW e \in Events, Receive(s, e) PROVE TypeOK'
    BY <1>1 DEF Receive
  <1>2. ASSUME NEW s \in Slots, InsertRun(s) PROVE TypeOK'
    BY <1>2, <1>g, <1>k DEF InsertRun, TakeRow
  <1>3. ASSUME NEW s \in Slots, FindRun(s) PROVE TypeOK'
    BY <1>3, <1>r DEF FindRun, Answer
  <1>4. ASSUME NEW s \in Slots, CommitRun(s) PROVE TypeOK'
    BY <1>4, <1>g, <1>k DEF CommitRun, CommitRow
  <1>5. ASSUME NEW s \in Slots, AnswerAccepted(s) PROVE TypeOK'
    BY <1>5, <1>g DEF AnswerAccepted, Answer
  <1>6. ASSUME NEW s \in Slots, Begin(s) PROVE TypeOK'
    BY <1>6, <1>g, <1>r DEF Begin
  <1>7. ASSUME NEW s \in Slots, FetchPullRequest(s) PROVE TypeOK'
    BY <1>7, <1>g DEF FetchPullRequest, Goal
  <1>8. ASSUME NEW s \in Slots, LockRow(s) PROVE TypeOK'
    BY <1>8, <1>g, <1>k, <1>x DEF LockRow, TakeRow
  <1>9. ASSUME NEW s \in Slots, MoveRow(s) PROVE TypeOK'
    BY <1>9, <1>g, <1>k, <1>r DEF MoveRow, CommitMove
  <1>10. ASSUME NEW s \in Slots, Fetch(s) PROVE TypeOK'
    BY <1>10, <1>g DEF Fetch
  <1>11. ASSUME NEW s \in Slots, RecordPart(s) PROVE TypeOK'
    BY <1>11, <1>g, <1>k DEF RecordPart, CommitPart, Continue, After
  <1>12. ASSUME NEW s \in Slots, NothingToRecord(s) PROVE TypeOK'
    BY <1>12, <1>g DEF NothingToRecord, Continue, After
  <1>13. ASSUME NEW s \in Slots, RemoteFault(s) PROVE TypeOK'
    BY <1>13, <1>x DEF RemoteFault
  <1>14. ASSUME NEW s \in Slots, StoreFault(s) PROVE TypeOK'
    <2>1. /\ pc' \in [Slots -> PCs] /\ event' \in [Slots -> Events]
          /\ target' \in [Slots -> Statuses]
          /\ answers' \in [Events -> SUBSET {"ignored", "accepted", "duplicate", "refused"}]
      BY <1>14, <1>x, <1>r, StoreFaultEffect DEF StoreRaised, Answer
    <2>2. /\ lock' \in [Keys -> Slots \cup {None}]
          /\ faults' \in Nat /\ UNCHANGED <<status, parts, githubVars, requests, moves, crashes>>
      BY <1>14, StoreFaultEffect
    <2> QED
      BY <1>14, <1>m, <2>1, <2>2
  <1>15. ASSUME NEW s \in Slots, LostAnswer(s) PROVE TypeOK'
    <2>1. /\ pc' \in [Slots -> PCs] /\ event' \in [Slots -> Events]
          /\ target' \in [Slots -> Statuses]
          /\ answers' \in [Events -> SUBSET {"ignored", "accepted", "duplicate", "refused"}]
      BY <1>15, <1>x, <1>r, LostAnswerEffect DEF StoreRaised, Answer
    <2>2. /\ status' \in [Keys -> Statuses \cup {Absent}]
          /\ parts' \in [Keys -> SUBSET Parts]
          /\ lock' \in [Keys -> Slots \cup {None}]
      BY <1>15, <1>k, LostAnswerEffect DEF CommitRow, CommitMove, CommitPart
    <2>3. faults' \in Nat /\ UNCHANGED <<githubVars, requests, moves, crashes>>
      BY <1>15, LostAnswerEffect
    <2> QED
      BY <1>15, <1>m, <2>1, <2>2, <2>3
  <1>16. ASSUME Restart PROVE TypeOK'
    <2>1. mishap' \in [Keys -> SUBSET Mishaps]
      BY <1>16 DEF Restart, Mishaps
    <2>2. /\ pc' \in [Slots -> PCs] /\ event' \in [Slots -> Events]
          /\ target' \in [Slots -> Statuses] /\ lock' \in [Keys -> Slots \cup {None}]
      BY <1>16, AnyEventIsOne DEF Restart
    <2> QED
      BY <1>16, <2>1, <2>2 DEF Restart
  <1>17. ASSUME NEW p \in PullRequests, Hide(p) PROVE TypeOK'
    BY <1>17 DEF Hide
  <1>18. ASSUME NEW p \in PullRequests, NEW h \in Heads, Push(p, h) PROVE TypeOK'
    BY <1>18 DEF Push
  <1>19. CASE UNCHANGED vars
    BY <1>19 DEF vars
  <1> QED
    BY <1>1, <1>2, <1>3, <1>4, <1>5, <1>6, <1>7, <1>8, <1>9, <1>10, <1>11, <1>12, <1>13,
       <1>14, <1>15, <1>16, <1>17, <1>18, <1>19 DEF Next, SlotStep

\* The intake is type correct.
THEOREM TypeCorrect == Spec => []TypeOK
  BY InitTypeOK, StepTypeOK, PTL DEF Spec

------------------------------------------------------------------------------
LEMMA InitIInv == Init => IInv
  <1> SUFFICES ASSUME Init PROVE IInv
    OBVIOUS
  <1>1. TypeOK
    BY InitTypeOK
  <1>2. LockHeld /\ OneExecutor /\ StepFits /\ PartsFit /\ EmptyUntilStarted /\ NoOrphanRuns
    BY SlotsAreNotNone DEF Init, LockHeld, OneExecutor, Owning, StepFits, PartsFit, EmptyUntilStarted,
           NoOrphanRuns, Absent, Parts
  <1> QED
    BY <1>1, <1>2 DEF IInv

\* What a step of slot s leaves alone: the other slots, and its own run.
Frame(s) ==
  /\ \A t \in Slots : KeyOf(t) \in Keys
  /\ \A t \in Slots \ {s} : pc'[t] = pc[t] /\ target'[t] = target[t] /\ KeyOf(t)' = KeyOf(t)
  /\ pc'[s] = "idle" \/ KeyOf(s)' = KeyOf(s)

LEMMA GotoFrame ==
  ASSUME TypeOK, NEW s \in Slots, NEW step, NEW goal, Goto(s, step, goal)
  PROVE  Frame(s) /\ pc'[s] = step /\ target'[s] = goal
  BY EventParts DEF Goto, Frame, TypeOK, KeyOf

LEMMA RetireFrame ==
  ASSUME TypeOK, NEW s \in Slots, Retire(s)
  PROVE  Frame(s) /\ pc'[s] = "idle"
  BY EventParts, AnyEventIsOne DEF Retire, Frame, TypeOK, KeyOf

LEMMA RaiseFrame ==
  ASSUME TypeOK, NEW s \in Slots, Raise(s)
  PROVE  /\ Frame(s)
         /\ \/ pc'[s] = "idle" /\ pc[s] \in {"moving", "locked"} /\ target[s] = "failed"
            \/ pc'[s] = "moving" /\ target'[s] = "failed"
  BY GotoFrame, RetireFrame DEF Raise, Failing

LEMMA StoreRaisedFrame ==
  ASSUME TypeOK, NEW s \in Slots, StoreRaised(s)
  PROVE  /\ Frame(s)
         /\ \/ pc'[s] = "idle" /\ pc[s] \in {"accepting", "inserted"}
            \/ pc'[s] = "idle" /\ pc[s] \in {"moving", "locked"} /\ target[s] = "failed"
            \/ /\ pc'[s] = "moving" /\ target'[s] = "failed"
               /\ pc[s] \notin {"accepting", "inserted"}
  BY RaiseFrame, RetireFrame DEF StoreRaised

LEMMA ContinueFrame ==
  ASSUME TypeOK, NEW s \in Slots, pc[s] \in Parts, Continue(s)
  PROVE  /\ Frame(s)
         /\ \/ pc[s] = "files" /\ pc'[s] = "gathering"
            \/ pc[s] = "routing" /\ pc'[s] = "tools"
            \/ pc[s] = "tools" /\ pc'[s] = "findings"
            \/ pc[s] \in {"files", "findings"} /\ pc'[s] = "moving" /\ target'[s] = "summarized"
  BY GotoFrame DEF Continue, After, Parts

LEMMA ReceiveFrame ==
  ASSUME TypeOK, NEW s \in Slots, NEW e \in Events, Receive(s, e)
  PROVE  /\ \A t \in Slots \ {s} : pc'[t] = pc[t] /\ target'[t] = target[t] /\ KeyOf(t)' = KeyOf(t)
         /\ pc[s] = "idle" /\ pc'[s] \in {"idle", "accepting"}
         /\ UNCHANGED <<status, parts, lock, mishap>>
  BY DEF Receive, TypeOK, KeyOf, slotVars, storeVars

\* What a transaction writes, key by key.
LEMMA RowEffect ==
  ASSUME TypeOK, NEW s \in Slots
  PROVE  /\ TakeRow(s) =>
              \A k \in Keys : lock'[k] = IF k = KeyOf(s) THEN s ELSE lock[k]
         /\ CommitRow(s) =>
              /\ \A k \in Keys : status'[k] = IF k = KeyOf(s) THEN "pending" ELSE status[k]
              /\ \A k \in Keys : lock'[k] = IF k = KeyOf(s) THEN None ELSE lock[k]
              /\ \A k \in Keys : parts'[k] = parts[k]
         /\ CommitMove(s) =>
              /\ \A k \in Keys : status'[k] = IF k = KeyOf(s) THEN target[s] ELSE status[k]
              /\ \A k \in Keys : lock'[k] = IF k = KeyOf(s) THEN None ELSE lock[k]
              /\ \A k \in Keys : parts'[k] = parts[k]
         /\ CommitPart(s) =>
              /\ \A k \in Keys : status'[k] = status[k] /\ lock'[k] = lock[k]
              /\ \A k \in Keys : k # KeyOf(s) => parts'[k] = parts[k]
              /\ parts'[KeyOf(s)] = parts[KeyOf(s)] \cup {pc[s]}
  BY EventParts DEF KeyOf, TakeRow, CommitRow, CommitMove, CommitPart, TypeOK

\* The transitions, as the steps below use them.
LEMMA Moves ==
  /\ CanTransition("pending", "running") /\ CanTransition("pending", "skipped")
  /\ CanTransition("running", "summarized")
  /\ CanTransition("pending", "failed") /\ CanTransition("running", "failed")
  /\ \A c, t : CanTransition(c, t) => /\ c # Absent /\ t # Absent /\ t # "pending"
                                      /\ (t = "running" => c = "pending")
  BY DEF CanTransition, Transitions, Absent

\* A row's lock and the step of the slot that holds it move together.
LEMMA StepLockHeld == IInv /\ [Next]_vars => LockHeld'
  <1> SUFFICES ASSUME IInv, [Next]_vars PROVE LockHeld'
    OBVIOUS
  <1>0. TypeOK /\ LockHeld /\ OneExecutor /\ StepFits /\ PartsFit /\ EmptyUntilStarted
    BY DEF IInv
  <1> USE <1>0, SlotsAreNotNone, Moves DEF LockHeld, Parts
  <1>1. ASSUME NEW s \in Slots, NEW e \in Events, Receive(s, e) PROVE LockHeld'
    BY <1>1, ReceiveFrame
  <1>2. ASSUME NEW s \in Slots, InsertRun(s) PROVE LockHeld'
    BY <1>2, GotoFrame, RowEffect DEF InsertRun, Frame
  <1>3. ASSUME NEW s \in Slots, FindRun(s) PROVE LockHeld'
    BY <1>3, RetireFrame DEF FindRun, storeVars, Frame
  <1>4. ASSUME NEW s \in Slots, CommitRun(s) PROVE LockHeld'
    BY <1>4, GotoFrame, RowEffect DEF CommitRun, Frame
  <1>5. ASSUME NEW s \in Slots, AnswerAccepted(s) PROVE LockHeld'
    BY <1>5, GotoFrame DEF AnswerAccepted, storeVars, Frame
  <1>6. ASSUME NEW s \in Slots, Begin(s) PROVE LockHeld'
    BY <1>6, GotoFrame, RetireFrame DEF Begin, storeVars, Frame
  <1>7. ASSUME NEW s \in Slots, FetchPullRequest(s) PROVE LockHeld'
    BY <1>7, GotoFrame DEF FetchPullRequest, Goal, storeVars, Frame
  <1>8. ASSUME NEW s \in Slots, LockRow(s) PROVE LockHeld'
    BY <1>8, GotoFrame, RaiseFrame, RowEffect DEF LockRow, Frame
  <1>9. ASSUME NEW s \in Slots, MoveRow(s) PROVE LockHeld'
    BY <1>9, GotoFrame, RetireFrame, RowEffect DEF MoveRow, Frame
  <1>10. ASSUME NEW s \in Slots, Fetch(s) PROVE LockHeld'
    BY <1>10, GotoFrame DEF Fetch, storeVars, Frame
  <1>11. ASSUME NEW s \in Slots, RecordPart(s) PROVE LockHeld'
    BY <1>11, ContinueFrame, RowEffect DEF RecordPart, Frame
  <1>12. ASSUME NEW s \in Slots, NothingToRecord(s) PROVE LockHeld'
    BY <1>12, ContinueFrame DEF NothingToRecord, storeVars, Frame
  <1>13. ASSUME NEW s \in Slots, RemoteFault(s) PROVE LockHeld'
    BY <1>13, RaiseFrame DEF RemoteFault, storeVars, Frame
  <1>14. ASSUME NEW s \in Slots, StoreFault(s) PROVE LockHeld'
    BY <1>14, StoreRaisedFrame, StoreFaultEffect DEF Frame
  <1>15. ASSUME NEW s \in Slots, LostAnswer(s) PROVE LockHeld'
    BY <1>15, StoreRaisedFrame, RowEffect, LostAnswerEffect DEF Frame
  <1>16. ASSUME Restart PROVE LockHeld'
    BY <1>16 DEF Restart
  <1>17. ASSUME NEW p \in PullRequests, Hide(p) PROVE LockHeld'
    BY <1>17 DEF Hide, slotVars, storeVars, KeyOf
  <1>18. ASSUME NEW p \in PullRequests, NEW h \in Heads, Push(p, h) PROVE LockHeld'
    BY <1>18 DEF Push, slotVars, storeVars, KeyOf
  <1>19. CASE UNCHANGED vars
    BY <1>19 DEF vars, slotVars, storeVars, KeyOf
  <1> QED
    BY <1>1, <1>2, <1>3, <1>4, <1>5, <1>6, <1>7, <1>8, <1>9, <1>10, <1>11, <1>12, <1>13,
       <1>14, <1>15, <1>16, <1>17, <1>18, <1>19 DEF Next, SlotStep

\* Only an insert makes a slot own a run, and the insert wins only once.
LEMMA StepOneExecutor == IInv /\ [Next]_vars => OneExecutor'
  <1> SUFFICES ASSUME IInv, [Next]_vars PROVE OneExecutor'
    OBVIOUS
  <1>0. TypeOK /\ LockHeld /\ OneExecutor /\ StepFits /\ PartsFit /\ EmptyUntilStarted
    BY DEF IInv
  <1> USE <1>0, SlotsAreNotNone, Moves DEF OneExecutor, Owning, LockHeld, StepFits, Parts
  <1>1. ASSUME NEW s \in Slots, NEW e \in Events, Receive(s, e) PROVE OneExecutor'
    BY <1>1, ReceiveFrame
  <1>2. ASSUME NEW s \in Slots, InsertRun(s) PROVE OneExecutor'
    <2>1. Frame(s) /\ pc'[s] # "idle"
      BY <1>2, GotoFrame DEF InsertRun
    <2>2. ASSUME NEW t \in Slots, Owning(t) PROVE KeyOf(t) # KeyOf(s)
      BY <1>2, <2>1, <2>2 DEF InsertRun, TypeOK, PCs, Frame
    <2> QED
      BY <2>1, <2>2 DEF Frame
  <1>3. ASSUME NEW s \in Slots, FindRun(s) PROVE OneExecutor'
    BY <1>3, RetireFrame DEF FindRun, storeVars, Frame
  <1>4. ASSUME NEW s \in Slots, CommitRun(s) PROVE OneExecutor'
    BY <1>4, GotoFrame, RowEffect DEF CommitRun, Frame
  <1>5. ASSUME NEW s \in Slots, AnswerAccepted(s) PROVE OneExecutor'
    BY <1>5, GotoFrame DEF AnswerAccepted, storeVars, Frame
  <1>6. ASSUME NEW s \in Slots, Begin(s) PROVE OneExecutor'
    BY <1>6, GotoFrame, RetireFrame DEF Begin, storeVars, Frame
  <1>7. ASSUME NEW s \in Slots, FetchPullRequest(s) PROVE OneExecutor'
    BY <1>7, GotoFrame DEF FetchPullRequest, Goal, storeVars, Frame
  <1>8. ASSUME NEW s \in Slots, LockRow(s) PROVE OneExecutor'
    BY <1>8, GotoFrame, RaiseFrame, RowEffect DEF LockRow, Frame
  <1>9. ASSUME NEW s \in Slots, MoveRow(s) PROVE OneExecutor'
    BY <1>9, GotoFrame, RetireFrame, RowEffect DEF MoveRow, Frame
  <1>10. ASSUME NEW s \in Slots, Fetch(s) PROVE OneExecutor'
    BY <1>10, GotoFrame DEF Fetch, storeVars, Frame
  <1>11. ASSUME NEW s \in Slots, RecordPart(s) PROVE OneExecutor'
    BY <1>11, ContinueFrame, RowEffect DEF RecordPart, Frame
  <1>12. ASSUME NEW s \in Slots, NothingToRecord(s) PROVE OneExecutor'
    BY <1>12, ContinueFrame DEF NothingToRecord, storeVars, Frame
  <1>13. ASSUME NEW s \in Slots, RemoteFault(s) PROVE OneExecutor'
    BY <1>13, RaiseFrame DEF RemoteFault, storeVars, Frame
  <1>14. ASSUME NEW s \in Slots, StoreFault(s) PROVE OneExecutor'
    BY <1>14, StoreRaisedFrame, StoreFaultEffect DEF Frame
  <1>15. ASSUME NEW s \in Slots, LostAnswer(s) PROVE OneExecutor'
    BY <1>15, StoreRaisedFrame, RowEffect, LostAnswerEffect DEF Frame
  <1>16. ASSUME Restart PROVE OneExecutor'
    BY <1>16 DEF Restart
  <1>17. ASSUME NEW p \in PullRequests, Hide(p) PROVE OneExecutor'
    BY <1>17 DEF Hide, slotVars, storeVars, KeyOf
  <1>18. ASSUME NEW p \in PullRequests, NEW h \in Heads, Push(p, h) PROVE OneExecutor'
    BY <1>18 DEF Push, slotVars, storeVars, KeyOf
  <1>19. CASE UNCHANGED vars
    BY <1>19 DEF vars, slotVars, storeVars, KeyOf
  <1> QED
    BY <1>1, <1>2, <1>3, <1>4, <1>5, <1>6, <1>7, <1>8, <1>9, <1>10, <1>11, <1>12, <1>13,
       <1>14, <1>15, <1>16, <1>17, <1>18, <1>19 DEF Next, SlotStep

\* A run's status stays what its executor's step says.
LEMMA StepStepFits == IInv /\ [Next]_vars => StepFits'
  <1> SUFFICES ASSUME IInv, [Next]_vars PROVE StepFits'
    OBVIOUS
  <1>0. TypeOK /\ LockHeld /\ OneExecutor /\ StepFits /\ PartsFit /\ EmptyUntilStarted
    BY DEF IInv
  <1> USE <1>0, SlotsAreNotNone, Moves DEF StepFits, OneExecutor, Owning, LockHeld, Parts
  <1>1. ASSUME NEW s \in Slots, NEW e \in Events, Receive(s, e) PROVE StepFits'
    BY <1>1, ReceiveFrame
  <1>2. ASSUME NEW s \in Slots, InsertRun(s) PROVE StepFits'
    BY <1>2, GotoFrame, RowEffect DEF InsertRun, Frame
  <1>3. ASSUME NEW s \in Slots, FindRun(s) PROVE StepFits'
    BY <1>3, RetireFrame DEF FindRun, storeVars, Frame
  <1>4. ASSUME NEW s \in Slots, CommitRun(s) PROVE StepFits'
    BY <1>4, GotoFrame, RowEffect DEF CommitRun, Frame
  <1>5. ASSUME NEW s \in Slots, AnswerAccepted(s) PROVE StepFits'
    BY <1>5, GotoFrame DEF AnswerAccepted, storeVars, Frame
  <1>6. ASSUME NEW s \in Slots, Begin(s) PROVE StepFits'
    BY <1>6, GotoFrame, RetireFrame DEF Begin, storeVars, Frame
  <1>7. ASSUME NEW s \in Slots, FetchPullRequest(s) PROVE StepFits'
    BY <1>7, GotoFrame DEF FetchPullRequest, Goal, storeVars, Frame
  <1>8. ASSUME NEW s \in Slots, LockRow(s) PROVE StepFits'
    BY <1>8, GotoFrame, RaiseFrame, RowEffect DEF LockRow, Frame
  <1>9. ASSUME NEW s \in Slots, MoveRow(s) PROVE StepFits'
    BY <1>9, GotoFrame, RetireFrame, RowEffect DEF MoveRow, Frame
  <1>10. ASSUME NEW s \in Slots, Fetch(s) PROVE StepFits'
    BY <1>10, GotoFrame DEF Fetch, storeVars, Frame
  <1>11. ASSUME NEW s \in Slots, RecordPart(s) PROVE StepFits'
    BY <1>11, ContinueFrame, RowEffect DEF RecordPart, Frame
  <1>12. ASSUME NEW s \in Slots, NothingToRecord(s) PROVE StepFits'
    BY <1>12, ContinueFrame DEF NothingToRecord, storeVars, Frame
  <1>13. ASSUME NEW s \in Slots, RemoteFault(s) PROVE StepFits'
    BY <1>13, RaiseFrame DEF RemoteFault, storeVars, Frame
  <1>14. ASSUME NEW s \in Slots, StoreFault(s) PROVE StepFits'
    BY <1>14, StoreRaisedFrame, StoreFaultEffect DEF Frame
  <1>15. ASSUME NEW s \in Slots, LostAnswer(s) PROVE StepFits'
    BY <1>15, StoreRaisedFrame, RowEffect, LostAnswerEffect DEF Frame
  <1>16. ASSUME Restart PROVE StepFits'
    BY <1>16 DEF Restart
  <1>17. ASSUME NEW p \in PullRequests, Hide(p) PROVE StepFits'
    BY <1>17 DEF Hide, slotVars, storeVars, KeyOf
  <1>18. ASSUME NEW p \in PullRequests, NEW h \in Heads, Push(p, h) PROVE StepFits'
    BY <1>18 DEF Push, slotVars, storeVars, KeyOf
  <1>19. CASE UNCHANGED vars
    BY <1>19 DEF vars, slotVars, storeVars, KeyOf
  <1> QED
    BY <1>1, <1>2, <1>3, <1>4, <1>5, <1>6, <1>7, <1>8, <1>9, <1>10, <1>11, <1>12, <1>13,
       <1>14, <1>15, <1>16, <1>17, <1>18, <1>19 DEF Next, SlotStep

\* Evidence is written by the executor alone, in order.
LEMMA StepPartsFit == IInv /\ [Next]_vars => PartsFit'
  <1> SUFFICES ASSUME IInv, [Next]_vars PROVE PartsFit'
    OBVIOUS
  <1>0. TypeOK /\ LockHeld /\ OneExecutor /\ StepFits /\ PartsFit /\ EmptyUntilStarted
    BY DEF IInv
  <1> USE <1>0, SlotsAreNotNone, Moves DEF PartsFit, EmptyUntilStarted, StepFits, OneExecutor, Owning, Parts
  <1>1. ASSUME NEW s \in Slots, NEW e \in Events, Receive(s, e) PROVE PartsFit'
    BY <1>1, ReceiveFrame
  <1>2. ASSUME NEW s \in Slots, InsertRun(s) PROVE PartsFit'
    BY <1>2, GotoFrame, RowEffect DEF InsertRun, Frame
  <1>3. ASSUME NEW s \in Slots, FindRun(s) PROVE PartsFit'
    BY <1>3, RetireFrame DEF FindRun, storeVars, Frame
  <1>4. ASSUME NEW s \in Slots, CommitRun(s) PROVE PartsFit'
    BY <1>4, GotoFrame, RowEffect DEF CommitRun, Frame
  <1>5. ASSUME NEW s \in Slots, AnswerAccepted(s) PROVE PartsFit'
    BY <1>5, GotoFrame DEF AnswerAccepted, storeVars, Frame
  <1>6. ASSUME NEW s \in Slots, Begin(s) PROVE PartsFit'
    BY <1>6, GotoFrame, RetireFrame DEF Begin, storeVars, Frame
  <1>7. ASSUME NEW s \in Slots, FetchPullRequest(s) PROVE PartsFit'
    BY <1>7, GotoFrame DEF FetchPullRequest, Goal, storeVars, Frame
  <1>8. ASSUME NEW s \in Slots, LockRow(s) PROVE PartsFit'
    BY <1>8, GotoFrame, RaiseFrame, RowEffect DEF LockRow, Frame
  <1>9. ASSUME NEW s \in Slots, MoveRow(s) PROVE PartsFit'
    BY <1>9, GotoFrame, RetireFrame, RowEffect DEF MoveRow, Frame
  <1>10. ASSUME NEW s \in Slots, Fetch(s) PROVE PartsFit'
    BY <1>10, GotoFrame DEF Fetch, storeVars, Frame
  <1>11. ASSUME NEW s \in Slots, RecordPart(s) PROVE PartsFit'
    <2>1. Frame(s) /\ pc[s] \in Parts /\ CommitPart(s)
      BY <1>11, ContinueFrame DEF RecordPart
    <2>2. \A t \in Slots \ {s} : Owning(t) => KeyOf(t) # KeyOf(s)
      BY <2>1
    <2>3. \A t \in Slots \ {s} : Owning(t) => parts'[KeyOf(t)'] = parts[KeyOf(t)]
      BY <2>1, <2>2, RowEffect DEF Frame
    <2>4. parts'[KeyOf(s)] = parts[KeyOf(s)] \cup {pc[s]}
      BY <2>1, RowEffect DEF Frame
    <2> QED
      BY <1>11, <2>1, <2>3, <2>4, ContinueFrame DEF RecordPart, Frame
  <1>12. ASSUME NEW s \in Slots, NothingToRecord(s) PROVE PartsFit'
    BY <1>12, ContinueFrame DEF NothingToRecord, storeVars, Frame
  <1>13. ASSUME NEW s \in Slots, RemoteFault(s) PROVE PartsFit'
    BY <1>13, RaiseFrame DEF RemoteFault, storeVars, Frame
  <1>14. ASSUME NEW s \in Slots, StoreFault(s) PROVE PartsFit'
    BY <1>14, StoreRaisedFrame, StoreFaultEffect DEF Frame
  <1>15. ASSUME NEW s \in Slots, LostAnswer(s) PROVE PartsFit'
    <2>1. Frame(s) /\ pc'[s] \in {"idle", "moving"}
      BY <1>15, StoreRaisedFrame DEF LostAnswer
    <2>2. pc[s] = "inserted" \/ pc[s] = "locked" \/ pc[s] \in Parts
      BY <1>15 DEF LostAnswer
    <2>3. \A k \in Keys : k # KeyOf(s) => parts'[k] = parts[k]
      BY <1>15, RowEffect DEF LostAnswer
    <2>4. \A t \in Slots \ {s} : Owning(t) => KeyOf(t) # KeyOf(s)
      BY <2>2
    <2> QED
      BY <2>1, <2>3, <2>4 DEF Frame
  <1>16. ASSUME Restart PROVE PartsFit'
    BY <1>16 DEF Restart
  <1>17. ASSUME NEW p \in PullRequests, Hide(p) PROVE PartsFit'
    BY <1>17 DEF Hide, slotVars, storeVars, KeyOf
  <1>18. ASSUME NEW p \in PullRequests, NEW h \in Heads, Push(p, h) PROVE PartsFit'
    BY <1>18 DEF Push, slotVars, storeVars, KeyOf
  <1>19. CASE UNCHANGED vars
    BY <1>19 DEF vars, slotVars, storeVars, KeyOf
  <1> QED
    BY <1>1, <1>2, <1>3, <1>4, <1>5, <1>6, <1>7, <1>8, <1>9, <1>10, <1>11, <1>12, <1>13,
       <1>14, <1>15, <1>16, <1>17, <1>18, <1>19 DEF Next, SlotStep

\* No evidence is written before the move to running.
LEMMA StepEmptyUntilStarted == IInv /\ [Next]_vars => EmptyUntilStarted'
  <1> SUFFICES ASSUME IInv, [Next]_vars PROVE EmptyUntilStarted'
    OBVIOUS
  <1>0. TypeOK /\ LockHeld /\ OneExecutor /\ StepFits /\ PartsFit /\ EmptyUntilStarted
    BY DEF IInv
  <1> USE <1>0, SlotsAreNotNone, Moves DEF EmptyUntilStarted, StepFits, Parts
  <1>1. ASSUME NEW s \in Slots, NEW e \in Events, Receive(s, e) PROVE EmptyUntilStarted'
    BY <1>1, ReceiveFrame
  <1>2. ASSUME NEW s \in Slots, InsertRun(s) PROVE EmptyUntilStarted'
    BY <1>2, GotoFrame, RowEffect DEF InsertRun, Frame
  <1>3. ASSUME NEW s \in Slots, FindRun(s) PROVE EmptyUntilStarted'
    BY <1>3, RetireFrame DEF FindRun, storeVars, Frame
  <1>4. ASSUME NEW s \in Slots, CommitRun(s) PROVE EmptyUntilStarted'
    BY <1>4, GotoFrame, RowEffect DEF CommitRun, Frame
  <1>5. ASSUME NEW s \in Slots, AnswerAccepted(s) PROVE EmptyUntilStarted'
    BY <1>5, GotoFrame DEF AnswerAccepted, storeVars, Frame
  <1>6. ASSUME NEW s \in Slots, Begin(s) PROVE EmptyUntilStarted'
    BY <1>6, GotoFrame, RetireFrame DEF Begin, storeVars, Frame
  <1>7. ASSUME NEW s \in Slots, FetchPullRequest(s) PROVE EmptyUntilStarted'
    BY <1>7, GotoFrame DEF FetchPullRequest, Goal, storeVars, Frame
  <1>8. ASSUME NEW s \in Slots, LockRow(s) PROVE EmptyUntilStarted'
    BY <1>8, GotoFrame, RaiseFrame, RowEffect DEF LockRow, Frame
  <1>9. ASSUME NEW s \in Slots, MoveRow(s) PROVE EmptyUntilStarted'
    BY <1>9, GotoFrame, RetireFrame, RowEffect DEF MoveRow, Frame
  <1>10. ASSUME NEW s \in Slots, Fetch(s) PROVE EmptyUntilStarted'
    BY <1>10, GotoFrame DEF Fetch, storeVars, Frame
  <1>11. ASSUME NEW s \in Slots, RecordPart(s) PROVE EmptyUntilStarted'
    <2>1. status[KeyOf(s)] = "running"
      BY <1>11 DEF RecordPart
    <2>2. \A k \in Keys : status'[k] = status[k] /\ (parts'[k] = parts[k] \/ k = KeyOf(s))
      BY <1>11, RowEffect DEF RecordPart
    <2> QED
      BY <2>1, <2>2
  <1>12. ASSUME NEW s \in Slots, NothingToRecord(s) PROVE EmptyUntilStarted'
    BY <1>12, ContinueFrame DEF NothingToRecord, storeVars, Frame
  <1>13. ASSUME NEW s \in Slots, RemoteFault(s) PROVE EmptyUntilStarted'
    BY <1>13, RaiseFrame DEF RemoteFault, storeVars, Frame
  <1>14. ASSUME NEW s \in Slots, StoreFault(s) PROVE EmptyUntilStarted'
    BY <1>14, StoreRaisedFrame, StoreFaultEffect DEF Frame
  <1>15. ASSUME NEW s \in Slots, LostAnswer(s) PROVE EmptyUntilStarted'
    <2>1. CASE pc[s] = "inserted" /\ CommitRow(s)
      BY <2>1, RowEffect
    <2>2. CASE pc[s] = "locked" /\ CommitMove(s)
      <3>1. CanTransition(status[KeyOf(s)], target[s])
        BY <2>2
      <3> QED
        BY <2>2, <3>1, RowEffect
    <2>3. CASE pc[s] \in Parts /\ CommitPart(s)
      <3>1. status[KeyOf(s)] = "running"
        BY <2>3
      <3>2. \A k \in Keys : status'[k] = status[k] /\ (parts'[k] = parts[k] \/ k = KeyOf(s))
        BY <2>3, RowEffect
      <3> QED
        BY <3>1, <3>2
    <2> QED
      BY <1>15, <2>1, <2>2, <2>3 DEF LostAnswer
  <1>16. ASSUME Restart PROVE EmptyUntilStarted'
    BY <1>16 DEF Restart
  <1>17. ASSUME NEW p \in PullRequests, Hide(p) PROVE EmptyUntilStarted'
    BY <1>17 DEF Hide, slotVars, storeVars, KeyOf
  <1>18. ASSUME NEW p \in PullRequests, NEW h \in Heads, Push(p, h) PROVE EmptyUntilStarted'
    BY <1>18 DEF Push, slotVars, storeVars, KeyOf
  <1>19. CASE UNCHANGED vars
    BY <1>19 DEF vars, slotVars, storeVars, KeyOf
  <1> QED
    BY <1>1, <1>2, <1>3, <1>4, <1>5, <1>6, <1>7, <1>8, <1>9, <1>10, <1>11, <1>12, <1>13,
       <1>14, <1>15, <1>16, <1>17, <1>18, <1>19 DEF Next, SlotStep

\* What a run has met with stays on it, and a fault adds to it.
LEMMA MeetGrows ==
  ASSUME TypeOK, NEW s \in Slots, NEW what, Meet(s, what)
  PROVE  /\ \A k \in Keys : mishap[k] \subseteq mishap'[k]
         /\ what \subseteq mishap'[KeyOf(s)]
  BY EventParts DEF Meet, KeyOf, TypeOK

\* A run that nothing has to move on.
Excused(k) == mishap[k] \cap {"unheard insert", "unrecorded failure", "restart"} # {}

\* A step of slot s that leaves every open run an owner or an excuse: it opens no
\* run but its own, and lets go of its own only when it closes it or has an excuse.
KeepsOwners(s) ==
  /\ Frame(s)
  /\ \A k \in Keys : mishap[k] \subseteq mishap'[k]
  /\ \A k \in Keys : status'[k] \in {"pending", "running"} =>
       /\ status[k] \in {"pending", "running"} \/ (k = KeyOf(s) /\ (Owning(s)' \/ Excused(k)'))
       /\ Owning(s) /\ KeyOf(s) = k => Owning(s)' \/ Excused(k)'

LEMMA OwnersKept ==
  ASSUME NoOrphanRuns, NEW s \in Slots, KeepsOwners(s)
  PROVE  NoOrphanRuns'
  <1> USE DEF KeepsOwners
  <1> SUFFICES ASSUME NEW k \in Keys, status'[k] \in {"pending", "running"}, ~Excused(k)'
               PROVE  \E t \in Slots : Owning(t)' /\ KeyOf(t)' = k
    BY DEF NoOrphanRuns, Excused
  <1>1. Owning(s)' => KeyOf(s)' = KeyOf(s)
    BY DEF Frame, Owning
  <1>2. CASE k = KeyOf(s) /\ Owning(s)'
    BY <1>1, <1>2
  <1>3. CASE status[k] \in {"pending", "running"}
    <2>1. PICK t \in Slots : Owning(t) /\ KeyOf(t) = k
      BY <1>3 DEF NoOrphanRuns, Excused
    <2>2. CASE t = s
      BY <1>1, <2>1, <2>2
    <2>3. CASE t # s
      BY <2>1, <2>3 DEF Frame, Owning
    <2> QED
      BY <2>2, <2>3
  <1> QED
    BY <1>2, <1>3

\* A fault that takes a run's last step from it leaves its mark on the run.
LEMMA FaultExcuses ==
  ASSUME TypeOK, StepFits, NEW s \in Slots, StoreFault(s) \/ LostAnswer(s)
  PROVE  KeepsOwners(s)
  <1>1. CASE StoreFault(s)
    <2>1. /\ Frame(s) /\ UNCHANGED status
          /\ \A k \in Keys : mishap[k] \subseteq mishap'[k]
      BY <1>1, StoreRaisedFrame, MeetGrows DEF StoreFault
    <2>2. pc[s] = "inserted" => status[KeyOf(s)] = Absent
      BY DEF StepFits
    <2>3. Failing(s) => "unrecorded failure" \in mishap'[KeyOf(s)]
      BY <1>1, MeetGrows DEF StoreFault
    <2>4. Owning(s)' \/ pc[s] \in {"accepting", "inserted"} \/ Failing(s)
      BY <1>1, StoreRaisedFrame DEF StoreFault, Owning, Failing
    <2> QED
      BY <2>1, <2>2, <2>3, <2>4 DEF KeepsOwners, Owning, Excused, Absent
  <1>2. CASE LostAnswer(s)
    <2>1. Frame(s) /\ \A k \in Keys : mishap[k] \subseteq mishap'[k]
      BY <1>2, StoreRaisedFrame, MeetGrows DEF LostAnswer
    <2>2. CASE pc[s] = "inserted" /\ CommitRow(s)
      <3>1. "unheard insert" \in mishap'[KeyOf(s)]
        BY <1>2, <2>2, MeetGrows DEF LostAnswer
      <3> QED
        BY <2>1, <2>2, <3>1, RowEffect DEF KeepsOwners, Excused
    <2>3. CASE pc[s] = "locked" /\ CommitMove(s)
      <3>1. target[s] = "failed" \/ Owning(s)'
        BY <1>2, <2>3, StoreRaisedFrame DEF LostAnswer, Owning
      <3>2. status[KeyOf(s)] \in {"pending", "running"} \/ target[s] \notin {"pending", "running"}
        BY <2>3, Moves DEF StepFits
      <3> QED
        BY <2>1, <2>3, <3>1, <3>2, RowEffect DEF KeepsOwners
    <2>4. CASE pc[s] \in Parts /\ CommitPart(s)
      <3>1. Owning(s)'
        BY <1>2, <2>4, StoreRaisedFrame DEF LostAnswer, Owning, Parts
      <3> QED
        BY <2>1, <2>4, <3>1, RowEffect DEF KeepsOwners
    <2> QED
      BY <1>2, <2>2, <2>3, <2>4 DEF LostAnswer
  <1> QED
    BY <1>1, <1>2

\* Every open run keeps a slot that works on it, or bears the mark of what took it.
LEMMA StepNoOrphanRuns == IInv /\ [Next]_vars => NoOrphanRuns'
  <1> SUFFICES ASSUME IInv, [Next]_vars PROVE NoOrphanRuns'
    OBVIOUS
  <1>0. TypeOK /\ StepFits /\ NoOrphanRuns
    BY DEF IInv
  <1> USE <1>0, Moves, OwnersKept DEF StepFits, Owning, Parts, KeepsOwners, counters
  <1>1. ASSUME NEW s \in Slots, NEW e \in Events, Receive(s, e) PROVE NoOrphanRuns'
    <2> SUFFICES ASSUME NEW k \in Keys, status'[k] \in {"pending", "running"}, ~Excused(k)'
                 PROVE  \E t \in Slots : Owning(t)' /\ KeyOf(t)' = k
      BY DEF NoOrphanRuns, Excused
    <2>1. status[k] \in {"pending", "running"} /\ ~Excused(k)
      BY <1>1, ReceiveFrame DEF Excused
    <2>2. PICK t \in Slots : Owning(t) /\ KeyOf(t) = k
      BY <2>1 DEF NoOrphanRuns, Excused
    <2> QED
      BY <1>1, <2>2, ReceiveFrame
  <1>2. ASSUME NEW s \in Slots, InsertRun(s) PROVE NoOrphanRuns'
    <2>1. KeepsOwners(s)
      BY <1>2, GotoFrame DEF InsertRun, Frame
    <2> QED
      BY <2>1
  <1>3. ASSUME NEW s \in Slots, FindRun(s) PROVE NoOrphanRuns'
    <2>1. KeepsOwners(s)
      BY <1>3, RetireFrame DEF FindRun, storeVars, Frame
    <2> QED
      BY <2>1
  <1>4. ASSUME NEW s \in Slots, CommitRun(s) PROVE NoOrphanRuns'
    <2>1. KeepsOwners(s)
      BY <1>4, GotoFrame, RowEffect DEF CommitRun, Frame
    <2> QED
      BY <2>1
  <1>5. ASSUME NEW s \in Slots, AnswerAccepted(s) PROVE NoOrphanRuns'
    <2>1. KeepsOwners(s)
      BY <1>5, GotoFrame DEF AnswerAccepted, storeVars, Frame
    <2> QED
      BY <2>1
  <1>6. ASSUME NEW s \in Slots, Begin(s) PROVE NoOrphanRuns'
    <2>1. KeepsOwners(s)
      BY <1>6, GotoFrame DEF Begin, storeVars, Frame
    <2> QED
      BY <2>1
  <1>7. ASSUME NEW s \in Slots, FetchPullRequest(s) PROVE NoOrphanRuns'
    <2>1. KeepsOwners(s)
      BY <1>7, GotoFrame DEF FetchPullRequest, storeVars, Frame
    <2> QED
      BY <2>1
  <1>8. ASSUME NEW s \in Slots, LockRow(s) PROVE NoOrphanRuns'
    <2>1. KeepsOwners(s)
      BY <1>8, GotoFrame, RaiseFrame DEF LockRow, Frame
    <2> QED
      BY <2>1
  <1>9. ASSUME NEW s \in Slots, MoveRow(s) PROVE NoOrphanRuns'
    <2>1. KeepsOwners(s)
      BY <1>9, GotoFrame, RetireFrame, RowEffect DEF MoveRow, Frame
    <2> QED
      BY <2>1
  <1>10. ASSUME NEW s \in Slots, Fetch(s) PROVE NoOrphanRuns'
    <2>1. KeepsOwners(s)
      BY <1>10, GotoFrame DEF Fetch, storeVars, Frame
    <2> QED
      BY <2>1
  <1>11. ASSUME NEW s \in Slots, RecordPart(s) PROVE NoOrphanRuns'
    <2>1. KeepsOwners(s)
      BY <1>11, ContinueFrame, RowEffect DEF RecordPart, Frame
    <2> QED
      BY <2>1
  <1>12. ASSUME NEW s \in Slots, NothingToRecord(s) PROVE NoOrphanRuns'
    <2>1. KeepsOwners(s)
      BY <1>12, ContinueFrame DEF NothingToRecord, storeVars, Frame
    <2> QED
      BY <2>1
  <1>13. ASSUME NEW s \in Slots, RemoteFault(s) PROVE NoOrphanRuns'
    <2>1. KeepsOwners(s)
      BY <1>13, RaiseFrame DEF RemoteFault, storeVars, Frame
    <2> QED
      BY <2>1
  <1>14. ASSUME NEW s \in Slots, StoreFault(s) \/ LostAnswer(s) PROVE NoOrphanRuns'
    BY <1>14, FaultExcuses
  <1>15. ASSUME Restart PROVE NoOrphanRuns'
    <2> SUFFICES ASSUME NEW k \in Keys, status'[k] \in {"pending", "running"}
                 PROVE  Excused(k)'
      BY DEF NoOrphanRuns, Excused
    <2>1. status[k] \in {"pending", "running"} /\ mishap[k] \subseteq mishap'[k]
      BY <1>15 DEF Restart, TypeOK
    <2>2. CASE Excused(k)
      BY <2>1, <2>2 DEF Excused
    <2>3. CASE ~Excused(k)
      <3>1. PICK s \in Slots : Owning(s) /\ KeyOf(s) = k
        BY <2>1, <2>3 DEF NoOrphanRuns, Excused
      <3>2. Stopped(s)
        BY <2>1, <3>1 DEF Stopped, Absent
      <3>3. "restart" \in mishap'[k]
        BY <1>15, <3>1, <3>2 DEF Restart, TypeOK
      <3> QED
        BY <3>3 DEF Excused
    <2> QED
      BY <2>2, <2>3
  <1>16. ASSUME NEW p \in PullRequests, Hide(p) PROVE NoOrphanRuns'
    BY <1>16 DEF Hide, slotVars, storeVars, KeyOf, NoOrphanRuns
  <1>17. ASSUME NEW p \in PullRequests, NEW h \in Heads, Push(p, h) PROVE NoOrphanRuns'
    BY <1>17 DEF Push, slotVars, storeVars, KeyOf, NoOrphanRuns
  <1>18. CASE UNCHANGED vars
    BY <1>18 DEF vars, slotVars, storeVars, KeyOf, NoOrphanRuns
  <1> QED
    BY <1>1, <1>2, <1>3, <1>4, <1>5, <1>6, <1>7, <1>8, <1>9, <1>10, <1>11, <1>12, <1>13,
       <1>14, <1>15, <1>16, <1>17, <1>18 DEF Next, SlotStep

\* The invariant is inductive.
LEMMA StepIInv == IInv /\ [Next]_vars => IInv'
  <1> SUFFICES ASSUME IInv, [Next]_vars PROVE IInv'
    OBVIOUS
  <1>1. TypeOK'
    BY StepTypeOK DEF IInv
  <1> QED
    BY <1>1, StepLockHeld, StepOneExecutor, StepStepFits, StepPartsFit,
       StepEmptyUntilStarted, StepNoOrphanRuns DEF IInv

LEMMA SpecIInv == Spec => []IInv
  BY InitIInv, StepIInv, PTL DEF Spec

\* Whatever is redelivered and however the threads interleave, at most one slot
\* ever holds a run (intake.accept_event, execute_run).
THEOREM RunHasOneExecutor == Spec => []OneExecutor
  <1>1. IInv => OneExecutor
    BY DEF IInv
  <1> QED
    BY <1>1, SpecIInv, PTL

\* A run left pending or running with nobody at work on it is one whose own commit
\* was not heard of, whose own failure could not be recorded, or that the process
\* was restarted under (intake.execute_run, _fail).
THEOREM OrphansNeedFaults == Spec => []NoOrphanRuns
  <1>1. IInv => NoOrphanRuns
    BY DEF IInv
  <1> QED
    BY <1>1, SpecIInv, PTL

------------------------------------------------------------------------------
\* Nobody works on a summarized run, unless nobody was told that it is.
DoneFits ==
  \A s \in Slots :
    Owning(s) /\ status[KeyOf(s)] = "summarized" => "unheard summary" \in mishap[KeyOf(s)]

\* A step of slot s that leaves no summarized run in anyone's hands unheard of.
KeepsDone(s) ==
  /\ Frame(s)
  /\ \A k \in Keys : mishap[k] \subseteq mishap'[k]
  /\ \A k \in Keys : status'[k] = "summarized" =>
       \/ status[k] = "summarized"
       \/ k = KeyOf(s) /\ Owning(s) /\ (~Owning(s)' \/ "unheard summary" \in mishap'[k])
  /\ Owning(s)' => Owning(s) \/ status'[KeyOf(s)] # "summarized"

LEMMA DoneKept ==
  ASSUME DoneFits, OneExecutor, NEW s \in Slots, KeepsDone(s)
  PROVE  DoneFits'
  <1> SUFFICES ASSUME NEW t \in Slots, Owning(t)', status'[KeyOf(t)'] = "summarized",
                      "unheard summary" \notin mishap'[KeyOf(t)']
               PROVE  FALSE
    BY DEF DoneFits
  <1>1. KeyOf(t)' = KeyOf(t) /\ KeyOf(t) \in Keys
    BY DEF KeepsDone, Frame, Owning
  <1>2. "unheard summary" \notin mishap[KeyOf(t)]
    BY <1>1 DEF KeepsDone
  <1>3. Owning(t)
    BY <1>1 DEF KeepsDone, Frame, Owning
  <1>4. status[KeyOf(t)] # "summarized"
    BY <1>2, <1>3 DEF DoneFits
  <1>5. KeyOf(t) = KeyOf(s) /\ Owning(s) /\ ~Owning(s)'
    BY <1>1, <1>4 DEF KeepsDone
  <1> QED
    BY <1>3, <1>5 DEF OneExecutor

\* An executor leaves the run it has summarized.
LEMMA StepDoneFits == IInv /\ DoneFits /\ [Next]_vars => DoneFits'
  <1> SUFFICES ASSUME IInv, DoneFits, [Next]_vars PROVE DoneFits'
    OBVIOUS
  <1>0. TypeOK /\ OneExecutor /\ StepFits
    BY DEF IInv
  <1> USE <1>0, Moves, DoneKept DEF StepFits, Owning, Parts, KeepsDone, counters
  <1>1. ASSUME NEW s \in Slots, NEW e \in Events, Receive(s, e) PROVE DoneFits'
    BY <1>1, ReceiveFrame DEF DoneFits
  <1>2. ASSUME NEW s \in Slots, InsertRun(s) PROVE DoneFits'
    <2>1. KeepsDone(s)
      BY <1>2, GotoFrame DEF InsertRun, Frame, Absent
    <2> QED
      BY <2>1
  <1>3. ASSUME NEW s \in Slots, FindRun(s) PROVE DoneFits'
    <2>1. KeepsDone(s)
      BY <1>3, RetireFrame DEF FindRun, storeVars, Frame
    <2> QED
      BY <2>1
  <1>4. ASSUME NEW s \in Slots, CommitRun(s) PROVE DoneFits'
    <2>1. KeepsDone(s)
      BY <1>4, GotoFrame, RowEffect DEF CommitRun, Frame
    <2> QED
      BY <2>1
  <1>5. ASSUME NEW s \in Slots, AnswerAccepted(s) PROVE DoneFits'
    <2>1. KeepsDone(s)
      BY <1>5, GotoFrame DEF AnswerAccepted, storeVars, Frame
    <2> QED
      BY <2>1
  <1>6. ASSUME NEW s \in Slots, Begin(s) PROVE DoneFits'
    <2>1. KeepsDone(s)
      BY <1>6, GotoFrame, RetireFrame DEF Begin, storeVars, Frame
    <2> QED
      BY <2>1
  <1>7. ASSUME NEW s \in Slots, FetchPullRequest(s) PROVE DoneFits'
    <2>1. KeepsDone(s)
      <3>1. PICK goal : Goto(s, "moving", goal)
        BY <1>7 DEF FetchPullRequest
      <3>2. Frame(s) /\ UNCHANGED <<status, mishap>> /\ Owning(s)
        BY <1>7, <3>1, GotoFrame DEF FetchPullRequest, storeVars
      <3> QED
        BY <3>2
    <2> QED
      BY <2>1
  <1>8. ASSUME NEW s \in Slots, LockRow(s) PROVE DoneFits'
    <2>1. KeepsDone(s)
      BY <1>8, GotoFrame, RaiseFrame DEF LockRow, Frame
    <2> QED
      BY <2>1
  <1>9. ASSUME NEW s \in Slots, MoveRow(s) PROVE DoneFits'
    <2>1. KeepsDone(s)
      <3>1. /\ Frame(s) /\ UNCHANGED mishap /\ Owning(s)
            /\ target[s] = "running" \/ ~Owning(s)'
        BY <1>9, GotoFrame, RetireFrame DEF MoveRow
      <3>2. \A k \in Keys : status'[k] = IF k = KeyOf(s) THEN target[s] ELSE status[k]
        BY <1>9, RowEffect DEF MoveRow
      <3> QED
        BY <3>1, <3>2
    <2> QED
      BY <2>1
  <1>10. ASSUME NEW s \in Slots, Fetch(s) PROVE DoneFits'
    <2>1. KeepsDone(s)
      BY <1>10, GotoFrame DEF Fetch, storeVars, Frame
    <2> QED
      BY <2>1
  <1>11. ASSUME NEW s \in Slots, RecordPart(s) PROVE DoneFits'
    <2>1. KeepsDone(s)
      BY <1>11, ContinueFrame, RowEffect DEF RecordPart, Frame
    <2> QED
      BY <2>1
  <1>12. ASSUME NEW s \in Slots, NothingToRecord(s) PROVE DoneFits'
    <2>1. KeepsDone(s)
      BY <1>12, ContinueFrame DEF NothingToRecord, storeVars, Frame
    <2> QED
      BY <2>1
  <1>13. ASSUME NEW s \in Slots, RemoteFault(s) PROVE DoneFits'
    <2>1. KeepsDone(s)
      BY <1>13, RaiseFrame DEF RemoteFault, storeVars, Frame
    <2> QED
      BY <2>1
  <1>14. ASSUME NEW s \in Slots, StoreFault(s) PROVE DoneFits'
    <2>1. \A k \in Keys : mishap[k] \subseteq mishap'[k]
      BY <1>14, MeetGrows DEF StoreFault
    <2>2. Frame(s) /\ UNCHANGED status /\ (Owning(s)' => Owning(s))
      BY <1>14, StoreRaisedFrame, StoreFaultEffect
    <2>3. KeepsDone(s)
      BY <2>1, <2>2
    <2> QED
      BY <2>3
  <1>15. ASSUME NEW s \in Slots, LostAnswer(s) PROVE DoneFits'
    <2>1. /\ \A k \in Keys : mishap[k] \subseteq mishap'[k]
          /\ pc[s] = "locked" /\ target[s] = "summarized" =>
               "unheard summary" \in mishap'[KeyOf(s)]
      BY <1>15, MeetGrows DEF LostAnswer
    <2>2. Frame(s) /\ Owning(s)
      BY <1>15, StoreRaisedFrame, LostAnswerEffect
    <2>3. \A k \in Keys : status'[k] = "summarized" /\ status[k] # "summarized" =>
            k = KeyOf(s) /\ pc[s] = "locked" /\ target[s] = "summarized"
      <3>1. CASE pc[s] = "inserted" /\ CommitRow(s)
        BY <3>1, RowEffect
      <3>2. CASE pc[s] = "locked" /\ CommitMove(s)
        <4>1. \A k \in Keys : status'[k] = IF k = KeyOf(s) THEN target[s] ELSE status[k]
          BY <3>2, RowEffect
        <4> QED
          BY <3>2, <4>1
      <3>3. CASE pc[s] \in Parts /\ CommitPart(s)
        BY <3>3, RowEffect
      <3> QED
        BY <1>15, <3>1, <3>2, <3>3, LostAnswerEffect
    <2>4. KeepsDone(s)
      BY <2>1, <2>2, <2>3
    <2> QED
      BY <2>4
  <1>16. ASSUME Restart PROVE DoneFits'
    BY <1>16 DEF Restart, DoneFits
  <1>17. ASSUME NEW p \in PullRequests, Hide(p) PROVE DoneFits'
    BY <1>17 DEF Hide, slotVars, storeVars, KeyOf, DoneFits
  <1>18. ASSUME NEW p \in PullRequests, NEW h \in Heads, Push(p, h) PROVE DoneFits'
    BY <1>18 DEF Push, slotVars, storeVars, KeyOf, DoneFits
  <1>19. CASE UNCHANGED vars
    BY <1>19 DEF vars, slotVars, storeVars, KeyOf, DoneFits
  <1> QED
    BY <1>1, <1>2, <1>3, <1>4, <1>5, <1>6, <1>7, <1>8, <1>9, <1>10, <1>11, <1>12, <1>13,
       <1>14, <1>15, <1>16, <1>17, <1>18, <1>19 DEF Next, SlotStep

\* Whatever fails and is redelivered, a finished review is turned into a failure only
\* when the answer to the commit that finished it was lost (intake._fail).
THEOREM DoneStaysDone == Spec => DoneIsNotFailed
  <1>1. Init => DoneFits
    BY DEF Init, DoneFits, Owning
  <1>2. IInv /\ DoneFits /\ [Next]_vars =>
          [\A k \in Keys : status[k] = "summarized" /\ status'[k] # "summarized"
                           => "unheard summary" \in mishap[k]]_vars
    <2> SUFFICES ASSUME IInv, DoneFits, Next, NEW k \in Keys,
                        status[k] = "summarized", status'[k] # "summarized"
                 PROVE  "unheard summary" \in mishap[k]
      OBVIOUS
    <2>0. TypeOK /\ StepFits
      BY DEF IInv
    <2>1. PICK s \in Slots : (pc[s] = "inserted" /\ CommitRow(s))
                              \/ (pc[s] = "locked" /\ CommitMove(s))
      <3>1. ASSUME NEW s \in Slots,
                   \/ \E e \in Events : Receive(s, e)
                   \/ InsertRun(s) \/ FindRun(s) \/ AnswerAccepted(s) \/ Begin(s)
                   \/ FetchPullRequest(s) \/ LockRow(s) \/ Fetch(s) \/ NothingToRecord(s)
                   \/ RemoteFault(s) \/ StoreFault(s) \/ RecordPart(s)
            PROVE  UNCHANGED status
        BY <3>1 DEF Receive, InsertRun, FindRun, AnswerAccepted, Begin, FetchPullRequest, LockRow,
                    Fetch, NothingToRecord, RemoteFault, StoreFault, RecordPart, CommitPart, storeVars
      <3>2. ASSUME \/ Restart
                   \/ \E p \in PullRequests : Hide(p) \/ \E h \in Heads : Push(p, h)
            PROVE  UNCHANGED status
        BY <3>2 DEF Restart, Hide, Push, storeVars
      <3>3. ASSUME NEW s \in Slots, CommitRun(s) \/ MoveRow(s) \/ LostAnswer(s), status' # status
            PROVE  \/ pc[s] = "inserted" /\ CommitRow(s)
                   \/ pc[s] = "locked" /\ CommitMove(s)
        BY <3>3 DEF CommitRun, MoveRow, LostAnswer, CommitPart
      <3> QED
        <4>1. PICK s \in Slots : CommitRun(s) \/ MoveRow(s) \/ LostAnswer(s)
          BY <3>1, <3>2 DEF Next, SlotStep
        <4>2. status' # status
          OBVIOUS
        <4> QED
          BY <4>1, <4>2, <3>3
    <2>2. k = KeyOf(s) /\ Owning(s)
      BY <2>0, <2>1, RowEffect DEF Owning
    <2> QED
      BY <2>2 DEF DoneFits
  <1> QED
    BY <1>1, <1>2, SpecIInv, StepDoneFits, PTL DEF Spec, DoneIsNotFailed

------------------------------------------------------------------------------
\* The evidence a summary needs, as far as a slot has come.
Backed(k) == "files" \in parts[k] /\ ("routing" \in parts[k] <=> review)

SummaryFits ==
  /\ \A s \in Slots :
       /\ pc[s] \in {"gathering", "routing"} => review /\ "files" \in parts[KeyOf(s)]
       /\ pc[s] \in {"tools", "findings"} =>
            review /\ "files" \in parts[KeyOf(s)] /\ "routing" \in parts[KeyOf(s)]
       /\ pc[s] \in {"moving", "locked"} /\ target[s] = "summarized" => Backed(KeyOf(s))
  /\ \A k \in Keys : status[k] = "summarized" => Backed(k)

\* Evidence is complete before the move to summarized.
LEMMA StepSummaryFits == IInv /\ SummaryFits /\ [Next]_vars => SummaryFits'
  <1> SUFFICES ASSUME IInv, SummaryFits, [Next]_vars PROVE SummaryFits'
    OBVIOUS
  <1>0. TypeOK /\ OneExecutor /\ StepFits /\ PartsFit
    BY DEF IInv
  <1> USE <1>0, Moves DEF SummaryFits, Backed, OneExecutor, Owning, StepFits, PartsFit, Parts
  <1>1. ASSUME NEW s \in Slots, NEW e \in Events, Receive(s, e) PROVE SummaryFits'
    BY <1>1, ReceiveFrame DEF Receive, githubVars
  <1>2. ASSUME NEW s \in Slots, InsertRun(s) PROVE SummaryFits'
    BY <1>2, GotoFrame, RowEffect DEF InsertRun, Frame, githubVars, counters
  <1>3. ASSUME NEW s \in Slots, FindRun(s) PROVE SummaryFits'
    BY <1>3, RetireFrame DEF FindRun, storeVars, Frame, githubVars, counters
  <1>4. ASSUME NEW s \in Slots, CommitRun(s) PROVE SummaryFits'
    BY <1>4, GotoFrame, RowEffect DEF CommitRun, Frame, githubVars, counters
  <1>5. ASSUME NEW s \in Slots, AnswerAccepted(s) PROVE SummaryFits'
    BY <1>5, GotoFrame DEF AnswerAccepted, storeVars, Frame, githubVars, counters
  <1>6. ASSUME NEW s \in Slots, Begin(s) PROVE SummaryFits'
    BY <1>6, GotoFrame, RetireFrame DEF Begin, storeVars, Frame, githubVars, counters
  <1>7. ASSUME NEW s \in Slots, FetchPullRequest(s) PROVE SummaryFits'
    BY <1>7, GotoFrame DEF FetchPullRequest, Goal, storeVars, Frame, githubVars, counters
  <1>8. ASSUME NEW s \in Slots, LockRow(s) PROVE SummaryFits'
    BY <1>8, GotoFrame, RaiseFrame, RowEffect DEF LockRow, Frame, githubVars, counters
  <1>9. ASSUME NEW s \in Slots, MoveRow(s) PROVE SummaryFits'
    BY <1>9, GotoFrame, RetireFrame, RowEffect DEF MoveRow, Frame, githubVars, counters
  <1>10. ASSUME NEW s \in Slots, Fetch(s) PROVE SummaryFits'
    BY <1>10, GotoFrame DEF Fetch, storeVars, Frame, githubVars, counters
  <1>11. ASSUME NEW s \in Slots, RecordPart(s) PROVE SummaryFits'
    <2>1. /\ Frame(s) /\ pc[s] \in Parts /\ UNCHANGED review
          /\ \A k \in Keys : status'[k] = status[k] /\ (k # KeyOf(s) => parts'[k] = parts[k])
          /\ parts'[KeyOf(s)] = parts[KeyOf(s)] \cup {pc[s]}
      BY <1>11, ContinueFrame, RowEffect DEF RecordPart, githubVars
    <2>2. \A t \in Slots \ {s} : Owning(t) => KeyOf(t) # KeyOf(s) /\ KeyOf(t) \in Keys
      BY <2>1 DEF Frame
    <2>3. \A t \in Slots \ {s} : Owning(t) => parts'[KeyOf(t)'] = parts[KeyOf(t)]
      BY <2>1, <2>2 DEF Frame
    <2>4. \A k \in Keys : status'[k] = "summarized" => Backed(k)'
      BY <2>1
    <2>5. pc[s] = "files" /\ pc'[s] = "moving" => ~review
      BY <1>11, GotoFrame DEF RecordPart, Continue, After
    <2>6. pc[s] = "files" /\ pc'[s] = "gathering" => review
      BY <1>11, GotoFrame DEF RecordPart, Continue, After
    <2>7. pc'[s] # "idle" => KeyOf(s)' = KeyOf(s)
      BY <2>1 DEF Frame
    <2>8. /\ pc'[s] \in {"gathering", "routing"} => review' /\ "files" \in parts'[KeyOf(s)']
          /\ pc'[s] \in {"tools", "findings"} =>
               review' /\ "files" \in parts'[KeyOf(s)'] /\ "routing" \in parts'[KeyOf(s)']
          /\ pc'[s] \in {"moving", "locked"} /\ target'[s] = "summarized" => Backed(KeyOf(s))'
      BY <1>11, <2>1, <2>5, <2>6, <2>7, ContinueFrame DEF RecordPart
    <2> QED
      BY <2>1, <2>3, <2>4, <2>8 DEF Frame
  <1>12. ASSUME NEW s \in Slots, NothingToRecord(s) PROVE SummaryFits'
    BY <1>12, ContinueFrame DEF NothingToRecord, storeVars, Frame, githubVars, counters
  <1>13. ASSUME NEW s \in Slots, RemoteFault(s) PROVE SummaryFits'
    BY <1>13, RaiseFrame DEF RemoteFault, storeVars, Frame, githubVars, counters
  <1>14. ASSUME NEW s \in Slots, StoreFault(s) PROVE SummaryFits'
    BY <1>14, StoreRaisedFrame, StoreFaultEffect DEF Frame
  <1>15. ASSUME NEW s \in Slots, LostAnswer(s) PROVE SummaryFits'
    BY <1>15, StoreRaisedFrame, RowEffect, LostAnswerEffect DEF Frame
  <1>16. ASSUME Restart PROVE SummaryFits'
    BY <1>16 DEF Restart, githubVars
  <1>17. ASSUME NEW p \in PullRequests, Hide(p) PROVE SummaryFits'
    BY <1>17 DEF Hide, slotVars, storeVars, KeyOf
  <1>18. ASSUME NEW p \in PullRequests, NEW h \in Heads, Push(p, h) PROVE SummaryFits'
    BY <1>18 DEF Push, slotVars, storeVars, KeyOf
  <1>19. CASE UNCHANGED vars
    BY <1>19 DEF vars, slotVars, storeVars, githubVars, counters, KeyOf
  <1> QED
    BY <1>1, <1>2, <1>3, <1>4, <1>5, <1>6, <1>7, <1>8, <1>9, <1>10, <1>11, <1>12, <1>13,
       <1>14, <1>15, <1>16, <1>17, <1>18, <1>19 DEF Next, SlotStep

\* A summary rests on the evidence the deployment's settings call for, in every
\* interleaving (intake._execute).
THEOREM SummaryHasEvidence == Spec => []SummaryIsBacked
  <1>1. Init => SummaryFits
    BY DEF Init, SummaryFits, Absent
  <1>2. SummaryFits => SummaryIsBacked
    BY DEF SummaryFits, SummaryIsBacked, Backed
  <1> QED
    BY <1>1, <1>2, SpecIInv, StepSummaryFits, PTL DEF Spec

------------------------------------------------------------------------------
\* The pull request of a key moved on, or was hidden, at some time.
Moved(k) == hidden[k[1]] \/ head[k[1]] # k[2] \/ moves > 0

SkipFits ==
  /\ \A s \in Slots : pc[s] \in {"moving", "locked"} /\ target[s] = "skipped" => Moved(KeyOf(s))
  /\ \A k \in Keys : status[k] = "skipped" => Moved(k)

LEMMA MovedStays ==
  ASSUME TypeOK, [Next]_vars, NEW k, Moved(k)
  PROVE  Moved(k)'
  <1>1. ASSUME NEW s \in Slots, SlotStep(s) \/ StoreFault(s) \/ LostAnswer(s)
               \/ \E e \in Events : Receive(s, e)
        PROVE  UNCHANGED <<hidden, head, moves>>
    BY <1>1 DEF SlotStep, Receive, InsertRun, FindRun, CommitRun, AnswerAccepted, Begin,
                FetchPullRequest, LockRow, MoveRow, Fetch, RecordPart, NothingToRecord,
                RemoteFault, StoreFault, LostAnswer, githubVars, counters
  <1>2. ASSUME \E p \in PullRequests : Hide(p) \/ \E h \in Heads : Push(p, h)
        PROVE  moves' > 0
    BY <1>2 DEF Hide, Push, TypeOK
  <1>3. ASSUME Restart \/ UNCHANGED vars
        PROVE  UNCHANGED <<hidden, head, moves>>
    BY <1>3 DEF Restart, vars, githubVars, counters
  <1> QED
    BY <1>1, <1>2, <1>3 DEF Moved, Next

\* A run is moved to skipped for a reason that lasts.
LEMMA StepSkipFits == IInv /\ SkipFits /\ [Next]_vars => SkipFits'
  <1> SUFFICES ASSUME IInv, SkipFits, [Next]_vars PROVE SkipFits'
    OBVIOUS
  <1>0. TypeOK /\ OneExecutor /\ StepFits /\ PartsFit
    BY DEF IInv
  <1>m. \A k : Moved(k) => Moved(k)'
    BY <1>0, MovedStays
  <1> USE <1>0, <1>m, Moves DEF SkipFits, StepFits, Parts
  <1>1. ASSUME NEW s \in Slots, NEW e \in Events, Receive(s, e) PROVE SkipFits'
    BY <1>1, ReceiveFrame DEF Receive, githubVars
  <1>2. ASSUME NEW s \in Slots, InsertRun(s) PROVE SkipFits'
    BY <1>2, GotoFrame, RowEffect DEF InsertRun, Frame, githubVars, counters
  <1>3. ASSUME NEW s \in Slots, FindRun(s) PROVE SkipFits'
    BY <1>3, RetireFrame DEF FindRun, storeVars, Frame, githubVars, counters
  <1>4. ASSUME NEW s \in Slots, CommitRun(s) PROVE SkipFits'
    BY <1>4, GotoFrame, RowEffect DEF CommitRun, Frame, githubVars, counters
  <1>5. ASSUME NEW s \in Slots, AnswerAccepted(s) PROVE SkipFits'
    BY <1>5, GotoFrame DEF AnswerAccepted, storeVars, Frame, githubVars, counters
  <1>6. ASSUME NEW s \in Slots, Begin(s) PROVE SkipFits'
    BY <1>6, GotoFrame, RetireFrame DEF Begin, storeVars, Frame, githubVars, counters
  <1>7. ASSUME NEW s \in Slots, FetchPullRequest(s) PROVE SkipFits'
    <2>1. Goal(event[s], head[event[s].pr], hidden[event[s].pr]) = "skipped" => Moved(KeyOf(s))
      BY DEF Goal, Moved, KeyOf, Key
    <2> QED
      BY <1>7, <2>1, GotoFrame DEF FetchPullRequest, storeVars, Frame
  <1>8. ASSUME NEW s \in Slots, LockRow(s) PROVE SkipFits'
    BY <1>8, GotoFrame, RaiseFrame, RowEffect DEF LockRow, Frame, githubVars, counters
  <1>9. ASSUME NEW s \in Slots, MoveRow(s) PROVE SkipFits'
    BY <1>9, GotoFrame, RetireFrame, RowEffect DEF MoveRow, Frame, githubVars, counters
  <1>10. ASSUME NEW s \in Slots, Fetch(s) PROVE SkipFits'
    BY <1>10, GotoFrame DEF Fetch, storeVars, Frame, githubVars, counters
  <1>11. ASSUME NEW s \in Slots, RecordPart(s) PROVE SkipFits'
    BY <1>11, ContinueFrame, RowEffect DEF RecordPart, Frame, githubVars, counters
  <1>12. ASSUME NEW s \in Slots, NothingToRecord(s) PROVE SkipFits'
    BY <1>12, ContinueFrame DEF NothingToRecord, storeVars, Frame, githubVars, counters
  <1>13. ASSUME NEW s \in Slots, RemoteFault(s) PROVE SkipFits'
    BY <1>13, RaiseFrame DEF RemoteFault, storeVars, Frame, githubVars, counters
  <1>14. ASSUME NEW s \in Slots, StoreFault(s) PROVE SkipFits'
    BY <1>14, StoreRaisedFrame, StoreFaultEffect DEF Frame
  <1>15. ASSUME NEW s \in Slots, LostAnswer(s) PROVE SkipFits'
    BY <1>15, StoreRaisedFrame, RowEffect, LostAnswerEffect DEF Frame
  <1>16. ASSUME Restart PROVE SkipFits'
    BY <1>16 DEF Restart, githubVars
  <1>17. ASSUME NEW p \in PullRequests, Hide(p) PROVE SkipFits'
    BY <1>17 DEF Hide, slotVars, storeVars, KeyOf
  <1>18. ASSUME NEW p \in PullRequests, NEW h \in Heads, Push(p, h) PROVE SkipFits'
    BY <1>18 DEF Push, slotVars, storeVars, KeyOf
  <1>19. CASE UNCHANGED vars
    BY <1>19 DEF vars, slotVars, storeVars, githubVars, counters, KeyOf
  <1> QED
    BY <1>1, <1>2, <1>3, <1>4, <1>5, <1>6, <1>7, <1>8, <1>9, <1>10, <1>11, <1>12, <1>13,
       <1>14, <1>15, <1>16, <1>17, <1>18, <1>19 DEF Next, SlotStep

\* An event that is current when it arrives and stays so is never skipped
\* (intake._execute).
THEOREM SkipHasReason == Spec => []SkipNeedsMove
  <1>1. Init => SkipFits
    BY DEF Init, SkipFits, Absent
  <1>2. SkipFits => SkipNeedsMove
    BY EventParts DEF SkipFits, SkipNeedsMove, Moved, Key
  <1> QED
    BY <1>1, <1>2, SpecIInv, StepSkipFits, PTL DEF Spec

------------------------------------------------------------------------------
\* Every step of the intake is a step of the ledger, or leaves it alone.
LEMMA StepRefines == IInv /\ [Next]_vars => [Ledger!LedgerNext]_(Ledger!ledgerVars)
  <1> SUFFICES ASSUME IInv, [Next]_vars PROVE [Ledger!LedgerNext]_(Ledger!ledgerVars)
    OBVIOUS
  <1>0. TypeOK /\ StepFits /\ PartsFit
    BY DEF IInv
  <1> USE <1>0 DEF Ledger!ledgerVars, storeVars
  <1>k. \A s \in Slots : KeyOf(s) \in Keys
    BY EventParts DEF TypeOK, KeyOf
  <1>1. ASSUME NEW s \in Slots, pc[s] = "inserted", CommitRow(s)
        PROVE  Ledger!Create(KeyOf(s))
    BY <1>1 DEF CommitRow, StepFits, Ledger!Create, Ledger!Absent, Absent
  <1>2. ASSUME NEW s \in Slots, pc[s] = "locked", CommitMove(s)
        PROVE  Ledger!Move(KeyOf(s), target[s]) /\ target[s] \in Statuses
    BY <1>2 DEF CommitMove, StepFits, Ledger!Move, Ledger!CanTransition, CanTransition,
                Ledger!Transitions, Transitions, TypeOK
  <1>3. ASSUME NEW s \in Slots, pc[s] \in Parts, CommitPart(s)
        PROVE  Ledger!Record(KeyOf(s), pc[s])
    BY <1>3 DEF CommitPart, StepFits, PartsFit, Parts, Ledger!Record
  <1>4. ASSUME NEW s \in Slots,
               \/ pc[s] = "inserted" /\ CommitRow(s)
               \/ pc[s] = "locked" /\ CommitMove(s)
               \/ pc[s] \in Parts /\ CommitPart(s)
        PROVE  Ledger!LedgerNext
    BY <1>1, <1>2, <1>3, <1>4, <1>k DEF Ledger!LedgerNext, Ledger!Statuses, Statuses, Ledger!Parts, Parts
  <1>5. ASSUME NEW s \in Slots, CommitRun(s) \/ MoveRow(s) \/ RecordPart(s) \/ LostAnswer(s)
        PROVE  Ledger!LedgerNext
    BY <1>4, <1>5 DEF CommitRun, MoveRow, RecordPart, LostAnswer
  <1>6. ASSUME NEW s \in Slots,
               \/ \E e \in Events : Receive(s, e)
               \/ InsertRun(s) \/ FindRun(s) \/ AnswerAccepted(s) \/ Begin(s)
               \/ FetchPullRequest(s) \/ LockRow(s) \/ Fetch(s) \/ NothingToRecord(s)
               \/ RemoteFault(s) \/ StoreFault(s)
        PROVE  UNCHANGED <<status, parts>>
    BY <1>6 DEF Receive, InsertRun, FindRun, AnswerAccepted, Begin, FetchPullRequest, LockRow,
                Fetch, NothingToRecord, RemoteFault, StoreFault
  <1>7. ASSUME \/ Restart \/ UNCHANGED vars
               \/ \E p \in PullRequests : Hide(p) \/ \E h \in Heads : Push(p, h)
        PROVE  UNCHANGED <<status, parts>>
    BY <1>7 DEF Restart, Hide, Push, vars
  <1> QED
    BY <1>5, <1>6, <1>7 DEF Next, SlotStep

\* The intake keeps the ledger's promises, with every fault and restart allowed.
THEOREM IntakeImplementsLedger == Spec => ImplementsLedger
  <1>1. Init => Ledger!LedgerInit
    BY DEF Init, Ledger!LedgerInit, Ledger!Absent, Absent
  <1> QED
    BY <1>1, SpecIInv, StepRefines, PTL DEF Spec, ImplementsLedger, Ledger!LedgerSpec
==============================================================================
