----------------------------- MODULE PatchParser -----------------------------
(***************************************************************************)
(* The strict unified-diff parser (diff.parse_patch), reading a patch line *)
(* by line while git writes it.  What git means is kept beside what the    *)
(* parser makes of it: the lines the pull request really adds and removes. *)
(*                                                                         *)
(* The parser may see other lines than git wrote: str.splitlines also      *)
(* splits at a form feed or a line separator inside a source line, so the  *)
(* rest of such a line is read as a diff line of its own, a hunk header    *)
(* among them; and a stored patch may have been cut short.                 *)
(***************************************************************************)
EXTENDS Naturals, Sequences

CONSTANTS
  MaxCount,               \* bound: old or new lines of a hunk
  MaxGap,                 \* bound: unchanged lines git leaves out before a hunk
  MaxHunks, MaxSplits,    \* bounds: hunks git writes, remainders of split lines
  MaxStart                \* bound: where a hunk header in a source line says it starts

ASSUME BoundsAreNaturals == {MaxCount, MaxGap, MaxHunks, MaxSplits, MaxStart} \subseteq Nat

VARIABLES
  verdict,                \* "reading", "parsed", or "rejected": DiffParseError
  open,                   \* a header was matched
  header,                 \* the numbers of the matched header
  old, new,               \* old_cursor, new_cursor
  added, removed,         \* the open hunk's added_new_lines, removed_old_lines
  changed, dropped,       \* the same of the hunks closed so far
  \* What git means:
  gitOld, gitNew,         \* the next line of the old and of the new file
  leftOld, leftNew,       \* lines of the hunk git has still to write
  gitAdded, gitRemoved,   \* lines of the open hunk it has written
  gitChanged, gitDropped, \* lines of the whole patch it has written
  written,                \* headers it has written
  \* What is not git's:
  splits, forged, cut     \* remainders read, one of them as a header; patch cut short

parserVars == <<verdict, open, header, old, new, added, removed, changed, dropped>>
gitVars == <<gitOld, gitNew, leftOld, leftNew, gitAdded, gitRemoved, gitChanged, gitDropped,
             written>>
patchVars == <<parserVars, gitVars, splits, forged, cut>>

Headers == [oldStart : Nat, oldCount : Nat, newStart : Nat, newCount : Nat]

PatchTypeOK ==
  /\ verdict \in {"reading", "parsed", "rejected"}
  /\ open \in BOOLEAN /\ header \in Headers
  /\ old \in Nat /\ new \in Nat
  /\ added \subseteq Nat /\ removed \subseteq Nat
  /\ changed \subseteq Nat /\ dropped \subseteq Nat
  /\ gitOld \in Nat \ {0} /\ gitNew \in Nat \ {0}
  /\ leftOld \in Nat /\ leftNew \in Nat
  /\ gitAdded \subseteq Nat /\ gitRemoved \subseteq Nat
  /\ gitChanged \subseteq Nat /\ gitDropped \subseteq Nat
  /\ written \in Nat /\ splits \in Nat /\ forged \in BOOLEAN /\ cut \in BOOLEAN

PatchInit ==
  /\ verdict = "reading" /\ open = FALSE
  /\ header = [oldStart |-> 0, oldCount |-> 0, newStart |-> 0, newCount |-> 0]
  /\ old = 0 /\ new = 0
  /\ added = {} /\ removed = {} /\ changed = {} /\ dropped = {}
  /\ gitOld = 1 /\ gitNew = 1 /\ leftOld = 0 /\ leftNew = 0
  /\ gitAdded = {} /\ gitRemoved = {} /\ gitChanged = {} /\ gitDropped = {}
  /\ written = 0 /\ splits = 0 /\ forged = FALSE /\ cut = FALSE

------------------------------------------------------------------------------
\* Slip: the new lines are not compared.
FitsOldOnly == old = header.oldStart + header.oldCount

\* close: does the body agree with its header?  Nothing to close before the first.
Fits ==
  /\ old = header.oldStart + header.oldCount
  /\ new = header.newStart + header.newCount

\* The hunk is kept.
Keep ==
  /\ changed' = IF open THEN changed \cup added ELSE changed
  /\ dropped' = IF open THEN dropped \cup removed ELSE dropped

Reject ==
  /\ verdict' = "rejected"
  /\ UNCHANGED <<open, header, old, new, added, removed, changed, dropped>>

\* A count git leaves out is 1 (`int(match.group("new_count") or 1)`), and git
\* leaves out a count of 1.
Text(count) == IF count = 1 THEN <<>> ELSE <<count>>

\* Slip: an omitted count is none.
CountZero(text) == IF text = <<>> THEN 0 ELSE text[1]

Count(text) == IF text = <<>> THEN 1 ELSE text[1]

\* The first line of a side of a hunk, as git writes it: of a side that has no
\* line in the hunk, the line before.
Start(first, count) == IF count = 0 THEN first - 1 ELSE first

\* The parser reads a line that matches _HUNK_HEADER: the open hunk is closed.
Open(found) ==
  IF open /\ ~Fits THEN Reject ELSE
  /\ Keep
  /\ open' = TRUE /\ header' = found
  /\ old' = found.oldStart /\ new' = found.newStart
  /\ added' = {} /\ removed' = {}
  /\ UNCHANGED verdict

\* A hunk header that follows a hunk git is done with: its first lines are `gap`
\* unchanged lines further on, and it declares oc old and nc new lines.
Header(gap, oc, nc) ==
  /\ verdict = "reading" /\ leftOld = 0 /\ leftNew = 0 /\ written < MaxHunks
  /\ oc + nc > 0
  /\ written' = written + 1
  /\ gitOld' = gitOld + gap /\ gitNew' = gitNew + gap
  /\ leftOld' = oc /\ leftNew' = nc
  /\ gitAdded' = {} /\ gitRemoved' = {}
  /\ Open([oldStart |-> Start(gitOld + gap, oc), oldCount |-> Count(Text(oc)),
           newStart |-> Start(gitNew + gap, nc), newCount |-> Count(Text(nc))])
  /\ UNCHANGED <<gitChanged, gitDropped, splits, forged, cut>>

\* The parser reads a line of a hunk, by its first character; a bare empty line
\* is context, and "\ No newline at end of file" counts for nothing.
Read(kind) ==
  IF kind = "junk" THEN Reject ELSE
  /\ old' = IF kind \in {"context", "removed"} THEN old + 1 ELSE old
  /\ new' = IF kind \in {"context", "added"} THEN new + 1 ELSE new
  /\ added' = IF kind = "added" THEN added \cup {new} ELSE added
  /\ removed' = IF kind = "removed" THEN removed \cup {old} ELSE removed
  /\ UNCHANGED <<verdict, open, header, changed, dropped>>

\* A line git writes into the hunk.
Body(kind) ==
  /\ verdict = "reading"
  /\ kind \in {"context", "removed"} => leftOld > 0
  /\ kind \in {"context", "added"} => leftNew > 0
  /\ IF kind \in {"context", "removed"}
       THEN gitOld' = gitOld + 1 /\ leftOld' = leftOld - 1
       ELSE UNCHANGED <<gitOld, leftOld>>
  /\ IF kind \in {"context", "added"}
       THEN gitNew' = gitNew + 1 /\ leftNew' = leftNew - 1
       ELSE UNCHANGED <<gitNew, leftNew>>
  /\ IF kind = "added"
       THEN gitAdded' = gitAdded \cup {gitNew} /\ gitChanged' = gitChanged \cup {gitNew}
       ELSE UNCHANGED <<gitAdded, gitChanged>>
  /\ IF kind = "removed"
       THEN gitRemoved' = gitRemoved \cup {gitOld} /\ gitDropped' = gitDropped \cup {gitOld}
       ELSE UNCHANGED <<gitRemoved, gitDropped>>
  /\ Read(kind)
  /\ UNCHANGED <<written, splits, forged, cut>>

\* git's note on the last line of a file.
Note ==
  /\ verdict = "reading" /\ written > 0
  /\ Read("note")
  /\ UNCHANGED <<gitVars, splits, forged, cut>>

\* The rest of a source line that was split: it may begin like any line of a
\* hunk, or like none.
Rest(kind) ==
  /\ verdict = "reading" /\ written > 0 /\ splits < MaxSplits
  /\ splits' = splits + 1
  /\ Read(kind)
  /\ UNCHANGED <<gitVars, forged, cut>>

\* Or it is a hunk header, of any numbers.
RestHeader(found) ==
  /\ verdict = "reading" /\ written > 0 /\ splits < MaxSplits
  /\ splits' = splits + 1 /\ forged' = TRUE
  /\ Open(found)
  /\ UNCHANGED <<gitVars, cut>>

\* Slip: the last hunk is kept as it is when the patch ends.
EndUnchecked ==
  /\ verdict = "reading"
  /\ cut' = (leftOld + leftNew > 0)
  /\ Keep
  /\ verdict' = "parsed"
  /\ UNCHANGED <<open, header, old, new, added, removed, gitVars, splits, forged>>

\* The patch ends, with its last hunk or anywhere.
End ==
  /\ verdict = "reading"
  /\ cut' = (leftOld + leftNew > 0)
  /\ IF open /\ ~Fits
       THEN Reject
       ELSE /\ Keep
            /\ verdict' = "parsed"
            /\ UNCHANGED <<open, header, old, new, added, removed>>
  /\ UNCHANGED <<gitVars, splits, forged>>

PatchNext ==
  \/ \E gap \in 0..MaxGap, oc, nc \in 0..MaxCount : Header(gap, oc, nc)
  \/ \E kind \in {"context", "added", "removed"} : Body(kind)
  \/ \E kind \in {"context", "added", "removed", "note", "junk"} : Rest(kind)
  \/ \E oldStart, newStart \in 0..MaxStart, oc, nc \in 0..MaxCount :
       RestHeader([oldStart |-> oldStart, oldCount |-> oc, newStart |-> newStart, newCount |-> nc])
  \/ Note
  \/ End

PatchSpec == PatchInit /\ [][PatchNext]_patchVars

------------------------------------------------------------------------------
\* The parser's added and removed lines are those of the pull request.
Mapped == changed = gitChanged /\ dropped = gitDropped

\* A patch git wrote to its end is mapped right or rejected, however many of its
\* lines were split, unless one remainder reads as a hunk header and another one
\* is read beside it: the strict counts turn every other split into a refusal
\* (close).
MappedUnlessForged == verdict = "parsed" /\ ~cut /\ (forged => splits = 1) => Mapped

\* The strictness costs nothing: every patch git writes is accepted, however its
\* hunks lie and whatever counts its headers leave out (parse_patch).
WholeIsParsed == verdict = "rejected" => splits > 0 \/ cut

\* A patch cut inside a hunk is taken for a whole one only if remainders stand in
\* for all the lines that are missing, on either side; one without a split line is
\* always rejected (close).
CutNeedsSplits == verdict = "parsed" => leftOld <= splits /\ leftNew <= splits

\* What the module promises: a patch git wrote to its end is mapped right or
\* rejected (diff.py, "a silently mis-mapped line number is exactly the failure this
\* module exists to prevent").
MappedOrRejected == verdict = "parsed" /\ ~cut => Mapped
==============================================================================
