----------------------------- MODULE ReviewProofs -----------------------------
(***************************************************************************)
(* A review of a pull request: the diff parser maps a patch or rejects it, *)
(* for patches of any length, hunks of any size and any number of split    *)
(* lines; and the review graph keeps its promises for every pull request,  *)
(* every draft the model may make and every file budget.                   *)
(***************************************************************************)
EXTENDS PatchParser, ReviewGraph, SumProofs

(***************************************************************************)
(* The diff parser.                                                        *)
(***************************************************************************)

\* What a side's cursor is worth: it has come at least as far as git has written
\* the side, and no further only if no split line was counted into it; then the
\* lines noted are git's, and the next one will be.
NewSide ==
  /\ new + leftNew >= header.newStart + header.newCount
  /\ new + leftNew = header.newStart + header.newCount =>
       added = gitAdded /\ (leftNew > 0 => new = gitNew)

OldSide ==
  /\ old + leftOld >= header.oldStart + header.oldCount
  /\ old + leftOld = header.oldStart + header.oldCount =>
       removed = gitRemoved /\ (leftOld > 0 => old = gitOld)

\* Each remainder has brought a cursor one line further at most.
Ahead ==
  /\ new + leftNew <= header.newStart + header.newCount + splits
  /\ old + leftOld <= header.oldStart + header.oldCount + splits

\* Without a split line neither cursor has come too far.
Exact ==
  splits = 0 => /\ new + leftNew = header.newStart + header.newCount
                /\ old + leftOld = header.oldStart + header.oldCount

\* The closed hunks are mapped right.
ClosedMapped == gitChanged = changed \cup gitAdded /\ gitDropped = dropped \cup gitRemoved

\* The open hunk is git's.
Genuine == NewSide /\ OldSide /\ ClosedMapped

\* The open hunk is a remainder's, which no line can follow before it is closed.
Alien == forged /\ leftOld = 0 /\ leftNew = 0 /\ Mapped /\ added = {} /\ removed = {}

\* No remainder was read as a header, or nothing else was split.
Straight == forged => splits = 1

Reading ==
  /\ open <=> written > 0
  /\ forged => splits > 0
  /\ open => Ahead /\ Exact
  /\ open /\ Straight => Genuine \/ Alien
  /\ ~open => leftOld = 0 /\ leftNew = 0 /\ gitAdded = {} /\ gitRemoved = {} /\ ClosedMapped

Promises == MappedUnlessForged /\ WholeIsParsed /\ CutNeedsSplits

PatchInv ==
  /\ PatchTypeOK
  /\ verdict = "reading" => Reading /\ ~cut
  /\ Promises

\* While the patch is read nothing is promised yet.
LEMMA ReadingPromises == verdict = "reading" => Promises
  BY DEF Promises, MappedUnlessForged, WholeIsParsed, CutNeedsSplits

\* An omitted count is read as git meant it.
LEMMA CountIsRead == \A n \in Nat : Count(Text(n)) = n
  BY DEF Count, Text

\* Where a side of a hunk starts, and that its first line is the next of it.
LEMMA StartFits ==
  ASSUME NEW first \in Nat \ {0}, NEW count \in Nat
  PROVE  Start(first, count) \in Nat /\ (count > 0 => Start(first, count) = first)
  BY DEF Start

LEMMA PatchInitInvariant == PatchInit => PatchInv
  <1> SUFFICES ASSUME PatchInit PROVE PatchInv
    OBVIOUS
  <1>1. PatchTypeOK
    <2>1. header \in Headers /\ open \in BOOLEAN /\ forged \in BOOLEAN /\ cut \in BOOLEAN
      BY DEF PatchInit, Headers
    <2>2. 0 \in Nat /\ 1 \in Nat \ {0}
      OBVIOUS
    <2> QED
      BY <2>1, <2>2 DEF PatchInit, PatchTypeOK
  <1>2. ~open /\ ~forged /\ ClosedMapped
    BY DEF PatchInit, ClosedMapped
  <1>3. Reading /\ ~cut
    BY <1>2 DEF PatchInit, Reading
  <1>4. Promises
    BY ReadingPromises DEF PatchInit
  <1> QED
    BY <1>1, <1>3, <1>4 DEF PatchInv

\* A hunk that agrees with its header, and of which git has written all, is
\* mapped right.
LEMMA ClosedHunk ==
  ASSUME PatchTypeOK, Reading, Straight, leftOld = 0, leftNew = 0, ~open \/ Fits, Keep
  PROVE  changed' = gitChanged /\ dropped' = gitDropped
  <1>1. CASE open /\ Genuine
    <2>1. added = gitAdded /\ removed = gitRemoved
      BY <1>1 DEF PatchTypeOK, Headers, Fits, Genuine, NewSide, OldSide
    <2> QED
      BY <1>1, <2>1 DEF Genuine, ClosedMapped, Keep
  <1>2. CASE open /\ Alien
    BY <1>2 DEF Alien, Mapped, Keep
  <1>3. CASE ~open
    BY <1>3 DEF Reading, ClosedMapped, Keep
  <1> QED
    BY <1>1, <1>2, <1>3 DEF Reading

\* When no line was split and git has written all of a hunk, it fits its header.
LEMMA WholeHunkFits ==
  ASSUME PatchTypeOK, Reading, open, splits = 0
  PROVE  Fits <=> leftOld = 0 /\ leftNew = 0
  BY DEF PatchTypeOK, Headers, Reading, Exact, Fits

\* A hunk fits its header only if remainders stand in for all that git has left of it.
LEMMA FittingHunkNeedsSplits ==
  ASSUME PatchTypeOK, Reading, ~open \/ Fits
  PROVE  leftOld <= splits /\ leftNew <= splits
  <1>1. CASE open
    <2>1. Ahead /\ Fits
      BY <1>1 DEF Reading
    <2> QED
      BY <2>1 DEF PatchTypeOK, Headers, Ahead, Fits
  <1>2. CASE ~open
    BY <1>2 DEF PatchTypeOK, Reading
  <1> QED
    BY <1>1, <1>2

LEMMA Stutter == PatchInv /\ UNCHANGED patchVars => PatchInv'
  <1> SUFFICES ASSUME PatchInv, UNCHANGED patchVars PROVE PatchInv'
    OBVIOUS
  <1>1. UNCHANGED parserVars /\ UNCHANGED gitVars /\ UNCHANGED <<splits, forged, cut>>
    BY DEF patchVars
  <1>2. PatchTypeOK' /\ Promises'
    BY <1>1 DEF parserVars, gitVars, PatchInv, PatchTypeOK, Promises, MappedUnlessForged, Mapped,
                WholeIsParsed, CutNeedsSplits
  <1>3. Reading <=> Reading'
    BY <1>1 DEF parserVars, gitVars, Reading, Ahead, Exact, Straight, Genuine, Alien, Mapped, NewSide,
                OldSide, ClosedMapped
  <1> QED
    BY <1>1, <1>2, <1>3 DEF PatchInv, parserVars

\* What reading a line does to each side's invariant, without git writing one.
LEMMA RestKeepsReading ==
  ASSUME PatchTypeOK, Reading, written > 0, splits' = splits + 1, UNCHANGED forged,
         NEW kind \in {"context", "added", "removed", "note"},
         Read(kind), UNCHANGED gitVars
  PROVE  Reading'
  <1>1. open /\ open' /\ UNCHANGED <<header, changed, dropped>> /\ UNCHANGED gitVars
    BY DEF Reading, Read
  <1>2. /\ old' \in {old, old + 1} /\ new' \in {new, new + 1}
        /\ (new' = new => added' = added) /\ (old' = old => removed' = removed)
    BY DEF Read, PatchTypeOK
  <1>3. Exact' /\ Ahead'
    <2>1. Ahead
      BY <1>1 DEF Reading
    <2> QED
      BY <1>1, <1>2, <2>1 DEF Exact, Ahead, PatchTypeOK, Headers, gitVars
  <1>4. ASSUME Straight' PROVE Genuine'
    <2>1. ~forged
      BY <1>4 DEF Straight, Reading, PatchTypeOK
    <2>2. Genuine
      BY <1>1, <2>1 DEF Reading, Straight, Alien
    <2>3. new' = new \/ new' = new + 1
      BY <1>2
    <2>4. NewSide' /\ OldSide'
      BY <1>1, <1>2, <2>2, <2>3 DEF PatchTypeOK, Headers, Genuine, NewSide, OldSide, gitVars
    <2>5. ClosedMapped'
      BY <1>1, <2>2 DEF Genuine, ClosedMapped, gitVars
    <2> QED
      BY <2>4, <2>5 DEF Genuine
  <1>5. written' > 0 /\ splits' > 0
    BY <1>1 DEF PatchTypeOK, gitVars
  <1> QED
    BY <1>1, <1>3, <1>4, <1>5 DEF Reading

\* A header line opens a hunk, or the patch is rejected; a hunk that is rejected
\* has split lines in it, or git has not written it to its end.
LEMMA OpenStep ==
  ASSUME PatchTypeOK, Reading, verdict = "reading", NEW found \in Headers, Open(found)
  PROVE  \/ /\ verdict' = "rejected" /\ (splits > 0 \/ leftOld > 0 \/ leftNew > 0)
            /\ UNCHANGED <<open, header, old, new, added, removed, changed, dropped>>
         \/ /\ verdict' = "reading" /\ (~open \/ Fits) /\ Keep
            /\ open' = TRUE /\ header' = found
            /\ old' = found.oldStart /\ new' = found.newStart
            /\ added' = {} /\ removed' = {}
  <1>1. CASE open /\ ~Fits
    <2>1. splits > 0 \/ leftOld > 0 \/ leftNew > 0
      BY <1>1, WholeHunkFits DEF PatchTypeOK
    <2> QED
      BY <1>1, <2>1 DEF Open, Reject
  <1>2. CASE ~(open /\ ~Fits)
    BY <1>2 DEF Open
  <1> QED
    BY <1>1, <1>2

\* What the parser's variables are after a header line.
LEMMA OpenKeepsType ==
  ASSUME PatchTypeOK, Reading, verdict = "reading", NEW found \in Headers, Open(found)
  PROVE  /\ verdict' \in {"reading", "rejected"} /\ open' \in BOOLEAN /\ header' \in Headers
         /\ old' \in Nat /\ new' \in Nat /\ added' \subseteq Nat /\ removed' \subseteq Nat
         /\ changed' \subseteq Nat /\ dropped' \subseteq Nat
  <1>1. CASE verdict' = "rejected"
    <2>1. UNCHANGED <<open, header, old, new, added, removed, changed, dropped>>
      BY <1>1, OpenStep
    <2> QED
      BY <1>1, <2>1 DEF PatchTypeOK
  <1>2. CASE verdict' # "rejected"
    <2>1. /\ verdict' = "reading" /\ Keep /\ open' = TRUE /\ header' = found
          /\ old' = found.oldStart /\ new' = found.newStart
          /\ added' = {} /\ removed' = {}
      BY <1>2, OpenStep
    <2>2. changed' \subseteq Nat /\ dropped' \subseteq Nat
      BY <2>1 DEF Keep, PatchTypeOK
    <2> QED
      BY <2>1, <2>2 DEF Headers
  <1> QED
    BY <1>1, <1>2

LEMMA HeaderStep ==
  ASSUME PatchInv, NEW gap \in Nat, NEW oc \in Nat, NEW nc \in Nat, Header(gap, oc, nc)
  PROVE  PatchInv'
  <1> DEFINE first == gitOld + gap
             line == gitNew + gap
             found == [oldStart |-> Start(first, oc), oldCount |-> Count(Text(oc)),
                       newStart |-> Start(line, nc), newCount |-> Count(Text(nc))]
  <1>1. PatchTypeOK /\ Reading /\ ~cut /\ verdict = "reading" /\ leftOld = 0 /\ leftNew = 0
    BY DEF PatchInv, Header
  <1>2. /\ UNCHANGED <<gitChanged, gitDropped, splits, forged, cut>> /\ written' \in Nat \ {0}
        /\ gitOld' = first /\ gitNew' = line /\ leftOld' = oc /\ leftNew' = nc
        /\ gitAdded' = {} /\ gitRemoved' = {} /\ Open(found)
    BY <1>1 DEF Header, PatchTypeOK
  <1>3. first \in Nat \ {0} /\ line \in Nat \ {0}
    BY <1>1 DEF PatchTypeOK
  <1> HIDE DEF first, line
  <1>4. /\ found.oldStart \in Nat /\ found.newStart \in Nat
        /\ (oc > 0 => found.oldStart = first) /\ (nc > 0 => found.newStart = line)
        /\ found.oldCount = oc /\ found.newCount = nc
    BY <1>3, StartFits, CountIsRead
  <1>5. found \in Headers
    BY <1>4 DEF Headers
  <1> HIDE DEF found
  <1>6. PatchTypeOK'
    BY <1>1, <1>2, <1>3, <1>5, OpenKeepsType DEF PatchTypeOK
  <1>7. CASE verdict' = "rejected"
    <2>1. splits > 0
      BY <1>1, <1>2, <1>5, <1>7, OpenStep
    <2> QED
      BY <1>2, <1>6, <1>7, <2>1
         DEF PatchInv, Promises, MappedUnlessForged, WholeIsParsed, CutNeedsSplits
  <1>8. CASE verdict' # "rejected"
    <2>1. /\ verdict' = "reading" /\ (~open \/ Fits) /\ Keep
          /\ open' = TRUE /\ header' = found
          /\ old' = found.oldStart /\ new' = found.newStart
          /\ added' = {} /\ removed' = {}
      BY <1>1, <1>2, <1>5, <1>8, OpenStep
    <2>2. NewSide' /\ OldSide' /\ Exact'
      BY <1>2, <1>4, <2>1 DEF NewSide, OldSide, Exact
    <2>3. Ahead'
      BY <1>1, <1>2, <1>4, <2>1 DEF Ahead, PatchTypeOK
    <2>4. ASSUME Straight' PROVE Genuine'
      <3>1. Straight
        BY <1>2, <2>4 DEF Straight
      <3>2. changed' = gitChanged /\ dropped' = gitDropped
        BY <1>1, <2>1, <3>1, ClosedHunk
      <3> QED
        BY <1>2, <2>2, <3>2 DEF Genuine, ClosedMapped
    <2>5. Reading'
      BY <1>1, <1>2, <2>1, <2>2, <2>3, <2>4 DEF Reading
    <2> QED
      BY <1>1, <1>2, <1>6, <2>1, <2>5, ReadingPromises DEF PatchInv, Promises,
         MappedUnlessForged, WholeIsParsed, CutNeedsSplits
  <1> QED
    BY <1>7, <1>8

LEMMA BodyStep ==
  ASSUME PatchInv, NEW kind \in {"context", "added", "removed"}, Body(kind)
  PROVE  PatchInv'
  <1>1. PatchTypeOK /\ Reading /\ ~cut /\ verdict = "reading"
    BY DEF PatchInv, Body
  <1>2. /\ UNCHANGED <<verdict, open, header, changed, dropped, written, splits, forged, cut>>
        /\ open
    BY <1>1 DEF Body, Read, Reading, PatchTypeOK
  <1>3. /\ IF kind \in {"context", "removed"}
             THEN /\ leftOld > 0 /\ leftOld' = leftOld - 1
                  /\ gitOld' = gitOld + 1 /\ old' = old + 1
             ELSE UNCHANGED <<leftOld, gitOld, old>>
        /\ IF kind \in {"context", "added"}
             THEN /\ leftNew > 0 /\ leftNew' = leftNew - 1
                  /\ gitNew' = gitNew + 1 /\ new' = new + 1
             ELSE UNCHANGED <<leftNew, gitNew, new>>
    BY DEF Body, Read
  <1>4. /\ IF kind = "added"
             THEN /\ added' = added \cup {new} /\ gitAdded' = gitAdded \cup {gitNew}
                  /\ gitChanged' = gitChanged \cup {gitNew}
             ELSE UNCHANGED <<added, gitAdded, gitChanged>>
        /\ IF kind = "removed"
             THEN /\ removed' = removed \cup {old} /\ gitRemoved' = gitRemoved \cup {gitOld}
                  /\ gitDropped' = gitDropped \cup {gitOld}
             ELSE UNCHANGED <<removed, gitRemoved, gitDropped>>
    BY DEF Body, Read
  <1>5. PatchTypeOK'
    <2>1. /\ leftOld' \in Nat /\ leftNew' \in Nat /\ old' \in Nat /\ new' \in Nat
          /\ gitOld' \in Nat \ {0} /\ gitNew' \in Nat \ {0}
      BY <1>1, <1>3 DEF PatchTypeOK
    <2>2. /\ added' \subseteq Nat /\ gitAdded' \subseteq Nat /\ gitChanged' \subseteq Nat
          /\ removed' \subseteq Nat /\ gitRemoved' \subseteq Nat /\ gitDropped' \subseteq Nat
      BY <1>1, <1>4 DEF PatchTypeOK
    <2> QED
      BY <1>1, <1>2, <2>1, <2>2 DEF PatchTypeOK
  <1>6. ASSUME Genuine PROVE NewSide' /\ OldSide'
    <2>1. NewSide /\ OldSide
      BY <1>6 DEF Genuine
    <2>2. NewSide'
      <3>1. CASE kind = "added"
        <4>1. /\ new' = new + 1 /\ leftNew' = leftNew - 1 /\ gitNew' = gitNew + 1 /\ leftNew > 0
              /\ added' = added \cup {new} /\ gitAdded' = gitAdded \cup {gitNew}
          BY <1>3, <1>4, <3>1
        <4> QED
          BY <1>1, <1>2, <2>1, <4>1 DEF NewSide, PatchTypeOK, Headers
      <3>2. CASE kind = "context"
        <4>1. /\ new' = new + 1 /\ leftNew' = leftNew - 1 /\ gitNew' = gitNew + 1 /\ leftNew > 0
              /\ UNCHANGED <<added, gitAdded>>
          BY <1>3, <1>4, <3>2
        <4> QED
          BY <1>1, <1>2, <2>1, <4>1 DEF NewSide, PatchTypeOK, Headers
      <3>3. CASE kind = "removed"
        <4>1. UNCHANGED <<new, leftNew, gitNew, added, gitAdded>>
          BY <1>3, <1>4, <3>3
        <4> QED
          BY <1>2, <2>1, <4>1 DEF NewSide
      <3> QED
        BY <3>1, <3>2, <3>3
    <2>3. OldSide'
      <3>1. CASE kind = "removed"
        <4>1. /\ old' = old + 1 /\ leftOld' = leftOld - 1 /\ gitOld' = gitOld + 1 /\ leftOld > 0
              /\ removed' = removed \cup {old} /\ gitRemoved' = gitRemoved \cup {gitOld}
          BY <1>3, <1>4, <3>1
        <4> QED
          BY <1>1, <1>2, <2>1, <4>1 DEF OldSide, PatchTypeOK, Headers
      <3>2. CASE kind = "context"
        <4>1. /\ old' = old + 1 /\ leftOld' = leftOld - 1 /\ gitOld' = gitOld + 1 /\ leftOld > 0
              /\ UNCHANGED <<removed, gitRemoved>>
          BY <1>3, <1>4, <3>2
        <4> QED
          BY <1>1, <1>2, <2>1, <4>1 DEF OldSide, PatchTypeOK, Headers
      <3>3. CASE kind = "added"
        <4>1. UNCHANGED <<old, leftOld, gitOld, removed, gitRemoved>>
          BY <1>3, <1>4, <3>3
        <4> QED
          BY <1>2, <2>1, <4>1 DEF OldSide
      <3> QED
        BY <3>1, <3>2, <3>3
    <2> QED
      BY <2>2, <2>3
  <1>7. Exact' /\ Ahead'
    <2>1. Exact /\ Ahead
      BY <1>1, <1>2 DEF Reading
    <2> QED
      BY <1>1, <1>2, <1>3, <2>1 DEF Exact, Ahead, PatchTypeOK, Headers
  <1>8. ASSUME Straight' PROVE Genuine'
    <2>1. ~Alien
      BY <1>3 DEF Alien
    <2>2. Genuine
      BY <1>1, <1>2, <1>8, <2>1 DEF Reading, Straight
    <2>3. ClosedMapped'
      BY <1>1, <1>2, <1>4, <2>2 DEF Genuine, ClosedMapped
    <2> QED
      BY <1>6, <2>2, <2>3 DEF Genuine
  <1>9. Reading'
    BY <1>1, <1>2, <1>7, <1>8 DEF Reading
  <1> QED
    BY <1>1, <1>2, <1>5, <1>9 DEF PatchInv, Promises, MappedUnlessForged, WholeIsParsed, CutNeedsSplits

LEMMA NoteStep == PatchInv /\ Note => PatchInv'
  <1> SUFFICES ASSUME PatchInv, Note PROVE PatchInv'
    OBVIOUS
  <1>1. UNCHANGED patchVars
    BY DEF Note, Read, PatchInv, PatchTypeOK, patchVars, parserVars, gitVars
  <1> QED
    BY <1>1, Stutter

LEMMA RestStep ==
  ASSUME PatchInv, NEW kind \in {"context", "added", "removed", "note", "junk"}, Rest(kind)
  PROVE  PatchInv'
  <1>1. /\ PatchTypeOK /\ Reading /\ ~cut /\ verdict = "reading" /\ written > 0
        /\ splits' = splits + 1 /\ UNCHANGED gitVars /\ UNCHANGED <<forged, cut>> /\ Read(kind)
    BY DEF PatchInv, Rest
  <1>2. PatchTypeOK'
    <2>1. /\ verdict' \in {"reading", "rejected"} /\ UNCHANGED <<open, header, changed, dropped>>
          /\ old' \in {old, old + 1} /\ new' \in {new, new + 1}
          /\ added' \in {added, added \cup {new}} /\ removed' \in {removed, removed \cup {old}}
      BY <1>1 DEF Read, Reject
    <2>2. /\ old' \in Nat /\ new' \in Nat /\ added' \subseteq Nat /\ removed' \subseteq Nat
          /\ splits' \in Nat
      BY <1>1, <2>1 DEF PatchTypeOK
    <2> QED
      BY <1>1, <2>1, <2>2 DEF PatchTypeOK, gitVars
  <1>3. CASE kind = "junk"
    <2>1. verdict' = "rejected"
      BY <1>1, <1>3 DEF Read, Reject
    <2>2. splits' > 0
      BY <1>1 DEF PatchTypeOK
    <2> QED
      BY <1>2, <2>1, <2>2 DEF PatchInv, Promises, MappedUnlessForged, WholeIsParsed, CutNeedsSplits
  <1>4. CASE kind # "junk"
    <2>1. verdict' = "reading"
      BY <1>1, <1>4 DEF Read
    <2>2. Reading'
      BY <1>1, <1>4, RestKeepsReading
    <2> QED
      BY <1>1, <1>2, <2>1, <2>2
         DEF PatchInv, Promises, MappedUnlessForged, WholeIsParsed, CutNeedsSplits
  <1> QED
    BY <1>3, <1>4

LEMMA RestHeaderStep ==
  ASSUME PatchInv, NEW found \in Headers, RestHeader(found)
  PROVE  PatchInv'
  <1>1. /\ PatchTypeOK /\ Reading /\ ~cut /\ verdict = "reading" /\ written > 0
        /\ splits' = splits + 1 /\ forged' = TRUE /\ UNCHANGED gitVars /\ UNCHANGED cut
        /\ Open(found)
    BY DEF PatchInv, RestHeader
  <1>2. splits' \in Nat /\ splits' > 0 /\ open
    BY <1>1 DEF PatchTypeOK, Reading
  <1>3. PatchTypeOK'
    BY <1>1, <1>2, OpenKeepsType DEF PatchTypeOK, gitVars
  <1>4. CASE verdict' = "rejected"
    BY <1>2, <1>3, <1>4 DEF PatchInv, Promises, MappedUnlessForged, WholeIsParsed, CutNeedsSplits
  <1>5. CASE verdict' # "rejected"
    <2>1. /\ verdict' = "reading" /\ (~open \/ Fits) /\ Keep
          /\ open' = TRUE /\ header' = found
          /\ old' = found.oldStart /\ new' = found.newStart
          /\ added' = {} /\ removed' = {}
      BY <1>1, <1>5, OpenStep
    <2>2. leftOld <= splits /\ leftNew <= splits
      BY <1>1, <2>1, FittingHunkNeedsSplits
    <2>3. Ahead' /\ Exact'
      BY <1>1, <1>2, <2>1, <2>2 DEF Ahead, Exact, PatchTypeOK, Headers, gitVars
    <2>4. ASSUME Straight' PROVE Alien'
      <3>1. splits = 0 /\ ~forged
        BY <1>1, <2>4 DEF Straight, Reading, PatchTypeOK
      <3>2. leftOld = 0 /\ leftNew = 0
        BY <1>1, <2>2, <3>1 DEF PatchTypeOK
      <3>3. changed' = gitChanged /\ dropped' = gitDropped
        BY <1>1, <2>1, <3>1, <3>2, ClosedHunk DEF Straight
      <3> QED
        BY <1>1, <2>1, <3>2, <3>3 DEF Alien, Mapped, gitVars
    <2>5. Reading'
      BY <1>1, <1>2, <2>1, <2>3, <2>4 DEF Reading, gitVars
    <2> QED
      BY <1>1, <1>3, <2>1, <2>5
         DEF PatchInv, Promises, MappedUnlessForged, WholeIsParsed, CutNeedsSplits
  <1> QED
    BY <1>4, <1>5

LEMMA EndStep == PatchInv /\ End => PatchInv'
  <1> SUFFICES ASSUME PatchInv, End PROVE PatchInv'
    OBVIOUS
  <1>1. /\ PatchTypeOK /\ Reading /\ UNCHANGED gitVars /\ UNCHANGED <<splits, forged>>
        /\ cut' = (leftOld + leftNew > 0)
    BY DEF PatchInv, End
  <1>2. UNCHANGED <<gitChanged, gitDropped, leftOld, leftNew>> /\ cut' \in BOOLEAN
    BY <1>1 DEF gitVars
  <1>3. CASE open /\ ~Fits
    <2>1. verdict' = "rejected"
      BY <1>3 DEF End, Reject
    <2>2. PatchTypeOK'
      BY <1>1, <1>2, <1>3 DEF PatchTypeOK, End, Reject, gitVars
    <2>3. splits > 0 \/ leftOld + leftNew > 0
      BY <1>1, <1>3, WholeHunkFits DEF PatchTypeOK
    <2> QED
      BY <1>1, <2>1, <2>2, <2>3
         DEF PatchInv, Promises, MappedUnlessForged, WholeIsParsed, CutNeedsSplits
  <1>4. CASE ~(open /\ ~Fits)
    <2>1. /\ verdict' = "parsed" /\ Keep
          /\ UNCHANGED <<open, header, old, new, added, removed>>
      BY <1>4 DEF End
    <2>2. PatchTypeOK'
      <3>1. changed' \subseteq Nat /\ dropped' \subseteq Nat
        BY <1>1, <2>1 DEF Keep, PatchTypeOK
      <3> QED
        BY <1>1, <1>2, <2>1, <3>1 DEF PatchTypeOK, gitVars
    <2>3. CutNeedsSplits'
      <3>1. leftOld <= splits /\ leftNew <= splits
        BY <1>1, <1>4, FittingHunkNeedsSplits
      <3> QED
        BY <1>1, <1>2, <3>1 DEF CutNeedsSplits
    <2>4. MappedUnlessForged'
      <3> SUFFICES ASSUME ~cut', Straight' PROVE Mapped'
        BY DEF MappedUnlessForged, Straight
      <3>1. leftOld = 0 /\ leftNew = 0
        <4>1. ~(leftOld + leftNew > 0)
          BY <1>1
        <4> QED
          BY <1>1, <4>1 DEF PatchTypeOK
      <3>2. Straight
        BY <1>1 DEF Straight
      <3>3. changed' = gitChanged /\ dropped' = gitDropped
        BY <1>1, <1>4, <2>1, <3>1, <3>2, ClosedHunk
      <3> QED
        BY <1>2, <3>3 DEF Mapped
    <2> QED
      BY <2>1, <2>2, <2>3, <2>4 DEF PatchInv, Promises, WholeIsParsed
  <1> QED
    BY <1>3, <1>4

LEMMA PatchNextInvariant == PatchInv /\ [PatchNext]_patchVars => PatchInv'
  <1> SUFFICES ASSUME PatchInv, [PatchNext]_patchVars PROVE PatchInv'
    OBVIOUS
  <1>1. ASSUME NEW gap \in 0..MaxGap, NEW oc \in 0..MaxCount, NEW nc \in 0..MaxCount,
               Header(gap, oc, nc)
        PROVE  PatchInv'
    BY <1>1, HeaderStep, BoundsAreNaturals
  <1>2. ASSUME NEW kind \in {"context", "added", "removed"}, Body(kind) PROVE PatchInv'
    BY <1>2, BodyStep
  <1>3. ASSUME NEW kind \in {"context", "added", "removed", "note", "junk"}, Rest(kind)
        PROVE  PatchInv'
    BY <1>3, RestStep
  <1>4. ASSUME NEW oldStart \in 0..MaxStart, NEW newStart \in 0..MaxStart,
               NEW oc \in 0..MaxCount, NEW nc \in 0..MaxCount,
               RestHeader([oldStart |-> oldStart, oldCount |-> oc,
                           newStart |-> newStart, newCount |-> nc])
        PROVE  PatchInv'
    <2>1. [oldStart |-> oldStart, oldCount |-> oc, newStart |-> newStart, newCount |-> nc]
            \in Headers
      BY BoundsAreNaturals DEF Headers
    <2> QED
      BY <1>4, <2>1, RestHeaderStep
  <1>5. CASE UNCHANGED patchVars
    BY <1>5, Stutter
  <1> QED
    BY <1>1, <1>2, <1>3, <1>4, <1>5, NoteStep, EndStep DEF PatchNext

LEMMA PatchInvariant == PatchSpec => []PatchInv
  BY PatchInitInvariant, PatchNextInvariant, PTL DEF PatchSpec

\* The parser's state keeps its type (diff.parse_patch).
THEOREM ParserTypeCorrect == PatchSpec => []PatchTypeOK
  <1>1. PatchInv => PatchTypeOK
    BY DEF PatchInv
  <1> QED
    BY <1>1, PatchInvariant, PTL

\* A patch git wrote to its end and the parser accepts is mapped right, whatever
\* was split in it but a hunk header with something else (diff.parse_patch, close).
THEOREM AcceptedIsMapped == PatchSpec => []MappedUnlessForged
  <1>1. PatchInv => MappedUnlessForged
    BY DEF PatchInv, Promises
  <1> QED
    BY <1>1, PatchInvariant, PTL

\* Every whole patch git writes is accepted (diff.parse_patch, close).
THEOREM WholeIsAccepted == PatchSpec => []WholeIsParsed
  <1>1. PatchInv => WholeIsParsed
    BY DEF PatchInv, Promises
  <1> QED
    BY <1>1, PatchInvariant, PTL

\* A patch cut inside a hunk is accepted only with a remainder for every line that
\* is missing on a side (diff.parse_patch, close).
THEOREM CutNeedsRemainders == PatchSpec => []CutNeedsSplits
  <1>1. PatchInv => CutNeedsSplits
    BY DEF PatchInv, Promises
  <1> QED
    BY <1>1, PatchInvariant, PTL

------------------------------------------------------------------------------
(***************************************************************************)
(* The review graph.                                                       *)
(***************************************************************************)

(***************************************************************************)
(* The operators.                                                          *)
(***************************************************************************)

\* Some objection of a file that has any comes first.
LEMMA FirstOf ==
  ASSUME NEW S \in SUBSET (1..11), S # {}
  PROVE  \E i \in S : \A j \in S : i <= j
  <1>1. S \in SUBSET Nat
    OBVIOUS
  <1> QED
    BY <1>1, LeastNumber

LEMMA PrecedenceIsList == DOMAIN Precedence = 1..11
  BY DEF Precedence

LEMMA EvaluateType == \A file : Evaluate(file) \in Decisions
  <1> TAKE file
  <1> DEFINE hits == {i \in DOMAIN Precedence : Precedence[i].mark \in file.marks}
  <1>1. CASE hits = {}
    BY <1>1 DEF Evaluate, Decisions
  <1>2. CASE hits # {}
    <2>1. \E i \in hits : \A j \in hits : i <= j
      BY <1>2, FirstOf, PrecedenceIsList
    <2>2. (CHOOSE i \in hits : \A j \in hits : i <= j) \in DOMAIN Precedence
      BY <2>1
    <2> QED
      BY <1>2, <2>2 DEF Evaluate, Decisions
  <1> QED
    BY <1>1, <1>2

\* critique records a reason of its list for whatever is wrong with a candidate.
LEMMA ReasonType ==
  ASSUME NEW faults \in SUBSET Reasons, faults # {}
  PROVE  Reason(faults) \in Reasons
  <1> DEFINE First(i) == Order[i] \in faults /\ \A j \in 1..(i - 1) : Order[j] \notin faults
  <1>1. /\ DOMAIN Order = 1..6
        /\ Order[1] = "invalid_line" /\ Order[2] = "no_evidence"
        /\ Order[3] = "unknown_source_ref" /\ Order[4] = "generic"
        /\ Order[5] = "duplicate" /\ Order[6] = "low_confidence"
    BY DEF Order
  <1> DEFINE S == {i \in 1..6 : Order[i] \in faults}
  <1>2. S # {} /\ S \in SUBSET (1..11)
    <2>1. PICK f \in faults : f \in Reasons
      OBVIOUS
    <2>2. \E k \in 1..6 : Order[k] = f
      BY <1>1, <2>1 DEF Reasons, Flaws
    <2> QED
      BY <2>2
  <1>3. PICK i \in S : \A j \in S : i <= j
    BY <1>2, FirstOf
  <1>4. i \in DOMAIN Order /\ First(i)
    BY <1>1, <1>3
  <1>5. (CHOOSE k \in DOMAIN Order : First(k)) \in 1..6
    BY <1>1, <1>4
  <1>6. \A k \in 1..6 : Order[k] \in Reasons
    BY <1>1 DEF Reasons, Flaws
  <1> QED
    BY <1>5, <1>6 DEF Reason

LEMMA FaultsType ==
  ASSUME NEW candidate \in Candidates, NEW published
  PROVE  Faults(candidate, published) \in SUBSET Reasons
  BY DEF Faults, Candidates, Reasons

\* A candidate that is sound by itself can only be a duplicate.
LEMMA SoundFaults ==
  ASSUME NEW candidate, NEW published, Faults(candidate, {}) = {},
         Faults(candidate, published) # {}
  PROVE  KeyOf(candidate) \in published
  BY DEF Faults

LEMMA FineIsFinite ==
  ASSUME NEW n \in Nat
  PROVE  IsFiniteSet(Fine(n)) /\ Cardinality(Fine(n)) \in Nat
  <1>1. Fine(n) \subseteq 1..n
    BY DEF Fine
  <1>2. IsFiniteSet(1..n)
    BY FS_Interval
  <1> QED
    BY <1>1, <1>2, FS_Subset, FS_CardinalityType

\* How the reviewable files grow with the files judged.
LEMMA FineGrows ==
  ASSUME NEW n \in Nat
  PROVE  /\ Evaluate(files[n + 1]) = "reviewable" =>
              Cardinality(Fine(n + 1)) = Cardinality(Fine(n)) + 1
         /\ Evaluate(files[n + 1]) # "reviewable" => Fine(n + 1) = Fine(n)
  <1>1. 1..(n + 1) = (1..n) \cup {n + 1}
    OBVIOUS
  <1>2. ASSUME Evaluate(files[n + 1]) = "reviewable"
        PROVE  Cardinality(Fine(n + 1)) = Cardinality(Fine(n)) + 1
    <2>1. Fine(n + 1) = Fine(n) \cup {n + 1}
      BY <1>1, <1>2 DEF Fine
    <2>2. n + 1 \notin Fine(n)
      BY DEF Fine
    <2> QED
      BY <2>1, <2>2, FineIsFinite, FS_AddElement
  <1>3. ASSUME Evaluate(files[n + 1]) # "reviewable"
        PROVE  Fine(n + 1) = Fine(n)
    BY <1>1, <1>3 DEF Fine
  <1> QED
    BY <1>2, <1>3

------------------------------------------------------------------------------
(***************************************************************************)
(* The invariant.                                                          *)
(***************************************************************************)

\* The gate's count is of the reviewable files judged, up to the budget.
Capped(n) == IF n < MaxFiles THEN n ELSE MaxFiles

GateInv ==
  /\ Len(outcomes) <= Len(files)
  /\ kept = Capped(Cardinality(Fine(Len(outcomes))))
  /\ BudgetKeepsFirst

\* The model is asked after the gate, and drafts after it was asked.
ScopeInv ==
  /\ node \in {"fetch_diff", "guardrail_gate", "reason_and_draft"} =>
       ~asked /\ drafted = <<>> /\ verdicts = <<>>
  /\ node \in {"reason_and_draft", "self_critique", "summarized"} =>
       Len(outcomes) = Len(files)
  /\ asked => InScope # {} /\ Len(outcomes) = Len(files)
  /\ drafted # <<>> => asked

\* The keys seen are those of the published candidates.
CritiqueInv ==
  /\ Len(verdicts) <= Len(drafted)
  /\ \A i \in Published : KeyOf(drafted[i]) \in seen
  /\ \A k \in seen : \E i \in Published : KeyOf(drafted[i]) = k
  /\ OnePerPlace /\ SoundIsServed

IInv == TypeOK /\ GateInv /\ ScopeInv /\ CritiqueInv

LEMMA InitInvariant == Init => IInv
  <1> SUFFICES ASSUME Init PROVE IInv
    OBVIOUS
  <1>1. /\ node = "fetch_diff" /\ files \in PullRequests /\ outcomes = <<>> /\ kept = 0
        /\ asked = FALSE /\ drafted = <<>> /\ seen = {} /\ verdicts = <<>>
    BY DEF Init
  <1>2. TypeOK
    <2>1. files \in Seq(ChangedFiles)
      BY <1>1, InputsFit
    <2>2. <<>> \in Seq(Decisions) /\ <<>> \in Seq(Candidates)
          /\ <<>> \in Seq(Reasons \cup {"published"})
      OBVIOUS
    <2> QED
      BY <1>1, <2>1, <2>2 DEF TypeOK
  <1>3. InScope = {} /\ Published = {} /\ DOMAIN outcomes = {} /\ DOMAIN verdicts = {}
    BY <1>1 DEF InScope, Published
  <1>4. Fine(0) = {} /\ Cardinality(Fine(0)) = 0
    <2>1. Fine(0) = {}
      BY DEF Fine
    <2> QED
      BY <2>1, FS_EmptySet
  <1>5. kept = Capped(Cardinality(Fine(Len(outcomes))))
    <2>1. Len(outcomes) = 0
      BY <1>1
    <2> QED
      BY <1>1, <1>4, <2>1, InputsFit DEF Capped
  <1>6. GateInv
    BY <1>1, <1>2, <1>3, <1>5 DEF GateInv, BudgetKeepsFirst, TypeOK
  <1>7. ScopeInv
    BY <1>1 DEF ScopeInv
  <1>8. CritiqueInv
    BY <1>1, <1>3 DEF CritiqueInv, OnePerPlace, SoundIsServed
  <1> QED
    BY <1>2, <1>6, <1>7, <1>8 DEF IInv

\* What the gate has said stands while it is left alone, and so does what the
\* critique has.
LEMMA GateFrame ==
  ASSUME GateInv, UNCHANGED <<files, outcomes, kept>>
  PROVE  GateInv' /\ InScope' = InScope
  <1>1. InScope' = InScope
    BY DEF InScope
  <1>2. \A n : Fine(n)' = Fine(n)
    BY DEF Fine, Evaluate
  <1>3. BudgetKeepsFirst'
    BY <1>1, <1>2 DEF GateInv, BudgetKeepsFirst
  <1>4. (kept = Capped(Cardinality(Fine(Len(outcomes)))))'
    BY <1>2 DEF GateInv, Capped
  <1> QED
    BY <1>1, <1>3, <1>4 DEF GateInv

LEMMA CritiqueFrame ==
  ASSUME CritiqueInv, UNCHANGED <<files, drafted, seen, verdicts>>
  PROVE  CritiqueInv'
  <1>1. Published' = Published
    BY DEF Published
  <1>2. \A i : Faults(drafted[i], {})' = Faults(drafted[i], {})
                /\ KeyOf(drafted[i])' = KeyOf(drafted[i])
    BY DEF Faults, Commentable, KeyOf
  <1>3. OnePerPlace'
    BY <1>1, <1>2 DEF CritiqueInv, OnePerPlace
  <1>4. SoundIsServed'
    BY <1>1, <1>2 DEF CritiqueInv, SoundIsServed
  <1> QED
    BY <1>1, <1>2, <1>3, <1>4 DEF CritiqueInv

LEMMA JudgeStep == IInv /\ JudgeNext => IInv'
  <1> SUFFICES ASSUME IInv, JudgeNext PROVE IInv'
    OBVIOUS
  <1> DEFINE n == Len(outcomes)
             alone == Evaluate(files[n + 1])
             over == alone = "reviewable" /\ kept >= MaxFiles
             decision == IF over THEN "skipped_oversized_diff" ELSE alone
  <1>1. /\ TypeOK /\ node = "guardrail_gate" /\ n < Len(files) /\ n \in Nat
        /\ UNCHANGED <<node, files, asked, drafted, seen, verdicts>>
        /\ outcomes' = Append(outcomes, decision)
        /\ kept' = IF alone = "reviewable" /\ ~over THEN kept + 1 ELSE kept
    BY DEF IInv, TypeOK, JudgeNext, Judge
  <1>2. decision \in Decisions /\ alone \in Decisions
    BY EvaluateType DEF Decisions, Precedence
  <1>3. TypeOK'
    BY <1>1, <1>2 DEF TypeOK
  <1>4. Len(outcomes') = n + 1
    BY <1>1, <1>2 DEF TypeOK
  <1>5. \A m : Fine(m)' = Fine(m)
    BY <1>1 DEF Fine, Evaluate
  <1>6. kept' = Capped(Cardinality(Fine(n + 1)))
    <2>1. kept = Capped(Cardinality(Fine(n))) /\ Cardinality(Fine(n)) \in Nat
      BY <1>1, FineIsFinite DEF IInv, GateInv
    <2> QED
      BY <1>1, <2>1, FineGrows, InputsFit DEF Capped
  <1>7. decision = "reviewable" <=>
          n + 1 \in Fine(n + 1) /\ Cardinality(Fine(n)) < MaxFiles
    <2>1. kept >= MaxFiles <=> ~(Cardinality(Fine(n)) < MaxFiles)
      BY <1>1, FineIsFinite, InputsFit DEF IInv, GateInv, Capped
    <2>2. alone = "reviewable" <=> n + 1 \in Fine(n + 1)
      BY <1>1 DEF Fine
    <2> QED
      BY <2>1, <2>2
  <1> HIDE DEF n, alone, over, decision
  <1>8. \A i \in 1..n : outcomes'[i] = outcomes[i] /\ (i \in Fine(i))' = (i \in Fine(i))
    BY <1>1, <1>2, <1>5 DEF TypeOK, n
  <1>9. outcomes'[n + 1] = decision /\ DOMAIN outcomes' = 1..(n + 1) /\ DOMAIN outcomes = 1..n
    BY <1>1, <1>2 DEF TypeOK, n
  <1>10. BudgetKeepsFirst'
    <2> SUFFICES ASSUME NEW i \in 1..(n + 1)
                 PROVE  outcomes'[i] = "reviewable" <=>
                          i \in Fine(i) /\ Cardinality(Fine(i - 1)) < MaxFiles
      BY <1>5, <1>9 DEF BudgetKeepsFirst, InScope
    <2>1. CASE i = n + 1
      <3>1. i - 1 = n
        BY <1>1, <2>1
      <3> QED
        BY <1>7, <1>9, <2>1, <3>1
    <2>2. CASE i # n + 1
      <3>1. i \in 1..n
        BY <1>1, <2>2
      <3>2. outcomes[i] = "reviewable" <=> i \in Fine(i) /\ Cardinality(Fine(i - 1)) < MaxFiles
        BY <1>9, <3>1 DEF IInv, GateInv, BudgetKeepsFirst, InScope
      <3> QED
        BY <1>8, <3>1, <3>2
    <2> QED
      BY <2>1, <2>2
  <1>11. GateInv'
    BY <1>1, <1>4, <1>5, <1>6, <1>10 DEF GateInv, TypeOK, Capped, n
  <1>12. ScopeInv'
    BY <1>1 DEF IInv, ScopeInv
  <1>13. CritiqueInv'
    BY <1>1, CritiqueFrame DEF IInv
  <1> QED
    BY <1>3, <1>11, <1>12, <1>13 DEF IInv

\* The steps that go on to the next node and leave gate and critique alone.
LEMMA PassStep ==
  ASSUME IInv, FetchDiff \/ CloseGate \/ SkipDraft \/ ModelFault \/ Summarize
  PROVE  IInv'
  <1>1. UNCHANGED <<files, outcomes, kept, drafted, seen, verdicts>>
    BY DEF FetchDiff, CloseGate, SkipDraft, ModelFault, Summarize
  <1>2. GateInv' /\ InScope' = InScope
    BY <1>1, GateFrame DEF IInv
  <1>3. CritiqueInv'
    BY <1>1, CritiqueFrame DEF IInv
  <1>4. CASE FetchDiff
    <2>1. TypeOK' /\ ScopeInv'
      BY <1>1, <1>2, <1>4 DEF FetchDiff, IInv, TypeOK, ScopeInv
    <2> QED
      BY <1>2, <1>3, <2>1 DEF IInv
  <1>5. CASE CloseGate
    <2>1. TypeOK' /\ ScopeInv'
      BY <1>1, <1>2, <1>5 DEF CloseGate, IInv, TypeOK, ScopeInv
    <2> QED
      BY <1>2, <1>3, <2>1 DEF IInv
  <1>6. CASE SkipDraft
    <2>1. TypeOK' /\ ScopeInv'
      BY <1>1, <1>2, <1>6 DEF SkipDraft, IInv, TypeOK, ScopeInv
    <2> QED
      BY <1>2, <1>3, <2>1 DEF IInv
  <1>7. CASE ModelFault
    <2>1. TypeOK' /\ ScopeInv'
      BY <1>1, <1>2, <1>7 DEF ModelFault, IInv, TypeOK, ScopeInv
    <2> QED
      BY <1>2, <1>3, <2>1 DEF IInv
  <1>8. CASE Summarize
    <2>1. TypeOK' /\ ScopeInv'
      BY <1>1, <1>2, <1>8 DEF Summarize, IInv, TypeOK, ScopeInv
    <2> QED
      BY <1>2, <1>3, <2>1 DEF IInv
  <1> QED
    BY <1>4, <1>5, <1>6, <1>7, <1>8

LEMMA DraftStep ==
  ASSUME IInv, NEW candidates \in Drafts, Draft(candidates)
  PROVE  IInv'
  <1>1. /\ node = "reason_and_draft" /\ InScope # {} /\ asked' = TRUE
        /\ drafted' = candidates /\ node' = "self_critique"
        /\ UNCHANGED <<files, outcomes, kept, seen, verdicts>>
    BY DEF Draft
  <1>2. candidates \in Seq(Candidates)
    BY InputsFit
  <1>3. TypeOK'
    BY <1>1, <1>2 DEF IInv, TypeOK
  <1>4. GateInv' /\ InScope' = InScope
    BY <1>1, GateFrame DEF IInv
  <1>5. ScopeInv'
    BY <1>1, <1>4 DEF IInv, ScopeInv
  <1>6. verdicts = <<>> /\ verdicts' = <<>>
    BY <1>1 DEF IInv, ScopeInv
  <1>7. Published = {} /\ Published' = {} /\ seen' = {}
    <2>1. Published = {} /\ Published' = {}
      BY <1>6 DEF Published
    <2> QED
      BY <1>1, <2>1 DEF IInv, CritiqueInv
  <1>8. CritiqueInv'
    BY <1>1, <1>2, <1>6, <1>7 DEF CritiqueInv, OnePerPlace, SoundIsServed
  <1> QED
    BY <1>3, <1>4, <1>5, <1>8 DEF IInv

LEMMA RuleStep == IInv /\ RuleNext => IInv'
  <1> SUFFICES ASSUME IInv, RuleNext PROVE IInv'
    OBVIOUS
  <1> DEFINE n == Len(verdicts)
             c == drafted[n + 1]
             faults == Faults(c, seen)
             ruling == IF faults = {} THEN "published" ELSE Reason(faults)
  <1>1. /\ TypeOK /\ node = "self_critique" /\ n < Len(drafted) /\ n \in Nat
        /\ UNCHANGED <<node, files, outcomes, kept, asked, drafted>>
        /\ verdicts' = Append(verdicts, ruling)
        /\ seen' = IF faults = {} THEN seen \cup {KeyOf(c)} ELSE seen
    BY DEF IInv, TypeOK, RuleNext, Rule
  <1>2. c \in Candidates
    BY <1>1 DEF TypeOK
  <1>3. ruling \in Reasons \cup {"published"} /\ (ruling = "published" <=> faults = {})
    BY <1>2, FaultsType, ReasonType DEF Reasons, Flaws
  <1>4. KeyOf(c) \in Keys
    BY <1>2 DEF KeyOf, Keys, Candidates
  <1>5. TypeOK'
    BY <1>1, <1>3, <1>4 DEF TypeOK
  <1>6. GateInv' /\ InScope' = InScope
    BY <1>1, GateFrame DEF IInv
  <1>7. ScopeInv'
    BY <1>1, <1>6 DEF IInv, ScopeInv
  <1>8. faults = {} => KeyOf(c) \notin seen
    BY DEF Faults
  <1>9. Faults(c, {}) = {} /\ faults # {} => KeyOf(c) \in seen
    BY SoundFaults
  <1>10. /\ DOMAIN verdicts = 1..n /\ DOMAIN verdicts' = 1..(n + 1)
         /\ verdicts'[n + 1] = ruling /\ \A i \in 1..n : verdicts'[i] = verdicts[i]
    BY <1>1, <1>3 DEF TypeOK
  <1>11. Published' = IF faults = {} THEN Published \cup {n + 1} ELSE Published
    BY <1>1, <1>3, <1>10 DEF Published
  <1>12. \A i : KeyOf(drafted[i])' = KeyOf(drafted[i])
                 /\ Faults(drafted[i], {})' = Faults(drafted[i], {})
    BY <1>1 DEF KeyOf, Faults, Commentable
  <1>13. /\ \A i \in Published : KeyOf(drafted[i]) \in seen
         /\ \A k \in seen : \E i \in Published : KeyOf(drafted[i]) = k
         /\ OnePerPlace /\ SoundIsServed
         /\ Published \subseteq 1..n
    BY <1>10 DEF IInv, CritiqueInv, Published
  <1>14. Len(verdicts') <= Len(drafted')
    BY <1>1, <1>3 DEF TypeOK
  <1> HIDE DEF n, c, faults, ruling
  <1>15. c = drafted[n + 1]
    BY DEF c
  <1>16. n + 1 \notin Published
    BY <1>1, <1>13
  <1>17. /\ \A i \in Published' : KeyOf(drafted[i]) \in seen'
         /\ \A k \in seen' : \E i \in Published' : KeyOf(drafted[i]) = k
    <2>1. CASE faults = {}
      BY <1>1, <1>11, <1>13, <1>15, <2>1
    <2>2. CASE faults # {}
      BY <1>1, <1>11, <1>13, <2>2
    <2> QED
      BY <2>1, <2>2
  <1>18. \A i, j \in Published' : KeyOf(drafted[i]) = KeyOf(drafted[j]) => i = j
    <2>1. CASE faults = {}
      BY <1>8, <1>11, <1>13, <1>15, <2>1 DEF OnePerPlace
    <2>2. CASE faults # {}
      BY <1>11, <1>13, <2>2 DEF OnePerPlace
    <2> QED
      BY <2>1, <2>2
  <1>19. \A i \in 1..(n + 1) :
           Faults(drafted[i], {}) = {} =>
             \E j \in Published' : j <= i /\ KeyOf(drafted[j]) = KeyOf(drafted[i])
    <2> SUFFICES ASSUME NEW i \in 1..(n + 1), Faults(drafted[i], {}) = {}
                 PROVE  \E j \in Published' : j <= i /\ KeyOf(drafted[j]) = KeyOf(drafted[i])
      OBVIOUS
    <2>1. Published \subseteq Published'
      BY <1>11
    <2>2. CASE i \in 1..n
      BY <1>10, <1>13, <2>1, <2>2 DEF SoundIsServed
    <2>3. CASE i = n + 1 /\ faults = {}
      BY <1>1, <1>11, <2>3
    <2>4. CASE i = n + 1 /\ faults # {}
      <3>1. KeyOf(c) \in seen
        BY <1>9, <1>15, <2>4
      <3>2. PICK j \in Published : KeyOf(drafted[j]) = KeyOf(c)
        BY <1>13, <3>1
      <3>3. j <= i
        BY <1>1, <1>13, <2>4
      <3> QED
        BY <1>15, <2>1, <2>4, <3>2, <3>3
    <2> QED
      BY <1>1, <2>2, <2>3, <2>4
  <1>20. OnePerPlace'
    BY <1>12, <1>18 DEF OnePerPlace
  <1>21. SoundIsServed'
    BY <1>10, <1>12, <1>19 DEF SoundIsServed
  <1>22. CritiqueInv'
    BY <1>12, <1>14, <1>17, <1>20, <1>21 DEF CritiqueInv
  <1> QED
    BY <1>5, <1>6, <1>7, <1>22 DEF IInv

LEMMA NextInvariant == IInv /\ [Next]_vars => IInv'
  <1> SUFFICES ASSUME IInv, [Next]_vars PROVE IInv'
    OBVIOUS
  <1>1. CASE UNCHANGED vars
    <2>1. UNCHANGED <<node, files, outcomes, kept, asked, drafted, seen, verdicts>>
      BY <1>1 DEF vars
    <2>2. GateInv' /\ InScope' = InScope
      BY <2>1, GateFrame DEF IInv
    <2>3. CritiqueInv'
      BY <2>1, CritiqueFrame DEF IInv
    <2>4. TypeOK' /\ ScopeInv'
      BY <2>1, <2>2 DEF IInv, TypeOK, ScopeInv
    <2> QED
      BY <2>2, <2>3, <2>4 DEF IInv
  <1>2. CASE FetchDiff \/ CloseGate \/ SkipDraft \/ ModelFault \/ Summarize
    BY <1>2, PassStep
  <1>3. CASE JudgeNext
    BY <1>3, JudgeStep
  <1>4. ASSUME NEW candidates \in Drafts, Draft(candidates)
        PROVE  IInv'
    BY <1>4, DraftStep
  <1>5. CASE RuleNext
    BY <1>5, RuleStep
  <1> QED
    BY <1>1, <1>2, <1>3, <1>4, <1>5 DEF Next

LEMMA Invariant == Spec => []IInv
  BY InitInvariant, NextInvariant, PTL DEF Spec

------------------------------------------------------------------------------
(***************************************************************************)
(* The theorems.                                                           *)
(***************************************************************************)

\* Every step of a review keeps its state to the types graph.ReviewState gives it.
THEOREM GraphTypeCorrect == Spec => []TypeOK
  <1>1. IInv => TypeOK
    BY DEF IInv
  <1> QED
    BY <1>1, Invariant, PTL

\* The gate keeps the first MaxFiles reviewable files of any pull request, and
\* files it skips take none of that budget (guardrails.apply_guardrails).
THEOREM BudgetIsFirstCome == Spec => []BudgetKeepsFirst
  <1>1. IInv => BudgetKeepsFirst
    BY DEF IInv, GateInv
  <1> QED
    BY <1>1, Invariant, PTL

\* However often the model repeats itself, one finding is published for a path,
\* line and category (critique.critique).
THEOREM PlacePublishedOnce == Spec => []OnePerPlace
  <1>1. IInv => OnePerPlace
    BY DEF IInv, CritiqueInv
  <1> QED
    BY <1>1, Invariant, PTL

\* Suppressing a flawed finding never costs the reader a sound one on the same
\* place (critique.critique).
THEOREM SoundFindingServed == Spec => []SoundIsServed
  <1>1. IInv => SoundIsServed
    BY DEF IInv, CritiqueInv
  <1> QED
    BY <1>1, Invariant, PTL

\* The model is asked only with the whole gate behind it and something to review,
\* and nothing is published that it was not asked for (graph.reason_and_draft).
THEOREM ModelNeedsScope == Spec => []ScopeBeforeModel
  <1>1. IInv => ScopeBeforeModel
    <2> SUFFICES ASSUME IInv PROVE ScopeBeforeModel
      OBVIOUS
    <2>1. asked => InScope # {} /\ Len(outcomes) = Len(files)
      BY DEF IInv, ScopeInv
    <2>2. ASSUME Published # {} PROVE asked
      <3>1. Len(verdicts) # 0 /\ Len(verdicts) \in Nat /\ Len(drafted) \in Nat
        BY <2>2 DEF IInv, TypeOK, Published
      <3>2. drafted # <<>>
        BY <3>1 DEF IInv, CritiqueInv
      <3> QED
        BY <3>2 DEF IInv, ScopeInv
    <2> QED
      BY <2>1, <2>2 DEF ScopeBeforeModel
  <1> QED
    BY <1>1, Invariant, PTL
===============================================================================
