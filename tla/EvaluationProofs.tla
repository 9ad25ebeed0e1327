--------------------------- MODULE EvaluationProofs ---------------------------
(***************************************************************************)
(* The matching is one-to-one and never takes a label from a finding       *)
(* without giving it another, and it is a maximum, for any findings and    *)
(* labels.  A live evaluation scores only what a human confirmed, for any  *)
(* thread, edits and decisions.  And a benchmark's report is its run's,    *)
(* and one that passed was earned, for any corpus.                         *)
(***************************************************************************)
EXTENDS FindingMatching, BenchmarkRun, GroundTruth, SumProofs, FiniteSetTheorems,
        SequenceTheorems, TLAPS

(***************************************************************************)
(* The matching.                                                           *)
(***************************************************************************)

\* The label a call under way is at.
At(i) == edges[stack[i].finding][stack[i].at]

\* The calls that wait for the one they made, or for its answer to be used.
Waiting == 1..(IF result = "none" THEN Len(stack) - 1 ELSE Len(stack))

\* Each waits at a visited label of its own, for the finding that owned it.
WaitInv ==
  /\ \A i \in Waiting : stack[i].at \in DOMAIN edges[stack[i].finding] /\ At(i) \in visited
  /\ \A i, j \in Waiting : At(i) = At(j) => i = j
  /\ \A i \in 1..(Len(stack) - 1) : owner[At(i)] = stack[i + 1].finding

\* Only a finding that has just found another label owns two, the one it leaves
\* being the one its caller waits at.
Left(l) == result = "true" /\ stack # <<>> /\ l = At(Len(stack))

OwnerInv ==
  /\ \A k, l \in Labels : owner[k] = owner[l] /\ owner[k] # 0 /\ ~Left(k) /\ ~Left(l) => k = l
  /\ \A l \in Labels : owner[l] # 0 => \E i \in DOMAIN edges[owner[l]] : edges[owner[l]][i] = l
  /\ \A l \in Labels : Left(l) => \E k \in Labels : k # l /\ owner[k] = owner[l] /\ owner[k] # 0

\* The finding the outer loop is at, and those behind it, own nothing yet.
LoopInv ==
  /\ stack # <<>> => stack[1].finding = finding /\ finding <= Count
  /\ stack # <<>> \/ result # "true" => \A l \in Labels : owner[l] # finding
  /\ \A l \in Labels : owner[l] <= finding
  /\ \A i \in 1..Len(stack) : i > 1 => stack[i].finding # finding
  /\ \A i \in 1..Len(stack) : stack[i].at >= 1
  /\ stack = <<>> /\ result # "none" => finding <= Count

DepthInv == Len(stack) <= Cardinality(visited) + 1 /\ IsFiniteSet(visited)

IInv == TypeOK /\ WaitInv /\ OwnerInv /\ LoopInv

Frames == [finding : Findings, at : Nat]

------------------------------------------------------------------------------
(***************************************************************************)
(* The stack.                                                              *)
(***************************************************************************)

LEMMA InitInvariant == Init => IInv
  <1> SUFFICES ASSUME Init PROVE IInv
    OBVIOUS
  <1>1. /\ edges \in [Findings -> Seq(Labels)] /\ finding = 1
        /\ owner = [l \in Labels |-> 0] /\ stack = <<>> /\ visited = {} /\ result = "none"
    BY EdgesAreLists DEF Init
  <1>2. TypeOK
    <2>1. finding \in 1..(Count + 1) /\ owner \in [Labels -> 0..Count]
      BY <1>1, EdgesAreLists
    <2>2. stack \in Seq([finding : Findings, at : Nat])
      BY <1>1
    <2> QED
      BY <1>1, <2>1, <2>2 DEF TypeOK
  <1>3. Len(stack) = 0 /\ \A l \in Labels : owner[l] = 0
    BY <1>1
  <1>4. WaitInv
    BY <1>1, <1>3 DEF WaitInv, Waiting
  <1>5. OwnerInv /\ LoopInv
    BY <1>1, <1>3 DEF OwnerInv, LoopInv, Left
  <1> QED
    BY <1>2, <1>4, <1>5 DEF IInv

LEMMA FrameTyped ==
  ASSUME TypeOK, NEW i \in 1..Len(stack)
  PROVE  stack[i].finding \in Findings /\ stack[i].at \in Nat
  <1>1. stack \in Seq(Frames)
    BY DEF TypeOK, Frames
  <1>2. stack[i] \in Frames
    BY <1>1
  <1> QED
    BY <1>2 DEF Frames

\* A stack that keeps its findings, or loses its last call, keeps LoopInv.
LEMMA LoopKept ==
  ASSUME TypeOK, LoopInv, UNCHANGED <<owner, finding>>, stack # <<>>,
         Len(stack') \in Nat, stack' = <<>> <=> Len(stack') = 0,
         Len(stack) \in Nat, Len(stack') <= Len(stack),
         \A i \in 1..Len(stack') : stack'[i].finding = stack[i].finding /\ stack'[i].at >= 1
  PROVE  LoopInv'
  <1>1. /\ stack[1].finding = finding /\ finding <= Count
        /\ \A l \in Labels : owner[l] # finding
        /\ \A l \in Labels : owner[l] <= finding
        /\ \A i \in 1..Len(stack) : i > 1 => stack[i].finding # finding
    BY DEF LoopInv
  <1>2. stack' # <<>> => stack'[1].finding = finding' /\ finding' <= Count
    BY <1>1
  <1>3. \A i \in 1..Len(stack') : i > 1 => stack'[i].finding # finding'
    BY <1>1
  <1> QED
    BY <1>1, <1>2, <1>3 DEF LoopInv

LEMMA PopEffect ==
  ASSUME TypeOK, stack # <<>>, stack' = Pop
  PROVE  /\ stack' \in Seq(Frames) /\ Len(stack') = Len(stack) - 1
         /\ \A i \in 1..(Len(stack) - 1) : stack'[i] = stack[i]
         /\ Len(stack) \in Nat /\ Len(stack) >= 1
         /\ stack' = <<>> <=> Len(stack) = 1
  <1>1. stack \in Seq(Frames) /\ Len(stack) \in Nat /\ Len(stack) >= 1
    BY DEF TypeOK, Frames
  <1>6. Len(stack) - 1 \in Int /\ \A i \in 1..(Len(stack) - 1) : stack[i] \in Frames
    BY <1>1
  <1>7. Len(Pop) = IF 1 <= Len(stack) - 1 THEN (Len(stack) - 1) - 1 + 1 ELSE 0
    BY <1>6, SubSeqProperties DEF Pop
  <1>2. Len(stack') = Len(stack) - 1
    <2> DEFINE n == Len(stack)
    <2>1. n \in Nat /\ n >= 1 /\ Len(Pop) = IF 1 <= n - 1 THEN (n - 1) - 1 + 1 ELSE 0
      BY <1>1, <1>7
    <2> HIDE DEF n
    <2>2. Len(Pop) = n - 1
      BY <2>1
    <2> QED
      BY <2>2 DEF n
  <1>5. \A i \in 1..(Len(stack) - 1) : stack'[i] = stack[i]
    BY <1>1, SubSeqProperties DEF Pop
  <1>3. stack' \in Seq(Frames)
    BY <1>1 DEF Pop
  <1>4. stack' = <<>> <=> Len(stack') = 0
    BY <1>3
  <1> QED
    BY <1>1, <1>2, <1>3, <1>4, <1>5

LEMMA NextLabelEffect ==
  ASSUME TypeOK, stack # <<>>, NextLabel
  PROVE  /\ stack' \in Seq(Frames) /\ Len(stack') = Len(stack)
         /\ \A i \in 1..(Len(stack) - 1) : stack'[i] = stack[i]
         /\ stack'[Len(stack)].finding = stack[Len(stack)].finding
         /\ stack'[Len(stack)].at = stack[Len(stack)].at + 1
         /\ Len(stack) \in Nat /\ Len(stack) >= 1 /\ stack' # <<>>
  <1>1. stack \in Seq(Frames) /\ Len(stack) \in Nat /\ Len(stack) >= 1
    BY DEF TypeOK, Frames
  <1>2. stack[Len(stack)] \in Frames
    BY <1>1
  <1>3. [stack[Len(stack)] EXCEPT !.at = @ + 1] \in Frames
    BY <1>2 DEF Frames
  <1>4. stack' = [stack EXCEPT ![Len(stack)] = [stack[Len(stack)] EXCEPT !.at = @ + 1]]
    BY DEF NextLabel
  <1>5. stack'[Len(stack)] = [stack[Len(stack)] EXCEPT !.at = @ + 1]
    BY <1>1, <1>4
  <1>6. stack' \in Seq(Frames) /\ Len(stack') = Len(stack)
    BY <1>1, <1>3, <1>4
  <1>7. \A i \in 1..(Len(stack) - 1) : stack'[i] = stack[i]
    BY <1>1, <1>4
  <1> QED
    BY <1>1, <1>2, <1>5, <1>6, <1>7 DEF Frames

LEMMA PushEffect ==
  ASSUME TypeOK, NEW f \in Findings, stack' = Append(stack, [finding |-> f, at |-> 1])
  PROVE  /\ stack' \in Seq(Frames) /\ Len(stack') = Len(stack) + 1
         /\ \A i \in 1..Len(stack) : stack'[i] = stack[i]
         /\ stack'[Len(stack) + 1].finding = f /\ stack'[Len(stack) + 1].at = 1
         /\ Len(stack) \in Nat /\ stack' # <<>>
  <1>1. stack \in Seq(Frames) /\ [finding |-> f, at |-> 1] \in Frames
    BY DEF TypeOK, Frames
  <1> QED
    BY <1>1

------------------------------------------------------------------------------
(***************************************************************************)
(* The steps.                                                              *)
(***************************************************************************)

LEMMA BeginStep == IInv /\ Begin => IInv'
  <1> SUFFICES ASSUME IInv, Begin PROVE IInv'
    OBVIOUS
  <1>1. /\ stack = <<>> /\ result = "none" /\ finding <= Count
        /\ stack' = <<[finding |-> finding, at |-> 1]>> /\ visited' = {}
        /\ UNCHANGED <<edges, finding, owner, result>> /\ TypeOK
    BY DEF Begin, IInv
  <1>2. finding \in Findings
    BY <1>1, EdgesAreLists DEF TypeOK, Findings
  <1>3. /\ Len(stack') = 1 /\ stack' \in Seq(Frames) /\ stack' # <<>>
        /\ stack'[1].finding = finding /\ stack'[1].at = 1
    BY <1>1, <1>2 DEF Frames
  <1>4. TypeOK'
    BY <1>1, <1>3 DEF TypeOK, Frames
  <1>5. WaitInv'
    BY <1>1, <1>3 DEF WaitInv, Waiting
  <1>6. OwnerInv'
    BY <1>1 DEF IInv, OwnerInv, Left
  <1>7. LoopInv'
    BY <1>1, <1>3 DEF IInv, LoopInv
  <1> QED
    BY <1>4, <1>5, <1>6, <1>7 DEF IInv

LEMMA SkipStep == IInv /\ Skip => IInv'
  <1> SUFFICES ASSUME IInv, Skip PROVE IInv'
    OBVIOUS
  <1> DEFINE n == Len(stack)
  <1>1. /\ TypeOK /\ stack # <<>> /\ result = "none" /\ NextLabel
        /\ UNCHANGED <<edges, finding, owner, visited, result>>
    BY DEF Skip, AtLabel, Searching, IInv
  <1>2. /\ stack' \in Seq(Frames) /\ Len(stack') = n /\ n \in Nat /\ n >= 1 /\ stack' # <<>>
        /\ \A i \in 1..(n - 1) : stack'[i] = stack[i]
        /\ stack'[n].finding = stack[n].finding /\ stack'[n].at = stack[n].at + 1
    BY <1>1, NextLabelEffect
  <1>3. TypeOK'
    BY <1>1, <1>2 DEF TypeOK, Frames
  <1>4. \A i \in 1..(n - 1) : At(i)' = At(i)
    BY <1>1, <1>2 DEF At
  <1>5. \A i \in 1..n : stack'[i].finding = stack[i].finding
    BY <1>2
  <1>6. WaitInv'
    BY <1>1, <1>2, <1>4, <1>5 DEF IInv, WaitInv, Waiting
  <1>7. OwnerInv'
    BY <1>1 DEF IInv, OwnerInv, Left
  <1>8. LoopInv'
    <2>1. stack[n].at \in Nat
      BY <1>1, <1>2, FrameTyped
    <2>2. \A i \in 1..n : stack'[i].finding = stack[i].finding /\ stack'[i].at >= 1
      BY <1>2, <1>5, <2>1 DEF IInv, LoopInv
    <2>3. stack' = <<>> <=> Len(stack') = 0
      BY <1>2
    <2> QED
      BY <1>1, <1>2, <2>2, <2>3, LoopKept DEF IInv
  <1> QED
    BY <1>3, <1>6, <1>7, <1>8 DEF IInv

LEMMA GiveUpStep == IInv /\ GiveUp => IInv'
  <1> SUFFICES ASSUME IInv, GiveUp PROVE IInv'
    OBVIOUS
  <1> DEFINE n == Len(stack)
  <1>1. /\ TypeOK /\ stack # <<>> /\ result = "none" /\ result' = "false" /\ stack' = Pop
        /\ UNCHANGED <<edges, finding, owner, visited>>
    BY DEF GiveUp, Searching, IInv
  <1>2. /\ stack' \in Seq(Frames) /\ Len(stack') = n - 1 /\ n \in Nat /\ n >= 1
        /\ \A i \in 1..(n - 1) : stack'[i] = stack[i]
        /\ stack' = <<>> <=> n = 1
    BY <1>1, PopEffect
  <1>3. TypeOK'
    BY <1>1, <1>2 DEF TypeOK, Frames
  <1>4. \A i \in 1..(n - 1) : At(i)' = At(i)
    BY <1>1, <1>2 DEF At
  <1>5. WaitInv'
    BY <1>1, <1>2, <1>4 DEF IInv, WaitInv, Waiting
  <1>6. OwnerInv'
    BY <1>1 DEF IInv, OwnerInv, Left
  <1>7. LoopInv'
    <2>1. \A i \in 1..Len(stack') : stack'[i].finding = stack[i].finding /\ stack'[i].at >= 1
      BY <1>1, <1>2 DEF IInv, LoopInv
    <2>2. stack' = <<>> <=> Len(stack') = 0
      BY <1>2
    <2> QED
      BY <1>1, <1>2, <2>1, <2>2, LoopKept DEF IInv
  <1> QED
    BY <1>3, <1>5, <1>6, <1>7 DEF IInv

LEMMA TryOnStep == IInv /\ TryOn => IInv'
  <1> SUFFICES ASSUME IInv, TryOn PROVE IInv'
    OBVIOUS
  <1> DEFINE n == Len(stack)
  <1>1. /\ TypeOK /\ stack # <<>> /\ result = "false" /\ result' = "none" /\ NextLabel
        /\ UNCHANGED <<edges, finding, owner, visited>>
    BY DEF TryOn, IInv
  <1>2. /\ stack' \in Seq(Frames) /\ Len(stack') = n /\ n \in Nat /\ n >= 1 /\ stack' # <<>>
        /\ \A i \in 1..(n - 1) : stack'[i] = stack[i]
        /\ stack'[n].finding = stack[n].finding /\ stack'[n].at = stack[n].at + 1
    BY <1>1, NextLabelEffect
  <1>3. TypeOK'
    BY <1>1, <1>2 DEF TypeOK, Frames
  <1>4. \A i \in 1..(n - 1) : At(i)' = At(i)
    BY <1>1, <1>2 DEF At
  <1>5. \A i \in 1..n : stack'[i].finding = stack[i].finding
    BY <1>2
  <1>6. WaitInv'
    BY <1>1, <1>2, <1>4, <1>5 DEF IInv, WaitInv, Waiting
  <1>7. OwnerInv'
    BY <1>1 DEF IInv, OwnerInv, Left
  <1>8. LoopInv'
    <2>1. stack[n].at \in Nat
      BY <1>1, <1>2, FrameTyped
    <2>2. \A i \in 1..n : stack'[i].finding = stack[i].finding /\ stack'[i].at >= 1
      BY <1>2, <1>5, <2>1 DEF IInv, LoopInv
    <2>3. stack' = <<>> <=> Len(stack') = 0
      BY <1>2
    <2> QED
      BY <1>1, <1>2, <2>2, <2>3, LoopKept DEF IInv
  <1> QED
    BY <1>3, <1>6, <1>7, <1>8 DEF IInv

LEMMA AdvanceStep == IInv /\ Advance => IInv'
  <1> SUFFICES ASSUME IInv, Advance PROVE IInv'
    OBVIOUS
  <1>1. /\ TypeOK /\ stack = <<>> /\ result # "none" /\ result' = "none"
        /\ finding' = finding + 1 /\ finding <= Count
        /\ UNCHANGED <<edges, owner, stack, visited>>
    BY DEF Advance, IInv, LoopInv
  <1>2. TypeOK'
    BY <1>1, EdgesAreLists DEF TypeOK
  <1>3. WaitInv'
    BY <1>1 DEF WaitInv, Waiting
  <1>4. OwnerInv'
    BY <1>1 DEF IInv, OwnerInv, Left
  <1>5. \A l \in Labels : owner[l] \in Nat
    BY <1>1 DEF TypeOK
  <1>6. LoopInv'
    BY <1>1, <1>5 DEF IInv, LoopInv, TypeOK
  <1> QED
    BY <1>2, <1>3, <1>4, <1>6 DEF IInv

\* The innermost call takes its label, which no other call waits at, and returns:
\* what Take and HandOver have in common.
LEMMA Assigns ==
  ASSUME IInv, stack # <<>>, Label \in Labels,
         stack[Len(stack)].at \in DOMAIN edges[stack[Len(stack)].finding],
         stack' = Pop, owner' = [owner EXCEPT ![Label] = Top.finding], result' = "true",
         UNCHANGED <<edges, finding>>, visited \subseteq visited', visited' \subseteq Labels,
         \A i \in 1..(Len(stack) - 1) : i \in Waiting /\ At(i) # Label,
         \A l \in Labels : l # Label => ~Left(l)
  PROVE  IInv'
  <1> DEFINE n == Len(stack)
             f == stack[n].finding
  <1>1. TypeOK /\ WaitInv /\ OwnerInv /\ LoopInv
    BY DEF IInv
  <1>2. /\ stack' \in Seq(Frames) /\ Len(stack') = n - 1 /\ n \in Nat /\ n >= 1
        /\ \A i \in 1..(n - 1) : stack'[i] = stack[i]
        /\ stack' = <<>> <=> n = 1
    BY <1>1, PopEffect
  <1>3. f \in Findings /\ f # 0 /\ f \in Nat /\ f <= Count
    BY <1>1, <1>2, FrameTyped, EdgesAreLists DEF Findings
  <1>4. Label = At(n)
    BY DEF Label, Top, At
  <1>5. owner' \in [Labels -> 0..Count] /\ \A l \in Labels : owner'[l] = IF l = Label THEN f ELSE owner[l]
    BY <1>1, <1>3, EdgesAreLists DEF TypeOK, Top
  <1>6. \A i \in 1..(n - 1) : At(i)' = At(i) /\ At(i) \in Labels
    BY <1>1, <1>2 DEF At, WaitInv, TypeOK
  <1>7. n > 1 => owner[At(n - 1)] = f /\ At(n - 1) \in Labels /\ At(n - 1) # Label
    BY <1>1, <1>2, <1>6 DEF WaitInv
  <1>8. TypeOK'
    BY <1>1, <1>2, <1>5 DEF TypeOK, Frames
  <1>9. WaitInv'
    <2>1. Waiting' = 1..(n - 1)
      BY <1>2 DEF Waiting
    <2>2. \A i \in 1..(n - 1) : (stack[i].at \in DOMAIN edges[stack[i].finding])' /\ At(i)' \in visited'
      BY <1>1, <1>2, <1>6 DEF WaitInv
    <2>3. \A i, j \in 1..(n - 1) : At(i)' = At(j)' => i = j
      BY <1>1, <1>6 DEF WaitInv
    <2>4. ASSUME NEW i \in 1..(Len(stack') - 1) PROVE (owner[At(i)] = stack[i + 1].finding)'
      <3>1. i \in 1..(n - 1) /\ i + 1 \in 1..(n - 1)
        BY <1>2
      <3>2. owner[At(i)] = stack[i + 1].finding /\ At(i) # Label /\ At(i) \in Labels
        BY <1>1, <1>6, <3>1 DEF WaitInv
      <3>3. stack'[i + 1] = stack[i + 1] /\ At(i)' = At(i)
        BY <1>2, <1>6, <3>1
      <3> QED
        BY <1>5, <3>2, <3>3
    <2> QED
      BY <1>2, <2>1, <2>2, <2>3, <2>4 DEF WaitInv
  <1>10. \A l : Left(l)' <=> n > 1 /\ l = At(n - 1)
    BY <1>2, <1>6 DEF Left
  <1>11. OwnerInv'
    <2>1. ASSUME NEW k \in Labels, NEW l \in Labels, owner'[k] = owner'[l], owner'[k] # 0,
                 ~Left(k)', ~Left(l)', k # l
          PROVE  FALSE
      <3>1. CASE k # Label /\ l # Label
        BY <1>1, <1>5, <2>1, <3>1 DEF OwnerInv
      <3>2. ASSUME NEW o \in Labels, o # Label, owner[o] = f, ~Left(o)' PROVE FALSE
        <4>1. CASE n > 1
          BY <1>1, <1>3, <1>7, <1>10, <3>2, <4>1 DEF OwnerInv
        <4>2. CASE n = 1
          BY <1>1, <3>2, <4>2 DEF LoopInv
        <4> QED
          BY <1>2, <4>1, <4>2
      <3> QED
        BY <1>5, <2>1, <3>1, <3>2
    <2>2. ASSUME NEW l \in Labels, owner'[l] # 0
          PROVE  \E i \in DOMAIN edges[owner'[l]] : edges[owner'[l]][i] = l
      <3>1. CASE l = Label
        BY <1>4, <1>5, <3>1 DEF At
      <3>2. CASE l # Label
        BY <1>1, <1>5, <2>2, <3>2 DEF OwnerInv
      <3> QED
        BY <3>1, <3>2
    <2>3. ASSUME NEW l \in Labels, Left(l)'
          PROVE  \E k \in Labels : k # l /\ owner'[k] = owner'[l] /\ owner'[k] # 0
      BY <1>3, <1>5, <1>7, <1>10, <2>3
    <2> QED
      BY <2>1, <2>2, <2>3 DEF OwnerInv
  <1>12. LoopInv'
    <2>1. f <= finding /\ finding <= Count
      <3>1. finding \in Nat /\ finding <= Count /\ stack[1].finding = finding
        BY <1>1 DEF LoopInv, TypeOK
      <3>2. \A l \in Labels : owner[l] <= finding
        BY <1>1 DEF LoopInv
      <3>3. CASE n > 1
        BY <1>7, <3>1, <3>2, <3>3
      <3>4. CASE n = 1
        BY <3>1, <3>4
      <3> QED
        BY <1>2, <3>3, <3>4
    <2>2. n > 1 => f # finding
      BY <1>1, <1>2 DEF LoopInv
    <2>3. stack' # <<>> \/ result' # "true" => \A l \in Labels : owner'[l] # finding'
      BY <1>1, <1>2, <1>5, <2>2 DEF LoopInv
    <2>4. \A l \in Labels : owner'[l] <= finding'
      BY <1>1, <1>5, <2>1 DEF LoopInv
    <2>5. stack' # <<>> => stack'[1].finding = finding'
      BY <1>1, <1>2 DEF LoopInv
    <2>6. \A i \in 1..Len(stack') : (i > 1 => stack'[i].finding # finding') /\ stack'[i].at >= 1
      BY <1>1, <1>2 DEF LoopInv
    <2> QED
      BY <2>1, <2>3, <2>4, <2>5, <2>6 DEF LoopInv
  <1> QED
    BY <1>8, <1>9, <1>11, <1>12 DEF IInv

\* The label of a call that has not run out of labels.
LEMMA LabelTyped ==
  ASSUME TypeOK, LoopInv, AtLabel
  PROVE  /\ Label \in Labels /\ Label = At(Len(stack))
         /\ stack[Len(stack)].at \in DOMAIN edges[stack[Len(stack)].finding]
  <1> DEFINE n == Len(stack)
  <1>1. n \in 1..Len(stack) /\ n \in Nat
    BY DEF AtLabel, Searching, TypeOK
  <1>2. stack[n].finding \in Findings /\ stack[n].at \in Nat
    BY <1>1, FrameTyped
  <1>3. edges[stack[n].finding] \in Seq(Labels)
    BY <1>2 DEF TypeOK
  <1>4. stack[n].at >= 1 /\ stack[n].at <= Len(edges[stack[n].finding])
    BY <1>1 DEF LoopInv, AtLabel, Top
  <1> HIDE DEF n
  <1>5. stack[n].at \in DOMAIN edges[stack[n].finding] /\ edges[stack[n].finding][stack[n].at] \in Labels
    BY <1>2, <1>3, <1>4
  <1> QED
    BY <1>5 DEF n, At, Label, Top

LEMMA TakeStep == IInv /\ Take => IInv'
  <1> SUFFICES ASSUME IInv, Take PROVE IInv'
    OBVIOUS
  <1>1. /\ AtLabel /\ TypeOK /\ WaitInv /\ LoopInv /\ stack # <<>> /\ result = "none"
        /\ Label \notin visited /\ visited' = visited \cup {Label}
        /\ owner' = [owner EXCEPT ![Label] = Top.finding] /\ stack' = Pop /\ result' = "true"
        /\ UNCHANGED <<edges, finding>>
    BY DEF Take, AtLabel, Searching, IInv
  <1>2. Label \in Labels /\ stack[Len(stack)].at \in DOMAIN edges[stack[Len(stack)].finding]
    BY <1>1, LabelTyped
  <1>3. \A i \in 1..(Len(stack) - 1) : i \in Waiting /\ At(i) # Label
    BY <1>1 DEF WaitInv, Waiting
  <1>4. \A l \in Labels : ~Left(l)
    BY <1>1 DEF Left
  <1>5. visited \subseteq visited' /\ visited' \subseteq Labels
    BY <1>1, <1>2 DEF TypeOK
  <1> QED
    BY <1>1, <1>2, <1>3, <1>4, <1>5, Assigns

LEMMA HandOverStep == IInv /\ HandOver => IInv'
  <1> SUFFICES ASSUME IInv, HandOver PROVE IInv'
    OBVIOUS
  <1> DEFINE n == Len(stack)
  <1>1. /\ TypeOK /\ WaitInv /\ stack # <<>> /\ result = "true"
        /\ owner' = [owner EXCEPT ![Label] = Top.finding] /\ stack' = Pop /\ result' = "true"
        /\ UNCHANGED <<edges, finding, visited>>
    BY DEF HandOver, IInv
  <1>2. n \in Nat /\ n >= 1 /\ Waiting = 1..n
    BY <1>1 DEF TypeOK, Waiting
  <1>3. /\ Label = At(n) /\ Label \in visited
        /\ stack[n].at \in DOMAIN edges[stack[n].finding]
    BY <1>1, <1>2 DEF WaitInv, At, Label, Top
  <1>4. \A i \in 1..(n - 1) : i \in Waiting /\ At(i) # Label
    BY <1>1, <1>2, <1>3 DEF WaitInv
  <1>5. \A l \in Labels : l # Label => ~Left(l)
    BY <1>3 DEF Left
  <1>6. Label \in Labels /\ visited' \subseteq Labels
    BY <1>1, <1>3 DEF TypeOK
  <1> QED
    BY <1>1, <1>3, <1>4, <1>5, <1>6, Assigns

LEMMA AskStep == IInv /\ Ask => IInv'
  <1> SUFFICES ASSUME IInv, Ask PROVE IInv'
    OBVIOUS
  <1> DEFINE n == Len(stack)
             g == owner[Label]
  <1>1. /\ AtLabel /\ TypeOK /\ WaitInv /\ OwnerInv /\ LoopInv /\ stack # <<>>
        /\ result = "none" /\ result' = "none" /\ Label \notin visited /\ g # 0
        /\ visited' = visited \cup {Label} /\ stack' = Append(stack, [finding |-> g, at |-> 1])
        /\ UNCHANGED <<edges, finding, owner>>
    BY DEF Ask, AtLabel, Searching, IInv
  <1>2. Label \in Labels /\ Label = At(n) /\ stack[n].at \in DOMAIN edges[stack[n].finding]
    BY <1>1, LabelTyped
  <1>3. g \in Findings
    BY <1>1, <1>2, EdgesAreLists DEF TypeOK, Findings
  <1> HIDE DEF g
  <1>4. /\ stack' \in Seq(Frames) /\ Len(stack') = n + 1 /\ stack' # <<>> /\ n \in Nat
        /\ \A i \in 1..n : stack'[i] = stack[i]
        /\ stack'[n + 1].finding = g /\ stack'[n + 1].at = 1
    BY <1>1, <1>3, PushEffect
  <1>5. \A i \in 1..n : At(i)' = At(i)
    BY <1>1, <1>4 DEF At
  <1>6. TypeOK'
    BY <1>1, <1>2, <1>4 DEF TypeOK, Frames
  <1>7. WaitInv'
    <2>1. Waiting = 1..(n - 1) /\ Waiting' = 1..n
      BY <1>1, <1>4 DEF Waiting
    <2>2. \A i \in 1..n : (stack[i].at \in DOMAIN edges[stack[i].finding])' /\ At(i)' \in visited'
      BY <1>1, <1>2, <1>4, <1>5, <2>1 DEF WaitInv
    <2>3. \A i, j \in 1..n : At(i)' = At(j)' => i = j
      BY <1>1, <1>2, <1>4, <1>5, <2>1 DEF WaitInv
    <2>4. \A i \in 1..n : owner'[At(i)'] = stack'[i + 1].finding
      BY <1>1, <1>2, <1>4, <1>5 DEF WaitInv, g
    <2> QED
      BY <1>4, <2>1, <2>2, <2>3, <2>4 DEF WaitInv
  <1>8. OwnerInv'
    BY <1>1 DEF OwnerInv, Left
  <1>9. LoopInv'
    <2>1. g # finding /\ stack[1].finding = finding /\ finding <= Count
      BY <1>1, <1>2 DEF LoopInv, g
    <2>2. stack'[1].finding = finding'
      BY <1>1, <1>4, <2>1
    <2>3. \A i \in 1..Len(stack') : (i > 1 => stack'[i].finding # finding') /\ stack'[i].at >= 1
      BY <1>1, <1>4, <2>1 DEF LoopInv
    <2> QED
      BY <1>1, <1>4, <2>1, <2>2, <2>3 DEF LoopInv
  <1> QED
    BY <1>6, <1>7, <1>8, <1>9 DEF IInv

------------------------------------------------------------------------------
(***************************************************************************)
(* The theorems.                                                           *)
(***************************************************************************)
LEMMA NextInvariant == IInv /\ [Next]_vars => IInv'
  <1> SUFFICES ASSUME IInv, [Next]_vars PROVE IInv'
    OBVIOUS
  <1>1. CASE UNCHANGED vars
    BY <1>1 DEF vars, IInv, TypeOK, WaitInv, Waiting, OwnerInv, LoopInv, Left, At
  <1> QED
    BY <1>1, BeginStep, SkipStep, TakeStep, AskStep, GiveUpStep, HandOverStep, TryOnStep,
       AdvanceStep DEF Next

LEMMA Invariant == Spec => []IInv
  BY InitInvariant, NextInvariant, PTL DEF Spec

\* Owners are findings, and calls wait at places of a list, whatever the findings,
\* the labels and what matches what (_maximum_matching).
THEOREM MatchingTypeCorrect == Spec => []TypeOK
  <1>1. IInv => TypeOK
    BY DEF IInv
  <1> QED
    BY <1>1, Invariant, PTL

\* The pairing left by each search is one-to-one and pairs only what matches, for
\* any number of findings and any labels (_maximum_matching, assign).
THEOREM PairingIsOneToOne == Spec => []OneToOne
  <1>1. IInv => OneToOne
    <2> SUFFICES ASSUME IInv, stack = <<>> PROVE
          \A l \in Labels : owner[l] # 0 =>
            /\ \E i \in DOMAIN edges[owner[l]] : edges[owner[l]][i] = l
            /\ \A k \in Labels : owner[k] = owner[l] => k = l
      BY DEF OneToOne
    <2>1. \A l : ~Left(l)
      BY DEF Left
    <2> QED
      BY <2>1 DEF IInv, OwnerInv
  <1> QED
    BY <1>1, Invariant, PTL

\* A finding's label is taken over only when it has found another (assign).
LEMMA OwnedStays ==
  ASSUME IInv, [Next]_vars, NEW f \in Findings, Owns(f)
  PROVE  Owns(f)'
  <1>0. PICK l \in Labels : owner[l] = f
    BY DEF Owns
  <1> SUFFICES \E k \in Labels : owner'[k] = f
    BY DEF Owns
  <1>1. f # 0 /\ owner \in [Labels -> 0..Count]
    BY DEF Findings, IInv, TypeOK
  <1>2. CASE owner' = owner
    BY <1>0, <1>2
  <1>3. CASE Take
    BY <1>0, <1>1, <1>3 DEF Take
  <1>4. CASE HandOver
    <2>1. owner' = [owner EXCEPT ![Label] = Top.finding] /\ stack # <<>> /\ result = "true"
      BY <1>4 DEF HandOver
    <2>2. CASE l # Label
      BY <1>0, <1>1, <2>1, <2>2
    <2>3. CASE l = Label
      <3>1. Left(l)
        BY <2>1, <2>3 DEF Left, At, Label, Top
      <3>2. \E k \in Labels : k # l /\ owner[k] = owner[l]
        BY <3>1 DEF IInv, OwnerInv
      <3> QED
        BY <1>0, <1>1, <2>1, <2>3, <3>2
    <2> QED
      BY <2>2, <2>3
  <1> QED
    BY <1>2, <1>3, <1>4 DEF Next, Begin, Skip, Ask, GiveUp, TryOn, Advance, vars

\* No step of any search leaves a finding without the label it had, for any
\* findings and labels (assign).
THEOREM LabelledStaysLabelled == Spec => MatchedStays
  <1>1. IInv /\ [Next]_vars => [\A f \in Findings : Owns(f) => Owns(f)']_vars
    BY OwnedStays
  <1> QED
    BY <1>1, Invariant, PTL DEF Spec, MatchedStays

\* A label is visited before each nested call, so that calls never nest deeper.
LEMMA DepthStep == IInv /\ DepthInv /\ [Next]_vars => DepthInv'
  <1> SUFFICES ASSUME IInv, DepthInv, [Next]_vars PROVE DepthInv'
    OBVIOUS
  <1>1. TypeOK /\ IsFiniteSet(visited) /\ Cardinality(visited) \in Nat /\ Len(stack) \in Nat
        /\ Len(stack) <= Cardinality(visited) + 1
    BY FS_CardinalityType DEF IInv, DepthInv, TypeOK
  <1>2. ASSUME IsFiniteSet(visited'), Len(stack') \in Nat, Cardinality(visited) <= Cardinality(visited'),
               Cardinality(visited') \in Nat, Len(stack') <= Len(stack)
        PROVE  DepthInv'
    BY <1>1, <1>2 DEF DepthInv
  <1>3. CASE Begin
    <2>1. Len(stack') = 1 /\ visited' = {}
      BY <1>3 DEF Begin
    <2> QED
      BY <2>1, FS_EmptySet DEF DepthInv
  <1>4. CASE Ask
    <2>1. /\ stack' = Append(stack, [finding |-> owner[Label], at |-> 1])
          /\ visited' = visited \cup {Label} /\ Label \notin visited
      BY <1>4 DEF Ask
    <2>2. Len(stack') = Len(stack) + 1
      <3>1. AtLabel /\ LoopInv
        BY <1>4 DEF Ask, IInv
      <3>2. owner[Label] \in Findings
        BY <1>1, <1>4, <3>1, LabelTyped, EdgesAreLists DEF Ask, TypeOK, Findings
      <3> QED
        BY <1>1, <2>1, <3>2, PushEffect
    <2>3. Cardinality(visited') = Cardinality(visited) + 1 /\ IsFiniteSet(visited')
      BY <1>1, <2>1, FS_AddElement
    <2> QED
      BY <1>1, <2>2, <2>3 DEF DepthInv
  <1>5. CASE Skip \/ TryOn
    <2>1. NextLabel /\ stack # <<>> /\ visited' = visited
      BY <1>5 DEF Skip, AtLabel, Searching, TryOn
    <2> QED
      BY <1>1, <1>2, <2>1, NextLabelEffect
  <1>6. CASE GiveUp \/ HandOver
    <2>1. stack' = Pop /\ stack # <<>> /\ visited' = visited
      BY <1>6 DEF GiveUp, Searching, HandOver
    <2> QED
      BY <1>1, <1>2, <2>1, PopEffect
  <1>7. CASE Take
    <2>1. stack' = Pop /\ stack # <<>> /\ visited' = visited \cup {Label} /\ Label \notin visited
      BY <1>7 DEF Take, AtLabel, Searching
    <2>2. Cardinality(visited') = Cardinality(visited) + 1 /\ IsFiniteSet(visited')
      BY <1>1, <2>1, FS_AddElement
    <2>3. Len(stack') = Len(stack) - 1 /\ Len(stack) >= 1
      BY <1>1, <2>1, PopEffect
    <2> QED
      BY <1>1, <1>2, <2>2, <2>3
  <1>8. CASE Advance \/ UNCHANGED vars
    BY <1>1, <1>8 DEF Advance, vars, DepthInv
  <1> QED
    BY <1>3, <1>4, <1>5, <1>6, <1>7, <1>8 DEF Next

\* The recursion of assign is never deeper than the labels of the case and one
\* more, whatever matches what (assign, visited).
THEOREM RecursionIsBounded == Spec => []DepthBounded
  <1>1. Init => DepthInv
    <2> SUFFICES ASSUME Init PROVE DepthInv
      OBVIOUS
    <2>1. Len(stack) = 0 /\ visited = {}
      BY DEF Init
    <2> QED
      BY <2>1, FS_EmptySet DEF DepthInv
  <1>2. IInv /\ DepthInv => DepthBounded
    <2> SUFFICES ASSUME IInv, DepthInv PROVE DepthBounded
      OBVIOUS
    <2>1. visited \subseteq Labels /\ Len(stack) \in Nat
      BY DEF IInv, TypeOK
    <2>2. /\ Cardinality(visited) <= Cardinality(Labels)
          /\ Cardinality(visited) \in Nat /\ Cardinality(Labels) \in Nat
      BY <2>1, EdgesAreLists, FS_Subset, FS_CardinalityType
    <2> QED
      BY <2>1, <2>2 DEF DepthInv, DepthBounded
  <1> QED
    BY <1>1, <1>2, DepthStep, Invariant, PTL DEF Spec

------------------------------------------------------------------------------
(***************************************************************************)
(* The search finds a maximum.  The labels visited by the searches that    *)
(* failed are all owned, and their owners and the findings without a label *)
(* match nothing outside them: so no choice of labels can do better.       *)
(***************************************************************************)

\* What a finding matches.
Near(f) == {edges[f][i] : i \in DOMAIN edges[f]}

\* A label that was tried is owned, and either a call waits at it or its owner
\* has tried everything it matches.
VisitedInv ==
  \A l \in visited :
    owner[l] # 0 /\ ((\E i \in Waiting : At(i) = l) \/ Near(owner[l]) \subseteq visited)

\* The labels before the place of a call under way were tried.
TriedInv ==
  \A i \in 1..Len(stack) : \A k \in DOMAIN edges[stack[i].finding] :
    k < stack[i].at => edges[stack[i].finding][k] \in visited

\* A call that found nothing has tried everything.
FailedInv ==
  result = "false" =>
    /\ stack = <<>> => Near(finding) \subseteq visited
    /\ stack # <<>> => Near(owner[At(Len(stack))]) \subseteq visited

SearchInv ==
  (stack # <<>> \/ result = "false") /\ result # "true" => VisitedInv /\ TriedInv /\ FailedInv

\* A set of owned labels that the findings without a label, and the owners of its
\* own, do not match anything outside of.
Sealed(D) ==
  /\ \A l \in D : owner[l] # 0 /\ Near(owner[l]) \subseteq D
  /\ \A f \in Findings : f < finding /\ ~Owns(f) => Near(f) \subseteq D
  /\ result # "true" =>
       \A i, j \in 1..Len(stack) : i < j /\ At(i) \in D => Near(stack[j].finding) \subseteq D
  /\ result = "true" => \A i \in 1..Len(stack) : At(i) \notin D

SealInv == \E D \in SUBSET Labels : Sealed(D)

\* A search that succeeded gave its finding a label.
FoundInv == stack = <<>> /\ result = "true" => Owns(finding)

\* While a search goes on, what it has tried leads only to what it has tried or is
\* trying.
LEMMA SearchStep == IInv /\ SearchInv /\ [Next]_vars => SearchInv'
  <1> SUFFICES ASSUME IInv, SearchInv, [Next]_vars,
                      stack' # <<>> \/ result' = "false", result' # "true"
               PROVE  VisitedInv' /\ TriedInv' /\ FailedInv'
    BY DEF SearchInv
  <1> DEFINE n == Len(stack)
  <1>0. /\ TypeOK /\ WaitInv /\ LoopInv /\ n \in Nat /\ (stack = <<>> <=> n = 0)
        /\ result \in {"none", "true", "false"}
    BY DEF IInv, TypeOK
  <1>1. CASE UNCHANGED vars
    <2>1. /\ UNCHANGED <<edges, finding, owner, stack, visited, result>>
          /\ \A i : At(i)' = At(i)
          /\ \A f : Near(f)' = Near(f)
          /\ Waiting' = Waiting
      BY <1>1 DEF vars, At, Near, Waiting
    <2>2. VisitedInv /\ TriedInv /\ FailedInv
      BY <2>1 DEF SearchInv
    <2>3. Near(owner[At(Len(stack))])' = Near(owner[At(Len(stack))]) /\ Near(finding)' = Near(finding)
      BY <2>1 DEF Near, At
    <2>4. FailedInv'
      BY <2>1, <2>2, <2>3 DEF FailedInv
    <2> QED
      BY <2>1, <2>2, <2>4 DEF VisitedInv, TriedInv
  <1>2. CASE Begin
    <2>1. /\ stack' = <<[finding |-> finding, at |-> 1]>> /\ visited' = {} /\ result' = "none"
      BY <1>2 DEF Begin
    <2>2. \A i \in 1..Len(stack') : stack'[i].at = 1
      BY <2>1
    <2>3. finding \in Findings /\ UNCHANGED <<edges, finding>>
      BY <1>0, <1>2, EdgesAreLists DEF Begin, TypeOK, Findings
    <2>4. \A i \in 1..Len(stack') : stack'[i].finding = finding
      BY <2>1
    <2>5. \A k \in DOMAIN edges[finding] : ~(k < 1)
      BY <1>0, <2>3 DEF TypeOK
    <2> QED
      BY <2>1, <2>2, <2>3, <2>4, <2>5 DEF VisitedInv, TriedInv, FailedInv
  <1>3. CASE Skip
    <2>1. /\ AtLabel /\ stack # <<>> /\ result = "none" /\ NextLabel /\ Label \in visited
          /\ UNCHANGED <<edges, finding, owner, visited, result>>
      BY <1>3 DEF Skip, AtLabel, Searching
    <2>2. /\ stack' \in Seq(Frames) /\ Len(stack') = n /\ n >= 1
          /\ \A i \in 1..(n - 1) : stack'[i] = stack[i]
          /\ stack'[n].finding = stack[n].finding /\ stack'[n].at = stack[n].at + 1
      BY <1>0, <2>1, NextLabelEffect
    <2>3. /\ Label = edges[stack[n].finding][stack[n].at] /\ stack[n].at \in Nat
          /\ DOMAIN edges[stack[n].finding] \subseteq Nat
      <3>1. stack[n].finding \in Findings /\ stack[n].at \in Nat
        BY <1>0, <2>2, FrameTyped
      <3> QED
        BY <1>0, <3>1 DEF Label, Top, TypeOK
    <2>4. VisitedInv /\ TriedInv
      BY <2>1 DEF SearchInv
    <2>5. VisitedInv'
      <3>1. Waiting = 1..(n - 1) /\ Waiting' = 1..(n - 1)
        BY <1>0, <2>1, <2>2 DEF Waiting
      <3>2. \A i \in 1..(n - 1) : At(i)' = At(i)
        BY <2>1, <2>2 DEF At
      <3>3. \A f : Near(f)' = Near(f)
        BY <2>1 DEF Near
      <3> QED
        BY <2>1, <2>4, <3>1, <3>2, <3>3 DEF VisitedInv
    <2>6. ASSUME NEW i \in 1..n, NEW k \in DOMAIN edges[stack'[i].finding], k < stack'[i].at
          PROVE  edges[stack'[i].finding][k] \in visited
      <3>1. CASE i < n
        BY <1>0, <2>2, <2>4, <2>6, <3>1 DEF TriedInv
      <3>2. CASE i = n
        <4>1. k = stack[n].at \/ k < stack[n].at
          BY <2>2, <2>3, <2>6, <3>2
        <4> QED
          BY <1>0, <2>1, <2>2, <2>3, <2>4, <2>6, <3>2, <4>1 DEF TriedInv
      <3> QED
        BY <1>0, <3>1, <3>2
    <2> QED
      BY <2>1, <2>2, <2>5, <2>6 DEF TriedInv, FailedInv
  <1>4. CASE Ask
    <2> DEFINE g == owner[Label]
    <2>1. /\ AtLabel /\ stack # <<>> /\ result = "none" /\ result' = "none" /\ g # 0
          /\ visited' = visited \cup {Label} /\ stack' = Append(stack, [finding |-> g, at |-> 1])
          /\ UNCHANGED <<edges, finding, owner>>
      BY <1>4 DEF Ask, AtLabel, Searching
    <2>2. Label \in Labels /\ Label = At(n)
      BY <1>0, <2>1, LabelTyped
    <2>3. g \in Findings
      BY <1>0, <2>1, <2>2, EdgesAreLists DEF TypeOK, Findings
    <2>4. g = owner[Label]
      OBVIOUS
    <2> HIDE DEF g
    <2>5. /\ stack' \in Seq(Frames) /\ Len(stack') = n + 1
          /\ \A i \in 1..n : stack'[i] = stack[i]
          /\ stack'[n + 1].finding = g /\ stack'[n + 1].at = 1
      BY <1>0, <2>1, <2>3, PushEffect
    <2>6. VisitedInv /\ TriedInv
      BY <2>1 DEF SearchInv
    <2>7. Waiting = 1..(n - 1) /\ Waiting' = 1..n
      BY <1>0, <2>1, <2>5 DEF Waiting
    <2>8. \A i \in 1..n : At(i)' = At(i)
      BY <2>1, <2>5 DEF At
    <2>9. n \in 1..n /\ \A f : Near(f)' = Near(f)
      BY <1>0, <2>1 DEF Near
    <2>10. VisitedInv'
      BY <1>0, <2>1, <2>2, <2>4, <2>6, <2>7, <2>8, <2>9 DEF VisitedInv
    <2>11. \A k \in DOMAIN edges[g] : ~(k < 1)
      BY <1>0, <2>3 DEF TypeOK
    <2>12. ASSUME NEW i \in 1..(n + 1), NEW k \in DOMAIN edges[stack'[i].finding], k < stack'[i].at
           PROVE  edges[stack'[i].finding][k] \in visited'
      <3>1. CASE i = n + 1
        BY <2>5, <2>11, <2>12, <3>1
      <3>2. CASE i \in 1..n
        BY <2>1, <2>5, <2>6, <2>12, <3>2 DEF TriedInv
      <3> QED
        BY <1>0, <3>1, <3>2
    <2> QED
      BY <2>1, <2>5, <2>10, <2>12 DEF TriedInv, FailedInv
  <1>5. CASE GiveUp
    <2>1. /\ stack # <<>> /\ result = "none" /\ result' = "false" /\ stack' = Pop
          /\ stack[n].at > Len(edges[stack[n].finding])
          /\ UNCHANGED <<edges, finding, owner, visited>>
      BY <1>5 DEF GiveUp, Searching, Top
    <2>2. /\ stack' \in Seq(Frames) /\ Len(stack') = n - 1 /\ n >= 1
          /\ \A i \in 1..(n - 1) : stack'[i] = stack[i]
          /\ stack' = <<>> <=> n = 1
      BY <1>0, <2>1, PopEffect
    <2>3. VisitedInv /\ TriedInv
      BY <2>1 DEF SearchInv
    <2>4. Waiting = 1..(n - 1) /\ Waiting' = 1..(n - 1)
      BY <1>0, <2>1, <2>2 DEF Waiting
    <2>5. \A i \in 1..(n - 1) : At(i)' = At(i)
      BY <2>1, <2>2 DEF At
    <2>6. \A f : Near(f)' = Near(f)
      BY <2>1 DEF Near
    <2>7. VisitedInv'
      BY <2>1, <2>3, <2>4, <2>5, <2>6 DEF VisitedInv
    <2>8. TriedInv'
      BY <1>0, <2>1, <2>2, <2>3 DEF TriedInv
    <2>9. Near(stack[n].finding) \subseteq visited
      <3>1. stack[n].finding \in Findings /\ stack[n].at \in Nat
        BY <1>0, <2>2, FrameTyped
      <3>2. edges[stack[n].finding] \in Seq(Labels)
        BY <1>0, <3>1 DEF TypeOK
      <3>3. \A k \in DOMAIN edges[stack[n].finding] : k < stack[n].at
        BY <2>1, <3>1, <3>2
      <3> QED
        BY <1>0, <2>2, <2>3, <3>3 DEF TriedInv, Near
    <2>10. CASE n = 1
      <3>1. stack[1].finding = finding
        BY <1>0, <2>1 DEF LoopInv
      <3> QED
        BY <2>1, <2>2, <2>6, <2>7, <2>8, <2>9, <2>10, <3>1 DEF FailedInv
    <2>11. CASE n > 1
      <3>1. owner[At(n - 1)] = stack[n].finding
        BY <1>0, <2>11 DEF WaitInv
      <3>2. stack'[Len(stack')] = stack[n - 1]
        BY <1>0, <2>2, <2>11
      <3>3. At(Len(stack))' = edges[stack[n - 1].finding][stack[n - 1].at]
        BY <2>1, <3>2 DEF At
      <3>4. owner[edges[stack[n - 1].finding][stack[n - 1].at]] = stack[n].finding
        BY <3>1 DEF At
      <3>5. Near(owner[At(Len(stack))])' \subseteq visited'
        BY <2>1, <2>9, <3>3, <3>4 DEF Near
      <3>6. FailedInv'
        BY <1>0, <2>2, <2>11, <3>5 DEF FailedInv
      <3> QED
        BY <2>7, <2>8, <3>6
    <2> QED
      BY <1>0, <2>2, <2>10, <2>11
  <1>6. CASE TryOn
    <2>1. /\ stack # <<>> /\ result = "false" /\ result' = "none" /\ NextLabel
          /\ UNCHANGED <<edges, finding, owner, visited>>
      BY <1>6 DEF TryOn
    <2>2. /\ stack' \in Seq(Frames) /\ Len(stack') = n /\ n >= 1
          /\ \A i \in 1..(n - 1) : stack'[i] = stack[i]
          /\ stack'[n].finding = stack[n].finding /\ stack'[n].at = stack[n].at + 1
      BY <1>0, <2>1, NextLabelEffect
    <2>3. /\ stack[n].at \in Nat /\ DOMAIN edges[stack[n].finding] \subseteq Nat
      <3>1. stack[n].finding \in Findings /\ stack[n].at \in Nat
        BY <1>0, <2>2, FrameTyped
      <3> QED
        BY <1>0, <3>1 DEF TypeOK
    <2>4. VisitedInv /\ TriedInv /\ Near(owner[At(n)]) \subseteq visited
      BY <2>1 DEF SearchInv, FailedInv
    <2>5. Waiting = 1..n /\ Waiting' = 1..(n - 1)
      BY <1>0, <2>1, <2>2 DEF Waiting
    <2>6. At(n) \in visited
      BY <1>0, <2>2, <2>5 DEF WaitInv
    <2>7. \A i \in 1..(n - 1) : At(i)' = At(i)
      BY <2>1, <2>2 DEF At
    <2>8. \A f : Near(f)' = Near(f)
      BY <2>1 DEF Near
    <2>9. \A i \in 1..n : i = n \/ i \in 1..(n - 1)
      BY <1>0
    <2>10. VisitedInv'
      BY <2>1, <2>4, <2>5, <2>7, <2>8, <2>9 DEF VisitedInv
    <2>11. ASSUME NEW i \in 1..n, NEW k \in DOMAIN edges[stack'[i].finding], k < stack'[i].at
           PROVE  edges[stack'[i].finding][k] \in visited
      <3>1. CASE i < n
        BY <1>0, <2>2, <2>4, <2>11, <3>1 DEF TriedInv
      <3>2. CASE i = n
        <4>1. k = stack[n].at \/ k < stack[n].at
          BY <2>2, <2>3, <2>11, <3>2
        <4> QED
          BY <1>0, <2>2, <2>4, <2>6, <2>11, <3>2, <4>1 DEF TriedInv, At
      <3> QED
        BY <1>0, <3>1, <3>2
    <2> QED
      BY <2>1, <2>2, <2>10, <2>11 DEF TriedInv, FailedInv
  <1>7. CASE Take \/ HandOver \/ Advance
    BY <1>7 DEF Take, HandOver, Advance
  <1> QED
    BY <1>1, <1>2, <1>3, <1>4, <1>5, <1>6, <1>7 DEF Next

\* The search of a finding that succeeds ends in the call for that finding.
LEMMA FoundStep == IInv /\ FoundInv /\ [Next]_vars => FoundInv'
  <1> SUFFICES ASSUME IInv, FoundInv, [Next]_vars, stack' = <<>>, result' = "true"
               PROVE  Owns(finding)'
    BY DEF FoundInv
  <1> DEFINE n == Len(stack)
  <1>1. CASE UNCHANGED vars
    BY <1>1 DEF vars, FoundInv, Owns
  <1>2. CASE Take \/ HandOver
    <2>1. /\ stack # <<>> /\ stack' = Pop /\ UNCHANGED finding
          /\ owner' = [owner EXCEPT ![Label] = Top.finding] /\ TypeOK /\ LoopInv /\ WaitInv
      BY <1>2 DEF Take, HandOver, AtLabel, Searching, IInv
    <2>2. Label \in Labels
      <3>1. CASE Take
        BY <2>1, <3>1, LabelTyped DEF Take
      <3>2. CASE HandOver
        <4>1. Waiting = 1..n /\ n \in 1..n
          BY <2>1, <3>2 DEF HandOver, Waiting, TypeOK
        <4> QED
          BY <2>1, <4>1 DEF WaitInv, At, Label, Top, TypeOK
      <3> QED
        BY <1>2, <3>1, <3>2
    <2>3. n = 1
      BY <2>1, PopEffect
    <2>4. Top.finding = finding
      BY <2>1, <2>3 DEF LoopInv, Top
    <2>5. owner'[Label] = finding
      BY <2>1, <2>2, <2>4 DEF TypeOK
    <2> QED
      BY <2>1, <2>2, <2>5 DEF Owns
  <1>3. CASE Begin \/ Skip \/ Ask \/ GiveUp \/ TryOn \/ Advance
    <2>1. CASE Begin
      BY <2>1 DEF Begin
    <2>2. CASE Skip
      BY <2>2 DEF Skip, AtLabel, Searching
    <2>3. CASE Ask \/ GiveUp \/ TryOn \/ Advance
      BY <2>3 DEF Ask, AtLabel, Searching, GiveUp, TryOn, Advance
    <2> QED
      BY <1>3, <2>1, <2>2, <2>3
  <1> QED
    BY <1>1, <1>2, <1>3 DEF Next

\* A failed search adds what it visited to the sealed labels; no search that
\* succeeds takes one of them.
LEMMA SealStep == IInv /\ SearchInv /\ SealInv /\ FoundInv /\ [Next]_vars => SealInv'
  <1> SUFFICES ASSUME IInv, SearchInv, FoundInv, [Next]_vars, NEW D \in SUBSET Labels, Sealed(D)
               PROVE  \E E \in SUBSET Labels : Sealed(E)'
    BY DEF SealInv
  <1> DEFINE n == Len(stack)
  <1>0. /\ TypeOK /\ WaitInv /\ LoopInv /\ n \in Nat /\ (stack = <<>> <=> n = 0)
        /\ result \in {"none", "true", "false"}
    BY DEF IInv, TypeOK
  <1>1. /\ \A l \in D : owner[l] # 0 /\ Near(owner[l]) \subseteq D
        /\ \A f \in Findings : f < finding /\ ~Owns(f) => Near(f) \subseteq D
        /\ result # "true" =>
             \A i, j \in 1..n : i < j /\ At(i) \in D => Near(stack[j].finding) \subseteq D
        /\ result = "true" => \A i \in 1..n : At(i) \notin D
    BY DEF Sealed
  <1>2. UNCHANGED edges /\ \A f : Near(f)' = Near(f)
    <2>1. UNCHANGED edges
      BY DEF Next, Begin, Skip, Take, Ask, GiveUp, HandOver, TryOn, Advance, vars
    <2> QED
      BY <2>1 DEF Near
  <1>3. \A f \in Findings : ~Owns(f)' => ~Owns(f)
    BY OwnedStays
  <1>4. CASE UNCHANGED vars
    <2>1. UNCHANGED <<edges, finding, owner, stack, visited, result>> /\ \A i : At(i)' = At(i)
      BY <1>4 DEF vars, At
    <2> QED
      BY <1>1, <1>2, <1>3, <2>1 DEF Sealed
  <1>5. CASE Begin
    <2>1. Len(stack') = 1 /\ result' = "none" /\ UNCHANGED <<owner, finding>>
      BY <1>5 DEF Begin
    <2> QED
      BY <1>1, <1>2, <1>3, <2>1 DEF Sealed
  <1>6. CASE Skip \/ TryOn
    <2>1. stack # <<>> /\ result # "true" /\ result' # "true" /\ NextLabel /\ UNCHANGED <<owner, finding>>
      BY <1>6 DEF Skip, TryOn, AtLabel, Searching
    <2>2. /\ Len(stack') = n
          /\ \A i \in 1..(n - 1) : stack'[i] = stack[i]
          /\ stack'[n].finding = stack[n].finding
      BY <1>0, <2>1, NextLabelEffect
    <2>3. \A i \in 1..n : /\ stack'[i].finding = stack[i].finding
                          /\ i < n => At(i)' = At(i)
      BY <1>0, <1>2, <2>2 DEF At
    <2>4. \A i, j \in 1..n : i < j /\ At(i)' \in D => Near(stack'[j].finding) \subseteq D
      BY <1>0, <1>1, <2>1, <2>3
    <2> QED
      BY <1>1, <1>2, <1>3, <2>1, <2>2, <2>4 DEF Sealed
  <1>7. CASE Ask
    <2> DEFINE g == owner[Label]
    <2>1. /\ AtLabel /\ stack # <<>> /\ result = "none" /\ result' = "none" /\ g # 0
          /\ stack' = Append(stack, [finding |-> g, at |-> 1])
          /\ UNCHANGED <<finding, owner>>
      BY <1>7 DEF Ask, AtLabel, Searching
    <2>2. /\ Label \in Labels /\ Label = At(n)
          /\ stack[n].at \in DOMAIN edges[stack[n].finding]
      BY <1>0, <2>1, LabelTyped
    <2>3. g \in Findings
      BY <1>0, <2>1, <2>2, EdgesAreLists DEF TypeOK, Findings
    <2>4. Label \in Near(stack[n].finding)
      BY <2>2 DEF Near, At
    <2>5. g = owner[Label]
      OBVIOUS
    <2> HIDE DEF g
    <2>6. /\ Len(stack') = n + 1
          /\ \A i \in 1..n : stack'[i] = stack[i]
          /\ stack'[n + 1].finding = g
      BY <1>0, <2>1, <2>3, PushEffect
    <2>7. \A i \in 1..n : At(i)' = At(i)
      BY <1>2, <2>6 DEF At
    <2>8. \A i \in 1..n : At(i) \in D => Near(g) \subseteq D
      <3> SUFFICES ASSUME NEW i \in 1..n, At(i) \in D PROVE Near(g) \subseteq D
        OBVIOUS
      <3>1. Label \in D
        <4>1. CASE i = n
          BY <2>2, <4>1
        <4>2. CASE i < n
          BY <1>0, <1>1, <2>1, <2>4, <4>2
        <4> QED
          BY <1>0, <4>1, <4>2
      <3> QED
        BY <1>1, <2>5, <3>1
    <2>9. ASSUME NEW i \in 1..(n + 1), NEW j \in 1..(n + 1), i < j, At(i)' \in D
          PROVE  Near(stack'[j].finding) \subseteq D
      <3>1. i \in 1..n
        BY <1>0, <2>9
      <3>2. At(i) \in D
        BY <2>7, <2>9, <3>1
      <3>3. CASE j = n + 1
        BY <2>6, <2>8, <3>1, <3>2, <3>3
      <3>4. CASE j \in 1..n
        BY <1>1, <2>1, <2>6, <2>9, <3>1, <3>2, <3>4
      <3> QED
        BY <1>0, <3>3, <3>4
    <2> QED
      BY <1>1, <1>2, <1>3, <2>1, <2>6, <2>9 DEF Sealed
  <1>8. CASE GiveUp
    <2>1. /\ stack # <<>> /\ result = "none" /\ result' = "false" /\ stack' = Pop
          /\ UNCHANGED <<finding, owner>>
      BY <1>8 DEF GiveUp, Searching
    <2>2. /\ Len(stack') = n - 1
          /\ \A i \in 1..(n - 1) : stack'[i] = stack[i]
      BY <1>0, <2>1, PopEffect
    <2>3. \A i \in 1..(n - 1) : At(i)' = At(i)
      BY <1>2, <2>2 DEF At
    <2>4. \A i, j \in 1..(n - 1) : i < j /\ At(i)' \in D => Near(stack'[j].finding) \subseteq D
      BY <1>0, <1>1, <2>1, <2>2, <2>3
    <2> QED
      BY <1>1, <1>2, <1>3, <2>1, <2>2, <2>4 DEF Sealed
  <1>9. CASE Take \/ HandOver
    <2>1. /\ stack # <<>> /\ stack' = Pop /\ UNCHANGED finding /\ result' = "true"
          /\ owner' = [owner EXCEPT ![Label] = Top.finding]
      BY <1>9 DEF Take, HandOver, AtLabel, Searching
    <2>2. /\ Len(stack') = n - 1 /\ n >= 1
          /\ \A i \in 1..(n - 1) : stack'[i] = stack[i]
      BY <1>0, <2>1, PopEffect
    <2>3. Label = At(n)
      BY DEF Label, At, Top
    <2>4. Label \notin D /\ \A i \in 1..(n - 1) : At(i) \notin D
      <3>1. CASE Take
        <4>1. owner[Label] = 0 /\ result = "none" /\ AtLabel
          BY <3>1 DEF Take, AtLabel, Searching
        <4>2. Label \in Near(stack[n].finding)
          BY <1>0, <2>3, <4>1, LabelTyped DEF Near, At
        <4>3. Label \notin D
          BY <1>1, <4>1
        <4> QED
          BY <1>0, <1>1, <2>2, <4>1, <4>2, <4>3
      <3>2. CASE HandOver
        <4>1. result = "true"
          BY <3>2 DEF HandOver
        <4> QED
          BY <1>0, <1>1, <2>2, <2>3, <4>1
      <3> QED
        BY <1>9, <3>1, <3>2
    <2>5. \A l \in D : owner'[l] = owner[l]
      BY <1>0, <2>1, <2>4 DEF TypeOK
    <2>6. \A i \in 1..(n - 1) : At(i)' = At(i)
      BY <1>2, <2>2 DEF At
    <2>7. \A l \in D : owner'[l] # 0 /\ Near(owner[l])' \subseteq D
      BY <1>1, <1>2, <2>5 DEF Near
    <2>8. \A f \in Findings : f < finding' /\ ~Owns(f)' => Near(f)' \subseteq D
      BY <1>1, <1>2, <1>3, <2>1
    <2>9. \A i \in 1..Len(stack') : At(i)' \notin D
      BY <2>2, <2>4, <2>6
    <2> QED
      BY <2>1, <2>7, <2>8, <2>9 DEF Sealed
  <1>10. CASE Advance
    <2>1. /\ stack = <<>> /\ stack' = <<>> /\ result # "none" /\ result' = "none"
          /\ finding' = finding + 1 /\ finding \in Nat /\ finding <= Count
          /\ UNCHANGED <<owner, visited>>
      BY <1>0, <1>10 DEF Advance, TypeOK, LoopInv
    <2>2. Len(stack') = 0
      BY <2>1
    <2>3. \A f \in Findings : f < finding' => f < finding \/ f = finding
      BY <2>1, EdgesAreLists DEF Findings
    <2>4. CASE result = "true"
      <3>1. Owns(finding)
        BY <2>1, <2>4 DEF FoundInv
      <3>2. \A f \in Findings : f < finding' /\ ~Owns(f)' => Near(f)' \subseteq D
        BY <1>1, <1>2, <1>3, <2>3, <3>1
      <3>3. \A l \in D : owner'[l] # 0 /\ Near(owner[l])' \subseteq D
        BY <1>1, <1>2, <2>1 DEF Near
      <3> QED
        BY <2>1, <2>2, <3>2, <3>3 DEF Sealed
    <2>5. CASE result = "false"
      <3>0. PICK E : E = D \cup visited
        OBVIOUS
      <3>1. VisitedInv /\ Near(finding) \subseteq visited
        BY <2>1, <2>5 DEF SearchInv, FailedInv
      <3>2. Waiting = {}
        BY <1>0, <2>1, <2>5 DEF Waiting
      <3>3. \A l \in visited : owner[l] # 0 /\ Near(owner[l]) \subseteq visited
        BY <3>1, <3>2 DEF VisitedInv
      <3>4. \A l \in E : owner'[l] # 0 /\ Near(owner[l])' \subseteq E
        <4>1. \A l \in E : Near(owner[l])' = Near(owner[l])
          BY <1>2, <2>1 DEF Near
        <4>2. \A l \in E : owner[l] # 0 /\ Near(owner[l]) \subseteq E
          BY <1>1, <3>0, <3>3
        <4> QED
          BY <2>1, <4>1, <4>2
      <3>5. \A f \in Findings : f < finding' /\ ~Owns(f)' => Near(f)' \subseteq E
        BY <1>1, <1>2, <1>3, <2>3, <3>0, <3>1
      <3>6. E \in SUBSET Labels
        BY <1>0, <3>0 DEF TypeOK
      <3>7. Sealed(E)'
        BY <2>1, <2>2, <3>4, <3>5 DEF Sealed
      <3> QED
        BY <3>6, <3>7
    <2> QED
      BY <1>0, <2>1, <2>4, <2>5
  <1> QED
    BY <1>4, <1>5, <1>6, <1>7, <1>8, <1>9, <1>10 DEF Next

\* Labels that are sealed are owned, and each label of a choice outside them can
\* be given another that is owned: a choice has no more than the search found.
LEMMA SealedIsMaximum ==
  ASSUME IInv, finding > Count, NEW D \in SUBSET Labels, Sealed(D),
         NEW choice \in [Labels -> 0..Count],
         \A l \in Labels : choice[l] # 0 =>
           /\ \E i \in DOMAIN edges[choice[l]] : edges[choice[l]][i] = l
           /\ \A k \in Labels : choice[k] = choice[l] => k = l
  PROVE  Cardinality({l \in Labels : choice[l] # 0}) <= Cardinality({l \in Labels : owner[l] # 0})
  <1> DEFINE C == {l \in Labels : choice[l] # 0}
             O == {l \in Labels : owner[l] # 0}
  <1>0. TypeOK /\ LoopInv /\ finding \in Nat /\ Count \in Nat
    BY EdgesAreLists DEF IInv, TypeOK
  <1>1. \A f \in Findings : ~Owns(f) => Near(f) \subseteq D
    BY <1>0, EdgesAreLists DEF Sealed, Findings
  <1>2. D \subseteq O /\ C \subseteq Labels /\ O \subseteq Labels
    BY DEF Sealed
  <1>3. \A l \in C \ D : \E k \in O \ D : owner[k] = choice[l]
    <2> SUFFICES ASSUME NEW l \in C \ D PROVE \E k \in O \ D : owner[k] = choice[l]
      OBVIOUS
    <2>1. choice[l] \in Findings /\ choice[l] # 0
      BY <1>0 DEF Findings
    <2>2. l \in Near(choice[l])
      BY DEF Near
    <2>3. PICK k \in Labels : owner[k] = choice[l]
      BY <1>1, <2>1, <2>2 DEF Owns
    <2>4. k \notin D
      BY <2>2, <2>3 DEF Sealed
    <2> QED
      BY <2>1, <2>3, <2>4
  <1> DEFINE given == [l \in C \ D |-> CHOOSE k \in O \ D : owner[k] = choice[l]]
  <1>4. \A l \in C \ D : given[l] \in O \ D /\ owner[given[l]] = choice[l]
    BY <1>3
  <1>5. given \in Injection(C \ D, O \ D)
    <2>1. given \in [C \ D -> O \ D]
      BY <1>4
    <2>2. \A k, l \in C \ D : given[k] = given[l] => k = l
      BY <1>4
    <2> QED
      BY <2>1, <2>2, Zenon DEF Injection, IsInjective
  <1> HIDE DEF given, C, O
  <1>6. IsFiniteSet(C) /\ IsFiniteSet(O) /\ IsFiniteSet(D) /\ IsFiniteSet(C \ D) /\ IsFiniteSet(O \ D)
    <2>1. IsFiniteSet(Labels) /\ C \ D \subseteq Labels /\ O \ D \subseteq Labels
      BY <1>2, EdgesAreLists
    <2> QED
      BY <1>2, <2>1, FS_Subset
  <1>7. Cardinality(C \ D) <= Cardinality(O \ D)
    BY <1>5, <1>6, FS_Injection
  <1>8. Cardinality(O \ D) = Cardinality(O) - Cardinality(D)
    <2>1. O \cap D = D
      BY <1>2
    <2> QED
      BY <1>6, <2>1, FS_Difference
  <1>9. Cardinality(C \ D) = Cardinality(C) - Cardinality(C \cap D)
    BY <1>6, FS_Difference
  <1>10. Cardinality(C \cap D) <= Cardinality(D) /\ Cardinality(C \cap D) \in Nat
    <2>1. C \cap D \subseteq D
      OBVIOUS
    <2> QED
      BY <1>6, <2>1, FS_Subset, FS_CardinalityType
  <1>11. Cardinality(C) \in Nat /\ Cardinality(O) \in Nat /\ Cardinality(D) \in Nat
    BY <1>6, FS_CardinalityType
  <1>12. Cardinality(C) <= Cardinality(O)
    BY <1>7, <1>8, <1>9, <1>10, <1>11
  <1> QED
    BY <1>12 DEF C, O

\* No other one-to-one choice gives more findings a matching label, for any number
\* of findings and any labels: the labels visited by the failed searches are a
\* witness (_maximum_matching, "a maximum-cardinality, one-to-one matching").
THEOREM PairingIsMaximum == Spec => []Maximum
  <1>1. Init => SearchInv /\ SealInv /\ FoundInv
    <2> SUFFICES ASSUME Init PROVE SearchInv /\ SealInv /\ FoundInv
      OBVIOUS
    <2>1. stack = <<>> /\ result = "none" /\ finding = 1
      BY DEF Init
    <2>2. Len(stack) = 0 /\ \A f \in Findings : ~(f < finding)
      BY <2>1, EdgesAreLists DEF Findings
    <2>3. Sealed({})
      BY <2>1, <2>2 DEF Sealed
    <2> QED
      BY <2>1, <2>3 DEF SearchInv, SealInv, FoundInv
  <1>2. IInv /\ SealInv => Maximum
    BY SealedIsMaximum DEF SealInv, Maximum
  <1> QED
    BY <1>1, <1>2, SearchStep, SealStep, FoundStep, Invariant, PTL DEF Spec
------------------------------------------------------------------------------
(***************************************************************************)
(* Ground truth.                                                           *)
(***************************************************************************)

FileLabels == [comment : Comments, text : Nat, revision : Revisions, line : Nat,
               decision : Verdicts, read : Nat]

CasesOrNothing == [head : Revisions, labels : SUBSET FileLabels] \cup {Nothing}

Rows == [comment : Comments, text : Nat, decision : Verdicts]

\* The shapes of what the commands read and write.
FilesInv ==
  /\ thread \in [Comments -> Remark] /\ posted \subseteq Comments
  /\ collected \in CasesOrNothing /\ dataset \in CasesOrNothing /\ adjudicated \in CasesOrNothing
  /\ queue \subseteq Rows /\ stale \in BOOLEAN

\* The labels of a file, none of them in an empty one.
LabelsOf(case) == IF case = Nothing THEN {} ELSE case.labels

\* A label has its comment's original place: pushes and edits do not change that.
Placed(l) == l.line = thread[l.comment].line /\ l.revision = thread[l.comment].revision

PlacesInv ==
  /\ \A l \in LabelsOf(collected) \cup LabelsOf(dataset) \cup LabelsOf(adjudicated) : Placed(l)
  /\ fixture # Nothing =>
       \A c \in DOMAIN fixture.thread :
         /\ c \in Comments
         /\ fixture.thread[c].line = thread[c].line
         /\ fixture.thread[c].revision = thread[c].revision

\* A case names a comment once, and its labels are read as they are written.
Fresh(labels) ==
  /\ \A l \in labels : l.read = l.text
  /\ \A l, m \in labels : l.comment = m.comment => l.text = m.text

\* Unless the dataset was written behind the queue's back, the queue has its words.
WordsInv ==
  /\ Fresh(LabelsOf(collected)) /\ Fresh(LabelsOf(dataset))
  /\ ~stale => /\ \A l \in LabelsOf(adjudicated) : l.read = l.text
               /\ \A row \in queue, l \in LabelsOf(dataset) :
                    row.comment = l.comment => row.text = l.text

TruthInv == FilesInv /\ PlacesInv /\ WordsInv /\ ScoredIsGroundTruth

LEMMA CaseTyped ==
  ASSUME NEW case \in CasesOrNothing
  PROVE  /\ LabelsOf(case) \subseteq FileLabels
         /\ case # Nothing => case.labels = LabelsOf(case) /\ case.head \in Revisions
  BY DEF CasesOrNothing, LabelsOf

LEMMA NothingIsTyped == Nothing \in CasesOrNothing /\ LabelsOf(Nothing) = {}
  BY DEF CasesOrNothing, LabelsOf

LEMMA TruthInitially == TruthInit => TruthInv
  <1> SUFFICES ASSUME TruthInit PROVE TruthInv
    OBVIOUS
  <1>1. FilesInv
    BY ThreadsFit, NothingIsTyped DEF TruthInit, FilesInv
  <1>2. PlacesInv /\ WordsInv /\ ScoredIsGroundTruth
    BY NothingIsTyped DEF TruthInit, PlacesInv, WordsInv, Fresh, ScoredIsGroundTruth
  <1> QED
    BY <1>1, <1>2 DEF TruthInv

\* A comment that is posted or edited keeps its place.
LEMMA CommentStep ==
  ASSUME TruthInv, NEW c \in Comments, Post(c) \/ Edit(c)
  PROVE  TruthInv'
  <1>1. /\ thread' \in [Comments -> Remark] /\ posted' \subseteq Comments
        /\ \A d \in Comments : /\ thread'[d].line = thread[d].line
                               /\ thread'[d].revision = thread[d].revision
    BY DEF TruthInv, FilesInv, Post, Edit, Remark
  <1>2. UNCHANGED <<fixture, collected, dataset, queue, adjudicated, stale, evaluated>>
    BY DEF Post, Edit
  <1>3. FilesInv' /\ WordsInv' /\ ScoredIsGroundTruth'
    BY <1>1, <1>2 DEF TruthInv, FilesInv, WordsInv, ScoredIsGroundTruth, Fresh, LabelsOf
  <1>4. \A l \in FileLabels : Placed(l) => Placed(l)'
    BY <1>1 DEF Placed, FileLabels
  <1>5. PlacesInv'
    BY <1>1, <1>2, <1>4, CaseTyped DEF TruthInv, FilesInv, PlacesInv, LabelsOf
  <1> QED
    BY <1>3, <1>5 DEF TruthInv

\* What a harvest takes from the thread is in its place and in its words.
LEMMA LabelsAreNew ==
  ASSUME FilesInv, NEW labels, \A l \in labels : \E c \in posted : l = NewLabel(c)
  PROVE  labels \subseteq FileLabels /\ Fresh(labels) /\ \A l \in labels : Placed(l)
  <1>1. \A c \in posted : /\ NewLabel(c) \in FileLabels /\ Placed(NewLabel(c))
                          /\ NewLabel(c).read = NewLabel(c).text
                          /\ NewLabel(c).comment = c
    BY DEF FilesInv, NewLabel, FileLabels, Verdicts, Remark, Placed
  <1> QED
    BY <1>1 DEF Fresh

LEMMA HarvestStep ==
  ASSUME TruthInv, NEW compared \in SUBSET Revisions, Harvest(compared)
  PROVE  TruthInv'
  <1>0. FilesInv /\ PlacesInv /\ WordsInv
    BY DEF TruthInv
  <1>1. PICK head \in compared :
          /\ fixture' = [head |-> head, thread |-> [c \in posted |-> thread[c]]]
          /\ collected' = IF collected # Nothing THEN collected
                          ELSE [head |-> head, labels |-> {NewLabel(c) : c \in Targets(head)}]
    BY DEF Harvest
  <1>2. /\ evaluated = Nothing
        /\ UNCHANGED <<thread, posted, dataset, queue, adjudicated, stale, evaluated>>
    BY DEF Harvest
  <1>3. Targets(head) \subseteq posted
    BY DEF Targets, Labelled
  <1>4. /\ collected' \in CasesOrNothing /\ Fresh(LabelsOf(collected'))
        /\ \A l \in LabelsOf(collected') : Placed(l)
    <2>1. CASE collected # Nothing
      BY <1>0, <1>1, <2>1 DEF FilesInv, PlacesInv, WordsInv
    <2>2. CASE collected = Nothing
      <3> DEFINE new == {NewLabel(c) : c \in Targets(head)}
      <3>1. new \subseteq FileLabels /\ Fresh(new) /\ \A l \in new : Placed(l)
        BY <1>0, <1>3, LabelsAreNew
      <3>2. collected' = [head |-> head, labels |-> new]
        BY <1>1, <2>2
      <3> HIDE DEF new
      <3>3. collected' \in CasesOrNothing
        BY <3>1, <3>2 DEF CasesOrNothing
      <3>4. LabelsOf(collected') = new \/ LabelsOf(collected') = {}
        BY <3>2 DEF LabelsOf
      <3> QED
        BY <3>1, <3>3, <3>4 DEF Fresh
    <2> QED
      BY <2>1, <2>2
  <1>5. fixture' # Nothing =>
          \A c \in DOMAIN fixture'.thread :
            c \in Comments /\ fixture'.thread[c] = thread[c]
    BY <1>0, <1>1 DEF FilesInv
  <1>6. FilesInv'
    BY <1>0, <1>2, <1>4 DEF FilesInv
  <1>7. PlacesInv'
    BY <1>0, <1>2, <1>4, <1>5 DEF PlacesInv, Placed, LabelsOf
  <1>8. WordsInv'
    BY <1>0, <1>2, <1>4 DEF WordsInv, LabelsOf, Fresh
  <1> QED
    BY <1>2, <1>6, <1>7, <1>8 DEF TruthInv, ScoredIsGroundTruth

LEMMA WriteStep ==
  ASSUME TruthInv, WriteDataset \/ Stop
  PROVE  TruthInv'
  <1>0. FilesInv /\ PlacesInv /\ WordsInv /\ ScoredIsGroundTruth
    BY DEF TruthInv
  <1>1. /\ collected' = Nothing /\ dataset' \in {dataset, collected}
        /\ UNCHANGED <<thread, posted, fixture, queue, adjudicated, evaluated>>
        /\ \/ stale' = stale /\ dataset' = dataset
           \/ evaluated = Nothing /\ stale' = (stale \/ queue # {})
    BY DEF WriteDataset, Stop
  <1>2. stale' \in BOOLEAN /\ (~stale' => ~stale /\ (dataset' = dataset \/ queue = {}))
    <2>1. stale \in BOOLEAN
      BY <1>0 DEF FilesInv
    <2>2. CASE stale' = stale /\ dataset' = dataset
      BY <2>1, <2>2, Zenon
    <2>3. CASE stale' = (stale \/ queue # {})
      <3>1. stale' \in BOOLEAN
        BY <2>1, <2>3, Zenon
      <3>2. ~stale' => ~stale /\ queue = {}
        BY <2>3, Zenon
      <3> QED
        BY <3>1, <3>2, Zenon
    <2> QED
      BY <1>1, <2>2, <2>3, Zenon
  <1>3. FilesInv'
    BY <1>0, <1>1, <1>2, NothingIsTyped DEF FilesInv
  <1>4. PlacesInv'
    BY <1>0, <1>1, NothingIsTyped DEF PlacesInv, Placed, LabelsOf
  <1>5. WordsInv'
    BY <1>0, <1>1, <1>2, NothingIsTyped DEF WordsInv, LabelsOf, Fresh
  <1>6. ScoredIsGroundTruth'
    BY <1>0, <1>1 DEF ScoredIsGroundTruth
  <1> QED
    BY <1>3, <1>4, <1>5, <1>6 DEF TruthInv

LEMMA QueueStep ==
  ASSUME TruthInv, \/ Export
                   \/ \E row \in queue, decision \in Decisions : Decide(row, decision)
  PROVE  TruthInv'
  <1>0. FilesInv /\ PlacesInv /\ WordsInv
    BY DEF TruthInv
  <1>1. /\ evaluated = Nothing
        /\ UNCHANGED <<thread, posted, fixture, collected, dataset, adjudicated, stale, evaluated>>
    BY DEF Export, Decide
  <1>2. \A row \in queue' :
          \/ \E l \in LabelsOf(dataset) :
               row = [comment |-> l.comment, text |-> l.text, decision |-> l.decision]
          \/ row \in queue
          \/ \E old \in queue, decision \in Decisions : row = [old EXCEPT !.decision = decision]
    BY DEF Export, Decide, LabelsOf
  <1>3. \A row \in queue' :
          /\ row \in Rows
          /\ \/ \E l \in LabelsOf(dataset) : row.comment = l.comment /\ row.text = l.text
             \/ \E old \in queue : row.comment = old.comment /\ row.text = old.text
    BY <1>0, <1>2, CaseTyped, ThreadsFit DEF FilesInv, Rows, FileLabels
  <1>4. FilesInv'
    BY <1>0, <1>1, <1>3 DEF FilesInv
  <1>5. WordsInv'
    BY <1>0, <1>1, <1>3 DEF WordsInv, LabelsOf, Fresh
  <1> QED
    BY <1>0, <1>1, <1>4, <1>5 DEF TruthInv, PlacesInv, Placed, LabelsOf, ScoredIsGroundTruth

\* An applied label is one of the dataset with a row's decision and words.
LEMMA AppliedLabel ==
  ASSUME FilesInv, NEW labels \in SUBSET FileLabels, NEW m \in Applied(labels)
  PROVE  m \in FileLabels /\ \E l \in labels :
           /\ m.comment = l.comment /\ m.text = l.text
           /\ m.revision = l.revision /\ m.line = l.line
           /\ m.read = l.read \/ \E row \in queue : row.comment = l.comment /\ m.read = row.text
  <1>1. PICK l \in labels :
          \/ m = l
          \/ \E row \in queue : row.comment = l.comment
               /\ m = [l EXCEPT !.decision = row.decision, !.read = row.text]
    BY DEF Applied
  <1> QED
    BY <1>1 DEF FilesInv, FileLabels, Rows

LEMMA ApplyStep ==
  ASSUME TruthInv, NEW draft \in BOOLEAN, NEW confirmedOnly \in BOOLEAN,
         Apply(draft, confirmedOnly)
  PROVE  TruthInv'
  <1>0. FilesInv /\ PlacesInv /\ WordsInv
    BY DEF TruthInv
  <1>1. /\ evaluated = Nothing /\ dataset # Nothing
        /\ UNCHANGED <<thread, posted, fixture, collected, dataset, queue, stale, evaluated>>
        /\ \/ adjudicated' = Nothing
           \/ adjudicated' = [dataset EXCEPT !.labels = Applied(dataset.labels)]
    BY DEF Apply
  <1>2. dataset \in [head : Revisions, labels : SUBSET FileLabels] /\ LabelsOf(dataset) = dataset.labels
    BY <1>0, <1>1 DEF FilesInv, CasesOrNothing, LabelsOf
  <1>3. Applied(dataset.labels) \subseteq FileLabels
    BY <1>0, <1>2, AppliedLabel
  <1>4. adjudicated' \in CasesOrNothing /\ LabelsOf(adjudicated') \subseteq Applied(dataset.labels)
    BY <1>1, <1>2, <1>3, NothingIsTyped DEF CasesOrNothing, LabelsOf
  <1>5. \A m \in LabelsOf(adjudicated') : Placed(m) /\ (~stale => m.read = m.text)
    BY <1>0, <1>2, <1>4, AppliedLabel DEF PlacesInv, Placed, WordsInv, Fresh
  <1>6. FilesInv'
    BY <1>0, <1>1, <1>4 DEF FilesInv
  <1>7. PlacesInv' /\ WordsInv'
    BY <1>0, <1>1, <1>5 DEF PlacesInv, Placed, WordsInv, Fresh, LabelsOf
  <1> QED
    BY <1>1, <1>6, <1>7 DEF TruthInv, ScoredIsGroundTruth

LEMMA EvaluateStep ==
  ASSUME TruthInv, Evaluate
  PROVE  TruthInv'
  <1>0. FilesInv /\ PlacesInv /\ WordsInv
    BY DEF TruthInv
  <1>1. PICK case \in {dataset, adjudicated} :
          Certifies(case) /\ evaluated' = [head |-> case.head, labels |-> case.labels,
                                           fixture |-> fixture]
    BY DEF Evaluate
  <1>2. UNCHANGED <<thread, posted, fixture, collected, dataset, queue, adjudicated, stale>>
    BY DEF Evaluate
  <1>3. case # Nothing /\ fixture # Nothing /\ fixture.head = case.head
    BY <1>1 DEF Certifies
  <1>4. \A l \in case.labels :
          /\ l \in FileLabels /\ Placed(l)
          /\ ~stale => l.read = l.text
    BY <1>0, <1>3, CaseTyped DEF FilesInv, PlacesInv, WordsInv, Fresh, LabelsOf
  <1>5. ASSUME NEW l \in case.labels
        PROVE  /\ l.decision.approved /\ l.decision.named /\ l.decision.notes
               /\ l.decision.verdict = "confirmed_defect" =>
                    LET source == fixture.thread[l.comment]
                    IN  /\ source.parent = NoComment /\ source.by = "reviewer"
                        /\ source.line \in Added[fixture.head] /\ source.line = l.line
                        /\ source.revision = fixture.head
                        /\ source.text = l.text
                        /\ ~stale => l.read = l.text
    <2>1. HumanAdjudicated(l) /\ l.decision.notes /\ (Excluded(l) \/ Sourced(case, l))
      BY <1>1 DEF Certifies
    <2>2. l.decision.approved /\ l.decision.named /\ l.decision.notes
      BY <2>1 DEF HumanAdjudicated
    <2>3. CASE l.decision.verdict = "confirmed_defect"
      <3>1. Sourced(case, l)
        BY <2>1, <2>3 DEF Excluded
      <3>2. l.comment \in DOMAIN fixture.thread
        BY <3>1 DEF Sourced
      <3>3. /\ fixture.thread[l.comment].line = l.line
            /\ fixture.thread[l.comment].revision = l.revision
        BY <1>0, <1>3, <1>4, <3>2 DEF PlacesInv, Placed
      <3> QED
        BY <1>3, <1>4, <2>2, <3>1, <3>3 DEF Sourced
    <2> QED
      BY <2>2, <2>3
  <1>6. ScoredIsGroundTruth'
    BY <1>1, <1>2, <1>5 DEF ScoredIsGroundTruth
  <1> QED
    BY <1>0, <1>2, <1>6 DEF TruthInv, FilesInv, PlacesInv, Placed, WordsInv, Fresh, LabelsOf

LEMMA TruthInductive == TruthInv /\ [TruthNext]_truthVars => TruthInv'
  <1> SUFFICES ASSUME TruthInv, [TruthNext]_truthVars PROVE TruthInv'
    OBVIOUS
  <1>1. CASE UNCHANGED truthVars
    BY <1>1 DEF truthVars, TruthInv, FilesInv, PlacesInv, Placed, WordsInv, Fresh, LabelsOf,
                ScoredIsGroundTruth
  <1> QED
    BY <1>1, CommentStep, HarvestStep, WriteStep, QueueStep, ApplyStep, EvaluateStep DEF TruthNext

\* Whatever order the commands run in, whatever is edited by hand or on GitHub in
\* between, and whatever files are left over: a live evaluation scores what a named
\* human confirmed of that revision and of those words (benchmark.certify_dataset).
THEOREM ScoredIsConfirmed == TruthSpec => []ScoredIsGroundTruth
  <1>1. TruthInv => ScoredIsGroundTruth
    BY DEF TruthInv
  <1> QED
    BY <1>1, TruthInitially, TruthInductive, PTL DEF TruthSpec

\* A label is of the revision of its case, on a line that revision adds, of a
\* reviewer's comment that answers none, and its decision is one that is accepted.
Earned(case) ==
  \A l \in LabelsOf(case) :
    /\ l.revision = case.head /\ l.line \in Added[case.head]
    /\ thread[l.comment].parent = NoComment /\ thread[l.comment].by = "reviewer"
    /\ WellFormed(l.decision)

\* A fixture has the authors and parents of the thread it was made of.
SourceInv ==
  /\ Earned(collected) /\ Earned(dataset) /\ Earned(adjudicated)
  /\ fixture # Nothing =>
       \A c \in DOMAIN fixture.thread :
         fixture.thread[c].parent = thread[c].parent /\ fixture.thread[c].by = thread[c].by

LEMMA EarnedOfNothing == Earned(Nothing)
  BY NothingIsTyped DEF Earned

\* What a harvest takes from the thread is earned.
LEMMA TargetsAreEarned ==
  ASSUME FilesInv, NEW head, NEW c \in Targets(head)
  PROVE  LET l == NewLabel(c)
         IN  /\ l.revision = head /\ l.line \in Added[head]
             /\ thread[l.comment].parent = NoComment /\ thread[l.comment].by = "reviewer"
             /\ WellFormed(l.decision)
  BY DEF Targets, Labelled, NewLabel, WellFormed

\* Commands that read the thread or the files leave earned what was.
LEMMA SourceStep == TruthInv /\ SourceInv /\ [TruthNext]_truthVars => SourceInv'
  <1> SUFFICES ASSUME TruthInv, SourceInv, [TruthNext]_truthVars PROVE SourceInv'
    OBVIOUS
  <1>0. FilesInv /\ PlacesInv
    BY DEF TruthInv
  <1>1. /\ Earned(collected) /\ Earned(dataset) /\ Earned(adjudicated)
        /\ fixture # Nothing =>
             \A c \in DOMAIN fixture.thread :
               fixture.thread[c].parent = thread[c].parent /\ fixture.thread[c].by = thread[c].by
    BY DEF SourceInv
  <1>2. ASSUME UNCHANGED thread, NEW case, Earned(case) PROVE Earned(case)'
    BY <1>2 DEF Earned, LabelsOf
  <1>3. CASE UNCHANGED <<thread, fixture, collected, dataset, adjudicated>>
    BY <1>1, <1>3 DEF SourceInv, Earned, LabelsOf
  <1>4. ASSUME NEW c \in Comments, Post(c) \/ Edit(c) PROVE SourceInv'
    <2>1. UNCHANGED <<fixture, collected, dataset, adjudicated>>
      BY <1>4 DEF Post, Edit
    <2>2. \A d \in Comments : thread'[d].parent = thread[d].parent /\ thread'[d].by = thread[d].by
      BY <1>0, <1>4 DEF Post, Edit, FilesInv, Remark
    <2>3. ASSUME NEW case \in CasesOrNothing, Earned(case) PROVE Earned(case)'
      <3>1. \A l \in LabelsOf(case) : l.comment \in Comments
        BY CaseTyped DEF FileLabels
      <3>2. LabelsOf(case)' = LabelsOf(case)
        BY DEF LabelsOf
      <3> QED
        BY <2>2, <2>3, <3>1, <3>2 DEF Earned
    <2>4. Earned(collected)' /\ Earned(dataset)' /\ Earned(adjudicated)'
      <3>1. Earned(collected)'
        BY <1>0, <1>1, <2>1, <2>3 DEF FilesInv, Earned, LabelsOf
      <3>2. Earned(dataset)'
        BY <1>0, <1>1, <2>1, <2>3 DEF FilesInv, Earned, LabelsOf
      <3>3. Earned(adjudicated)'
        BY <1>0, <1>1, <2>1, <2>3 DEF FilesInv, Earned, LabelsOf
      <3> QED
        BY <3>1, <3>2, <3>3
    <2> QED
      BY <1>0, <1>1, <2>1, <2>2, <2>4 DEF SourceInv, PlacesInv
  <1>5. ASSUME NEW compared \in SUBSET Revisions, Harvest(compared) PROVE SourceInv'
    <2>1. PICK head \in compared :
            /\ fixture' = [head |-> head, thread |-> [c \in posted |-> thread[c]]]
            /\ collected' = IF collected # Nothing THEN collected
                            ELSE [head |-> head, labels |-> {NewLabel(c) : c \in Targets(head)}]
      BY <1>5 DEF Harvest
    <2>2. UNCHANGED <<thread, dataset, adjudicated>>
      BY <1>5 DEF Harvest
    <2>3. Earned(collected)'
      <3>1. CASE collected # Nothing
        BY <1>1, <2>1, <2>2, <3>1 DEF Earned, LabelsOf
      <3>2. CASE collected = Nothing
        <4> DEFINE new == {NewLabel(c) : c \in Targets(head)}
        <4>1. collected' = [head |-> head, labels |-> new]
          BY <2>1, <3>2
        <4>2. \A l \in new : /\ l.revision = head /\ l.line \in Added[head]
                             /\ thread[l.comment].parent = NoComment
                             /\ thread[l.comment].by = "reviewer"
                             /\ WellFormed(l.decision)
          BY <1>0, TargetsAreEarned
        <4> HIDE DEF new
        <4>3. collected'.head = head /\ LabelsOf(collected') \subseteq new
          BY <4>1 DEF LabelsOf
        <4> QED
          BY <2>2, <4>2, <4>3 DEF Earned, LabelsOf
      <3> QED
        BY <3>1, <3>2
    <2> QED
      BY <1>1, <2>1, <2>2, <2>3 DEF SourceInv, Earned, LabelsOf
  <1>6. CASE WriteDataset \/ Stop
    <2>1. /\ collected' = Nothing /\ dataset' \in {dataset, collected}
          /\ UNCHANGED <<thread, fixture, adjudicated>>
      BY <1>6 DEF WriteDataset, Stop
    <2> QED
      BY <1>1, <2>1, EarnedOfNothing DEF SourceInv, Earned, LabelsOf
  <1>7. ASSUME NEW draft \in BOOLEAN, NEW confirmedOnly \in BOOLEAN, Apply(draft, confirmedOnly)
        PROVE  SourceInv'
    <2>1. /\ dataset # Nothing /\ UNCHANGED <<thread, fixture, collected, dataset>>
          /\ \A row \in queue : WellFormed(row.decision)
          /\ \/ adjudicated' = Nothing
             \/ adjudicated' = [dataset EXCEPT !.labels = Applied(dataset.labels)]
      BY <1>7 DEF Apply
    <2>2. /\ dataset \in [head : Revisions, labels : SUBSET FileLabels]
          /\ LabelsOf(dataset) = dataset.labels
      BY <1>0, <2>1 DEF FilesInv, CasesOrNothing, LabelsOf
    <2>3. \A m \in Applied(dataset.labels) : \E l \in dataset.labels :
            /\ m.revision = l.revision /\ m.line = l.line /\ m.comment = l.comment
            /\ m.decision = l.decision \/ \E row \in queue : m.decision = row.decision
      <3>1. \A m \in Applied(dataset.labels) : \E l \in dataset.labels :
              \/ m = l
              \/ \E row \in queue : m = [l EXCEPT !.decision = row.decision, !.read = row.text]
        BY DEF Applied
      <3> QED
        BY <2>2, <3>1 DEF FileLabels
    <2>4. \A m \in Applied(dataset.labels) :
            /\ m.revision = dataset.head /\ m.line \in Added[dataset.head]
            /\ thread[m.comment].parent = NoComment /\ thread[m.comment].by = "reviewer"
            /\ WellFormed(m.decision)
      BY <1>1, <2>1, <2>2, <2>3 DEF Earned
    <2>5. CASE adjudicated' = Nothing
      BY <1>1, <2>1, <2>5, EarnedOfNothing DEF SourceInv, Earned, LabelsOf
    <2>6. CASE adjudicated' = [dataset EXCEPT !.labels = Applied(dataset.labels)]
      <3>1. adjudicated'.head = dataset.head /\ LabelsOf(adjudicated') \subseteq Applied(dataset.labels)
        BY <2>2, <2>6 DEF LabelsOf
      <3>2. Earned(adjudicated)'
        BY <2>1, <2>4, <3>1 DEF Earned, LabelsOf
      <3> QED
        BY <1>1, <2>1, <3>2 DEF SourceInv, Earned, LabelsOf
    <2> QED
      BY <2>1, <2>5, <2>6
  <1>8. CASE \/ Export \/ Evaluate
             \/ \E row \in queue, decision \in Decisions : Decide(row, decision)
    <2>1. UNCHANGED <<thread, fixture, collected, dataset, adjudicated>>
      BY <1>8 DEF Export, Evaluate, Decide
    <2> QED
      BY <1>3, <2>1
  <1> QED
    BY <1>3, <1>4, <1>5, <1>6, <1>7, <1>8 DEF TruthNext, truthVars

\* A complete harvest is refused only for one of the three reasons, for any thread
\* (labels_from_review_revision, certify_dataset).
THEOREM RefusalHasCause == TruthSpec => []RefusedForCause
  <1>1. TruthInit => SourceInv
    <2> SUFFICES ASSUME TruthInit PROVE SourceInv
      OBVIOUS
    <2> QED
      BY EarnedOfNothing DEF TruthInit, SourceInv
  <1>2. TruthInv /\ SourceInv => RefusedForCause
    <2> SUFFICES
          ASSUME TruthInv, SourceInv, NEW case, case = adjudicated, case # Nothing,
                 \A l \in case.labels : Confirmed(l) \/ Excluded(l),
                 fixture # Nothing, fixture.head = case.head,
                 \A l \in case.labels :
                   l.comment \in DOMAIN fixture.thread /\ fixture.thread[l.comment].text = l.text
          PROVE  Certifies(case) <=>
                   /\ \E l \in case.labels : Confirmed(l)
                   /\ \A l \in case.labels : Confirmed(l) =>
                        LET source == fixture.thread[l.comment]
                        IN  source.commit = source.revision /\ source.shown \in {0, source.line}
      BY DEF RefusedForCause
    <2>1. LabelsOf(case) = case.labels
      BY DEF LabelsOf
    <2>2. \A l \in case.labels : ~(Confirmed(l) /\ Excluded(l))
      BY DEF Confirmed, Excluded
    <2>3. \A l \in case.labels : HumanAdjudicated(l) /\ l.decision.notes
      <3> SUFFICES ASSUME NEW l \in case.labels PROVE HumanAdjudicated(l) /\ l.decision.notes
        OBVIOUS
      <3>1. HumanAdjudicated(l)
        BY DEF Confirmed, Excluded
      <3>2. WellFormed(l.decision)
        BY <2>1 DEF SourceInv, Earned
      <3> QED
        BY <3>1, <3>2 DEF WellFormed, HumanAdjudicated
    <2>4. ASSUME NEW l \in case.labels
          PROVE  Sourced(case, l) <=> LET source == fixture.thread[l.comment]
                                      IN  /\ source.commit = source.revision
                                          /\ source.shown \in {0, source.line}
      <3> DEFINE source == fixture.thread[l.comment]
      <3>1. /\ l.revision = case.head /\ l.line \in Added[fixture.head]
            /\ l.comment \in DOMAIN fixture.thread /\ source.text = l.text
            /\ source.parent = NoComment /\ source.by = "reviewer"
        BY <2>1, <2>4 DEF SourceInv, Earned
      <3>2. source.line = l.line /\ source.revision = l.revision
        BY <2>1, <2>4, <3>1 DEF TruthInv, PlacesInv, Placed
      <3>3. ShownLine(source) = source.line <=> source.shown \in {0, source.line}
        BY DEF ShownLine
      <3> QED
        BY <3>1, <3>2, <3>3 DEF Sourced
    <2> QED
      BY <2>2, <2>3, <2>4 DEF Certifies
  <1> QED
    BY <1>1, <1>2, SourceStep, TruthInitially, TruthInductive, PTL DEF TruthSpec

(***************************************************************************)
(* The benchmark run.                                                      *)
(***************************************************************************)

RawRuns == [drafted : Seq(Candidates), known : SUBSET Refs, failed : BOOLEAN,
            listed : BOOLEAN, cost : Nat]

Costs == [i \in DOMAIN raws |-> raws[i].cost]

\* What is run is a beginning of what was selected.
ProgressInv ==
  /\ corpus \in Seq(Cases) /\ live \in BOOLEAN /\ aborted \in BOOLEAN
  /\ stage \in {"start", "certified", "refused", "running", "aborted", "done"}
  /\ raws \in Seq(RawRuns) /\ selected \in Nat /\ selected <= Len(corpus)
  /\ Len(raws) <= selected
  /\ stage \in {"start", "certified", "refused"} => selected = 0
  /\ stage = "done" /\ ~aborted => Len(raws) = selected
  /\ stage = "aborted" => aborted
  /\ aborted => stage \in {"aborted", "done"}

\* Each case's run published what critique leaves of its draft.
ServedInv ==
  /\ served \in Seq(SUBSET Nat) /\ DOMAIN served = DOMAIN raws
  /\ \A i \in DOMAIN raws :
       served[i] = IF raws[i].failed THEN {}
                   ELSE Published(raws[i].drafted, raws[i].known, MinConfidence)

\* What is known of the bill.
BillInv ==
  /\ billed \in Nat /\ SumFunction(Costs) <= billed
  /\ ~aborted /\ AllPriced => SumFunction(Costs) = billed

\* The report is what the runs say.
MadeInv ==
  stage = "done" =>
    report = [passed |-> Gates(Metrics(MinConfidence)) /\ ~aborted,
              cost |-> Rounded(SumFunction(Costs), Grain), sweep |-> Sweep]

RunInv == ProgressInv /\ ServedInv /\ BillInv /\ MadeInv

USE DEF evalVars

LEMMA Division ==
  ASSUME NEW a \in Nat, NEW b \in Nat, b > 0
  PROVE  a \div b \in Nat /\ b * (a \div b) <= a /\ a < b * (a \div b) + b
  BY SMT

\* There is a nearest unit.
LEMMA RoundsToNearest ==
  ASSUME NEW m \in Nat, NEW n \in Nat \ {0}
  PROVE  /\ Rounded(m, n) \in Nat
         /\ 2 * n * Rounded(m, n) <= 2 * m + n /\ 2 * m <= 2 * n * Rounded(m, n) + n
  <1> DEFINE q == (2 * m + n) \div (2 * n)
  <1>1. q \in Nat /\ (2 * n) * q <= 2 * m + n /\ 2 * m + n < (2 * n) * q + 2 * n
    <2>1. 2 * m + n \in Nat /\ 2 * n \in Nat /\ 2 * n > 0
      OBVIOUS
    <2> QED
      BY <2>1, Division
  <1> HIDE DEF q
  <1>2. 2 * n * q <= 2 * m + n /\ 2 * m <= 2 * n * q + n
    <2>1. (2 * n) * q = 2 * n * q /\ 2 * n * q \in Nat
      BY <1>1
    <2> QED
      BY <1>1, <2>1
  <1>3. q <= m
    <2> SUFFICES ASSUME q >= m + 1 PROVE FALSE
      BY <1>1
    <2>1. n * q >= n * (m + 1)
      BY <1>1
    <2>2. n * (m + 1) = n * m + n /\ n * m >= m /\ n * m \in Nat /\ n * q \in Nat
      BY <1>1
    <2>3. 2 * n * q = 2 * (n * q)
      BY <1>1
    <2> DEFINE nm == n * m
               nq == n * q
    <2>4. nq >= nm + n /\ nm >= m /\ nm \in Nat /\ nq \in Nat /\ 2 * nq <= 2 * m + n
      BY <1>2, <2>1, <2>2, <2>3
    <2> HIDE DEF nm, nq
    <2> QED
      BY <2>4
  <1>4. q \in 0..m
    BY <1>1, <1>3
  <1>5. Rounded(m, n) \in 0..m /\ 2 * n * Rounded(m, n) <= 2 * m + n
        /\ 2 * m <= 2 * n * Rounded(m, n) + n
    BY <1>2, <1>4 DEF Rounded
  <1> QED
    BY <1>5

\* What the gates' rates say of the counts.
LEMMA RatesSay ==
  ASSUME NEW m \in Nat, NEW n \in Nat
  PROVE  /\ 2 * Rate(m, n) > Scale => 2 * m > n
         /\ 10 * Rate(m, n) >= 7 * Scale => 20 * Scale * m + 10 * n >= 14 * Scale * n
  <1> DEFINE rate == Rate(m, n)
  <1>0. Scale \in Nat /\ Scale > 0
    BY ScaleIsEven
  <1>1. CASE n = 0
    BY <1>0, <1>1 DEF Rate
  <1>2. CASE n # 0
    <2> DEFINE sm == Scale * m
               sn == Scale * n
               rn == rate * n
    <2>1. rate = Rounded(Scale * m, n) /\ Scale * m \in Nat /\ n \in Nat \ {0}
      BY <1>0, <1>2 DEF Rate
    <2>2. rate \in Nat /\ 2 * n * rate <= 2 * sm + n
      BY <2>1, RoundsToNearest
    <2> HIDE DEF rate
    <2>3. 2 * rn <= 2 * sm + n /\ rn \in Nat /\ sm \in Nat /\ sn \in Nat
      <3>1. 2 * n * rate = 2 * rn /\ rn \in Nat
        BY <2>2
      <3>2. sm \in Nat /\ sn \in Nat
        BY <1>0
      <3> QED
        BY <2>2, <3>1, <3>2
    <2>4. ASSUME 2 * rate > Scale PROVE 2 * m > n
      <3>1. PICK half \in 1..Scale : Scale = 2 * half
        BY ScaleIsEven
      <3>2. 2 * rate >= Scale + 2
        BY <1>0, <2>2, <2>4, <3>1
      <3>3. 2 * rate * n >= (Scale + 2) * n
        BY <1>0, <2>2, <3>2
      <3>4. (Scale + 2) * n = sn + 2 * n /\ 2 * rate * n = 2 * rn
        BY <1>0, <2>2
      <3>5. 2 * sm > sn
        <4> HIDE DEF sm, sn, rn
        <4> QED
          BY <1>2, <2>3, <3>3, <3>4
      <3> SUFFICES ASSUME 2 * m <= n PROVE FALSE
        OBVIOUS
      <3>6. Scale * (2 * m) <= Scale * n /\ Scale * (2 * m) = 2 * sm
        BY <1>0
      <3> QED
        BY <2>3, <3>5, <3>6
    <2>5. ASSUME 10 * rate >= 7 * Scale PROVE 20 * Scale * m + 10 * n >= 14 * Scale * n
      <3>1. (10 * rate) * n >= (7 * Scale) * n
        BY <1>0, <2>2, <2>5
      <3>2. (10 * rate) * n = 10 * rn /\ (7 * Scale) * n = 7 * sn
        BY <1>0, <2>2
      <3>3. 20 * sm + 10 * n >= 14 * sn
        <4> HIDE DEF sm, sn, rn
        <4> QED
          BY <2>3, <3>1, <3>2
      <3>4. 20 * Scale * m = 20 * sm /\ 14 * Scale * n = 14 * sn
        BY <1>0
      <3> QED
        BY <3>3, <3>4
    <2> QED
      BY <2>4, <2>5 DEF rate
  <1> QED
    BY <1>1, <1>2

LEMMA RunInitially == EvalInit => RunInv
  <1> SUFFICES ASSUME EvalInit PROVE RunInv
    OBVIOUS
  <1> USE DEF EvalInit
  <1>1. ProgressInv
    <2>1. corpus \in Seq(Cases)
      BY EvaluationFits
    <2>2. Len(corpus) \in Nat /\ raws \in Seq(RawRuns) /\ Len(raws) = 0
      BY <2>1, EmptySeq
    <2>3. stage = "start" /\ selected = 0 /\ aborted = FALSE /\ live \in BOOLEAN
      OBVIOUS
    <2>4. 0 <= Len(corpus) /\ Len(raws) <= 0
      BY <2>2
    <2> HIDE DEF EvalInit
    <2> QED
      BY <2>1, <2>2, <2>3, <2>4 DEF ProgressInv
  <1>2. ServedInv
    BY EmptySeq DEF ServedInv
  <1>3. BillInv
    BY SumOfNone DEF BillInv, Costs, SumFunction
  <1>4. MadeInv
    BY DEF MadeInv
  <1> QED
    BY <1>1, <1>2, <1>3, <1>4 DEF RunInv

LEMMA AppendedOne ==
  ASSUME NEW S, NEW s \in Seq(S), NEW x \in S
  PROVE  /\ Append(s, x) \in Seq(S) /\ Len(Append(s, x)) = Len(s) + 1
         /\ Len(s) \in Nat
         /\ DOMAIN s = 1..Len(s) /\ DOMAIN Append(s, x) = 1..(Len(s) + 1)
         /\ \A i \in 1..Len(s) : Append(s, x)[i] = s[i]
         /\ Append(s, x)[Len(s) + 1] = x
  BY AppendProperties

\* Costs can be added up.
LEMMA CostsAdd ==
  ASSUME raws \in Seq(RawRuns)
  PROVE  Summable(Costs, DOMAIN raws) /\ DOMAIN Costs = DOMAIN raws
  <1>1. DOMAIN raws = 1..Len(raws) /\ Len(raws) \in Nat
    OBVIOUS
  <1>2. IsFiniteSet(DOMAIN raws)
    BY <1>1, FS_Interval
  <1>3. \A i \in DOMAIN raws : raws[i].cost \in Nat
    <2>1. \A i \in DOMAIN raws : raws[i] \in RawRuns
      OBVIOUS
    <2> QED
      BY <2>1 DEF RawRuns
  <1> QED
    BY <1>2, <1>3 DEF Summable, Costs

LEMMA SumOfLonger ==
  ASSUME NEW f, NEW g, NEW n \in Nat, DOMAIN f = 1..n, DOMAIN g = 1..(n + 1),
         Summable(f, 1..n), \A i \in 1..n : g[i] = f[i], g[n + 1] \in Nat
  PROVE  SumFunction(g) = SumFunction(f) + g[n + 1] /\ SumFunction(f) \in Nat
  <1>1. n + 1 \notin 1..n /\ 1..(n + 1) = (1..n) \cup {n + 1}
    OBVIOUS
  <1>2. Summable(g, 1..n)
    BY DEF Summable
  <1>3. SumFunctionOnSet(g, (1..n) \cup {n + 1}) = SumFunctionOnSet(g, 1..n) + g[n + 1]
    BY <1>1, <1>2, SumWithOne
  <1>4. SumFunctionOnSet(g, 1..n) = SumFunctionOnSet(f, 1..n)
    BY <1>2, SumOfEquals
  <1> QED
    BY <1>1, <1>3, <1>4, SumIsNatural DEF SumFunction

\* A case more: its run, what it published, what it is known to have cost.
LEMMA CaseStep ==
  ASSUME RunInv, Running, NEW raw \in RawRuns, NEW published \in SUBSET Nat, NEW bill \in Nat,
         raws' = Append(raws, raw), served' = Append(served, published),
         billed' = IF live THEN billed + bill ELSE billed,
         raw.cost <= (IF live THEN bill ELSE 0),
         ~raw.failed /\ raw.listed => raw.cost = IF live THEN bill ELSE 0,
         published = IF raw.failed THEN {} ELSE Published(raw.drafted, raw.known, MinConfidence),
         UNCHANGED <<stage, corpus, live, selected, aborted, report>>
  PROVE  RunInv'
  <1> USE DEF RunInv
  <1> DEFINE n == Len(raws)
  <1>1. /\ raws' \in Seq(RawRuns) /\ Len(raws') = n + 1 /\ n \in Nat
        /\ DOMAIN raws = 1..n /\ DOMAIN raws' = 1..(n + 1)
        /\ \A i \in 1..n : raws'[i] = raws[i]
        /\ raws'[n + 1] = raw
    <2>1. raws \in Seq(RawRuns)
      BY DEF ProgressInv
    <2> QED
      BY <2>1, AppendedOne
  <1>2. ProgressInv'
    <2>1. n + 1 <= selected
      BY <1>1 DEF Running, ProgressInv
    <2> QED
      BY <1>1, <2>1 DEF ProgressInv, Running
  <1> HIDE DEF n
  <1>3. ServedInv'
    <2>1. DOMAIN served = 1..n
      BY <1>1 DEF ServedInv
    <2>2. /\ DOMAIN served' = 1..(n + 1) /\ served' \in Seq(SUBSET Nat)
          /\ \A i \in 1..n : served'[i] = served[i]
          /\ served'[n + 1] = published
      <3>1. served \in Seq(SUBSET Nat)
        BY DEF ServedInv
      <3>2. Len(served) = n
        BY <1>1, <2>1, <3>1
      <3> QED
        BY <3>1, <3>2, AppendedOne
    <2>3. \A i \in 1..(n + 1) : i \in 1..n \/ i = n + 1
      BY <1>1
    <2>4. \A i \in 1..n : served[i] = IF raws[i].failed THEN {}
                             ELSE Published(raws[i].drafted, raws[i].known, MinConfidence)
      BY <1>1 DEF ServedInv
    <2> QED
      BY ZenonT(30), <1>1, <2>2, <2>3, <2>4 DEF ServedInv
  <1>4. BillInv'
    <2>1. SumFunction(Costs') = SumFunction(Costs) + raw.cost /\ SumFunction(Costs) \in Nat
      <3> DEFINE f == Costs
                 g == Costs'
      <3>1. Summable(f, 1..n) /\ DOMAIN f = 1..n /\ \A i \in 1..n : f[i] = raws[i].cost
        BY <1>1, CostsAdd DEF ProgressInv, Costs
      <3>2. DOMAIN g = 1..(n + 1) /\ \A i \in 1..(n + 1) : g[i] = raws'[i].cost
        BY <1>1 DEF Costs
      <3>3. raw.cost \in Nat
        BY DEF RawRuns
      <3> HIDE DEF f, g
      <3>4. \A i \in 1..n : g[i] = f[i]
        <4>1. \A i \in 1..n : i \in 1..(n + 1)
          BY <1>1
        <4> QED
          BY <1>1, <3>1, <3>2, <4>1
      <3>5. g[n + 1] = raw.cost
        BY <1>1, <3>2
      <3>6. SumFunction(g) = SumFunction(f) + g[n + 1] /\ SumFunction(f) \in Nat
        <4>1. n \in Nat /\ g[n + 1] \in Nat
          BY <1>1, <3>3, <3>5
        <4> QED
          BY SMTT(30), <3>1, <3>2, <3>4, <4>1, SumOfLonger
      <3> QED
        BY <3>5, <3>6 DEF f, g
    <2>2. raw.cost \in Nat /\ billed \in Nat /\ live \in BOOLEAN
      BY DEF RawRuns, BillInv, ProgressInv
    <2>3. SumFunction(Costs) <= billed
      BY DEF BillInv
    <2>4. billed' \in Nat /\ SumFunction(Costs)' <= billed'
      BY <2>1, <2>2, <2>3
    <2>5. ASSUME ~aborted', AllPriced' PROVE SumFunction(Costs)' = billed'
      <3>1. \A i \in 1..(n + 1) : ~raws'[i].failed /\ raws'[i].listed
        BY <1>1, <2>5 DEF AllPriced
      <3>2. ~raw.failed /\ raw.listed /\ AllPriced
        <4>1. \A i \in 1..n : i \in 1..(n + 1)
          BY <1>1
        <4>2. n + 1 \in 1..(n + 1)
          BY <1>1
        <4> QED
          BY <1>1, <3>1, <4>1, <4>2 DEF AllPriced
      <3>3. SumFunction(Costs) = billed
        BY <2>5, <3>2 DEF BillInv
      <3> QED
        BY <2>1, <2>2, <3>2, <3>3
    <2> QED
      BY <2>4, <2>5 DEF BillInv
  <1>5. MadeInv'
    BY DEF MadeInv, Running
  <1> QED
    BY <1>2, <1>3, <1>4, <1>5

LEMMA RunStep == RunInv /\ [EvalNext]_evalVars => RunInv'
  <1> SUFFICES ASSUME RunInv, [EvalNext]_evalVars PROVE RunInv'
    OBVIOUS
  <1>f. MinConfidence \in Nat /\ Bills \subseteq Nat /\ Reviews \subseteq Seq(Candidates)
        /\ Retrievals \subseteq SUBSET Refs
    BY EvaluationFits
  <1>0. UNCHANGED <<raws, aborted, corpus>> =>
          UNCHANGED <<Costs, Completed, AllPriced, Metrics(MinConfidence), Sweep>>
    BY DEF Costs, Completed, AllPriced, Metrics, Sweep, Gates
  <1>1. ASSUME UNCHANGED evalVars PROVE RunInv'
    BY <1>0, <1>1 DEF RunInv, ProgressInv, ServedInv, BillInv, MadeInv, Gates
  <1>2. ASSUME Refuse \/ Certify PROVE RunInv'
    BY <1>0, <1>2 DEF Refuse, Certify, RunInv, ProgressInv, ServedInv, BillInv, MadeInv
  <1>3. ASSUME NEW limit \in 0..Len(corpus), Select(limit) PROVE RunInv'
    <2>0. corpus \in Seq(Cases) /\ Len(corpus) \in Nat /\ raws \in Seq(RawRuns) /\ Len(raws) <= 0
      BY <1>3 DEF RunInv, ProgressInv, Select
    <2>1. selected' \in Nat /\ selected' <= Len(corpus)
      <3>1. limit \in Nat /\ limit <= Len(corpus)
        BY <2>0
      <3>2. Min({limit, Len(corpus)}) \in {limit, Len(corpus)}
        <4>1. \E x \in {limit, Len(corpus)} : \A y \in {limit, Len(corpus)} : x <= y
          BY <2>0, <3>1
        <4> QED
          BY <4>1 DEF Min
      <3> QED
        BY <1>3, <2>0, <3>1, <3>2 DEF Select
    <2>2. ProgressInv'
      <3>1. Len(raws) \in Nat
        BY <2>0
      <3>2. Len(raws) <= selected'
        BY <2>0, <2>1, <3>1
      <3> QED
        BY <1>3, <2>0, <2>1, <3>2 DEF Select, RunInv, ProgressInv
    <2> QED
      BY <1>0, <1>3, <2>2 DEF Select, RunInv, ServedInv, BillInv, MadeInv
  <1>4. ASSUME NEW bill \in Bills, Fail(bill) PROVE RunInv'
    <2> DEFINE raw == [drafted |-> <<>>, known |-> {}, failed |-> TRUE,
                       listed |-> FALSE, cost |-> 0]
    <2>1. raw \in RawRuns /\ raw.failed /\ raw.cost = 0
      BY EmptySeq DEF RawRuns
    <2>2. /\ Running /\ raws' = Append(raws, raw) /\ served' = Append(served, {})
          /\ billed' = IF live THEN billed + bill ELSE billed
          /\ UNCHANGED <<stage, corpus, live, selected, aborted, report>>
      BY <1>4 DEF Fail, Charge
    <2> DEFINE published == {}
    <2>3. /\ served' = Append(served, published) /\ published \in SUBSET Nat
          /\ published = IF raw.failed THEN {} ELSE Published(raw.drafted, raw.known, MinConfidence)
      BY <2>1, <2>2
    <2>4. bill \in Nat /\ raw.cost <= (IF live THEN bill ELSE 0) /\ raw.failed
      BY <1>f, <2>1
    <2> HIDE DEF raw, published
    <2> QED
      BY <2>1, <2>2, <2>3, <2>4, CaseStep
  <1>5. ASSUME NEW bill \in Bills, NEW drafted \in Reviews, NEW known \in Retrievals,
               NEW listed \in BOOLEAN, Review(drafted, known, bill, listed)
        PROVE  RunInv'
    <2> DEFINE raw == [drafted |-> drafted, known |-> known, failed |-> FALSE,
                       listed |-> listed, cost |-> CostOf(bill, listed)]
    <2>0. CostOf(bill, listed) \in {0, IF live THEN bill ELSE 0} /\ bill \in Nat
          /\ (listed => CostOf(bill, listed) = IF live THEN bill ELSE 0)
      BY <1>f DEF CostOf
    <2>1. /\ raw \in RawRuns /\ ~raw.failed /\ raw.cost = CostOf(bill, listed)
          /\ raw.drafted = drafted /\ raw.known = known /\ raw.listed = listed
      BY <1>f, <2>0 DEF RawRuns
    <2>2. /\ Running /\ raws' = Append(raws, raw)
          /\ served' = Append(served, Published(drafted, known, MinConfidence))
          /\ billed' = IF live THEN billed + bill ELSE billed
          /\ UNCHANGED <<stage, corpus, live, selected, aborted, report>>
      BY <1>5 DEF Review, Charge
    <2> HIDE DEF raw
    <2>3. bill \in Nat /\ raw.cost <= (IF live THEN bill ELSE 0)
      BY <2>0, <2>1
    <2>4. Published(drafted, known, MinConfidence) \in SUBSET Nat
      <3>1. DOMAIN drafted \subseteq Nat
        BY <1>f
      <3> QED
        BY <3>1 DEF Published
    <2>5. Published(drafted, known, MinConfidence)
            = IF raw.failed THEN {} ELSE Published(raw.drafted, raw.known, MinConfidence)
      BY <2>1
    <2>6. ~raw.failed /\ raw.listed => raw.cost = IF live THEN bill ELSE 0
      BY <2>0, <2>1
    <2> DEFINE published == Published(drafted, known, MinConfidence)
    <2> HIDE DEF published
    <2>7. /\ Running /\ raws' = Append(raws, raw) /\ served' = Append(served, published)
          /\ billed' = IF live THEN billed + bill ELSE billed
          /\ UNCHANGED <<stage, corpus, live, selected, aborted, report>>
          /\ published \in SUBSET Nat
          /\ published = IF raw.failed THEN {} ELSE Published(raw.drafted, raw.known, MinConfidence)
      BY <2>2, <2>4, <2>5 DEF published
    <2> QED
      BY <2>1, <2>3, <2>6, <2>7, CaseStep
  <1>6. ASSUME NEW bill \in Bills, Abort(bill) PROVE RunInv'
    <2>0. /\ stage = "running" /\ stage' = "aborted" /\ aborted' = TRUE
          /\ billed' = billed + bill /\ bill \in Nat
          /\ UNCHANGED <<corpus, live, selected, raws, served, report>>
      BY <1>f, <1>6 DEF Abort, Charge, Running
    <2>1. BillInv'
      <3>1. SumFunction(Costs) \in Nat
        BY CostsAdd, SumIsNatural DEF RunInv, ProgressInv, SumFunction
      <3>2. Costs' = Costs
        BY <2>0 DEF Costs
      <3> QED
        BY <2>0, <3>1, <3>2 DEF RunInv, BillInv
    <2> QED
      BY <2>0, <2>1 DEF RunInv, ProgressInv, ServedInv, MadeInv
  <1>7. ASSUME Report PROVE RunInv'
    <2>0. /\ stage = "running" => Len(raws) = selected
          /\ stage \in {"running", "aborted"}
          /\ stage' = "done" /\ UNCHANGED <<corpus, live, selected, raws, served, billed, aborted>>
      BY <1>7 DEF Report
    <2>1. MadeInv'
      BY <1>0, <1>7, <2>0 DEF Report, MadeInv, Costs, Gates
    <2>2. ProgressInv'
      BY <2>0 DEF RunInv, ProgressInv
    <2> QED
      BY <1>0, <2>0, <2>1, <2>2 DEF RunInv, ServedInv, BillInv
  <1> QED
    BY <1>1, <1>2, <1>3, <1>4, <1>5, <1>6, <1>7 DEF EvalNext

LEMMA RunInvariant == EvalSpec => []RunInv
  BY RunInitially, RunStep, PTL DEF EvalSpec

\* Pairs of a first and one of its seconds.
Fan(S, seconds) == UNION {{i} \X seconds[i] : i \in S}

\* There are as many as there are seconds altogether.
LEMMA FanIsSum ==
  ASSUME NEW S, IsFiniteSet(S), NEW seconds, \A i \in S : IsFiniteSet(seconds[i])
  PROVE  LET f == [i \in S |-> Cardinality(seconds[i])]
         IN  Summable(f, S) /\ Cardinality(Fan(S, seconds)) = SumFunction(f)
  <1> DEFINE f == [i \in S |-> Cardinality(seconds[i])]
             numbering == [i \in S |-> CHOOSE b : b \in Bijection(1..f[i], seconds[i])]
             g == [u \in Units(f, S) |-> <<u[1], numbering[u[1]][u[2]]>>]
  <1>1. \A i \in S : f[i] \in Nat /\ numbering[i] \in Bijection(1..f[i], seconds[i])
    <2> SUFFICES ASSUME NEW i \in S
                 PROVE  f[i] \in Nat /\ numbering[i] \in Bijection(1..f[i], seconds[i])
      OBVIOUS
    <2>1. f[i] = Cardinality(seconds[i]) /\ IsFiniteSet(seconds[i])
      OBVIOUS
    <2>2. f[i] \in Nat /\ ExistsBijection(1..f[i], seconds[i])
      BY <2>1, FS_CardinalityType
    <2> HIDE DEF f
    <2> QED
      BY <2>2 DEF ExistsBijection
  <1>2. Summable(f, S) /\ DOMAIN f = S
    BY <1>1 DEF Summable
  <1> HIDE DEF f, numbering
  <1>3. \A u \in Units(f, S) :
          /\ u[1] \in S /\ u[2] \in 1..f[u[1]] /\ u = <<u[1], u[2]>>
    BY DEF Units, Column
  <1>4. \A i \in S : \A k \in 1..f[i] : <<i, k>> \in Units(f, S)
    BY DEF Units, Column
  <1>5. \A p : p \in Fan(S, seconds) <=>
                 p[1] \in S /\ p[2] \in seconds[p[1]] /\ p = <<p[1], p[2]>>
    BY DEF Fan
  <1>6. g \in [Units(f, S) -> Fan(S, seconds)]
    <2> SUFFICES ASSUME NEW u \in Units(f, S)
                 PROVE  <<u[1], numbering[u[1]][u[2]]>> \in Fan(S, seconds)
      OBVIOUS
    <2>1. u[1] \in S /\ u[2] \in 1..f[u[1]]
      BY <1>3
    <2>2. numbering[u[1]][u[2]] \in seconds[u[1]]
      BY <1>1, <2>1 DEF Bijection, Injection
    <2> QED
      BY <2>1, <2>2 DEF Fan
  <1>7. ASSUME NEW u \in Units(f, S), NEW v \in Units(f, S), g[u] = g[v] PROVE u = v
    <2>1. u[1] = v[1] /\ numbering[u[1]][u[2]] = numbering[v[1]][v[2]]
      BY <1>7
    <2>2. /\ u[1] \in S /\ u[2] \in 1..f[u[1]] /\ u = <<u[1], u[2]>>
          /\ v[2] \in 1..f[u[1]] /\ v = <<v[1], v[2]>>
      BY <1>3, <2>1
    <2>3. u[2] = v[2]
      BY <1>1, <2>1, <2>2 DEF Bijection, Injection, IsInjective
    <2> QED
      BY <2>1, <2>2, <2>3
  <1>8. ASSUME NEW p \in Fan(S, seconds) PROVE \E u \in Units(f, S) : g[u] = p
    <2>1. p[1] \in S /\ p[2] \in seconds[p[1]] /\ p = <<p[1], p[2]>>
      BY <1>5
    <2>2. PICK k \in 1..f[p[1]] : numbering[p[1]][k] = p[2]
      BY <1>1, <2>1 DEF Bijection, Surjection
    <2>3. <<p[1], k>> \in Units(f, S)
      BY <1>4, <2>1
    <2>4. g[<<p[1], k>>] = <<p[1], p[2]>>
      BY <2>2, <2>3
    <2> QED
      BY <2>1, <2>3, <2>4
  <1>9. ExistsBijection(Units(f, S), Fan(S, seconds))
    <2> HIDE DEF g
    <2>1. g \in Bijection(Units(f, S), Fan(S, seconds))
      BY <1>6, <1>7, <1>8 DEF Bijection, Injection, Surjection, IsInjective
    <2> QED
      BY <2>1 DEF ExistsBijection
  <1>10. Cardinality(Fan(S, seconds)) = Cardinality(Units(f, S))
    BY <1>2, <1>9, UnitsAreFinite, FS_Bijection
  <1> QED
    BY <1>2, <1>10, SumIsCount DEF SumFunction, f

\* A sum of nothing but zeros.
LEMMA NothingAddsUp ==
  ASSUME NEW f, NEW S, Summable(f, S), SumFunctionOnSet(f, S) = 0, NEW x \in S
  PROVE  f[x] = 0
  <1>1. Summable(f, {x}) /\ f[x] \in Nat
    BY FS_Singleton DEF Summable
  <1>2. SumFunctionOnSet(f, {x}) = f[x]
    BY <1>1, SumIsCount, UnitsOfOne
  <1>3. SumFunctionOnSet(f, {x}) <= SumFunctionOnSet(f, S)
    BY <1>1, SumAtMost DEF Summable
  <1> QED
    BY <1>1, <1>2, <1>3

LEMMA DomainIsFinite ==
  ASSUME NEW S, NEW s \in Seq(S)
  PROVE  IsFiniteSet(DOMAIN s) /\ DOMAIN s \subseteq Nat \ {0}
  <1>1. DOMAIN s = 1..Len(s) /\ Len(s) \in Nat
    OBVIOUS
  <1>2. IsFiniteSet(1..Len(s))
    BY <1>1, FS_Interval
  <1> QED
    BY <1>1, <1>2

\* A set of places of a sequence can be counted.
LEMMA PlacesAreFinite ==
  ASSUME NEW S, NEW s \in Seq(S), NEW T \in SUBSET (DOMAIN s)
  PROVE  IsFiniteSet(T) /\ Cardinality(T) \in Nat
  BY DomainIsFinite, FS_Subset, FS_CardinalityType

\* One-to-one choices of matching pairs.
Pairings(drafted, published, labels) ==
  LET matching == {e \in published \X Eligible(labels) : e[2] \in drafted[e[1]].near}
  IN  {pairs \in SUBSET matching : \A e, f \in pairs : e[1] = f[1] <=> e[2] = f[2]}

\* There is one as large as a case's matching is said to be.
LEMMA MatchedIsReached ==
  ASSUME NEW drafted \in Seq(Candidates), NEW published \in SUBSET (DOMAIN drafted),
         NEW labels \in Seq(LabelKinds)
  PROVE  /\ Matched(drafted, published, labels) \in Nat
         /\ \E pairs \in Pairings(drafted, published, labels) :
              IsFiniteSet(pairs) /\ Cardinality(pairs) = Matched(drafted, published, labels)
  <1> DEFINE P == Pairings(drafted, published, labels)
             all == published \X Eligible(labels)
             size == [pairs \in P |-> Cardinality(pairs)]
             sizes == {size[pairs] : pairs \in P}
  <1>1. IsFiniteSet(all)
    <2>1. Eligible(labels) \in SUBSET (DOMAIN labels)
      BY DEF Eligible
    <2>2. IsFiniteSet(published) /\ IsFiniteSet(Eligible(labels))
      BY <2>1, PlacesAreFinite
    <2> QED
      BY <2>2, FS_Product
  <1>2. \A pairs \in P : pairs \subseteq all
    BY DEF Pairings
  <1>3. \A pairs \in P : IsFiniteSet(pairs) /\ Cardinality(pairs) \in Nat
                         /\ Cardinality(pairs) <= Cardinality(all)
    BY <1>1, <1>2, FS_Subset, FS_CardinalityType
  <1>4. {} \in P
    BY DEF Pairings
  <1>5. Matched(drafted, published, labels) = Max(sizes)
    <2>1. sizes = {Cardinality(pairs) : pairs \in P}
      OBVIOUS
    <2> QED
      BY <2>1 DEF Matched, Pairings
  <1> HIDE DEF P, all
  <1>6. sizes \in SUBSET Nat /\ sizes # {}
    BY <1>3, <1>4
  <1>7. IsFiniteSet(sizes)
    <2>1. Cardinality(all) \in Nat
      BY <1>1, FS_CardinalityType
    <2>2. IsFiniteSet(0..Cardinality(all))
      BY <2>1, FS_Interval
    <2>3. sizes \subseteq 0..Cardinality(all)
      BY <1>3, <2>1
    <2> QED
      BY <2>2, <2>3, FS_Subset
  <1> HIDE DEF sizes
  <1>8. PICK n \in sizes : \A m \in sizes : m <= n
    BY <1>6, <1>7, GreatestNumber
  <1>9. Max(sizes) \in sizes
    <2>1. \A m \in sizes : n >= m
      BY <1>6, <1>8
    <2> QED
      BY <2>1 DEF Max
  <1>10. PICK pairs \in P : Cardinality(pairs) = Max(sizes)
    BY <1>9 DEF sizes
  <1> QED
    BY <1>3, <1>5, <1>10 DEF P

(***************************************************************************)
(* What a case counts.                                                     *)
(***************************************************************************)

\* The cases that did not fail, and what there is of them.
LEMMA CaseFits ==
  ASSUME RunInv, NEW i \in DOMAIN raws
  PROVE  /\ i \in 1..selected /\ i \in DOMAIN corpus /\ corpus[i].labels \in Seq(LabelKinds)
         /\ raws[i].drafted \in Seq(Candidates) /\ raws[i].known \in SUBSET Refs
  <1>1. raws \in Seq(RawRuns) /\ corpus \in Seq(Cases) /\ Len(raws) <= selected
        /\ selected <= Len(corpus) /\ selected \in Nat
    BY DEF RunInv, ProgressInv
  <1>2. i \in 1..selected /\ i \in DOMAIN corpus /\ raws[i] \in RawRuns
    BY <1>1
  <1>3. corpus[i] \in Cases
    BY <1>1, <1>2
  <1> QED
    BY <1>2, <1>3 DEF RawRuns, Cases

Fields == {"labels", "unadjudicated", "invalid", "findings", "matched", "spam"}

LEMMA OutcomeFits ==
  ASSUME RunInv, NEW i \in DOMAIN raws, NEW t
  PROVE  /\ \A field \in Fields : Outcome(corpus[i], raws[i], t)[field] \in Nat
         /\ Published(raws[i].drafted, raws[i].known, t) \in SUBSET (DOMAIN raws[i].drafted)
         /\ Outcome(corpus[i], raws[i], t)["findings"]
              = Cardinality(Published(raws[i].drafted, raws[i].known, t))
         /\ Outcome(corpus[i], raws[i], t)["matched"]
              = Matched(raws[i].drafted, Published(raws[i].drafted, raws[i].known, t),
                        corpus[i].labels)
         /\ Outcome(corpus[i], raws[i], t)["labels"] = Cardinality(Eligible(corpus[i].labels))
         /\ Outcome(corpus[i], raws[i], t)["unadjudicated"]
              = Cardinality({l \in Eligible(corpus[i].labels) :
                               corpus[i].labels[l].status # "confirmed"})
         /\ Outcome(corpus[i], raws[i], t)["invalid"] = Cardinality(Invalid(corpus[i].labels))
  <1> DEFINE drafted == raws[i].drafted
             labels == corpus[i].labels
             published == Published(drafted, raws[i].known, t)
             spam == Spam(drafted, raws[i].known, t)
             open == {l \in Eligible(labels) : labels[l].status # "confirmed"}
             o == Outcome(corpus[i], raws[i], t)
  <1>1. labels \in Seq(LabelKinds) /\ drafted \in Seq(Candidates)
    BY CaseFits
  <1>2. published \in SUBSET (DOMAIN drafted) /\ spam \in SUBSET (DOMAIN drafted)
    BY DEF Published, Spam
  <1>3. /\ Eligible(labels) \in SUBSET (DOMAIN labels) /\ Invalid(labels) \in SUBSET (DOMAIN labels)
        /\ open \in SUBSET (DOMAIN labels)
    BY DEF Eligible, Invalid
  <1>4. o = [labels |-> Cardinality(Eligible(labels)),
             unadjudicated |-> Cardinality(open),
             invalid |-> Cardinality(Invalid(labels)),
             findings |-> Cardinality(published),
             matched |-> Matched(drafted, published, labels),
             spam |-> Cardinality(spam)]
    BY DEF Outcome, ScoreCase
  <1> HIDE DEF drafted, labels, published, spam, open
  <1>5. /\ Cardinality(Eligible(labels)) \in Nat /\ Cardinality(open) \in Nat
        /\ Cardinality(Invalid(labels)) \in Nat /\ Cardinality(published) \in Nat
        /\ Cardinality(spam) \in Nat
    BY <1>1, <1>2, <1>3, PlacesAreFinite
  <1>6. Matched(drafted, published, labels) \in Nat
    BY <1>1, <1>2, MatchedIsReached
  <1> HIDE DEF o
  <1>7. \A field \in Fields : o[field] \in Nat
    BY <1>4, <1>5, <1>6 DEF Fields
  <1> QED
    BY <1>2, <1>4, <1>7 DEF drafted, labels, published, open, o

OutcomesIn(t, field) == [i \in Completed |-> Outcome(corpus[i], raws[i], t)[field]]

LEMMA MetricsAreSums ==
  ASSUME RunInv, NEW t, NEW field \in Fields
  PROVE  /\ Metrics(t)[field] = SumFunction(OutcomesIn(t, field)) /\ Metrics(t)[field] \in Nat
         /\ Summable(OutcomesIn(t, field), Completed) /\ DOMAIN OutcomesIn(t, field) = Completed
  <1>1. Metrics(t)[field] = SumFunction(OutcomesIn(t, field))
    BY DEF Metrics, OutcomesIn, Fields
  <1>2. Completed \subseteq DOMAIN raws /\ IsFiniteSet(DOMAIN raws)
    BY CostsAdd DEF Completed, Summable, RunInv, ProgressInv
  <1>3. Summable(OutcomesIn(t, field), Completed)
    BY <1>2, FS_Subset, OutcomeFits DEF Summable, OutcomesIn
  <1>4. DOMAIN OutcomesIn(t, field) = Completed
    BY DEF OutcomesIn
  <1> QED
    BY <1>1, <1>3, <1>4, SumIsNatural DEF SumFunction

\* What the graph's own runs published is what is counted at the configured threshold.
LEMMA CountsThePublished ==
  ASSUME RunInv
  PROVE  Metrics(MinConfidence)["findings"] = PublishedCount
  <1> DEFINE f == OutcomesIn(MinConfidence, "findings")
             g == [i \in DOMAIN served |-> Cardinality(served[i])]
  <1>1. Metrics(MinConfidence)["findings"] = SumFunction(f) /\ Summable(f, Completed)
        /\ DOMAIN f = Completed
    BY MetricsAreSums DEF Fields
  <1>2. /\ DOMAIN served = DOMAIN raws /\ Completed \subseteq DOMAIN raws
        /\ \A i \in DOMAIN raws : i \notin Completed => raws[i].failed
        /\ \A i \in Completed : ~raws[i].failed
    BY DEF RunInv, ServedInv, Completed
  <1>3. \A i \in Completed : g[i] = f[i] /\ f[i] \in Nat
    <2> SUFFICES ASSUME NEW i \in Completed PROVE g[i] = f[i] /\ f[i] \in Nat
      OBVIOUS
    <2>1. served[i] = Published(raws[i].drafted, raws[i].known, MinConfidence)
      BY <1>2 DEF RunInv, ServedInv
    <2>2. f[i] = Cardinality(Published(raws[i].drafted, raws[i].known, MinConfidence))
      BY <1>2, OutcomeFits DEF OutcomesIn
    <2> HIDE DEF f
    <2> QED
      BY <1>1, <1>2, <2>1, <2>2 DEF Summable
  <1>4. \A i \in DOMAIN raws \ Completed : g[i] = 0
    <2> SUFFICES ASSUME NEW i \in DOMAIN raws \ Completed PROVE g[i] = 0
      OBVIOUS
    <2>1. served[i] = {}
      BY <1>2 DEF RunInv, ServedInv
    <2> QED
      BY <1>2, <2>1, FS_EmptySet
  <1>5. IsFiniteSet(DOMAIN raws) /\ DOMAIN g = DOMAIN raws
    BY <1>2, CostsAdd DEF Summable, RunInv, ProgressInv
  <1> HIDE DEF f, g
  <1>6. Summable(g, DOMAIN raws) /\ Summable(g, Completed)
    BY <1>1, <1>3, <1>4, <1>5 DEF Summable
  <1>7. SumFunctionOnSet(g, Completed) = SumFunctionOnSet(g, DOMAIN raws)
    BY <1>2, <1>4, <1>6, SumWithoutZeros
  <1>8. SumFunctionOnSet(g, Completed) = SumFunctionOnSet(f, Completed)
    BY <1>3, <1>6, SumOfEquals
  <1>9. SumFunction(g) = SumFunction(f)
    BY <1>1, <1>5, <1>7, <1>8 DEF SumFunction
  <1> QED
    BY <1>1, <1>9 DEF PublishedCount, g

\* A lower threshold publishes on every place a higher one does: the first fit
\* finding of the place there.
LEMMA LowerPublishesMore ==
  ASSUME NEW drafted \in Seq(Candidates), NEW known,
         NEW low \in Nat, NEW high \in Nat, low <= high,
         NEW k \in Published(drafted, known, high)
  PROVE  \E j \in Published(drafted, known, low) : drafted[j].place = drafted[k].place
  <1> DEFINE fit == {i \in DOMAIN drafted :
                       Sound(drafted[i], known) /\ drafted[i].confidence >= low}
             here == {i \in fit : drafted[i].place = drafted[k].place}
  <1>1. k \in DOMAIN drafted /\ Sound(drafted[k], known) /\ drafted[k].confidence >= high
    BY DEF Published
  <1>2. drafted[k].confidence \in Nat
    <2>1. drafted[k] \in Candidates
      BY <1>1
    <2> QED
      BY <2>1 DEF Candidates
  <1>3. k \in here
    BY <1>1, <1>2
  <1>4. here \in SUBSET Nat
    BY DomainIsFinite
  <1>5. Published(drafted, known, low)
          = {i \in fit : \A j \in fit : j < i => drafted[j].place # drafted[i].place}
    BY DEF Published
  <1> HIDE DEF fit
  <1>6. PICK j \in here : \A m \in here : j <= m
    <2> HIDE DEF here
    <2> QED
      BY <1>3, <1>4, LeastNumber
  <1>7. \A m \in fit : m < j => drafted[m].place # drafted[j].place
    <2> SUFFICES ASSUME NEW m \in fit, m < j, drafted[m].place = drafted[j].place PROVE FALSE
      OBVIOUS
    <2>1. m \in here
      BY <1>6
    <2> QED
      BY <1>4, <1>6, <2>1
  <1> QED
    BY <1>5, <1>6, <1>7

\* The report is the run's, for every corpus, every draft and every bill.
THEOREM ReportsTheRun == EvalSpec => []ReportIsTheRun
  <1>1. RunInv => ReportIsTheRun
    <2> SUFFICES ASSUME RunInv, stage = "done" PROVE ReportIsTheRun
      BY DEF ReportIsTheRun
    <2>1. report.cost = Rounded(SumFunction(Costs), Grain) /\ report.sweep = Sweep
      BY DEF RunInv, MadeInv
    <2>2. report.sweep[MinConfidence].findings = PublishedCount
      <3>1. Sweep[MinConfidence] = Metrics(MinConfidence)
        BY EvaluationFits DEF Sweep
      <3> QED
        BY <2>1, <3>1, CountsThePublished
    <2>3. ASSUME NEW i \in DOMAIN raws, NEW low \in Thresholds, NEW high \in Thresholds, low <= high
          PROVE  LET On(t) == {raws[i].drafted[k].place :
                                 k \in Published(raws[i].drafted, raws[i].known, t)}
                 IN  On(high) \subseteq On(low)
      <3> DEFINE drafted == raws[i].drafted
      <3>1. drafted \in Seq(Candidates) /\ low \in Nat /\ high \in Nat
        BY CaseFits, EvaluationFits
      <3> HIDE DEF drafted
      <3>2. \A k \in Published(drafted, raws[i].known, high) :
              \E j \in Published(drafted, raws[i].known, low) : drafted[j].place = drafted[k].place
        BY <2>3, <3>1, LowerPublishesMore
      <3> QED
        BY <3>2 DEF drafted
    <2>4. /\ 2 * Grain * report.cost <= 2 * billed + Grain
          /\ ~aborted /\ AllPriced => 2 * billed <= 2 * Grain * report.cost + Grain
      <3>1. SumFunction(Costs) \in Nat
        BY CostsAdd, SumIsNatural DEF RunInv, ProgressInv, SumFunction
      <3>2. /\ Grain \in Nat \ {0} /\ billed \in Nat
            /\ SumFunction(Costs) <= billed
            /\ ~aborted /\ AllPriced => SumFunction(Costs) = billed
        BY EvaluationFits DEF RunInv, BillInv
      <3>3. /\ 2 * Grain * report.cost <= 2 * SumFunction(Costs) + Grain
            /\ 2 * SumFunction(Costs) <= 2 * Grain * report.cost + Grain
        BY <2>1, <3>1, <3>2, RoundsToNearest
      <3> DEFINE exact == 2 * Grain * report.cost
                 sum == SumFunction(Costs)
      <3>4. exact \in Int
        <4>1. report.cost \in Nat
          BY <2>1, <3>1, <3>2, RoundsToNearest
        <4>2. Grain * report.cost \in Nat
          BY <3>2, <4>1
        <4> QED
          BY <3>2, <4>1, <4>2
      <3> HIDE DEF exact, sum
      <3> QED
        BY <3>1, <3>2, <3>3, <3>4 DEF exact, sum
    <2> QED
      BY <2>2, <2>3, <2>4 DEF ReportIsTheRun
  <1> QED
    BY <1>1, RunInvariant, PTL

(***************************************************************************)
(* A report that says passed.                                              *)
(***************************************************************************)

Passed == RunInv /\ stage = "done" /\ report.passed

EligibleIn(i) == Eligible(corpus[i].labels)

\* All that was selected was reviewed, and humans decided all of its labels.
LEMMA PassedFits ==
  ASSUME Passed
  PROVE  /\ selected >= Enough /\ DOMAIN raws = 1..selected /\ Completed = 1..selected
         /\ Gates(Metrics(MinConfidence)) /\ selected \in Nat
         /\ \A i \in 1..selected : \A l \in DOMAIN corpus[i].labels :
              corpus[i].labels[l].status # "provisional"
         /\ \A i \in 1..selected :
              EligibleIn(i) = {l \in DOMAIN corpus[i].labels : corpus[i].labels[l].status = "confirmed"}
  <1>1. Gates(Metrics(MinConfidence)) /\ ~aborted
    <2> DEFINE earned == Gates(Metrics(MinConfidence)) /\ ~aborted
    <2>1. report = [passed |-> earned, cost |-> Rounded(SumFunction(Costs), Grain), sweep |-> Sweep]
      BY Zenon DEF Passed, RunInv, MadeInv
    <2>2. report.passed
      BY DEF Passed
    <2> HIDE DEF earned
    <2>3. report.passed = earned
      BY <2>1, Zenon
    <2>4. earned
      BY <2>2, <2>3, Zenon
    <2> QED
      BY <2>4 DEF earned
  <1>2. /\ Completed = DOMAIN raws /\ Cardinality(Completed) >= Enough
        /\ Metrics(MinConfidence)["unadjudicated"] = 0 /\ Metrics(MinConfidence)["invalid"] = 0
    BY <1>1 DEF Gates
  <1>3. raws \in Seq(RawRuns) /\ Len(raws) = selected /\ selected \in Nat
    BY <1>1 DEF Passed, RunInv, ProgressInv
  <1>4. DOMAIN raws = 1..selected
    BY <1>3
  <1>5. selected >= Enough
    <2>1. Cardinality(1..selected) = selected
      BY <1>3, FS_Interval
    <2> QED
      BY <1>2, <1>4, <2>1
  <1>6. RunInv
    BY DEF Passed
  <1>7. ASSUME NEW i \in 1..selected
        PROVE  /\ \A l \in EligibleIn(i) : corpus[i].labels[l].status = "confirmed"
               /\ Invalid(corpus[i].labels) = {}
               /\ corpus[i].labels \in Seq(LabelKinds)
    <2>1. i \in Completed /\ i \in DOMAIN raws
      BY <1>2, <1>4
    <2>2. /\ Summable(OutcomesIn(MinConfidence, "unadjudicated"), Completed)
          /\ SumFunctionOnSet(OutcomesIn(MinConfidence, "unadjudicated"), Completed) = 0
      BY <1>2, <1>6, MetricsAreSums DEF Fields, SumFunction
    <2>3. /\ Summable(OutcomesIn(MinConfidence, "invalid"), Completed)
          /\ SumFunctionOnSet(OutcomesIn(MinConfidence, "invalid"), Completed) = 0
      BY <1>2, <1>6, MetricsAreSums DEF Fields, SumFunction
    <2>4. OutcomesIn(MinConfidence, "unadjudicated")[i] = 0
      BY <2>1, <2>2, NothingAddsUp
    <2>5. OutcomesIn(MinConfidence, "invalid")[i] = 0
      BY <2>1, <2>3, NothingAddsUp
    <2> DEFINE labels == corpus[i].labels
               open == {l \in Eligible(labels) : labels[l].status # "confirmed"}
    <2>6. Cardinality(open) = 0 /\ Cardinality(Invalid(labels)) = 0
      BY <1>6, <2>1, <2>4, <2>5, OutcomeFits DEF OutcomesIn
    <2>7. labels \in Seq(LabelKinds)
      BY <1>6, <2>1, CaseFits
    <2>8. open \in SUBSET (DOMAIN labels) /\ Invalid(labels) \in SUBSET (DOMAIN labels)
      BY DEF Eligible, Invalid
    <2> HIDE DEF labels, open
    <2>9. IsFiniteSet(open) /\ IsFiniteSet(Invalid(labels))
      BY <2>7, <2>8, PlacesAreFinite
    <2>10. open = {} /\ Invalid(labels) = {}
      BY <2>6, <2>9, FS_EmptySet
    <2> QED
      BY <2>7, <2>10 DEF EligibleIn, labels, open
  <1>8. ASSUME NEW i \in 1..selected, NEW l \in DOMAIN corpus[i].labels
        PROVE  /\ corpus[i].labels[l].status # "provisional"
               /\ corpus[i].labels[l].status = "confirmed" <=> l \in EligibleIn(i)
    <2>1. l \in Invalid(corpus[i].labels) <=>
            corpus[i].labels[l].status # "excluded" /\ ~corpus[i].labels[l].onLine
      BY DEF Invalid
    <2>2. l \in EligibleIn(i) <=>
            corpus[i].labels[l].status # "excluded" /\ corpus[i].labels[l].onLine
      BY DEF EligibleIn, Eligible
    <2> QED
      BY <1>7, <2>1, <2>2
  <1>9. \A i \in 1..selected : EligibleIn(i) \subseteq DOMAIN corpus[i].labels
    BY DEF EligibleIn, Eligible
  <1>10. ASSUME NEW i \in 1..selected
         PROVE  EligibleIn(i) = {l \in DOMAIN corpus[i].labels : corpus[i].labels[l].status = "confirmed"}
    BY <1>8, <1>9
  <1> QED
    BY <1>1, <1>2, <1>3, <1>4, <1>5, <1>8, <1>10

\* The first part of an answer to the labels of a case: its largest pairing.
Best(i) ==
  CHOOSE pairs \in Pairings(raws[i].drafted, served[i], corpus[i].labels) :
    IsFiniteSet(pairs) /\ Cardinality(pairs) = Matched(raws[i].drafted, served[i], corpus[i].labels)

AnsweredIn(i) == {e[2] : e \in Best(i)}

LEMMA BestFits ==
  ASSUME Passed, NEW i \in 1..selected
  PROVE  /\ IsFiniteSet(AnsweredIn(i))
         /\ Cardinality(AnsweredIn(i)) = OutcomesIn(MinConfidence, "matched")[i]
         /\ \A e \in Best(i) : /\ e[1] \in served[i] /\ e[1] # 0 /\ e[2] \in EligibleIn(i)
                               /\ e[2] \in raws[i].drafted[e[1]].near
         /\ \A e, f \in Best(i) : e[1] = f[1] <=> e[2] = f[2]
  <1> DEFINE drafted == raws[i].drafted
             labels == corpus[i].labels
  <1>0. RunInv /\ i \in DOMAIN raws /\ i \in Completed
    BY PassedFits DEF Passed
  <1>1. served[i] = Published(drafted, raws[i].known, MinConfidence)
    BY <1>0 DEF RunInv, ServedInv, Completed
  <1>2. served[i] \in SUBSET (DOMAIN drafted) /\ drafted \in Seq(Candidates)
        /\ labels \in Seq(LabelKinds)
    <2>1. served[i] \in SUBSET (DOMAIN drafted)
      <3> HIDE DEF labels
      <3>1. Published(drafted, raws[i].known, MinConfidence) \in SUBSET (DOMAIN drafted)
        BY <1>0, OutcomeFits, ZenonT(30)
      <3> QED
        BY <1>1, <3>1
    <2>2. drafted \in Seq(Candidates) /\ labels \in Seq(LabelKinds)
      BY <1>0, CaseFits
    <2> QED
      BY <2>1, <2>2
  <1>3. OutcomesIn(MinConfidence, "matched")[i] = Matched(drafted, served[i], labels)
    BY ZenonT(30), <1>0, <1>1, OutcomeFits DEF OutcomesIn
  <1>4. DOMAIN drafted \subseteq Nat \ {0}
    BY <1>2, DomainIsFinite
  <1> HIDE DEF drafted, labels
  <1>5. /\ Best(i) \in Pairings(drafted, served[i], labels)
        /\ IsFiniteSet(Best(i)) /\ Cardinality(Best(i)) = Matched(drafted, served[i], labels)
    BY <1>2, MatchedIsReached DEF Best, drafted, labels
  <1>6. /\ \A e \in Best(i) : /\ e[1] \in served[i] /\ e[2] \in Eligible(labels)
                              /\ e[2] \in drafted[e[1]].near
        /\ \A e, f \in Best(i) : e[1] = f[1] <=> e[2] = f[2]
        /\ \A e \in Best(i) : e = <<e[1], e[2]>>
    BY <1>5 DEF Pairings
  <1>7. \A e \in Best(i) : e[1] # 0
    BY <1>2, <1>4, <1>6
  <1>8. IsFiniteSet(AnsweredIn(i)) /\ Cardinality(AnsweredIn(i)) = Cardinality(Best(i))
    <2> DEFINE second == [e \in Best(i) |-> e[2]]
    <2>1. second \in Bijection(Best(i), AnsweredIn(i))
      <3>1. second \in [Best(i) -> AnsweredIn(i)]
        BY DEF AnsweredIn
      <3>2. \A e, f \in Best(i) : second[e] = second[f] => e = f
        BY <1>6
      <3>3. \A l \in AnsweredIn(i) : \E e \in Best(i) : second[e] = l
        BY DEF AnsweredIn
      <3> HIDE DEF second
      <3> QED
        BY <3>1, <3>2, <3>3 DEF Bijection, Injection, Surjection, IsInjective
    <2>2. ExistsBijection(Best(i), AnsweredIn(i))
      BY <2>1 DEF ExistsBijection
    <2> QED
      BY <1>5, <2>2, FS_Bijection
  <1> QED
    BY <1>3, <1>5, <1>6, <1>7, <1>8 DEF EligibleIn, drafted, labels

\* Nothing that is not earned passes, whatever the corpus, the drafts and the failures.
THEOREM PassesAreEarned == EvalSpec => []PassIsEarned
  <1>1. RunInv => PassIsEarned
    <2> SUFFICES ASSUME Passed PROVE PassIsEarned
      BY DEF Passed, PassIsEarned
    <2> DEFINE D == 1..selected
               eligible == [i \in D |-> EligibleIn(i)]
               answeredIn == [i \in D |-> AnsweredIn(i)]
               Finding(i, l) == (CHOOSE e \in Best(i) : e[2] = l)[1]
               answer == [d \in Defects |-> IF d[2] \in AnsweredIn(d[1]) THEN Finding(d[1], d[2]) ELSE 0]
               answered == {d \in Defects : answer[d] # 0}
               m == Metrics(MinConfidence)
    <2>0. RunInv
      BY DEF Passed
    <2>1. /\ selected >= Enough /\ Completed = D /\ DOMAIN raws = D /\ selected \in Nat
          /\ \A i \in 1..selected : \A l \in DOMAIN corpus[i].labels :
               corpus[i].labels[l].status # "provisional"
          /\ \A i \in D :
               EligibleIn(i) = {l \in DOMAIN corpus[i].labels : corpus[i].labels[l].status = "confirmed"}
      BY PassedFits
    <2>2. Defects = Fan(D, eligible)
      BY <2>1 DEF Defects, Fan
    <2>3. \A d : d \in Defects <=> d[1] \in D /\ d[2] \in EligibleIn(d[1]) /\ d = <<d[1], d[2]>>
      BY <2>2 DEF Fan
    <2>4. \A i \in D : \A l \in AnsweredIn(i) :
            /\ \E e \in Best(i) : e[2] = l /\ e[1] = Finding(i, l)
            /\ Finding(i, l) \in served[i] /\ Finding(i, l) # 0
            /\ l \in EligibleIn(i) /\ l \in raws[i].drafted[Finding(i, l)].near
      <3> SUFFICES ASSUME NEW i \in D, NEW l \in AnsweredIn(i)
                   PROVE  /\ \E e \in Best(i) : e[2] = l /\ e[1] = Finding(i, l)
                          /\ Finding(i, l) \in served[i] /\ Finding(i, l) # 0
                          /\ l \in EligibleIn(i) /\ l \in raws[i].drafted[Finding(i, l)].near
        OBVIOUS
      <3> DEFINE e == CHOOSE e \in Best(i) : e[2] = l
      <3>1. e \in Best(i) /\ e[2] = l
        BY DEF AnsweredIn
      <3>2. Finding(i, l) = e[1]
        OBVIOUS
      <3> HIDE DEF e
      <3>3. /\ e[1] \in served[i] /\ e[1] # 0 /\ e[2] \in EligibleIn(i)
            /\ e[2] \in raws[i].drafted[e[1]].near
        BY <3>1, BestFits
      <3> QED
        BY <3>1, <3>2, <3>3
    <2> HIDE DEF Finding
    <2>5. \A d \in Defects : answer[d] # 0 <=> d[2] \in AnsweredIn(d[1])
      BY <2>3, <2>4
    <2>6. answer \in [Defects -> {0} \cup UNION {served[i] : i \in DOMAIN served}]
      <3>1. DOMAIN served = D
        BY <2>0, <2>1 DEF RunInv, ServedInv
      <3>2. \A d \in Defects : answer[d] \in {0} \cup UNION {served[i] : i \in D}
        BY <2>3, <2>4
      <3> QED
        BY <3>1, <3>2
    <2>7. answered = Fan(D, answeredIn)
      <3>1. \A d \in answered : d \in Fan(D, answeredIn)
        BY <2>3, <2>5 DEF Fan
      <3>2. ASSUME NEW d \in Fan(D, answeredIn) PROVE d \in answered
        <4>1. d[1] \in D /\ d[2] \in AnsweredIn(d[1]) /\ d = <<d[1], d[2]>>
          BY DEF Fan
        <4> QED
          BY <2>3, <2>4, <2>5, <4>1
      <3> QED
        BY <3>1, <3>2
    <2>8. Cardinality(Defects) = m["labels"]
      <3> DEFINE f == [i \in D |-> Cardinality(eligible[i])]
      <3>1. IsFiniteSet(D)
        BY <2>1, FS_Interval
      <3>2. \A i \in D : IsFiniteSet(eligible[i])
        <4> SUFFICES ASSUME NEW i \in D PROVE IsFiniteSet(EligibleIn(i))
          OBVIOUS
        <4>1. corpus[i].labels \in Seq(LabelKinds)
          BY <2>0, <2>1, CaseFits
        <4>2. EligibleIn(i) \in SUBSET (DOMAIN corpus[i].labels)
          BY DEF EligibleIn, Eligible
        <4> QED
          BY <4>1, <4>2, PlacesAreFinite
      <3>3. \A i \in D : f[i] = OutcomesIn(MinConfidence, "labels")[i]
        BY <2>0, <2>1, OutcomeFits DEF OutcomesIn, EligibleIn
      <3>4. DOMAIN f = D
        OBVIOUS
      <3> HIDE DEF D
      <3>5. Cardinality(Fan(D, eligible)) = SumFunction(f) /\ Summable(f, D)
        <4> HIDE DEF eligible
        <4> QED
          BY <3>1, <3>2, FanIsSum
      <3> HIDE DEF f, eligible
      <3>6. SumFunction(OutcomesIn(MinConfidence, "labels")) = SumFunction(f)
        BY <2>0, <2>1, <3>3, <3>4, <3>5, SumOfEquals, MetricsAreSums DEF SumFunction, Fields
      <3> QED
        BY <2>0, <2>2, <3>5, <3>6, MetricsAreSums DEF Fields
    <2>9. Cardinality(answered) = m["matched"]
      <3> DEFINE f == [i \in D |-> Cardinality(answeredIn[i])]
      <3>1. IsFiniteSet(D)
        BY <2>1, FS_Interval
      <3>2. \A i \in D : IsFiniteSet(answeredIn[i])
        BY BestFits
      <3>3. \A i \in D : f[i] = OutcomesIn(MinConfidence, "matched")[i]
        BY BestFits
      <3>4. DOMAIN f = D
        OBVIOUS
      <3> HIDE DEF D
      <3>5. Cardinality(Fan(D, answeredIn)) = SumFunction(f) /\ Summable(f, D)
        <4> HIDE DEF answeredIn
        <4> QED
          BY <3>1, <3>2, FanIsSum
      <3> HIDE DEF f, answeredIn, answered
      <3>6. SumFunction(OutcomesIn(MinConfidence, "matched")) = SumFunction(f)
        BY <2>0, <2>1, <3>3, <3>4, <3>5, SumOfEquals, MetricsAreSums DEF SumFunction, Fields
      <3> QED
        BY <2>0, <2>7, <3>5, <3>6, MetricsAreSums DEF Fields
    <2>10. /\ 2 * m["matched"] > m["labels"]
           /\ 20 * Scale * m["matched"] + 10 * m["findings"] >= 14 * Scale * m["findings"]
      <3>1. m["matched"] \in Nat /\ m["labels"] \in Nat /\ m["findings"] \in Nat
        BY <2>0, MetricsAreSums DEF Fields
      <3>2. /\ 2 * Rate(m["matched"], m["labels"]) > Scale
            /\ 10 * Rate(m["matched"], m["findings"]) >= 7 * Scale
        BY PassedFits DEF Gates
      <3> HIDE DEF m
      <3> QED
        BY <3>1, <3>2, RatesSay
    <2>11. m["findings"] = PublishedCount
      BY <2>0, CountsThePublished
    <2>12. ASSUME NEW d \in answered
           PROVE  /\ answer[d] \in served[d[1]] /\ d[2] \in raws[d[1]].drafted[answer[d]].near
                  /\ \A e \in answered : d[1] = e[1] /\ answer[d] = answer[e] => d = e
      <3>1. \A c \in answered : /\ c[1] \in D /\ c[2] \in AnsweredIn(c[1]) /\ c = <<c[1], c[2]>>
                                /\ answer[c] = Finding(c[1], c[2])
        BY <2>3, <2>5
      <3>2. ASSUME NEW e \in answered, d[1] = e[1], answer[d] = answer[e] PROVE d = e
        <4>1. PICK p \in Best(d[1]) : p[2] = d[2] /\ p[1] = Finding(d[1], d[2])
          BY <2>4, <3>1
        <4>2. PICK q \in Best(d[1]) : q[2] = e[2] /\ q[1] = Finding(e[1], e[2])
          BY <2>4, <3>1, <3>2
        <4>3. p[1] = q[1]
          BY <3>1, <3>2, <4>1, <4>2
        <4>4. p[2] = q[2]
          BY <3>1, <4>3, BestFits
        <4> HIDE DEF answered, answer
        <4> QED
          BY <3>1, <3>2, <4>1, <4>2, <4>4
      <3> QED
        BY <2>4, <3>1, <3>2
    <2> HIDE DEF answer
    <2>13. \E a \in [Defects -> {0} \cup UNION {served[i] : i \in DOMAIN served}] :
             LET settled == {d \in Defects : a[d] # 0}
             IN  /\ \A d \in settled :
                      /\ a[d] \in served[d[1]] /\ d[2] \in raws[d[1]].drafted[a[d]].near
                      /\ \A e \in settled : d[1] = e[1] /\ a[d] = a[e] => d = e
                 /\ 2 * Cardinality(settled) > Cardinality(Defects)
                 /\ 20 * Scale * Cardinality(settled) + 10 * PublishedCount
                      >= 14 * Scale * PublishedCount
      <3> HIDE DEF m
      <3>1. /\ 2 * Cardinality(answered) > Cardinality(Defects)
            /\ 20 * Scale * Cardinality(answered) + 10 * PublishedCount
                 >= 14 * Scale * PublishedCount
        BY <2>8, <2>9, <2>10, <2>11
      <3> WITNESS answer \in [Defects -> {0} \cup UNION {served[i] : i \in DOMAIN served}]
      <3> QED
        BY <2>12, <3>1
    <2> QED
      BY <2>1, <2>13 DEF PassIsEarned
  <1> QED
    BY <1>1, RunInvariant, PTL
==============================================================================
