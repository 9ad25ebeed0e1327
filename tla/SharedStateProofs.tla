--------------------------- MODULE SharedStateProofs ---------------------------
(***************************************************************************)
(* State that many callers share, proved for every set of them.  What the  *)
(* run ledger promises: a worker that implements LedgerSpec inherits every *)
(* one of these.  And what the rate limiter does to its table and to the   *)
(* windows of its clients.                                                 *)
(***************************************************************************)
EXTENDS RunLedger, RateLimiter, SequenceTheorems, SumProofs

(***************************************************************************)
(* The run ledger.                                                         *)
(***************************************************************************)

\* A terminal status has no legal move out of it (store.py, _TRANSITIONS).
LEMMA TerminalHasNoMove ==
  \A current \in Terminal : \A target : ~CanTransition(current, target)
  BY DEF Terminal, CanTransition, Transitions

LEMMA LedgerTypeCorrect == LedgerSpec => []LedgerTypeOK
  <1>1. LedgerInit => LedgerTypeOK
    BY DEF LedgerInit, LedgerTypeOK
  <1>2. LedgerTypeOK /\ [LedgerNext]_ledgerVars => LedgerTypeOK'
    BY DEF LedgerTypeOK, LedgerNext, Create, Move, Record, ledgerVars, Statuses
  <1> QED
    BY <1>1, <1>2, PTL DEF LedgerSpec

\* Terminal runs are never reopened or rewritten, by whatever mix of workers
\* moves and records (store.py, _TRANSITIONS with update_run_status).
THEOREM LedgerTerminalIsFinal == LedgerSpec => TerminalIsFinal
  <1>1. ASSUME LedgerTypeOK, LedgerNext, NEW k \in Keys, status[k] \in Terminal
        PROVE  status'[k] = status[k] /\ parts'[k] = parts[k]
    <2>1. ASSUME NEW j \in Keys, Create(j)
          PROVE  status'[k] = status[k] /\ parts'[k] = parts[k]
      BY <1>1, <2>1 DEF Create, LedgerTypeOK, Terminal, Absent
    <2>2. ASSUME NEW j \in Keys, NEW target \in Statuses, Move(j, target)
          PROVE  status'[k] = status[k] /\ parts'[k] = parts[k]
      BY <1>1, <2>2, TerminalHasNoMove DEF Move, LedgerTypeOK
    <2>3. ASSUME NEW j \in Keys, NEW part \in Parts, Record(j, part)
          PROVE  status'[k] = status[k] /\ parts'[k] = parts[k]
      BY <1>1, <2>3 DEF Record, LedgerTypeOK, Terminal
    <2> QED
      BY <1>1, <2>1, <2>2, <2>3 DEF LedgerNext
  <1>2. LedgerTypeOK /\ [LedgerNext]_ledgerVars =>
          [\A k \in Keys : status[k] \in Terminal =>
             status'[k] = status[k] /\ parts'[k] = parts[k]]_ledgerVars
    BY <1>1
  <1> QED
    BY <1>2, LedgerTypeCorrect, PTL DEF LedgerSpec, TerminalIsFinal

\* A run that never reached "running" holds no evidence, so a skipped delivery
\* shows no half-gathered review (store.py, record_files to record_findings).
THEOREM LedgerNoEvidenceBeforeStart == LedgerSpec => []NoEvidenceBeforeStart
  <1>1. LedgerInit => NoEvidenceBeforeStart
    BY DEF LedgerInit, NoEvidenceBeforeStart
  <1>2. LedgerTypeOK /\ NoEvidenceBeforeStart /\ [LedgerNext]_ledgerVars
          => NoEvidenceBeforeStart'
    <2> SUFFICES ASSUME LedgerTypeOK, NoEvidenceBeforeStart, [LedgerNext]_ledgerVars
                 PROVE  NoEvidenceBeforeStart'
      OBVIOUS
    <2>1. ASSUME NEW j \in Keys, Create(j) PROVE NoEvidenceBeforeStart'
      BY <2>1 DEF Create, LedgerTypeOK, NoEvidenceBeforeStart
    <2>2. ASSUME NEW j \in Keys, NEW target \in Statuses, Move(j, target)
          PROVE  NoEvidenceBeforeStart'
      <3>1. target \in {Absent, "pending", "skipped"} => status[j] = "pending"
        BY <2>2 DEF Move, CanTransition, Transitions, Absent
      <3> QED
        BY <2>2, <3>1 DEF Move, LedgerTypeOK, NoEvidenceBeforeStart
    <2>3. ASSUME NEW j \in Keys, NEW part \in Parts, Record(j, part)
          PROVE  NoEvidenceBeforeStart'
      BY <2>3 DEF Record, LedgerTypeOK, NoEvidenceBeforeStart, Absent
    <2>4. CASE UNCHANGED ledgerVars
      BY <2>4 DEF ledgerVars, NoEvidenceBeforeStart
    <2> QED
      BY <2>1, <2>2, <2>3, <2>4 DEF LedgerNext
  <1> QED
    BY <1>1, <1>2, LedgerTypeCorrect, PTL DEF LedgerSpec

------------------------------------------------------------------------------
(***************************************************************************)
(* The rate limiter's table.                                               *)
(***************************************************************************)

\* The deque of a client, empty when the table does not track it.
Deque(k) == IF k \in DOMAIN hits THEN hits[k] ELSE <<>>

Inside(t) == client[t] # NoClient

\* At most one call is between its reading of the clock and the lock.
OneInside == \A s, t \in Threads : Inside(s) /\ Inside(t) => s = t

RateTypeOK ==
  /\ clock \in Nat /\ swept \in Int
  /\ client \in [Threads -> Clients \cup {NoClient}] /\ stamp \in [Threads -> Nat]
  /\ DOMAIN hits \subseteq Clients /\ \A k \in DOMAIN hits : hits[k] \in Seq(Nat)
  /\ admitted \in [Clients -> Seq(Nat)]
  /\ refusal \in [Clients -> [at : Nat, seconds : Nat]]

LEMMA DequeTyped ==
  ASSUME RateTypeOK, NEW k \in Clients
  PROVE  Deque(k) \in Seq(Nat)
  BY DEF RateTypeOK, Deque

\* Trimming drops stamps in front that are out of the window, up to the first that
\* is not.
LEMMA TrimmedEffect ==
  ASSUME RateTypeOK, NEW k \in Clients, NEW horizon \in Int
  PROVE  /\ Trimmed(k, horizon) \in Seq(Nat)
         /\ \E c \in 0..Len(Deque(k)) :
              /\ Len(Trimmed(k, horizon)) = Len(Deque(k)) - c
              /\ \A i \in 1..(Len(Deque(k)) - c) : Trimmed(k, horizon)[i] = Deque(k)[c + i]
              /\ \A i \in 1..c : Deque(k)[i] <= horizon
              /\ c < Len(Deque(k)) => Deque(k)[c + 1] > horizon
  <1> DEFINE old == Deque(k)
             kept == {i \in 1..Len(old) : old[i] > horizon}
             first == CHOOSE i \in kept : \A j \in kept : i <= j
  <1>1. old \in Seq(Nat) /\ Len(old) \in Nat
    BY DequeTyped
  <1>2. Trimmed(k, horizon) = IF kept = {} THEN <<>> ELSE SubSeq(old, first, Len(old))
    BY DEF Trimmed, Deque
  <1>3. CASE kept = {}
    <2>1. Len(old) \in 0..Len(old) /\ \A i \in 1..Len(old) : old[i] <= horizon
      BY <1>1, <1>3
    <2>2. Trimmed(k, horizon) = <<>>
      BY <1>2, <1>3
    <2>3. Trimmed(k, horizon) \in Seq(Nat) /\ Len(Trimmed(k, horizon)) = Len(old) - Len(old)
      BY <1>1, <2>2
    <2> QED
      BY <1>1, <2>1, <2>3
  <1>4. CASE kept # {}
    <2>1. first \in kept /\ \A j \in kept : first <= j
      <3>1. kept \in SUBSET Nat
        BY <1>1
      <3>2. \E n \in kept : \A m \in kept : n <= m
        BY <1>4, <3>1, LeastNumber
      <3> QED
        BY <3>2
    <2> HIDE DEF first
    <2>2. first \in 1..Len(old) /\ old[first] > horizon /\ first - 1 \in 0..Len(old)
      BY <1>1, <2>1
    <2>3. Trimmed(k, horizon) = SubSeq(old, first, Len(old))
      BY <1>2, <1>4 DEF first
    <2> HIDE DEF old
    <2>4. /\ SubSeq(old, first, Len(old)) \in Seq(Nat)
          /\ Len(SubSeq(old, first, Len(old))) = Len(old) - first + 1
          /\ \A i \in 1..(Len(old) - first + 1) : SubSeq(old, first, Len(old))[i] = old[first + i - 1]
      BY <1>1, <2>2, SubSeqProperties
    <2>5. \A i \in 1..(first - 1) : i \notin kept
      BY <1>1, <2>1, <2>2
    <2>6. \A i \in 1..(first - 1) : old[i] <= horizon
      <3> SUFFICES ASSUME NEW i \in 1..(first - 1) PROVE old[i] <= horizon
        OBVIOUS
      <3>1. i \in 1..Len(old) /\ old[i] \in Nat
        BY <1>1, <2>2
      <3> QED
        BY <2>5, <3>1
    <2>7. \A i \in 1..(Len(old) - (first - 1)) : Trimmed(k, horizon)[i] = old[(first - 1) + i]
      <3> SUFFICES ASSUME NEW i \in 1..(Len(old) - (first - 1))
                   PROVE  Trimmed(k, horizon)[i] = old[(first - 1) + i]
        OBVIOUS
      <3>1. i \in 1..(Len(old) - first + 1) /\ first + i - 1 = (first - 1) + i
        BY <1>1, <2>2
      <3> QED
        BY <2>3, <2>4, <3>1
    <2>8. Len(Trimmed(k, horizon)) = Len(old) - (first - 1) /\ first - 1 + 1 = first
      BY <1>1, <2>2, <2>3, <2>4
    <2>9. old = Deque(k)
      BY DEF old
    <2> QED
      BY <2>2, <2>3, <2>4, <2>6, <2>7, <2>8, <2>9
  <1> QED
    BY <1>3, <1>4

\* The seconds told cover the ticks left, and one second less does not.
LEMMA SecondsEffect ==
  ASSUME NEW ticks \in Nat \ {0}
  PROVE  /\ WholeSeconds(ticks) \in Nat \ {0}
         /\ ticks <= WholeSeconds(ticks) * Second
         /\ (WholeSeconds(ticks) - 1) * Second < ticks
  <1> DEFINE q == (ticks + Second - 1) \div Second
  <1>1. Second \in Nat \ {0} /\ ticks + Second - 1 \in Nat
    BY ClockFits
  <1>2. q \in Nat /\ q * Second <= ticks + Second - 1 /\ ticks + Second - 1 < (q + 1) * Second
    BY <1>1
  <1>3. WholeSeconds(ticks) = IF q < 1 THEN 1 ELSE q
    BY DEF WholeSeconds
  <1> HIDE DEF q
  <1>4. q # 0
    BY <1>1, <1>2
  <1>5. (q + 1) * Second = q * Second + Second /\ (q - 1) * Second = q * Second - Second
        /\ q * Second \in Nat
    BY <1>1, <1>2
  <1> QED
    BY <1>1, <1>2, <1>3, <1>4, <1>5

\* What a call does, with the lock held: it refuses, or it admits and may prune.
Refuses(t) ==
  LET k == client[t]
      deque == Trimmed(k, Horizon(t))
  IN  /\ Len(deque) >= Limit
      /\ hits' = Put(hits, k, deque)
      /\ refusal' = [refusal EXCEPT
           ![k] = [at |-> stamp[t], seconds |-> WholeSeconds(deque[1] - Horizon(t))]]
      /\ UNCHANGED <<admitted, swept>>

Admits(t) ==
  LET k == client[t]
      deque == Trimmed(k, Horizon(t))
      table == Put(hits, k, Append(deque, stamp[t]))
  IN  /\ Len(deque) < Limit
      /\ hits' = IF Cardinality(DOMAIN table) > PruneThreshold
                   THEN Prune(table, Horizon(t)) ELSE table
      /\ admitted' = [admitted EXCEPT ![k] = Append(@, stamp[t])]
      /\ refusal' = [refusal EXCEPT ![k] = NoRefusal]
      /\ swept' = Horizon(t)

LEMMA EnterCases ==
  ASSUME RateTypeOK, NEW t \in Threads, Enter(t)
  PROVE  /\ Refuses(t) \/ Admits(t)
         /\ client[t] \in Clients /\ stamp[t] \in Nat /\ Horizon(t) \in Int
         /\ Horizon(t) = stamp[t] - Window /\ Window \in Nat \ {0}
         /\ client' = [client EXCEPT ![t] = NoClient] /\ UNCHANGED <<clock, stamp>>
  <1>1. client[t] \in Clients /\ stamp[t] \in Nat /\ Window \in Nat \ {0}
    BY ClockFits DEF RateTypeOK, Enter
  <1>2. Horizon(t) = stamp[t] - Window /\ Horizon(t) \in Int
    BY <1>1 DEF Horizon
  <1>3. Trimmed(client[t], Horizon(t)) \in Seq(Nat)
    BY <1>1, <1>2, TrimmedEffect
  <1>4. Len(Trimmed(client[t], Horizon(t))) \in Nat /\ Limit \in Nat
    BY <1>3, LimitIsPositive
  <1>5. Refuses(t) \/ Admits(t)
    <2>1. CASE Len(Trimmed(client[t], Horizon(t))) >= Limit
      BY <2>1 DEF Enter, Refuses
    <2>2. CASE Len(Trimmed(client[t], Horizon(t))) < Limit
      <3>1. ~(Len(Trimmed(client[t], Horizon(t))) >= Limit)
        BY <1>4, <2>2
      <3> QED
        BY <2>2, <3>1 DEF Enter, Admits
    <2> QED
      BY <1>4, <2>1, <2>2
  <1> QED
    BY <1>1, <1>2, <1>5 DEF Enter

LEMMA RateTypeStep == RateTypeOK /\ [Next]_vars => RateTypeOK'
  <1> SUFFICES ASSUME RateTypeOK, [Next]_vars PROVE RateTypeOK'
    OBVIOUS
  <1>1. CASE UNCHANGED vars
    BY <1>1 DEF vars, RateTypeOK
  <1>2. CASE Tick
    BY <1>2 DEF Tick, RateTypeOK
  <1>3. ASSUME NEW t \in Threads, NEW k \in Clients, Arrive(t, k) PROVE RateTypeOK'
    BY <1>3 DEF Arrive, RateTypeOK
  <1>4. ASSUME NEW t \in Threads, Enter(t) PROVE RateTypeOK'
    <2> DEFINE k == client[t]
               deque == Trimmed(k, Horizon(t))
               table == Put(hits, k, Append(deque, stamp[t]))
    <2>1. /\ Refuses(t) \/ Admits(t)
          /\ k \in Clients /\ stamp[t] \in Nat /\ Horizon(t) \in Int
          /\ Horizon(t) = stamp[t] - Window /\ Window \in Nat \ {0}
          /\ client' = [client EXCEPT ![t] = NoClient] /\ UNCHANGED <<clock, stamp>>
      BY <1>4, EnterCases
    <2>2. deque \in Seq(Nat)
      BY <2>1, TrimmedEffect
    <2>3. CASE Refuses(t)
      <3>1. deque[1] - Horizon(t) \in Nat \ {0}
        <4>1. Len(deque) >= 1
          BY <2>2, <2>3, LimitIsPositive DEF Refuses
        <4>2. PICK c \in 0..Len(Deque(k)) :
                /\ Len(deque) = Len(Deque(k)) - c
                /\ \A i \in 1..(Len(Deque(k)) - c) : deque[i] = Deque(k)[c + i]
                /\ c < Len(Deque(k)) => Deque(k)[c + 1] > Horizon(t)
          BY <2>1, TrimmedEffect
        <4>3. Deque(k) \in Seq(Nat) /\ Len(Deque(k)) \in Nat
          BY <2>1, DequeTyped
        <4> HIDE DEF deque
        <4>4. deque[1] \in Nat /\ deque[1] > Horizon(t)
          BY <2>2, <4>1, <4>2, <4>3
        <4> QED
          BY <2>1, <4>4
      <3>2. WholeSeconds(deque[1] - Horizon(t)) \in Nat
        BY <3>1, SecondsEffect
      <3>3. hits' = Put(hits, k, deque) /\ UNCHANGED <<admitted, swept>>
            /\ refusal' = [refusal EXCEPT
                 ![k] = [at |-> stamp[t], seconds |-> WholeSeconds(deque[1] - Horizon(t))]]
        BY <2>3 DEF Refuses
      <3> HIDE DEF deque
      <3>4. DOMAIN hits' \subseteq Clients /\ \A j \in DOMAIN hits' : hits'[j] \in Seq(Nat)
        BY <2>1, <2>2, <3>3 DEF RateTypeOK, Put
      <3> QED
        BY <2>1, <3>2, <3>3, <3>4 DEF RateTypeOK
    <2>4. CASE Admits(t)
      <3>1. Append(deque, stamp[t]) \in Seq(Nat)
        BY <2>1, <2>2
      <3>2. DOMAIN table \subseteq Clients /\ \A j \in DOMAIN table : table[j] \in Seq(Nat)
        <4> HIDE DEF deque
        <4> QED
          BY <2>1, <3>1 DEF RateTypeOK, Put
      <3>3. hits' = table \/ hits' = Prune(table, Horizon(t))
        BY <2>4 DEF Admits
      <3>4. /\ admitted' = [admitted EXCEPT ![k] = Append(@, stamp[t])]
            /\ refusal' = [refusal EXCEPT ![k] = NoRefusal] /\ swept' = Horizon(t)
        BY <2>4 DEF Admits
      <3> HIDE DEF table
      <3>5. DOMAIN hits' \subseteq Clients /\ \A j \in DOMAIN hits' : hits'[j] \in Seq(Nat)
        BY <3>2, <3>3 DEF Prune
      <3>6. admitted' \in [Clients -> Seq(Nat)] /\ refusal' \in [Clients -> [at : Nat, seconds : Nat]]
        BY <2>1, <3>4 DEF RateTypeOK, NoRefusal
      <3> QED
        BY <2>1, <3>4, <3>5, <3>6 DEF RateTypeOK
    <2> QED
      BY <2>1, <2>3, <2>4
  <1> QED
    BY <1>1, <1>2, <1>3, <1>4 DEF Next

LEMMA RateInit == Init => RateTypeOK
  BY ClockFits DEF Init, RateTypeOK, NoRefusal

LEMMA RateTyped == Spec => []RateTypeOK
  BY RateInit, RateTypeStep, PTL DEF Spec

\* Past the threshold every client the table tracks was seen in the window of the
\* last hit, for any number of threads and whatever the order in which they get the
\* lock (acquire, _prune).
THEOREM TableIsPruned == Spec => []TableStaysSmall
  <1>1. Init => TableStaysSmall
    BY DEF Init, TableStaysSmall
  <1>2. RateTypeOK /\ TableStaysSmall /\ [Next]_vars => TableStaysSmall'
    <2> SUFFICES ASSUME RateTypeOK, TableStaysSmall, [Next]_vars PROVE TableStaysSmall'
      OBVIOUS
    <2>1. CASE UNCHANGED <<hits, swept>>
      BY <2>1 DEF TableStaysSmall
    <2>2. ASSUME NEW t \in Threads, Enter(t) PROVE TableStaysSmall'
      <3> DEFINE k == client[t]
                 deque == Trimmed(k, Horizon(t))
                 table == Put(hits, k, Append(deque, stamp[t]))
      <3>1. /\ Refuses(t) \/ Admits(t)
            /\ k \in Clients /\ Horizon(t) \in Int
        BY <2>2, EnterCases
      <3>2. deque \in Seq(Nat) /\ Deque(k) \in Seq(Nat)
        BY <3>1, TrimmedEffect, DequeTyped
      <3>3. CASE Refuses(t)
        <4>1. Len(deque) >= 1 /\ hits' = Put(hits, k, deque) /\ swept' = swept
          BY <3>2, <3>3, LimitIsPositive DEF Refuses
        <4>2. PICK c \in 0..Len(Deque(k)) :
                /\ Len(deque) = Len(Deque(k)) - c
                /\ \A i \in 1..(Len(Deque(k)) - c) : deque[i] = Deque(k)[c + i]
                /\ \A i \in 1..c : Deque(k)[i] <= Horizon(t)
                /\ c < Len(Deque(k)) => Deque(k)[c + 1] > Horizon(t)
          BY <3>1, TrimmedEffect
        <4> HIDE DEF deque
        <4>3. Len(Deque(k)) \in Nat /\ Len(Deque(k)) > 0 /\ Len(deque) \in Nat
          BY <3>2, <4>1, <4>2
        <4>4. k \in DOMAIN hits /\ Deque(k) = hits[k]
          BY <4>3 DEF Deque
        <4>5. DOMAIN hits' = DOMAIN hits /\ hits'[k] = deque
              /\ \A j \in DOMAIN hits : j # k => hits'[j] = hits[j]
          BY <4>1, <4>4 DEF Put
        <4>6. ASSUME NEW i \in DOMAIN hits[k], hits[k][i] > swept
              PROVE  \E d \in DOMAIN deque : deque[d] > swept
          <5>1. i \in 1..Len(Deque(k)) /\ swept \in Int /\ Deque(k)[i] \in Nat
            BY <3>2, <4>4, <4>6 DEF RateTypeOK
          <5>2. CASE i <= c
            <6>1. Deque(k)[c + 1] > Horizon(t) /\ Deque(k)[i] <= Horizon(t)
              BY <4>1, <4>2, <4>3, <5>1, <5>2
            <6>2. deque[1] = Deque(k)[c + 1] /\ 1 \in DOMAIN deque /\ deque[1] \in Nat
              BY <3>2, <4>1, <4>2, <4>3
            <6> QED
              BY <3>1, <4>4, <4>6, <5>1, <6>1, <6>2
          <5>3. CASE i > c
            <6>1. i - c \in DOMAIN deque /\ deque[i - c] = Deque(k)[c + (i - c)] /\ c + (i - c) = i
              BY SMTT(30), <3>2, <4>2, <4>3, <5>1, <5>3
            <6> QED
              BY <4>4, <4>6, <6>1
          <5> QED
            BY <5>1, <5>2, <5>3
        <4> QED
          BY <4>1, <4>4, <4>5, <4>6 DEF TableStaysSmall
      <3>4. CASE Admits(t)
        <4>1. /\ hits' = IF Cardinality(DOMAIN table) > PruneThreshold
                           THEN Prune(table, Horizon(t)) ELSE table
              /\ swept' = Horizon(t)
          BY <3>4 DEF Admits
        <4>2. \A j \in DOMAIN table : table[j] \in Seq(Nat)
          <5>1. Append(deque, stamp[t]) \in Seq(Nat)
            BY <3>2 DEF RateTypeOK
          <5> HIDE DEF deque
          <5> QED
            BY <5>1 DEF RateTypeOK, Put
        <4> HIDE DEF table
        <4>3. CASE hits' = Prune(table, Horizon(t))
          <5> SUFFICES ASSUME NEW j \in DOMAIN hits'
                       PROVE  \E i \in DOMAIN hits'[j] : hits'[j][i] > swept'
            BY DEF TableStaysSmall
          <5>1. /\ j \in DOMAIN table /\ table[j] # <<>>
                /\ table[j][Len(table[j])] > Horizon(t) /\ hits'[j] = table[j]
            BY <4>3 DEF Prune
          <5>2. Len(table[j]) \in DOMAIN table[j]
            BY <4>2, <5>1
          <5> QED
            BY <4>1, <5>1, <5>2
        <4>4. CASE hits' = table /\ ~(Cardinality(DOMAIN table) > PruneThreshold)
          BY <4>4 DEF TableStaysSmall
        <4> QED
          BY <4>1, <4>3, <4>4
      <3> QED
        BY <3>1, <3>3, <3>4
    <2> QED
      BY <2>1, <2>2 DEF Next, Tick, Arrive, vars
  <1> QED
    BY <1>1, <1>2, RateTyped, PTL DEF Spec

------------------------------------------------------------------------------
(***************************************************************************)
(* The rate limiter's windows, when calls do not overlap: a deque is then  *)
(* the end of what was let through, in order, and what it no longer holds  *)
(* is out of every later call's window.                                    *)
(***************************************************************************)

\* No stamp that was let through is after another that follows it, after the clock
\* or after the reading of a call that is inside.
OrderInv ==
  /\ \A t \in Threads : stamp[t] <= clock
  /\ \A k \in Clients :
       /\ \A i, j \in 1..Len(admitted[k]) : i <= j => admitted[k][i] <= admitted[k][j]
       /\ \A i \in 1..Len(admitted[k]) :
            /\ admitted[k][i] <= clock
            /\ \A t \in Threads : Inside(t) => admitted[k][i] <= stamp[t]

\* How many of the stamps let through the deque no longer holds.
Gone(k) == Len(admitted[k]) - Len(Deque(k))

\* The deque is the end of what was let through; the rest is out of the window.
DequeInv ==
  \A k \in Clients :
    /\ Gone(k) >= 0
    /\ \A i \in 1..Len(Deque(k)) : Deque(k)[i] = admitted[k][Gone(k) + i]
    /\ \A i \in 1..Gone(k) :
         /\ admitted[k][i] + Window <= clock
         /\ \A t \in Threads : Inside(t) => admitted[k][i] + Window <= stamp[t]

\* A window passes between a stamp and the Limit-th after it.
SpacedInv ==
  \A k \in Clients : \A i, j \in 1..Len(admitted[k]) :
    j = i + Limit => admitted[k][i] + Window <= admitted[k][j]

\* The first of the last Limit stamps, which a refused client waits for.
First(k) == Len(admitted[k]) - Limit + 1

RefusalInv ==
  \A k \in Clients : refusal[k].seconds > 0 =>
    /\ First(k) >= 1
    /\ \A i \in 1..Len(admitted[k]) : admitted[k][i] <= refusal[k].at
    /\ \A i \in 1..(First(k) - 1) : admitted[k][i] + Window <= refusal[k].at
    /\ admitted[k][First(k)] + Window > refusal[k].at
    /\ refusal[k].at + refusal[k].seconds * Second >= admitted[k][First(k)] + Window
    /\ refusal[k].at + (refusal[k].seconds - 1) * Second < admitted[k][First(k)] + Window

WindowInv == OrderInv /\ DequeInv /\ SpacedInv /\ RefusalInv

LEMMA AdmittedTyped ==
  ASSUME RateTypeOK, NEW k \in Clients
  PROVE  /\ admitted[k] \in Seq(Nat) /\ Len(admitted[k]) \in Nat
         /\ \A i \in 1..Len(admitted[k]) : admitted[k][i] \in Nat
         /\ Deque(k) \in Seq(Nat) /\ Len(Deque(k)) \in Nat /\ Gone(k) \in Int
         /\ \A i \in 1..Len(Deque(k)) : Deque(k)[i] \in Nat
  <1>1. admitted[k] \in Seq(Nat) /\ Deque(k) \in Seq(Nat)
    BY DequeTyped DEF RateTypeOK
  <1> QED
    BY <1>1 DEF Gone

LEMMA WindowInitially == Init => WindowInv
  <1> SUFFICES ASSUME Init PROVE WindowInv
    OBVIOUS
  <1>1. \A k \in Clients : Len(admitted[k]) = 0 /\ Len(Deque(k)) = 0
    BY DEF Init, Deque
  <1>2. \A k \in Clients : ~(refusal[k].seconds > 0)
    BY DEF Init, NoRefusal
  <1>3. \A t \in Threads : stamp[t] <= clock
    BY DEF Init
  <1> QED
    BY <1>1, <1>2, <1>3 DEF WindowInv, OrderInv, DequeInv, SpacedInv, RefusalInv, Gone

\* A call that arrives reads a clock no stamp is after, and nothing else changes.
LEMMA ArriveWindow ==
  ASSUME RateTypeOK, WindowInv, Tick \/ \E t \in Threads, k \in Clients : Arrive(t, k)
  PROVE  WindowInv'
  <1>1. /\ UNCHANGED <<hits, admitted, refusal>> /\ clock' \in Nat /\ clock' >= clock
        /\ \A t \in Threads : Inside(t)' => \/ Inside(t) /\ stamp'[t] = stamp[t]
                                            \/ stamp'[t] = clock
        /\ \A t \in Threads : stamp'[t] = stamp[t] \/ stamp'[t] = clock
        /\ clock \in Nat /\ \A t \in Threads : stamp[t] \in Nat
    BY DEF RateTypeOK, Tick, Arrive, Inside
  <1>2. \A k \in Clients : Deque(k)' = Deque(k) /\ Gone(k)' = Gone(k)
    BY <1>1 DEF Deque, Gone
  <1>3. Window \in Nat
    BY ClockFits
  <1>4. OrderInv'
    <2>1. \A t \in Threads : stamp'[t] <= clock'
      BY <1>1 DEF WindowInv, OrderInv
    <2>2. ASSUME NEW k \in Clients, NEW i \in 1..Len(admitted[k])
          PROVE  /\ admitted[k][i] <= clock'
                 /\ \A t \in Threads : Inside(t)' => admitted[k][i] <= stamp'[t]
      <3>1. /\ admitted[k][i] \in Nat /\ admitted[k][i] <= clock
            /\ \A t \in Threads : Inside(t) => admitted[k][i] <= stamp[t]
        BY <2>2, AdmittedTyped DEF WindowInv, OrderInv
      <3>2. \A t \in Threads : Inside(t)' => admitted[k][i] <= stamp'[t]
        BY <1>1, <3>1
      <3> QED
        BY <1>1, <3>1, <3>2
    <2> QED
      BY <1>1, <2>1, <2>2 DEF WindowInv, OrderInv
  <1>5. DequeInv'
    <2>1. ASSUME NEW k \in Clients, NEW i \in 1..Gone(k)
          PROVE  /\ admitted[k][i] + Window <= clock'
                 /\ \A t \in Threads : Inside(t)' => admitted[k][i] + Window <= stamp'[t]
      <3>1. admitted[k][i] \in Nat
        BY <2>1, AdmittedTyped DEF Gone
      <3>2. /\ admitted[k][i] + Window <= clock
            /\ \A t \in Threads : Inside(t) => admitted[k][i] + Window <= stamp[t]
        BY <2>1 DEF WindowInv, DequeInv
      <3> QED
        BY <1>1, <1>3, <3>1, <3>2
    <2> QED
      BY <1>1, <1>2, <2>1 DEF WindowInv, DequeInv
  <1>6. SpacedInv' /\ RefusalInv'
    BY <1>1 DEF WindowInv, SpacedInv, RefusalInv, First
  <1> QED
    BY <1>4, <1>5, <1>6 DEF WindowInv

\* After the call is through no call is inside, and the trimmed deque is still the
\* end of what was let through.
LEMMA TrimmedWindow ==
  ASSUME RateTypeOK, WindowInv, OneInside, NEW t \in Threads, Enter(t)
  PROVE  LET k == client[t]
             D == Trimmed(k, Horizon(t))
             gone == Len(admitted[k]) - Len(D)
         IN  /\ D \in Seq(Nat) /\ Len(D) \in Nat /\ gone \in Nat
             /\ \A i \in 1..Len(D) : D[i] = admitted[k][gone + i]
             /\ \A i \in 1..gone : admitted[k][i] + Window <= stamp[t]
             /\ Len(D) >= 1 => admitted[k][gone + 1] + Window > stamp[t]
             /\ \A i \in 1..Len(admitted[k]) : admitted[k][i] <= stamp[t]
             /\ stamp[t] <= clock /\ \A s \in Threads : ~Inside(s)'
  <1>0. PICK k, D, gone : k = client[t] /\ D = Trimmed(k, Horizon(t)) /\ gone = Len(admitted[k]) - Len(D)
    OBVIOUS
  <1>1. /\ k \in Clients /\ stamp[t] \in Nat /\ Horizon(t) \in Int
        /\ Horizon(t) = stamp[t] - Window /\ Window \in Nat \ {0}
        /\ client' = [client EXCEPT ![t] = NoClient] /\ Inside(t)
    BY <1>0, EnterCases DEF Enter, Inside
  <1>2. PICK c \in 0..Len(Deque(k)) :
          /\ Len(D) = Len(Deque(k)) - c
          /\ \A i \in 1..(Len(Deque(k)) - c) : D[i] = Deque(k)[c + i]
          /\ \A i \in 1..c : Deque(k)[i] <= Horizon(t)
          /\ c < Len(Deque(k)) => Deque(k)[c + 1] > Horizon(t)
    BY <1>0, <1>1, TrimmedEffect
  <1>3. D \in Seq(Nat)
    BY <1>0, <1>1, TrimmedEffect
  <1>4. /\ Len(admitted[k]) \in Nat /\ Len(Deque(k)) \in Nat
        /\ \A i \in 1..Len(admitted[k]) : admitted[k][i] \in Nat
        /\ \A i \in 1..Len(Deque(k)) : Deque(k)[i] \in Nat
    BY <1>1, AdmittedTyped
  <1>5. /\ Gone(k) >= 0 /\ Gone(k) = Len(admitted[k]) - Len(Deque(k))
        /\ \A i \in 1..Len(Deque(k)) : Deque(k)[i] = admitted[k][Gone(k) + i]
        /\ \A i \in 1..Gone(k) : admitted[k][i] + Window <= stamp[t]
    BY <1>1 DEF WindowInv, DequeInv, Gone
  <1>13. Gone(k) \in Nat
    BY <1>4, <1>5
  <1>6. Len(D) \in Nat /\ gone \in Nat /\ gone = Gone(k) + c
    <2>1. Len(D) = Len(Deque(k)) - c /\ c \in 0..Len(Deque(k))
      BY <1>2
    <2>2. Len(D) \in Nat
      BY <1>3
    <2>3. Len(admitted[k]) \in Nat /\ Len(Deque(k)) \in Nat /\ Gone(k) = Len(admitted[k]) - Len(Deque(k))
      BY <1>4, <1>5
    <2>4. gone = Len(admitted[k]) - Len(D)
      BY <1>0
    <2> QED
      BY <1>13, <2>1, <2>2, <2>3, <2>4
  <1>14. gone >= Gone(k) /\ gone - Gone(k) = c /\ c \in Nat /\ c <= Len(Deque(k))
    BY <1>2, <1>4, <1>6, <1>13
  <1>7. \A i \in 1..Len(D) : D[i] = admitted[k][gone + i]
    <2> SUFFICES ASSUME NEW i \in 1..Len(D) PROVE D[i] = admitted[k][gone + i]
      OBVIOUS
    <2>1. D[i] = Deque(k)[c + i] /\ c + i \in 1..Len(Deque(k))
      BY <1>2, <1>4
    <2>2. Deque(k)[c + i] = admitted[k][Gone(k) + (c + i)]
      BY <1>5, <2>1
    <2>3. Gone(k) + (c + i) = gone + i
      BY <1>2, <1>4, <1>6, <1>13
    <2> QED
      BY <2>1, <2>2, <2>3
  <1>8. \A i \in 1..gone : admitted[k][i] + Window <= stamp[t]
    <2> SUFFICES ASSUME NEW i \in 1..gone PROVE admitted[k][i] + Window <= stamp[t]
      OBVIOUS
    <2>1. CASE i <= Gone(k)
      <3>1. i \in 1..Gone(k)
        BY <1>6, <1>13, <2>1
      <3> QED
        BY <1>5, <3>1
    <2>2. CASE i > Gone(k)
      <3>1. i - Gone(k) \in 1..c /\ i - Gone(k) \in 1..Len(Deque(k)) /\ Gone(k) + (i - Gone(k)) = i
        BY <1>2, <1>4, <1>6, <1>13, <2>2
      <3>2. Deque(k)[i - Gone(k)] = admitted[k][i]
        BY <1>5, <3>1
      <3>3. Deque(k)[i - Gone(k)] <= Horizon(t) /\ Deque(k)[i - Gone(k)] \in Nat
        BY <1>2, <1>4, <3>1
      <3> QED
        BY <1>1, <3>2, <3>3
    <2> QED
      BY <1>4, <1>5, <1>6, <2>1, <2>2
  <1>9. Len(D) >= 1 => admitted[k][gone + 1] + Window > stamp[t]
    <2> SUFFICES ASSUME Len(D) >= 1 PROVE admitted[k][gone + 1] + Window > stamp[t]
      OBVIOUS
    <2>1. c + 1 \in 1..Len(Deque(k)) /\ Deque(k)[c + 1] > Horizon(t)
      BY <1>2, <1>4
    <2>2. Deque(k)[c + 1] = admitted[k][Gone(k) + (c + 1)]
      BY <1>5, <2>1
    <2>3. Gone(k) + (c + 1) = gone + 1
      BY <1>6, <1>13, <1>14
    <2> QED
      BY <1>1, <1>4, <2>1, <2>2, <2>3
  <1>10. \A i \in 1..Len(admitted[k]) : admitted[k][i] <= stamp[t]
    BY <1>1 DEF WindowInv, OrderInv
  <1>11. \A s \in Threads : ~Inside(s)'
    <2>1. \A s \in Threads : s # t => ~Inside(s)
      BY <1>1 DEF OneInside
    <2> QED
      BY <1>1, <2>1 DEF Inside, RateTypeOK
  <1>12. stamp[t] <= clock
    BY DEF WindowInv, OrderInv
  <1> QED
    BY <1>0, <1>3, <1>6, <1>7, <1>8, <1>9, <1>10, <1>11, <1>12

\* A refusal only trims; the deque is full, and its first stamp is what to wait for.
LEMMA RefuseWindow ==
  ASSUME RateTypeOK, WindowInv, OneInside, NEW t \in Threads, Enter(t), Refuses(t)
  PROVE  WindowInv'
  <1>0. PICK k, D, A, gone :
          /\ k = client[t] /\ D = Trimmed(k, Horizon(t)) /\ A = admitted[k]
          /\ gone = Len(A) - Len(D)
    OBVIOUS
  <1>1. /\ k \in Clients /\ stamp[t] \in Nat /\ Horizon(t) = stamp[t] - Window
        /\ Window \in Nat \ {0} /\ UNCHANGED <<clock, stamp>> /\ clock \in Nat
    BY <1>0, EnterCases DEF RateTypeOK
  <1>2. /\ D \in Seq(Nat) /\ Len(D) \in Nat /\ gone \in Nat
        /\ \A i \in 1..Len(D) : D[i] = A[gone + i]
        /\ \A i \in 1..gone : A[i] + Window <= stamp[t]
        /\ Len(D) >= 1 => A[gone + 1] + Window > stamp[t]
        /\ \A i \in 1..Len(A) : A[i] <= stamp[t]
        /\ stamp[t] <= clock /\ \A s \in Threads : ~Inside(s)'
    BY <1>0, TrimmedWindow
  <1>3. /\ Len(D) >= Limit /\ hits' = Put(hits, k, D) /\ UNCHANGED <<admitted, swept>>
        /\ refusal' = [refusal EXCEPT
             ![k] = [at |-> stamp[t], seconds |-> WholeSeconds(D[1] - Horizon(t))]]
    BY <1>0 DEF Refuses
  <1>4. Limit \in Nat \ {0} /\ Second \in Nat \ {0}
    BY LimitIsPositive, ClockFits
  <1>5. Len(A) \in Nat /\ \A i \in 1..Len(A) : A[i] \in Nat
    BY <1>0, <1>1, AdmittedTyped
  <1>12. gone <= Len(A) /\ gone + Len(D) = Len(A) /\ gone + 1 = Len(A) - Len(D) + 1
    <2>1. Len(D) \in Nat /\ gone \in Nat /\ Len(A) \in Nat
      BY <1>2, <1>5
    <2>2. gone = Len(A) - Len(D)
      BY <1>0
    <2> QED
      BY <2>1, <2>2
  <1>13. /\ gone \in Nat /\ Len(D) \in Nat /\ Len(D) >= Limit
         /\ Len(D) >= 1 => A[gone + 1] + Window > stamp[t]
    BY <1>2, <1>3
  <1>6. Deque(k)' = D /\ \A j \in Clients : j # k => Deque(j)' = Deque(j)
    BY <1>1, <1>3 DEF Deque, Put
  <1>7. OrderInv'
    BY <1>1, <1>2, <1>3 DEF WindowInv, OrderInv
  <1>8. DequeInv'
    <2>1. Gone(k)' = gone /\ \A j \in Clients : j # k => Gone(j)' = Gone(j)
      BY <1>0, <1>3, <1>6 DEF Gone
    <2>2. ASSUME NEW i \in 1..gone PROVE A[i] + Window <= clock
      <3>1. i \in 1..Len(A)
        BY <1>2, <1>5, <1>12
      <3>2. A[i] \in Nat /\ A[i] + Window <= stamp[t]
        BY <1>2, <1>5, <3>1
      <3> QED
        BY <1>1, <1>2, <3>2
    <2>3. ASSUME NEW j \in Clients
          PROVE  /\ Gone(j)' >= 0
                 /\ \A i \in 1..Len(Deque(j))' : Deque(j)'[i] = admitted[j][Gone(j)' + i]
                 /\ \A i \in 1..Gone(j)' : admitted[j][i] + Window <= clock
      <3>1. CASE j = k
        <4>1. Gone(j)' = gone /\ Deque(j)' = D /\ Len(Deque(j))' = Len(D)
          BY <1>6, <2>1, <3>1
        <4>2. \A i \in 1..Len(D) : Deque(j)'[i] = admitted[j][gone + i]
          BY <1>0, <1>2, <3>1, <4>1
        <4>3. \A i \in 1..gone : admitted[j][i] + Window <= clock
          BY <1>0, <2>2, <3>1
        <4> QED
          BY <1>13, <4>1, <4>2, <4>3
      <3>2. CASE j # k
        <4>1. Gone(j)' = Gone(j) /\ Deque(j)' = Deque(j) /\ Len(Deque(j))' = Len(Deque(j))
          BY <1>6, <2>1, <3>2
        <4> QED
          BY <4>1 DEF WindowInv, DequeInv
      <3> QED
        BY <3>1, <3>2
    <2> QED
      BY <1>1, <1>2, <1>3, <2>3 DEF DequeInv
  <1>9. SpacedInv'
    BY <1>3 DEF WindowInv, SpacedInv
  <1>10. Len(D) = Limit /\ gone + 1 = First(k) /\ First(k) \in Nat /\ gone + 1 \in 1..Len(A)
    <2>1. gone + 1 \in 1..Len(A) /\ gone + 1 = Len(A) - Len(D) + 1
      BY <1>4, <1>5, <1>12, <1>13
    <2>2. ASSUME Len(D) # Limit PROVE FALSE
      <3>1. gone + 1 + Limit \in 1..Len(A)
        BY <1>4, <1>5, <1>12, <1>13, <2>2
      <3>2. A[gone + 1] + Window <= A[gone + 1 + Limit]
        BY <1>0, <1>1, <2>1, <3>1 DEF WindowInv, SpacedInv
      <3>3. A[gone + 1 + Limit] <= stamp[t]
        BY <1>2, <3>1
      <3>4. A[gone + 1] \in Nat /\ A[gone + 1 + Limit] \in Nat
        BY <1>5, <2>1, <3>1
      <3>5. A[gone + 1] + Window > stamp[t]
        BY <1>4, <1>13
      <3> QED
        BY <1>1, <3>2, <3>3, <3>4, <3>5
    <2>3. First(k) = Len(A) - Limit + 1
      BY <1>0 DEF First
    <2> QED
      BY <1>12, <1>13, <2>1, <2>2, <2>3
  <1>11. RefusalInv'
    <2> DEFINE first == A[First(k)]
               ticks == first - Horizon(t)
               seconds == WholeSeconds(ticks)
    <2>1. first \in Nat /\ first + Window > stamp[t] /\ D[1] = first
      <3>1. 1 \in 1..Len(D)
        BY <1>2, <1>4, <1>10
      <3>2. D[1] = A[gone + 1]
        BY <1>2, <3>1
      <3> QED
        BY <1>2, <1>4, <1>5, <1>10, <3>2
    <2>2. ticks \in Nat \ {0}
      BY <1>1, <2>1
    <2> HIDE DEF ticks
    <2>3. /\ seconds \in Nat \ {0} /\ ticks <= seconds * Second /\ (seconds - 1) * Second < ticks
      BY <2>2, SecondsEffect
    <2>4. ticks = first + Window - stamp[t]
      BY <1>1, <2>1 DEF ticks
    <2>5. seconds * Second \in Int /\ (seconds - 1) * Second \in Int
      BY <1>4, <2>3
    <2> HIDE DEF seconds, first
    <2>6. /\ stamp[t] + seconds * Second >= first + Window
          /\ stamp[t] + (seconds - 1) * Second < first + Window
      BY <1>1, <2>1, <2>3, <2>4, <2>5
    <2>7. \A j \in Clients : First(j)' = First(j)
      BY <1>3 DEF First
    <2>8. refusal'[k] = [at |-> stamp[t], seconds |-> seconds]
      BY <1>1, <1>3, <2>1 DEF RateTypeOK, seconds, ticks
    <2>9. \A i \in 1..(First(k) - 1) : A[i] + Window <= stamp[t]
      BY <1>2, <1>10
    <2>10. \A j \in Clients : j # k => refusal'[j] = refusal[j]
      BY <1>3 DEF RateTypeOK
    <2>11. ASSUME NEW j \in Clients, refusal'[j].seconds > 0
           PROVE  /\ First(j) >= 1
                  /\ \A i \in 1..Len(admitted[j]) : admitted[j][i] <= refusal'[j].at
                  /\ \A i \in 1..(First(j) - 1) : admitted[j][i] + Window <= refusal'[j].at
                  /\ admitted[j][First(j)] + Window > refusal'[j].at
                  /\ refusal'[j].at + refusal'[j].seconds * Second >= admitted[j][First(j)] + Window
                  /\ refusal'[j].at + (refusal'[j].seconds - 1) * Second < admitted[j][First(j)] + Window
      <3>1. CASE j = k
        <4>1. refusal'[j].at = stamp[t] /\ refusal'[j].seconds = seconds /\ admitted[j][First(j)] = first
          BY <1>0, <2>8, <3>1 DEF first
        <4>2. First(j) >= 1
          BY <1>10, <3>1
        <4> QED
          BY <1>0, <1>2, <2>1, <2>6, <2>9, <3>1, <4>1, <4>2
      <3>2. CASE j # k
        BY <2>10, <2>11, <3>2 DEF WindowInv, RefusalInv
      <3> QED
        BY <3>1, <3>2
    <2> QED
      BY <1>3, <2>7, <2>11 DEF RefusalInv
  <1> QED
    BY <1>7, <1>8, <1>9, <1>11 DEF WindowInv

\* An admission comes when fewer than Limit stamps are left in the window; the
\* clients that are pruned are those all of whose stamps are out of it.
LEMMA AdmitWindow ==
  ASSUME RateTypeOK, WindowInv, OneInside, NEW t \in Threads, Enter(t), Admits(t)
  PROVE  WindowInv'
  <1>0. PICK k, D, A, gone, now, table :
          /\ k = client[t] /\ D = Trimmed(k, Horizon(t)) /\ A = admitted[k]
          /\ gone = Len(A) - Len(D) /\ now = stamp[t]
          /\ table = Put(hits, k, Append(D, now))
    OBVIOUS
  <1>1. /\ k \in Clients /\ now \in Nat /\ Horizon(t) = now - Window
        /\ Window \in Nat \ {0} /\ UNCHANGED <<clock, stamp>> /\ clock \in Nat
        /\ Limit \in Nat \ {0}
    BY <1>0, EnterCases, LimitIsPositive DEF RateTypeOK
  <1>2. /\ D \in Seq(Nat) /\ Len(D) \in Nat /\ gone \in Nat
        /\ \A i \in 1..Len(D) : D[i] = A[gone + i]
        /\ \A i \in 1..gone : A[i] + Window <= now
        /\ \A i \in 1..Len(A) : A[i] <= now
        /\ now <= clock /\ \A s \in Threads : ~Inside(s)'
    BY <1>0, TrimmedWindow
  <1>3. /\ Len(D) < Limit
        /\ hits' = table \/ hits' = Prune(table, now - Window)
        /\ admitted' = [admitted EXCEPT ![k] = Append(@, now)]
        /\ refusal' = [refusal EXCEPT ![k] = NoRefusal]
    BY <1>0, <1>1 DEF Admits
  <1>4. A \in Seq(Nat) /\ Len(A) \in Nat /\ \A i \in 1..Len(A) : A[i] \in Nat
    BY <1>0, <1>1, AdmittedTyped
  <1>5. gone + Len(D) = Len(A) /\ gone <= Len(A)
    <2>1. Len(D) \in Nat /\ gone \in Nat /\ Len(A) \in Nat /\ gone = Len(A) - Len(D)
      BY <1>0, <1>2, <1>4
    <2> QED
      BY <2>1
  <1>6. PICK B : B = Append(A, now)
    OBVIOUS
  <1>7. /\ B \in Seq(Nat) /\ Len(B) = Len(A) + 1 /\ B[Len(A) + 1] = now
        /\ \A i \in 1..Len(A) : B[i] = A[i]
    BY <1>1, <1>4, <1>6
  <1>8. /\ admitted'[k] = B
        /\ \A j \in Clients : j # k => admitted'[j] = admitted[j] /\ refusal'[j] = refusal[j]
        /\ refusal'[k] = NoRefusal
    BY <1>0, <1>1, <1>3, <1>6 DEF RateTypeOK
  <1>9. OrderInv'
    <2>1. ASSUME NEW i \in 1..Len(B), NEW j \in 1..Len(B), i <= j PROVE B[i] <= B[j]
      <3>1. CASE j = Len(A) + 1
        <4>1. B[j] = now
          BY <1>7, <3>1
        <4>2. CASE i = j
          BY <1>1, <4>1, <4>2
        <4>3. CASE i # j
          <5>1. i \in 1..Len(A)
            BY <1>4, <1>7, <2>1, <3>1, <4>3
          <5>2. B[i] = A[i] /\ A[i] <= now
            BY <1>2, <1>7, <5>1
          <5> QED
            BY <4>1, <5>2
        <4> QED
          BY <4>2, <4>3
      <3>2. CASE j # Len(A) + 1
        <4>1. i \in 1..Len(A) /\ j \in 1..Len(A)
          BY <1>4, <1>7, <2>1, <3>2
        <4>2. A[i] <= A[j]
          BY <1>0, <1>1, <2>1, <4>1 DEF WindowInv, OrderInv
        <4> QED
          BY <1>7, <4>1, <4>2
      <3> QED
        BY <3>1, <3>2
    <2>2. ASSUME NEW i \in 1..Len(B) PROVE B[i] <= clock
      <3>1. B[i] \in Nat /\ B[i] <= now
        <4>1. CASE i = Len(A) + 1
          BY <1>1, <1>7, <4>1
        <4>2. CASE i # Len(A) + 1
          <5>1. i \in 1..Len(A)
            BY <1>4, <1>7, <2>2, <4>2
          <5> QED
            BY <1>2, <1>4, <1>7, <5>1
        <4> QED
          BY <4>1, <4>2
      <3> QED
        BY <1>1, <1>2, <3>1
    <2>3. ASSUME NEW j \in Clients
          PROVE  /\ \A i, m \in 1..Len(admitted'[j]) : i <= m => admitted'[j][i] <= admitted'[j][m]
                 /\ \A i \in 1..Len(admitted'[j]) : admitted'[j][i] <= clock
      <3>1. CASE j = k
        BY <1>8, <2>1, <2>2, <3>1
      <3>2. CASE j # k
        BY <1>8, <3>2 DEF WindowInv, OrderInv
      <3> QED
        BY <3>1, <3>2
    <2> QED
      BY <1>1, <1>2, <2>3 DEF WindowInv, OrderInv
  <1>10. /\ Deque(k)' = Append(D, now)
         /\ \A j \in Clients : j # k =>
              \/ Deque(j)' = Deque(j)
              \/ Deque(j)' = <<>> /\ Deque(j)[Len(Deque(j))] <= now - Window
              \/ Deque(j)' = <<>> /\ Deque(j) = <<>>
    <2>1. /\ DOMAIN table = DOMAIN hits \cup {k} /\ table[k] = Append(D, now)
          /\ \A j \in DOMAIN hits : j # k => table[j] = hits[j]
      BY <1>0 DEF Put
    <2>2. CASE hits' = table
      BY <2>1, <2>2 DEF Deque
    <2>3. CASE hits' = Prune(table, now - Window)
      <3>1. /\ DOMAIN hits' = {j \in DOMAIN table :
                                 table[j] # <<>> /\ table[j][Len(table[j])] > now - Window}
            /\ \A j \in DOMAIN hits' : hits'[j] = table[j]
        BY <2>3 DEF Prune
      <3>2. Append(D, now) # <<>> /\ Append(D, now)[Len(Append(D, now))] = now
        <4>1. Len(Append(D, now)) = Len(D) + 1 /\ Append(D, now)[Len(D) + 1] = now
          BY <1>1, <1>2
        <4>2. Append(D, now) \in Seq(Nat) /\ Len(D) \in Nat
          BY <1>1, <1>2
        <4> QED
          BY <4>1, <4>2
      <3>3. k \in DOMAIN hits'
        BY <1>1, <2>1, <3>1, <3>2
      <3>4. ASSUME NEW j \in Clients, j # k, Deque(j)' # Deque(j)
            PROVE  Deque(j)' = <<>> /\ (Deque(j) = <<>> \/ Deque(j)[Len(Deque(j))] <= now - Window)
        <4>1. j \in DOMAIN hits /\ j \notin DOMAIN hits'
          BY <2>1, <3>1, <3>4 DEF Deque
        <4>2. Deque(j) = hits[j] /\ table[j] = hits[j]
          BY <2>1, <3>4, <4>1 DEF Deque
        <4>3. Deque(j) = <<>> \/ ~(Deque(j)[Len(Deque(j))] > now - Window)
          BY <2>1, <3>1, <4>1, <4>2
        <4>4. Deque(j) # <<>> => Deque(j)[Len(Deque(j))] \in Nat
          <5>1. Deque(j) \in Seq(Nat)
            BY DequeTyped
          <5> QED
            BY <5>1
        <4>5. Deque(j)' = <<>>
          BY <4>1 DEF Deque
        <4> QED
          BY <1>1, <4>3, <4>4, <4>5
      <3> QED
        BY <2>1, <3>1, <3>3, <3>4 DEF Deque
    <2> QED
      BY <1>3, <2>2, <2>3
  <1>11. ASSUME NEW j \in Clients
         PROVE  /\ Gone(j)' >= 0
                /\ \A i \in 1..Len(Deque(j))' : Deque(j)'[i] = admitted'[j][Gone(j)' + i]
                /\ \A i \in 1..Gone(j)' : admitted'[j][i] + Window <= clock
    <2>1. CASE j = k
      <3>1. PICK E : E = Append(D, now)
        OBVIOUS
      <3>2. /\ Len(E) = Len(D) + 1 /\ E[Len(D) + 1] = now
            /\ \A i \in 1..Len(D) : E[i] = D[i]
        BY <1>1, <1>2, <3>1
      <3>3. Deque(j)' = E /\ admitted'[j] = B /\ Len(Deque(j))' = Len(E)
        BY <1>8, <1>10, <2>1, <3>1
      <3>4. Gone(j)' = gone
        <4>1. Gone(j)' = Len(B) - Len(E)
          BY <3>3 DEF Gone
        <4> QED
          BY <1>2, <1>4, <1>5, <1>7, <3>2, <4>1
      <3>5. \A i \in 1..Len(E) : E[i] = B[gone + i]
        <4> SUFFICES ASSUME NEW i \in 1..Len(E) PROVE E[i] = B[gone + i]
          OBVIOUS
        <4>1. CASE i = Len(D) + 1
          <5>1. gone + i = Len(A) + 1
            <6>1. Len(D) \in Nat /\ gone \in Nat /\ Len(A) \in Nat /\ gone + Len(D) = Len(A)
              BY <1>2, <1>4, <1>5
            <6> QED
              BY <4>1, <6>1
          <5> QED
            BY <1>7, <3>2, <4>1, <5>1
        <4>2. CASE i \in 1..Len(D)
          <5>1. gone + i \in 1..Len(A)
            BY <1>2, <1>4, <1>5, <4>2
          <5> QED
            BY <1>2, <1>7, <3>2, <4>2, <5>1
        <4> QED
          BY <1>2, <3>2, <4>1, <4>2
      <3>6. \A i \in 1..gone : B[i] + Window <= clock
        <4> SUFFICES ASSUME NEW i \in 1..gone PROVE B[i] + Window <= clock
          OBVIOUS
        <4>1. i \in 1..Len(A)
          BY <1>2, <1>4, <1>5
        <4>2. B[i] = A[i] /\ A[i] \in Nat /\ A[i] + Window <= now
          BY <1>2, <1>4, <1>7, <4>1
        <4> QED
          BY <1>1, <1>2, <4>2
      <3> QED
        BY <1>2, <3>3, <3>4, <3>5, <3>6
    <2>2. CASE j # k
      <3>1. /\ admitted'[j] = admitted[j] /\ Len(admitted[j]) \in Nat /\ Len(Deque(j)) \in Nat
            /\ Gone(j) >= 0 /\ Gone(j) = Len(admitted[j]) - Len(Deque(j))
            /\ \A i \in 1..Len(admitted[j]) : admitted[j][i] \in Nat
        BY <1>8, <2>2, AdmittedTyped DEF WindowInv, DequeInv, Gone
      <3>2. CASE Deque(j)' = Deque(j)
        <4>1. Gone(j)' = Gone(j) /\ Len(Deque(j))' = Len(Deque(j))
          BY <3>1, <3>2 DEF Gone
        <4> QED
          BY <1>8, <2>2, <3>2, <4>1 DEF WindowInv, DequeInv
      <3>3. CASE Deque(j)' = <<>> /\ Deque(j) = <<>>
        BY <1>10, <3>2, <3>3
      <3>4. CASE /\ Deque(j)' = <<>> /\ Deque(j) # <<>>
                 /\ Deque(j)[Len(Deque(j))] <= now - Window
        <4>1. Len(Deque(j))' = 0 /\ Gone(j)' = Len(admitted[j])
          BY <3>1, <3>4 DEF Gone
        <4>2. Len(Deque(j)) \in 1..Len(Deque(j)) /\ Len(admitted[j]) \in 1..Len(admitted[j])
          <5>1. Deque(j) \in Seq(Nat)
            BY DequeTyped
          <5>2. Len(Deque(j)) # 0
            BY <3>4, <5>1
          <5> QED
            BY <3>1, <5>2
        <4>3. Deque(j)[Len(Deque(j))] = admitted[j][Gone(j) + Len(Deque(j))]
          BY <4>2 DEF WindowInv, DequeInv
        <4>4. Gone(j) + Len(Deque(j)) = Len(admitted[j])
          BY <3>1
        <4>5. admitted[j][Len(admitted[j])] <= now - Window /\ admitted[j][Len(admitted[j])] \in Nat
          BY <3>1, <3>4, <4>2, <4>3, <4>4
        <4>6. ASSUME NEW i \in 1..Len(admitted[j]) PROVE admitted[j][i] + Window <= clock
          <5>1. admitted[j][i] <= admitted[j][Len(admitted[j])] /\ admitted[j][i] \in Nat
            <6>1. i <= Len(admitted[j])
              BY <3>1
            <6> QED
              BY <3>1, <4>2, <6>1 DEF WindowInv, OrderInv
          <5> QED
            BY <1>1, <1>2, <4>5, <5>1
        <4> QED
          BY <3>1, <4>1, <4>6
      <3> QED
        BY <1>10, <2>2, <3>2, <3>3, <3>4
    <2> QED
      BY <2>1, <2>2
  <1>12. DequeInv'
    BY <1>1, <1>2, <1>11 DEF DequeInv
  <1>13. SpacedInv'
    <2>1. ASSUME NEW i \in 1..Len(B), NEW j \in 1..Len(B), j = i + Limit
          PROVE  B[i] + Window <= B[j]
      <3>1. CASE j = Len(A) + 1
        <4>1. i \in 1..gone /\ i \in 1..Len(A)
          BY <1>1, <1>2, <1>3, <1>4, <1>5, <2>1, <3>1
        <4>2. A[i] + Window <= now
          BY <1>2, <4>1
        <4> QED
          BY <1>7, <3>1, <4>1, <4>2
      <3>2. CASE j # Len(A) + 1
        <4>1. i \in 1..Len(A) /\ j \in 1..Len(A)
          <5>1. Len(B) = Len(A) + 1 /\ Len(A) \in Nat /\ Limit \in Nat
            BY <1>1, <1>4, <1>7
          <5> QED
            BY <2>1, <3>2, <5>1
        <4>2. A[i] + Window <= A[j]
          BY <1>0, <1>1, <2>1, <4>1 DEF WindowInv, SpacedInv
        <4> QED
          BY <1>7, <4>1, <4>2
      <3> QED
        BY <3>1, <3>2
    <2>2. ASSUME NEW m \in Clients
          PROVE  \A i, j \in 1..Len(admitted'[m]) :
                   j = i + Limit => admitted'[m][i] + Window <= admitted'[m][j]
      <3>1. CASE m = k
        BY <1>8, <2>1, <3>1
      <3>2. CASE m # k
        BY <1>8, <3>2 DEF WindowInv, SpacedInv
      <3> QED
        BY <3>1, <3>2
    <2> QED
      BY <2>2 DEF SpacedInv
  <1>14. RefusalInv'
    <2>1. ~(refusal'[k].seconds > 0)
      BY <1>8 DEF NoRefusal
    <2>2. \A j \in Clients : j # k =>
            First(j)' = First(j) /\ admitted'[j] = admitted[j] /\ refusal'[j] = refusal[j]
      BY <1>8 DEF First
    <2>3. ASSUME NEW j \in Clients, refusal'[j].seconds > 0
          PROVE  /\ First(j)' >= 1
                 /\ \A i \in 1..Len(admitted'[j]) : admitted'[j][i] <= refusal'[j].at
                 /\ \A i \in 1..(First(j)' - 1) : admitted'[j][i] + Window <= refusal'[j].at
                 /\ admitted'[j][First(j)'] + Window > refusal'[j].at
                 /\ refusal'[j].at + refusal'[j].seconds * Second >= admitted'[j][First(j)'] + Window
                 /\ refusal'[j].at + (refusal'[j].seconds - 1) * Second
                      < admitted'[j][First(j)'] + Window
      BY <2>1, <2>2, <2>3 DEF WindowInv, RefusalInv
    <2> QED
      BY <2>3 DEF RefusalInv
  <1> QED
    BY <1>9, <1>12, <1>13, <1>14 DEF WindowInv

LEMMA WindowStep == RateTypeOK /\ OneInside /\ WindowInv /\ [Next]_vars => WindowInv'
  <1> SUFFICES ASSUME RateTypeOK, OneInside, WindowInv, [Next]_vars PROVE WindowInv'
    OBVIOUS
  <1>1. CASE UNCHANGED vars
    BY <1>1 DEF vars, WindowInv, OrderInv, DequeInv, SpacedInv, RefusalInv, Gone, Deque, First, Inside
  <1>2. CASE Tick \/ \E t \in Threads, k \in Clients : Arrive(t, k)
    BY <1>2, ArriveWindow
  <1>3. ASSUME NEW t \in Threads, Enter(t) PROVE WindowInv'
    BY <1>3, EnterCases, RefuseWindow, AdmitWindow
  <1> QED
    BY <1>1, <1>2, <1>3 DEF Next

\* In any stretch of Window ticks there are Limit stamps at most, all within Limit
\* places of the first.
LEMMA SpentIsShort ==
  ASSUME RateTypeOK, WindowInv, NEW k \in Clients, NEW end \in Int
  PROVE  IsFiniteSet(Spent(k, end)) /\ Cardinality(Spent(k, end)) <= Limit
  <1> DEFINE A == admitted[k]
  <1>1. /\ Len(A) \in Nat /\ DOMAIN A = 1..Len(A) /\ \A i \in 1..Len(A) : A[i] \in Nat
        /\ Limit \in Nat \ {0} /\ Window \in Nat \ {0}
    BY AdmittedTyped, LimitIsPositive, ClockFits
  <1>2. Spent(k, end) \subseteq 1..Len(A)
        /\ \A i \in Spent(k, end) : A[i] + Window > end /\ A[i] <= end
    BY <1>1 DEF Spent
  <1>3. CASE Spent(k, end) = {}
    BY <1>1, <1>3, FS_EmptySet
  <1>4. CASE Spent(k, end) # {}
    <2>1. PICK a \in Spent(k, end) : \A i \in Spent(k, end) : a <= i
      <3>1. Spent(k, end) \in SUBSET Nat
        BY <1>1, <1>2
      <3> QED
        BY <1>4, <3>1, LeastNumber
    <2>2. a \in 1..Len(A) /\ A[a] + Window > end /\ a \in Nat
      BY <1>1, <1>2
    <2>3. Spent(k, end) \subseteq a..(a + Limit - 1)
      <3> SUFFICES ASSUME NEW j \in Spent(k, end), j >= a + Limit PROVE FALSE
        BY <1>1, <1>2, <2>1, <2>2
      <3>1. j \in 1..Len(A) /\ A[j] <= end /\ a + Limit \in 1..Len(A)
        BY <1>1, <1>2, <2>2
      <3>2. A[a] + Window <= A[a + Limit] /\ A[a + Limit] <= A[j]
        BY <2>2, <3>1 DEF WindowInv, SpacedInv, OrderInv
      <3> QED
        BY SMTT(30), <1>1, <2>2, <3>1, <3>2
    <2>4. IsFiniteSet(a..(a + Limit - 1)) /\ Cardinality(a..(a + Limit - 1)) = Limit
      <3>1. a \in Int /\ a + Limit - 1 \in Int /\ (a + Limit - 1) - a + 1 = Limit /\ a <= a + Limit - 1
        BY <1>1, <2>2
      <3> QED
        BY <3>1, FS_Interval
    <2> QED
      BY ZenonT(30), <2>3, <2>4, FS_Subset
  <1> QED
    BY <1>3, <1>4

\* No window of a client holds more than Limit admitted hits, for any limit, window,
\* threshold and clients, as long as no two calls are between their reading of the
\* clock and the lock at once (ratelimit.acquire).
THEOREM LimitHolds == Spec /\ []OneInside => []AtMostLimit
  <1>1. RateTypeOK /\ WindowInv => AtMostLimit
    BY SpentIsShort DEF AtMostLimit, Stamps
  <1> QED
    BY <1>1, WindowInitially, WindowStep, RateTyped, PTL DEF Spec

\* What a refused client is told is enough and not a second too much, under the
\* same proviso (ratelimit.acquire).
THEOREM RetryIsExact == Spec /\ []OneInside => []RetryFits
  <1>1. RateTypeOK /\ WindowInv => RetryFits
    <2> SUFFICES ASSUME RateTypeOK, WindowInv, NEW k \in Clients, refusal[k].seconds > 0
                 PROVE  LET retry(seconds) == refusal[k].at + seconds * Second
                            n == refusal[k].seconds
                        IN  /\ Cardinality(Spent(k, retry(n))) < Limit
                            /\ n = 1 \/ Cardinality(Spent(k, retry(n - 1))) = Limit
      BY DEF RetryFits
    <2> DEFINE A == admitted[k]
               n == refusal[k].seconds
               at == refusal[k].at
               first == A[First(k)]
    <2>1. /\ Len(A) \in Nat /\ DOMAIN A = 1..Len(A) /\ \A i \in 1..Len(A) : A[i] \in Nat
          /\ Limit \in Nat \ {0} /\ Window \in Nat \ {0} /\ Second \in Nat \ {0}
          /\ n \in Nat \ {0} /\ at \in Nat
      BY AdmittedTyped, LimitIsPositive, ClockFits DEF RateTypeOK
    <2>2. /\ First(k) >= 1
          /\ \A i \in 1..Len(A) : A[i] <= at
          /\ \A i \in 1..(First(k) - 1) : A[i] + Window <= at
          /\ first + Window > at
          /\ at + n * Second >= first + Window
          /\ at + (n - 1) * Second < first + Window
      BY DEF WindowInv, RefusalInv
    <2>3. First(k) \in 1..Len(A) /\ First(k) = Len(A) - Limit + 1 /\ first \in Nat
      BY <2>1, <2>2 DEF First
    <2>4. PICK enough \in Int, early \in Int : enough = at + n * Second /\ early = at + (n - 1) * Second
      <3>1. at + n * Second \in Int /\ at + (n - 1) * Second \in Int
        BY <2>1
      <3> QED
        BY <3>1
    <2>5. enough >= first + Window /\ early < first + Window /\ early >= at
      <3>1. (n - 1) * Second \in Nat
        <4>1. n - 1 \in Nat /\ Second \in Nat
          BY <2>1
        <4>2. \A x, y \in Nat : x * y \in Nat
          OBVIOUS
        <4> HIDE DEF n
        <4> QED
          BY <4>1, <4>2
      <3>2. early = at + (n - 1) * Second /\ enough = at + n * Second /\ at \in Nat
        BY <2>1, <2>4
      <3>3. early >= at
        BY <3>1, <3>2
      <3>4. enough >= first + Window /\ early < first + Window
        BY <2>2, <3>2
      <3> QED
        BY <3>3, <3>4
    <2>6. \A i, j \in 1..Len(A) : i <= j => A[i] <= A[j]
      BY DEF WindowInv, OrderInv
    <2> HIDE DEF A, n, at, first
    <2>7. Cardinality(Spent(k, enough)) < Limit
      <3>1. Spent(k, enough) \subseteq (First(k) + 1)..Len(A)
        <4> SUFFICES ASSUME NEW i \in Spent(k, enough) PROVE i \in 1..Len(A) /\ i > First(k)
          BY <2>1, <2>3
        <4>1. i \in 1..Len(A) /\ A[i] > enough - Window
          BY <2>1 DEF Spent, A
        <4>2. ASSUME i <= First(k) PROVE FALSE
          <5>1. A[i] <= first
            BY <2>3, <2>6, <4>1, <4>2 DEF first, A
          <5> QED
            BY <2>1, <2>3, <2>5, <4>1, <5>1
        <4> QED
          BY <2>1, <2>3, <4>1, <4>2
      <3>2. IsFiniteSet((First(k) + 1)..Len(A)) /\ Cardinality((First(k) + 1)..Len(A)) = Limit - 1
        <4>1. CASE Limit = 1
          <5>1. (First(k) + 1)..Len(A) = {}
            BY <2>1, <2>3, <4>1
          <5>2. Limit - 1 = 0
            BY <4>1
          <5> QED
            BY <5>1, <5>2, FS_EmptySet
        <4>2. CASE Limit # 1
          <5>1. /\ First(k) + 1 \in Int /\ Len(A) \in Int /\ First(k) + 1 <= Len(A)
                /\ Len(A) - (First(k) + 1) + 1 = Limit - 1
            BY <2>1, <2>3, <4>2
          <5> QED
            BY <5>1, FS_Interval
        <4> QED
          BY <4>1, <4>2
      <3>3. Cardinality(Spent(k, enough)) <= Limit - 1 /\ Cardinality(Spent(k, enough)) \in Nat
        BY <3>1, <3>2, FS_Subset, FS_CardinalityType
      <3> QED
        BY <2>1, <3>3
    <2>8. Cardinality(Spent(k, early)) = Limit
      <3>1. First(k)..Len(A) \subseteq Spent(k, early)
        <4> SUFFICES ASSUME NEW i \in First(k)..Len(A) PROVE i \in Spent(k, early)
          OBVIOUS
        <4>1. i \in 1..Len(A) /\ first <= A[i] /\ A[i] \in Nat /\ A[i] <= at
          <5>1. i \in 1..Len(A) /\ First(k) <= i
            BY <2>1, <2>3
          <5>2. A[First(k)] <= A[i]
            BY <2>3, <2>6, <5>1
          <5> QED
            BY <2>1, <2>2, <5>1, <5>2 DEF first, at, A
        <4>2. A[i] \in (early - Window + 1)..early
          BY <2>1, <2>3, <2>5, <4>1
        <4> QED
          BY <2>1, <4>1, <4>2 DEF Spent, A
      <3>2. Cardinality(First(k)..Len(A)) = Limit
        <4>1. /\ First(k) \in Int /\ Len(A) \in Int /\ First(k) <= Len(A)
              /\ Len(A) - First(k) + 1 = Limit
          BY <2>1, <2>3
        <4> QED
          BY <4>1, FS_Interval
      <3>3. IsFiniteSet(Spent(k, early)) /\ Cardinality(Spent(k, early)) <= Limit
        BY SpentIsShort
      <3>4. Limit <= Cardinality(Spent(k, early)) /\ Cardinality(Spent(k, early)) \in Nat
        BY <3>1, <3>2, <3>3, FS_Subset, FS_CardinalityType
      <3> QED
        BY <2>1, <3>3, <3>4
    <2> QED
      BY <2>4, <2>7, <2>8 DEF n, at
  <1> QED
    BY <1>1, WindowInitially, WindowStep, RateTyped, PTL DEF Spec

\* A single request thread meets the proviso by itself (ratelimit.acquire).
THEOREM OneThreadKeepsTheLimit ==
  ASSUME \A s, t \in Threads : s = t
  PROVE  Spec => [](AtMostLimit /\ RetryFits)
  <1>1. OneInside
    BY DEF OneInside
  <1> QED
    BY <1>1, LimitHolds, RetryIsExact, PTL
================================================================================
