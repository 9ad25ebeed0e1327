---------------------------- MODULE RateLimiter ----------------------------
(***************************************************************************)
(* The public demo's sliding-window rate limit (ratelimit.py), as the      *)
(* request threads of the one process that serves the demo call it.        *)
(* acquire reads the clock before it takes the lock, so a thread is        *)
(* modelled in two steps, Arrive and Enter, and time passes between them.  *)
(* Time is counted in ticks, a whole number of which make a second.        *)
(***************************************************************************)
EXTENDS Naturals, Integers, Sequences, FiniteSets

CONSTANTS
  Threads, Clients,
  Limit, Window,          \* hits allowed in any Window ticks
  Second,                 \* ticks in a second
  PruneThreshold,         \* _PRUNE_THRESHOLD
  NoClient,
  MaxClock                \* bound: ticks of the clock

ASSUME LimitIsPositive == Limit \in Nat \ {0}
ASSUME ClockFits == {Window, Second} \subseteq Nat \ {0} /\ {PruneThreshold, MaxClock} \subseteq Nat

VARIABLES
  clock,
  hits,                   \* _hits: a deque of stamps for each tracked client
  client, stamp,          \* each thread: whom it serves, the `now` it read
  admitted,               \* history: [Clients -> the stamps acquire let through]
  refusal,                \* history: each client's last refusal, until it is let through
  swept                   \* history: the horizon of the last hit that was recorded

vars == <<clock, hits, client, stamp, admitted, refusal, swept>>

Stamps == 0..MaxClock

NoRefusal == [at |-> 0, seconds |-> 0]

Init ==
  /\ clock = 0
  /\ hits = <<>>
  /\ client = [t \in Threads |-> NoClient]
  /\ stamp = [t \in Threads |-> 0]
  /\ admitted = [k \in Clients |-> <<>>]
  /\ refusal = [k \in Clients |-> NoRefusal]
  /\ swept = -Window

Tick ==
  /\ clock < MaxClock
  /\ clock' = clock + 1
  /\ UNCHANGED <<hits, client, stamp, admitted, refusal, swept>>

\* acquire: now = self._clock(), before the lock.
Arrive(t, k) ==
  /\ client[t] = NoClient
  /\ client' = [client EXCEPT ![t] = k]
  /\ stamp' = [stamp EXCEPT ![t] = clock]
  /\ UNCHANGED <<clock, hits, admitted, refusal, swept>>

Horizon(t) == stamp[t] - Window

\* The deque of client k after `while hits and hits[0] <= horizon: popleft()`.
Trimmed(k, horizon) ==
  LET old == IF k \in DOMAIN hits THEN hits[k] ELSE <<>>
      kept == {i \in 1..Len(old) : old[i] > horizon}
      first == CHOOSE i \in kept : \A j \in kept : i <= j
  IN  IF kept = {} THEN <<>> ELSE SubSeq(old, first, Len(old))

Put(table, k, deque) == [j \in DOMAIN table \cup {k} |-> IF j = k THEN deque ELSE table[j]]

\* Slips: the first hit decides, not the last; only empty deques are dropped.
PruneByFirst(table, horizon) ==
  LET kept == {k \in DOMAIN table : table[k] # <<>> /\ table[k][1] > horizon}
  IN  [k \in kept |-> table[k]]

PruneEmpty(table, horizon) ==
  LET kept == {k \in DOMAIN table : table[k] # <<>>}
  IN  [k \in kept |-> table[k]]

\* _prune: drop every client whose last hit is out of the window.
Prune(table, horizon) ==
  LET kept == {k \in DOMAIN table : table[k] # <<>> /\ table[k][Len(table[k])] > horizon}
  IN  [k \in kept |-> table[k]]

\* Slip: rounded down.
WholeSecondsFloor(ticks) ==
  LET seconds == ticks \div Second IN IF seconds < 1 THEN 1 ELSE seconds

\* max(1, ceil(ticks / Second)).
WholeSeconds(ticks) ==
  LET seconds == (ticks + Second - 1) \div Second IN IF seconds < 1 THEN 1 ELSE seconds

\* acquire, holding the lock.
Enter(t) ==
  /\ client[t] # NoClient
  /\ LET k == client[t]
         deque == Trimmed(k, Horizon(t))
         table == Put(hits, k, Append(deque, stamp[t]))
     IN  IF Len(deque) >= Limit
           THEN /\ hits' = Put(hits, k, deque)
                /\ refusal' = [refusal EXCEPT
                     ![k] = [at |-> stamp[t], seconds |-> WholeSeconds(deque[1] - Horizon(t))]]
                /\ UNCHANGED <<admitted, swept>>
           ELSE /\ hits' = IF Cardinality(DOMAIN table) > PruneThreshold
                             THEN Prune(table, Horizon(t)) ELSE table
                /\ admitted' = [admitted EXCEPT ![k] = Append(@, stamp[t])]
                /\ refusal' = [refusal EXCEPT ![k] = NoRefusal]
                /\ swept' = Horizon(t)
  /\ client' = [client EXCEPT ![t] = NoClient]
  /\ UNCHANGED <<clock, stamp>>

Next ==
  \/ Tick
  \/ \E t \in Threads : Enter(t) \/ \E k \in Clients : Arrive(t, k)

Spec == Init /\ [][Next]_vars

------------------------------------------------------------------------------
\* Stamps of client k let through in the Window ticks that end at `end`.
Spent(k, end) == {i \in DOMAIN admitted[k] : admitted[k][i] \in (end - Window + 1)..end}

\* At most Limit hits of a client are let through in any window, however the
\* table was trimmed and pruned in between (ratelimit.py, "Allow at most `limit`
\* hits per key within any `window_seconds` span").
AtMostLimit == \A k \in Clients, end \in Stamps : Cardinality(Spent(k, end)) <= Limit

\* The seconds a refused client is told are enough, if it makes no other
\* request, and not a second more than enough (acquire, "whole seconds until one
\* is allowed").
RetryFits ==
  \A k \in Clients :
    LET retry(seconds) == refusal[k].at + seconds * Second
        n == refusal[k].seconds
    IN  n > 0 => /\ Cardinality(Spent(k, retry(n))) < Limit
                 /\ n = 1 \/ Cardinality(Spent(k, retry(n - 1))) = Limit

\* Past the threshold the table holds only clients seen in the last window: a
\* scan of addresses does not grow it without bound (_PRUNE_THRESHOLD).
TableStaysSmall ==
  Cardinality(DOMAIN hits) > PruneThreshold =>
    \A k \in DOMAIN hits : \E i \in DOMAIN hits[k] : hits[k][i] > swept
==============================================================================
