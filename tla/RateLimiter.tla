---------------------------- MODULE RateLimiter ----------------------------
(***************************************************************************)
(* The rate limiter of the gateway (class RateLimiter in proxy.py), shared *)
(* by all handler threads: a sliding window of grants per key (an agent at *)
(* an address, or a receipt route), in a table with a limited number of    *)
(* keys.  A thread reads the clock BEFORE it takes the lock, so the calls  *)
(* may enter the critical section in another order than their clocks say.  *)
(***************************************************************************)
EXTENDS Naturals, FiniteSets, Sequences, SequencesExt

CONSTANTS
  Keys, Threads,
  Window,     \* window_seconds of each key
  Allowance,  \* max_requests of each key
  Cap,        \* the limit on the number of keys (4096 in the code)
  MaxClock, MaxGrants      \* bounds of the model

ASSUME ConstantsAssumption ==
  /\ Window \in [Keys -> Nat \ {0}]
  /\ Allowance \in [Keys -> Nat \ {0}]
  /\ Cap \in Nat \ {0}
  /\ MaxClock \in Nat /\ MaxGrants \in Nat

VARIABLES
  events,     \* self._events: timestamps of grants, of the keys in the table
  expires,    \* self._expires: the deadline of each key in the table
  call,       \* the call of each thread
  clock,      \* the monotonic clock
  granted,    \* history: the timestamps of all grants of each key
  retryAt,    \* history: when the last denied call of a key was to come back
  newest,     \* history: the largest clock a call entered the lock with
  reordered   \* history: a call entered with an older clock than that

vars == <<events, expires, call, clock, granted, retryAt, newest, reordered>>

Idle == [step |-> "idle"]

Call == [step: {"lock"}, key: Keys, now: Nat]

\* Both tables have the same keys, and never more than there is room for,
\* although a call that was denied may have dropped some.
TypeOK ==
  /\ DOMAIN events \subseteq Keys /\ DOMAIN expires = DOMAIN events
  /\ Cardinality(DOMAIN events) <= Cap
  /\ \A k \in DOMAIN events : events[k] \in Seq(Nat) /\ expires[k] \in Nat
  /\ call \in [Threads -> {Idle} \cup Call]
  /\ clock \in Nat /\ newest \in Nat /\ reordered \in BOOLEAN
  /\ \A k \in Keys : granted[k] \in Seq(Nat)
  /\ DOMAIN retryAt \subseteq Keys
  /\ \A k \in DOMAIN retryAt : retryAt[k] \in Nat

Empty == [k \in {} |-> 0]

Init ==
  /\ events = Empty /\ expires = Empty
  /\ call = [t \in Threads |-> Idle]
  /\ clock = 0
  /\ granted = [k \in Keys |-> <<>>]
  /\ retryAt = Empty
  /\ newest = 0 /\ reordered = FALSE

\* The call reads the clock.
Begin(t) ==
  /\ call[t] = Idle
  /\ \E k \in Keys : call' = [call EXCEPT ![t] = [step |-> "lock", key |-> k, now |-> clock]]
  /\ UNCHANGED <<events, expires, clock, granted, retryAt, newest, reordered>>

-----------------------------------------------------------------------------
(* In the critical section *)

\* Bug: a key is dropped one window after its first grant, not its last.
LiveFromFirst(now) ==
  {k \in DOMAIN events : events[k][1] + Window[k] > now}

\* The keys left once the expired ones are dropped.
Live(now) == {k \in DOMAIN events : expires[k] > now}

\* The entries of a list at these indices, in their order.
Entries(list, kept) ==
  [n \in 1..Cardinality(kept) |->
     list[CHOOSE i \in kept : Cardinality({j \in kept : j <= i}) = n]]

\* The grants of a key that are within its window (the list comprehension; not
\* by SelectSeq, which no prover can expand).
Recent(k, now) ==
  IF k \in Live(now)
  THEN Entries(events[k], {i \in DOMAIN events[k] : events[k][i] + Window[k] >= now})
  ELSE <<>>

\* Bug: the oldest grant has left the window only after that moment.
RetryAfterShort(k, now, recent) ==
  IF recent[1] + Window[k] > now THEN recent[1] + Window[k] - now ELSE 1

\* retry_after, in whole seconds and at least one.
RetryAfter(k, now, recent) ==
  IF recent[1] + Window[k] > now THEN recent[1] + Window[k] - now + 1 ELSE 1

\* Until when a key granted now stays in the table.
Deadline(k, now) == now + Window[k]

Set(f, k, value) == [x \in DOMAIN f \cup {k} |-> IF x = k THEN value ELSE f[x]]

Only(f, keys) == [k \in keys |-> f[k]]

\* Bug: one more key than there is room for is let in.
TableFullLate(k, now) == k \notin Live(now) /\ Cardinality(Live(now)) > Cap

\* No room for a key that is not in the table.
TableFull(k, now) == k \notin Live(now) /\ Cardinality(Live(now)) >= Cap

Enter(t, now) ==
  /\ call' = [call EXCEPT ![t] = Idle]
  /\ newest' = IF now > newest THEN now ELSE newest
  /\ reordered' = (reordered \/ now < newest)
  /\ UNCHANGED clock

\* "Never evict a live bucket": a new key is denied when the table is full.
DenyFull(t) ==
  /\ call[t] # Idle
  /\ LET k == call[t].key
         now == call[t].now
     IN  /\ TableFull(k, now)
         /\ events' = Only(events, Live(now))
         /\ expires' = Only(expires, Live(now))
         /\ Enter(t, now)
  /\ UNCHANGED <<granted, retryAt>>

\* The allowance of the window is used up.
DenyLimit(t) ==
  /\ call[t] # Idle
  /\ LET k == call[t].key
         now == call[t].now
         recent == Recent(k, now)
     IN  /\ ~TableFull(k, now)
         /\ Len(recent) >= Allowance[k]
         /\ events' = Set(Only(events, Live(now)), k, recent)
         /\ expires' = Only(expires, Live(now))
         /\ retryAt' = Set(retryAt, k, now + RetryAfter(k, now, recent))
         /\ Enter(t, now)
  /\ UNCHANGED granted

\* The call is granted and the deadline of its key is moved.
Grant(t) ==
  /\ call[t] # Idle
  /\ LET k == call[t].key
         now == call[t].now
         recent == Recent(k, now)
     IN  /\ ~TableFull(k, now)
         /\ Len(recent) < Allowance[k]
         /\ Len(granted[k]) < MaxGrants
         /\ events' = Set(Only(events, Live(now)), k, Append(recent, now))
         /\ expires' = Set(Only(expires, Live(now)), k, Deadline(k, now))
         /\ granted' = [granted EXCEPT ![k] = Append(@, now)]
         /\ retryAt' = Only(retryAt, DOMAIN retryAt \ {k})
         /\ Enter(t, now)

Tick ==
  /\ clock < MaxClock
  /\ clock' = clock + 1
  /\ UNCHANGED <<events, expires, call, granted, retryAt, newest, reordered>>

Check(t) == Begin(t) \/ DenyFull(t) \/ DenyLimit(t) \/ Grant(t)

Next == (\E t \in Threads : Check(t)) \/ Tick

Spec == Init /\ [][Next]_vars

-----------------------------------------------------------------------------
(* Properties *)

\* As long as calls enter the lock in the order of their clocks, no window of
\* a key holds more grants than its allowance, although keys are dropped and
\* come back, and drop each other, meanwhile.
WindowBound ==
  ~reordered =>
    \A k \in Keys : \A i \in 1..Len(granted[k]) :
      i + Allowance[k] <= Len(granted[k]) =>
        granted[k][i + Allowance[k]] >= granted[k][i] + Window[k]

\* A caller that waits for as long as it was told finds its window with room,
\* unless another call of its key was granted meanwhile.
RetryAfterSuffices ==
  \A k \in DOMAIN retryAt :
    clock >= retryAt[k] => Len(Recent(k, clock)) < Allowance[k]
=============================================================================
