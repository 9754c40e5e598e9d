------------------------------ MODULE RunQuota ------------------------------
(***************************************************************************)
(* The quota of model calls per run (gateway.py).  A handler thread checks *)
(* the run's counter in one critical section, scans and guards the request *)
(* without the lock, and counts the call in a second critical section      *)
(* before it forwards it.  The table of counters is bounded: to make room  *)
(* for another run, the runs not seen for a TTL are dropped, then the ones *)
(* seen longest ago.                                                       *)
(***************************************************************************)
EXTENDS Naturals, FiniteSets

CONSTANTS
  Runs,
  Callers,    \* handler threads of the gateway, here those that serve model calls
  Quota,      \* run_model_quota.max_model_calls_per_run
  MaxKeys,    \* RUN_MODEL_CALLS_MAX_KEYS
  Ttl,        \* RUN_MODEL_CALL_TTL_SECONDS
  MaxMonotonic, MaxForwards     \* bounds of the model

ASSUME QuotaAssumption ==
  /\ IsFiniteSet(Callers) /\ Callers # {}
  /\ Quota \in Nat \ {0} /\ MaxKeys \in Nat \ {0} /\ Ttl \in Nat
  /\ MaxMonotonic \in Nat /\ MaxForwards \in Nat

VARIABLES
  calls,      \* RUN_MODEL_CALLS: a function from the runs in the table
  seen,       \* RUN_MODEL_CALL_LAST_SEEN
  job,        \* the request of each handler thread
  monotonic,  \* the monotonic clock
  forwarded,  \* history: calls forwarded per run since the process started
  evicted     \* history: runs dropped from the table since then

quotaVars == <<calls, seen, job, monotonic, forwarded, evicted>>

-----------------------------------------------------------------------------
(* The table *)

NoRequest == [step |-> "idle"]

\* A request between its two critical sections, and one that is forwarded.
Request == [step: {"check", "guard", "count", "forward"}, run: Runs, now: Nat]

QuotaTypeOK ==
  /\ DOMAIN calls \subseteq Runs
  /\ calls \in [DOMAIN calls -> Nat]
  /\ seen \in [DOMAIN calls -> Nat]
  /\ job \in [Callers -> {NoRequest} \cup Request]
  /\ monotonic \in Nat
  /\ forwarded \in [Runs -> Nat]
  /\ evicted \subseteq Runs

Used(run) == IF run \in DOMAIN calls THEN calls[run] ELSE 0

\* The runs not seen for a TTL.
Stale(now) == {run \in DOMAIN calls : seen[run] + Ttl < now}

\* Bug: a full table is trimmed even if the run is in it.
KeptWithoutSelf(run, now) ==
  LET all   == DOMAIN calls
      fresh == all \ Stale(now)
  IN  IF Cardinality(all) < MaxKeys THEN {all}
      ELSE IF Cardinality(fresh) < MaxKeys THEN {fresh}
      ELSE {kept \in SUBSET fresh :
              /\ Cardinality(kept) = MaxKeys - 1
              /\ \A k \in kept, d \in fresh \ kept : seen[d] <= seen[k]}

\* The sets of runs the table may keep when a call of run is counted: all, if
\* run is there or there is room; else those seen within the TTL and, when
\* they are still too many, those seen last (ties in either order).
Kept(run, now) ==
  LET all   == DOMAIN calls
      fresh == all \ Stale(now)
  IN  IF run \in all \/ Cardinality(all) < MaxKeys THEN {all}
      ELSE IF Cardinality(fresh) < MaxKeys THEN {fresh}
      ELSE {kept \in SUBSET fresh :
              /\ Cardinality(kept) = MaxKeys - 1
              /\ \A k \in kept, d \in fresh \ kept : seen[d] <= seen[k]}

-----------------------------------------------------------------------------
(* A request of a model route that names a run *)

QuotaInit ==
  /\ calls = [r \in {} |-> 0] /\ seen = [r \in {} |-> 0]
  /\ job = [t \in Callers |-> NoRequest]
  /\ monotonic = 0
  /\ forwarded = [r \in Runs |-> 0]
  /\ evicted = {}

AskModel(t) ==
  /\ job[t] = NoRequest
  /\ \E run \in Runs :
       job' = [job EXCEPT ![t] = [step |-> "check", run |-> run, now |-> 0]]
  /\ UNCHANGED <<calls, seen, monotonic, forwarded, evicted>>

\* Bug: the quota is exhausted one call late.
EnforceQuotaLate(t) ==
  /\ job[t].step = "check"
  /\ job' = [job EXCEPT ![t] =
       IF Used(@.run) > Quota THEN NoRequest ELSE [@ EXCEPT !.step = "guard"]]
  /\ UNCHANGED <<calls, seen, monotonic, forwarded, evicted>>

\* enforce_run_model_quota: a run with its quota used up is denied.
EnforceQuota(t) ==
  /\ job[t].step = "check"
  /\ job' = [job EXCEPT ![t] =
       IF Used(@.run) >= Quota THEN NoRequest ELSE [@ EXCEPT !.step = "guard"]]
  /\ UNCHANGED <<calls, seen, monotonic, forwarded, evicted>>

\* The input, action and approval guards deny the request, or let it reach
\* record_run_model_call, which reads the clock before it takes the lock.
Guard(t) ==
  /\ job[t].step = "guard"
  /\ \/ job' = [job EXCEPT ![t] = NoRequest]
     \/ job' = [job EXCEPT ![t].step = "count", ![t].now = monotonic]
  /\ UNCHANGED <<calls, seen, monotonic, forwarded, evicted>>

\* record_run_model_call: make room, then count.
Record(t) ==
  /\ job[t].step = "count"
  /\ LET run == job[t].run
         now == job[t].now
     IN  \E kept \in Kept(run, now) :
           /\ calls' = [r \in kept \cup {run} |->
                          IF r \in kept THEN calls[r] + (IF r = run THEN 1 ELSE 0)
                          ELSE 1]
           /\ seen' = [r \in kept \cup {run} |-> IF r = run THEN now ELSE seen[r]]
           /\ evicted' = evicted \cup (DOMAIN calls \ (kept \cup {run}))
  /\ job' = [job EXCEPT ![t].step = "forward"]
  /\ UNCHANGED <<monotonic, forwarded>>

\* The call reaches the backend.
Forward(t) ==
  /\ job[t].step = "forward"
  /\ forwarded[job[t].run] < MaxForwards
  /\ forwarded' = [forwarded EXCEPT ![job[t].run] = @ + 1]
  /\ job' = [job EXCEPT ![t] = NoRequest]
  /\ UNCHANGED <<calls, seen, monotonic, evicted>>

\* The gateway restarts: the counters start from zero.
Restart ==
  /\ calls' = [r \in {} |-> 0] /\ seen' = [r \in {} |-> 0]
  /\ job' = [t \in Callers |-> NoRequest]
  /\ forwarded' = [r \in Runs |-> 0]
  /\ evicted' = {}
  /\ UNCHANGED monotonic

Elapse ==
  /\ monotonic < MaxMonotonic
  /\ monotonic' = monotonic + 1
  /\ UNCHANGED <<calls, seen, job, forwarded, evicted>>

ModelRequest(t) == AskModel(t) \/ EnforceQuota(t) \/ Guard(t) \/ Record(t) \/ Forward(t)

QuotaNext == (\E t \in Callers : ModelRequest(t)) \/ Restart \/ Elapse

QuotaSpec == QuotaInit /\ [][QuotaNext]_quotaVars

-----------------------------------------------------------------------------
(* Properties *)

\* Requests of a run that passed the check and are not counted yet.
InFlight(run) ==
  {t \in Callers : job[t].step \in {"guard", "count"} /\ job[t].run = run}

\* Requests of a run that are counted and not forwarded yet.
Leaving(run) == {t \in Callers : job[t].step = "forward" /\ job[t].run = run}

\* Concurrent requests of one run may all pass the check before the first of
\* them is counted; the quota is exceeded by at most the other threads.
OvershootBounded ==
  \A run \in DOMAIN calls : calls[run] <= Quota + Cardinality(Callers) - 1

\* Why it holds: a thread passes the check only below the quota, and then it
\* is one of at most Cardinality(Callers) threads on their way to the count.
OvershootInv ==
  \A run \in Runs :
    Used(run) + Cardinality(InFlight(run)) <= Quota + Cardinality(Callers) - 1

\* The table of counters never exceeds its limit.
TableBounded == Cardinality(DOMAIN calls) <= MaxKeys

\* The counter of a run that was never dropped is the number of its calls
\* that were forwarded or are about to be: none is lost or counted twice.
CountsEveryCall ==
  \A run \in Runs \ evicted :
    Used(run) = forwarded[run] + Cardinality(Leaving(run))
=============================================================================
