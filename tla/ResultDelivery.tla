--------------------------- MODULE ResultDelivery ---------------------------
(***************************************************************************)
(* The way of a result of a worker:                                        *)
(*   - the shim on the worker's host (scripts/openai_asg_shim.py) paces    *)
(*     its submissions, by its own clock and a window of its own, and      *)
(*     sends one again when the gateway answers 429;                       *)
(*   - the gateway admits it by the sliding window of RateLimiter, judges  *)
(*     it, and forwards a receipt;                                         *)
(*   - the collector (scripts/result_receipt_collector.py) appends the     *)
(*     receipt to a file, each request in a thread of its own.             *)
(*                                                                         *)
(* The gateway names the time to wait in the text of its 429 only: the     *)
(* header the shim looks for is never sent, so the shim backs off by       *)
(* itself.  A caller that stops waiting does not stop the one it called.   *)
(***************************************************************************)
EXTENDS Naturals, FiniteSets, Sequences, SequencesExt

CONSTANTS
  Requests,    \* results handed to the shim, one thread each
  Pace,        \* results_max_per_minute
  Allowance,   \* max_receipts_per_minute of the gateway's route
  Window,      \* sixty seconds, on both sides
  MaxRetries, Backoff, BackoffMax,
  Delay,       \* bound on the time a thread takes to read its clock, and from
               \* then to the gateway
  LastSubmit, MaxClock     \* bounds of the model

ASSUME DeliveryAssumption ==
  /\ {Pace, Allowance, Window, Backoff, BackoffMax} \subseteq Nat \ {0}
  /\ {MaxRetries, Delay, LastSubmit, MaxClock} \subseteq Nat

VARIABLES
  sent,        \* _RESULT_SEND_TIMES
  shim,        \* per request, the thread of the shim: a record of its step
               \* (none, new, slot, send, wait, sleep, done), the time at which
               \* it read its clock or wakes up, its attempt and its answer
  gateway,     \* per request, the thread of the gateway: none, check, admitted,
               \* forward, notify (a receipt of what was blocked is delivered,
               \* the answer stays), or the answer it gave
  collector,   \* per request, the thread of the collector: none, writing,
               \* stored, refused
  file,        \* per request, how often its receipt is in the file
  stamps,      \* history: the clocks of the slots of all submissions
  posted,      \* history: the times at which they were sent
  misordered,  \* history: a slot was taken with an older clock than another
  events, expires,   \* the gateway's limiter, as in RateLimiter
  clock

limiting == <<events, expires>>

deliveryVars == <<sent, shim, gateway, collector, file, stamps, posted, misordered, limiting, clock>>

\* The one key of the gateway's limiter: the route and the shim's identity.
Receipts == "receipt"

\* What RateLimiter does in its critical section, without its histories.
Limiter == INSTANCE RateLimiter WITH
  Keys <- {Receipts}, Threads <- Requests, Cap <- 1, MaxGrants <- MaxClock,
  Window <- [k \in {Receipts} |-> Window], Allowance <- [k \in {Receipts} |-> Allowance],
  call <- <<>>, granted <- <<>>, retryAt <- <<>>, newest <- 0, reordered <- FALSE

-----------------------------------------------------------------------------
(* State *)

Answers == {"ok", "blocked", "error", "limited"}

DeliveryInit ==
  /\ sent = <<>> /\ stamps = <<>> /\ posted = <<>> /\ misordered = FALSE
  /\ shim = [r \in Requests |-> [step |-> "none", at |-> 0, attempt |-> 0, answer |-> "none"]]
  /\ gateway = [r \in Requests |-> "none"]
  /\ collector = [r \in Requests |-> "none"]
  /\ file = [r \in Requests |-> 0]
  /\ events = Limiter!Empty /\ expires = Limiter!Empty /\ clock = 0

pacing == <<sent, stamps, posted, misordered>>
storing == <<collector, file>>

-----------------------------------------------------------------------------
(* The shim *)

To(r, step, at) == shim' = [shim EXCEPT ![r].step = step, ![r].at = at]

Submit(r) ==
  /\ shim[r].step = "none" /\ clock <= LastSubmit
  /\ To(r, "new", clock)
  /\ UNCHANGED <<pacing, gateway, storing, limiting, clock>>

\* wait_for_result_send_slot reads the clock before it takes the lock.
ReadClock(r) ==
  /\ shim[r].step = "new"
  /\ To(r, "slot", clock)
  /\ UNCHANGED <<pacing, gateway, storing, limiting, clock>>

\* The times left once those at the head that are out of the window are gone.
Kept(now) ==
  LET first == SelectInSeq(sent, LAMBDA at : now < at + Window)
  IN  IF first = 0 THEN <<>> ELSE SubSeq(sent, first, Len(sent))

\* Bug: a full list is taken for one with room.
RoomWhenFull(now) == Len(Kept(now)) <= Pace

Room(now) == Len(Kept(now)) < Pace

\* Bug: a thread counts before it knows that it may send.
TimesOfAll(now) == Append(Kept(now), now)

Times(now) == IF Room(now) THEN Append(Kept(now), now) ELSE Kept(now)

\* In the lock: take a slot, or sleep until the oldest leaves the window.
Slot(r) ==
  /\ shim[r].step = "slot"
  /\ LET now == shim[r].at
     IN  /\ sent' = Times(now)
         /\ IF Room(now)
            THEN /\ To(r, "send", now)
                 /\ misordered' = (misordered \/ \E i \in DOMAIN sent : sent[i] > now)
            ELSE /\ To(r, "sleep", clock + Kept(now)[1] + Window - now)
                 /\ UNCHANGED misordered
  /\ UNCHANGED <<stamps, posted, gateway, storing, limiting, clock>>

\* The request is sent, some time after its slot was taken, and the gateway
\* reads its clock.
Send(r) ==
  /\ shim[r].step = "send"
  /\ To(r, "wait", clock)
  /\ gateway' = [gateway EXCEPT ![r] = "check"]
  /\ stamps' = Append(stamps, shim[r].at) /\ posted' = Append(posted, clock)
  /\ UNCHANGED <<sent, misordered, storing, limiting, clock>>

Awake(r) ==
  /\ shim[r].step = "sleep" /\ clock >= shim[r].at
  /\ To(r, "new", clock)
  /\ UNCHANGED <<pacing, gateway, storing, limiting, clock>>

\* rate_limit_sleep_seconds, without a Retry-After.
Sleep(attempt) ==
  LET exponential == Backoff * 2^(attempt - 1)
  IN  IF exponential < BackoffMax THEN exponential ELSE BackoffMax

\* Bug: whatever goes wrong is tried again.
RetryErrors(r) == gateway[r] \in {"limited", "error"} /\ shim[r].attempt < MaxRetries

\* Bug: the last attempt is not made.
RetryOneLess(r) == gateway[r] = "limited" /\ shim[r].attempt + 1 < MaxRetries

Retry(r) == gateway[r] = "limited" /\ shim[r].attempt < MaxRetries

Answer(r) ==
  /\ shim[r].step = "wait" /\ gateway[r] \in Answers
  /\ shim' = IF Retry(r)
             THEN [shim EXCEPT ![r].step = "sleep", ![r].attempt = @ + 1,
                               ![r].at = clock + Sleep(shim[r].attempt + 1)]
             ELSE [shim EXCEPT ![r].step = "done", ![r].answer = gateway[r]]
  /\ gateway' = [gateway EXCEPT ![r] = "none"]
  /\ UNCHANGED <<pacing, storing, limiting, clock>>

\* socket.timeout or URLError while the gateway is still at it.
Lost(r) ==
  /\ shim[r].step = "wait"
  /\ shim' = [shim EXCEPT ![r].step = "done", ![r].answer = "error"]
  /\ UNCHANGED <<pacing, gateway, storing, limiting, clock>>

-----------------------------------------------------------------------------
(* The gateway: check_report_receipt_rate_limit and what follows *)

Becomes(r, step) == gateway' = [gateway EXCEPT ![r] = step]

\* In the lock of the limiter, with the clock as read before it.
Recent(r) == Limiter!Recent(Receipts, shim[r].at)

Admit(r) ==
  /\ gateway[r] = "check" /\ Len(Recent(r)) < Allowance
  /\ events' = Limiter!Set(events, Receipts, Append(Recent(r), shim[r].at))
  /\ expires' = Limiter!Set(expires, Receipts, Limiter!Deadline(Receipts, shim[r].at))
  /\ Becomes(r, "admitted")
  /\ UNCHANGED <<pacing, shim, storing, clock>>

Limit(r) ==
  /\ gateway[r] = "check" /\ Len(Recent(r)) >= Allowance
  /\ events' = Limiter!Set(events, Receipts, Recent(r))
  /\ Becomes(r, "limited")
  /\ UNCHANGED <<pacing, shim, storing, expires, clock>>

\* The guards decide: forward the receipt, deny with or without one, or fail.
Judge(r) ==
  /\ gateway[r] = "admitted"
  /\ \/ /\ \E step \in {"forward", "notify"} : Becomes(r, step)
        /\ collector' = [collector EXCEPT ![r] = "writing"]
     \/ /\ \E answer \in {"blocked", "error"} : Becomes(r, answer)
        /\ UNCHANGED collector
  /\ UNCHANGED <<pacing, shim, file, limiting, clock>>

\* The collector's answer.  That of a notification changes nothing.
Reply(r) ==
  /\ gateway[r] \in {"forward", "notify"} /\ collector[r] \in {"stored", "refused"}
  /\ Becomes(r, CASE gateway[r] = "notify" -> "blocked"
                  [] gateway[r] = "forward" /\ collector[r] = "stored" -> "ok"
                  [] OTHER -> "error")
  /\ UNCHANGED <<pacing, shim, storing, limiting, clock>>

\* backend_timeout or backend_error, whatever the collector did or will do;
\* or an answer the output guard withholds.
GiveUp(r) ==
  /\ gateway[r] \in {"forward", "notify"}
  /\ Becomes(r, IF gateway[r] = "notify" THEN "blocked" ELSE "error")
  /\ UNCHANGED <<pacing, shim, storing, limiting, clock>>

-----------------------------------------------------------------------------
(* The collector *)

\* A token, a signature or a body that does not pass.
Refuse(r) ==
  /\ collector[r] = "writing"
  /\ collector' = [collector EXCEPT ![r] = "refused"]
  /\ UNCHANGED <<pacing, shim, gateway, file, limiting, clock>>

\* One write in append mode.
Store(r) ==
  /\ collector[r] = "writing"
  /\ file' = [file EXCEPT ![r] = @ + 1]
  /\ collector' = [collector EXCEPT ![r] = "stored"]
  /\ UNCHANGED <<pacing, shim, gateway, limiting, clock>>

-----------------------------------------------------------------------------

\* Nobody is late: within the delay on the way to the gateway, at once where a
\* request is admitted or turned away.  Guards, collector and answers take any
\* time.
OnTime(r) ==
  /\ shim[r].step \in {"new", "slot", "send"} => clock < shim[r].at + Delay
  /\ gateway[r] # "check"
  /\ ~(shim[r].step = "wait" /\ gateway[r] = "limited")
  /\ shim[r].step = "sleep" => clock < shim[r].at

Tick ==
  /\ clock < MaxClock
  /\ \A r \in Requests : OnTime(r)
  /\ clock' = clock + 1
  /\ UNCHANGED <<pacing, shim, gateway, storing, limiting>>

Work(r) == ReadClock(r) \/ Slot(r) \/ Send(r) \/ Awake(r) \/ Answer(r)
Serve(r) == Admit(r) \/ Limit(r) \/ Judge(r) \/ Reply(r)
Collect(r) == Refuse(r) \/ Store(r)

DeliveryNext ==
  \/ \E r \in Requests : Submit(r) \/ Work(r) \/ Lost(r)
  \/ \E r \in Requests : Serve(r) \/ GiveUp(r)
  \/ \E r \in Requests : Collect(r)
  \/ Tick

(***************************************************************************)
(* The threads of the three programs go on, and time passes.  The timeouts *)
(* of the shim and of the gateway need not happen.                         *)
(***************************************************************************)
DeliverySpec ==
  /\ DeliveryInit /\ [][DeliveryNext]_deliveryVars
  /\ \A r \in Requests : WF_deliveryVars(Work(r)) /\ WF_deliveryVars(Serve(r)) /\ WF_deliveryVars(Collect(r))
  /\ WF_deliveryVars(Tick)

-----------------------------------------------------------------------------
(* Properties *)

\* The submissions sent with that one or after it, in a stretch of time that is
\* shorter than the window by so much.
SentTogether(i, less) ==
  {j \in DOMAIN posted : posted[i] <= posted[j] /\ posted[j] + less < posted[i] + Window}

\* "Keep /v1/results submissions at or below the configured per-minute cap": a
\* slot holds the time read before it, and its submission is sent later, so it
\* is not any window that keeps the cap, but any stretch that is shorter by the
\* delay, counting also those sent again; and if a thread took a slot with a
\* clock older than another's, any stretch that is shorter by twice the delay.
Paced ==
  \A i \in DOMAIN posted :
    /\ ~misordered => Cardinality(SentTogether(i, Delay)) <= Pace
    /\ Cardinality(SentTogether(i, 2 * Delay)) <= Pace

\* Sending again never stores a result twice, a result that was answered as
\* accepted is stored, and one that was turned away is not.
StoredOnce ==
  \A r \in Requests :
    /\ file[r] <= 1
    /\ shim[r].answer = "ok" => file[r] = 1
    /\ shim[r].answer = "limited" => file[r] = 0

\* If the shim is the only sender of its identity, at the gateway's pace, and
\* has no more results at a time than it has attempts, none is turned away,
\* although the two windows differ at their edges and by the delay.
Admitted == \A r \in Requests : shim[r].answer # "limited"

\* Every result gets an answer: threads that wait for a slot and threads that
\* were told to come back do not keep each other from sending for ever.
ResultsEnd == <>[](\A r \in Requests : shim[r].step \in {"none", "done"})

=============================================================================
