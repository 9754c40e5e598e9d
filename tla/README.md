# Agent Security Gateway: a TLA+ model

The Agent Security Gateway is an HTTP process that stands between agents (callers) and
their backends: model servers, task queues, a quarantine store. It authenticates each
caller, checks what it may call, scans what it sends, forwards it, scans the answer and
writes an audit log. `gateway.py` is the server and its commands; `proxy.py` holds the
scanners, the rate limiter and the audit logger; `canary.py` the canary registry and the
revocations; `scripts/` and `setup/` hold the processes around it: disposable workers and
the service that searches the web for them, and the way of their results.

This project models the parts whose state is shared between threads, processes and
restarts, because that is where tests reach least. Pure functions of one text appear by
what they decide: the guards' arithmetic of findings, scores and thresholds is modelled,
the patterns that find something are not.

Contents: 1 inventory, 2 modules and how they follow the code, 3 runs, bounds and
fairness, 4 proofs, 5 where code and documents disagree, 6 not modelled, 7 plan.

## 1. Inventory

| Component | State | Operations | Shared with, and how | What makes it correct |
|---|---|---|---|---|
| Run store (`gateway.py` 1740-1960) | `runs.jsonl`, append-only; routes of the loaded configuration | register and revoke (append under a lock), token check, run scope check, `gc-runs` (rewrites the file) | handler threads read it without a lock, up to three times a request; `gc-runs` is another process and shares a file lock with writers | the newest record of a run decides; nothing revives a dead identity |
| Artifact store (`gateway.py` 3160-3470, 3780-3900, 4440-4560) | blobs named by hash, manifests, lookup and index entries | submit, download, review summary, `gc-artifacts` | no lock at all between handlers and the collector | what is delivered passed the policy; what was answered stays stored |
| Model call quota (`gateway.py` 1680-1737) | two bounded tables in memory | check, count, evict | handler threads, two critical sections | bounded excess; no call lost; bounded table |
| Rate limiter (`proxy.py` 330-400) | a sliding window per key, bounded table | check | handler threads; the clock is read before the lock | no window exceeds the allowance; retry-after is enough |
| Audit log (`proxy.py`, `AuditLogger`; `asgctl_ops.py` 400-450) | hash-chained JSONL | write, verify, export and check an anchor, verify in an incident bundle | handler threads and collectors of other processes | the chain links; an edit shows unless the end behind it is forged too; anchors stay |
| Request pipeline (`gateway.py` 4561-4847) | none of its own; reads all others | kill switch, authentication, policy, guards, approval, forward, receipts, answer; `/inspect` | every store above, between any two steps | trips and the kill switch take effect; bypasses are audited; answers match the log |
| Canaries and revocation (`canary.py`) | registry and its cache, revocation file | load, search a body, trip, release | handler threads, operator's commands | a known canary is stopped; a revoked agent stays out |
| Approvals (`gateway.py` 1961-2040, 4849-4934) | append-only file | store, match | requests of two agents | nobody approves itself; none is used after its expiry |
| HTTP server (`gateway.py` 4313-4394, 5210-5231) | permits, a timer per connection | accept, read, cancel, expire, finish | listener, handler threads, timer threads, clients | permits balance; a request read in time is answered; connections end |
| Input and output guards (`proxy.py`, `gateway.py`) | none | scan and judge, snippet check, LLM inspector, what routes ignore or relax, artifact inspection | two models that may say anything | what must be held is held, whatever the models say |
| Run warnings (`gateway.py` 4037-4075) | a side file per run | record; read into the manifests of the run's artifacts | handler threads | a run warned that a text was withheld did not read it |
| Receipts and collector (`result_receipt_collector.py`), OpenAI shim (`openai_asg_shim.py`) | the receipts' file; the shim's window of send times | pace, send, retry; judge, forward; append | three processes, several threads each; answers may be lost | pace is kept, a result is stored once and none turned away |
| Research service (`research_service.py`) | per run: eligible URLs, hosts, three counters | register, expire, search, fetch, follow redirects | handler threads; a replaced state lives on in those that hold it | a run reaches only hosts it was led to; quotas are exceeded by a bounded amount |
| Worker life cycle (`spawn_worker.py`, `asg-fc-worker`, `worker_agent.py`) | a run's identity, one virtual machine, the guest's budgets | register, start, boot, ask, fetch, submit, destroy, report, revoke | HTTP to the gateway, ssh, a lock file, a console | no identity outlives its call; a trip ends the run; timeouts nest |
| Operator tools (`asgctl.py`, `asgctl_ops.py`) | none | canary add and release, incident bundle; edits of the configuration | files of the gateway | see Audit log and Canaries |
| Search agent, MCP server, configuration, installation | see section 6 | - | - | - |

Hard behaviours, in the order in which they matter here: lock-free readers beside a
writer and a collector; check-then-act across two critical sections; partial writes that
hide the record that follows them; a collector that works from a listing it made
earlier; a request that goes on while another one revokes its caller; a registration
that replaces a state other threads still hold; an answer that is lost after it took
effect; nested timeouts, each in another process; a model whose word may lower a
finding; a bounded table that must forget something; clocks read before a lock is taken;
a timer that races the end of what it bounds. `PROJECT.json` lists each with its line and
the properties that would show it going wrong.

## 2. Modules

One module per component, an MC module with constants for TLC, and `...Proofs` modules
with the theorems. Where one of these extends several components (LimitsProofs:
RateLimiter, Connections and RunQuota; EvidenceProofs: AuditLog and ResultDelivery) the
specifications of the later ones have names of their own: `ServerSpec`, `QuotaSpec`,
`DeliverySpec`. Operators carry the names of the functions they model where a
TLA+ name allows it; `PROJECT.json` maps each definition to its lines. Definitions whose
comment begins with "Bug:" are not part of a specification: they are the mutated forms
that show that a property can fail.

**RunScopes** is the abstract specification of the run store: at most one grant per run,
replaced by a registration, forgotten only once it has expired.

**RunStore** has the file as a set of lines with positions. `BuildRegistration` and
`AppendRecord` are `handle_run_register`; `BeginRequest`, `VerifyAgent` and
`EnforceRunScope` are the three lock-free reads of a request (identity before the body,
identity after it, scope); `GcStart`, `GcSplit` and `GcReplace` are `gc-runs`, which can
be killed (`GcCrash`). `EditConfig` and `Restart` change which records are valid.
 - A read of the file is atomic and so is an append under the lock. The window between
   reading and replacing in `gc-runs` is kept, with the lock it holds.
 - A torn append leaves nothing, a part of a line, or a whole record without its newline
   (which readers accept); the next record is glued to what is there. With the first of
   these, latest-record-wins fails: see section 5.
 - Where a reason holds U+2028, U+2029 or U+0085 (`plain` is FALSE), `gc-runs` sees two
   lines where readers see one.
 - Time is in whole seconds and does not run backwards. The command's `--now`, a test
   aid, is left out. The caller's own token is static: `Roles` are the principals.
 - In the main run unknown runs are refused and no run is configured statically; the
   theorems cover both settings.

**Guards** is about one text: findings with a kind, a severity and a number of matches,
their sum against two thresholds, and the five steps that change the findings and judge
again (snippet check, LLM inspector, what the route ignores, relaxes or demands). A model
that is asked answers what it wants, so each operator returns the set of possible
results. Two details that matter are kept: every match of a finding must be checked
within one budget for all of them, and an answer whose findings were lowered is judged by
the thresholds of texts.

**Inspection** is `inspect_artifact_content` over Guards: what a content of some media
type and some findings may be concluded to be.

**ArtifactStore** has one step per file written, read or deleted. Its job records what a
thread has read so far. Blobs can be absent, whole, partial, or being written by a
thread. A restart may change the policy (`Scanners`: what is found in which content);
the status of a content is one that Inspection allows. The lookup entry is written in one
step with the index entry (nothing reads one without the other); listing the manifests is
one step; one `gc-artifacts` runs at a time; ids are drawn at random and never repeat; a
handler does not outlive a retention period (the guard of `Tick`: handlers end within
minutes, retention is counted in days). The metadata request only reads a manifest.

**RunQuota** keeps both critical sections apart: `EnforceQuota` and `Record`, with the
guards between them. Eviction from the table is a choice among the runs the code may
keep: runs of one timestamp are dropped in any order.

**RateLimiter** is `RateLimiter.check` with its clock read as a step of its own. The
history variable `reordered` records that two calls entered the lock in another order
than they read the clock. In that case the comment at `src/proxy.py:361` ("Never evict a
live bucket") need not hold to the second, so `WindowBound` excludes it, while the bound
of the table (part of `TypeOK`) does not.

**AuditLog** gives each event a number as its hash, since every event differs in its
request id and time. Partial writes leave a part of a line or all but its newline. A
line is `sealed` if its `event_hash` is the hash of its own text, which both verifiers
compute again. `Copies` are the files a verifier may be given: events of the log in any
selection and order, events whose content was edited (not sealed), and forged lines, whose
hash was computed anew, as anyone can who writes the file, since no key is in it. The
anchor is a hash with a count. `verify-audit --expect-anchor` compares an anchor with the
current end of the log, so it answers whether the log has stayed as it was (`Expects`);
`AnchorsStay` states what an anchor remains good for after more events. `Checked` is the
second verifier, that of the incident bundle, which reports where the chain breaks
(`Breaks`) and goes on; events in `Separated` hold a Unicode line boundary (section 5).

**RequestPipeline** follows `handle_routed_request`, `handle_inspect` and
`handle_approval` line by line wherever they read or write what another thread, the
parent, the operator or a restart can change. Variables are the kill switch file, the
revocation file (`last`, `ended` and `torn`), the canary registry with its time stamp and
the cache, the approval file, the mode of the run's newest record and the audit events of
each request.
 - What the scanners find in a body is part of the `shape` of the request, what they find
   in an answer part of the `reply`; what follows from that is in Guards.
 - `Carries` says whether the search of a body reaches the canary in it before one of
   its three limits is used up.
 - What depends on one request and the configuration, the rate limit, the run scope or
   the quota, is a denial that may happen at the step where the check stands.
 - Events of denials and internal errors may fail to be written without changing the
   answer (`deny`, `internal_error`), so `log` leaves them out; the events whose failure
   ends the request are kept.
 - A torn revocation leaves part of a line, or all of it but the newline. The latter
   counts for readers (`last`) although its request failed, until the next record is
   glued to it and both are lost: then the lines with a newline decide again (`ended`).
 - `glued` marks that a revocation was appended to an incomplete line and lost; `blind`
   that the registry changed within the resolution of its time stamp. Both are
   exceptions named in the properties.
 - A canary in an answer of the backend revokes nobody: the code passes no agent.
 - The two reads of the run's mode (`ReadTestMode`, `ReadQuarantine`) are separate, as
   they are in the code. The warning of a run (`WarnRun`) may fail unnoticed.

**Connections** has the semaphore, the handler thread and the timer thread of each
connection, and a client who may send, stall or close. The timer sets `_read_expired`
and then shuts the socket down, in two steps. `do_GET` cancels the timer at once,
`do_POST` when the body has been read, `finish` in any case. The idle timeout of the
socket has the length of the timer, and the timer covers it.

**ResearchService** keeps the `RunState` objects apart from the registry that names one
of them per run: registering a run again, or its expiry, drops the object from the
registry, not from the threads that looked it up. Checks and counters of a request are
one step (the run's lock); the network operations are steps without a lock. `shown` and
`late` are histories per object.

**WorkerAgent** is the program in the virtual machine as functions from guest to guest,
one per exchange with the gateway: the budgets of calls, steps and drops, the call kept
for a rewrite, the condensed retry. **WorkerRun** composes it with `spawn_worker`,
`asg-fc-worker` and what the gateway grants; `RunScopes`' view of a run is one grant.
 - A fault is a lost answer, a refused revocation, a broken ssh connection, or a killed
   parent or script. `hurt` records which calls one touched; the properties say what holds
   for those too.
 - A connection may break at any moment of the parent's wait (`Sever`). ssh notices by its
   keepalive (`ServerAliveInterval`, `src/setup/firecracker-worker/spawn_worker.py:150`)
   and ends with nothing on its output, and the parent raises and revokes (`SshEnded`),
   while the script may still wait for the machine, or run it. Its report then reaches
   nobody.
 - A timer fires when it is due: `Tick` does not pass a deadline its owner waits for.
 - The lock of the machine is held by the script and by the machine it started, which
   inherits the open file.

**ResultDelivery** is the way of a result through the shim, the gateway and the collector
of receipts. It uses the critical section of RateLimiter (`INSTANCE`) for the gateway's
window, beside the shim's own window with another edge and another clock reading. `stamps`
are the times the slots hold, `posted` those at which the submissions were sent, which are
up to `Delay` later. An answer may be lost on either way while the callee goes on.

How the modules meet: a request that RequestPipeline lets through `VerifyAgent` and
`EnforcePolicy` is one that RunStore's checks and RunQuota's counter admit; each write of
an audit event is one `AuditLog` write; `Work` of Connections is the pipeline; the grant
of WorkerRun is the one of RunScopes; a guest's search or fetch is a request of
ResearchService. Each module states what the others may assume of it. Composed and
checked together are Guards with RequestPipeline and ArtifactStore, WorkerAgent with
WorkerRun, and RateLimiter with ResultDelivery. The others are checked apart, because the
state they share is what each reads of the other, and a reader's view is already a free
choice there.

## 3. Runs

`CHECK_DEADLOCK FALSE` stands where the bounds of the model stop it: clocks, budgets of
faults and of operators' actions and numbers of records run out, and in `research`,
`worker_run` and `result_delivery` every call may simply be over. `connections` has no
such bound and checks deadlock.

| Run | Question | Bounds, and why they are enough |
|---|---|---|
| `run_store` | do the newest record and the abstract store hold under concurrency? | 1 run, 2 threads, 2 records, clock 0..2, lifetimes 1 and 3: two records of one run, one expiring before the other, a collection between any two of their steps, and a thread that reads without the lock while the other writes; runs do not interact in any record, and the proof covers any number of them |
| `run_store_faults` | what brings a dead identity back if lines are torn and the configuration is edited? | 1 thread, 3 records, 1 torn append, two configurations |
| `run_store_separator` | do `gc-runs` and the readers agree on what a line is? (they do not) | as `run_store`, with reasons that hold a line separator |
| `artifacts` | is what is answered kept, and what is delivered approved? | 2 threads, 2 ids, a text, a summary and a picture declared as text, three policies (nothing found; a phrase that can be talked down beside an injection; a secret), retention 1 of clock 0..2, 2 faults: two identical submissions, one expired, the collector between any of their steps, a failed write and a kill |
| `quota` | how far is the quota exceeded, does the table keep its counts? | 3 threads, 3 runs, 2 table entries: the table overflows; quota 2 |
| `rate_limiter` | does the window hold, is retry-after enough? | 2 threads, 2 keys with different windows and allowances, 1 table entry, clock 0..7, 4 grants: several windows, overflow, every order of entering the lock |
| `audit_log` | do edits show, is damage local, do anchors stay? | 2 writers, 5 events, one of them with a line boundary in its text, 2 torn writes; copies of up to 3 lines with up to 1 forged hash, so that a line can stand before, between and behind two others |
| `pipeline` | trips, kill switch, guards, approvals, modes, audit | 2 threads, 2 agents, 6 shapes (a canary at the last place searched, a decoy, a text with more phrases than can be checked, an approval with a canary too deep, `/inspect`, an approval of its own), 2 answers, 3 snippet checks, a run in test mode or quarantined, 1 action of operator, parent or faults, clock 0..1: a trip of one request beside any step of another, with a release, a restart, a new canary, another mode or a torn append between any two steps |
| `connections` | permits, deadline, termination | 3 clients, 2 permits: a refusal while two are served |
| `research` | do replaced states leak, how far are the quotas exceeded, does every request end? | 2 threads, 1 run registered twice, an ordinary URL, one on another host and a refused one, limits of 1 host, 3 fetches, 1 search, pages of the byte limit, 1 redirect, clock 0..1 with a lifetime of 0: both threads hold a state that is then replaced or expires, and pass the byte limit together; with more fetches than threads, a run whose bytes nobody looked at would exceed the bound |
| `worker_run` | does an ended call leave anything alive, do trips end the run, do the timeouts nest? | 2 calls for one machine, a reader with 3 model calls and a researcher with 2, lifetime 4, ssh 3, lock 1, machine 1, clock 0..4, 1 fault: one call waits for the other's machine in vain or boots after it, each fault at each step, and a call may find the machine held by one whose parent has given up |
| `result_delivery` | is the pace kept, is a result stored once, is none turned away? | 2 results, both windows 1 in 4 seconds, 1 retry, back-off 3, delay 1 (so that stretches of two and three seconds are told from the window), clock 0..11: as many results as attempts, the back-off longer than twice the delay, as the theorem about `Admitted` asks; the second result waits in the shim and is told to come back by the gateway |

What the passing runs show, property by property:

 - `run_store`: `NewestRecordDecides`, `NoRevival`, `AdmittedByNewest` and
   `ImplementsRunScopes` hold; `StoreInv` is the inductive invariant of the proof.
   `run_store_faults`: a dead identity comes back only by a registration of its token, a
   restart onto another configuration, or by losing a newest record whose registration
   was answered with an error (`NoRevivalWhileRunning`).
 - `artifacts`: downloads and reviews use whole bytes that pass today's policy, whatever
   the small model said of a phrase (`DeliversWhatPassed`); answered manifests stay for
   their retention (`AcknowledgedRemains`), and so do their blobs unless they were stored
   while the collector ran (`BlobKept`); a completed collection leaves no dangling
   entries (`CompletedRunCleans`), except those of a manifest that a killed collection
   had just deleted, which no later collection finds.
 - `quota`: a counter exceeds the quota by less than the number of threads
   (`OvershootBounded`); it equals the calls forwarded, unless the run was dropped
   (`CountsEveryCall`).
 - `rate_limiter`: no window of a key has more grants than allowed (`WindowBound`), a
   caller who waits as long as it was told is admitted (`RetryAfterSuffices`), the table
   keeps its limit (`TypeOK`).
 - `audit_log`: what a verifier accepts of an intact log begins with events of the log,
   none edited, left out or moved, and goes on with nothing but forged lines; what
   matches an anchor is the log up to that anchor (`DetectsEdits`); a torn write costs
   two reported lines at most, and the incident bundle vouches for what precedes the
   first damage or separator (`DamageIsLocal`); an anchor stays good unless a crash took
   only a newline (`AnchorsStay`).
 - `pipeline`: an agent whose trip was answered is out, whatever of its requests were
   under way with their bodies unread (`TripBars`); a raised kill switch lets each
   request under way call the backend at most once more (`DrainBounded`); a canary that
   was registered in time and lies within what is searched is stopped (`CanaryStopped`);
   what the guards must hold passes only in its mode and after its audit event, whatever
   the models said (`BypassAudited`); an answer given to a caller has nothing that no
   step may drop (`AnswersClean`); approvals come from another agent and are in force
   (`DangerousApproved`); answers and warnings agree with the log and with the backend
   (`AuditMatchesBackend`).
 - `connections`: no permit is lost or given back twice (`PermitsMatch`); a timer that
   was cancelled in time does nothing to the connection (`ReadInTimeIsAnswered`: one that
   fires between the end of the read and its cancellation still takes the answer); every
   connection ends, under fairness (`ConnectionsEnd`).
 - `research`: no request leaves for a host that this registration of the run was not
   led to, and no chain of redirects ends at a refused URL (`Provenance`); concurrent
   fetches pass the byte limit by less than a page for each thread (`ByteOvershoot`); a
   state that was dropped serves at most one more request per thread
   (`DrainsAfterDrop`); every request ends (`RequestsEnd`).
 - `worker_run`: a call that ended leaves no live identity, unless a fault touched it (an
   answer lost, the connection broken, the revocation refused, a process killed), and a
   report that says "revoked" is right even then (`EndedIsDead`); a tripped run returns no
   answer and says why (`TripEndsTheRun`); while a script runs its machine, the identity of the guest has not
   expired, and if no fault touched the call the parent waits for it and the identity is
   in force (`TimeoutsNest`); a withheld reply costs the answer only if the call kept for
   a rewrite was spent or never fitted (`RewriteReserved`); every call ends, also beside
   a hung guest (`CallsEnd`).
 - `result_delivery`: submissions keep the shim's cap in every stretch of time that is
   shorter than the window by the delay, if its threads take the lock in the order of
   their clocks, and by twice the delay in any case (`Paced`; with a pace of one nothing
   is reordered in this run, so the second part rests on the proof); sending again stores
   nothing twice, an accepted result is stored and one turned away is not (`StoredOnce`);
   a shim at the gateway's pace is never turned away for good (`Admitted`); every result
   gets an answer (`ResultsEnd`).

Fairness is weak fairness everywhere, and only of what the operating system schedules or
a timeout ends:
 - Connections: the listener, each handler thread and each timer, per connection. A
   `threading.Timer` fires, and a handler's work ends because every backend call has a
   timeout; clients may stall for ever.
 - ResearchService: `Serve` of each thread. Every network operation has a timeout and
   every page a maximal size; nobody has to call or register.
 - WorkerRun: the parent's and the script's steps of each call, and time. Nothing is
   assumed of a guest, which may hang: the script's own time limit ends it.
 - ResultDelivery: the threads of the three programs, per request, and time. Timeouts of
   the shim and of the gateway may happen and need not.

All other properties are safety properties of specifications without fairness.

## 4. Proofs

TLAPS proves the following for every value of the constants, that is, any number of
runs, threads, tokens, writers, records, calls, and any bounds and findings. Every safety
invariant and every action property that a run expects to hold is among them. Of the
liveness properties, which stay with TLC, the halves that are safety are proved: that
nobody waits without an end (`...GoOn`, `CallsProceed`), and that each step brings the end
nearer (the measures).

| Module | Theorem | Statement |
|---|---|---|
| RunStoreProofs | `TypeCorrect` | types, under the assumption on the constants alone |
| | `NewestRecordAlwaysDecides`, `NothingRevives`, `OnlyNewestAdmits` | `NewestRecordDecides`, `NoRevival`, `AdmittedByNewest`, if `StableConfig` and `NoFaults` |
| | `StoreImplementsScopes` | `ImplementsRunScopes` under the same assumptions |
| | `NothingRevivesWhileRunning` | `NoRevivalWhileRunning`, whatever is edited or torn, if no reason holds a line separator |
| GuardProofs | `TextsThatPass`, `QuarantinedTexts` | what a text that the input guard lets through, or a quarantined read takes, cannot hold, whatever the models say |
| | `AnswersThatPass`, `ContentsThatPass` | the same of answers, and of contents found clean or warnable |
| RequestPipelineProofs | `TypeCorrect`, `TripsBar`, `CanariesAreStopped`, `DangerousAreApproved`, `DrainIsBounded`, `AuditTellsWhatHappened` | types, `TripBars`, `CanaryStopped`, `DangerousApproved`, `DrainBounded`, `AuditMatchesBackend` |
| | `BypassesAreAudited`, `AnswersAreClean` | `BypassAudited`, `AnswersClean` |
| ArtifactStoreProofs | `TypeCorrect`, `AnswersRemain`, `BlobsRemain`, `CompletedRunsClean`, `DeliveriesPassed` | types, `AcknowledgedRemains`, `BlobKept`, `CompletedRunCleans`, `DeliversWhatPassed` |
| LimitsProofs | `QuotaTypes`, `QuotaOvershoot`, `QuotaCounts`, `TableFits` | RunQuota: types, `OvershootBounded`, `CountsEveryCall`, the bound of the table |
| | `LimiterTypes`, `WindowAlwaysBounded`, `RetryAfterAlwaysSuffices` | RateLimiter: `TypeOK` with the bound of the table, `WindowBound`, `RetryAfterSuffices` |
| | `ServerTypes`, `PermitsAlwaysMatch`, `InTimeAlwaysAnswered` | Connections: types, `PermitsMatch`, `ReadInTimeIsAnswered` |
| | `ConnectionsGoOn` | Connections: none waits for its client alone; each step of the server lowers a count the client cannot raise |
| EvidenceProofs | `LogTypes`, `ChainAlwaysLinked`, `AnchorsAlwaysStay` | AuditLog: types, the chain, `AnchorsStay` (torn writes included) |
| | `EditsAlwaysDetected`, `DamageAlwaysLocal` | `DetectsEdits`, `DamageIsLocal` |
| | `AlwaysStoredOnce`, `AlwaysPaced` | ResultDelivery: `StoredOnce`, `Paced` |
| | `RefusedOnlyIfOvertaken`, `AlwaysAdmitted` | ResultDelivery, under `FittingSettings`: a result is sent again only as often as others were let in meanwhile; `Admitted`, if there are no more results than attempts |
| | `ResultsGoOn` | ResultDelivery, under `FittingSettings`: a result waits for its own thread, or for a time that is not far |
| ResearchServiceProofs | `TypeCorrect`, `RunsAreLed`, `BytesAreBounded`, `DroppedStatesDrain` | types, `Provenance`, `ByteOvershoot`, `DrainsAfterDrop` |
| | `RequestsAreShort` | a request can always go on, and ends within `MaxRedirects + 3` steps |
| WorkerRunProofs | `TypeCorrect`, `EndedCallsAreDead`, `TripsEndTheirRun`, `TheTimeoutsNest`, `RewritesAreReserved` | types, `EndedIsDead`, `TripEndsTheRun`, `TimeoutsNest`, `RewriteReserved` |
| | `MachinesAreAlone` | `OneMachine`: one virtual machine at a time, whichever scripts are killed |
| | `OnlyParentsRegister`, `WorkersUseScopes` | only registration and revocation change what the gateway holds for a run; WorkerRun implements RunScopes |
| | `GuestLoopsEnd`, `CallsGoForward`, `CallsProceed` | counts that each step of a guest, and of a call, lowers; somebody can go on, or time can, until all calls are over |

`StableConfig` (one configuration) and `NoFaults` (no torn append, no separator in a
reason) are not conveniences: without them the store breaks these very promises, as
section 5 and the exceptions of `NoRevivalWhileRunning` show. The other assumptions are
the ASSUMEs of the modules: kinds and signs of constants; that what a scan finds is a
finite set (the scanners return lists), without which a risk score is not defined; and
`TimesAssumption` of WorkerRun, that the lock's wait and the machine's time fit into the
ssh timeout and that into the lifetime of the registration: at most 400 and 2520 seconds
(`asg-fc-worker` caps what a task may ask for), 3300 and 3900. An operator who sets
`ASG_FC_TIMEOUT` higher leaves it.

`FittingSettings` (finitely many results; a pace that the gateway allows; each back-off a
number and longer than twice the delay) is the hypothesis of what is said of turned-away
results. The defaults fit: 20 a minute at the shim (`src/scripts/openai_asg_shim.py:31`),
20 at the gateway, a first back-off of a second where the way takes milliseconds. With
them `AlwaysAdmitted` speaks of up to six results. The back-off is what the argument
needs: without it a result may come back while the window that turned it away still
stands. It suffices and is not shown to be necessary: in instances as small as the run's
TLC finds no result given up with shorter back-offs either. That `Sleep(n)` is a number
has to be said because it holds a power of two.

The arguments:

 - **StoreInv.** `NewestRecordDecides` is not inductive: `gc-runs` replaces the file by
   lines chosen earlier. The invariant adds that both the file and the lines the
   collector is about to keep hold, of each run, the newest stored record or, if it has
   expired, nothing (`Holds`); that what is kept of a run is a suffix of what was
   stored (`Suffix`), so that no older record outlives a newer one; that positions are
   unique and below `end`; and that drafts will be valid when they are appended. The
   clock of the collector is not ahead, so what it drops has expired.
   `NoRevivalWhileRunning` needs less, and no `Holds`, which fails with faults: `GcInv`,
   that `gc-runs` keeps all readable lines of a run or none (`KeptWhole`).
   The refinement maps a run's grant to its newest record in the file; appends map to
   `Register`, the replacement to `Forget` and everything else to a tick or a stutter.
 - **ArtifactStore.** `Drawn` and `IdsOnce`: an id belongs to one manifest or to one
   thread that is storing it. `Tracked` (per thread) and `ListedExpired`: what a handler
   is about to answer for has a manifest of the collector's future, and what the
   collector has listed had expired when it listed it; a handler does not outlive a
   retention period, so the two do not meet. `EntriesInv` says where entries without a
   manifest come from. `Held` and `Spared`: a blob of an unexpired manifest is in the
   collector's set of references, or it was stored after the listing (`BlobKept` names
   that exception). `ReadInv`: a thread that delivers, or shows a text to the review
   backend, holds the bytes its manifest names and a result that a scan under the policy
   in force may have; threads do not survive the restart that changes the policy, and
   `ContentsThatPass` says what such a result excludes.
 - **Guards.** A risk score is the sum of the severities over a set of findings, by a fold
   over its elements in an order nobody knows. That a larger set weighs no less is proved
   without an induction theorem: were it false, or the fold's recursion not well defined,
   there would be a smallest set for which it is (`MinimalSet`, from the well-foundedness
   of inclusion between finite sets), and taking one element from that set gives a
   smaller one. The rest is a chain of lemmas, one per step of the guards (`Snippets`,
   `InboundKeeps`, `WithoutKeeps`, `RelaxedKeeps`): what a step may drop or lower
   (`MayLower`, with the budget of checks), and that everything else is still there when
   the findings are judged again.
 - **OvershootInv.** A counter plus the requests between check and count stays below
   quota plus threads: a thread joins that set only while its run is below the quota.
   Each action moves at most one thread in or out of it, so three lemmas on cardinalities
   carry the step.
 - **RateLimiter.** Entries are read from the clock before the lock, so nothing orders
   them but `reordered`. `OrderInv`, while it is FALSE: the grants of a key are in order,
   the list in the table is the end of them, and each grant still within the window is in
   the list; a window that begins at a grant is then part of the list its last grant was
   admitted with. `RetryInv`: of a key that denied a caller, one entry will have left the
   window by the time that caller was told.
 - **ChainInv.** Only the holder of the lock has read a hash that it has not used, so the
   hash is still the last one, and only its own line may follow the last newline.
   **AnchorInv** relates each anchor to the prefix it was taken at: the log only grows
   and a tail that was visible becomes the line it was, unless its newline was lost.
   `HashInv`: hashes grow along an untorn log, so an event has one place in it. A line
   that a verifier accepts is sealed and names the one before it; as long as these are
   events of the log, the copy is its beginning, and behind a forged line no event can
   follow, since none names a forged hash. A copy that matches an anchor ends in a hash
   of the log, which no forged line has, so it holds no forged line and ends with that
   event. `DamageInv`: the lines a verifier reports, and those it will still report for
   what is torn now (`Pending`: the line that gets glued, and the one that finds no last
   hash), are at most two for each torn write; `WriterInv` says what a writer in the lock
   has read and written, however many lines were torn.
 - **ResultDelivery.** `StoreInv` is per request: which steps of shim, gateway and
   collector go together; only an attempt that was not admitted is made again. `PaceInv`:
   slots in a window, counted with those taken and not used yet (`Due`), are at most the
   pace, and those of a window that is not over are all in the list (`Listed`).
   `OnClock`: a submission is sent after the time its slot holds, by the delay at most,
   so those sent in a stretch have their slots in one that begins earlier by the delay
   (`SentSlots`). Who is turned away: `BurstInv` bounds the slots of a stretch that is
   shorter than the window by the delay, whatever the order in which they were taken,
   since no clock is older than the delay (`ClockInv`). `ReachedInv`: the results the
   gateway knows of and that are recent were sent, at most the delay before, and what its
   limiter lists was let in. So it has no room only if that many others were let in; and
   one that was turned away as often as others were let in finds room when it comes back
   (`TurnedInv`, which needs the back-off). Its attempts are then at most the number of
   the others, and with no more results than attempts there are not enough of these.
   `Admitted` by itself says nothing of earlier attempts or of the lists, so it is not
   inductive. `WaitInv`: all times in the window and all wake-up times are near the
   clock.
 - **RequestPipeline.** `CourseInv` says for each step of a request what it has done and
   what its log holds by then, which gives `AuditMatchesBackend`. `BarInv`: an agent that
   is condemned is revoked in the file, by a line that has its newline, or its record was
   glued, and a request whose body was complete after that is in front of `VerifyAgain`.
   `CanaryInv`: a thread's cached or looked-up registry is as new as what it knew, up to
   the resolution of the time stamp. `ApprovalInv`: approvals are never lost, so one seen
   by the action guard is still there. `DrainInv`: calls since the switch was raised plus
   requests that may still call do not exceed the threads; nobody passes
   `CheckKillSwitch` to join them meanwhile. `VettedInv` says what the guards have
   decided of a request, step by step (which verdict it carries, in which mode it passed,
   what the log holds by then), from which GuardProofs gives `BypassAudited` and
   `AnswersClean`; in the other proofs their decision is any verdict.
 - **DeadlineInv** (Connections). The flag and the shut socket come from a timer that
   fired; a timer that is still armed while the request is read has set neither, and once
   cancelled it cannot fire. `PermitsMatch` is inductive with the ranges of the other
   variables, and gives the semaphore its upper bound.
 - **ResearchService.** `LedInv`: the eligible URLs of a state and the position of a fetch
   are on hosts that were shown. `ByteInv`: the bytes of a state plus a page for each of
   its fetches stays below limit plus a page per thread, as a fetch starts only below the
   limit. `LateInv`: requests accepted late plus those still looked up do not exceed the
   threads once the registry let go, and it never takes a state back (`NoReturn`).
 - **WorkerRun.** `Guests` bounds each guest's budgets (`Careful` keeps the reserve).
   `CourseInv` is per call: `Placed` (which steps of parent, script and guest go
   together), `Timed` (deadlines are ordered as the timeouts are), `Condemning` (a trip
   is on its way to the report), `Granting` (who may hold a live grant), and `Occupies`
   across calls. A frame lemma per process says that the other calls are untouched. The
   refinement takes calls for runs; a run holds the last record its parent wrote, and
   nothing before the first (`Registry`). `HeldInv`: a run under way is registered, so
   nothing else touches its record. The registration, with or without its answer, and the
   revocation map to `Register`, time to time, and everything else to a stutter.
   `Patience` of a guest is three for each model call left, one for each drop left, and
   its place in a turn; `Ahead` of a call is the stages its parent and its script have
   left. `OnTimeInv`: what anybody waits for comes before the last moment of a
   registration's life.
 - **StepsLeft** (Connections, ResearchService) counts the phases of a connection and of
   its timer, and the redirects and phases of a request.

Only model-checked: liveness (`ConnectionsEnd`, `RequestsEnd`, `CallsEnd`, `ResultsEnd`).
That a measure decreases and that a step is possible is proved, as said above, but that
fairness then takes the step needs ENABLED, which is out of the prover's reach.

Induction theorems that take a predicate cannot be used with the installed provers. Where
a proof needs induction it goes by a least counterexample (`Least` in LimitsProofs, for
numbers, and `MinimalSet`, for finite sets). `Recent` of RateLimiter lists its entries by
their indices, because `SelectSeq` cannot be expanded in a proof, and the wake-up times of
ResultDelivery have the type `Moments`, because the provers do not know that a power of
two is a number. No module declares a RECURSIVE operator.

## 5. Where the code and the documents disagree

One disagreement has a run that must fail, `run_store_separator`: according to
`src/gateway.py:1861-1863` `gc-runs` keeps records of valid runs and keeps lines that do
not parse. It splits at Unicode line boundaries which readers do not split at, and
rewrites a live record as two damaged lines; an older registration decides again.

The others are described here; the models have the behaviour, and each property names
what it must except for it.

 - Run store. The docstring at `src/gateway.py:1859-1860` says that registering a run
   again makes the identity dead. `append_jsonl_record` (`src/gateway.py:1757`) does not
   look at the end of the file: after a partial write, the next record is glued to the
   torn line and never read. With `MaxTears = 1`, `NewestRecordDecides` fails.
 - Artifacts. `src/README.md:352-353`: a blob goes only when no remaining manifest
   references its bytes; references are listed once, and a submission stored after the
   listing loses its blob (the exception of `BlobKept`). `src/README.md:319-321`: a
   submission stores immutable content-addressed bytes; after a write that stopped half
   way the file keeps its final name, and later submissions of the same bytes are
   answered as stored. `src/README.md:351-352`: the entries of the one manifest that a
   killed `gc-artifacts` had deleted remain for ever (`orphans`).
 - Quota. `src/gateway.py:1681-1682`, "a hard cap per run_id": check and count are two
   critical sections; the cap is exceeded by up to the other handler threads.
 - Rate limiter. `src/proxy.py:361`: see RateLimiter above.
 - Connections. The timer of a request is cancelled after the request was read
   (`src/gateway.py:5125`): one that fires in between takes the answer of a request that
   was read in time.
 - Canaries. `src/README.md:963-964`: candidate tokens are extracted from all strings. The
   search stops at a depth of 24, 5000 strings and 20000 candidates
   (`src/canary.py:123`, `:129`); what comes after that is not looked at and is forwarded.
 - Audit log. The verifier of the incident bundle (`src/scripts/asgctl_ops.py:434`) splits
   with `splitlines` while events are written with `ensure_ascii=False`: U+2028 or U+0085
   in an audited text makes the bundle report a broken chain that `verify-audit` accepts.
   The hashes have no key: an end of the log that was cut off, or written anew with hashes
   to match, is accepted, so not every edit shows (`Continues` in `DetectsEdits`). An
   anchor shows it, but is compared with the end of the log (`src/gateway.py:5296`), and
   so matches only until the next event.
 - Warnings. `src/gateway.py:4031-4032` calls the warning of a run mandatory;
   `record_run_warning` is best effort, and its failure is not noticed.
 - Guards. A failure of the LLM inspector that counts (`fail_closed`, severity 9) counts
   as a finding about injection, so a quarantined read may take such a text. Once the
   snippet check has lowered a finding of an answer, the answer is judged by the
   thresholds of texts. A quarantined read does not look at the expiry of the record.
 - Shim and gateway. `src/README.md:913-914` speaks of `Retry-After`; the gateway's 429
   names the time in its text only, so the shim always backs off by itself, up to 31
   seconds in all by default, less than the window. The cap at
   `src/scripts/openai_asg_shim.py:280` ("at or below the configured per-minute cap") can
   be exceeded in a full window in two ways. A slot holds the time read before the lock
   (`:284-290`) and its submission is sent later (`:383`): with a cap of 1 in 4 seconds,
   a slot of second 0 that is sent in second 1 and a slot of second 4 that is sent at
   once are two submissions within three seconds. And threads may take the lock in
   another order than they read the clock, which costs the delay a second time. `Paced`
   states what is left of the cap in either case.
 - Collector. Records beyond the buffer of one write may interleave with those of another
   thread (`src/scripts/result_receipt_collector.py:134`); the model has whole records.
 - Worker. The comment at `src/setup/firecracker-worker/spawn_worker.py:6` says a
   lifetime of 2700 seconds, the code 3900 (line 85). The registration stands before the
   `try` block: if its answer is lost, nothing revokes what it stored. If the revocation
   gets no answer at all, the exception replaces the result; if the body raised, a failed
   revocation is not reported. A machine whose script was killed keeps the lock until it
   exits by itself. When the ssh connection breaks while a machine runs, the parent
   reports bad output of the orchestrator and revokes, and nothing stops the script: its
   machine goes on without an identity until the script's time limit and keeps the lock,
   for which the next call waits (the exception of `TimeoutsNest`).
 - Research service. Hosts reached by redirects are not counted in the quota of hosts,
   nor are bytes of answers that redirect or have another content type
   (`src/docs/runbooks/research-service.md:32`: per-run quotas).

## 6. Not modelled

 - Patterns, the normalisation of texts and the characters of a snippet window: functions
   of one text. What they find is an input of Guards.
 - Configuration loading and validation: one JSON document. `/routes` and the health
   checks read it and change nothing.
 - Run warnings other than that of the input guard, their copies in manifests, and the
   evidence files of test mode, which nothing reads back.
 - The flat layout of artifacts of earlier versions.
 - The release, by an operator, of an identity that a run registered.
 - The MCP server: it translates calls and keeps no state. A lost answer ends its loop.
 - The disposable search agent, an example: a runner that claims each task once in a
   database. A crash after the claim leaves it without a response.
 - The rest of the operator tools, installation scripts and smoke tests: I/O, one at a
   time, without state of their own.
 - Signatures, address checks of hosts, TLS: pure checks, present as "it may refuse".

## 7. Plan

Done, in this order: RunStore over RunScopes and its proofs, ArtifactStore, RunQuota and
its proofs, RateLimiter, AuditLog and its proofs, RequestPipeline, Connections and its
proofs; then Guards and Inspection, ResearchService, WorkerAgent and WorkerRun,
ResultDelivery, and the proofs of ArtifactStore, RequestPipeline, ResearchService and
WorkerRun; then the proofs of RateLimiter and ResultDelivery, of the verifiers of the
audit log, and of the guards with the properties of RequestPipeline and ArtifactStore
that rest on them; then `Admitted` for all settings that fit together, WorkerRun over
RunScopes, and the safety halves of the liveness properties.

What is left, by what a failure would cost:

 1. An abstract specification of the whole gate, "a call reaches the backend only for an
    identity in force", with RunStore's `EnforceRunScope` and RequestPipeline composed
    under it.
 2. The release of run identities: RunStore with the revocation file.
 3. The disposable search agent: a task claimed once, and lost with a crash.
