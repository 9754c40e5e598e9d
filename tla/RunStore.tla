------------------------------ MODULE RunStore ------------------------------
(***************************************************************************)
(* The run store of the gateway (gateway.py): an append-only JSONL file of *)
(* run registrations.  The parent registers a run scope, optionally with   *)
(* the hash of a per-run worker token; a later record of the same run_id   *)
(* replaces the earlier one ("latest record wins"), and revoking a run is  *)
(* one more record, without run_agents and with a one-second TTL.          *)
(*                                                                         *)
(* Three kinds of actor meet at the file:                                  *)
(*   - gateway threads that append a registration under the lock;          *)
(*   - gateway threads that serve a request and read the file WITHOUT the  *)
(*     lock: once before the body is read, once after it, and once more    *)
(*     for the run scope;                                                  *)
(*   - the `gc-runs` command, another process, that rewrites the file.     *)
(*                                                                         *)
(* The file is a set of lines; pos is a line's place in the file and       *)
(* positions only grow.  A line that no longer parses has whole FALSE: it  *)
(* was glued to what a partial write left at the end of the file, or cut   *)
(* at a line separator that only gc-runs splits lines at (plain FALSE).    *)
(***************************************************************************)
EXTENDS Naturals

CONSTANTS
  Runs,               \* run identifiers
  Tokens,             \* per-run worker tokens (known to the gateway by hash)
  NoToken,            \* a registration without run_agents
  Routes,             \* every route some configuration defines
  Roles,              \* principals: the static agents and the template
  Template,           \* the run_scoped agent that run_agents names
  Scopes,             \* [allow, deny, callers] a registration may ask for
  StaticRuns,         \* cfg.runs: a function from run ids to policies
  Configs,            \* route sets the operator's configuration may define
  Ttls,               \* TTLs a registration may ask for
  Plain,              \* {TRUE}, or BOOLEAN if a reason may hold U+2028 or U+0085
  Threads,            \* handler threads of the gateway process
  RequireKnownRunId,  \* cfg.require_known_run_id
  MaxClock, MaxRecords, MaxTears   \* bounds of the model

Scope == [allow: SUBSET Routes, deny: SUBSET Routes, callers: SUBSET Roles]

ASSUME ConstantsAssumption ==
  /\ NoToken \notin Tokens
  /\ Template \in Roles
  /\ Scopes \subseteq Scope
  /\ DOMAIN StaticRuns \subseteq Runs
  /\ \A s \in DOMAIN StaticRuns : StaticRuns[s] \in [scope: Scope, exp: Nat]
  /\ Configs \subseteq SUBSET Routes
  /\ Ttls \subseteq Nat \ {0}
  /\ Plain \subseteq BOOLEAN
  /\ RequireKnownRunId \in BOOLEAN
  /\ MaxClock \in Nat /\ MaxRecords \in Nat /\ MaxTears \in Nat

VARIABLES
  file,    \* the lines of runs.jsonl
  torn,    \* what of a line the file ends in: "none", "part", or "record"
           \* if nothing but the newline of its last line is missing
  tears,   \* how many partial appends happened (bounds the model)
  end,     \* the position the next line takes
  stored,  \* history: every record append_jsonl_record returned for, and
           \* every record readers found although it lacked its newline
  cfg,     \* the routes of the configuration the gateway process loaded
  disk,    \* the routes of the configuration file (read by gc-runs, restart)
  clock,   \* wall clock, in seconds
  job,     \* what each gateway thread is doing
  gc       \* the gc-runs process

vars == <<file, torn, tears, end, stored, cfg, disk, clock, job, gc>>

fileVars == <<file, torn, tears, end, stored>>
envVars  == <<cfg, disk, clock>>

-----------------------------------------------------------------------------
(* Records and how they are read *)

Record == [pos: Nat, run: Runs, token: Tokens \cup {NoToken}, scope: Scope,
           exp: Nat, plain: BOOLEAN, whole: BOOLEAN]

\* A line that parses and whose routes are all defined in configuration c.
Valid(c, r) ==
  /\ r.whole
  /\ r.scope.allow # {}
  /\ r.scope.allow \subseteq c
  /\ r.scope.deny \subseteq c

\* The latest valid record of a run: a set of at most one record.
Latest(c, lines, run) ==
  {r \in lines : /\ Valid(c, r)
                 /\ r.run = run
                 /\ \A q \in lines : Valid(c, q) /\ q.run = run => q.pos <= r.pos}

Expired(r, now) == r.exp < now

\* The policy that applies to a run: static configuration first.
Resolve(c, lines, run) ==
  IF run \in DOMAIN StaticRuns THEN {StaticRuns[run]} ELSE Latest(c, lines, run)

ScopeAllows(scope, role, route) ==
  /\ route \notin scope.deny
  /\ scope.allow # {} => route \in scope.allow
  /\ scope.callers # {} => role \in scope.callers

\* A run-scoped token is valid: the run's latest record names it, unexpired.
TokenValid(c, lines, run, token, now) ==
  \E r \in Latest(c, lines, run) : r.token = token /\ ~Expired(r, now)

\* Bug: a run nobody registered is let through whatever the configuration.
ScopeAdmitsUnknown(c, lines, run, role, route, now) ==
  LET policy == Resolve(c, lines, run)
  IN  \A p \in policy : ~Expired(p, now) /\ ScopeAllows(p.scope, role, route)

\* The run scope lets role call route.
ScopeAdmits(c, lines, run, role, route, now) ==
  LET policy == Resolve(c, lines, run)
  IN  \/ policy = {} /\ ~RequireKnownRunId
      \/ \E p \in policy : ~Expired(p, now) /\ ScopeAllows(p.scope, role, route)

\* What gc-runs parses: it splits the text with splitlines, the readers only
\* at newlines.
Parsed(lines) == {IF r.plain THEN r ELSE [r EXCEPT !.whole = FALSE] : r \in lines}

\* Bug: gc-runs prunes each expired record by itself.
GcKeepUnexpired(c, lines, now) ==
  {r \in Parsed(lines) : ~(Valid(c, r) /\ Expired(r, now))}

\* Bug: gc-runs treats a record as expired in its last second.
GcKeepEarly(c, lines, now) ==
  LET dead == {run \in Runs : \E r \in Latest(c, Parsed(lines), run) : r.exp <= now}
  IN  {r \in Parsed(lines) : ~(r.whole /\ r.run \in dead)}

\* What gc-runs keeps: all but the records of a run whose latest is expired.
GcKeep(c, lines, now) ==
  LET dead == {run \in Runs : \E r \in Latest(c, Parsed(lines), run) : Expired(r, now)}
  IN  {r \in Parsed(lines) : ~(r.whole /\ r.run \in dead)}

-----------------------------------------------------------------------------
(* Jobs of the gateway threads and of gc-runs *)

Idle == [step |-> "idle"]

Request == [step: {"verify", "body", "scope", "forward"}, run: Runs,
            role: Roles, token: Tokens \cup {NoToken}, route: Routes]

Registration == [step: {"append"}, run: Runs, token: Tokens \cup {NoToken},
                 scope: Scope, exp: Nat, plain: BOOLEAN]

Job == {Idle} \cup Request \cup Registration

GcIdle == [step |-> "idle"]

GcJob == {GcIdle} \cup [step: {"wait"}, now: Nat]
         \cup [step: {"replace"}, now: Nat, keep: SUBSET Record]

\* The advisory lock of the store is held by gc-runs.
LockedByGc == gc.step = "replace"

TypeOK ==
  /\ file \subseteq Record
  /\ torn \in {"none", "part", "record"}
  /\ tears \in Nat
  /\ end \in Nat
  /\ stored \subseteq Record
  /\ cfg \in Configs
  /\ disk \in Configs
  /\ clock \in Nat
  /\ job \in [Threads -> Job]
  /\ gc \in GcJob

Init ==
  /\ file = {}
  /\ torn = "none"
  /\ tears = 0
  /\ end = 0
  /\ stored = {}
  /\ cfg \in Configs
  /\ disk = cfg
  /\ clock = 0
  /\ job = [t \in Threads |-> Idle]
  /\ gc = GcIdle

-----------------------------------------------------------------------------
(* Registration: handle_run_register *)

\* run_agents must name a run_scoped agent that is also an allowed caller.
RunAgentsAccepted(token, scope) == token # NoToken => Template \in scope.callers

ExpiresAt(now, ttl) == now + ttl

\* The record is built, with its expiry, before the store is locked.
BuildRegistration(t) ==
  /\ job[t] = Idle
  /\ \E run \in Runs, token \in Tokens \cup {NoToken}, scope \in Scopes,
        ttl \in Ttls, plain \in Plain :
       /\ scope.allow # {}
       /\ scope.allow \subseteq cfg
       /\ scope.deny \subseteq cfg
       /\ RunAgentsAccepted(token, scope)
       /\ job' = [job EXCEPT ![t] = [step |-> "append", run |-> run, token |-> token,
                                     scope |-> scope, exp |-> ExpiresAt(clock, ttl),
                                     plain |-> plain]]
  /\ UNCHANGED <<fileVars, envVars, gc>>

Line(j, p, whole) == [pos |-> p, run |-> j.run, token |-> j.token,
                      scope |-> j.scope, exp |-> j.exp, plain |-> j.plain,
                      whole |-> whole]

\* The line appended next, and what becomes of the lines before it: a record
\* without its newline is glued to it as well.
NextLine(j) == Line(j, end, torn = "none")

Glued(lines) ==
  IF torn = "record"
    THEN {IF r.pos = end - 1 THEN [r EXCEPT !.whole = FALSE] ELSE r : r \in lines}
    ELSE lines

\* Bug: the record is appended without taking the store's lock.
AppendUnlocked(t) ==
  /\ job[t].step = "append"
  /\ end < MaxRecords
  /\ file' = Glued(file) \cup {NextLine(job[t])}
  /\ stored' = stored \cup {NextLine(job[t])}
  /\ torn' = "none"
  /\ end' = end + 1
  /\ job' = [job EXCEPT ![t] = Idle]
  /\ UNCHANGED <<tears, envVars, gc>>

\* append_jsonl_record: written and fsynced while the lock is held.
AppendRecord(t) ==
  /\ job[t].step = "append"
  /\ ~LockedByGc
  /\ end < MaxRecords
  /\ file' = Glued(file) \cup {NextLine(job[t])}
  /\ stored' = stored \cup {NextLine(job[t])}
  /\ torn' = "none"
  /\ end' = end + 1
  /\ job' = [job EXCEPT ![t] = Idle]
  /\ UNCHANGED <<tears, envVars, gc>>

\* The write stops half way (disk full, process killed): the caller gets an
\* error and nothing is reported as stored.
TearAppend(t) ==
  /\ job[t].step = "append"
  /\ ~LockedByGc
  /\ tears < MaxTears
  /\ file' = Glued(file)
  /\ torn' = "part"
  /\ tears' = tears + 1
  /\ job' = [job EXCEPT ![t] = Idle]
  /\ UNCHANGED <<end, stored, envVars, gc>>

\* The same, with nothing but the newline missing: readers find the record.
TearNewline(t) ==
  /\ job[t].step = "append"
  /\ ~LockedByGc
  /\ tears < MaxTears /\ end < MaxRecords
  /\ file' = Glued(file) \cup {NextLine(job[t])}
  /\ torn' = IF torn = "none" THEN "record" ELSE "part"
  /\ stored' = IF torn = "none" THEN stored \cup {NextLine(job[t])} ELSE stored
  /\ tears' = tears + 1
  /\ end' = end + 1
  /\ job' = [job EXCEPT ![t] = Idle]
  /\ UNCHANGED <<envVars, gc>>

-----------------------------------------------------------------------------
(* Requests: handle_routed_request up to the run scope check *)

\* A worker presents a run-scoped token, or a static agent names a run.
BeginRequest(t) ==
  /\ job[t] = Idle
  /\ \E run \in Runs, role \in Roles, token \in Tokens \cup {NoToken}, route \in cfg :
       /\ role = Template <=> token # NoToken
       /\ job' = [job EXCEPT ![t] = [step |-> "verify", run |-> run, role |-> role,
                                     token |-> token, route |-> route]]
  /\ UNCHANGED <<fileVars, envVars, gc>>

IdentityValid(j) ==
  j.token # NoToken => TokenValid(cfg, file, j.run, j.token, clock)

\* verify_agent before the body is read, and again after it.
VerifyAgent(t) ==
  /\ job[t].step \in {"verify", "body"}
  /\ LET next == IF job[t].step = "verify" THEN "body" ELSE "scope"
     IN  job' = [job EXCEPT ![t] =
                   IF IdentityValid(job[t]) THEN [job[t] EXCEPT !.step = next] ELSE Idle]
  /\ UNCHANGED <<fileVars, envVars, gc>>

\* enforce_run_scope, on a fresh read of the store.
EnforceRunScope(t) ==
  /\ job[t].step = "scope"
  /\ job' = [job EXCEPT ![t] =
               IF ScopeAdmits(cfg, file, @.run, @.role, @.route, clock)
               THEN [@ EXCEPT !.step = "forward"]
               ELSE Idle]
  /\ UNCHANGED <<fileVars, envVars, gc>>

FinishRequest(t) ==
  /\ job[t].step = "forward"
  /\ job' = [job EXCEPT ![t] = Idle]
  /\ UNCHANGED <<fileVars, envVars, gc>>

-----------------------------------------------------------------------------
(* gc-runs *)

\* The cut-off time is taken before the lock is requested.
GcStart ==
  /\ gc = GcIdle
  /\ gc' = [step |-> "wait", now |-> clock]
  /\ UNCHANGED <<fileVars, envVars, job>>

GcSplit ==
  /\ gc.step = "wait"
  /\ gc' = [step |-> "replace", now |-> gc.now, keep |-> GcKeep(disk, file, gc.now)]
  /\ UNCHANGED <<fileVars, envVars, job>>

\* os.replace of the rewritten file; every kept line ends in a newline.
GcReplace ==
  /\ gc.step = "replace"
  /\ file' = gc.keep
  /\ torn' = "none"
  /\ gc' = GcIdle
  /\ UNCHANGED <<tears, end, stored, envVars, job>>

\* The command dies: the lock is released and the temporary file ignored.
GcCrash ==
  /\ gc # GcIdle
  /\ gc' = GcIdle
  /\ UNCHANGED <<fileVars, envVars, job>>

-----------------------------------------------------------------------------
(* The environment *)

Tick ==
  /\ clock < MaxClock
  /\ clock' = clock + 1
  /\ UNCHANGED <<fileVars, cfg, disk, job, gc>>

\* The operator edits the configuration file; the gateway keeps its copy.
EditConfig ==
  /\ \E c \in Configs \ {disk} : disk' = c
  /\ UNCHANGED <<fileVars, cfg, clock, job, gc>>

\* The gateway process stops and starts again on the file's configuration.
Restart ==
  /\ cfg' = disk
  /\ job' = [t \in Threads |-> Idle]
  /\ UNCHANGED <<fileVars, disk, clock, gc>>

ThreadStep(t) ==
  \/ BuildRegistration(t)
  \/ AppendRecord(t)
  \/ TearAppend(t)
  \/ TearNewline(t)
  \/ BeginRequest(t)
  \/ VerifyAgent(t)
  \/ EnforceRunScope(t)
  \/ FinishRequest(t)

GcStep == GcStart \/ GcSplit \/ GcReplace \/ GcCrash

Next ==
  \/ \E t \in Threads : ThreadStep(t)
  \/ GcStep
  \/ Tick
  \/ EditConfig
  \/ Restart

Spec == Init /\ [][Next]_vars

-----------------------------------------------------------------------------
(* The store implements its readers' view of it *)

Grant == [token: Tokens \cup {NoToken}, scope: Scope, exp: Nat]

GrantOf(r) == [token |-> r.token, scope |-> r.scope, exp |-> r.exp]

Promise == INSTANCE RunScopes WITH
  Grants <- Grant,
  grant  <- [run \in Runs |-> {GrantOf(r) : r \in Latest(cfg, file, run)}]

\* The readers' view of the file behaves as one grant per run: collections,
\* torn tails and request steps leave every grant in force alone.
ImplementsRunScopes == Promise!Spec

-----------------------------------------------------------------------------
(* Properties *)

\* A worker identity is live: the gateway would accept the token now.
Live(run, token) == TokenValid(cfg, file, run, token, clock)

\* A worker identity that is not live (revoked, expired, never registered)
\* becomes live only when a record that carries its token is appended: no
\* collection, restart or passage of time revives it.
NoRevival ==
  [][\A run \in Runs, token \in Tokens :
       ~Live(run, token) /\ Live(run, token)'
         => \E r \in file' \ file : r.run = run /\ r.token = token]_vars

\* The same under edited configurations and torn lines: a dead identity comes
\* back in two more ways only.  The gateway restarts onto a configuration that
\* no longer defines a route of the newest record; or the newest record, whose
\* registration was answered with an error, lacks its newline and is lost to
\* the next append.
NoRevivalWhileRunning ==
  [][\A run \in Runs, token \in Tokens :
       ~Live(run, token) /\ Live(run, token)'
         => \/ \E r \in file' \ file : r.run = run /\ r.token = token
            \/ cfg' # cfg
            \/ torn = "record" /\ torn' # "record"]_vars

Newest(run) ==
  {r \in stored : r.run = run /\ \A q \in stored : q.run = run => q.pos <= r.pos}

\* The newest record stored for a run is the one every reader acts on; once
\* it has expired a reader may also find no record, but never an older one.
NewestRecordDecides ==
  \A run \in Runs : \A r \in Newest(run) :
    /\ Latest(cfg, file, run) \subseteq {r}
    /\ ~Expired(r, clock) => Latest(cfg, file, run) = {r}

\* Why it holds: every line parses and stays valid; positions are unique; and
\* both the file and the lines gc-runs is about to keep hold, of each run,
\* the newest record or (once it expired) nothing at all.
Holds(lines) ==
  \A run \in Runs : \A r \in Newest(run) :
    \/ r \in lines
    \/ Expired(r, clock) /\ \A q \in lines : q.run # run

\* What is kept of a run is a suffix of what was stored for it.
Suffix(lines) ==
  \A r \in lines, q \in stored : q.run = r.run /\ q.pos > r.pos => q \in lines

DraftsValid ==
  \A t \in Threads : job[t].step = "append" =>
    /\ job[t].scope.allow # {}
    /\ job[t].scope.allow \subseteq cfg
    /\ job[t].scope.deny \subseteq cfg
    /\ job[t].plain

StoreInv ==
  /\ torn = "none"
  /\ file \subseteq stored
  /\ \A r \in stored : r.pos < end /\ r.plain /\ Valid(cfg, r)
  /\ \A r, q \in stored : r.pos = q.pos => r = q
  /\ DraftsValid
  /\ Holds(file) /\ Suffix(file)
  /\ gc # GcIdle => gc.now <= clock
  /\ gc.step = "replace" =>
       /\ gc.keep \subseteq file
       /\ Holds(gc.keep) /\ Suffix(gc.keep)
       /\ \A r \in gc.keep, q \in file : q.run = r.run => q \in gc.keep

\* Who may admit a request: the run's static policy; the newest record stored
\* for it, while that is in force; and no record at all where unknown runs are
\* let through (require_known_run_id is false), also once the newest expired.
AdmittedBy(j) ==
  \/ j.run \in DOMAIN StaticRuns
  \/ \E r \in Newest(j.run) : ~Expired(r, clock) /\ ScopeAllows(r.scope, j.role, j.route)
  \/ ~RequireKnownRunId /\ \A r \in Newest(j.run) : Expired(r, clock)

\* A request passes the scope check only under the newest record ever stored
\* for its run, even when that record was stored between the identity checks
\* and the scope check, or others of the run were collected meanwhile.
AdmittedByNewest ==
  [][\A t \in Threads :
       job[t].step = "scope" /\ job'[t].step = "forward" => AdmittedBy(job[t])]_vars
=============================================================================
