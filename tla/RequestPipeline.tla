-------------------------- MODULE RequestPipeline --------------------------
(***************************************************************************)
(* The way of a request through the gateway (gateway.py, canary.py):       *)
(* handle_routed_request and handle_approval with every step that reads or *)
(* writes something shared.  Between two steps of a request, other         *)
(* requests, the parent and the operator may change what it read:          *)
(*   - the kill switch file, raised by the operator or by a canary trip;   *)
(*   - the revocation file, appended to by trips and by `canary release`;  *)
(*   - the canary registry, cached by its modification time;               *)
(*   - the approval file;                                                  *)
(*   - the mode of the run, from its newest record (see RunStore);         *)
(*   - the audit log (see AuditLog), any write of which may fail.          *)
(* What the scanners find in a body is part of its shape; what the guards  *)
(* make of it, and of the answer, is in Guards.  Checks of one request     *)
(* against the configuration alone, the rate limit, the run scope and the  *)
(* quota may deny at the step they stand at.                               *)
(***************************************************************************)
EXTENDS Guards

CONSTANTS
  Threads, Agents,
  Shapes,                  \* the requests callers send, by name
  Replies,                 \* what the backend may answer, by name
  RevokeOnTrip, KillOnTrip,\* canary.on_trip
  Notify,                  \* a block is notified to the backend by a receipt
  Budget,                  \* how much of a body is searched for canaries
  RunModes,                \* what the run is registered with, also before a start
  MaxClock, MaxOps, MaxApprovals     \* bounds of the model

\* Where a canary is in a body: how deep it is nested, how many strings come
\* before its string, and how many candidates before it in that string.
Place == [depth: Nat, strings: Nat, candidates: Nat]

\* An approval names the agent it is for; a routed request its route and the
\* action it asks for; the scanner finds something in all of them.
Shape ==
  [kind: {"routed", "approval", "inspect"}, agent: Agents, for: Agents, decoy: BOOLEAN,
   canary: SUBSET Place, found: SUBSET Finding, route: Policy,
   action: {"none", "approvable", "forbidden"}]

Run == [mode: {"none", "test", "quarantined"}, exp: 0..MaxClock, hosts: BOOLEAN]

ASSUME ConstantsAssumption ==
  /\ IsFiniteSet(Threads)
  /\ Budget \in Place
  /\ \A name \in DOMAIN Shapes :
       /\ Shapes[name] \in Shape /\ IsFiniteSet(Shapes[name].found)
       /\ Shapes[name].decoy => Shapes[name].kind = "routed"
  /\ \A name \in DOMAIN Replies :
       Replies[name] \in Reply /\ IsFiniteSet(Replies[name].found)
  /\ "none" \notin DOMAIN Replies
  /\ RevokeOnTrip \in BOOLEAN /\ KillOnTrip \in BOOLEAN /\ Notify \in BOOLEAN
  /\ RunModes \subseteq Run
  /\ MaxClock \in Nat /\ MaxOps \in Nat /\ MaxApprovals \in Nat

VARIABLES
  killSwitch,   \* the kill switch file exists
  last,         \* for each agent, the last action the revocation file has
  ended,        \* the same of the lines that have their newline
  torn,         \* the revocation file ends in a line without one
  registered,   \* the canary is in the registry
  mtime,        \* the modification time of the registry
  cache,        \* what load_registry keeps between requests
  approvals,    \* the records of the approval file
  run,          \* mode, expiry and fetch hosts of the newest record of the run
  clock,
  ops,          \* operator's and parent's actions, torn appends (bounds the model)
  job,          \* the request of each handler thread
  late,         \* history: backend calls since the kill switch is up
  condemned,    \* history: agents whose trip was answered and not pardoned
  glued,        \* history: a revocation was glued to an incomplete line
  blind         \* history: the registry changed within the time resolution

canaryFiles == <<last, ended, torn, registered, mtime, cache, condemned, glued, blind>>
stores      == <<approvals, run, clock, ops>>
switch      == <<killSwitch, late>>
vars        == <<switch, canaryFiles, stores, job>>

-----------------------------------------------------------------------------
(* State *)

Idle    == [step |-> "idle"]
NoCache == [mtime |-> MaxClock + 1, has |-> FALSE]

Steps ==
  {"verify", "body", "stat", "lookup", "trip", "raise", "record", "again",
   "policy", "test", "quarantine", "bypass", "warn", "block", "refuse",
   "action", "testaction", "forward", "reply", "allow", "store", "answer"}

Answers == {"none", "ok", "blocked", "withheld"}

\* What the input guard decided: the request is held for a bypass; it is
\* blocked without one; a quarantined read may take it.
Verdict == [flagged: BOOLEAN, blocks: BOOLEAN, eligible: BOOLEAN]

Unscanned == [flagged |-> FALSE, blocks |-> FALSE, eligible |-> TRUE]

\* test and mtime are what the thread has read, reply what the backend said (none
\* if it failed, timed out or said no JSON, or if it is withheld), effect what
\* the backend or the approval file got of the request, log its audit events,
\* warned whether its run was told that its text was held back.  known, barred
\* and checked are history: whether the canary was registered and the agent
\* condemned when the body was complete, and when the approval was looked up.
Request ==
  [step: Steps, shape: DOMAIN Shapes, test: BOOLEAN, mtime: 0..MaxClock,
   verdict: Verdict, reply: DOMAIN Replies \cup {"none"},
   effect: {"none", "receipt", "raw", "stored"}, answer: Answers,
   log: SUBSET {"deny", "bypass", "action", "allow"}, warned: BOOLEAN,
   known: BOOLEAN, barred: BOOLEAN, checked: 0..MaxClock]

TypeOK ==
  /\ killSwitch \in BOOLEAN /\ late \in Nat
  /\ {last, ended} \subseteq [Agents -> {"none", "revoke", "release"}]
  /\ torn \in BOOLEAN /\ registered \in BOOLEAN /\ mtime \in 0..MaxClock
  /\ cache \in {NoCache} \cup [mtime: 0..MaxClock, has: BOOLEAN]
  /\ approvals \subseteq [by: Agents, agent: Agents, exp: 0..MaxClock]
  /\ run \in Run
  /\ clock \in 0..MaxClock /\ ops \in 0..MaxOps
  /\ job \in [Threads -> {Idle} \cup Request]
  /\ condemned \subseteq Agents /\ glued \in BOOLEAN /\ blind \in BOOLEAN

Init ==
  /\ killSwitch = FALSE /\ late = 0
  /\ last = [a \in Agents |-> "none"] /\ ended = last /\ torn = FALSE
  /\ registered \in BOOLEAN /\ mtime = 0 /\ cache = NoCache
  /\ approvals = {} /\ run \in RunModes
  /\ clock = 0 /\ ops = 0
  /\ job = [t \in Threads |-> Idle]
  /\ condemned = {} /\ glued = FALSE /\ blind = FALSE

-----------------------------------------------------------------------------
(* Helpers *)

\* The operator, the parent and torn appends share a budget.
Operate == ops < MaxOps /\ ops' = ops + 1

At(t, step) == job[t].step = step

ShapeOf(t) == Shapes[job[t].shape]

ReplyOf(t) == Replies[job[t].reply]

Go(t, step) == job' = [job EXCEPT ![t].step = step]

\* deny or internal_error: what a step raised ends its request.  Both answer,
\* also if their event cannot be written, so that log does not keep it; and
\* they touch nothing that is shared, so that the step which raised ends it.
Fail(t) == job' = [job EXCEPT ![t] = Idle]

\* canary.find searches a body until one of MAX_DEPTH, MAX_STRINGS and
\* MAX_CANDIDATES is used up; what comes after that is not looked at.
Searched(place) ==
  /\ place.depth <= Budget.depth
  /\ place.strings < Budget.strings
  /\ place.candidates <= Budget.candidates

Carries(t) == \E place \in ShapeOf(t).canary : Searched(place)

\* write_audit appends the event, or raises and the request ends in an error.
Audited(t, event, next) ==
  \/ job' = [job EXCEPT ![t].log = @ \cup {event}, ![t].step = next]
  \/ Fail(t)

\* The same, and the answer is decided.
Settled(t, event, answer) ==
  \/ job' = [job EXCEPT ![t].log = @ \cup {event}, ![t].answer = answer,
                        ![t].step = "answer"]
  \/ Fail(t)

\* The last record of the agent decides.
Revoked(a) == last[a] = "revoke"

\* A record appended to the revocation file: glued to a line without newline,
\* it is skipped by readers, and so is that line from now on.
Appended(a, action) == IF torn THEN ended ELSE [last EXCEPT ![a] = action]

\* _append writes a whole line.
AppendLine(a, action) == last' = Appended(a, action) /\ ended' = last' /\ torn' = FALSE

\* has_approval: a record for this agent, route and action that is in force.
HasApproval(a) == \E p \in approvals : p.agent = a /\ p.exp >= clock

-----------------------------------------------------------------------------
(* Authentication, body and canaries *)

\* A request as it starts: nothing of it has been read.
Started(t, shape) ==
  job' = [job EXCEPT ![t] =
    [step |-> "verify", shape |-> shape, test |-> FALSE, mtime |-> 0,
     verdict |-> Unscanned, reply |-> "none",
     effect |-> "none", answer |-> "none", log |-> {}, warned |-> FALSE,
     known |-> FALSE, barred |-> FALSE, checked |-> 0]]

\* Bug: an active kill switch is audited and not enforced.
CheckKillSwitchLogged(t) ==
  /\ job[t] = Idle
  /\ \E shape \in DOMAIN Shapes : Started(t, shape)
  /\ UNCHANGED <<switch, canaryFiles, stores>>

\* A request begins with a look at the kill switch; while that is up it is
\* denied, and nothing changes.
CheckKillSwitch(t) ==
  /\ job[t] = Idle /\ ~killSwitch
  /\ \E shape \in DOMAIN Shapes : Started(t, shape)
  /\ UNCHANGED <<switch, canaryFiles, stores>>

\* read_json_body authenticates and takes a slot of the rate limit first.
VerifyAgent(t) ==
  /\ At(t, "verify")
  /\ \/ Fail(t)
     \/ ~Revoked(ShapeOf(t).agent) /\ Go(t, "body")
  /\ UNCHANGED <<switch, canaryFiles, stores>>

\* The body may be late, cut short or no JSON object.
ReadBody(t) ==
  /\ At(t, "body")
  /\ \/ Fail(t)
     \/ job' = [job EXCEPT ![t].step = "stat", ![t].known = registered /\ Carries(t),
                           ![t].barred = ShapeOf(t).agent \in condemned]
  /\ UNCHANGED <<switch, canaryFiles, stores>>

\* load_registry reads the modification time before it takes the lock; a
\* registry that cannot be read denies the request.
StatRegistry(t) ==
  /\ At(t, "stat")
  /\ \/ job' = [job EXCEPT ![t].step = "lookup", ![t].mtime = mtime]
     \/ Fail(t)
  /\ UNCHANGED <<switch, canaryFiles, stores>>

\* Bug: the registry is read once and for all.
LoadRegistryOnce(t) ==
  /\ At(t, "lookup")
  /\ cache' = IF cache # NoCache THEN cache
              ELSE [mtime |-> job[t].mtime, has |-> registered]
  /\ job' = [job EXCEPT ![t].mtime = 0, ![t].step =
               IF Carries(t) /\ cache'.has THEN "trip" ELSE "again"]
  /\ UNCHANGED <<switch, last, ended, torn, registered, mtime, condemned, glued, blind, stores>>

\* The cached registry serves as long as the modification time is the same.
LoadRegistry(t) ==
  /\ At(t, "lookup")
  /\ cache' = IF cache.mtime = job[t].mtime THEN cache
              ELSE [mtime |-> job[t].mtime, has |-> registered]
  /\ job' = [job EXCEPT ![t].mtime = 0, ![t].step =
               IF Carries(t) /\ cache'.has THEN "trip" ELSE "again"]
  /\ UNCHANGED <<switch, last, ended, torn, registered, mtime, condemned, glued, blind, stores>>

\* apply_trip: the caller is revoked, or the record cannot be written.
Revoke(t) ==
  /\ At(t, "trip")
  /\ LET a == ShapeOf(t).agent IN
     \/ /\ RevokeOnTrip
        /\ AppendLine(a, "revoke")
        /\ glued' = (glued \/ torn)
        /\ condemned' = condemned \cup {a}
        /\ Go(t, "raise")
     \/ /\ RevokeOnTrip
        /\ Fail(t)
        /\ UNCHANGED <<last, ended, torn, glued, condemned>>
     \/ /\ ~RevokeOnTrip
        /\ Go(t, "raise")
        /\ UNCHANGED <<last, ended, torn, glued, condemned>>
  /\ UNCHANGED <<switch, registered, mtime, cache, blind, stores>>

\* The append stops half way, and what it leaves hides the next record.  If it
\* lacks the newline only, readers take it for a record until then.
TearRevocation(t) ==
  /\ At(t, "trip") /\ RevokeOnTrip
  /\ Operate
  /\ last' \in {ended, Appended(ShapeOf(t).agent, "revoke")} /\ torn' = TRUE
  /\ Fail(t)
  /\ UNCHANGED <<switch, ended, registered, mtime, cache, condemned, glued, blind,
                 approvals, run, clock>>

\* apply_trip goes on: the kill switch is raised if the configuration says so.
RaiseKillSwitch(t) ==
  /\ At(t, "raise")
  /\ \/ /\ killSwitch' = (killSwitch \/ KillOnTrip)
        /\ Go(t, "record")
     \/ /\ KillOnTrip
        /\ Fail(t)
        /\ UNCHANGED killSwitch
  /\ UNCHANGED <<late, canaryFiles, stores>>

AuditTrip(t) ==
  /\ At(t, "record")
  /\ Fail(t)
  /\ UNCHANGED <<switch, canaryFiles, stores>>

\* Bug: an agent authenticated before its body was read is not looked at again.
VerifyAgainOnce(t) ==
  /\ At(t, "again")
  /\ \/ Fail(t)
     \/ Go(t, "policy")
  /\ UNCHANGED <<switch, canaryFiles, stores>>

\* The handler authenticates again, after the body.
VerifyAgain(t) ==
  /\ At(t, "again")
  /\ \/ Fail(t)
     \/ ~Revoked(ShapeOf(t).agent) /\ Go(t, "policy")
  /\ UNCHANGED <<switch, canaryFiles, stores>>

\* What the input guard may decide about a routed request.
InputVerdicts ==
  [name \in DOMAIN Shapes |->
     LET shape == Shapes[name] IN
     {[flagged |-> s.blocked \/ s.review, blocks |-> InputBlocks(s, shape.route),
       eligible |-> QuarantineEligible(s)] : s \in RoutedInbound(shape.found, shape.route)}]

\* No such route, or not for this caller, its run or its taint.
RouteDenies(t) == ShapeOf(t).kind = "routed" /\ ~ShapeOf(t).decoy /\ Fail(t)

\* What the route asks of a payload is not met: its fields, their text and size.
PayloadDenies(t) == ShapeOf(t).kind = "routed" /\ ~ShapeOf(t).decoy /\ Fail(t)

\* /inspect tells whoever may ask what the scan says, and keeps nothing of it.
Inspects(t) == ShapeOf(t).kind = "inspect" /\ (Fail(t) \/ Go(t, "allow"))

\* enforce_route_policy, enforce_run_model_quota, enforce_input_policy: a decoy
\* route trips before any permission is looked at.  Then the text is scanned,
\* two models may be asked, and nothing of that is shared.
EnforcePolicy(t) ==
  /\ At(t, "policy")
  /\ LET shape == ShapeOf(t) IN
     \/ RouteDenies(t)
     \/ PayloadDenies(t)
     \/ Inspects(t)
     \/ shape.decoy /\ Go(t, "trip")
     \/ shape.kind = "approval" /\ (Fail(t) \/ Go(t, "store"))
     \/ /\ shape.kind = "routed" /\ ~shape.decoy
        /\ \E verdict \in InputVerdicts[job[t].shape] :
             job' = [job EXCEPT ![t].step = "test", ![t].verdict = verdict]
  /\ UNCHANGED <<switch, canaryFiles, stores>>

-----------------------------------------------------------------------------
(* The guards of a routed request *)

\* active_input_guard_test_mode: the newest record of the run opted in.
ReadTestMode(t) ==
  /\ At(t, "test")
  /\ LET test == run.mode = "test" /\ run.exp > clock IN
     job' = [job EXCEPT ![t].test = test, ![t].step =
               IF ~test THEN "quarantine"
               ELSE IF job[t].verdict.flagged THEN "bypass" ELSE "action"]
  /\ UNCHANGED <<switch, canaryFiles, stores>>

\* active_quarantined_read reads the record again, and not its expiry: what is
\* injection only may still reach a model without tools.
ReadQuarantine(t) ==
  /\ At(t, "quarantine")
  /\ LET verdict == job[t].verdict
         quarantined == /\ run.mode = "quarantined" /\ verdict.eligible
                        /\ ShapeOf(t).route.kind = "openai_chat_completions"
     IN  Go(t, IF ~verdict.flagged THEN "action" ELSE IF quarantined THEN "bypass" ELSE "warn")
  /\ UNCHANGED <<switch, canaryFiles, stores>>

\* The bypass of the input guard is audited before anything else.
AuditBypass(t) ==
  /\ At(t, "bypass")
  /\ Audited(t, "bypass", "warn")
  /\ UNCHANGED <<switch, canaryFiles, stores>>

\* Held back by the input guard, and not let through.
Held(j) == j.verdict.blocks /\ "bypass" \notin j.log

\* record_run_warning: a run whose text was flagged is told what became of it,
\* that it was held back or let pass, unless that cannot be written, which
\* nobody notices.
WarnRun(t) ==
  /\ At(t, "warn")
  /\ LET held == Held(job[t]) IN
     \E warned \in {FALSE, held} :
       job' = [job EXCEPT ![t].step = IF held THEN "block" ELSE "action",
                          ![t].warned = warned, ![t].verdict = Unscanned]
  /\ UNCHANGED <<switch, canaryFiles, stores>>

\* result_audit_receipt: what was found, and nothing of the text.
Notified(t) == job' = [job EXCEPT ![t].effect = "receipt", ![t].step = "refuse"]

\* maybe_deliver_block_receipt: the backend gets metadata, and a canary in its
\* answer trips without a caller to revoke.
DeliverReceipt(t) ==
  /\ At(t, "block")
  /\ IF Notify
     THEN /\ late' = IF killSwitch THEN late + 1 ELSE 0
          /\ \/ killSwitch' = killSwitch /\ Notified(t)
             \/ /\ killSwitch' = (killSwitch \/ KillOnTrip)
                /\ Notified(t) \/ Fail(t)
     ELSE Go(t, "refuse") /\ UNCHANGED switch
  /\ UNCHANGED <<canaryFiles, stores>>

\* A blocked request is audited, then answered.
Refuse(t) ==
  /\ At(t, "refuse")
  /\ Settled(t, "deny", IF job[t].effect = "raw" THEN "withheld" ELSE "blocked")
  /\ UNCHANGED <<switch, canaryFiles, stores>>

\* enforce_action_guard: an approvable action needs an approval in force, in
\* test mode too; the others are blocked, unless in test mode.
ActionGuard(t) ==
  /\ At(t, "action")
  /\ LET shape == ShapeOf(t)
         pass  == \/ shape.action = "none"
                  \/ shape.action = "approvable" /\ HasApproval(shape.agent)
     IN  job' = [job EXCEPT ![t].checked = IF shape.action = "approvable" THEN clock ELSE 0, ![t].step =
           IF pass THEN "forward"
           ELSE IF shape.action = "forbidden" /\ job[t].test THEN "testaction" ELSE "block"]
  /\ UNCHANGED <<switch, canaryFiles, stores>>

AuditTestAction(t) ==
  /\ At(t, "testaction")
  /\ Audited(t, "action", "forward")
  /\ UNCHANGED <<switch, canaryFiles, stores>>

-----------------------------------------------------------------------------
(* The backend, the approval file and the answer *)

\* The backend gets the request; it answers, or fails, times out or says
\* something that is not JSON.
Forward(t) ==
  /\ At(t, "forward")
  /\ late' = IF killSwitch THEN late + 1 ELSE 0
  /\ \E reply \in DOMAIN Replies \cup {"none"} :
       job' = [job EXCEPT ![t].effect = "raw", ![t].step = "reply", ![t].reply = reply]
  /\ UNCHANGED <<killSwitch, canaryFiles, stores>>

\* Whether the output guard may withhold an answer, or let it pass.
OutputVerdicts ==
  [name \in DOMAIN Shapes |-> [reply \in DOMAIN Replies |-> [hosts \in BOOLEAN |->
     LET route == Shapes[name].route IN
     {OutputBlocks(s, route) : s \in Outbound(Replies[reply], route, hosts)}]]]

\* enforce_output_guard: a canary in the answer trips, without a caller to
\* revoke; then the output guard decides.
GuardReply(t) ==
  /\ At(t, "reply")
  /\ IF job[t].reply = "none" THEN Fail(t)
     ELSE \/ job' = [job EXCEPT ![t].step = "raise", ![t].reply = "none"]
          \/ \E withheld \in OutputVerdicts[job[t].shape][job[t].reply][run.hosts] :
               job' = [job EXCEPT ![t].step  = IF withheld THEN "refuse" ELSE "allow",
                                  ![t].reply = IF withheld THEN "none" ELSE @]
  /\ UNCHANGED <<switch, canaryFiles, stores>>

\* Bug: the answer does not wait for its audit event.
AuditAllowLost(t) ==
  /\ At(t, "allow")
  /\ \/ Settled(t, "allow", "ok")
     \/ job' = [job EXCEPT ![t].answer = "ok", ![t].step = "answer"]
  /\ UNCHANGED <<switch, canaryFiles, stores>>

\* The answer is given once its event is in the audit log.
AuditAllow(t) ==
  /\ At(t, "allow")
  /\ Settled(t, "allow", "ok")
  /\ UNCHANGED <<switch, canaryFiles, stores>>

\* The approvals whose text may pass the input guard.
Passing == {name \in DOMAIN Shapes : \E s \in Inbound(Shapes[name].found) : ~s.blocked}

\* Bug: agents may approve their own actions.
StoreApprovalSelf(t) ==
  /\ At(t, "store")
  /\ LET shape == ShapeOf(t) IN
     \/ Fail(t) /\ UNCHANGED approvals
     \/ /\ job[t].shape \in Passing
        /\ Cardinality(approvals) < MaxApprovals
        /\ \E exp \in 0..MaxClock :
             approvals' = approvals \cup {[by |-> shape.agent, agent |-> shape.for, exp |-> exp]}
        /\ job' = [job EXCEPT ![t].effect = "stored", ![t].step = "allow"]
  /\ UNCHANGED <<switch, canaryFiles, run, clock, ops>>

\* handle_approval: approvals of one's own actions and blocked ones are denied.
StoreApproval(t) ==
  /\ At(t, "store")
  /\ LET shape == ShapeOf(t) IN
     \/ Fail(t) /\ UNCHANGED approvals
     \/ /\ shape.for # shape.agent
        /\ job[t].shape \in Passing
        /\ Cardinality(approvals) < MaxApprovals
        /\ \E exp \in 0..MaxClock :
             approvals' = approvals \cup {[by |-> shape.agent, agent |-> shape.for, exp |-> exp]}
        /\ job' = [job EXCEPT ![t].effect = "stored", ![t].step = "allow"]
  /\ UNCHANGED <<switch, canaryFiles, run, clock, ops>>

\* The answer is written; or the client is gone, and internal_error is tried.
Answer(t) ==
  /\ At(t, "answer")
  /\ job' = [job EXCEPT ![t] = Idle]
  /\ UNCHANGED <<switch, canaryFiles, stores>>

-----------------------------------------------------------------------------
(* The operator, the parent and the process *)

FlipKillSwitch ==
  /\ Operate
  /\ killSwitch' = ~killSwitch /\ late' = 0
  /\ UNCHANGED <<canaryFiles, approvals, run, clock, job>>

\* asgctl canary release, another process.
Release(a) ==
  /\ Operate
  /\ AppendLine(a, "release")
  /\ condemned' = condemned \ {a}
  /\ job' = [t \in Threads |->
       IF job[t] # Idle /\ ShapeOf(t).agent = a
       THEN [job[t] EXCEPT !.barred = FALSE] ELSE job[t]]
  /\ UNCHANGED <<switch, registered, mtime, cache, glued, blind, approvals, run, clock>>

\* asgctl canary add.
AddCanary ==
  /\ Operate
  /\ ~registered /\ registered' = TRUE
  /\ mtime' = clock
  /\ blind' = (blind \/ (cache.mtime = clock /\ ~cache.has))
  /\ UNCHANGED <<switch, last, ended, torn, cache, condemned, glued, approvals, run, clock, job>>

\* The parent registers the run again, in any mode.
RegisterRun ==
  /\ Operate
  /\ run' \in RunModes
  /\ UNCHANGED <<switch, canaryFiles, approvals, clock, job>>

Restart ==
  /\ Operate
  /\ job' = [t \in Threads |-> Idle] /\ cache' = NoCache
  /\ UNCHANGED <<switch, last, ended, torn, registered, mtime, condemned, glued, blind,
                 approvals, run, clock>>

Tick ==
  /\ clock < MaxClock
  /\ clock' = clock + 1
  /\ UNCHANGED <<switch, canaryFiles, approvals, run, ops, job>>

Handler(t) ==
  \/ CheckKillSwitch(t) \/ VerifyAgent(t) \/ ReadBody(t)
  \/ StatRegistry(t) \/ LoadRegistry(t) \/ Revoke(t) \/ TearRevocation(t) \/ RaiseKillSwitch(t)
  \/ AuditTrip(t) \/ VerifyAgain(t) \/ EnforcePolicy(t)
  \/ ReadTestMode(t) \/ ReadQuarantine(t) \/ AuditBypass(t)
  \/ WarnRun(t) \/ DeliverReceipt(t) \/ Refuse(t) \/ ActionGuard(t)
  \/ AuditTestAction(t) \/ Forward(t) \/ GuardReply(t)
  \/ AuditAllow(t) \/ StoreApproval(t) \/ Answer(t)

Operator ==
  \/ FlipKillSwitch \/ AddCanary \/ RegisterRun \/ Restart
  \/ \E a \in Agents : Release(a)

Next == (\E t \in Threads : Handler(t)) \/ Operator \/ Tick

Spec == Init /\ [][Next]_vars

-----------------------------------------------------------------------------
(* Properties *)

\* What a request has done so far, and what it was told.
Did(t, effects) == job[t] # Idle /\ job[t].effect \in effects
Told(t, answer) == At(t, "answer") /\ job[t].answer = answer

\* What a request is for has happened; nothing happens for /inspect.
TookEffect(t) == Did(t, IF ShapeOf(t).kind = "inspect" THEN {"none"} ELSE {"raw", "stored"})

\* Once a trip has revoked an agent, no request of that agent whose body was
\* complete after it reaches the backend or the approval file until a person
\* releases the agent, however many requests were under way; unless the
\* revocation was glued to an incomplete line and lost.
TripBars ==
  \A t \in Threads : Did(t, {"raw", "stored"}) => ~job[t].barred \/ glued

\* A body with a canary that was registered when it arrived, and is not beyond
\* what is searched of a body, never reaches the backend or the approval file,
\* unless the registry changed within the resolution of its time.
CanaryStopped ==
  \A t \in Threads :
    Did(t, {"raw", "stored"}) /\ Carries(t) => ~job[t].known \/ blind

\* Requests under way go on when the kill switch is raised: the backend is
\* called at most once more for each of them.
DrainBounded == killSwitch => late <= Cardinality(Threads)

\* What a text weighs without the findings the route ignores, and without some
\* that can be talked down: all matches of them were checked.
PassesWith(shape, low) ==
  LET kept == Counted(shape.found, shape.route) IN
  /\ low \subseteq {f \in kept : f.kind = "phrase" /\ f.windows > 0}
  /\ Matches(low) <= Guard.maxChecks
  /\ ~Incomplete(kept) /\ Score(kept \ low) < Guard.block

\* Nothing was found but what is about injection, or what the route ignores.
Mild(shape) ==
  \A f \in shape.found :
    f.severity > 0 => f.kind \in InjectionKinds \cup (shape.route.ignored \ {"boundary"})

\* What the guards must hold back reaches the backend only in a mode that
\* covers it, and only after its bypass is in the audit log, whatever the models
\* said of it: a text that is too heavy even without the findings which as many
\* snippet checks as are allowed can talk down, and an action that no approval
\* can cover.  Such an action, and a finding that is not about injection, is
\* covered by test mode only.
BypassAudited ==
  \A t \in Threads : Did(t, {"raw"}) =>
    LET shape == ShapeOf(t)
        held  == ~\E low \in SUBSET shape.found : PassesWith(shape, low)
    IN  /\ held => "bypass" \in job[t].log
        /\ shape.action = "forbidden" => "action" \in job[t].log
        /\ shape.action = "forbidden" \/ (held /\ ~Mild(shape)) => job[t].test

\* An answer given to a caller was inspected as a whole, and what no step of
\* the output guard may drop does not weigh enough to be withheld: not by the
\* thresholds of answers, nor (once findings of it were lowered) by those of
\* texts.
AnswersClean ==
  \A t \in Threads : Told(t, "ok") /\ job[t].effect = "raw" =>
    LET firm == {f \in ReplyOf(t).found : ~Yields(ShapeOf(t).route, f)} IN
    /\ ~Incomplete(ReplyOf(t).found)
    /\ Score(firm) < Guard.outBlock \/ Score(firm) < Guard.block

\* An action that needs an approval reaches the backend only under one that
\* another agent gave and that was in force when the guard looked.
DangerousApproved ==
  \A t \in Threads :
    Did(t, {"raw"}) /\ ShapeOf(t).action = "approvable" =>
      \E p \in approvals : /\ p.agent = ShapeOf(t).agent /\ p.by # p.agent
                           /\ p.exp >= job[t].checked

\* The answers and the audit log agree with what happened: success only with
\* its event, a block only if the backend did not get the request, a withheld
\* answer only if it did, and an allow event only for what took effect.  A run
\* warned of a blocked text may rely on it: its model did not read it.
AuditMatchesBackend ==
  \A t \in Threads :
    /\ Told(t, "ok") => "allow" \in job[t].log /\ TookEffect(t)
    /\ Told(t, "blocked") => "deny" \in job[t].log /\ ~Did(t, {"raw", "stored"})
    /\ Told(t, "withheld") => "deny" \in job[t].log /\ Did(t, {"raw"})
    /\ job[t] # Idle /\ "allow" \in job[t].log => TookEffect(t)
    /\ job[t] # Idle /\ job[t].warned => ~Did(t, {"raw"})
=============================================================================
