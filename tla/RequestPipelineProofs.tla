----------------------- MODULE RequestPipelineProofs -----------------------
(***************************************************************************)
(* Theorems about RequestPipeline, for any number of handler threads and   *)
(* agents, any shapes and answers and any settings of the guards.          *)
(***************************************************************************)
EXTENDS RequestPipeline, GuardProofs

-----------------------------------------------------------------------------
(* Types *)

LEMMA Bounds == MaxClock \in Nat /\ MaxOps \in Nat /\ KillOnTrip \in BOOLEAN
BY ConstantsAssumption

\* A thread goes on to another step and nothing else of its request changes.
LEMMA GoTypes ==
  ASSUME job \in [Threads -> {Idle} \cup Request], NEW t \in Threads, job[t] # Idle,
         NEW step \in Steps, Go(t, step)
  PROVE  job' \in [Threads -> {Idle} \cup Request]
BY DEF Go, Request

\* The run was warned, or not, and the verdict is not needed any more.
LEMMA WarnedTypes ==
  ASSUME NEW j \in Request, NEW step \in Steps,
         NEW warned \in BOOLEAN
  PROVE  [j EXCEPT !.step = step, !.warned = warned, !.verdict = Unscanned] \in Request
<1>1. Unscanned \in Verdict
  BY DEF Unscanned, Verdict
<1> QED
  BY <1>1 DEF Request

LEMMA InitTypes == Init => TypeOK
<1> SUFFICES ASSUME Init PROVE TypeOK
  OBVIOUS
<1>1. job \in [Threads -> {Idle} \cup Request]
  BY DEF Init
<1>2. /\ last \in [Agents -> {"none", "revoke", "release"}]
      /\ ended \in [Agents -> {"none", "revoke", "release"}]
  BY DEF Init
<1>3. run \in Run
  BY ConstantsAssumption DEF Init
<1> QED
  <2>1. /\ late \in Nat /\ mtime \in 0..MaxClock
        /\ clock \in 0..MaxClock /\ ops \in 0..MaxOps
    BY Bounds DEF Init
  <2>2. cache \in {NoCache} \cup [mtime: 0..MaxClock, has: BOOLEAN]
    BY DEF Init
  <2>3. /\ killSwitch \in BOOLEAN /\ torn \in BOOLEAN /\ registered \in BOOLEAN
        /\ glued \in BOOLEAN /\ blind \in BOOLEAN
    BY Zenon DEF Init
  <2>4. condemned \subseteq Agents /\ approvals \subseteq [by: Agents, agent: Agents, exp: 0..MaxClock]
    BY Zenon DEF Init
  <2> QED
    BY <1>1, <1>2, <1>3, <2>1, <2>2, <2>3, <2>4 DEF TypeOK

LEMMA VerdictTypes ==
  ASSUME NEW name \in DOMAIN Shapes, NEW verdict \in InputVerdicts[name]
  PROVE  verdict \in Verdict
<1>1. PICK s \in RoutedInbound(Shapes[name].found, Shapes[name].route) :
         verdict = [flagged |-> s.blocked \/ s.review,
                    blocks |-> InputBlocks(s, Shapes[name].route),
                    eligible |-> QuarantineEligible(s)]
  BY DEF InputVerdicts
<1>2. InputBlocks(s, Shapes[name].route) \in BOOLEAN
  BY DEF InputBlocks
<1>3. QuarantineEligible(s) \in BOOLEAN
  BY DEF QuarantineEligible
<1> QED
  BY <1>1, <1>2, <1>3 DEF Verdict

LEMMA AgentOfShape ==
  ASSUME NEW name \in DOMAIN Shapes
  PROVE  Shapes[name].agent \in Agents /\ Shapes[name].for \in Agents
BY ConstantsAssumption DEF Shape

\* What becomes of an answer: it is withheld or not, if there is one.
LEMMA OutputKept ==
  ASSUME NEW t \in Threads, GuardReply(t)
  PROVE  \/ Fail(t)
         \/ \E step \in {"raise", "refuse", "allow"}, reply \in {"none", job[t].reply} :
              job' = [job EXCEPT ![t].step = step, ![t].reply = reply]
<1>1. CASE Fail(t)
  BY <1>1
<1>2. CASE job' = [job EXCEPT ![t].step = "raise", ![t].reply = "none"]
  BY <1>2
<1>3. ASSUME NEW withheld, 
             job' = [job EXCEPT ![t].step = IF withheld THEN "refuse" ELSE "allow",
                                ![t].reply = IF withheld THEN "none" ELSE @]
      PROVE  \E step \in {"raise", "refuse", "allow"}, reply \in {"none", job[t].reply} :
               job' = [job EXCEPT ![t].step = step, ![t].reply = reply]
  <2>1. CASE withheld
    BY <1>3, <2>1
  <2>2. CASE ~withheld
    BY <1>3, <2>2
  <2> QED
    BY <2>1, <2>2
<1>4. \/ Fail(t)
      \/ job' = [job EXCEPT ![t].step = "raise", ![t].reply = "none"]
      \/ \E withheld \in OutputVerdicts[job[t].shape][job[t].reply][run.hosts] :
           job' = [job EXCEPT ![t].step = IF withheld THEN "refuse" ELSE "allow",
                              ![t].reply = IF withheld THEN "none" ELSE @]
  BY Zenon DEF GuardReply
<1> QED
  BY <1>1, <1>2, <1>3, <1>4, Zenon

LEMMA ReplyStep ==
  ASSUME NEW t \in Threads, GuardReply(t)
  PROVE  At(t, "reply") /\ UNCHANGED <<switch, canaryFiles, stores>>
BY Zenon DEF GuardReply

\* Whatever is appended to the revocation file, readers find known actions.
LEMMA AppendedTypes ==
  ASSUME TypeOK, NEW a \in Agents, NEW action \in {"revoke", "release"}
  PROVE  Appended(a, action) \in [Agents -> {"none", "revoke", "release"}]
BY DEF TypeOK, Appended

LEMMA HandlerTypes ==
  ASSUME TypeOK, NEW t \in Threads, Handler(t)
  PROVE  TypeOK'
<1> USE ConstantsAssumption, AgentOfShape DEF TypeOK, At, Go, Fail, switch, canaryFiles, stores
<1>1. CASE CheckKillSwitch(t)
  BY <1>1 DEF CheckKillSwitch, Started, Request, Steps, Verdict, Unscanned, Answers
<1>3. CASE VerifyAgent(t)
  BY <1>3 DEF VerifyAgent, Request, Steps, Idle
<1>4. CASE ReadBody(t)
  BY <1>4 DEF ReadBody, Request, Steps, Idle
<1>5. CASE StatRegistry(t)
  BY <1>5 DEF StatRegistry, Request, Steps, Idle
<1>6. CASE LoadRegistry(t)
  BY <1>6 DEF LoadRegistry, Request, Steps, Idle, NoCache
<1>7. CASE Revoke(t)
  <2>1. job[t] \in Request /\ job[t] # Idle
    BY <1>7 DEF Revoke, Request, Idle
  <2>2. Go(t, "raise") \/ Fail(t)
    BY <1>7 DEF Revoke
  <2>3. job' \in [Threads -> {Idle} \cup Request]
    BY <2>1, <2>2, GoTypes DEF Steps
  <2>4. ShapeOf(t).agent \in Agents
    BY <2>1 DEF ShapeOf, Request
  <2>5. \/ AppendLine(ShapeOf(t).agent, "revoke")
        \/ UNCHANGED <<last, ended, torn>>
    BY <1>7, Zenon DEF Revoke
  <2>6. /\ last' \in [Agents -> {"none", "revoke", "release"}]
        /\ ended' \in [Agents -> {"none", "revoke", "release"}]
        /\ torn' \in BOOLEAN
    <3>1. ASSUME AppendLine(ShapeOf(t).agent, "revoke")
          PROVE  /\ last' = Appended(ShapeOf(t).agent, "revoke") /\ ended' = last'
                 /\ torn' = FALSE
      BY <3>1 DEF AppendLine
    <3>2. Appended(ShapeOf(t).agent, "revoke") \in [Agents -> {"none", "revoke", "release"}]
      BY <2>4, AppendedTypes
    <3> QED
      BY <2>5, <3>1, <3>2
  <2>7. condemned' \subseteq Agents /\ glued' \in BOOLEAN
    BY <1>7, <2>4 DEF Revoke
  <2> QED
    BY <1>7, <2>3, <2>6, <2>7 DEF Revoke
<1>8. CASE TearRevocation(t)
  <2>1. ShapeOf(t).agent \in Agents
    BY <1>8 DEF TearRevocation, ShapeOf, Request, Idle
  <2>2. last' \in [Agents -> {"none", "revoke", "release"}]
    BY <1>8, <2>1, AppendedTypes DEF TearRevocation
  <2> QED
    BY <1>8, <2>2 DEF TearRevocation, Operate, Request, Steps, Idle
<1>9. CASE RaiseKillSwitch(t)
  BY <1>9 DEF RaiseKillSwitch, Request, Steps, Idle
<1>10. CASE AuditTrip(t)
  BY <1>10 DEF AuditTrip, Request, Steps, Idle
<1>11. CASE VerifyAgain(t)
  BY <1>11 DEF VerifyAgain, Request, Steps, Idle
<1>12. CASE EnforcePolicy(t)
  BY <1>12, VerdictTypes DEF EnforcePolicy, RouteDenies, PayloadDenies, Inspects, Request, Steps, Idle
<1>13. CASE ReadTestMode(t)
  BY <1>13 DEF ReadTestMode, Request, Steps, Idle
<1>14. CASE ReadQuarantine(t)
  BY <1>14 DEF ReadQuarantine, Request, Steps, Idle
<1>15. CASE AuditBypass(t)
  BY <1>15 DEF AuditBypass, Audited, Request, Steps, Idle
<1>16. CASE WarnRun(t)
  <2>1. job[t] \in Request
    BY <1>16 DEF WarnRun, Request, Idle
  <2>2. PICK warned \in BOOLEAN, step \in {"block", "action"} :
          job' = [job EXCEPT ![t].step = step, ![t].warned = warned, ![t].verdict = Unscanned]
    <3>1. CASE Held(job[t])
      BY <1>16, <3>1 DEF WarnRun, Held
    <3>2. CASE ~Held(job[t])
      BY <1>16, <3>2 DEF WarnRun, Held
    <3> QED
      BY <3>1, <3>2
  <2>3. [job[t] EXCEPT !.step = step, !.warned = warned, !.verdict = Unscanned] \in Request
    BY <2>1, WarnedTypes DEF Steps
  <2>4. job' \in [Threads -> {Idle} \cup Request]
    BY <2>2, <2>3
  <2> QED
    BY <1>16, <2>4 DEF WarnRun
<1>17. CASE DeliverReceipt(t)
  BY <1>17 DEF DeliverReceipt, Notified, Request, Steps, Idle
<1>18. CASE Refuse(t)
  BY <1>18 DEF Refuse, Settled, Request, Steps, Idle, Answers
<1>19. CASE ActionGuard(t)
  BY <1>19 DEF ActionGuard, Request, Steps, Idle
<1>20. CASE AuditTestAction(t)
  BY <1>20 DEF AuditTestAction, Audited, Request, Steps, Idle
<1>21. CASE Forward(t)
  BY <1>21 DEF Forward, Request, Steps, Idle
<1>22. CASE GuardReply(t)
  <2>1. job[t] \in Request
    BY <1>22, ReplyStep DEF Request, Idle
  <2>2. ASSUME NEW step \in {"raise", "refuse", "allow"}, NEW reply \in {"none", job[t].reply},
               job' = [job EXCEPT ![t].step = step, ![t].reply = reply]
        PROVE  job' \in [Threads -> {Idle} \cup Request]
    <3>1. [job[t] EXCEPT !.step = step, !.reply = reply] \in Request
      BY <2>1 DEF Request, Steps
    <3> QED
      BY <2>2, <3>1
  <2>3. Fail(t) => job' \in [Threads -> {Idle} \cup Request]
    OBVIOUS
  <2>4. job' \in [Threads -> {Idle} \cup Request]
    BY <1>22, <2>2, <2>3, OutputKept, Zenon
  <2> QED
    BY <1>22, <2>4, ReplyStep
<1>23. CASE AuditAllow(t)
  BY <1>23 DEF AuditAllow, Settled, Request, Steps, Idle, Answers
<1>24. CASE StoreApproval(t)
  BY <1>24 DEF StoreApproval, ShapeOf, Request, Steps, Idle
<1>25. CASE Answer(t)
  BY <1>25 DEF Answer
<1> QED
  BY <1>1, <1>3, <1>4, <1>5, <1>6, <1>7, <1>8, <1>9, <1>10, <1>11, <1>12, <1>13,
     <1>14, <1>15, <1>16, <1>17, <1>18, <1>19, <1>20, <1>21, <1>22, <1>23, <1>24, <1>25
  DEF Handler

LEMMA NextTypes == TypeOK /\ [Next]_vars => TypeOK'
<1> SUFFICES ASSUME TypeOK, [Next]_vars PROVE TypeOK'
  OBVIOUS
<1> USE ConstantsAssumption DEF TypeOK, switch, canaryFiles, stores
<1>1. CASE \E t \in Threads : Handler(t)
  BY <1>1, HandlerTypes
<1>2. CASE FlipKillSwitch
  BY <1>2 DEF FlipKillSwitch, Operate
<1>3. CASE AddCanary
  BY <1>3 DEF AddCanary, Operate
<1>4. CASE RegisterRun
  BY <1>4 DEF RegisterRun, Operate
<1>5. CASE Restart
  BY <1>5 DEF Restart, Operate
<1>6. ASSUME NEW a \in Agents, Release(a) PROVE TypeOK'
  <2>1. \A t \in Threads : job'[t] \in {Idle} \cup Request
    <3> TAKE t \in Threads
    <3>1. IF job[t] # Idle /\ ShapeOf(t).agent = a
          THEN job'[t] = [job[t] EXCEPT !.barred = FALSE] ELSE job'[t] = job[t]
      BY <1>6 DEF Release
    <3>2. job[t] \in Request => [job[t] EXCEPT !.barred = FALSE] \in Request
      BY DEF Request
    <3> QED
      BY <3>1, <3>2
  <2>2. job' = [t \in Threads |-> job'[t]]
    BY <1>6 DEF Release
  <2>3. job' \in [Threads -> {Idle} \cup Request]
    BY <2>1, <2>2
  <2>4. /\ last' \in [Agents -> {"none", "revoke", "release"}] /\ ended' = last'
        /\ condemned' \subseteq Agents
    BY <1>6, AppendedTypes DEF Release, AppendLine
  <2>5. torn' \in BOOLEAN
    BY <1>6, Zenon DEF Release, AppendLine
  <2>6. ops' \in 0..MaxOps
    BY <1>6 DEF Release, Operate
  <2>7. UNCHANGED <<killSwitch, late, registered, mtime, cache, glued, blind, approvals, run, clock>>
    BY <1>6 DEF Release
  <2> QED
    BY <2>3, <2>4, <2>5, <2>6, <2>7
<1>7. CASE Tick
  BY <1>7 DEF Tick
<1>8. CASE UNCHANGED vars
  BY <1>8 DEF vars
<1> QED
  BY <1>1, <1>2, <1>3, <1>4, <1>5, <1>6, <1>7, <1>8 DEF Next, Operator

\* Every variable keeps its range: the files, the cache and the requests.
THEOREM TypeCorrect == Spec => []TypeOK
BY InitTypes, NextTypes, PTL DEF Spec

-----------------------------------------------------------------------------
(* The course of a request *)

\* No step of one thread touches the request of another.
LEMMA Bystander ==
  ASSUME TypeOK, NEW t \in Threads, Handler(t), NEW u \in Threads, u # t
  PROVE  job'[u] = job[u]
<1> USE DEF TypeOK, Go, Fail
<1>1. CASE CheckKillSwitch(t) \/ VerifyAgent(t) \/ ReadBody(t)
  BY <1>1 DEF CheckKillSwitch, Started, VerifyAgent, ReadBody
<1>2. CASE StatRegistry(t) \/ LoadRegistry(t) \/ Revoke(t) \/ TearRevocation(t)
  BY <1>2 DEF StatRegistry, LoadRegistry, Revoke, TearRevocation
<1>3. CASE RaiseKillSwitch(t) \/ AuditTrip(t) \/ VerifyAgain(t)
  BY <1>3 DEF RaiseKillSwitch, AuditTrip, VerifyAgain
<1>4. CASE EnforcePolicy(t)
  BY <1>4 DEF EnforcePolicy, RouteDenies, PayloadDenies, Inspects
<1>5. CASE ReadTestMode(t) \/ ReadQuarantine(t)
  BY <1>5 DEF ReadTestMode, ReadQuarantine
<1>6. CASE AuditBypass(t) \/ AuditTestAction(t)
  BY <1>6 DEF AuditBypass, AuditTestAction, Audited
<1>7. CASE WarnRun(t)
  BY <1>7 DEF WarnRun
<1>8. CASE DeliverReceipt(t)
  BY <1>8 DEF DeliverReceipt, Notified
<1>9. CASE Refuse(t) \/ AuditAllow(t)
  BY <1>9 DEF Refuse, AuditAllow, Settled
<1>10. CASE ActionGuard(t)
  BY <1>10 DEF ActionGuard
<1>11. CASE Forward(t)
  BY <1>11 DEF Forward
<1>12. CASE GuardReply(t)
  BY <1>12, OutputKept
<1>13. CASE StoreApproval(t)
  BY <1>13 DEF StoreApproval
<1>14. CASE Answer(t)
  BY <1>14 DEF Answer
<1> QED
  BY <1>1, <1>2, <1>3, <1>4, <1>5, <1>6, <1>7, <1>8, <1>9, <1>10, <1>11, <1>12, <1>13, <1>14
  DEF Handler

\* The steps at which nothing has been asked of a backend or stored.
Early ==
  {"verify", "body", "stat", "lookup", "again", "policy", "test", "quarantine",
   "bypass", "warn", "block", "action", "testaction", "forward", "store"}

Fulfilled(j) ==
  j.effect \in IF Shapes[j.shape].kind = "inspect" THEN {"none"} ELSE {"raw", "stored"}

\* What a request has done, by the step it is at.  AuditMatchesBackend says it
\* of the answer; the steps on the way there make it inductive.
Course(j) ==
  /\ j.step \in Early => j.effect = "none"
  /\ j.step = "reply" => j.effect = "raw"
  /\ j.step = "refuse" => j.effect # "stored"
  /\ j.step \in {"test", "quarantine", "bypass", "warn", "block", "action", "testaction",
                 "forward", "reply", "refuse"} => Shapes[j.shape].kind = "routed"
  /\ j.step = "store" => Shapes[j.shape].kind = "approval"
  /\ j.step = "allow" => Fulfilled(j)
  /\ "allow" \in j.log => j.step = "answer" /\ Fulfilled(j)
  /\ j.step = "answer" =>
       /\ j.answer = "ok" => "allow" \in j.log
       /\ j.answer = "blocked" => "deny" \in j.log /\ j.effect \notin {"raw", "stored"}
       /\ j.answer = "withheld" => "deny" \in j.log /\ j.effect = "raw"
  /\ j.warned => j.step \in {"block", "refuse", "answer"} /\ j.effect # "raw"

CourseInv == \A t \in Threads : job[t] # Idle => Course(job[t])

LEMMA CourseSuffices == TypeOK /\ CourseInv => AuditMatchesBackend
<1> SUFFICES ASSUME TypeOK, CourseInv, NEW t \in Threads
             PROVE  /\ Told(t, "ok") => "allow" \in job[t].log /\ TookEffect(t)
                    /\ Told(t, "blocked") => "deny" \in job[t].log /\ ~Did(t, {"raw", "stored"})
                    /\ Told(t, "withheld") => "deny" \in job[t].log /\ Did(t, {"raw"})
                    /\ job[t] # Idle /\ "allow" \in job[t].log => TookEffect(t)
                    /\ job[t] # Idle /\ job[t].warned => ~Did(t, {"raw"})
  BY DEF AuditMatchesBackend
<1>1. CASE job[t] = Idle
  BY <1>1 DEF Told, At, Did, Idle
<1>2. CASE job[t] # Idle
  BY <1>2 DEF CourseInv, Course, Fulfilled, Told, At, TookEffect, Did, ShapeOf
<1> QED
  BY <1>1, <1>2

\* What the action guard decides of a request, and that it decides no more.
LEMMA ActionDecides ==
  ASSUME TypeOK, NEW t \in Threads, ActionGuard(t)
  PROVE  /\ job[t].step = "action" /\ job[t] # Idle /\ job[t] \in Request
         /\ job'[t].step \in {"forward", "testaction", "block"}
         /\ job'[t].step = "testaction" => job[t].test
         /\ job'[t].step = "forward" => Shapes[job[t].shape].action # "forbidden"
         /\ job'[t].shape = job[t].shape /\ job'[t].test = job[t].test
         /\ job'[t].verdict = job[t].verdict /\ job'[t].reply = job[t].reply
         /\ job'[t].effect = job[t].effect /\ job'[t].answer = job[t].answer
         /\ job'[t].log = job[t].log /\ job'[t].warned = job[t].warned
<1> DEFINE shape == Shapes[job[t].shape]
           pass  == \/ shape.action = "none"
                    \/ shape.action = "approvable" /\ HasApproval(shape.agent)
           seen  == IF shape.action = "approvable" THEN clock ELSE 0
           next  == IF pass THEN "forward"
                    ELSE IF shape.action = "forbidden" /\ job[t].test THEN "testaction" ELSE "block"
<1>1. job[t].step = "action" /\ job' = [job EXCEPT ![t].checked = seen, ![t].step = next]
  BY DEF ActionGuard, At, ShapeOf
<1>2. job[t] # Idle /\ job[t] \in Request /\ t \in DOMAIN job
  BY <1>1 DEF TypeOK, Idle
<1>3. /\ next \in {"forward", "testaction", "block"}
      /\ next = "testaction" => job[t].test
      /\ next = "forward" => shape.action # "forbidden"
  OBVIOUS
<1> HIDE DEF seen, next
<1>4. job'[t] = [job[t] EXCEPT !.checked = seen, !.step = next]
  BY <1>1, <1>2
<1>5. /\ job'[t].step = next
      /\ job'[t].shape = job[t].shape /\ job'[t].test = job[t].test
      /\ job'[t].verdict = job[t].verdict /\ job'[t].reply = job[t].reply
      /\ job'[t].effect = job[t].effect /\ job'[t].answer = job[t].answer
      /\ job'[t].log = job[t].log /\ job'[t].warned = job[t].warned
  BY <1>2, <1>4 DEF Request
<1> QED
  BY <1>1, <1>2, <1>3, <1>5, Zenon

\* Every step of a request keeps it on its course.
LEMMA HandlerCourse ==
  ASSUME TypeOK, CourseInv, NEW t \in Threads, Handler(t), job'[t] # Idle
  PROVE  Course(job'[t])
<1> USE DEF At, Go, Fail, Early, Fulfilled
<1>0. /\ job \in [Threads -> {Idle} \cup Request]
      /\ job[t] # Idle => job[t] \in Request /\ Course(job[t])
  BY DEF TypeOK, CourseInv
<1>1. CASE CheckKillSwitch(t)
  BY <1>0, <1>1 DEF CheckKillSwitch, Started, Course
<1>2. CASE VerifyAgent(t)
  BY <1>0, <1>2 DEF VerifyAgent, Request, Idle, Course
<1>3. CASE ReadBody(t) \/ StatRegistry(t)
  BY <1>0, <1>3 DEF ReadBody, StatRegistry, Request, Idle, Course
<1>4. CASE LoadRegistry(t)
  BY <1>0, <1>4 DEF LoadRegistry, Request, Idle, Course
<1>5. CASE Revoke(t) \/ TearRevocation(t)
  BY <1>0, <1>5 DEF Revoke, TearRevocation, Request, Idle, Course
<1>6. CASE RaiseKillSwitch(t) \/ AuditTrip(t) \/ VerifyAgain(t)
  BY <1>0, <1>6 DEF RaiseKillSwitch, AuditTrip, VerifyAgain, Request, Idle, Course
<1>7. CASE EnforcePolicy(t)
  BY <1>0, <1>7 DEF EnforcePolicy, RouteDenies, PayloadDenies, Inspects, ShapeOf, Request, Idle, Course
<1>8. CASE ReadTestMode(t) \/ ReadQuarantine(t)
  BY <1>0, <1>8 DEF ReadTestMode, ReadQuarantine, ShapeOf, Request, Idle, Course
<1>9. CASE AuditBypass(t) \/ AuditTestAction(t)
  BY <1>0, <1>9 DEF AuditBypass, AuditTestAction, Audited, Request, Idle, Course
<1>10. CASE WarnRun(t)
  <2>1. CASE Held(job[t])
    BY <1>0, <1>10, <2>1 DEF WarnRun, Request, Idle, Course
  <2>2. CASE ~Held(job[t])
    BY <1>0, <1>10, <2>2 DEF WarnRun, Request, Idle, Course
  <2> QED
    BY <2>1, <2>2
<1>11. CASE DeliverReceipt(t)
  BY <1>0, <1>11 DEF DeliverReceipt, Notified, Request, Idle, Course
<1>12. CASE Refuse(t) \/ AuditAllow(t)
  BY <1>0, <1>12 DEF Refuse, AuditAllow, Settled, Request, Idle, Course
<1>13. CASE ActionGuard(t)
  <2>1. Course(job[t])
    BY <1>0, <1>13, ActionDecides
  <2> QED
    BY <1>13, <2>1, ActionDecides DEF Course
<1>14. CASE Forward(t)
  BY <1>0, <1>14 DEF Forward, Request, Idle, Course
<1>15. CASE GuardReply(t)
  <2>1. job[t] \in Request /\ Course(job[t]) /\ job[t].step = "reply"
    BY <1>0, <1>15, ReplyStep DEF Idle
  <2>2. PICK step \in {"raise", "refuse", "allow"}, reply \in {"none", job[t].reply} :
          job' = [job EXCEPT ![t].step = step, ![t].reply = reply]
    BY <1>0, <1>15, OutputKept DEF Fail
  <2>3. job'[t] = [job[t] EXCEPT !.step = step, !.reply = reply]
    BY <1>0, <2>2
  <2> QED
    BY <2>1, <2>3 DEF Request, Course
<1>16. CASE StoreApproval(t)
  BY <1>0, <1>16 DEF StoreApproval, Request, Idle, Course
<1>17. CASE Answer(t)
  BY <1>0, <1>17 DEF Answer
<1> QED
  BY <1>1, <1>2, <1>3, <1>4, <1>5, <1>6, <1>7, <1>8, <1>9, <1>10, <1>11, <1>12, <1>13, <1>14,
     <1>15, <1>16, <1>17 DEF Handler

\* What the operator, the parent and the time do to the requests.
Outside == FlipKillSwitch \/ AddCanary \/ RegisterRun \/ Tick \/ UNCHANGED vars

LEMMA OutsideKeepsJobs ==
  ASSUME Outside
  PROVE  job' = job /\ UNCHANGED <<last, ended, torn, condemned, glued, cache, approvals>>
BY DEF Outside, FlipKillSwitch, AddCanary, RegisterRun, Tick, vars, switch, canaryFiles, stores

\* A release pardons the requests of the agent that are under way.
LEMMA ReleasedJobs ==
  ASSUME TypeOK, NEW a \in Agents, Release(a), NEW u \in Threads, job'[u] # Idle
  PROVE  /\ job[u] # Idle /\ job[u] \in Request
         /\ IF Shapes[job[u].shape].agent = a
            THEN job'[u] = [job[u] EXCEPT !.barred = FALSE] ELSE job'[u] = job[u]
<1>1. IF job[u] # Idle /\ Shapes[job[u].shape].agent = a
      THEN job'[u] = [job[u] EXCEPT !.barred = FALSE] ELSE job'[u] = job[u]
  BY DEF Release, ShapeOf
<1>2. job[u] # Idle
  BY <1>1
<1> QED
  BY <1>1, <1>2 DEF TypeOK

LEMMA NextCourse == TypeOK /\ CourseInv /\ [Next]_vars => CourseInv'
<1> SUFFICES ASSUME TypeOK, CourseInv, [Next]_vars, NEW u \in Threads, job'[u] # Idle
             PROVE  Course(job'[u])
  BY DEF CourseInv
<1>1. ASSUME NEW t \in Threads, Handler(t) PROVE Course(job'[u])
  <2>1. CASE u = t
    BY <1>1, <2>1, HandlerCourse
  <2>2. CASE u # t
    BY <1>1, <2>2, Bystander DEF CourseInv
  <2> QED
    BY <2>1, <2>2
<1>2. CASE Outside
  BY <1>2, OutsideKeepsJobs DEF CourseInv
<1>3. CASE Restart
  BY <1>3 DEF Restart
<1>4. ASSUME NEW a \in Agents, Release(a) PROVE Course(job'[u])
  <2>1. job[u] \in Request /\ Course(job[u])
    BY <1>4, ReleasedJobs DEF CourseInv
  <2>2. job'[u] = job[u] \/ job'[u] = [job[u] EXCEPT !.barred = FALSE]
    BY <1>4, ReleasedJobs
  <2> QED
    BY <2>1, <2>2 DEF Course, Fulfilled, Request
<1> QED
  BY <1>1, <1>2, <1>3, <1>4 DEF Next, Operator, Outside

LEMMA InitCourse == Init => CourseInv
BY DEF Init, CourseInv

LEMMA CourseCorrect == Spec => [](TypeOK /\ CourseInv)
<1>1. Init => TypeOK /\ CourseInv
  BY InitTypes, InitCourse
<1>2. TypeOK /\ CourseInv /\ [Next]_vars => (TypeOK /\ CourseInv)'
  BY NextTypes, NextCourse
<1> QED
  BY <1>1, <1>2, PTL DEF Spec

\* The answers and the audit log agree with what happened, and a run warned of
\* a blocked text may rely on it.
THEOREM AuditTellsWhatHappened == Spec => []AuditMatchesBackend
BY CourseCorrect, CourseSuffices, PTL

-----------------------------------------------------------------------------
(* What a step changes *)

\* The steps behind the second authentication.
Guarded ==
  {"policy", "test", "quarantine", "bypass", "warn", "block", "action", "testaction",
   "forward", "store"}

\* A request and what it is after a step of its thread.
Follows(j, k) ==
  /\ k.shape = j.shape
  /\ j.step # "body" => k.known = j.known /\ k.barred = j.barred
  /\ j.step = "body" => k.effect = j.effect /\ k.step = "stat"
  /\ j.step # "action" => k.checked = j.checked
  /\ k.step \in {"testaction", "forward"} => j.step \in {"action", "testaction"}
  /\ k.effect = "raw" => j.effect = "raw" \/ j.step = "forward"
  /\ k.effect = "stored" => j.effect = "stored" \/ j.step = "store"
  /\ k.step \in Guarded => j.step \in Guarded \cup {"again"}
  /\ k.step = "lookup" => j.step = "stat"
  /\ k.step = "again" => j.step = "lookup"

LEMMA HandlerFollows ==
  ASSUME TypeOK, NEW t \in Threads, Handler(t), job[t] # Idle, job'[t] # Idle
  PROVE  Follows(job[t], job'[t])
<1> USE DEF At, Go, Fail, Guarded
<1>0. job \in [Threads -> {Idle} \cup Request] /\ job[t] \in Request
  BY DEF TypeOK
<1>1. CASE CheckKillSwitch(t)
  BY <1>1 DEF CheckKillSwitch
<1>2. CASE VerifyAgent(t)
  BY <1>0, <1>2 DEF VerifyAgent, Request, Follows
<1>3. CASE ReadBody(t) \/ StatRegistry(t)
  BY <1>0, <1>3 DEF ReadBody, StatRegistry, Request, Follows
<1>4. CASE LoadRegistry(t)
  BY <1>0, <1>4 DEF LoadRegistry, Request, Follows
<1>5. CASE Revoke(t) \/ TearRevocation(t)
  BY <1>0, <1>5 DEF Revoke, TearRevocation, Request, Follows
<1>6. CASE RaiseKillSwitch(t) \/ AuditTrip(t) \/ VerifyAgain(t)
  BY <1>0, <1>6 DEF RaiseKillSwitch, AuditTrip, VerifyAgain, Request, Follows
<1>7. CASE EnforcePolicy(t)
  BY <1>0, <1>7 DEF EnforcePolicy, RouteDenies, PayloadDenies, Inspects, Request, Follows
<1>8. CASE ReadTestMode(t) \/ ReadQuarantine(t)
  BY <1>0, <1>8 DEF ReadTestMode, ReadQuarantine, Request, Follows
<1>9. CASE AuditBypass(t) \/ AuditTestAction(t)
  BY <1>0, <1>9 DEF AuditBypass, AuditTestAction, Audited, Request, Follows
<1>10. CASE WarnRun(t)
  BY <1>0, <1>10 DEF WarnRun, Request, Follows
<1>11. CASE DeliverReceipt(t)
  BY <1>0, <1>11 DEF DeliverReceipt, Notified, Request, Follows
<1>12. CASE Refuse(t) \/ AuditAllow(t)
  BY <1>0, <1>12 DEF Refuse, AuditAllow, Settled, Request, Follows
<1>13. CASE ActionGuard(t)
  BY <1>0, <1>13 DEF ActionGuard, Request, Follows
<1>14. CASE Forward(t)
  BY <1>0, <1>14 DEF Forward, Request, Follows
<1>15. CASE GuardReply(t)
  <2>1. job[t].step = "reply"
    BY <1>0, <1>15, ReplyStep
  <2>2. PICK step \in {"raise", "refuse", "allow"}, reply \in {"none", job[t].reply} :
          job' = [job EXCEPT ![t].step = step, ![t].reply = reply]
    BY <1>0, <1>15, OutputKept DEF Fail
  <2>3. job'[t] = [job[t] EXCEPT !.step = step, !.reply = reply]
    BY <1>0, <2>2
  <2> QED
    BY <1>0, <2>1, <2>3 DEF Request, Follows
<1>16. CASE StoreApproval(t)
  BY <1>0, <1>16 DEF StoreApproval, Request, Follows
<1>17. CASE Answer(t)
  BY <1>0, <1>17 DEF Answer
<1> QED
  BY <1>1, <1>2, <1>3, <1>4, <1>5, <1>6, <1>7, <1>8, <1>9, <1>10, <1>11, <1>12, <1>13, <1>14,
     <1>15, <1>16, <1>17 DEF Handler

\* The step a request is at says which action is next.
LEMMA ActionOfStep ==
  ASSUME NEW t \in Threads, Handler(t)
  PROVE  /\ job[t] = Idle => CheckKillSwitch(t)
         /\ At(t, "body") => ReadBody(t)
         /\ At(t, "stat") => StatRegistry(t)
         /\ At(t, "lookup") => LoadRegistry(t)
         /\ At(t, "trip") => Revoke(t) \/ TearRevocation(t)
         /\ At(t, "again") => VerifyAgain(t)
         /\ At(t, "action") => ActionGuard(t)
         /\ At(t, "store") => StoreApproval(t)
<1> DEFINE others == {"verify", "raise", "record", "policy", "test", "quarantine",
                      "bypass", "warn", "block", "refuse", "testaction", "forward", "reply",
                      "allow", "answer"}
<1>1. ASSUME VerifyAgent(t) \/ RaiseKillSwitch(t) \/ AuditTrip(t)
      PROVE  job[t].step \in others
  BY <1>1 DEF VerifyAgent, RaiseKillSwitch, AuditTrip, At
<1>2. ASSUME \/ EnforcePolicy(t) \/ ReadTestMode(t) \/ ReadQuarantine(t)
             \/ AuditBypass(t) \/ WarnRun(t)
      PROVE  job[t].step \in others
  BY <1>2 DEF EnforcePolicy, ReadTestMode, ReadQuarantine, AuditBypass, WarnRun, At
<1>3. ASSUME DeliverReceipt(t) \/ Refuse(t) \/ AuditTestAction(t) \/ Forward(t) \/ AuditAllow(t)
      PROVE  job[t].step \in others
  BY <1>3 DEF DeliverReceipt, Refuse, AuditTestAction, Forward, AuditAllow, At
<1>4. ASSUME GuardReply(t) PROVE job[t].step \in others
  BY <1>4, ReplyStep DEF At
<1>5. ASSUME Answer(t) PROVE job[t].step \in others
  BY <1>5 DEF Answer, At
<1>6. CASE job[t].step \in others
  BY <1>6 DEF At, Idle
<1>7. CASE job[t].step \notin others
  <2>1. \/ CheckKillSwitch(t) \/ ReadBody(t) \/ StatRegistry(t) \/ LoadRegistry(t) \/ Revoke(t)
        \/ TearRevocation(t) \/ VerifyAgain(t) \/ ActionGuard(t) \/ StoreApproval(t)
    <3> HIDE DEF others
    <3> QED
      BY <1>1, <1>2, <1>3, <1>4, <1>5, <1>7 DEF Handler
  <2>2. CheckKillSwitch(t) => job[t].step = "idle"
    BY DEF CheckKillSwitch, Idle
  <2>3. /\ ReadBody(t) => job[t].step = "body"
        /\ StatRegistry(t) => job[t].step = "stat"
        /\ LoadRegistry(t) => job[t].step = "lookup"
    BY DEF ReadBody, StatRegistry, LoadRegistry, At
  <2>4. /\ Revoke(t) \/ TearRevocation(t) => job[t].step = "trip"
        /\ VerifyAgain(t) => job[t].step = "again"
    BY DEF Revoke, TearRevocation, VerifyAgain, At
  <2>5. ActionGuard(t) => job[t].step = "action"
    BY DEF ActionGuard, At
  <2>6. StoreApproval(t) => job[t].step = "store"
    BY DEF StoreApproval, At
  <2> QED
    BY <2>1, <2>2, <2>3, <2>4, <2>5, <2>6 DEF At, Idle
<1> QED
  BY <1>6, <1>7

\* What a handler does to the files and to the cache.
LEMMA HandlerFiles ==
  ASSUME TypeOK, NEW t \in Threads, Handler(t)
  PROVE  /\ UNCHANGED <<registered, mtime, blind, clock>>
         /\ job[t].step # "lookup" => cache' = cache
         /\ job[t].step # "trip" => UNCHANGED <<last, ended, torn, condemned, glued>>
         /\ job[t].step # "store" => approvals' = approvals
<1> USE DEF At, switch, canaryFiles, stores
<1>1. CASE CheckKillSwitch(t) \/ VerifyAgent(t) \/ ReadBody(t)
  BY <1>1 DEF CheckKillSwitch, VerifyAgent, ReadBody
<1>2. CASE StatRegistry(t) \/ LoadRegistry(t)
  BY <1>2 DEF StatRegistry, LoadRegistry
<1>3. CASE Revoke(t) \/ TearRevocation(t)
  BY <1>3 DEF Revoke, TearRevocation, Operate
<1>4. CASE RaiseKillSwitch(t) \/ AuditTrip(t) \/ VerifyAgain(t) \/ EnforcePolicy(t)
  BY <1>4 DEF RaiseKillSwitch, AuditTrip, VerifyAgain, EnforcePolicy
<1>5. CASE ReadTestMode(t) \/ ReadQuarantine(t) \/ AuditBypass(t) \/ AuditTestAction(t)
  BY <1>5 DEF ReadTestMode, ReadQuarantine, AuditBypass, AuditTestAction
<1>6. CASE WarnRun(t) \/ DeliverReceipt(t) \/ Refuse(t) \/ AuditAllow(t)
  BY <1>6 DEF WarnRun, DeliverReceipt, Refuse, AuditAllow
<1>7. CASE ActionGuard(t) \/ Forward(t) \/ StoreApproval(t)
  BY <1>7 DEF ActionGuard, Forward, StoreApproval
<1>8. CASE GuardReply(t)
  BY <1>8, ReplyStep
<1>9. CASE Answer(t)
  BY <1>9 DEF Answer
<1> QED
  BY <1>1, <1>2, <1>3, <1>4, <1>5, <1>6, <1>7, <1>8, <1>9 DEF Handler

-----------------------------------------------------------------------------
(* Trips *)

\* A condemned agent is revoked by a line that has its newline, unless its
\* record was lost, and what follows that line does not change it; a request of
\* an agent that was condemned does not come behind the second authentication.
BarInv ==
  /\ \A a \in condemned : (Revoked(a) /\ ended[a] = "revoke") \/ glued
  /\ \A t \in Threads : job[t] # Idle =>
       /\ job[t].barred => Shapes[job[t].shape].agent \in condemned
       /\ job[t].step \in Guarded \/ job[t].effect \in {"raw", "stored"} => ~job[t].barred \/ glued

LEMMA HandlerCondemns ==
  ASSUME TypeOK, BarInv, NEW t \in Threads, Handler(t)
  PROVE  /\ \A a \in condemned' : (Revoked(a)' /\ ended'[a] = "revoke") \/ glued'
         /\ condemned \subseteq condemned' /\ (glued => glued')
<1>1. CASE job[t].step # "trip"
  BY <1>1, HandlerFiles DEF BarInv, Revoked
<1>2. CASE job[t].step = "trip" /\ Revoke(t)
  <2>1. PICK a \in Agents : a = ShapeOf(t).agent
    BY <1>2, AgentOfShape DEF TypeOK, Request, Idle, ShapeOf
  <2>2. CASE UNCHANGED <<last, ended, glued, condemned>>
    BY <2>2 DEF BarInv, Revoked
  <2>3. CASE /\ AppendLine(a, "revoke") /\ glued' = (glued \/ torn)
             /\ condemned' = condemned \cup {a}
    BY <2>3 DEF BarInv, Revoked, AppendLine, Appended, TypeOK
  <2> QED
    BY <1>2, <2>1, <2>2, <2>3 DEF Revoke
<1>3. CASE job[t].step = "trip" /\ TearRevocation(t)
  <2>1. PICK a \in Agents : a = ShapeOf(t).agent
    BY <1>3, AgentOfShape DEF TypeOK, Request, Idle, ShapeOf
  <2>2. last' \in {ended, Appended(a, "revoke")} /\ UNCHANGED <<ended, condemned, glued>>
    BY <1>3, <2>1 DEF TearRevocation
  <2> QED
    BY <2>2 DEF BarInv, Revoked, Appended, TypeOK
<1> QED
  BY <1>1, <1>2, <1>3, ActionOfStep DEF At

LEMMA HandlerBars ==
  ASSUME TypeOK, CourseInv, BarInv, NEW t \in Threads, Handler(t), job'[t] # Idle
  PROVE  /\ job'[t].barred => Shapes[job'[t].shape].agent \in condemned'
         /\ job'[t].step \in Guarded \/ job'[t].effect \in {"raw", "stored"} =>
              ~job'[t].barred \/ glued'
<1>0. condemned \subseteq condemned' /\ (glued => glued')
  BY HandlerCondemns
<1>1. CASE job[t] = Idle
  BY <1>1, ActionOfStep DEF CheckKillSwitch, Started, TypeOK, Guarded
<1>2. CASE job[t] # Idle
  <2>0. /\ Follows(job[t], job'[t]) /\ Course(job[t]) /\ job[t] \in Request
    BY <1>2, HandlerFollows DEF CourseInv, TypeOK
  <2>1. CASE job[t].step = "body"
    <3>1. job[t].effect = "none" /\ job'[t].effect = "none" /\ job'[t].step = "stat"
      BY <2>0, <2>1 DEF Follows, Course, Early
    <3>2. ReadBody(t) /\ job'[t].shape = job[t].shape
      BY <2>0, <2>1, ActionOfStep DEF At, Follows
    <3>3. job'[t].barred => Shapes[job'[t].shape].agent \in condemned'
      BY <1>0, <1>2, <2>0, <3>2 DEF ReadBody, Go, Fail, TypeOK, Request, BarInv, ShapeOf
    <3> QED
      BY <3>1, <3>3 DEF Guarded
  <2>2. CASE job[t].step = "again"
    <3>1. VerifyAgain(t)
      BY <2>2, ActionOfStep DEF At
    <3>2. /\ UNCHANGED <<condemned, glued>>
          /\ job'[t].step \in Guarded => ~Revoked(Shapes[job[t].shape].agent)
      BY <2>0, <3>1 DEF VerifyAgain, Go, Fail, canaryFiles, TypeOK, Request, ShapeOf, Guarded
    <3>3. job[t].effect = "none" /\ job'[t].effect \notin {"raw", "stored"}
      BY <2>0, <2>2 DEF Course, Early, Follows
    <3>4. job'[t].barred = job[t].barred /\ job'[t].shape = job[t].shape
      BY <2>0, <2>2 DEF Follows
    <3> QED
      BY <1>2, <3>2, <3>3, <3>4 DEF BarInv
  <2>3. CASE job[t].step \notin {"body", "again"}
    <3>1. /\ job'[t].barred = job[t].barred /\ job'[t].shape = job[t].shape
          /\ job'[t].step \in Guarded => job[t].step \in Guarded
          /\ job'[t].effect \in {"raw", "stored"} =>
               job[t].step \in Guarded \/ job[t].effect \in {"raw", "stored"}
      BY <2>0, <2>3 DEF Follows, Guarded
    <3> QED
      BY <1>0, <1>2, <3>1 DEF BarInv
  <2> QED
    BY <2>1, <2>2, <2>3
<1> QED
  BY <1>1, <1>2

LEMMA NextBars == TypeOK /\ CourseInv /\ BarInv /\ [Next]_vars => BarInv'
<1> SUFFICES ASSUME TypeOK, CourseInv, BarInv, [Next]_vars PROVE BarInv'
  OBVIOUS
<1>1. ASSUME NEW t \in Threads, Handler(t) PROVE BarInv'
  <2>1. \A a \in condemned' : (Revoked(a)' /\ ended'[a] = "revoke") \/ glued'
    BY <1>1, HandlerCondemns
  <2>2. ASSUME NEW u \in Threads, job'[u] # Idle
        PROVE  /\ job'[u].barred => Shapes[job'[u].shape].agent \in condemned'
               /\ job'[u].step \in Guarded \/ job'[u].effect \in {"raw", "stored"} =>
                    ~job'[u].barred \/ glued'
    <3>1. CASE u = t
      BY <1>1, <2>2, <3>1, HandlerBars
    <3>2. CASE u # t
      BY <1>1, <2>2, <3>2, Bystander, HandlerCondemns DEF BarInv
    <3> QED
      BY <3>1, <3>2
  <2> QED
    BY <2>1, <2>2 DEF BarInv, Guarded
<1>2. CASE Outside
  BY <1>2, OutsideKeepsJobs DEF BarInv, Revoked
<1>3. CASE Restart
  BY <1>3 DEF Restart, BarInv, Revoked
<1>4. ASSUME NEW a \in Agents, Release(a) PROVE BarInv'
  <2>1. glued' = glued /\ condemned' = condemned \ {a} /\ AppendLine(a, "release")
    BY <1>4 DEF Release
  <2>2. \A b \in Agents \ {a} : last'[b] \in {last[b], ended[b]} /\ ended'[b] = last'[b]
    BY <2>1 DEF AppendLine, Appended, TypeOK
  <2>3. \A b \in condemned' : (Revoked(b)' /\ ended'[b] = "revoke") \/ glued'
    BY <2>1, <2>2 DEF BarInv, Revoked, TypeOK
  <2>4. ASSUME NEW u \in Threads, job'[u] # Idle
        PROVE  /\ job'[u].barred => Shapes[job'[u].shape].agent \in condemned'
               /\ job'[u].step \in Guarded \/ job'[u].effect \in {"raw", "stored"} =>
                    ~job'[u].barred \/ glued'
    <3>1. job[u] # Idle /\ job[u] \in Request
      BY <1>4, <2>4, ReleasedJobs
    <3>2. CASE Shapes[job[u].shape].agent = a
      <4>1. job'[u] = [job[u] EXCEPT !.barred = FALSE]
        BY <1>4, <2>4, <3>2, ReleasedJobs
      <4>2. ~job'[u].barred
        BY <3>1, <4>1 DEF Request
      <4> QED
        BY <4>2
    <3>3. CASE Shapes[job[u].shape].agent # a
      <4>1. job'[u] = job[u]
        BY <1>4, <2>4, <3>3, ReleasedJobs
      <4> QED
        BY <2>1, <3>1, <3>3, <4>1 DEF BarInv
    <3> QED
      BY <3>2, <3>3
  <2> QED
    BY <2>3, <2>4 DEF BarInv, Guarded
<1> QED
  BY <1>1, <1>2, <1>3, <1>4 DEF Next, Operator, Outside

LEMMA InitBars == Init => BarInv
BY DEF Init, BarInv

LEMMA BarsSuffice == TypeOK /\ BarInv => TripBars
BY DEF BarInv, TripBars, Did, TypeOK

\* No request of an agent that a trip revoked before its body was complete has
\* an effect until a person releases the agent.
THEOREM TripsBar == Spec => []TripBars
<1>1. Init => BarInv
  BY InitBars
<1>2. TypeOK /\ CourseInv /\ BarInv /\ [Next]_vars => BarInv'
  BY NextBars
<1> QED
  BY <1>1, <1>2, CourseCorrect, BarsSuffice, PTL DEF Spec

-----------------------------------------------------------------------------
(* Canaries *)

Bears(j) == \E place \in Shapes[j.shape].canary : Searched(place)

\* A cache of the registry's time is up to date, unless the registry changed
\* within the resolution of its time; a request whose canary was registered has
\* read that time, and is past the registry only if it could not be seen.
CanaryInv ==
  /\ registered /\ cache.mtime = mtime => cache.has \/ blind
  /\ \A t \in Threads : job[t] # Idle =>
       /\ job[t].known => registered
       /\ job[t].known /\ job[t].step = "lookup" => job[t].mtime = mtime
       /\ /\ job[t].known /\ Bears(job[t])
          /\ job[t].step \in Guarded \cup {"again"} \/ job[t].effect \in {"raw", "stored"}
          => blind

LEMMA HandlerRegistry ==
  ASSUME TypeOK, CanaryInv, NEW t \in Threads, Handler(t)
  PROVE  registered' /\ cache'.mtime = mtime' => cache'.has \/ blind'
<1>1. CASE job[t].step # "lookup"
  BY <1>1, HandlerFiles DEF CanaryInv
<1>2. CASE job[t].step = "lookup"
  <2>1. LoadRegistry(t)
    BY <1>2, ActionOfStep DEF At
  <2>2. cache' = cache \/ cache' = [mtime |-> job[t].mtime, has |-> registered]
    BY <2>1 DEF LoadRegistry
  <2>3. CASE cache' = cache
    BY <2>3, HandlerFiles DEF CanaryInv
  <2>4. CASE cache' = [mtime |-> job[t].mtime, has |-> registered]
    <3>1. registered => cache'.has
      BY <2>4
    <3> QED
      BY <3>1, HandlerFiles
  <2> QED
    BY <2>2, <2>3, <2>4
<1> QED
  BY <1>1, <1>2

LEMMA HandlerCanaries ==
  ASSUME TypeOK, CourseInv, CanaryInv, NEW t \in Threads, Handler(t), job'[t] # Idle
  PROVE  /\ job'[t].known => registered'
         /\ job'[t].known /\ job'[t].step = "lookup" => job'[t].mtime = mtime'
         /\ /\ job'[t].known /\ Bears(job'[t])
            /\ job'[t].step \in Guarded \cup {"again"} \/ job'[t].effect \in {"raw", "stored"}
            => blind'
<1>0. UNCHANGED <<registered, mtime, blind>>
  BY HandlerFiles
<1>1. CASE job[t] = Idle
  BY <1>1, ActionOfStep DEF CheckKillSwitch, Started, TypeOK, Guarded
<1>2. CASE job[t] # Idle
  <2>0. /\ Follows(job[t], job'[t]) /\ Course(job[t]) /\ job[t] \in Request
        /\ Bears(job'[t]) <=> Bears(job[t])
    <3>1. Follows(job[t], job'[t]) /\ Course(job[t]) /\ job[t] \in Request
      BY <1>2, HandlerFollows DEF CourseInv, TypeOK
    <3>2. job'[t].shape = job[t].shape
      BY <3>1 DEF Follows
    <3> QED
      BY <3>1, <3>2 DEF Bears
  <2>1. CASE job[t].step = "body"
    <3>1. job[t].effect = "none" /\ job'[t].effect = "none" /\ job'[t].step = "stat"
      BY <2>0, <2>1 DEF Follows, Course, Early
    <3>2. ReadBody(t)
      BY <2>1, ActionOfStep DEF At
    <3>3. job'[t].known => registered
      BY <1>2, <2>0, <3>2 DEF ReadBody, Go, Fail, TypeOK, Request, CanaryInv
    <3> QED
      BY <1>0, <3>1, <3>3 DEF Guarded
  <2>2. CASE job[t].step = "stat"
    <3>1. StatRegistry(t)
      BY <2>2, ActionOfStep DEF At
    <3>2. job'[t].step = "lookup" => job'[t].mtime = mtime
      BY <2>0, <3>1 DEF StatRegistry, Go, Fail, TypeOK, Request
    <3>3. job'[t].effect \notin {"raw", "stored"} /\ job'[t].step \notin Guarded \cup {"again"}
      BY <2>0, <2>2 DEF Course, Early, Follows, Guarded
    <3>4. job'[t].known = job[t].known
      BY <2>0, <2>2 DEF Follows
    <3> QED
      BY <1>0, <1>2, <3>2, <3>3, <3>4 DEF CanaryInv
  <2>3. CASE job[t].step = "lookup"
    <3>1. LoadRegistry(t)
      BY <2>3, ActionOfStep DEF At
    <3>2. job'[t].step \in {"trip", "again"} /\ (job'[t].step = "again" => ~(Bears(job[t]) /\ cache'.has))
      <4>1. CASE Carries(t) /\ cache'.has
        BY <2>0, <3>1, <4>1 DEF LoadRegistry, TypeOK, Request
      <4>2. CASE ~(Carries(t) /\ cache'.has)
        BY <2>0, <3>1, <4>2 DEF LoadRegistry, TypeOK, Request, Carries, ShapeOf, Bears
      <4> QED
        BY <4>1, <4>2
    <3>3. job[t].known => registered /\ (cache'.has \/ blind)
      <4>1. CASE cache.mtime = job[t].mtime
        BY <1>2, <2>3, <3>1, <4>1 DEF LoadRegistry, CanaryInv
      <4>2. CASE cache.mtime # job[t].mtime
        BY <1>2, <2>3, <3>1, <4>2 DEF LoadRegistry, CanaryInv
      <4> QED
        BY <4>1, <4>2
    <3>4. job'[t].effect \notin {"raw", "stored"} /\ job'[t].known = job[t].known
      BY <2>0, <2>3 DEF Course, Early, Follows
    <3> QED
      BY <1>0, <1>2, <2>0, <3>2, <3>3, <3>4 DEF Guarded
  <2>4. CASE job[t].step \notin {"body", "stat", "lookup"}
    <3>1. /\ job'[t].known = job[t].known /\ job'[t].step # "lookup"
          /\ job'[t].step \in Guarded \cup {"again"} => job[t].step \in Guarded \cup {"again"}
          /\ job'[t].effect \in {"raw", "stored"} =>
               job[t].step \in Guarded \/ job[t].effect \in {"raw", "stored"}
      BY <2>0, <2>4 DEF Follows, Guarded
    <3> QED
      BY <1>0, <1>2, <2>0, <3>1 DEF CanaryInv
  <2> QED
    BY <2>1, <2>2, <2>3, <2>4
<1> QED
  BY <1>1, <1>2

LEMMA NextCanaries == TypeOK /\ CourseInv /\ CanaryInv /\ [Next]_vars => CanaryInv'
<1> SUFFICES ASSUME TypeOK, CourseInv, CanaryInv, [Next]_vars PROVE CanaryInv'
  OBVIOUS
<1>1. ASSUME NEW t \in Threads, Handler(t) PROVE CanaryInv'
  <2>1. registered' /\ cache'.mtime = mtime' => cache'.has \/ blind'
    BY <1>1, HandlerRegistry
  <2>2. ASSUME NEW u \in Threads, job'[u] # Idle
        PROVE  /\ job'[u].known => registered'
               /\ job'[u].known /\ job'[u].step = "lookup" => job'[u].mtime = mtime'
               /\ /\ job'[u].known /\ Bears(job'[u])
                  /\ job'[u].step \in Guarded \cup {"again"} \/ job'[u].effect \in {"raw", "stored"}
                  => blind'
    <3>1. CASE u = t
      BY <1>1, <2>2, <3>1, HandlerCanaries
    <3>2. CASE u # t
      BY <1>1, <2>2, <3>2, Bystander, HandlerFiles DEF CanaryInv
    <3> QED
      BY <3>1, <3>2
  <2> QED
    BY <2>1, <2>2 DEF CanaryInv, Guarded, Bears, Searched
<1>2. CASE FlipKillSwitch \/ RegisterRun \/ Tick \/ UNCHANGED vars
  <2>1. job' = job /\ UNCHANGED <<registered, mtime, cache, blind>>
    BY <1>2 DEF FlipKillSwitch, RegisterRun, Tick, vars, canaryFiles
  <2> QED
    BY <2>1 DEF CanaryInv, Bears
<1>3. CASE AddCanary
  <2>1. /\ job' = job /\ ~registered /\ registered' /\ cache' = cache /\ mtime' = clock
        /\ blind' = (blind \/ (cache.mtime = clock /\ ~cache.has))
    BY <1>3 DEF AddCanary
  <2> QED
    BY <2>1 DEF CanaryInv, Bears
<1>4. CASE Restart
  <2>1. cache'.mtime # mtime'
    BY <1>4, Bounds DEF Restart, NoCache, TypeOK
  <2>2. \A u \in Threads : job'[u] = Idle
    BY <1>4 DEF Restart
  <2> QED
    BY <2>1, <2>2 DEF CanaryInv
<1>5. ASSUME NEW a \in Agents, Release(a) PROVE CanaryInv'
  <2>1. UNCHANGED <<registered, mtime, cache, blind>>
    BY <1>5 DEF Release
  <2>2. ASSUME NEW u \in Threads, job'[u] # Idle
        PROVE  /\ job[u] # Idle /\ job'[u].known = job[u].known
               /\ job'[u].step = job[u].step /\ job'[u].mtime = job[u].mtime
               /\ job'[u].effect = job[u].effect /\ job'[u].shape = job[u].shape
    <3>1. job[u] # Idle /\ job[u] \in Request
      BY <1>5, <2>2, ReleasedJobs
    <3>2. job'[u] = job[u] \/ job'[u] = [job[u] EXCEPT !.barred = FALSE]
      BY <1>5, <2>2, ReleasedJobs
    <3> QED
      BY <3>1, <3>2 DEF Request
  <2>3. \A u \in Threads : job'[u] # Idle => (Bears(job'[u]) <=> Bears(job[u]))
    BY <2>2 DEF Bears
  <2>4. ASSUME NEW u \in Threads, job'[u] # Idle
        PROVE  /\ job'[u].known => registered'
               /\ job'[u].known /\ job'[u].step = "lookup" => job'[u].mtime = mtime'
               /\ /\ job'[u].known /\ Bears(job'[u])
                  /\ job'[u].step \in Guarded \cup {"again"} \/ job'[u].effect \in {"raw", "stored"}
                  => blind'
    BY <2>1, <2>2, <2>3, <2>4 DEF CanaryInv
  <2> QED
    BY <2>1, <2>4 DEF CanaryInv, Bears, Searched, Guarded
<1> QED
  BY <1>1, <1>2, <1>3, <1>4, <1>5 DEF Next, Operator

LEMMA InitCanaries == Init => CanaryInv
<1> SUFFICES ASSUME Init PROVE CanaryInv
  OBVIOUS
<1>1. cache.mtime # mtime
  BY Bounds DEF Init, NoCache
<1>2. \A t \in Threads : job[t] = Idle
  BY DEF Init
<1> QED
  BY <1>1, <1>2 DEF CanaryInv

LEMMA CanariesSuffice == TypeOK /\ CanaryInv => CanaryStopped
<1> SUFFICES ASSUME TypeOK, CanaryInv, NEW t \in Threads, Did(t, {"raw", "stored"}), Carries(t)
             PROVE  ~job[t].known \/ blind
  BY DEF CanaryStopped
<1>1. job[t] # Idle /\ job[t].effect \in {"raw", "stored"} /\ Bears(job[t])
  BY DEF Did, Carries, ShapeOf, Bears
<1> QED
  BY <1>1 DEF CanaryInv

\* No body with a canary that was registered when it arrived has an effect,
\* unless the registry changed within the resolution of its time or the canary
\* is beyond what is searched.
THEOREM CanariesAreStopped == Spec => []CanaryStopped
<1>1. Init => CanaryInv
  BY InitCanaries
<1>2. TypeOK /\ CourseInv /\ CanaryInv /\ [Next]_vars => CanaryInv'
  BY NextCanaries
<1> QED
  BY <1>1, <1>2, CourseCorrect, CanariesSuffice, PTL DEF Spec

-----------------------------------------------------------------------------
(* Approvals *)

Approved(j) ==
  \E p \in approvals : p.agent = Shapes[j.shape].agent /\ p.exp >= j.checked

\* Nobody approved an action of its own; an action that needs an approval is
\* past the action guard under one.
ApprovalInv ==
  /\ \A p \in approvals : p.by # p.agent
  /\ \A t \in Threads : job[t] # Idle =>
       ( (job[t].step \in {"testaction", "forward"} \/ job[t].effect = "raw")
         /\ Shapes[job[t].shape].action = "approvable" => Approved(job[t]) )

LEMMA HandlerApprovals ==
  ASSUME TypeOK, ApprovalInv, NEW t \in Threads, Handler(t)
  PROVE  approvals \subseteq approvals' /\ \A p \in approvals' : p.by # p.agent
<1>1. CASE job[t].step # "store"
  BY <1>1, HandlerFiles DEF ApprovalInv
<1>2. CASE job[t].step = "store"
  <2>1. StoreApproval(t)
    BY <1>2, ActionOfStep DEF At
  <2>2. \/ approvals' = approvals
        \/ \E exp \in 0..MaxClock :
             /\ ShapeOf(t).for # ShapeOf(t).agent
             /\ approvals' = approvals \cup
                  {[by |-> ShapeOf(t).agent, agent |-> ShapeOf(t).for, exp |-> exp]}
    BY <2>1 DEF StoreApproval
  <2> QED
    BY <2>2 DEF ApprovalInv
<1> QED
  BY <1>1, <1>2

LEMMA HandlerApproved ==
  ASSUME TypeOK, CourseInv, ApprovalInv, NEW t \in Threads, Handler(t), job'[t] # Idle,
         job'[t].step \in {"testaction", "forward"} \/ job'[t].effect = "raw",
         Shapes[job'[t].shape].action = "approvable"
  PROVE  \E p \in approvals' : p.agent = Shapes[job'[t].shape].agent /\ p.exp >= job'[t].checked
<1>0. approvals \subseteq approvals'
  BY HandlerApprovals
<1>1. CASE job[t] = Idle
  BY <1>1, ActionOfStep DEF CheckKillSwitch, Started, TypeOK
<1>2. CASE job[t] # Idle
  <2>0. /\ Follows(job[t], job'[t]) /\ Course(job[t]) /\ job[t] \in Request
    BY <1>2, HandlerFollows DEF CourseInv, TypeOK
  <2>1. CASE job[t].step = "action"
    <3>1. ActionGuard(t)
      BY <2>1, ActionOfStep DEF At
    <3>2. job[t].effect = "none" /\ job'[t].effect # "raw" /\ job'[t].shape = job[t].shape
      BY <2>0, <2>1 DEF Course, Early, Follows
    <3>3. HasApproval(ShapeOf(t).agent) /\ job'[t].checked = clock
      BY <2>0, <3>1, <3>2 DEF ActionGuard, ShapeOf, TypeOK, Request
    <3> QED
      BY <1>0, <3>2, <3>3 DEF HasApproval, ShapeOf
  <2>2. CASE job[t].step # "action"
    <3>1. /\ job[t].step \in {"testaction", "forward"} \/ job[t].effect = "raw"
          /\ job'[t].shape = job[t].shape /\ job'[t].checked = job[t].checked
      BY <2>0, <2>2 DEF Follows
    <3> QED
      BY <1>0, <1>2, <3>1 DEF ApprovalInv, Approved
  <2> QED
    BY <2>1, <2>2
<1> QED
  BY <1>1, <1>2

LEMMA NextApprovals == TypeOK /\ CourseInv /\ ApprovalInv /\ [Next]_vars => ApprovalInv'
<1> SUFFICES ASSUME TypeOK, CourseInv, ApprovalInv, [Next]_vars PROVE ApprovalInv'
  OBVIOUS
<1>1. ASSUME NEW t \in Threads, Handler(t) PROVE ApprovalInv'
  <2>1. approvals \subseteq approvals' /\ \A p \in approvals' : p.by # p.agent
    BY <1>1, HandlerApprovals
  <2>2. ASSUME NEW u \in Threads, job'[u] # Idle,
               job'[u].step \in {"testaction", "forward"} \/ job'[u].effect = "raw",
               Shapes[job'[u].shape].action = "approvable"
        PROVE  \E p \in approvals' :
                 p.agent = Shapes[job'[u].shape].agent /\ p.exp >= job'[u].checked
    <3>1. CASE u = t
      BY <1>1, <2>2, <3>1, HandlerApproved
    <3>2. CASE u # t
      BY <1>1, <2>1, <2>2, <3>2, Bystander DEF ApprovalInv, Approved
    <3> QED
      BY <3>1, <3>2
  <2> QED
    BY <2>1, <2>2 DEF ApprovalInv, Approved
<1>2. CASE Outside
  BY <1>2, OutsideKeepsJobs DEF ApprovalInv, Approved
<1>3. CASE Restart
  BY <1>3 DEF Restart, ApprovalInv
<1>4. ASSUME NEW a \in Agents, Release(a) PROVE ApprovalInv'
  <2>1. approvals' = approvals
    BY <1>4 DEF Release
  <2>2. ASSUME NEW u \in Threads, job'[u] # Idle
        PROVE  /\ job[u] # Idle /\ job'[u].step = job[u].step /\ job'[u].checked = job[u].checked
               /\ job'[u].effect = job[u].effect /\ job'[u].shape = job[u].shape
    <3>1. job[u] # Idle /\ job[u] \in Request
      BY <1>4, <2>2, ReleasedJobs
    <3>2. job'[u] = job[u] \/ job'[u] = [job[u] EXCEPT !.barred = FALSE]
      BY <1>4, <2>2, ReleasedJobs
    <3> QED
      BY <3>1, <3>2 DEF Request
  <2> QED
    BY <2>1, <2>2 DEF ApprovalInv, Approved
<1> QED
  BY <1>1, <1>2, <1>3, <1>4 DEF Next, Operator, Outside

LEMMA InitApprovals == Init => ApprovalInv
BY DEF Init, ApprovalInv

LEMMA ApprovalsSuffice == TypeOK /\ ApprovalInv => DangerousApproved
<1> SUFFICES ASSUME ApprovalInv, NEW t \in Threads, Did(t, {"raw"}),
                    ShapeOf(t).action = "approvable"
             PROVE  \E p \in approvals : /\ p.agent = ShapeOf(t).agent /\ p.by # p.agent
                                         /\ p.exp >= job[t].checked
  BY DEF DangerousApproved
<1> QED
  BY DEF Did, ShapeOf, ApprovalInv, Approved

\* An action that needs an approval reaches the backend only under one that
\* another agent gave and that was in force when the guard looked.
THEOREM DangerousAreApproved == Spec => []DangerousApproved
<1>1. Init => ApprovalInv
  BY InitApprovals
<1>2. TypeOK /\ CourseInv /\ ApprovalInv /\ [Next]_vars => ApprovalInv'
  BY NextApprovals
<1> QED
  BY <1>1, <1>2, CourseCorrect, ApprovalsSuffice, PTL DEF Spec

-----------------------------------------------------------------------------
(* The kill switch *)

\* The steps of a request that may still call the backend.
Pending ==
  {"verify", "body", "stat", "lookup", "again", "policy", "test", "quarantine", "bypass",
   "warn", "block", "action", "testaction", "forward"}

Callers == {t \in Threads : job[t].step \in Pending}

\* Every call since the kill switch is up is of a request that is no longer
\* pending, and none becomes pending.
DrainInv ==
  IF killSwitch THEN late + Cardinality(Callers) <= Cardinality(Threads) ELSE late = 0

LEMMA CallersCount ==
  /\ IsFiniteSet(Callers) /\ Cardinality(Callers) \in Nat
  /\ Cardinality(Threads) \in Nat /\ Cardinality(Callers) <= Cardinality(Threads)
<1>1. Callers \subseteq Threads
  BY DEF Callers
<1> QED
  BY <1>1, ConstantsAssumption, FS_Subset, FS_CardinalityType

\* A thread with a request that is pending calls the backend once at most.
LEMMA HandlerCalls ==
  ASSUME TypeOK, NEW t \in Threads, Handler(t)
  PROVE  /\ killSwitch => killSwitch'
         /\ ~killSwitch => late' \in {late, 0}
         /\ killSwitch /\ job'[t].step \in Pending => job[t].step \in Pending
         /\ killSwitch => \/ late' = late
                          \/ late' = late + 1 /\ job[t].step \in Pending /\ job'[t].step \notin Pending
<1> USE DEF At, Go, Fail, Pending, switch
<1>0. job \in [Threads -> {Idle} \cup Request]
  BY DEF TypeOK
<1>1. CASE CheckKillSwitch(t) \/ VerifyAgent(t)
  BY <1>0, <1>1 DEF CheckKillSwitch, Started, VerifyAgent, Request, Idle
<1>2. CASE ReadBody(t) \/ StatRegistry(t) \/ LoadRegistry(t)
  BY <1>0, <1>2 DEF ReadBody, StatRegistry, LoadRegistry, Request, Idle
<1>3. CASE Revoke(t) \/ TearRevocation(t) \/ AuditTrip(t) \/ VerifyAgain(t)
  BY <1>0, <1>3 DEF Revoke, TearRevocation, AuditTrip, VerifyAgain, Request, Idle
<1>4. CASE RaiseKillSwitch(t)
  <2>1. killSwitch => killSwitch'
    BY <1>4, Zenon DEF RaiseKillSwitch
  <2>2. late' = late /\ job'[t].step \in {"record", "idle"}
    BY <1>0, <1>4 DEF RaiseKillSwitch, Request, Idle
  <2> QED
    BY <2>1, <2>2
<1>5. CASE EnforcePolicy(t)
  BY <1>0, <1>5 DEF EnforcePolicy, RouteDenies, PayloadDenies, Inspects, Request, Idle
<1>6. CASE ReadTestMode(t) \/ ReadQuarantine(t)
  BY <1>0, <1>6 DEF ReadTestMode, ReadQuarantine, Request, Idle
<1>7. CASE AuditBypass(t) \/ AuditTestAction(t)
  BY <1>0, <1>7 DEF AuditBypass, AuditTestAction, Audited, Request, Idle
<1>8. CASE WarnRun(t)
  BY <1>0, <1>8 DEF WarnRun, Request, Idle
<1>9. CASE DeliverReceipt(t)
  <2>1. killSwitch => killSwitch'
    BY <1>9, Zenon DEF DeliverReceipt
  <2>2. /\ late' \in {late, IF killSwitch THEN late + 1 ELSE 0}
        /\ job[t].step = "block" /\ job'[t].step \in {"refuse", "idle"}
    BY <1>0, <1>9 DEF DeliverReceipt, Notified, Request, Idle
  <2> QED
    BY <2>1, <2>2
<1>10. CASE Refuse(t) \/ AuditAllow(t)
  BY <1>0, <1>10 DEF Refuse, AuditAllow, Settled, Request, Idle
<1>11. CASE ActionGuard(t)
  BY <1>0, <1>11 DEF ActionGuard, Request, Idle
<1>12. CASE Forward(t)
  BY <1>0, <1>12 DEF Forward, Request, Idle
<1>13. CASE GuardReply(t)
  <2>1. job[t].step = "reply" /\ UNCHANGED <<killSwitch, late>> /\ job[t] \in Request
    BY <1>0, <1>13, ReplyStep DEF Idle
  <2>2. ASSUME NEW step \in {"raise", "refuse", "allow"}, NEW reply \in {"none", job[t].reply},
               job' = [job EXCEPT ![t].step = step, ![t].reply = reply]
        PROVE  job'[t].step \in {"raise", "refuse", "allow"}
    BY <1>0, <2>1, <2>2 DEF Request
  <2>3. job'[t].step \in {"raise", "refuse", "allow", "idle"}
    <3>1. Fail(t) => job'[t].step = "idle"
      BY <1>0 DEF Idle
    <3> HIDE DEF Fail
    <3> QED
      BY <1>13, <2>2, <3>1, OutputKept
  <2> QED
    BY <2>1, <2>3
<1>14. CASE StoreApproval(t)
  BY <1>0, <1>14 DEF StoreApproval, Request, Idle
<1>15. CASE Answer(t)
  BY <1>0, <1>15 DEF Answer, Idle
<1> QED
  BY <1>1, <1>2, <1>3, <1>4, <1>5, <1>6, <1>7, <1>8, <1>9, <1>10, <1>11, <1>12, <1>13, <1>14,
     <1>15 DEF Handler

LEMMA HandlerDrains ==
  ASSUME TypeOK, DrainInv, NEW t \in Threads, Handler(t)
  PROVE  DrainInv'
<1>0. late \in Nat /\ killSwitch \in BOOLEAN
  BY DEF TypeOK
<1>1. /\ Cardinality(Callers') \in Nat /\ Cardinality(Callers') <= Cardinality(Threads)
      /\ IsFiniteSet(Callers')
  <2>1. Callers' \subseteq Threads
    BY DEF Callers
  <2> QED
    BY <2>1, ConstantsAssumption, FS_Subset, FS_CardinalityType
<1>2. CASE ~killSwitch
  BY <1>0, <1>1, <1>2, HandlerCalls, CallersCount DEF DrainInv
<1>3. CASE killSwitch
  <2>1. Callers' \subseteq Callers
    BY <1>3, HandlerCalls, Bystander DEF Callers, Pending
  <2>2. Cardinality(Callers') <= Cardinality(Callers)
    BY <2>1, CallersCount, FS_Subset
  <2>3. CASE late' = late
    BY <1>0, <1>1, <1>3, <2>2, <2>3, HandlerCalls, CallersCount DEF DrainInv
  <2>4. CASE late' = late + 1 /\ job[t].step \in Pending /\ job'[t].step \notin Pending
    <3>1. t \in Callers /\ t \notin Callers'
      BY <2>4 DEF Callers, Pending
    <3>2. Callers' \subseteq Callers \ {t}
      BY <2>1, <3>1
    <3>3. /\ IsFiniteSet(Callers \ {t})
          /\ Cardinality(Callers \ {t}) = Cardinality(Callers) - 1
      BY <3>1, CallersCount, FS_RemoveElement
    <3>4. Cardinality(Callers') <= Cardinality(Callers) - 1
      BY <3>2, <3>3, FS_Subset
    <3> QED
      BY <1>0, <1>1, <1>3, <2>4, <3>4, HandlerCalls, CallersCount DEF DrainInv
  <2> QED
    BY <1>3, <2>3, <2>4, HandlerCalls
<1> QED
  BY <1>2, <1>3

LEMMA NextDrains == TypeOK /\ DrainInv /\ [Next]_vars => DrainInv'
<1> SUFFICES ASSUME TypeOK, DrainInv, [Next]_vars PROVE DrainInv'
  OBVIOUS
<1>1. CASE \E t \in Threads : Handler(t)
  BY <1>1, HandlerDrains
<1>2. CASE FlipKillSwitch
  <2>1. Callers' = Callers /\ late' = 0
    BY <1>2 DEF FlipKillSwitch, Callers
  <2> QED
    BY <2>1, CallersCount DEF DrainInv
<1>3. CASE AddCanary \/ RegisterRun \/ Tick \/ UNCHANGED vars
  <2>1. Callers' = Callers /\ UNCHANGED <<killSwitch, late>>
    BY <1>3 DEF AddCanary, RegisterRun, Tick, vars, switch, Callers
  <2> QED
    BY <2>1 DEF DrainInv
<1>4. CASE Restart
  <2>1. Callers' = {} /\ UNCHANGED <<killSwitch, late>>
    BY <1>4 DEF Restart, switch, Callers, Pending, Idle
  <2>2. Cardinality(Callers') = 0
    BY <2>1, FS_EmptySet
  <2> QED
    BY <2>1, <2>2, CallersCount DEF DrainInv, TypeOK
<1>5. ASSUME NEW a \in Agents, Release(a) PROVE DrainInv'
  <2>1. \A u \in Threads : job'[u].step = job[u].step
    <3> TAKE u \in Threads
    <3>1. CASE job'[u] = job[u]
      BY <3>1
    <3>2. CASE job'[u] # job[u]
      <4>1. job[u] # Idle /\ job'[u] = [job[u] EXCEPT !.barred = FALSE]
        BY <1>5, <3>2 DEF Release
      <4> QED
        BY <4>1 DEF TypeOK, Request
    <3> QED
      BY <3>1, <3>2
  <2>2. Callers' = Callers /\ UNCHANGED <<killSwitch, late>>
    BY <1>5, <2>1 DEF Callers, Pending, Release, switch
  <2> QED
    BY <2>2 DEF DrainInv
<1> QED
  BY <1>1, <1>2, <1>3, <1>4, <1>5 DEF Next, Operator

LEMMA InitDrains == Init => DrainInv
BY DEF Init, DrainInv

LEMMA DrainSuffices == TypeOK /\ DrainInv => DrainBounded
<1> SUFFICES ASSUME TypeOK, DrainInv, killSwitch PROVE late <= Cardinality(Threads)
  BY DEF DrainBounded
<1>1. late \in Nat /\ late + Cardinality(Callers) <= Cardinality(Threads)
  BY DEF DrainInv, TypeOK
<1> QED
  BY <1>1, CallersCount

\* While the kill switch is up, the backend is called at most once for each
\* request that was under way.
THEOREM DrainIsBounded == Spec => []DrainBounded
<1>1. Init => DrainInv
  BY InitDrains
<1>2. TypeOK /\ DrainInv /\ [Next]_vars => DrainInv'
  BY NextDrains
<1> QED
  BY <1>1, <1>2, TypeCorrect, DrainSuffices, PTL DEF Spec

-----------------------------------------------------------------------------
(* The guards *)

Before == {"verify", "body", "stat", "lookup", "trip", "raise", "record", "again", "policy", "test"}

\* The input guard held nothing back for which the log has no bypass.
Cleared(j) == "bypass" \in j.log \/ \E v \in InputVerdicts[j.shape] : ~v.blocks

\* The output guard may let this answer pass.
Released(name, reply) ==
  /\ reply \in DOMAIN Replies
  /\ \E hosts \in BOOLEAN : \E withheld \in OutputVerdicts[name][reply][hosts] : ~withheld

\* What the guards have decided of a request, by the step it is at.
\* BypassAudited and AnswersClean say it of what has happened; the steps on the
\* way there make it inductive.  (A trip and a withheld answer go back to steps
\* at which nothing has to be decided any more.)
Vetted(j) ==
  LET shape == Shapes[j.shape] IN
  /\ j.step \in {"test", "quarantine", "bypass", "warn"} => j.verdict \in InputVerdicts[j.shape]
  /\ j.step = "bypass" => j.test \/ j.verdict.eligible
  /\ j.step = "test" => "bypass" \notin j.log
  /\ "bypass" \in j.log => j.step \notin Before \ {"raise", "record"} /\ (j.test \/ Mild(shape))
  /\ j.step \in {"action", "testaction", "forward"} \/ j.effect = "raw" => Cleared(j)
  /\ j.step = "testaction" /\ shape.action = "forbidden" => j.test
  /\ (j.step = "forward" \/ j.effect = "raw") /\ shape.action = "forbidden"
       => "action" \in j.log /\ j.test
  /\ j.effect = "raw" /\ (j.step = "allow" \/ (j.step = "answer" /\ j.answer = "ok"))
       => Released(j.shape, j.reply)
  /\ j.step = "answer" \/ j.answer = "none"

VettedInv == \A t \in Threads : job[t] # Idle => Vetted(job[t])

LEMMA ShapeTypes ==
  ASSUME NEW name \in DOMAIN Shapes
  PROVE  Shapes[name].found \in Found /\ Shapes[name].route \in Policy
BY ConstantsAssumption DEF Shape, Found

LEMMA ReplyTypes ==
  ASSUME NEW name \in DOMAIN Replies
  PROVE  Replies[name].found \in Found
BY ConstantsAssumption DEF Reply, Found

\* What is not flagged is not blocked, and a quarantined read takes what is mild.
LEMMA VerdictSays ==
  ASSUME NEW name \in DOMAIN Shapes, NEW v \in InputVerdicts[name]
  PROVE  /\ v \in Verdict
         /\ ~v.flagged => ~v.blocks
         /\ v.eligible => Mild(Shapes[name])
<1> DEFINE shape == Shapes[name]
<1>1. PICK s \in RoutedInbound(shape.found, shape.route) :
         v = [flagged |-> s.blocked \/ s.review, blocks |-> InputBlocks(s, shape.route),
              eligible |-> QuarantineEligible(s)]
  BY DEF InputVerdicts
<1>2. v.flagged = (s.blocked \/ s.review) /\ v.blocks = InputBlocks(s, shape.route)
      /\ v.eligible = QuarantineEligible(s)
  BY <1>1
<1>3. ~v.flagged => ~v.blocks
  BY <1>2, Zenon DEF InputBlocks
<1>4. ASSUME QuarantineEligible(s) PROVE Mild(shape)
  BY <1>4, ShapeTypes, QuarantinedTexts DEF Mild
<1> QED
  BY <1>2, <1>3, <1>4, VerdictTypes

\* What becomes of an answer: it goes on to its audit event only if it may pass.
LEMMA ReplyReleased ==
  ASSUME TypeOK, NEW t \in Threads, job[t] # Idle, GuardReply(t)
  PROVE  \/ Fail(t)
         \/ \E step \in {"raise", "refuse", "allow"}, reply \in {"none", job[t].reply} :
              /\ job' = [job EXCEPT ![t].step = step, ![t].reply = reply]
              /\ step = "allow" => Released(job[t].shape, reply)
<1>1. CASE Fail(t)
  BY <1>1
<1>2. CASE job' = [job EXCEPT ![t].step = "raise", ![t].reply = "none"]
  BY <1>2
<1>3. ASSUME NEW withheld \in OutputVerdicts[job[t].shape][job[t].reply][run.hosts],
             job' = [job EXCEPT ![t].step = IF withheld THEN "refuse" ELSE "allow",
                                ![t].reply = IF withheld THEN "none" ELSE @],
             job[t].reply # "none"
      PROVE  \E step \in {"raise", "refuse", "allow"}, reply \in {"none", job[t].reply} :
               /\ job' = [job EXCEPT ![t].step = step, ![t].reply = reply]
               /\ step = "allow" => Released(job[t].shape, reply)
  <2>1. CASE withheld
    BY <1>3, <2>1
  <2>2. CASE ~withheld
    <3>1. run.hosts \in BOOLEAN /\ job[t].reply \in DOMAIN Replies
      BY <1>3 DEF TypeOK, Run, Request
    <3>2. Released(job[t].shape, job[t].reply)
      BY <1>3, <2>2, <3>1, Zenon DEF Released
    <3>3. job' = [job EXCEPT ![t].step = "allow", ![t].reply = job[t].reply]
      BY <1>3, <2>2
    <3> QED
      BY <3>2, <3>3, Zenon
  <2> QED
    BY <2>1, <2>2
<1>4. \/ Fail(t)
      \/ job' = [job EXCEPT ![t].step = "raise", ![t].reply = "none"]
      \/ /\ job[t].reply # "none"
         /\ \E withheld \in OutputVerdicts[job[t].shape][job[t].reply][run.hosts] :
              job' = [job EXCEPT ![t].step = IF withheld THEN "refuse" ELSE "allow",
                                 ![t].reply = IF withheld THEN "none" ELSE @]
  BY Zenon DEF GuardReply
<1> QED
  BY <1>1, <1>2, <1>3, <1>4, Zenon

\* Every step of a request keeps what the guards decided of it.
LEMMA HandlerVets ==
  ASSUME TypeOK, CourseInv, VettedInv, NEW t \in Threads, Handler(t), job'[t] # Idle
  PROVE  Vetted(job'[t])
<1> USE DEF At, Go, Fail, Before
<1>0. /\ job \in [Threads -> {Idle} \cup Request]
      /\ job[t] # Idle => job[t] \in Request /\ Course(job[t]) /\ Vetted(job[t])
  BY DEF TypeOK, CourseInv, VettedInv
<1>1. CASE CheckKillSwitch(t)
  BY <1>0, <1>1 DEF CheckKillSwitch, Started, Vetted
<1>2. CASE VerifyAgent(t)
  BY <1>0, <1>2 DEF VerifyAgent, Request, Idle, Vetted, Cleared
<1>3. CASE ReadBody(t) \/ StatRegistry(t)
  BY <1>0, <1>3 DEF ReadBody, StatRegistry, Request, Idle, Vetted, Cleared
<1>4. CASE LoadRegistry(t)
  BY <1>0, <1>4 DEF LoadRegistry, Request, Idle, Vetted, Cleared
<1>5. CASE Revoke(t) \/ TearRevocation(t)
  BY <1>0, <1>5 DEF Revoke, TearRevocation, Request, Idle, Vetted, Cleared
<1>6. CASE RaiseKillSwitch(t) \/ AuditTrip(t) \/ VerifyAgain(t)
  BY <1>0, <1>6 DEF RaiseKillSwitch, AuditTrip, VerifyAgain, Request, Idle, Vetted, Cleared
<1>7. CASE EnforcePolicy(t)
  <2>1. job[t] \in Request /\ Vetted(job[t]) /\ Course(job[t]) /\ job[t].step = "policy"
    BY <1>0, <1>7 DEF EnforcePolicy, Idle
  <2>2. CASE \E step \in {"allow", "trip", "store"} : job' = [job EXCEPT ![t].step = step]
    BY <1>0, <2>1, <2>2 DEF Request, Vetted, Cleared, Course, Early
  <2>3. CASE \E verdict \in InputVerdicts[job[t].shape] :
               job' = [job EXCEPT ![t].step = "test", ![t].verdict = verdict]
    BY <1>0, <2>1, <2>3 DEF Request, Vetted, Cleared, Course, Early
  <2>4. job' # [job EXCEPT ![t] = Idle]
    BY <1>0
  <2> QED
    BY <1>7, <2>2, <2>3, <2>4 DEF EnforcePolicy, RouteDenies, PayloadDenies, Inspects
<1>8. CASE ReadTestMode(t)
  BY <1>0, <1>8, VerdictSays DEF ReadTestMode, Request, Idle, Vetted, Cleared, Course, Early
<1>9. CASE ReadQuarantine(t)
  BY <1>0, <1>9, VerdictSays DEF ReadQuarantine, Request, Idle, Vetted, Cleared, Course, Early
<1>10. CASE AuditBypass(t)
  BY <1>0, <1>10, VerdictSays DEF AuditBypass, Audited, Request, Idle, Vetted, Cleared, Course, Early
<1>11. CASE AuditTestAction(t)
  BY <1>0, <1>11 DEF AuditTestAction, Audited, Request, Idle, Vetted, Cleared, Course, Early
<1>12. CASE WarnRun(t)
  <2>1. CASE Held(job[t])
    BY <1>0, <1>12, <2>1 DEF WarnRun, Request, Idle, Vetted, Cleared, Course, Early
  <2>2. CASE ~Held(job[t])
    BY <1>0, <1>12, <2>2, VerdictSays DEF WarnRun, Held, Request, Idle, Vetted, Cleared, Course, Early
  <2> QED
    BY <2>1, <2>2
<1>13. CASE DeliverReceipt(t)
  BY <1>0, <1>13 DEF DeliverReceipt, Notified, Request, Idle, Vetted, Cleared, Course, Early
<1>14. CASE Refuse(t) \/ AuditAllow(t)
  BY <1>0, <1>14 DEF Refuse, AuditAllow, Settled, Request, Idle, Vetted, Cleared
<1>15. CASE ActionGuard(t)
  <2>1. Course(job[t]) /\ Vetted(job[t])
    BY <1>0, <1>15, ActionDecides
  <2> QED
    BY <1>15, <2>1, ActionDecides DEF Vetted, Cleared, Course, Early
<1>16. CASE Forward(t)
  BY <1>0, <1>16 DEF Forward, Request, Idle, Vetted, Cleared
<1>17. CASE GuardReply(t)
  <2>1. job[t] \in Request /\ job[t] # Idle /\ Vetted(job[t]) /\ job[t].step = "reply"
    BY <1>0, <1>17, ReplyStep DEF Idle
  <2>2. PICK step \in {"raise", "refuse", "allow"}, reply \in {"none", job[t].reply} :
          /\ job' = [job EXCEPT ![t].step = step, ![t].reply = reply]
          /\ step = "allow" => Released(job[t].shape, reply)
    BY <1>0, <1>17, <2>1, ReplyReleased
  <2>3. job'[t] = [job[t] EXCEPT !.step = step, !.reply = reply]
    BY <1>0, <2>2
  <2>4. /\ job'[t].step = step /\ job'[t].reply = reply
        /\ job'[t].shape = job[t].shape /\ job'[t].log = job[t].log /\ job'[t].test = job[t].test
        /\ job'[t].effect = job[t].effect /\ job'[t].answer = job[t].answer
    BY <2>1, <2>3 DEF Request
  <2> QED
    BY <2>1, <2>2, <2>4 DEF Vetted, Cleared
<1>18. CASE StoreApproval(t)
  BY <1>0, <1>18 DEF StoreApproval, Request, Idle, Vetted, Cleared
<1>19. CASE Answer(t)
  BY <1>0, <1>19 DEF Answer
<1> QED
  BY <1>1, <1>2, <1>3, <1>4, <1>5, <1>6, <1>7, <1>8, <1>9, <1>10, <1>11, <1>12, <1>13, <1>14,
     <1>15, <1>16, <1>17, <1>18, <1>19 DEF Handler

LEMMA NextVets == TypeOK /\ CourseInv /\ VettedInv /\ [Next]_vars => VettedInv'
<1> SUFFICES ASSUME TypeOK, CourseInv, VettedInv, [Next]_vars, NEW u \in Threads, job'[u] # Idle
             PROVE  Vetted(job'[u])
  BY DEF VettedInv
<1>1. ASSUME NEW t \in Threads, Handler(t) PROVE Vetted(job'[u])
  <2>1. CASE u = t
    BY <1>1, <2>1, HandlerVets
  <2>2. CASE u # t
    BY <1>1, <2>2, Bystander DEF VettedInv
  <2> QED
    BY <2>1, <2>2
<1>2. CASE Outside
  BY <1>2, OutsideKeepsJobs DEF VettedInv
<1>3. CASE Restart
  BY <1>3 DEF Restart
<1>4. ASSUME NEW a \in Agents, Release(a) PROVE Vetted(job'[u])
  <2>1. job[u] \in Request /\ Vetted(job[u])
    BY <1>4, ReleasedJobs DEF VettedInv
  <2>2. job'[u] = job[u] \/ job'[u] = [job[u] EXCEPT !.barred = FALSE]
    BY <1>4, ReleasedJobs
  <2> QED
    BY <2>1, <2>2 DEF Vetted, Cleared, Request
<1> QED
  BY <1>1, <1>2, <1>3, <1>4 DEF Next, Operator, Outside

LEMMA InitVetted == Init => VettedInv
BY DEF Init, VettedInv

LEMMA VettedCorrect == Spec => [](TypeOK /\ VettedInv)
<1>1. Init => VettedInv
  BY InitVetted
<1>2. TypeOK /\ CourseInv /\ VettedInv /\ [Next]_vars => VettedInv'
  BY NextVets
<1> QED
  BY <1>1, <1>2, CourseCorrect, PTL DEF Spec

\* A verdict that does not block shows a way through the guards.
LEMMA NotBlocked ==
  ASSUME NEW name \in DOMAIN Shapes, NEW v \in InputVerdicts[name], ~v.blocks
  PROVE  \E low \in SUBSET Shapes[name].found : PassesWith(Shapes[name], low)
<1> DEFINE shape == Shapes[name]
<1>1. PICK s \in RoutedInbound(shape.found, shape.route) :
         v = [flagged |-> s.blocked \/ s.review, blocks |-> InputBlocks(s, shape.route),
              eligible |-> QuarantineEligible(s)]
  BY DEF InputVerdicts
<1>2. ~InputBlocks(s, shape.route)
  BY <1>1
<1>3. ~s.blocked
  BY <1>2 DEF InputBlocks
<1> DEFINE counted == Counted(shape.found, shape.route)
<1>4. /\ ~Incomplete(counted)
      /\ \E low : MayLower(counted, low, FALSE) /\ Score(counted \ low) < Guard.block
  BY <1>3, ShapeTypes, TextsThatPass
<1>5. PICK low : MayLower(counted, low, FALSE) /\ Score(counted \ low) < Guard.block
  BY <1>4
<1>6. low \in SUBSET counted /\ \A f \in low : f.kind = "phrase" /\ f.windows > 0
  BY <1>5 DEF MayLower, Lowerable
<1>7. low \in SUBSET shape.found
  BY <1>6 DEF Counted
<1>8. PassesWith(shape, low)
  BY <1>4, <1>5, <1>6 DEF PassesWith, MayLower
<1> QED
  BY <1>7, <1>8

LEMMA VettedSuffices == TypeOK /\ VettedInv => BypassAudited
<1> SUFFICES ASSUME TypeOK, VettedInv, NEW t \in Threads, Did(t, {"raw"})
             PROVE  LET shape == ShapeOf(t)
                        held  == ~\E low \in SUBSET shape.found : PassesWith(shape, low)
                    IN  /\ held => "bypass" \in job[t].log
                        /\ shape.action = "forbidden" => "action" \in job[t].log
                        /\ shape.action = "forbidden" \/ (held /\ ~Mild(shape)) => job[t].test
  BY DEF BypassAudited
<1> DEFINE shape == ShapeOf(t)
           held  == ~\E low \in SUBSET shape.found : PassesWith(shape, low)
<1>1. job[t] # Idle /\ job[t] \in Request /\ Vetted(job[t]) /\ job[t].effect = "raw"
  BY DEF Did, TypeOK, VettedInv
<1>2. job[t].shape \in DOMAIN Shapes
  BY <1>1 DEF Request
<1>3. ASSUME held PROVE "bypass" \in job[t].log
  BY <1>1, <1>2, <1>3, NotBlocked DEF Vetted, Cleared, ShapeOf
<1>4. shape.action = "forbidden" => "action" \in job[t].log /\ job[t].test
  BY <1>1 DEF Vetted, ShapeOf
<1>5. "bypass" \in job[t].log => job[t].test \/ Mild(shape)
  BY <1>1 DEF Vetted, ShapeOf
<1> HIDE DEF held, shape
<1> QED
  BY <1>3, <1>4, <1>5 DEF held, shape

\* What the guards must hold back reaches the backend only with its bypass in
\* the audit log, and in a mode that covers it.
THEOREM BypassesAreAudited == Spec => []BypassAudited
BY VettedCorrect, VettedSuffices, PTL

LEMMA VettedAnswers == TypeOK /\ VettedInv => AnswersClean
<1> SUFFICES ASSUME TypeOK, VettedInv, NEW t \in Threads, Told(t, "ok"), job[t].effect = "raw"
             PROVE  LET firm == {f \in ReplyOf(t).found : ~Yields(ShapeOf(t).route, f)} IN
                    /\ ~Incomplete(ReplyOf(t).found)
                    /\ Score(firm) < Guard.outBlock \/ Score(firm) < Guard.block
  BY DEF AnswersClean
<1>1. job[t] # Idle /\ job[t].step = "answer" /\ job[t].answer = "ok"
  BY DEF Told, At, Idle
<1>2. job[t] \in Request /\ Released(job[t].shape, job[t].reply)
  BY <1>1 DEF TypeOK, VettedInv, Vetted
<1> DEFINE name == job[t].shape
           said == job[t].reply
           route == Shapes[name].route
<1>3. name \in DOMAIN Shapes /\ said \in DOMAIN Replies
  BY <1>2 DEF Released, Request
<1>4. PICK hosts \in BOOLEAN : \E withheld \in OutputVerdicts[name][said][hosts] : ~withheld
  BY <1>2, Zenon DEF Released
<1>5. PICK c \in Outbound(Replies[said], route, hosts) : ~OutputBlocks(c, route)
  BY <1>3, <1>4 DEF OutputVerdicts
<1>6. ~c.blocked
  BY <1>5 DEF OutputBlocks
<1> HIDE DEF name, said
<1>7. route \in Policy /\ Replies[said].found \in Found
  BY <1>3, ShapeTypes, ReplyTypes
<1> HIDE DEF route
<1>8. LET firm == {f \in Replies[said].found : ~Yields(route, f)} IN
      /\ ~Incomplete(Replies[said].found)
      /\ Score(firm) < Guard.outBlock \/ Score(firm) < Guard.block
  BY <1>6, <1>7, AnswersThatPass
<1> QED
  BY <1>8 DEF ReplyOf, ShapeOf, name, said, route

\* An answer given to a caller was inspected as a whole, and what the output
\* guard may not drop of it does not weigh enough to be withheld.
THEOREM AnswersAreClean == Spec => []AnswersClean
BY VettedCorrect, VettedAnswers, PTL

=============================================================================
