--------------------------- MODULE RunStoreProofs ---------------------------
(***************************************************************************)
(* Theorems about RunStore, for every value of its constants.              *)
(***************************************************************************)
EXTENDS RunStore, TLAPS

\* The configuration is not edited, no append is torn, and no reason holds a
\* line separator that only gc-runs splits at: otherwise the runs show the
\* store's promises broken.
StableConfig == \A c, d \in Configs : c = d
NoFaults == MaxTears = 0 /\ Plain \subseteq {TRUE}

-----------------------------------------------------------------------------
(* Type correctness *)

LEMMA ParsedType ==
  ASSUME NEW lines \in SUBSET Record
  PROVE  Parsed(lines) \subseteq Record
BY DEF Parsed, Record

LEMMA ParsedPlain ==
  ASSUME NEW lines, \A r \in lines : r.plain
  PROVE  Parsed(lines) = lines
BY DEF Parsed

LEMMA GcKeepSubset ==
  ASSUME NEW c, NEW lines, NEW now
  PROVE  GcKeep(c, lines, now) \subseteq Parsed(lines)
BY DEF GcKeep

LEMMA GluedType ==
  ASSUME TypeOK, NEW lines \in SUBSET Record
  PROVE  Glued(lines) \subseteq Record
BY DEF Glued, Record

LEMMA InitTypeOK == Init => TypeOK
<1> SUFFICES ASSUME Init PROVE TypeOK
  OBVIOUS
<1>1. job \in [Threads -> Job]
  BY DEF Init, Job
<1>2. gc \in GcJob
  BY DEF Init, GcJob
<1>3. QED
  BY <1>1, <1>2 DEF Init, TypeOK

LEMMA ThreadTypeOK ==
  ASSUME TypeOK, NEW t \in Threads, ThreadStep(t)
  PROVE  TypeOK'
<1> USE ConstantsAssumption DEF TypeOK, fileVars, envVars
<1>1. CASE BuildRegistration(t)
  <2>1. PICK run \in Runs, token \in Tokens \cup {NoToken}, scope \in Scopes,
            ttl \in Ttls, plain \in Plain :
          job' = [job EXCEPT ![t] = [step |-> "append", run |-> run, token |-> token,
                                     scope |-> scope, exp |-> clock + ttl,
                                     plain |-> plain]]
    BY <1>1 DEF BuildRegistration, ExpiresAt
  <2>2. [step |-> "append", run |-> run, token |-> token, scope |-> scope,
         exp |-> clock + ttl, plain |-> plain] \in Job
    <3>1. plain \in BOOLEAN /\ scope \in Scope /\ clock + ttl \in Nat
      OBVIOUS
    <3>2. QED
      BY <3>1 DEF Job, Registration
  <2>3. job' \in [Threads -> Job]
    BY <2>1, <2>2
  <2>4. QED
    BY <1>1, <2>3 DEF BuildRegistration
<1>2. CASE AppendRecord(t)
  <2>1. job[t] \in Registration
    BY <1>2 DEF AppendRecord, Job, Idle, Request
  <2>2. NextLine(job[t]) \in Record
    BY <2>1 DEF NextLine, Line, Record, Registration
  <2>3. file' \subseteq Record /\ stored' \subseteq Record
    BY <1>2, <2>2, GluedType DEF AppendRecord
  <2>4. job' \in [Threads -> Job]
    BY <1>2 DEF AppendRecord, Job
  <2>5. end' \in Nat
    BY <1>2 DEF AppendRecord
  <2>6. QED
    BY <1>2, <2>3, <2>4, <2>5 DEF AppendRecord
<1>3. CASE TearAppend(t) \/ TearNewline(t)
  <2>1. job[t] \in Registration
    BY <1>3 DEF TearAppend, TearNewline, Job, Idle, Request
  <2>2. NextLine(job[t]) \in Record
    BY <2>1 DEF NextLine, Line, Record, Registration
  <2>3. file' \subseteq Record /\ stored' \subseteq Record
    BY <1>3, <2>2, GluedType DEF TearAppend, TearNewline
  <2>4. job' \in [Threads -> Job]
    BY <1>3 DEF TearAppend, TearNewline, Job
  <2>5. UNCHANGED <<cfg, disk, clock, gc>> /\ end' \in Nat /\ tears' \in Nat
    BY <1>3 DEF TearAppend, TearNewline
  <2>6. torn' \in {"none", "part", "record"}
    BY <1>3 DEF TearAppend, TearNewline
  <2>7. QED
    BY <2>3, <2>4, <2>5, <2>6
<1>4. CASE BeginRequest(t)
  <2>1. PICK run \in Runs, role \in Roles, token \in Tokens \cup {NoToken}, route \in cfg :
          job' = [job EXCEPT ![t] = [step |-> "verify", run |-> run, role |-> role,
                                     token |-> token, route |-> route]]
    BY <1>4 DEF BeginRequest
  <2>2. [step |-> "verify", run |-> run, role |-> role, token |-> token,
         route |-> route] \in Job
    BY DEF Job, Request
  <2>3. job' \in [Threads -> Job]
    BY <2>1, <2>2
  <2>4. QED
    BY <1>4, <2>3 DEF BeginRequest
<1>5. CASE VerifyAgent(t)
  <2>1. job[t] \in Request
    BY <1>5 DEF VerifyAgent, Job, Idle, Registration
  <2>2. \A s \in {"body", "scope"} : [job[t] EXCEPT !.step = s] \in Job
    BY <2>1 DEF Job, Request
  <2>3. Idle \in Job
    BY DEF Job
  <2>4. job' \in [Threads -> Job]
    BY <1>5, <2>2, <2>3 DEF VerifyAgent
  <2>5. QED
    BY <1>5, <2>4 DEF VerifyAgent
<1>6. CASE EnforceRunScope(t)
  <2>1. job[t] \in Request
    BY <1>6 DEF EnforceRunScope, Job, Idle, Registration
  <2>2. [job[t] EXCEPT !.step = "forward"] \in Job
    BY <2>1 DEF Job, Request
  <2>3. Idle \in Job
    BY DEF Job
  <2>4. job' \in [Threads -> Job]
    BY <1>6, <2>2, <2>3 DEF EnforceRunScope
  <2>5. QED
    BY <1>6, <2>4 DEF EnforceRunScope
<1>7. CASE FinishRequest(t)
  BY <1>7 DEF FinishRequest, Job
<1>8. QED
  BY <1>1, <1>2, <1>3, <1>4, <1>5, <1>6, <1>7 DEF ThreadStep

LEMMA GcTypeOK ==
  ASSUME TypeOK, GcStep
  PROVE  TypeOK'
<1> USE DEF TypeOK, fileVars, envVars
<1>1. CASE GcStart
  BY <1>1 DEF GcStart, GcJob
<1>2. CASE GcSplit
  <2>1. gc \in [step: {"wait"}, now: Nat]
    BY <1>2 DEF GcSplit, GcJob, GcIdle
  <2>2. GcKeep(disk, file, gc.now) \subseteq Record
    BY GcKeepSubset, ParsedType
  <2>3. QED
    BY <1>2, <2>1, <2>2 DEF GcSplit, GcJob
<1>3. CASE GcReplace
  <2>1. gc \in [step: {"replace"}, now: Nat, keep: SUBSET Record]
    BY <1>3 DEF GcReplace, GcJob, GcIdle
  <2>2. QED
    BY <1>3, <2>1 DEF GcReplace, GcJob
<1>4. CASE GcCrash
  BY <1>4 DEF GcCrash, GcJob
<1>5. QED
  BY <1>1, <1>2, <1>3, <1>4 DEF GcStep

\* Every variable of the run store keeps its type in every behaviour.
THEOREM TypeCorrect == Spec => []TypeOK
<1>1. TypeOK /\ [Next]_vars => TypeOK'
  <2> SUFFICES ASSUME TypeOK, [Next]_vars PROVE TypeOK'
    OBVIOUS
  <2>1. CASE \E t \in Threads : ThreadStep(t)
    BY <2>1, ThreadTypeOK
  <2>2. CASE GcStep
    BY <2>2, GcTypeOK
  <2>3. CASE Tick
    BY <2>3 DEF Tick, TypeOK, fileVars
  <2>4. CASE EditConfig
    BY <2>4 DEF EditConfig, TypeOK, fileVars
  <2>5. CASE Restart
    BY <2>5 DEF Restart, TypeOK, fileVars, Job
  <2>6. CASE UNCHANGED vars
    BY <2>6 DEF vars, TypeOK
  <2>7. QED
    BY <2>1, <2>2, <2>3, <2>4, <2>5, <2>6 DEF Next
<1>2. QED
  BY <1>1, InitTypeOK, PTL DEF Spec
-----------------------------------------------------------------------------
(* The inductive invariant, when neither fault happens *)

\* Lines that hold the newest record of each run read as that record.
LEMMA HoldsReads ==
  ASSUME NEW lines, lines \subseteq stored, Holds(lines), NEW run \in Runs,
         TypeOK, \A r \in stored : Valid(cfg, r),
         \A r, q \in stored : r.pos = q.pos => r = q,
         NEW r \in Newest(run)
  PROVE  /\ Latest(cfg, lines, run) \subseteq {r}
         /\ ~Expired(r, clock) => Latest(cfg, lines, run) = {r}
<1>1. r \in stored /\ r.run = run /\ \A q \in stored : q.run = run => q.pos <= r.pos
  BY DEF Newest
<1>2. \A q \in stored : q.pos \in Nat
  BY DEF TypeOK, Record
<1>3. CASE r \in lines
  <2>1. r \in Latest(cfg, lines, run)
    BY <1>1, <1>3 DEF Latest
  <2>2. ASSUME NEW q \in Latest(cfg, lines, run) PROVE q = r
    <3>1. q \in stored /\ q.run = run /\ r.pos <= q.pos
      BY <1>1, <1>3 DEF Latest
    <3>2. q.pos = r.pos
      BY <1>1, <1>2, <3>1
    <3>3. QED
      BY <1>1, <3>1, <3>2
  <2>3. QED
    BY <2>1, <2>2
<1>4. CASE r \notin lines
  <2>1. Expired(r, clock) /\ \A q \in lines : q.run # run
    BY <1>4 DEF Holds
  <2>2. QED
    BY <2>1 DEF Latest
<1>5. QED
  BY <1>3, <1>4

LEMMA StoreInvDecides ==
  TypeOK /\ StoreInv => NewestRecordDecides
BY HoldsReads DEF StoreInv, NewestRecordDecides

LEMMA InitStoreInv == Init => StoreInv
BY DEF Init, StoreInv, DraftsValid, Holds, Suffix, Newest, Idle, GcIdle

LEMMA AppendStoreInv ==
  ASSUME TypeOK, StoreInv, NEW t \in Threads, AppendRecord(t)
  PROVE  StoreInv'
<1> DEFINE new == Line(job[t], end, TRUE)
<1>1. stored' = stored \cup {new} /\ file' = file \cup {new}
  BY DEF StoreInv, AppendRecord, NextLine, Glued
<1>2. job[t].scope.allow # {} /\ job[t].scope.allow \subseteq cfg
      /\ job[t].scope.deny \subseteq cfg /\ job[t].plain
  BY DEF StoreInv, DraftsValid, AppendRecord
<1>3. Valid(cfg, new) /\ new.plain /\ new.pos = end /\ new.run = job[t].run
  BY <1>2 DEF Valid, Line
<1> HIDE DEF new
<1>4. UNCHANGED <<cfg, clock, gc>> /\ end' = end + 1 /\ torn' = "none"
  BY DEF AppendRecord, envVars
<1>5. \A r \in stored : r.pos \in Nat /\ r.pos < end /\ end \in Nat
  BY DEF TypeOK, Record, StoreInv
<1>6. file' \subseteq stored'
  BY <1>1 DEF StoreInv
<1>7. \A r \in stored' : r.pos < end' /\ r.plain /\ Valid(cfg', r)
  <2>1. end \in Nat
    BY DEF TypeOK
  <2>2. \A r \in stored : r.pos < end'
    BY <1>4, <1>5
  <2>3. new.pos < end'
    BY <1>3, <1>4, <2>1
  <2>4. \A r \in stored' : r.plain /\ Valid(cfg, r)
    BY <1>1, <1>3 DEF StoreInv
  <2>5. QED
    BY <1>1, <1>4, <2>2, <2>3, <2>4
<1>8. \A r, q \in stored' : r.pos = q.pos => r = q
  <2>1. \A r \in stored : r.pos # new.pos
    BY <1>3, <1>5
  <2>2. QED
    BY <1>1, <2>1 DEF StoreInv
<1>9. DraftsValid'
  <2>1. job' = [job EXCEPT ![t] = Idle]
    BY DEF AppendRecord
  <2>2. \A u \in Threads : job'[u].step = "append" => job'[u] = job[u]
    BY <2>1 DEF TypeOK, Idle
  <2>3. QED
    BY <1>4, <2>2 DEF DraftsValid, StoreInv
<1>10. Holds(file)'
  <2> SUFFICES ASSUME NEW run \in Runs, NEW r \in Newest(run)'
               PROVE  r \in file' \/ (Expired(r, clock') /\ \A q \in file' : q.run # run)
    BY DEF Holds
  <2>1. r \in stored' /\ r.run = run /\ \A q \in stored' : q.run = run => q.pos <= r.pos
    BY DEF Newest
  <2>2. CASE r = new
    BY <1>1, <2>2
  <2>3. CASE r # new
    <3>1. r \in stored
      BY <1>1, <2>1, <2>3
    <3>2. new.run # run
      BY <1>1, <1>3, <1>5, <2>1, <3>1
    <3>3. r \in Newest(run)
      BY <1>1, <2>1, <3>1 DEF Newest
    <3>4. r \in file \/ (Expired(r, clock) /\ \A q \in file : q.run # run)
      BY <3>3 DEF StoreInv, Holds
    <3>5. QED
      BY <1>1, <1>4, <3>2, <3>4
  <2>4. QED
    BY <2>2, <2>3
<1>11. Suffix(file)'
  <2>1. \A r \in file, q \in stored : q.run = r.run /\ q.pos > r.pos => q \in file
    BY DEF StoreInv, Suffix
  <2>2. \A q \in stored : ~(q.pos > new.pos)
    BY <1>3, <1>5
  <2>3. QED
    BY <1>1, <2>1, <2>2 DEF Suffix
<1>12. gc'.step # "replace"
  BY <1>4 DEF AppendRecord, LockedByGc
<1>13. gc' # GcIdle => gc'.now <= clock'
  BY <1>4 DEF StoreInv
<1>14. QED
  BY <1>4, <1>6, <1>7, <1>8, <1>9, <1>10, <1>11, <1>12, <1>13 DEF StoreInv

\* A step that leaves the store, the configuration and gc-runs alone, lets
\* time pass or not, and starts no invalid draft, keeps the invariant.
LEMMA QuietStoreInv ==
  ASSUME TypeOK, StoreInv, UNCHANGED <<file, torn, end, stored, cfg, gc>>,
         clock' \in Nat, clock <= clock', DraftsValid'
  PROVE  StoreInv'
<1>1. \A r \in stored : Expired(r, clock) => Expired(r, clock')
  BY DEF Expired, TypeOK, Record
<1>2. \A run : Newest(run)' = Newest(run)
  BY DEF Newest
<1>3. ASSUME NEW lines, Holds(lines)
      PROVE  \A run \in Runs : \A r \in Newest(run)' :
               r \in lines \/ (Expired(r, clock') /\ \A q \in lines : q.run # run)
  BY <1>1, <1>2, <1>3 DEF Holds, Newest
<1>4. Holds(file)'
  BY <1>3 DEF Holds, StoreInv
<1>5. gc.step = "replace" => Holds(gc.keep)'
  BY <1>3 DEF Holds, StoreInv
<1>6. gc # GcIdle => gc.now <= clock'
  <2>1. gc # GcIdle => gc.now \in Nat
    BY DEF TypeOK, GcJob, GcIdle
  <2>2. QED
    BY <2>1 DEF StoreInv, TypeOK
<1>7. Suffix(file)' /\ (gc.step = "replace" => Suffix(gc.keep)')
  BY DEF Suffix, StoreInv
<1>8. QED
  BY <1>4, <1>5, <1>6, <1>7 DEF StoreInv

\* Every thread step other than an append starts a valid draft or none.
LEMMA ThreadStoreInv ==
  ASSUME NoFaults, TypeOK, StoreInv, NEW t \in Threads, ThreadStep(t)
  PROVE  StoreInv'
<1>1. CASE AppendRecord(t)
  BY <1>1, AppendStoreInv
<1>2. ~TearAppend(t) /\ ~TearNewline(t)
  BY ConstantsAssumption DEF NoFaults, TearAppend, TearNewline, TypeOK
<1>3. clock \in Nat
  BY DEF TypeOK
<1>4. ASSUME NEW j, job' = [job EXCEPT ![t] = j], cfg' = cfg,
             j.step = "append" => /\ j.scope.allow # {}
                                  /\ j.scope.allow \subseteq cfg
                                  /\ j.scope.deny \subseteq cfg
                                  /\ j.plain
      PROVE  DraftsValid'
  BY <1>4 DEF DraftsValid, StoreInv, TypeOK
<1>5. CASE BuildRegistration(t)
  <2>1. DraftsValid'
    BY <1>4, <1>5 DEF BuildRegistration, NoFaults, envVars
  <2>2. QED
    BY <1>3, <1>5, <2>1, QuietStoreInv DEF BuildRegistration, fileVars, envVars
<1>6. CASE BeginRequest(t)
  <2>1. DraftsValid'
    BY <1>4, <1>6 DEF BeginRequest, envVars
  <2>2. QED
    BY <1>3, <1>6, <2>1, QuietStoreInv DEF BeginRequest, fileVars, envVars
<1>7. CASE VerifyAgent(t)
  <2>1. job[t] \in Request
    BY <1>7 DEF VerifyAgent, TypeOK, Job, Idle, Registration
  <2>2. PICK j : job' = [job EXCEPT ![t] = j] /\ j.step # "append"
    <3>1. Idle.step # "append"
      BY DEF Idle
    <3>2. \A s : [job[t] EXCEPT !.step = s].step = s
      BY <2>1 DEF Request
    <3>3. QED
      BY <1>7, <3>1, <3>2 DEF VerifyAgent
  <2>3. DraftsValid'
    BY <1>4, <1>7, <2>2 DEF VerifyAgent, envVars
  <2>4. QED
    BY <1>3, <1>7, <2>3, QuietStoreInv DEF VerifyAgent, fileVars, envVars
<1>8. CASE EnforceRunScope(t)
  <2>1. job[t] \in Request
    BY <1>8 DEF EnforceRunScope, TypeOK, Job, Idle, Registration
  <2>2. PICK j : job' = [job EXCEPT ![t] = j] /\ j.step # "append"
    <3>1. Idle.step # "append"
      BY DEF Idle
    <3>2. \A s : [job[t] EXCEPT !.step = s].step = s
      BY <2>1 DEF Request
    <3>3. QED
      BY <1>8, <3>1, <3>2 DEF EnforceRunScope
  <2>3. DraftsValid'
    BY <1>4, <1>8, <2>2 DEF EnforceRunScope, envVars
  <2>4. QED
    BY <1>3, <1>8, <2>3, QuietStoreInv DEF EnforceRunScope, fileVars, envVars
<1>9. CASE FinishRequest(t)
  <2>1. DraftsValid'
    BY <1>4, <1>9 DEF FinishRequest, Idle, envVars
  <2>2. QED
    BY <1>3, <1>9, <2>1, QuietStoreInv DEF FinishRequest, fileVars, envVars
<1>10. QED
  BY <1>1, <1>2, <1>5, <1>6, <1>7, <1>8, <1>9 DEF ThreadStep

\* gc-runs removes whole runs, and only runs whose newest record expired.
LEMMA GcStoreInv ==
  ASSUME StableConfig, TypeOK, StoreInv, GcStep
  PROVE  StoreInv'
<1> USE DEF StoreInv, fileVars, envVars
<1>1. clock \in Nat /\ disk = cfg
  BY DEF TypeOK, StableConfig
<1>2. CASE GcStart
  <2>1. UNCHANGED <<file, torn, end, stored, cfg, clock, job>> /\ gc' = [step |-> "wait", now |-> clock]
    BY <1>2 DEF GcStart
  <2>2. gc'.now <= clock' /\ gc'.step # "replace"
    BY <1>1, <2>1
  <2>3. DraftsValid' /\ Holds(file)' /\ Suffix(file)'
    BY <2>1 DEF DraftsValid, Holds, Suffix, Newest
  <2>4. QED
    BY <2>1, <2>2, <2>3
<1>3. CASE GcSplit
  <2> DEFINE keep == GcKeep(cfg, file, gc.now)
  <2>1. UNCHANGED <<file, torn, end, stored, cfg, clock, job>>
        /\ gc' = [step |-> "replace", now |-> gc.now, keep |-> keep]
    BY <1>1, <1>3 DEF GcSplit
  <2>2. gc # GcIdle /\ gc.now \in Nat /\ gc.now <= clock
    BY <1>3 DEF GcSplit, TypeOK, GcJob, GcIdle
  <2>0. Parsed(file) = file
    BY ParsedPlain
  <2>3. keep \subseteq file
    BY <2>0, GcKeepSubset
  <2>4. \A r \in keep, q \in file : q.run = r.run => q \in keep
    BY <2>0 DEF GcKeep, Valid
  <2>5. Holds(keep)
    <3> SUFFICES ASSUME NEW run \in Runs, NEW r \in Newest(run)
                 PROVE  r \in keep \/ (Expired(r, clock) /\ \A q \in keep : q.run # run)
      BY DEF Holds
    <3>1. r \in stored /\ r.run = run /\ r.whole
      BY DEF Newest, Valid
    <3>2. CASE r \notin file
      BY <2>3, <3>2 DEF Holds
    <3>3. CASE r \in keep
      BY <3>3
    <3>4. CASE r \in file /\ r \notin keep
      <4>1. PICK q \in Latest(cfg, file, run) : Expired(q, gc.now)
        BY <2>0, <3>1, <3>4 DEF GcKeep
      <4>2. q = r
        BY <4>1, HoldsReads
      <4>3. Expired(r, clock)
        BY <2>2, <3>1, <4>1, <4>2, <1>1 DEF Expired, TypeOK, Record
      <4>4. \A p \in keep : p.run # run
        BY <2>4, <3>1, <3>4
      <4>5. QED
        BY <4>3, <4>4
    <3>5. QED
      BY <3>2, <3>3, <3>4
  <2>6. Holds(file)' /\ Holds(gc.keep)'
    BY <2>1, <2>5 DEF Holds, Newest
  <2>7. Suffix(keep)
    BY <2>3, <2>4 DEF Suffix
  <2>8. Suffix(file)' /\ Suffix(gc.keep)'
    BY <2>1, <2>7 DEF Suffix
  <2>9. DraftsValid'
    BY <2>1 DEF DraftsValid
  <2> HIDE DEF keep
  <2>10. gc'.keep = keep /\ gc'.now = gc.now
    BY <2>1
  <2>11. QED
    BY <2>1, <2>2, <2>3, <2>4, <2>6, <2>8, <2>9, <2>10
<1>4. CASE GcReplace
  <2>1. UNCHANGED <<end, stored, cfg, clock, job>> /\ torn' = "none" /\ file' = gc.keep /\ gc' = GcIdle
    BY <1>4 DEF GcReplace
  <2>2. Holds(gc.keep) /\ gc.keep \subseteq stored
    BY <1>4 DEF GcReplace
  <2>3. Holds(file)' /\ Suffix(file)'
    BY <1>4, <2>1, <2>2 DEF GcReplace, Holds, Suffix, Newest
  <2>4. DraftsValid'
    BY <2>1 DEF DraftsValid
  <2>5. QED
    BY <2>1, <2>2, <2>3, <2>4 DEF GcIdle
<1>5. CASE GcCrash
  <2>1. UNCHANGED <<file, torn, end, stored, cfg, clock, job>> /\ gc' = GcIdle
    BY <1>5 DEF GcCrash
  <2>2. DraftsValid' /\ Holds(file)' /\ Suffix(file)'
    BY <2>1 DEF DraftsValid, Holds, Suffix, Newest
  <2>3. QED
    BY <2>1, <2>2 DEF GcIdle
<1>6. QED
  BY <1>2, <1>3, <1>4, <1>5 DEF GcStep

LEMMA NextStoreInv ==
  ASSUME StableConfig, NoFaults, TypeOK, StoreInv, [Next]_vars
  PROVE  StoreInv'
<1>1. CASE \E t \in Threads : ThreadStep(t)
  BY <1>1, ThreadStoreInv
<1>2. CASE GcStep
  BY <1>2, GcStoreInv
<1>3. clock \in Nat /\ disk = cfg
  BY DEF TypeOK, StableConfig
<1>4. CASE Tick
  <2>1. DraftsValid'
    BY <1>4 DEF Tick, DraftsValid, StoreInv
  <2>2. QED
    BY <1>3, <1>4, <2>1, QuietStoreInv DEF Tick, fileVars
<1>5. ~EditConfig
  BY DEF EditConfig, TypeOK, StableConfig
<1>6. CASE Restart
  <2>1. DraftsValid'
    BY <1>6 DEF Restart, DraftsValid, Idle
  <2>2. QED
    BY <1>3, <1>6, <2>1, QuietStoreInv DEF Restart, fileVars
<1>7. CASE UNCHANGED vars
  <2>1. DraftsValid'
    BY <1>7 DEF vars, DraftsValid, StoreInv
  <2>2. QED
    BY <1>3, <1>7, <2>1, QuietStoreInv DEF vars
<1>8. QED
  BY <1>1, <1>2, <1>4, <1>5, <1>6, <1>7 DEF Next

LEMMA StoreInvAlways ==
  ASSUME StableConfig, NoFaults
  PROVE  Spec => []StoreInv
<1>1. TypeOK /\ TypeOK' /\ StoreInv /\ [Next]_vars => StoreInv'
  BY NextStoreInv
<1>2. QED
  BY <1>1, InitStoreInv, TypeCorrect, PTL DEF Spec

\* Without torn lines, separators and configuration edits, every reader acts
\* on the newest record stored for a run, however gc-runs interleaves with appends.
THEOREM NewestRecordAlwaysDecides ==
  ASSUME StableConfig, NoFaults
  PROVE  Spec => []NewestRecordDecides
<1>1. TypeOK /\ StoreInv => NewestRecordDecides
  BY StoreInvDecides
<1>2. QED
  BY <1>1, StoreInvAlways, TypeCorrect, PTL

-----------------------------------------------------------------------------
(* No step revives an identity *)

LEMMA SameStoreSameLive ==
  ASSUME TypeOK, UNCHANGED <<file, cfg>>, clock' \in Nat, clock <= clock',
         NEW run \in Runs, NEW token \in Tokens, Live(run, token)'
  PROVE  Live(run, token)
<1>1. PICK r \in Latest(cfg, file, run) : r.token = token /\ ~Expired(r, clock')
  BY DEF Live, TokenValid
<1>2. r.exp \in Nat
  BY <1>1 DEF Latest, TypeOK, Record
<1>3. ~Expired(r, clock)
  BY <1>1, <1>2 DEF Expired, TypeOK
<1>4. QED
  BY <1>1, <1>3 DEF Live, TokenValid

LEMMA StepRevivesNothing ==
  ASSUME StableConfig, NoFaults, TypeOK, StoreInv, Next,
         NEW run \in Runs, NEW token \in Tokens,
         ~Live(run, token), Live(run, token)'
  PROVE  \E r \in file' \ file : r.run = run /\ r.token = token
<1>1. PICK r \in Latest(cfg', file', run) : r.token = token /\ ~Expired(r, clock')
  BY DEF Live, TokenValid
<1>2. r \in file' /\ r.run = run /\ Valid(cfg', r)
      /\ \A q \in file' : Valid(cfg', q) /\ q.run = run => q.pos <= r.pos
  BY <1>1 DEF Latest
<1>3. clock \in Nat /\ disk = cfg
  BY DEF TypeOK, StableConfig
<1>4. CASE UNCHANGED <<file, cfg, clock>>
  BY <1>3, <1>4, SameStoreSameLive
<1>5. CASE \E t \in Threads : AppendRecord(t)
  <2>1. UNCHANGED <<cfg, clock>> /\ file \subseteq file'
    BY <1>5 DEF AppendRecord, StoreInv, Glued, envVars
  <2>2. r \notin file
    <3> SUFFICES ASSUME r \in file PROVE FALSE
      OBVIOUS
    <3>1. r \in Latest(cfg, file, run)
      BY <1>2, <2>1 DEF Latest
    <3>2. QED
      BY <1>1, <2>1, <3>1 DEF Live, TokenValid
  <2>3. QED
    BY <1>1, <1>2, <2>2
<1>6. CASE GcReplace
  <2>1. UNCHANGED <<cfg, clock>> /\ file' = gc.keep
    BY <1>6 DEF GcReplace, envVars
  <2>2. gc.keep \subseteq file
        /\ \A p \in gc.keep, q \in file : q.run = p.run => q \in gc.keep
    BY <1>6 DEF GcReplace, StoreInv
  <2>3. r \in Latest(cfg, file, run)
    BY <1>2, <2>1, <2>2 DEF Latest
  <2>4. QED
    BY <1>1, <2>1, <2>3 DEF Live, TokenValid
<1>7. CASE Tick
  BY <1>3, <1>7, SameStoreSameLive DEF Tick, fileVars
<1>8. CASE Restart
  BY <1>3, <1>8, SameStoreSameLive DEF Restart, fileVars
<1>9. ~EditConfig
  BY DEF EditConfig, TypeOK, StableConfig
<1>10. CASE \E t \in Threads : ~AppendRecord(t) /\ ThreadStep(t)
  <2>1. \A t \in Threads : ~TearAppend(t) /\ ~TearNewline(t)
    BY ConstantsAssumption DEF NoFaults, TearAppend, TearNewline, TypeOK
  <2>2. QED
    BY <1>4, <1>10, <2>1 DEF ThreadStep, BuildRegistration, BeginRequest,
       VerifyAgent, EnforceRunScope, FinishRequest, fileVars, envVars
<1>11. CASE GcStep /\ ~GcReplace
  BY <1>4, <1>11 DEF GcStep, GcStart, GcSplit, GcCrash, fileVars, envVars
<1>12. QED
  BY <1>5, <1>6, <1>7, <1>8, <1>9, <1>10, <1>11 DEF Next

\* A worker identity that is not live becomes live only by an append of a
\* record that carries its token: gc-runs, the passage of time and a restart
\* never revive a revoked or expired identity.
THEOREM NothingRevives ==
  ASSUME StableConfig, NoFaults
  PROVE  Spec => NoRevival
<1>1. TypeOK /\ StoreInv /\ [Next]_vars
        => [\A run \in Runs, token \in Tokens :
              ~Live(run, token) /\ Live(run, token)'
                => \E r \in file' \ file : r.run = run /\ r.token = token]_vars
  BY StepRevivesNothing
<1>2. QED
  BY <1>1, StoreInvAlways, TypeCorrect, PTL DEF Spec, NoRevival

-----------------------------------------------------------------------------
(* Revival under edited configurations and torn appends *)

\* No reason holds a separator, and what gc-runs is about to keep of a run's
\* readable lines are all of them or none, in a file that nobody else changes
\* meanwhile.
KeptWhole(lines, kept) ==
  /\ kept \subseteq lines
  /\ \A p \in kept, q \in lines : p.whole /\ q.whole /\ q.run = p.run => q \in kept

GcInv ==
  /\ \A r \in file : r.plain
  /\ \A t \in Threads : job[t].step = "append" => job[t].plain
  /\ gc.step = "replace" => KeptWhole(file, gc.keep)

LEMMA GcKeepsWhole ==
  ASSUME NEW c, NEW lines \in SUBSET Record, \A r \in lines : r.plain, NEW now
  PROVE  KeptWhole(lines, GcKeep(c, lines, now))
BY ParsedPlain DEF GcKeep, KeptWhole

LEMMA GluedPlain ==
  ASSUME NEW lines \in SUBSET Record, \A r \in lines : r.plain
  PROVE  \A r \in Glued(lines) : r.plain
BY DEF Glued, Record

LEMMA ThreadGcInv ==
  ASSUME Plain \subseteq {TRUE}, TypeOK, GcInv, NEW t \in Threads, ThreadStep(t)
  PROVE  GcInv'
<1>1. CASE BuildRegistration(t)
  <2>1. PICK run \in Runs, token \in Tokens \cup {NoToken}, scope \in Scopes,
            ttl \in Ttls, plain \in Plain :
          job' = [job EXCEPT ![t] = [step |-> "append", run |-> run, token |-> token,
                                     scope |-> scope, exp |-> ExpiresAt(clock, ttl),
                                     plain |-> plain]]
    BY <1>1 DEF BuildRegistration
  <2>2. job'[t].plain /\ \A u \in Threads \ {t} : job'[u] = job[u]
    BY <2>1 DEF TypeOK
  <2>3. UNCHANGED <<file, gc>>
    BY <1>1 DEF BuildRegistration, fileVars
  <2> QED
    BY <2>2, <2>3 DEF GcInv
<1>2. CASE AppendRecord(t) \/ TearAppend(t) \/ TearNewline(t)
  <2>1. /\ gc' = gc /\ gc.step # "replace" /\ job[t].plain
        /\ job'[t].step # "append" /\ \A u \in Threads \ {t} : job'[u] = job[u]
        /\ file' \subseteq Glued(file) \cup {NextLine(job[t])}
    BY <1>2 DEF AppendRecord, TearAppend, TearNewline, LockedByGc, GcInv, TypeOK, Idle
  <2>2. NextLine(job[t]).plain
    BY <2>1 DEF NextLine, Line
  <2>3. \A r \in file' : r.plain
    BY <2>1, <2>2, GluedPlain DEF GcInv, TypeOK
  <2> QED
    BY <2>1, <2>3 DEF GcInv
<1>3. CASE BeginRequest(t) \/ VerifyAgent(t) \/ EnforceRunScope(t) \/ FinishRequest(t)
  <2>1. /\ UNCHANGED <<file, gc>> /\ \A u \in Threads \ {t} : job'[u] = job[u]
        /\ job'[t].step # "append"
    <3>1. CASE BeginRequest(t) \/ FinishRequest(t)
      BY <3>1 DEF BeginRequest, FinishRequest, fileVars, TypeOK, Idle
    <3>2. CASE VerifyAgent(t) \/ EnforceRunScope(t)
      <4>1. job[t] \in Request
        BY <3>2 DEF VerifyAgent, EnforceRunScope, TypeOK, Job, Idle, Registration
      <4>2. job'[t] = Idle \/ \E s \in {"body", "scope", "forward"} :
                                job'[t] = [job[t] EXCEPT !.step = s]
        BY <3>2 DEF VerifyAgent, EnforceRunScope, TypeOK
      <4>3. job'[t].step # "append"
        BY <4>1, <4>2 DEF Request, Idle
      <4> QED
        BY <3>2, <4>3 DEF VerifyAgent, EnforceRunScope, fileVars, TypeOK
    <3> QED
      BY <1>3, <3>1, <3>2
  <2> QED
    BY <2>1 DEF GcInv
<1> QED
  BY <1>1, <1>2, <1>3 DEF ThreadStep

LEMMA NextGcInv ==
  ASSUME Plain \subseteq {TRUE}, TypeOK, GcInv, [Next]_vars
  PROVE  GcInv'
<1>1. CASE GcSplit
  <2>1. KeptWhole(file, GcKeep(disk, file, gc.now))
    BY GcKeepsWhole DEF GcInv, TypeOK
  <2> QED
    BY <1>1, <2>1 DEF GcSplit, fileVars, GcInv
<1>2. CASE GcStart \/ GcCrash
  BY <1>2 DEF GcStart, GcCrash, GcIdle, fileVars, GcInv
<1>3. CASE GcReplace
  BY <1>3 DEF GcReplace, GcIdle, GcInv, KeptWhole
<1>4. CASE Tick \/ EditConfig \/ UNCHANGED vars
  BY <1>4 DEF Tick, EditConfig, vars, fileVars, GcInv
<1>5. CASE Restart
  BY <1>5 DEF Restart, fileVars, GcInv, Idle
<1> QED
  BY <1>1, <1>2, <1>3, <1>4, <1>5, ThreadGcInv DEF Next, GcStep

\* Lines that are added, but glue no record, revive nothing but their own
\* token.
LEMMA AddedRevives ==
  ASSUME UNCHANGED <<cfg, clock>>, file \subseteq file',
         NEW run \in Runs, NEW token \in Tokens, ~Live(run, token), Live(run, token)'
  PROVE  \E r \in file' \ file : r.run = run /\ r.token = token
<1>1. PICK r \in Latest(cfg, file', run) : r.token = token /\ ~Expired(r, clock)
  BY DEF Live, TokenValid
<1>2. r \in file' /\ r.run = run
  BY <1>1 DEF Latest
<1>3. r \notin file
  <2> SUFFICES ASSUME r \in file PROVE FALSE
    OBVIOUS
  <2>1. r \in Latest(cfg, file, run)
    BY <1>1 DEF Latest
  <2> QED
    BY <1>1, <2>1 DEF Live, TokenValid
<1> QED
  BY <1>1, <1>2, <1>3

LEMMA StepRevives ==
  ASSUME TypeOK, GcInv, Next, cfg' = cfg, ~(torn = "record" /\ torn' # "record"),
         NEW run \in Runs, NEW token \in Tokens, ~Live(run, token), Live(run, token)'
  PROVE  \E r \in file' \ file : r.run = run /\ r.token = token
<1>1. CASE \E t \in Threads : AppendRecord(t) \/ TearAppend(t) \/ TearNewline(t)
  <2>1. clock' = clock /\ torn # "record"
    BY <1>1 DEF AppendRecord, TearAppend, TearNewline, envVars
  <2>2. file \subseteq file'
    BY <1>1, <2>1 DEF AppendRecord, TearAppend, TearNewline, Glued
  <2> QED
    BY <2>1, <2>2, AddedRevives
<1>2. CASE GcReplace
  <2>1. clock' = clock /\ file' = gc.keep /\ KeptWhole(file, gc.keep)
    BY <1>2 DEF GcReplace, envVars, GcInv
  <2>2. PICK r \in Latest(cfg, file', run) : r.token = token /\ ~Expired(r, clock)
    BY <2>1 DEF Live, TokenValid
  <2>3. r \in Latest(cfg, file, run)
    BY <2>1, <2>2 DEF Latest, Valid, KeptWhole
  <2> QED
    BY <2>2, <2>3 DEF Live, TokenValid
<1>3. CASE Tick
  BY <1>3, SameStoreSameLive DEF Tick, fileVars, TypeOK
<1>4. CASE UNCHANGED <<file, clock>>
  BY <1>4, SameStoreSameLive DEF TypeOK
<1>5. CASE \E t \in Threads : \/ BuildRegistration(t) \/ BeginRequest(t) \/ VerifyAgent(t)
                              \/ EnforceRunScope(t) \/ FinishRequest(t)
  BY <1>4, <1>5 DEF BuildRegistration, BeginRequest, VerifyAgent, EnforceRunScope,
                    FinishRequest, fileVars, envVars
<1>6. CASE GcStart \/ GcSplit \/ GcCrash \/ EditConfig \/ Restart
  BY <1>4, <1>6 DEF GcStart, GcSplit, GcCrash, EditConfig, Restart, fileVars, envVars
<1> QED
  BY <1>1, <1>2, <1>3, <1>5, <1>6 DEF Next, ThreadStep, GcStep

\* Whatever configurations are edited and appends torn, an identity that is
\* not live comes back only by a record with its token, a restart onto another
\* configuration, or the loss of a newest record without its newline; gc-runs
\* brings none back.  Reasons with a line separator are excluded: at one of
\* them gc-runs cuts a live record in two.
THEOREM NothingRevivesWhileRunning ==
  ASSUME Plain \subseteq {TRUE}
  PROVE  Spec => NoRevivalWhileRunning
<1>1. Init => GcInv
  BY DEF Init, GcInv, Idle, GcIdle
<1>2. TypeOK /\ GcInv /\ [Next]_vars => GcInv'
  BY NextGcInv
<1>3. TypeOK /\ GcInv /\ [Next]_vars
        => [\A run \in Runs, token \in Tokens :
              ~Live(run, token) /\ Live(run, token)'
                => \/ \E r \in file' \ file : r.run = run /\ r.token = token
                   \/ cfg' # cfg
                   \/ torn = "record" /\ torn' # "record"]_vars
  BY StepRevives
<1> QED
  BY <1>1, <1>2, <1>3, TypeCorrect, PTL DEF Spec, NoRevivalWhileRunning

-----------------------------------------------------------------------------
(* What admits a request *)

\* What is latest in the file is newest of everything stored for the run.
LEMMA LatestIsNewest ==
  ASSUME TypeOK, StoreInv, NEW run, NEW p \in Latest(cfg, file, run)
  PROVE  p \in Newest(run)
<1>1. p \in file /\ p \in stored /\ p.run = run
  BY DEF Latest, StoreInv
<1>2. ASSUME NEW q \in stored, q.run = run PROVE q.pos <= p.pos
  <2>1. p.pos \in Nat /\ q.pos \in Nat
    BY <1>1 DEF TypeOK, Record
  <2>2. CASE q \in file
    BY <1>2, <2>2 DEF Latest, StoreInv
  <2>3. CASE ~(q.pos > p.pos)
    BY <2>1, <2>3
  <2>4. QED
    BY <1>1, <1>2, <2>2, <2>3 DEF StoreInv, Suffix
<1>3. QED
  BY <1>1, <1>2 DEF Newest

LEMMA AdmissionStep ==
  ASSUME StableConfig, NoFaults, TypeOK, StoreInv, Next,
         NEW t \in Threads, job[t].step = "scope", job'[t].step = "forward"
  PROVE  AdmittedBy(job[t])
<1>1. job[t] \in Request
  BY DEF TypeOK, Job, Idle, Registration
<1>2. EnforceRunScope(t)
  <2>1. job'[t] # job[t] /\ job'[t] # Idle
    BY DEF Idle
  <2>2. PICK u \in Threads : ThreadStep(u)
    BY <2>1 DEF Next, GcStep, GcStart, GcSplit, GcReplace, GcCrash, Tick, EditConfig, Restart
  <2>3. u = t
    BY <2>1, <2>2 DEF TypeOK, ThreadStep, BuildRegistration, AppendRecord, TearAppend,
       TearNewline, BeginRequest, VerifyAgent, EnforceRunScope, FinishRequest
  <2>4. QED
    BY <2>2, <2>3 DEF ThreadStep, BuildRegistration, AppendRecord, TearAppend, TearNewline,
       BeginRequest, VerifyAgent, FinishRequest, Idle
<1>3. ScopeAdmits(cfg, file, job[t].run, job[t].role, job[t].route, clock)
  BY <1>2 DEF EnforceRunScope, TypeOK, Idle
<1>4. CASE job[t].run \notin DOMAIN StaticRuns
  <2>1. CASE \E p \in Latest(cfg, file, job[t].run) :
               ~Expired(p, clock) /\ ScopeAllows(p.scope, job[t].role, job[t].route)
    BY <2>1, LatestIsNewest DEF AdmittedBy
  <2>2. CASE Latest(cfg, file, job[t].run) = {} /\ ~RequireKnownRunId
    <3>1. NewestRecordDecides
      BY StoreInvDecides
    <3>2. job[t].run \in Runs
      BY <1>1 DEF Request
    <3>3. \A r \in Newest(job[t].run) : Expired(r, clock)
      BY <2>2, <3>1, <3>2 DEF NewestRecordDecides
    <3>4. QED
      BY <2>2, <3>3 DEF AdmittedBy
  <2>3. QED
    BY <1>3, <1>4, <2>1, <2>2 DEF ScopeAdmits, Resolve
<1>5. QED
  BY <1>4 DEF AdmittedBy

\* Whether or not require_known_run_id is set, a request passes the scope check
\* only under the newest record ever stored for its run, or with none in force.
THEOREM OnlyNewestAdmits ==
  ASSUME StableConfig, NoFaults
  PROVE  Spec => AdmittedByNewest
<1>1. TypeOK /\ StoreInv /\ [Next]_vars
        => [\A t \in Threads :
              job[t].step = "scope" /\ job'[t].step = "forward" => AdmittedBy(job[t])]_vars
  BY AdmissionStep
<1>2. QED
  BY <1>1, StoreInvAlways, TypeCorrect, PTL DEF Spec, AdmittedByNewest

-----------------------------------------------------------------------------
(* The store implements RunScopes *)

GrantMap == [run \in Runs |-> {GrantOf(r) : r \in Latest(cfg, file, run)}]

LEMMA AppendRegisters ==
  ASSUME TypeOK, StoreInv, NEW t \in Threads, AppendRecord(t)
  PROVE  Promise!Register(job[t].run)
<1> DEFINE new == Line(job[t], end, TRUE)
<1>1. stored' = stored \cup {new} /\ file' = file \cup {new} /\ UNCHANGED <<cfg, clock>>
  BY DEF StoreInv, AppendRecord, NextLine, Glued, envVars
<1>2. job[t] \in Registration
  BY DEF AppendRecord, TypeOK, Job, Idle, Request
<1>3. new.run = job[t].run /\ new.pos = end /\ Valid(cfg, new)
  BY DEF StoreInv, DraftsValid, AppendRecord, Valid, Line
<1>4. new.run \in Runs /\ GrantOf(new) \in Grant
  BY <1>2 DEF Line, GrantOf, Grant, Registration
<1> HIDE DEF new
<1>5. end \in Nat /\ \A r \in file : r.pos \in Nat /\ r.pos < end /\ r # new
  BY <1>3 DEF TypeOK, Record, StoreInv
<1>6. Latest(cfg', file', new.run) = {new}
  BY <1>1, <1>3, <1>5 DEF Latest
<1>7. \A run \in Runs \ {new.run} : Latest(cfg', file', run) = Latest(cfg, file, run)
  BY <1>1, <1>3 DEF Latest
<1>8. GrantMap' = [GrantMap EXCEPT ![new.run] = {GrantOf(new)}]
  <2>1. {GrantOf(r) : r \in Latest(cfg', file', new.run)} = {GrantOf(new)}
    BY <1>6
  <2>2. \A run \in Runs \ {new.run} :
          {GrantOf(r) : r \in Latest(cfg', file', run)} = {GrantOf(r) : r \in Latest(cfg, file, run)}
    BY <1>7
  <2>3. QED
    BY <1>4, <2>1, <2>2 DEF GrantMap
<1>9. GrantOf(new) \in GrantMap'[new.run]
  BY <1>4, <1>6 DEF GrantMap
<1>10. QED
  BY <1>1, <1>3, <1>4, <1>8, <1>9 DEF Promise!Register, GrantMap

LEMMA CollectionForgets ==
  ASSUME TypeOK, StoreInv, GcReplace
  PROVE  Promise!Forget
<1>1. file' = gc.keep /\ UNCHANGED <<cfg, clock, stored>>
  BY DEF GcReplace, envVars
<1>2. /\ gc.keep \subseteq file
      /\ Holds(gc.keep)
      /\ \A r \in gc.keep, q \in file : q.run = r.run => q \in gc.keep
  BY DEF StoreInv, GcReplace
<1> DEFINE gone == {run \in Runs : \A r \in gc.keep : r.run # run}
<1>3. ASSUME NEW run \in Runs, run \notin gone
      PROVE  Latest(cfg', file', run) = Latest(cfg, file, run)
  <2>1. PICK r \in gc.keep : r.run = run
    BY <1>3
  <2>2. \A q \in file : q.run = run => q \in gc.keep
    BY <1>2, <2>1
  <2>3. QED
    BY <1>1, <1>2, <2>2 DEF Latest
<1>4. ASSUME NEW run \in gone
      PROVE  /\ Latest(cfg', file', run) = {}
             /\ \A p \in Latest(cfg, file, run) : Expired(p, clock)
  <2>1. Latest(cfg', file', run) = {}
    BY <1>1 DEF Latest
  <2>2. ASSUME NEW p \in Latest(cfg, file, run) PROVE Expired(p, clock)
    <3>1. p \in Newest(run) /\ p.run = run
      BY <2>2, LatestIsNewest DEF Latest
    <3>2. p \notin gc.keep
      BY <3>1
    <3>3. QED
      BY <1>2, <3>1, <3>2 DEF Holds
  <2>3. QED
    BY <2>1, <2>2
<1> HIDE DEF gone
<1>5. gone \subseteq Runs
  BY DEF gone
<1>6. \A run \in gone : \A g \in GrantMap[run] : g.exp < clock
  BY <1>4, <1>5 DEF GrantMap, GrantOf, Expired
<1>7. GrantMap' = [run \in Runs |-> IF run \in gone THEN {} ELSE GrantMap[run]]
  BY <1>3, <1>4 DEF GrantMap
<1>8. QED
  BY <1>1, <1>5, <1>6, <1>7 DEF Promise!Forget, GrantMap

LEMMA InitImplements == Init => Promise!Init
BY DEF Init, Promise!Init, Latest

LEMMA StepImplements ==
  ASSUME StableConfig, NoFaults, TypeOK, StoreInv, [Next]_vars
  PROVE  [Promise!Next]_Promise!vars
<1>1. ASSUME UNCHANGED <<file, cfg, clock>> PROVE UNCHANGED Promise!vars
  BY <1>1 DEF Promise!vars, Latest
<1>2. disk = cfg
  BY DEF TypeOK, StableConfig
<1>3. CASE \E t \in Threads : AppendRecord(t)
  <2>1. PICK t \in Threads : AppendRecord(t)
    BY <1>3
  <2>2. job[t].run \in Runs
    BY <2>1 DEF AppendRecord, TypeOK, Job, Idle, Request, Registration
  <2>3. QED
    BY <2>1, <2>2, AppendRegisters DEF Promise!Next
<1>4. CASE GcReplace
  BY <1>4, CollectionForgets DEF Promise!Next
<1>5. CASE Tick
  BY <1>5 DEF Tick, fileVars, Promise!Next, Promise!Tick, Latest
<1>6. CASE Restart
  BY <1>1, <1>2, <1>6 DEF Restart, fileVars
<1>7. ~EditConfig
  BY DEF EditConfig, TypeOK, StableConfig
<1>8. CASE \E t \in Threads : ~AppendRecord(t) /\ ThreadStep(t)
  <2>1. \A t \in Threads : ~TearAppend(t) /\ ~TearNewline(t)
    BY ConstantsAssumption DEF NoFaults, TearAppend, TearNewline, TypeOK
  <2>2. QED
    BY <1>1, <1>8, <2>1 DEF ThreadStep, BuildRegistration, BeginRequest,
       VerifyAgent, EnforceRunScope, FinishRequest, fileVars, envVars
<1>9. CASE GcStep /\ ~GcReplace
  BY <1>1, <1>9 DEF GcStep, GcStart, GcSplit, GcCrash, fileVars, envVars
<1>10. CASE UNCHANGED vars
  BY <1>1, <1>10 DEF vars
<1>11. QED
  BY <1>3, <1>4, <1>5, <1>6, <1>7, <1>8, <1>9, <1>10 DEF Next

\* The run store implements RunScopes: to its readers it is one grant per
\* run, replaced by registration and forgotten only after it expired.
THEOREM StoreImplementsScopes ==
  ASSUME StableConfig, NoFaults
  PROVE  Spec => ImplementsRunScopes
<1>1. TypeOK /\ StoreInv /\ [Next]_vars => [Promise!Next]_Promise!vars
  BY StepImplements
<1>2. QED
  BY <1>1, InitImplements, StoreInvAlways, TypeCorrect, PTL
     DEF Spec, ImplementsRunScopes, Promise!Spec
=============================================================================
