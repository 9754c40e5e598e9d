------------------------ MODULE ArtifactStoreProofs ------------------------
(***************************************************************************)
(* Theorems about ArtifactStore, for any number of artifacts, contents,    *)
(* threads and faults, and any retention.                                  *)
(***************************************************************************)
EXTENDS ArtifactStore, GuardProofs

-----------------------------------------------------------------------------
(* Types *)

LEMMA RetentionType == Retention \in Nat /\ Retention > 0
BY ConstantsAssumption

LEMMA ResultTypes == ASSUME NEW c \in Contents PROVE Result(c) \subseteq Findings
BY DEF Result, Inspected, Concluded, Findings

LEMMA VerdictTypes ==
  ASSUME NEW finding \in Findings, NEW warn \in BOOLEAN
  PROVE  Verdict(finding, warn) \in Statuses
BY DEF Findings, Verdict, Statuses

\* What the steps say of jobs.
LEMMA JobKinds ==
  ASSUME TypeOK, NEW t \in Threads
  PROVE  /\ job[t].step \in StoringSteps <=> job[t] \in Storing
         /\ job[t].step = "read" => job[t] \in Reading
         /\ job[t].step \in {"deliver", "ask"} => job[t] \in Serving
         /\ job[t] \in Storing \/ job[t] \in Reading \/ job[t] \in Serving \/ job[t] = Idle
BY DEF TypeOK, Job, Idle, Storing, Reading, Serving, StoringSteps

LEMMA StoringFields ==
  ASSUME NEW j \in Storing
  PROVE  /\ j.step \in StoringSteps /\ j # Idle
         /\ j.id \in Ids /\ j.draft \in Manifest /\ j.final \in Statuses
         /\ j.draft.content \in Contents /\ j.draft.created \in Nat
BY DEF Storing, StoringSteps, Manifest, Idle

LEMMA StoredIsManifest ==
  ASSUME TypeOK, NEW id \in Ids, Stored(id)
  PROVE  /\ manifest[id] \in Manifest /\ manifest[id].content \in Contents
         /\ manifest[id].status \in Statuses /\ manifest[id].created \in Nat
BY DEF TypeOK, Stored, Manifest

\* While gc-artifacts runs, what it deletes next is one of the manifests it
\* listed.
GcShape ==
  gc # GcIdle => gc.id \in gc.todo /\ \A id \in gc.todo : \E r \in gc.listed : r.id = id

\* An id is drawn before anything is stored under it.
Drawn ==
  /\ \A t \in Threads : job[t] \in Storing => job[t].id \in used
  /\ \A id \in Ids : Stored(id) => id \in used
  /\ gc # GcIdle => gc.todo \subseteq used

WellTyped == TypeOK /\ GcShape /\ Drawn

GcRunning == [step: {"manifest", "entries", "blob"}, now: Nat, todo: SUBSET Ids, id: Ids,
              listed: SUBSET [id: Ids, content: Contents, created: Nat],
              done: SUBSET Contents]

LEMMA GcFields ==
  ASSUME WellTyped, gc # GcIdle
  PROVE  /\ gc \in GcRunning
         /\ gc.now \in Nat /\ gc.todo \in SUBSET Ids /\ gc.id \in Ids
         /\ gc.listed \in SUBSET [id: Ids, content: Contents, created: Nat]
         /\ gc.done \in SUBSET Contents
BY DEF WellTyped, TypeOK, GcJob, GcRunning

LEMMA CurrentListed ==
  ASSUME WellTyped, gc # GcIdle
  PROVE  Current \in gc.listed /\ Current.id = gc.id /\ Current.content \in Contents
<1>1. \E r \in gc.listed : r.id = gc.id
  BY DEF WellTyped, GcShape
<1>2. Current \in gc.listed /\ Current.id = gc.id
  BY <1>1 DEF Current
<1> QED
  BY <1>2, GcFields

LEMMA NotStoring == Idle \notin Storing /\ Reading \cap Storing = {} /\ Serving \cap Storing = {}
BY DEF Idle, Reading, Serving, Storing

LEMMA InitTypes == Init => WellTyped
<1> SUFFICES ASSUME Init PROVE WellTyped
  OBVIOUS
<1>1. GcIdle \in GcJob /\ Idle \in Job
  BY DEF GcJob, Job
<1> QED
  BY <1>1, NotStoring DEF Init, WellTyped, TypeOK, GcShape, Drawn, Stored

\* What a step of a handler leaves alone.
LEMMA JobPut ==
  ASSUME TypeOK, NEW t \in Threads, NEW j \in Job, job' = [job EXCEPT ![t] = j]
  PROVE  job' \in [Threads -> Job] /\ job'[t] = j /\ \A u \in Threads \ {t} : job'[u] = job[u]
BY DEF TypeOK

LEMMA Stepped ==
  ASSUME NEW j \in Storing, NEW s \in StoringSteps
  PROVE  /\ [j EXCEPT !.step = s] \in Storing
         /\ [j EXCEPT !.step = s].step = s
         /\ [j EXCEPT !.step = s].id = j.id
         /\ [j EXCEPT !.step = s].draft = j.draft
         /\ [j EXCEPT !.step = s].final = j.final
BY DEF Storing, StoringSteps

LEMMA IndexedFields ==
  ASSUME NEW j \in Storing
  PROVE  /\ Indexed(j) \in Storing /\ Indexed(j).id = j.id
         /\ Indexed(j).step \in {"reply", "manifest"}
         /\ Indexed(j).draft.content = j.draft.content
         /\ Indexed(j).draft.created = j.draft.created
         /\ Indexed(j).step = "reply" => Indexed(j).draft = j.draft
BY DEF Indexed, Storing, Manifest

LEMMA JobTypes == Idle \in Job /\ Storing \subseteq Job /\ Reading \subseteq Job /\ Serving \subseteq Job
BY DEF Job

\* A thread begins to store, under an id of its own, or continues to.
Begins(t) == /\ job'[t].step = "open" /\ job'[t].id \in used' \ used
             /\ job'[t].draft.created = clock

Continues(t) == /\ job[t] \in Storing /\ job'[t].id = job[t].id
                /\ job'[t].draft.content = job[t].draft.content
                /\ job'[t].draft.created = job[t].draft.created

\* A thread that stores goes on to another step.
LEMMA SteppedContinues ==
  ASSUME TypeOK, NEW t \in Threads, job[t] \in Storing,
         NEW s \in StoringSteps, job' = [job EXCEPT ![t].step = s]
  PROVE  /\ job' \in [Threads -> Job] /\ \A u \in Threads \ {t} : job'[u] = job[u]
         /\ job'[t] \in Storing /\ Continues(t)
<1> DEFINE j == [job[t] EXCEPT !.step = s]
<1>1. j \in Storing /\ j.id = job[t].id /\ j.draft = job[t].draft
  BY Stepped
<1>2. job' = [job EXCEPT ![t] = j]
  OBVIOUS
<1> HIDE DEF j
<1>3. job' \in [Threads -> Job] /\ job'[t] = j /\ \A u \in Threads \ {t} : job'[u] = job[u]
  BY <1>1, <1>2, JobTypes, JobPut
<1> QED
  BY <1>1, <1>3 DEF Continues

\* What a thread's step leaves of the jobs.
LEMMA HandlerJobs ==
  ASSUME TypeOK, NEW t \in Threads, Handler(t) \/ Fail(t)
  PROVE  /\ job' \in [Threads -> Job] /\ \A u \in Threads \ {t} : job'[u] = job[u]
         /\ job'[t] \in Storing => Begins(t) \/ Continues(t)
<1> USE JobTypes, JobPut, NotStoring
<1>1. CASE Submit(t)
  <2>0. PICK id \in Ids \ used, c \in Contents, warn \in BOOLEAN : \E result \in Result(c) :
         used' = used \cup {id} /\ job' = [job EXCEPT ![t] =
             [step |-> "open", id |-> id,
              draft |-> [content |-> c, status |-> "unchecked", created |-> clock],
              final |-> Verdict(result, warn)]]
    BY <1>1 DEF Submit
  <2>1. PICK result \in Result(c) :
         used' = used \cup {id} /\ job' = [job EXCEPT ![t] =
             [step |-> "open", id |-> id,
              draft |-> [content |-> c, status |-> "unchecked", created |-> clock],
              final |-> Verdict(result, warn)]]
    BY <2>0
  <2>2. Verdict(result, warn) \in Statuses
    BY ResultTypes, VerdictTypes
  <2>3. [step |-> "open", id |-> id,
         draft |-> [content |-> c, status |-> "unchecked", created |-> clock],
         final |-> Verdict(result, warn)] \in Storing
    BY <2>2 DEF Storing, Manifest, Statuses, TypeOK
  <2> QED
    BY <2>1, <2>3 DEF Begins
<1>2. CASE OpenBlob(t)
  <2>1. job[t] \in Storing
    BY <1>2, JobKinds DEF OpenBlob, StoringSteps
  <2>2. PICK s \in {"manifest", "write"} : job' = [job EXCEPT ![t].step = s]
    BY <1>2 DEF OpenBlob
  <2> QED
    BY <2>1, <2>2, SteppedContinues DEF StoringSteps
<1>3. CASE WriteBlob(t)
  <2>1. job[t] \in Storing
    BY <1>3, JobKinds DEF WriteBlob, StoringSteps
  <2>2. job' = [job EXCEPT ![t].step = "manifest"]
    BY <1>3 DEF WriteBlob
  <2> QED
    BY <2>1, <2>2, SteppedContinues DEF StoringSteps
<1>4. CASE WriteManifest(t)
  <2>1. job[t] \in Storing
    BY <1>4, JobKinds DEF WriteManifest, StoringSteps
  <2>2. job' = [job EXCEPT ![t].step = "index"]
    BY <1>4 DEF WriteManifest
  <2> QED
    BY <2>1, <2>2, SteppedContinues DEF StoringSteps
<1>5. CASE WriteIndex(t)
  <2>1. job[t] \in Storing
    BY <1>5, JobKinds DEF WriteIndex, StoringSteps
  <2>2. job' = [job EXCEPT ![t] = Indexed(job[t])]
    BY <1>5 DEF WriteIndex
  <2> DEFINE j == Indexed(job[t])
  <2>3. /\ j \in Storing /\ j.id = job[t].id
        /\ j.draft.content = job[t].draft.content /\ j.draft.created = job[t].draft.created
    BY <2>1, IndexedFields
  <2>4. job' = [job EXCEPT ![t] = j]
    BY <2>2
  <2> HIDE DEF j
  <2> QED
    BY <2>1, <2>3, <2>4 DEF Continues
<1>6. CASE ReplyStored(t) \/ Finish(t) \/ Fail(t)
  BY <1>6 DEF ReplyStored, Finish, Fail
<1>7. CASE LoadManifest(t)
  <2>1. PICK id \in Ids, route \in Routes, kind \in {"download", "review"} :
           /\ Stored(id)
           /\ job' = [job EXCEPT ![t] = [step |-> "read", kind |-> kind,
                                        route |-> route, found |-> manifest[id]]]
    BY <1>7 DEF LoadManifest
  <2>2. [step |-> "read", kind |-> kind, route |-> route, found |-> manifest[id]] \in Reading
    BY <2>1, StoredIsManifest DEF Reading
  <2> QED
    BY <2>1, <2>2
<1>8. CASE ReadBlob(t)
  <2>1. job[t] \in Reading
    BY <1>8, JobKinds DEF ReadBlob
  <2>2. BytesAt(job[t].found.content) \in Contents \cup {"garbage"}
    BY <2>1 DEF Reading, Manifest, BytesAt
  <2>3. Served(t, BytesAt(job[t].found.content)) \in Serving
    BY <2>1, <2>2 DEF Served, Serving, Reading
  <2>4. \/ job' = [job EXCEPT ![t] = Served(t, BytesAt(job[t].found.content))]
        \/ job' = [job EXCEPT ![t] = Idle]
    BY <1>8, Zenon DEF ReadBlob
  <2> QED
    BY <2>3, <2>4
<1>9. CASE StoreSummary(t)
  <2>1. PICK id \in Ids \ used, c \in Summaries :
         used' = used \cup {id} /\ job' = [job EXCEPT ![t] =
             [step |-> "open", id |-> id, draft |-> Derived(c), final |-> "verified"]]
    BY <1>9 DEF StoreSummary
  <2>2. [step |-> "open", id |-> id, draft |-> Derived(c), final |-> "verified"] \in Storing
    BY ConstantsAssumption DEF Storing, Derived, Manifest, Statuses, TypeOK
  <2> QED
    BY <2>1, <2>2 DEF Begins, Derived
<1> QED
  BY <1>1, <1>2, <1>3, <1>4, <1>5, <1>6, <1>7, <1>8, <1>9 DEF Handler

LEMMA HandlerKeepsTypes ==
  ASSUME WellTyped, NEW t \in Threads, Handler(t) \/ Fail(t)
  PROVE  WellTyped'
<1>1. job' \in [Threads -> Job]
  BY HandlerJobs DEF WellTyped
<1>2. /\ gc' = gc /\ scanner' = scanner /\ clock' = clock /\ faults' \in Nat
      /\ orphans' = orphans /\ used \subseteq used' /\ used' \subseteq Ids
  BY DEF WellTyped, TypeOK, Handler, Fail, Submit, OpenBlob, WriteBlob, WriteManifest, WriteIndex,
         ReplyStored, LoadManifest, ReadBlob, Finish, StoreSummary
<1>3. GcShape'
  BY <1>2 DEF WellTyped, GcShape
<1>5. Drawn'
  <2>1. \A u \in Threads : job'[u] \in Storing => job'[u].id \in used'
    BY <1>2, HandlerJobs DEF WellTyped, Drawn, Begins, Continues
  <2>2. \A id \in Ids : Stored(id)' => id \in used'
    <3>1. CASE WriteManifest(t)
      <4>1. job[t].id \in used
        BY <3>1, JobKinds DEF WriteManifest, StoringSteps, WellTyped, Drawn
      <4> QED
        BY <3>1, <4>1, <1>2 DEF WriteManifest, Stored, WellTyped, Drawn, TypeOK
    <3>2. CASE ~WriteManifest(t)
      <4>1. manifest' = manifest
        BY <3>2 DEF Handler, Fail, Submit, OpenBlob, WriteBlob, WriteIndex,
                    ReplyStored, LoadManifest, ReadBlob, Finish, StoreSummary
      <4> QED
        BY <4>1, <1>2 DEF Stored, WellTyped, Drawn
    <3> QED
      BY <3>1, <3>2
  <2> QED
    BY <1>2, <2>1, <2>2 DEF WellTyped, Drawn
<1> DEFINE Stores == /\ blob' \in [Contents -> Threads \cup {"absent", "partial", "whole"}]
                     /\ manifest' \in [Ids -> Manifest \cup {NoManifest}]
                     /\ entries' \subseteq Ids \X Statuses
                     /\ acked' \subseteq [id: Ids, manifest: Manifest]
                     /\ late' \subseteq used'
<1>4. Stores
  <2> USE DEF WellTyped, TypeOK
  <2>1. CASE Submit(t) \/ LoadManifest(t) \/ ReadBlob(t) \/ Finish(t) \/ StoreSummary(t)
    BY <2>1, <1>2 DEF Submit, LoadManifest, ReadBlob, Finish, StoreSummary
  <2>2. CASE OpenBlob(t)
    <3>1. job[t] \in Storing
      BY <2>2, JobKinds DEF OpenBlob, StoringSteps
    <3>2. blob' \in [Contents -> Threads \cup {"absent", "partial", "whole"}]
      BY <2>2, <3>1, StoringFields DEF OpenBlob
    <3>3. late' \subseteq used'
      BY <2>2, <3>1 DEF OpenBlob, Drawn
    <3> QED
      BY <2>2, <3>2, <3>3 DEF OpenBlob
  <2>3. CASE WriteBlob(t)
    BY <2>3 DEF WriteBlob
  <2>4. CASE WriteManifest(t)
    <3>1. job[t].draft \in Manifest
      BY <2>4, JobKinds, StoringFields DEF WriteManifest, StoringSteps
    <3> QED
      BY <2>4, <3>1 DEF WriteManifest
  <2>5. CASE WriteIndex(t)
    <3>1. job[t].id \in Ids /\ job[t].draft.status \in Statuses
      BY <2>5, JobKinds, StoringFields DEF WriteIndex, StoringSteps, Manifest
    <3> QED
      BY <2>5, <3>1 DEF WriteIndex
  <2>6. CASE ReplyStored(t)
    <3>1. job[t].id \in Ids /\ job[t].draft \in Manifest
      BY <2>6, JobKinds, StoringFields DEF ReplyStored, StoringSteps
    <3> QED
      BY <2>6, <3>1 DEF ReplyStored
  <2>7. CASE Fail(t)
    BY <2>7 DEF Fail, Abandon
  <2> QED
    BY <2>1, <2>2, <2>3, <2>4, <2>5, <2>6, <2>7 DEF Handler
<1> QED
  BY <1>1, <1>2, <1>3, <1>4, <1>5 DEF WellTyped, TypeOK

LEMMA GcKeepsTypes ==
  ASSUME WellTyped, Collect \/ GcKilled
  PROVE  WellTyped'
<1> USE DEF WellTyped, TypeOK
<1>1. GcIdle \in GcJob /\ GcRunning \subseteq GcJob /\ GcIdle.step = "idle"
  BY DEF GcJob, GcRunning, GcIdle
<1>2. UNCHANGED <<used, job, scanner, clock, acked>> /\ faults' \in Nat
  <2>1. CASE GcKilled
    BY <2>1 DEF GcKilled
  <2>2. CASE GcBlob
    BY <2>2 DEF GcBlob
  <2> QED
    BY <2>1, <2>2 DEF Collect, GcStart, GcManifest, GcEntries
<1>3. CASE GcStart
  <2> DEFINE kept == {[id |-> id, content |-> manifest[id].content,
                       created |-> manifest[id].created] : id \in {i \in Ids : Stored(i)}}
  <2>1. PICK first \in ExpiredManifests :
           gc' = [step |-> "manifest", now |-> clock, todo |-> ExpiredManifests, id |-> first,
                  listed |-> kept, done |-> {}]
    BY <1>3 DEF GcStart
  <2>2. kept \in SUBSET [id: Ids, content: Contents, created: Nat]
    BY StoredIsManifest
  <2>3. \A id \in ExpiredManifests : id \in Ids /\ Stored(id) /\ \E r \in kept : r.id = id
    <3>1. SUFFICES ASSUME NEW id \in ExpiredManifests
                   PROVE  id \in Ids /\ Stored(id) /\ \E r \in kept : r.id = id
      OBVIOUS
    <3>2. id \in Ids /\ Stored(id)
      BY DEF ExpiredManifests
    <3> DEFINE r == [id |-> id, content |-> manifest[id].content, created |-> manifest[id].created]
    <3>3. r \in kept /\ r.id = id
      BY <3>2
    <3> QED
      BY <3>2, <3>3
  <2> HIDE DEF kept
  <2>4. gc' \in GcRunning
    BY <2>1, <2>2, <2>3 DEF GcRunning
  <2>5. GcShape' /\ Drawn'
    BY <1>2, <1>3, <2>1, <2>3 DEF GcStart, GcShape, Drawn, Stored
  <2>6. InFlight \subseteq used
    BY JobKinds DEF InFlight, Drawn, StoringSteps
  <2> QED
    BY <1>1, <1>2, <1>3, <2>4, <2>5, <2>6 DEF GcStart
<1>4. CASE GcManifest \/ GcEntries
  <2>1. gc # GcIdle
    BY <1>1, <1>4 DEF GcManifest, GcEntries
  <2>2. PICK s \in {"entries", "blob"} : gc' = [gc EXCEPT !.step = s]
    BY <1>4 DEF GcManifest, GcEntries
  <2>3. gc' \in GcRunning /\ gc'.id = gc.id /\ gc'.todo = gc.todo /\ gc'.listed = gc.listed
    BY <2>1, <2>2, GcFields DEF GcRunning
  <2>4. GcShape'
    BY <2>1, <2>3 DEF GcShape
  <2>5. \A id \in Ids : Stored(id)' => Stored(id)
    BY <1>4 DEF GcManifest, GcEntries, Stored
  <2>6. Drawn'
    BY <1>2, <2>1, <2>3, <2>5 DEF Drawn
  <2>7. /\ manifest' \in [Ids -> Manifest \cup {NoManifest}]
        /\ entries' \subseteq entries /\ UNCHANGED <<blob, late, orphans>>
    BY <1>4 DEF GcManifest, GcEntries
  <2> QED
    BY <1>1, <1>2, <2>3, <2>4, <2>6, <2>7
<1>5. CASE GcBlob
  <2>1. gc # GcIdle
    BY <1>1, <1>5 DEF GcBlob
  <2>2. Current.content \in Contents
    BY <2>1, CurrentListed
  <2>3. blob' \in [Contents -> Threads \cup {"absent", "partial", "whole"}]
    BY <1>5, <2>2 DEF GcBlob
  <2>4. \/ gc' = GcIdle
        \/ \E next \in gc.todo \ {gc.id}, done \in SUBSET Contents :
             gc' = [gc EXCEPT !.step = "manifest", !.todo = gc.todo \ {gc.id}, !.id = next,
                              !.done = done]
    <3>1. gc.done \in SUBSET Contents /\ gc.done \cup {Current.content} \in SUBSET Contents
      BY <2>1, <2>2, GcFields
    <3> QED
      BY <1>5, <3>1, Zenon DEF GcBlob
  <2>5. UNCHANGED <<manifest, entries, late, orphans>>
    BY <1>5 DEF GcBlob
  <2>6. CASE gc' = GcIdle
    BY <1>1, <1>2, <2>3, <2>5, <2>6 DEF GcShape, Drawn, Stored
  <2>7. CASE \E next \in gc.todo \ {gc.id}, done \in SUBSET Contents :
               gc' = [gc EXCEPT !.step = "manifest", !.todo = gc.todo \ {gc.id}, !.id = next,
                                !.done = done]
    <3>0. PICK next \in gc.todo \ {gc.id}, done \in SUBSET Contents :
             gc' = [gc EXCEPT !.step = "manifest", !.todo = gc.todo \ {gc.id}, !.id = next,
                              !.done = done]
      BY <2>7
    <3>1. /\ gc' \in GcRunning /\ gc'.listed = gc.listed
          /\ gc'.todo \subseteq gc.todo /\ gc'.id \in gc'.todo
      <4>1. gc \in GcRunning /\ next \in Ids /\ gc.todo \ {gc.id} \in SUBSET Ids
        BY <2>1, GcFields
      <4>2. gc' = [step |-> "manifest", now |-> gc.now, todo |-> gc.todo \ {gc.id}, id |-> next,
                   listed |-> gc.listed, done |-> done]
        BY <3>0, <4>1 DEF GcRunning
      <4>3. gc' \in GcRunning
        BY <4>1, <4>2 DEF GcRunning
      <4> QED
        BY <3>0, <4>2, <4>3
    <3>2. GcShape' /\ Drawn'
      BY <1>2, <2>1, <2>5, <3>1 DEF GcShape, Drawn, Stored
    <3> QED
      BY <1>1, <1>2, <2>3, <2>5, <3>1, <3>2
  <2> QED
    BY <2>4, <2>6, <2>7
<1>6. CASE GcKilled
  <2>1. gc.id \in used
    BY <1>6 DEF GcKilled, GcShape, Drawn
  <2> QED
    BY <1>1, <1>2, <1>6, <2>1 DEF GcKilled, GcShape, Drawn, Stored
<1> QED
  BY <1>3, <1>4, <1>5, <1>6 DEF Collect

LEMMA OthersKeepTypes ==
  ASSUME WellTyped, Restart \/ Tick \/ UNCHANGED vars
  PROVE  WellTyped'
<1> USE DEF WellTyped, TypeOK, GcShape, Drawn, Stored
<1>1. CASE Restart
  BY <1>1, JobTypes, NotStoring DEF Restart, Abandon
<1>2. CASE Tick
  BY <1>2 DEF Tick
<1>3. CASE UNCHANGED vars
  BY <1>3 DEF vars
<1> QED
  BY <1>1, <1>2, <1>3

LEMMA TypesStep == WellTyped /\ [Next]_vars => WellTyped'
BY HandlerKeepsTypes, GcKeepsTypes, OthersKeepTypes DEF Next

\* TypeOK holds always.
THEOREM TypeCorrect == Spec => []TypeOK
<1>1. Spec => []WellTyped
  BY InitTypes, TypesStep, PTL DEF Spec
<1>2. WellTyped => TypeOK
  BY DEF WellTyped
<1> QED
  BY <1>1, <1>2, PTL

-----------------------------------------------------------------------------
(* What was answered remains *)

\* An id is used for one artifact, stored by one thread, answered once.
IdsOnce ==
  /\ \A t, u \in Threads : t # u /\ job[t] \in Storing /\ job[u] \in Storing =>
       job[t].id # job[u].id
  /\ \A a \in acked : /\ a.id \in used
                      /\ \A t \in Threads : job[t] \in Storing => job[t].id # a.id

LEMMA HandlerKeepsIds ==
  ASSUME WellTyped, IdsOnce, NEW t \in Threads, Handler(t) \/ Fail(t)
  PROVE  IdsOnce'
<1>1. /\ \A u \in Threads \ {t} : job'[u] = job[u]
      /\ job'[t] \in Storing => Begins(t) \/ Continues(t)
  BY HandlerJobs DEF WellTyped
<1>2. \A u \in Threads : job[u] \in Storing => job[u].id \in used
  BY DEF WellTyped, Drawn
<1>3. used \subseteq used'
  BY DEF Handler, Fail, Submit, OpenBlob, WriteBlob, WriteManifest, WriteIndex,
         ReplyStored, LoadManifest, ReadBlob, Finish, StoreSummary
<1>4. \A u, v \in Threads : u # v /\ job'[u] \in Storing /\ job'[v] \in Storing =>
        job'[u].id # job'[v].id
  BY <1>1, <1>2 DEF IdsOnce, Begins, Continues
<1>5. CASE ReplyStored(t)
  <2>1. job'[t] = Idle /\ job[t] \in Storing
    BY <1>5, JobKinds DEF ReplyStored, StoringSteps, WellTyped, TypeOK
  <2>2. \A a \in acked' : a \in acked \/ a.id = job[t].id
    BY <1>5 DEF ReplyStored
  <2>3. \A a \in acked' : /\ a.id \in used'
                         /\ \A u \in Threads : job'[u] \in Storing => job'[u].id # a.id
    <3>1. SUFFICES ASSUME NEW a \in acked', NEW u \in Threads
                   PROVE  a.id \in used' /\ (job'[u] \in Storing => job'[u].id # a.id)
      BY <2>1
    <3>2. CASE u = t
      BY <1>2, <1>3, <2>1, <2>2, <3>2, NotStoring DEF IdsOnce
    <3>3. CASE u # t
      BY <1>1, <1>2, <1>3, <2>1, <2>2, <3>3 DEF IdsOnce
    <3> QED
      BY <3>2, <3>3
  <2> QED
    BY <1>4, <2>3 DEF IdsOnce
<1>6. CASE ~ReplyStored(t)
  <2>1. acked' = acked
    BY <1>6 DEF Handler, Fail, Submit, OpenBlob, WriteBlob, WriteManifest, WriteIndex,
                LoadManifest, ReadBlob, Finish, StoreSummary
  <2>2. \A a \in acked, u \in Threads : job'[u] \in Storing => job'[u].id # a.id
    BY <1>1 DEF IdsOnce, Begins, Continues
  <2> QED
    BY <1>3, <1>4, <2>1, <2>2 DEF IdsOnce
<1> QED
  BY <1>5, <1>6

\* A restart ends every job; the other steps leave them alone.
LEMMA OtherJobs ==
  ASSUME Collect \/ GcKilled \/ Restart \/ Tick \/ UNCHANGED vars
  PROVE  /\ UNCHANGED <<used, acked>>
         /\ \A t \in Threads : job'[t] \in Storing => job'[t] = job[t]
<1>1. CASE Collect \/ GcKilled \/ Tick \/ UNCHANGED vars
  BY <1>1 DEF Collect, GcStart, GcManifest, GcEntries, GcBlob, GcKilled, Tick, vars
<1>2. CASE Restart
  BY <1>2, NotStoring DEF Restart
<1> QED
  BY <1>1, <1>2

LEMMA IdsStep == WellTyped /\ IdsOnce /\ [Next]_vars => IdsOnce'
<1> SUFFICES ASSUME WellTyped, IdsOnce, [Next]_vars PROVE IdsOnce'
  OBVIOUS
<1>1. CASE Collect \/ GcKilled \/ Restart \/ Tick \/ UNCHANGED vars
  BY <1>1, OtherJobs DEF IdsOnce
<1> QED
  BY <1>1, HandlerKeepsIds DEF Next

-----------------------------------------------------------------------------

\* What is on disk under the id of a thread that stores is its own draft.
Tracked(t) ==
  job[t] \in Storing =>
    LET id == job[t].id  draft == job[t].draft IN
    /\ ~Expired(draft.created, clock)
    /\ Stored(id) => /\ manifest[id].content = draft.content
                      /\ manifest[id].created = draft.created
    /\ job[t].step \in {"index", "reply"} => manifest[id] = draft
    /\ gc # GcIdle => id \notin gc.todo

\* What gc-artifacts has listed as expired is expired, unless it is gone.
ListedExpired ==
  gc # GcIdle => /\ gc.now <= clock
                 /\ \A id \in gc.todo : Stored(id) => Expired(manifest[id].created, gc.now)

Records == (\A t \in Threads : Tracked(t)) /\ ListedExpired /\ AcknowledgedRemains

\* The steps that lead to the index entries and to the answer.
LEMMA Advances ==
  ASSUME WellTyped, NEW t \in Threads, Handler(t) \/ Fail(t),
         job'[t] \in Storing, job'[t].step \in {"index", "reply"}
  PROVE  /\ job[t] \in Storing /\ job'[t].id = job[t].id /\ job'[t].draft = job[t].draft
         /\ WriteManifest(t) \/ (job[t].step = "index" /\ manifest' = manifest)
<1> USE NotStoring DEF WellTyped, TypeOK
<1>1. CASE WriteManifest(t)
  BY <1>1, JobKinds, Stepped DEF WriteManifest, StoringSteps
<1>2. CASE WriteIndex(t)
  <2>1. job[t] \in Storing /\ job'[t] = Indexed(job[t]) /\ job[t].step = "index"
    BY <1>2, JobKinds DEF WriteIndex, StoringSteps
  <2> QED
    BY <1>2, <2>1, IndexedFields DEF WriteIndex
<1>3. CASE Submit(t) \/ StoreSummary(t)
  BY <1>3 DEF Submit, StoreSummary, Storing
<1>4. CASE OpenBlob(t) \/ WriteBlob(t)
  <2>1. job[t] \in Storing
    BY <1>4, JobKinds DEF OpenBlob, WriteBlob, StoringSteps
  <2>2. PICK s \in {"manifest", "write"} : job' = [job EXCEPT ![t].step = s]
    BY <1>4 DEF OpenBlob, WriteBlob
  <2>3. job'[t].step = s
    BY <2>1, <2>2, Stepped DEF StoringSteps
  <2> QED
    BY <2>3
<1>5. CASE LoadManifest(t)
  BY <1>5 DEF LoadManifest
<1>6. CASE ReadBlob(t)
  BY <1>6 DEF ReadBlob, Served, Idle
<1>7. CASE ReplyStored(t) \/ Finish(t) \/ Fail(t)
  BY <1>7 DEF ReplyStored, Finish, Fail
<1> QED
  BY <1>1, <1>2, <1>3, <1>4, <1>5, <1>6, <1>7 DEF Handler

LEMMA HandlerKeepsRecords ==
  ASSUME WellTyped, IdsOnce, Records, NEW t \in Threads, Handler(t) \/ Fail(t)
  PROVE  Records'
<1>1. /\ \A u \in Threads \ {t} : job'[u] = job[u]
      /\ job'[t] \in Storing => Begins(t) \/ Continues(t)
  BY HandlerJobs DEF WellTyped
<1>2. gc' = gc /\ clock' = clock
  BY DEF Handler, Fail, Submit, OpenBlob, WriteBlob, WriteManifest, WriteIndex,
         ReplyStored, LoadManifest, ReadBlob, Finish, StoreSummary
<1>3. \/ manifest' = manifest
      \/ WriteManifest(t) /\ job[t] \in Storing /\ acked' = acked
         /\ manifest' = [manifest EXCEPT ![job[t].id] = job[t].draft]
  <2>1. CASE WriteManifest(t)
    BY <2>1, JobKinds DEF WriteManifest, StoringSteps, WellTyped
  <2>2. CASE ~WriteManifest(t)
    BY <2>2 DEF Handler, Fail, Submit, OpenBlob, WriteBlob, WriteIndex,
                ReplyStored, LoadManifest, ReadBlob, Finish, StoreSummary
  <2> QED
    BY <2>1, <2>2
<1>4. manifest \in [Ids -> Manifest \cup {NoManifest}]
  BY DEF WellTyped, TypeOK
<1>5. ASSUME NEW u \in Threads \ {t} PROVE Tracked(u)'
  <2>1. job'[u] = job[u] /\ Tracked(u)
    BY <1>1 DEF Records
  <2>2. job[u] \in Storing => manifest'[job[u].id] = manifest[job[u].id]
    BY <1>3, <1>4, StoringFields DEF IdsOnce
  <2> QED
    BY <1>2, <2>1, <2>2 DEF Tracked, Stored
<1>6. Tracked(t)'
  <2> SUFFICES ASSUME job'[t] \in Storing PROVE Tracked(t)'
    BY DEF Tracked
  <2>1. CASE Begins(t)
    <3>1. job'[t].id \notin used /\ job'[t].id \in Ids
      BY <2>1, StoringFields DEF Begins
    <3>2. manifest' = manifest
      <4>1. WriteManifest(t) /\ job[t] \in Storing => job'[t].step = "index"
        BY Stepped DEF WriteManifest, WellTyped, TypeOK, StoringSteps
      <4> QED
        BY <1>3, <2>1, <4>1 DEF Begins
    <3>3. manifest'[job'[t].id] = NoManifest /\ (gc # GcIdle => job'[t].id \notin gc.todo)
      BY <3>1, <3>2 DEF WellTyped, Drawn, Stored
    <3>4. ~Expired(clock, clock)
      BY RetentionType DEF Expired, WellTyped, TypeOK
    <3> QED
      BY <1>2, <2>1, <3>3, <3>4 DEF Tracked, Begins, Expired, Stored
  <2>2. CASE Continues(t)
    <3>1. Tracked(t)
      BY DEF Records
    <3>2. job'[t].step \in {"index", "reply"} => manifest'[job'[t].id] = job'[t].draft
      <4> SUFFICES ASSUME job'[t].step \in {"index", "reply"}
                   PROVE  manifest'[job'[t].id] = job'[t].draft
        OBVIOUS
      <4>1. /\ job[t] \in Storing /\ job'[t].id = job[t].id /\ job'[t].draft = job[t].draft
            /\ WriteManifest(t) \/ (job[t].step = "index" /\ manifest' = manifest)
        BY Advances
      <4>2. CASE WriteManifest(t)
        BY <1>4, <4>1, <4>2, StoringFields DEF WriteManifest
      <4>3. CASE job[t].step = "index" /\ manifest' = manifest
        BY <3>1, <4>1, <4>3 DEF Tracked
      <4> QED
        BY <4>1, <4>2, <4>3
    <3>3. manifest'[job'[t].id] # NoManifest =>
            /\ manifest'[job'[t].id].content = job'[t].draft.content
            /\ manifest'[job'[t].id].created = job'[t].draft.created
      <4>1. job[t].id \in Ids
        BY <2>2, StoringFields DEF Continues
      <4>2. CASE manifest' = manifest
        BY <2>2, <3>1, <4>2 DEF Continues, Tracked, Stored
      <4>3. CASE manifest' = [manifest EXCEPT ![job[t].id] = job[t].draft]
        BY <1>4, <2>2, <4>1, <4>3 DEF Continues
      <4> QED
        BY <1>3, <4>2, <4>3
    <3>4. ~Expired(job[t].draft.created, clock) /\ (gc # GcIdle => job[t].id \notin gc.todo)
      BY <2>2, <3>1 DEF Continues, Tracked
    <3> QED
      BY <1>2, <2>2, <3>2, <3>3, <3>4 DEF Continues, Tracked, Expired, Stored
  <2> QED
    BY <1>1, <2>1, <2>2
<1>7. ListedExpired'
  <2> SUFFICES ASSUME gc # GcIdle PROVE ListedExpired'
    BY <1>2 DEF ListedExpired
  <2>1. \A id \in gc.todo : manifest'[id] = manifest[id]
    BY <1>3, <1>4, GcFields DEF Records, Tracked
  <2> QED
    BY <1>2, <2>1 DEF Records, ListedExpired, Stored
<1>8. AcknowledgedRemains'
  <2>1. CASE ReplyStored(t)
    <3>1. job[t] \in Storing /\ job[t].step = "reply" /\ manifest' = manifest
      BY <2>1, JobKinds DEF ReplyStored, StoringSteps, WellTyped
    <3>2. manifest[job[t].id] = job[t].draft
      BY <3>1 DEF Records, Tracked
    <3>3. \A a \in acked' : a \in acked \/ a = [id |-> job[t].id, manifest |-> job[t].draft]
      BY <2>1 DEF ReplyStored
    <3> QED
      BY <1>2, <3>1, <3>2, <3>3 DEF Records, AcknowledgedRemains, InForce
  <2>2. CASE ~ReplyStored(t)
    <3>1. acked' = acked
      BY <2>2 DEF Handler, Fail, Submit, OpenBlob, WriteBlob, WriteManifest, WriteIndex,
                  LoadManifest, ReadBlob, Finish, StoreSummary
    <3>2. \A a \in acked : manifest'[a.id] = manifest[a.id]
      BY <1>3, <1>4 DEF IdsOnce, WellTyped, TypeOK
    <3> QED
      BY <1>2, <3>1, <3>2 DEF Records, AcknowledgedRemains, InForce
  <2> QED
    BY <2>1, <2>2
<1> QED
  BY <1>5, <1>6, <1>7, <1>8 DEF Records

\* What the steps of gc-artifacts make of its list.
LEMMA GcTodo ==
  ASSUME WellTyped, GcManifest \/ GcEntries \/ GcBlob, gc' # GcIdle
  PROVE  gc # GcIdle /\ gc'.now = gc.now /\ gc'.todo \subseteq gc.todo /\ gc'.listed = gc.listed
<1>1. gc # GcIdle
  <2>1. gc.step \in {"manifest", "entries", "blob"}
    BY DEF GcManifest, GcEntries, GcBlob
  <2> QED
    BY <2>1 DEF GcIdle
<1>2. gc \in GcRunning
  BY <1>1, GcFields
<1>3. CASE GcManifest \/ GcEntries
  <2>1. PICK s \in {"entries", "blob"} : gc' = [gc EXCEPT !.step = s]
    BY <1>3 DEF GcManifest, GcEntries
  <2> QED
    BY <1>1, <1>2, <2>1 DEF GcRunning
<1>4. CASE GcBlob
  <2>1. \E next \in gc.todo \ {gc.id} : \E done :
           gc' = [gc EXCEPT !.step = "manifest", !.todo = gc.todo \ {gc.id}, !.id = next,
                            !.done = done]
    BY <1>4, Zenon DEF GcBlob
  <2>2. PICK next, done :
           gc' = [gc EXCEPT !.step = "manifest", !.todo = gc.todo \ {gc.id}, !.id = next,
                            !.done = done]
    BY <2>1
  <2> QED
    BY <1>1, <1>2, <2>2 DEF GcRunning
<1> QED
  BY <1>3, <1>4

LEMMA CollectKeepsRecords ==
  ASSUME WellTyped, Records, Collect
  PROVE  Records'
<1>1. UNCHANGED <<job, acked, clock>>
  <2>1. CASE GcBlob
    BY <2>1 DEF GcBlob
  <2> QED
    BY <2>1 DEF Collect, GcStart, GcManifest, GcEntries
<1>2. manifest \in [Ids -> Manifest \cup {NoManifest}] /\ clock \in Nat
  BY DEF WellTyped, TypeOK
<1>3. CASE GcStart
  <2>1. gc'.todo = ExpiredManifests /\ gc'.now = clock /\ manifest' = manifest
    BY <1>3 DEF GcStart
  <2>2. \A id \in ExpiredManifests : Stored(id) /\ Expired(manifest[id].created, clock)
    BY DEF ExpiredManifests
  <2>3. ASSUME NEW t \in Threads PROVE Tracked(t)'
    <3>1. job[t] \in Storing => job[t].id \notin ExpiredManifests
      BY <2>2 DEF Records, Tracked
    <3> QED
      BY <1>1, <2>1, <3>1 DEF Records, Tracked, Stored
  <2>4. ListedExpired'
    BY <1>1, <1>2, <2>1, <2>2 DEF ListedExpired, Expired, Stored
  <2> QED
    BY <1>1, <2>1, <2>3, <2>4 DEF Records, AcknowledgedRemains, InForce
<1>4. CASE GcManifest
  <2>1. /\ gc # GcIdle /\ gc.id \in gc.todo /\ gc.id \in Ids /\ gc.now \in Nat
        /\ manifest' = [manifest EXCEPT ![gc.id] = NoManifest]
    BY <1>4, GcFields DEF GcManifest, GcIdle, WellTyped, GcShape
  <2>2. gc' # GcIdle => gc'.now = gc.now /\ gc'.todo \subseteq gc.todo
    BY <1>4, GcTodo
  <2>3. ASSUME NEW t \in Threads PROVE Tracked(t)'
    <3>1. job[t] \in Storing => job[t].id # gc.id /\ job[t].id \in Ids
      BY <2>1, StoringFields DEF Records, Tracked
    <3>2. job[t] \in Storing => manifest'[job[t].id] = manifest[job[t].id]
      BY <1>2, <2>1, <3>1
    <3> QED
      BY <1>1, <2>1, <2>2, <3>2 DEF Records, Tracked, Stored
  <2>4. ListedExpired'
    BY <1>1, <1>2, <2>1, <2>2, GcFields DEF Records, ListedExpired, Stored
  <2>5. ASSUME NEW a \in acked, InForce(a) PROVE manifest'[a.id] = a.manifest
    <3>1. a.id \in Ids /\ a.manifest \in Manifest /\ a.manifest.created \in Nat
      BY DEF WellTyped, TypeOK, Manifest
    <3>2. manifest[a.id] = a.manifest /\ Stored(a.id)
      BY <2>5, <3>1, ConstantsAssumption DEF Records, AcknowledgedRemains, Stored, Manifest
    <3>3. a.id # gc.id
      <4>1. SUFFICES ASSUME a.id = gc.id PROVE FALSE
        OBVIOUS
      <4>2. Expired(a.manifest.created, gc.now) /\ gc.now <= clock
        BY <2>1, <3>2, <4>1 DEF Records, ListedExpired
      <4> QED
        BY <1>2, <2>1, <2>5, <3>1, <4>2, RetentionType DEF InForce, Expired
    <3> QED
      BY <1>2, <2>1, <3>1, <3>2, <3>3
  <2> QED
    BY <1>1, <2>3, <2>4, <2>5 DEF Records, AcknowledgedRemains, InForce
<1>5. CASE GcEntries \/ GcBlob
  <2>1. manifest' = manifest
    BY <1>5 DEF GcEntries, GcBlob
  <2>2. gc' # GcIdle => gc # GcIdle /\ gc'.now = gc.now /\ gc'.todo \subseteq gc.todo
    BY <1>5, GcTodo
  <2> QED
    BY <1>1, <2>1, <2>2
       DEF Records, Tracked, ListedExpired, AcknowledgedRemains, InForce, Stored, Expired
<1> QED
  BY <1>3, <1>4, <1>5 DEF Collect

LEMMA OthersKeepRecords ==
  ASSUME WellTyped, Records, GcKilled \/ Restart \/ Tick \/ UNCHANGED vars
  PROVE  Records'
<1> USE DEF Records, Tracked, ListedExpired, AcknowledgedRemains, InForce, Stored
<1>1. CASE GcKilled
  BY <1>1 DEF GcKilled, Expired
<1>2. CASE Restart
  BY <1>2, NotStoring DEF Restart, Expired
<1>3. CASE Tick
  <2>1. /\ clock' = clock + 1 /\ UNCHANGED <<job, manifest, gc, acked>>
        /\ \A t \in Threads : job[t].step \in StoringSteps => ~Expired(job[t].draft.created, clock + 1)
    BY <1>3 DEF Tick
  <2>2. \A t \in Threads : Tracked(t)'
    BY <2>1, StoringFields DEF Expired
  <2>3. ListedExpired'
    BY <2>1, GcFields DEF WellTyped, TypeOK, Expired
  <2>4. \A a \in acked : InForce(a)' => InForce(a)
    <3>1. \A a \in acked : a.manifest.created \in Nat
      BY DEF WellTyped, TypeOK, Manifest
    <3> QED
      BY <2>1, <3>1, RetentionType DEF Expired, WellTyped, TypeOK
  <2> QED
    BY <2>1, <2>2, <2>3, <2>4
<1>4. CASE UNCHANGED vars
  BY <1>4 DEF vars, Expired
<1> QED
  BY <1>1, <1>2, <1>3, <1>4

LEMMA RecordsStep == WellTyped /\ IdsOnce /\ Records /\ [Next]_vars => Records'
BY HandlerKeepsRecords, CollectKeepsRecords, OthersKeepRecords DEF Next

\* Nothing is stored at first.
LEMMA InitRecords == Init => IdsOnce /\ Records
BY NotStoring DEF Init, IdsOnce, Records, Tracked, ListedExpired, AcknowledgedRemains

\* AcknowledgedRemains: an answered submission keeps its manifest, with the
\* verdict it was answered with, for the whole retention window.
THEOREM AnswersRemain == Spec => []AcknowledgedRemains
<1>1. Spec => [](WellTyped /\ IdsOnce /\ Records)
  BY InitTypes, InitRecords, TypesStep, IdsStep, RecordsStep, PTL DEF Spec
<1>2. Records => AcknowledgedRemains
  BY DEF Records
<1> QED
  BY <1>1, <1>2, PTL

-----------------------------------------------------------------------------
(* A run of gc-artifacts cleans up *)

\* An entry without a manifest is the work of gc-artifacts: its next step
\* deletes it, unless it was killed before.
EntriesInv ==
  \A e \in entries : \/ Stored(e[1]) \/ e[1] \in orphans
                     \/ gc.step = "entries" /\ e[1] = gc.id

LEMMA EntriesStep ==
  WellTyped /\ Records /\ EntriesInv /\ [Next]_vars => EntriesInv'
<1> SUFFICES ASSUME WellTyped, Records, EntriesInv, [Next]_vars PROVE EntriesInv'
  OBVIOUS
<1> USE DEF EntriesInv, Stored
<1>1. manifest \in [Ids -> Manifest \cup {NoManifest}] /\ \A e \in entries : e[1] \in Ids
  BY DEF WellTyped, TypeOK
<1>2. ASSUME NEW t \in Threads, WriteManifest(t) PROVE EntriesInv'
  <2>1. job[t].id \in Ids /\ job[t].draft # NoManifest
    BY <1>2, JobKinds, StoringFields, ConstantsAssumption
       DEF WriteManifest, StoringSteps, WellTyped, Manifest
  <2> QED
    BY <1>1, <1>2, <2>1 DEF WriteManifest
<1>3. ASSUME NEW t \in Threads, WriteIndex(t) PROVE EntriesInv'
  <2>1. manifest[job[t].id] # NoManifest
    BY <1>3, JobKinds, StoringFields, ConstantsAssumption
       DEF WriteIndex, StoringSteps, WellTyped, Manifest, Records, Tracked
  <2>2. \A e \in entries' : e \in entries \/ e[1] = job[t].id
    BY <1>3 DEF WriteIndex
  <2> QED
    BY <1>3, <2>1, <2>2 DEF WriteIndex
<1>4. ASSUME NEW t \in Threads, Handler(t) \/ Fail(t), ~WriteManifest(t), ~WriteIndex(t)
      PROVE  EntriesInv'
  BY <1>4 DEF Handler, Fail, Submit, OpenBlob, WriteBlob, ReplyStored,
              LoadManifest, ReadBlob, Finish, StoreSummary
<1>5. CASE GcStart
  BY <1>5 DEF GcStart, GcIdle
<1>6. CASE GcManifest
  <2>1. gc'.step = "entries" /\ gc'.id = gc.id /\ gc.id \in Ids
    BY <1>6, GcFields DEF GcManifest, GcIdle, GcRunning
  <2> QED
    BY <1>1, <1>6, <2>1 DEF GcManifest
<1>7. CASE GcEntries
  BY <1>7 DEF GcEntries
<1>8. CASE GcBlob
  BY <1>8 DEF GcBlob
<1>9. CASE GcKilled
  BY <1>9 DEF GcKilled
<1>10. CASE Restart \/ Tick \/ UNCHANGED vars
  BY <1>10 DEF Restart, Tick, vars
<1> QED
  BY <1>2, <1>3, <1>4, <1>5, <1>6, <1>7, <1>8, <1>9, <1>10 DEF Next, Collect

\* CompletedRunCleans: a run of gc-artifacts that completes leaves no entry of
\* an artifact without a manifest but those of a run that was killed.
THEOREM CompletedRunsClean == Spec => CompletedRunCleans
<1>1. Init => EntriesInv
  BY DEF Init, EntriesInv
<1>2. WellTyped /\ EntriesInv' /\ [Next]_vars =>
        [gc # GcIdle /\ gc' = GcIdle /\ faults' = faults
           => \A e \in entries' : manifest'[e[1]] # NoManifest \/ e[1] \in orphans]_vars
  <2> SUFFICES ASSUME WellTyped, EntriesInv', [Next]_vars,
                      gc # GcIdle, gc' = GcIdle, faults' = faults
               PROVE  \A e \in entries' : manifest'[e[1]] # NoManifest \/ e[1] \in orphans
    OBVIOUS
  <2>1. orphans' = orphans
    <3>1. CASE GcKilled
      BY <3>1 DEF GcKilled, WellTyped, TypeOK
    <3>2. CASE \E t \in Threads : Handler(t) \/ Fail(t)
      BY <3>2 DEF Handler, Fail, Submit, OpenBlob, WriteBlob, WriteManifest, WriteIndex,
                  ReplyStored, LoadManifest, ReadBlob, Finish, StoreSummary
    <3>3. CASE Collect
      BY <3>3 DEF Collect, GcStart, GcManifest, GcEntries, GcBlob
    <3>4. CASE Restart \/ Tick \/ UNCHANGED vars
      BY <3>4 DEF Restart, Tick, vars
    <3> QED
      BY <3>1, <3>2, <3>3, <3>4 DEF Next
  <2>2. gc'.step # "entries"
    BY DEF GcIdle
  <2> QED
    BY <2>1, <2>2 DEF EntriesInv, Stored
<1> QED
  BY <1>1, <1>2, InitTypes, InitRecords, TypesStep, IdsStep, RecordsStep, EntriesStep, PTL
     DEF Spec, CompletedRunCleans

-----------------------------------------------------------------------------
(* The blob of what was answered remains *)

\* gc-artifacts has listed a manifest for the same bytes, as young as this.
Spared(m) == \E r \in gc.listed : r.content = m.content /\ r.created = m.created

Held(m) == blob[m.content] # "absent" /\ (gc # GcIdle => Spared(m))

\* The bytes of a submission are there once its blob was opened.
BlobInv ==
  /\ \A t \in Threads : job[t] \in Storing /\ job[t].step # "open" /\ job[t].id \notin late =>
       Held(job[t].draft)
  /\ \A a \in acked : InForce(a) /\ a.id \notin late => Held(a.manifest)

\* No handler deletes a blob.
LEMMA BlobsStay ==
  ASSUME WellTyped, NEW t \in Threads, Handler(t) \/ Fail(t)
  PROVE  /\ \A c \in Contents : blob[c] # "absent" => blob'[c] # "absent"
         /\ late \subseteq late' /\ gc' = gc /\ clock' = clock
<1> USE ConstantsAssumption DEF WellTyped, TypeOK
<1>1. t # "absent"
  OBVIOUS
<1>2. CASE OpenBlob(t)
  BY <1>1, <1>2 DEF OpenBlob
<1>3. CASE WriteBlob(t)
  BY <1>3 DEF WriteBlob
<1>4. CASE Fail(t)
  BY <1>4 DEF Fail, Abandon
<1>5. CASE Handler(t) /\ ~OpenBlob(t) /\ ~WriteBlob(t)
  BY <1>5 DEF Handler, Submit, WriteManifest, WriteIndex,
              ReplyStored, LoadManifest, ReadBlob, Finish, StoreSummary
<1> QED
  BY <1>2, <1>3, <1>4, <1>5

\* A job leaves its first step by opening its blob.
LEMMA Opens ==
  ASSUME WellTyped, NEW t \in Threads, Handler(t) \/ Fail(t),
         job[t] \in Storing, job[t].step = "open", job'[t] \in Storing, job'[t].step # "open"
  PROVE  OpenBlob(t)
<1> USE NotStoring DEF WellTyped, TypeOK
<1>1. ~ (Submit(t) \/ LoadManifest(t) \/ StoreSummary(t))
  BY DEF Submit, LoadManifest, StoreSummary
<1>2. ~ (WriteBlob(t) \/ WriteManifest(t) \/ WriteIndex(t) \/ ReplyStored(t) \/ ReadBlob(t) \/ Finish(t))
  BY DEF WriteBlob, WriteManifest, WriteIndex, ReplyStored, ReadBlob, Finish
<1>3. ~ Fail(t)
  BY DEF Fail
<1> QED
  BY <1>1, <1>2, <1>3 DEF Handler

LEMMA HandlerKeepsBlobs ==
  ASSUME WellTyped, BlobInv, NEW t \in Threads, Handler(t) \/ Fail(t)
  PROVE  BlobInv'
<1>1. /\ \A u \in Threads \ {t} : job'[u] = job[u]
      /\ job'[t] \in Storing => Begins(t) \/ Continues(t)
  BY HandlerJobs DEF WellTyped
<1>2. /\ \A c \in Contents : blob[c] # "absent" => blob'[c] # "absent"
      /\ late \subseteq late' /\ gc' = gc /\ clock' = clock
  BY BlobsStay
<1>3. ASSUME NEW m, NEW n, m.content \in Contents, n.content = m.content,
             n.created = m.created, Held(m)
      PROVE  blob'[n.content] # "absent" /\ (gc' # GcIdle => \E r \in gc'.listed :
                                               r.content = n.content /\ r.created = n.created)
  BY <1>2, <1>3 DEF Held, Spared
<1>4. ASSUME NEW u \in Threads, job'[u] \in Storing, job'[u].step # "open", job'[u].id \notin late'
      PROVE  Held(job[u].draft)'
  <2>1. CASE u # t
    BY <1>1, <1>2, <1>3, <1>4, <2>1, StoringFields DEF BlobInv, Held, Spared
  <2>2. CASE u = t /\ Continues(t) /\ job[t].step # "open"
    <3>1. Held(job[t].draft)
      BY <1>2, <1>4, <2>2 DEF BlobInv, Continues
    <3> QED
      BY <1>3, <2>2, <3>1, StoringFields DEF Continues, Held, Spared
  <2>3. CASE u = t /\ Continues(t) /\ job[t].step = "open"
    <3>1. OpenBlob(t) /\ job[t].draft.content \in Contents
      BY <1>4, <2>3, Opens, StoringFields DEF Continues
    <3>2. t # "absent"
      BY ConstantsAssumption
    <3>3. blob'[job[t].draft.content] # "absent"
      BY <3>1, <3>2 DEF OpenBlob, WellTyped, TypeOK
    <3>4. gc = GcIdle
      BY <1>4, <2>3, <3>1 DEF OpenBlob, Continues
    <3> QED
      BY <1>2, <2>3, <3>3, <3>4 DEF Continues, Held
  <2> QED
    BY <1>1, <1>4, <2>1, <2>2, <2>3 DEF Begins
<1>5. ASSUME NEW a \in acked', InForce(a)', a.id \notin late' PROVE Held(a.manifest)'
  <2>1. CASE a \in acked
    <3>1. Held(a.manifest) /\ a.manifest.content \in Contents
      BY <1>2, <1>5, <2>1 DEF BlobInv, InForce, Expired, WellTyped, TypeOK, Manifest
    <3> QED
      BY <1>3, <3>1 DEF Held, Spared
  <2>2. CASE a \notin acked
    <3>1. ReplyStored(t)
      BY <2>2 DEF Handler, Fail, Submit, OpenBlob, WriteBlob, WriteManifest, WriteIndex,
                  LoadManifest, ReadBlob, Finish, StoreSummary
    <3>2. job[t] \in Storing /\ job[t].step = "reply"
      BY <3>1, JobKinds DEF ReplyStored, StoringSteps, WellTyped
    <3>3. a = [id |-> job[t].id, manifest |-> job[t].draft]
      BY <2>2, <3>1 DEF ReplyStored
    <3>4. Held(job[t].draft) /\ job[t].draft.content \in Contents
      BY <1>2, <1>5, <3>2, <3>3, StoringFields DEF BlobInv
    <3> QED
      BY <1>3, <3>3, <3>4 DEF Held, Spared
  <2> QED
    BY <2>1, <2>2
<1> QED
  BY <1>4, <1>5 DEF BlobInv

\* Bytes are deleted when every manifest listed for them is expired: those
\* in force stay.
LEMMA DeletesExpired ==
  ASSUME WellTyped, Records, GcBlob, NEW m \in Manifest, Held(m), ~Expired(m.created, clock)
  PROVE  blob'[m.content] # "absent"
<1>1. gc # GcIdle /\ gc.now \in Nat /\ gc.now <= clock
  <2>1. gc.step = "blob"
    BY DEF GcBlob
  <2>2. gc # GcIdle
    BY <2>1 DEF GcIdle
  <2> QED
    BY <2>2, GcFields DEF Records, ListedExpired
<1>2. PICK r \in gc.listed : r.content = m.content /\ r.created = m.created
  BY <1>1 DEF Held, Spared
<1>3. ~Expired(r.created, gc.now)
  BY <1>1, <1>2, RetentionType DEF Expired, Manifest, WellTyped, TypeOK
<1>4. ~AllReferencesExpired(m.content)
  BY <1>2, <1>3 DEF AllReferencesExpired
<1>5. blob'[m.content] = blob[m.content]
  <2>1. \/ blob' = blob
        \/ AllReferencesExpired(Current.content)
           /\ blob' = [blob EXCEPT ![Current.content] = "absent"]
    BY Zenon DEF GcBlob
  <2> QED
    BY <1>1, <1>4, <2>1, CurrentListed DEF WellTyped, TypeOK, Manifest
<1> QED
  BY <1>5 DEF Held

LEMMA CollectKeepsBlobs ==
  ASSUME WellTyped, Records, BlobInv, Collect
  PROVE  BlobInv'
<1>1. UNCHANGED <<job, acked, clock>>
  <2>1. CASE GcBlob
    BY <2>1 DEF GcBlob
  <2> QED
    BY <2>1 DEF Collect, GcStart, GcManifest, GcEntries
<1>2. CASE GcStart
  <2> DEFINE kept == {[id |-> id, content |-> manifest[id].content,
                       created |-> manifest[id].created] : id \in {i \in Ids : Stored(i)}}
  <2>1. gc'.listed = kept /\ late' = late \cup InFlight /\ blob' = blob
    BY <1>2 DEF GcStart
  <2>2. ASSUME NEW id \in Ids, Stored(id), NEW m, manifest[id].content = m.content,
               manifest[id].created = m.created
        PROVE  \E r \in kept : r.content = m.content /\ r.created = m.created
    <3> DEFINE r == [id |-> id, content |-> manifest[id].content, created |-> manifest[id].created]
    <3>1. r \in kept
      BY <2>2
    <3> QED
      BY <2>2, <3>1
  <2> HIDE DEF kept
  <2>3. ASSUME NEW t \in Threads, job[t] \in Storing, job[t].step # "open", job[t].id \notin late'
        PROVE  Held(job[t].draft)'
    <3>1. blob[job[t].draft.content] # "absent" /\ job[t].id \in Ids /\ Tracked(t)
      BY <2>1, <2>3, StoringFields DEF BlobInv, Held, Records
    <3>2. Stored(job[t].id)
      <4>1. CASE job[t].step \in {"write", "manifest"}
        BY <2>1, <2>3, <4>1 DEF InFlight
      <4>2. CASE job[t].step \in {"index", "reply"}
        BY <2>3, <3>1, <4>2, StoringFields, ConstantsAssumption DEF Tracked, Stored, Manifest
      <4> QED
        BY <2>3, <4>1, <4>2 DEF Storing
    <3>3. /\ manifest[job[t].id].content = job[t].draft.content
          /\ manifest[job[t].id].created = job[t].draft.created
      BY <2>3, <3>1, <3>2 DEF Tracked
    <3> QED
      BY <1>1, <2>1, <2>2, <3>1, <3>2, <3>3 DEF Held, Spared
  <2>4. ASSUME NEW a \in acked, InForce(a), a.id \notin late' PROVE Held(a.manifest)'
    <3>1. a.id \in Ids /\ manifest[a.id] = a.manifest /\ Stored(a.id)
      BY <2>4, ConstantsAssumption
         DEF Records, AcknowledgedRemains, Stored, Manifest, WellTyped, TypeOK
    <3>2. blob[a.manifest.content] # "absent"
      BY <2>1, <2>4 DEF BlobInv, Held
    <3> QED
      BY <2>1, <2>2, <3>1, <3>2 DEF Held, Spared
  <2> QED
    BY <1>1, <2>3, <2>4 DEF BlobInv, InForce, Expired
<1>3. CASE GcManifest \/ GcEntries \/ GcBlob
  <2>1. late' = late /\ (gc' # GcIdle => gc # GcIdle /\ gc'.listed = gc.listed)
    BY <1>3, GcTodo DEF GcManifest, GcEntries, GcBlob
  <2>2. ASSUME NEW m \in Manifest, Held(m), ~Expired(m.created, clock)
        PROVE  blob'[m.content] # "absent" /\ (gc' # GcIdle => \E r \in gc'.listed :
                                                 r.content = m.content /\ r.created = m.created)
    <3>1. blob'[m.content] # "absent"
      BY <1>3, <2>2, DeletesExpired DEF GcManifest, GcEntries, Held
    <3> QED
      BY <2>1, <2>2, <3>1 DEF Held, Spared
  <2>3. \A t \in Threads : job[t] \in Storing => /\ job[t].draft \in Manifest
                                               /\ ~Expired(job[t].draft.created, clock)
    BY StoringFields DEF Records, Tracked
  <2>4. \A a \in acked : a.manifest \in Manifest
    BY DEF WellTyped, TypeOK
  <2>5. ASSUME NEW t \in Threads, job[t] \in Storing, job[t].step # "open", job[t].id \notin late
        PROVE  Held(job[t].draft)'
    <3> DEFINE m == job[t].draft
    <3>1. m \in Manifest /\ Held(m) /\ ~Expired(m.created, clock)
      BY <2>3, <2>5 DEF BlobInv
    <3>2. job'[t].draft = m
      BY <1>1
    <3> HIDE DEF m
    <3>3. blob'[m.content] # "absent" /\ (gc' # GcIdle => \E r \in gc'.listed :
                                             r.content = m.content /\ r.created = m.created)
      BY <2>2, <3>1
    <3> QED
      BY <3>2, <3>3 DEF Held, Spared
  <2>6. ASSUME NEW a \in acked, InForce(a), a.id \notin late PROVE Held(a.manifest)'
    <3>1. a.manifest \in Manifest /\ Held(a.manifest) /\ ~Expired(a.manifest.created, clock)
      BY <2>4, <2>6 DEF BlobInv, InForce
    <3> QED
      BY <2>2, <3>1 DEF Held, Spared
  <2> QED
    BY <1>1, <2>1, <2>5, <2>6 DEF BlobInv, InForce, Expired
<1> QED
  BY <1>2, <1>3 DEF Collect

LEMMA OthersKeepBlobs ==
  ASSUME WellTyped, Records, BlobInv, GcKilled \/ Restart \/ Tick \/ UNCHANGED vars
  PROVE  BlobInv'
<1> USE DEF BlobInv, Held, Spared, InForce, Expired
<1>1. CASE GcKilled
  BY <1>1 DEF GcKilled
<1>2. CASE Restart
  <2>1. /\ \A t \in Threads : job'[t] \notin Storing
        /\ UNCHANGED <<gc, acked, clock, late>> /\ blob' = Abandon(Threads)
    BY <1>2, NotStoring DEF Restart
  <2>2. \A c \in Contents : blob[c] # "absent" => blob'[c] # "absent"
    BY <2>1 DEF Abandon
  <2>3. \A a \in acked : a.manifest.content \in Contents
    BY DEF WellTyped, TypeOK, Manifest
  <2> QED
    BY <2>1, <2>2, <2>3
<1>3. CASE Tick
  <2>1. clock' = clock + 1 /\ UNCHANGED <<job, blob, gc, acked, late>>
    BY <1>3 DEF Tick
  <2>2. \A a \in acked : InForce(a)' => InForce(a)
    BY <2>1, RetentionType DEF WellTyped, TypeOK, Manifest
  <2> QED
    BY <2>1, <2>2
<1>4. CASE UNCHANGED vars
  BY <1>4 DEF vars
<1> QED
  BY <1>1, <1>2, <1>3, <1>4

LEMMA BlobsStep == WellTyped /\ Records /\ BlobInv /\ [Next]_vars => BlobInv'
BY HandlerKeepsBlobs, CollectKeepsBlobs, OthersKeepBlobs DEF Next

\* BlobKept: gc-artifacts deletes bytes that identical submissions share only
\* when none of them is within its retention, but for those stored meanwhile.
THEOREM BlobsRemain == Spec => []BlobKept
<1>1. Init => BlobInv
  BY NotStoring DEF Init, BlobInv
<1>2. BlobInv => BlobKept
  BY DEF BlobInv, BlobKept, Held
<1> QED
  BY <1>1, <1>2, InitTypes, InitRecords, TypesStep, IdsStep, RecordsStep, BlobsStep, PTL DEF Spec

-----------------------------------------------------------------------------
(* Deliveries *)

\* What a thread sends or shows is what it read: the whole bytes its manifest
\* names, with a status that a scan under the policy in force confirmed.
ReadInv ==
  \A t \in Threads : job[t].step \in {"deliver", "ask"} =>
    LET m == job[t].found IN
    /\ job[t].body = m.content
    /\ \E result \in Result(m.content) : StillPasses(m.status, result)

\* Only a thread that reads a blob comes to deliver or to ask.
LEMMA ServedByReading ==
  ASSUME TypeOK, NEW t \in Threads, Handler(t) \/ Fail(t),
         job'[t].step \in {"deliver", "ask"}
  PROVE  ReadBlob(t)
<1>1. CASE Submit(t) \/ StoreSummary(t)
  BY <1>1 DEF TypeOK, Submit, StoreSummary
<1>2. CASE OpenBlob(t) \/ WriteBlob(t) \/ WriteManifest(t)
  <2>1. job[t] \in Storing
    BY <1>2, JobKinds DEF OpenBlob, WriteBlob, WriteManifest, StoringSteps
  <2>2. PICK s \in StoringSteps : job' = [job EXCEPT ![t].step = s]
    BY <1>2 DEF OpenBlob, WriteBlob, WriteManifest, StoringSteps
  <2>3. job'[t] \in Storing
    BY <2>1, <2>2, SteppedContinues
  <2> QED
    BY <2>3, StoringFields DEF StoringSteps
<1>3. CASE WriteIndex(t)
  <2>1. job[t] \in Storing
    BY <1>3, JobKinds DEF WriteIndex, StoringSteps
  <2>2. job' = [job EXCEPT ![t] = Indexed(job[t])]
    BY <1>3 DEF WriteIndex
  <2>3. job'[t] = Indexed(job[t])
    BY <2>2 DEF TypeOK
  <2>4. Indexed(job[t]).step \in {"reply", "manifest"}
    BY <2>1, IndexedFields
  <2> QED
    BY <2>3, <2>4
<1>4. CASE ReplyStored(t) \/ Finish(t) \/ Fail(t)
  BY <1>4 DEF ReplyStored, Finish, Fail, TypeOK, Idle
<1>5. CASE LoadManifest(t)
  BY <1>5 DEF LoadManifest, TypeOK
<1> QED
  BY <1>1, <1>2, <1>3, <1>4, <1>5 DEF Handler

LEMMA ReadingServes ==
  ASSUME TypeOK, NEW t \in Threads, ReadBlob(t), job'[t].step \in {"deliver", "ask"}
  PROVE  LET m == job'[t].found IN
         /\ job'[t].body = m.content
         /\ \E result \in Result(m.content) : StillPasses(m.status, result)
<1> DEFINE m == job[t].found
           j == Served(t, BytesAt(m.content))
<1>1. PICK result \in Result(m.content) :
        job' = [job EXCEPT ![t] = IF /\ blob[m.content] # "absent"
                                     /\ BytesAt(m.content) = m.content
                                     /\ StillPasses(m.status, result)
                                  THEN j ELSE Idle]
  BY Zenon DEF ReadBlob
<1>2. job'[t] = IF /\ blob[m.content] # "absent"
                   /\ BytesAt(m.content) = m.content
                   /\ StillPasses(m.status, result)
                THEN j ELSE Idle
  BY <1>1, Zenon DEF TypeOK
<1>3. job'[t] # Idle
  BY DEF Idle
<1>4. job'[t] = j /\ BytesAt(m.content) = m.content /\ StillPasses(m.status, result)
  BY <1>2, <1>3, Zenon
<1>5. j.found = m /\ j.body = BytesAt(m.content)
  BY DEF Served
<1> HIDE DEF m, j
<1> QED
  BY <1>1, <1>4, <1>5, Zenon

LEMMA ReadStep == WellTyped /\ ReadInv /\ [Next]_vars => ReadInv'
<1> SUFFICES ASSUME WellTyped, ReadInv, [Next]_vars PROVE ReadInv'
  OBVIOUS
<1>1. ASSUME NEW t \in Threads, Handler(t) \/ Fail(t) PROVE ReadInv'
  <2>1. scanner' = scanner
    BY <1>1 DEF Handler, Fail, Submit, OpenBlob, WriteBlob, WriteManifest, WriteIndex,
                ReplyStored, LoadManifest, ReadBlob, Finish, StoreSummary
  <2>2. \A c : Result(c)' = Result(c)
    BY <2>1 DEF Result
  <2>3. \A u \in Threads \ {t} : job'[u] = job[u]
    BY <1>1, HandlerJobs DEF WellTyped
  <2>4. job'[t].step \in {"deliver", "ask"} =>
          LET m == job'[t].found IN
          /\ job'[t].body = m.content
          /\ \E result \in Result(m.content) : StillPasses(m.status, result)
    BY <1>1, ServedByReading, ReadingServes DEF WellTyped
  <2> QED
    BY <2>2, <2>3, <2>4, Zenon DEF ReadInv
<1>2. CASE Collect \/ GcKilled \/ Tick \/ UNCHANGED vars
  <2>1. job' = job /\ scanner' = scanner
    BY <1>2 DEF Collect, GcStart, GcManifest, GcEntries, GcBlob, GcKilled, Tick, vars
  <2> QED
    BY <2>1, Zenon DEF ReadInv, Result
<1>3. CASE Restart
  <2>1. \A t \in Threads : job'[t].step = "idle"
    BY <1>3 DEF Restart, Idle
  <2> QED
    BY <2>1 DEF ReadInv
<1> QED
  BY <1>1, <1>2, <1>3 DEF Next

LEMMA ReadSuffices == TypeOK /\ ReadInv => DeliversWhatPassed
<1> SUFFICES ASSUME TypeOK, ReadInv, NEW t \in Threads, job[t].step \in {"deliver", "ask"},
                    NEW m, m = job[t].found
             PROVE  /\ job[t].body = m.content
                    /\ m.status \in {"verified", "verified_with_warnings"} =>
                         FitFor(m.status, MediaOf[m.content], scanner[m.content])
  BY Zenon DEF DeliversWhatPassed
<1>1. PICK result \in Result(m.content) :
        job[t].body = m.content /\ StillPasses(m.status, result)
  BY Zenon DEF ReadInv
<1>2. m.content \in Contents
  BY JobKinds DEF Serving, Manifest
<1>3. scanner[m.content] \in Found /\ MediaOf[m.content] \in Media
  BY <1>2, ConstantsAssumption DEF TypeOK, Found
<1>4. ASSUME m.status \in {"verified", "verified_with_warnings"}
      PROVE  FitFor(m.status, MediaOf[m.content], scanner[m.content])
  <2> DEFINE media == MediaOf[m.content]
             found == scanner[m.content]
  <2>1. result \in Inspected(media, found) /\ media \in Media /\ found \in Found
    BY <1>1, <1>3 DEF Result
  <2>2. \/ m.status = "verified" /\ result = "clean"
        \/ m.status = "verified_with_warnings" /\ result \in {"clean", "warnable"}
    BY <1>1, <1>4 DEF StillPasses
  <2> HIDE DEF media, found
  <2>3. /\ Scannable(media) /\ ~media.mismatch /\ ~Incomplete(found)
        /\ result = "clean" => Score(Firm(found)) < Guard.review
        /\ Score(Firm(found)) < Guard.block
        /\ result = "warnable" => \A f \in Firm(found) : f.severity > 0 => f.kind \in Warnable
    BY <2>1, <2>2, ContentsThatPass
  <2>4. FitFor(m.status, media, found)
    BY <2>2, <2>3, Zenon DEF FitFor
  <2> QED
    BY <2>4 DEF media, found
<1> QED
  BY <1>1, <1>4

\* DeliversWhatPassed: whatever is written, deleted or reconfigured meanwhile,
\* what is sent or reviewed are the bytes of its manifest, and fit for the
\* status it has by every scan the policy in force may make of them.
THEOREM DeliveriesPassed == Spec => []DeliversWhatPassed
<1>1. Init => ReadInv
  BY DEF Init, ReadInv, Idle
<1> QED
  BY <1>1, InitTypes, TypesStep, ReadStep, ReadSuffices, PTL DEF Spec, WellTyped

=============================================================================
