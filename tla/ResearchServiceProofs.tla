----------------------- MODULE ResearchServiceProofs -----------------------
(***************************************************************************)
(* Theorems about ResearchService, for any number of threads, runs and     *)
(* registrations, any limits and any web.                                  *)
(***************************************************************************)
EXTENDS ResearchService, FiniteSetTheorems, TLAPS

-----------------------------------------------------------------------------
(* Types *)

LEMMA LimitTypes ==
  /\ SearchLimit \in Nat /\ FetchLimit \in Nat /\ HostLimit \in Nat
  /\ ByteLimit \in Nat /\ ByteLimit > 0
  /\ PageMax \in Nat /\ MaxFound \in Nat /\ MaxRedirects \in Nat /\ RunTtl \in Nat
  /\ MaxRegistrations \in Nat /\ MaxClock \in Nat
BY ResearchAssumption

LEMMA InitTypes == Init => TypeOK
<1> SUFFICES ASSUME Init PROVE TypeOK
  OBVIOUS
<1>1. created = 0 /\ clock = 0 /\ 0 \in 0..MaxRegistrations /\ 0 \in 0..MaxClock
  BY LimitTypes DEF Init
<1>2. /\ states \in [1..0 -> RunState]
      /\ shown \in [1..0 -> SUBSET HostsOf(Urls)] /\ late \in [1..0 -> Nat]
  BY DEF Init
<1>3. runs \in [Runs -> 0..0]
  BY DEF Init
<1>4. job \in [Threads -> Job] /\ \A t \in Threads : job[t] = Idle
  BY DEF Init, Job
<1> QED
  BY <1>1, <1>2, <1>3, <1>4 DEF TypeOK

LEMMA HostsOfSome ==
  ASSUME NEW urls \in SUBSET Urls
  PROVE  HostsOf(urls) \in SUBSET HostsOf(Urls)
BY DEF HostsOf

\* What is dropped by _gc is dropped for good, the rest stays as it is.
LEMMA CollectedTypes ==
  ASSUME TypeOK
  PROVE  Collected \in [Runs -> 0..created]
BY DEF Collected, TypeOK

LEMMA RegisterTypes ==
  ASSUME TypeOK, NEW run \in Runs, Register(run)
  PROVE  TypeOK'
<1>1. created' = created + 1 /\ created \in Nat /\ created' \in 0..MaxRegistrations
  BY LimitTypes DEF Register, TypeOK
<1>2. runs' \in [Runs -> 0..created']
  <2>1. Collected \in [Runs -> 0..created']
    BY <1>1, CollectedTypes
  <2> QED
    BY <1>1, <2>1 DEF Register
<1>3. PICK seeds \in {Proper(given) : given \in SeedSets} :
        /\ states' = [n \in 1..created' |->
                        IF n = created' THEN Fresh(seeds, clock) ELSE states[n]]
        /\ shown' = [n \in 1..created' |-> IF n = created' THEN HostsOf(seeds) ELSE shown[n]]
        /\ late' = [n \in 1..created' |-> IF n = created' THEN 0 ELSE late[n]]
  BY DEF Register
<1>4. seeds \in SUBSET Urls /\ HostsOf(seeds) \in SUBSET HostsOf(Urls)
  BY ResearchAssumption, HostsOfSome DEF Proper
<1>5. Fresh(seeds, clock) \in RunState
  BY <1>4, LimitTypes DEF Fresh, RunState, TypeOK
<1>6. \A n \in 1..created' : n # created' => n \in 1..created
  BY <1>1
<1>7. states' \in [1..created' -> RunState]
  BY <1>3, <1>5, <1>6 DEF TypeOK
<1>8. /\ shown' \in [1..created' -> SUBSET HostsOf(Urls)]
      /\ late' \in [1..created' -> Nat]
  BY <1>3, <1>4, <1>6 DEF TypeOK
<1>9. job' = job /\ clock' = clock /\ 1..created \subseteq 1..created'
  BY <1>1 DEF Register
<1> QED
  BY <1>1, <1>2, <1>7, <1>8, <1>9 DEF TypeOK

LEMMA CallTypes ==
  ASSUME TypeOK, NEW t \in Threads, NEW run \in Runs, Call(t, run)
  PROVE  TypeOK'
<1>1. runs' \in [Runs -> 0..created]
  BY CollectedTypes DEF Call
<1>2. CASE runs'[run] = 0
  BY <1>1, <1>2 DEF Call, TypeOK
<1>3. CASE runs'[run] # 0
  <2>1. runs'[run] \in 1..created /\ runs'[run] \in Numbers
    BY <1>1, <1>3, LimitTypes DEF TypeOK, Numbers
  <2>2. job' = [job EXCEPT ![t] = [step |-> "called", state |-> runs'[run]]]
    BY <1>3 DEF Call
  <2>3. job' \in [Threads -> Job]
    BY <2>1, <2>2 DEF TypeOK, Job
  <2>4. \A u \in Threads : job'[u] = Idle \/ job'[u].state \in 1..created
    BY <2>1, <2>2 DEF TypeOK
  <2> QED
    BY <1>1, <2>3, <2>4 DEF Call, TypeOK
<1> QED
  BY <1>2, <1>3

\* A thread that is busy holds one of the states.
LEMMA Held ==
  ASSUME TypeOK, NEW t \in Threads, job[t] # Idle
  PROVE  /\ job[t].state \in 1..created /\ job[t].state \in Numbers
         /\ states[job[t].state] \in RunState
BY LimitTypes DEF TypeOK, Numbers

LEMMA JobPut ==
  ASSUME TypeOK, NEW t \in Threads, NEW j \in Job, j = Idle \/ j.state \in 1..created,
         job' = [job EXCEPT ![t] = j], created' = created
  PROVE  job' \in [Threads -> Job] /\ \A u \in Threads : job'[u] = Idle \/ job'[u].state \in 1..created'
BY DEF TypeOK

LEMMA EndTypes ==
  ASSUME TypeOK, NEW t \in Threads, End(t), created' = created
  PROVE  job' \in [Threads -> Job] /\ \A u \in Threads : job'[u] = Idle \/ job'[u].state \in 1..created'
BY JobPut DEF End, Job

\* What a state may gain keeps its type.
LEMMA TaughtTypes ==
  ASSUME TypeOK, NEW n \in 1..created, NEW urls \in SUBSET Urls, Teach(n, urls)
  PROVE  states' \in [1..created -> RunState]
<1>1. [states[n] EXCEPT !.eligible = @ \cup urls] \in RunState
  <2>1. states[n] \in RunState
    BY DEF TypeOK
  <2> QED
    BY <2>1 DEF RunState
<1> QED
  BY <1>1 DEF Teach, TypeOK

LEMMA ShownTypes ==
  ASSUME TypeOK, NEW n \in 1..created, NEW urls \in SUBSET Urls,
         shown' = [shown EXCEPT ![n] = @ \cup HostsOf(urls)]
  PROVE  shown' \in [1..created -> SUBSET HostsOf(Urls)]
BY HostsOfSome DEF TypeOK

LEMMA AcceptedTypes ==
  ASSUME TypeOK, NEW n \in 1..created, Accepted(n)
  PROVE  /\ late' \in [1..created -> Nat]
         /\ late' = late \/ (~Live(n) /\ late' = [late EXCEPT ![n] = @ + 1])
BY DEF Accepted, TypeOK

LEMMA Assembled ==
  ASSUME TypeOK, UNCHANGED <<created, clock, runs>>,
         states' \in [1..created -> RunState],
         shown' \in [1..created -> SUBSET HostsOf(Urls)],
         late' \in [1..created -> Nat],
         job' \in [Threads -> Job] /\ \A u \in Threads : job'[u] = Idle \/ job'[u].state \in 1..created'
  PROVE  TypeOK'
BY DEF TypeOK

\* A request is served by a thread that is busy, and the registry is left alone.
LEMMA Serves ==
  ASSUME NEW t \in Threads, Serve(t)
  PROVE  job[t] # Idle /\ created' = created /\ clock' = clock /\ runs' = runs
<1>1. CASE StartSearch(t) \/ SearchDenied(t)
  BY <1>1 DEF StartSearch, SearchDenied, Idle
<1>2. CASE SearchAnswered(t)
  BY <1>2 DEF SearchAnswered, Idle
<1>3. CASE StartFetch(t) \/ FetchDenied(t)
  BY <1>3 DEF StartFetch, FetchDenied, Idle
<1>4. CASE Redirected(t) \/ FetchFailed(t)
  BY <1>4 DEF Redirected, FetchFailed, Idle
<1>5. CASE Page(t) \/ Learn(t)
  BY <1>5 DEF Page, Learn, Idle
<1> QED
  BY <1>1, <1>2, <1>3, <1>4, <1>5 DEF Serve

LEMMA ServeTypes ==
  ASSUME TypeOK, NEW t \in Threads, Serve(t)
  PROVE  TypeOK'
<1>0. job[t] # Idle /\ created' = created /\ clock' = clock /\ runs' = runs
  BY Serves
<1> DEFINE n == job[t].state
<1>1. n \in 1..created /\ n \in Numbers /\ states[n] \in RunState /\ job[t] \in Job
  BY <1>0, Held DEF TypeOK
<1>2. CASE SearchDenied(t) \/ FetchDenied(t) \/ FetchFailed(t)
  <2>1. End(t) /\ UNCHANGED <<states, shown, late>>
    BY <1>2 DEF SearchDenied, FetchDenied, FetchFailed
  <2> QED
    BY <1>0, <2>1, EndTypes DEF TypeOK
<1>3. CASE StartSearch(t)
  <2>1. /\ states[n].searches < SearchLimit
        /\ states' = [states EXCEPT ![n].searches = @ + 1]
        /\ job' = [job EXCEPT ![t] = [step |-> "query", state |-> n]]
        /\ Accepted(n) /\ shown' = shown
    BY <1>3 DEF StartSearch
  <2>2. [states[n] EXCEPT !.searches = @ + 1] \in RunState
    BY <1>1, <2>1, LimitTypes DEF RunState
  <2>3. states' \in [1..created -> RunState]
    BY <1>1, <2>1, <2>2 DEF TypeOK
  <2>4. [step |-> "query", state |-> n] \in Job
    BY <1>1 DEF Job
  <2>5. job' \in [Threads -> Job] /\ \A u \in Threads : job'[u] = Idle \/ job'[u].state \in 1..created'
    BY <1>0, <1>1, <2>1, <2>4, JobPut
  <2>6. late' \in [1..created -> Nat]
    BY <1>1, <2>1, AcceptedTypes
  <2>7. shown' = shown
    BY <2>1
  <2> QED
    BY <1>0, <2>3, <2>5, <2>6, <2>7, Assembled DEF TypeOK
<1>4. CASE SearchAnswered(t)
  <2>1. PICK found \in Findings : Teach(n, found) /\ shown' = [shown EXCEPT ![n] = @ \cup HostsOf(found)]
    BY <1>4 DEF SearchAnswered
  <2>2. found \in SUBSET Urls
    BY DEF Findings, Proper
  <2>3. states' \in [1..created -> RunState] /\ shown' \in [1..created -> SUBSET HostsOf(Urls)]
    BY <1>1, <2>1, <2>2, TaughtTypes, ShownTypes
  <2>4. End(t) /\ late' = late
    BY <1>4 DEF SearchAnswered
  <2>5. job' \in [Threads -> Job] /\ \A u \in Threads : job'[u] = Idle \/ job'[u].state \in 1..created'
    BY <1>0, <2>4, EndTypes
  <2> QED
    BY <1>0, <2>3, <2>4, <2>5, Assembled DEF TypeOK
<1>5. CASE StartFetch(t)
  <2>1. PICK url \in Urls :
          /\ MayFetch(states[n], url)
          /\ states' = [states EXCEPT ![n].hosts = @ \cup {HostOf[url]}, ![n].fetches = @ + 1]
          /\ job' = [job EXCEPT ![t] = [step |-> "get", state |-> n, at |-> url, hops |-> 0]]
          /\ Accepted(n)
    BY <1>5 DEF StartFetch
  <2>2. HostOf[url] \in HostsOf(Urls)
    BY DEF HostsOf
  <2>3. [states[n] EXCEPT !.hosts = @ \cup {HostOf[url]}, !.fetches = @ + 1] \in RunState
    <3>1. states[n].fetches < FetchLimit
      BY <2>1 DEF MayFetch
    <3>2. states[n].fetches + 1 \in 0..FetchLimit
      BY <1>1, <3>1, LimitTypes DEF RunState
    <3> QED
      BY <1>1, <2>2, <3>2 DEF RunState
  <2>4. states' \in [1..created -> RunState]
    BY <1>1, <2>1, <2>3 DEF TypeOK
  <2>5. [step |-> "get", state |-> n, at |-> url, hops |-> 0] \in Job
    BY <1>1, LimitTypes DEF Job
  <2>6. job' \in [Threads -> Job] /\ \A u \in Threads : job'[u] = Idle \/ job'[u].state \in 1..created'
    BY <1>0, <1>1, <2>1, <2>5, JobPut
  <2>7. shown' = shown
    BY <1>5 DEF StartFetch
  <2>8. late' \in [1..created -> Nat]
    BY <1>1, <2>1, AcceptedTypes
  <2> QED
    BY <1>0, <2>4, <2>6, <2>7, <2>8, Assembled DEF TypeOK
<1>6. CASE Redirected(t)
  <2>1. PICK to \in Urls : job' = [job EXCEPT ![t] = Hopped(@, to)]
    BY <1>6 DEF Redirected
  <2>2. job[t].step = "get" /\ job[t].hops < MaxRedirects /\ UNCHANGED <<states, shown, late>>
    BY <1>6 DEF Redirected
  <2>3. Hopped(job[t], to) \in Job /\ Hopped(job[t], to).state = n
    <3>1. job[t] \in [step: {"get"}, state: Numbers, at: Urls, hops: 0..MaxRedirects]
      BY <1>1, <2>2 DEF Job, Idle
    <3>2. job[t].hops + 1 \in 0..MaxRedirects
      BY <2>2, <3>1, LimitTypes
    <3>3. Hopped(job[t], to) \in [step: {"get"}, state: Numbers, at: Urls, hops: 0..MaxRedirects]
      BY <3>1, <3>2 DEF Hopped
    <3>4. Hopped(job[t], to).state = n
      BY <3>1 DEF Hopped
    <3> QED
      BY <3>3, <3>4 DEF Job
  <2>4. job' = [job EXCEPT ![t] = Hopped(job[t], to)]
    BY <2>1 DEF TypeOK
  <2>5. job' \in [Threads -> Job] /\ \A u \in Threads : job'[u] = Idle \/ job'[u].state \in 1..created'
    BY <1>0, <1>1, <2>3, <2>4, JobPut
  <2> QED
    BY <1>0, <2>2, <2>5 DEF TypeOK
<1>7. CASE Page(t)
  <2>1. PICK size \in PageSizes : states' = [states EXCEPT ![n].bytes = @ + size]
    BY <1>7 DEF Page
  <2>2. /\ job[t].step = "get" /\ UNCHANGED <<shown, late>>
        /\ job' = [job EXCEPT ![t] = [step |-> "page", state |-> n, at |-> job[t].at]]
    BY <1>7 DEF Page
  <2>3. [states[n] EXCEPT !.bytes = @ + size] \in RunState
    BY <1>1, LimitTypes DEF RunState, PageSizes
  <2>4. states' \in [1..created -> RunState]
    BY <1>1, <2>1, <2>3 DEF TypeOK
  <2>5. [step |-> "page", state |-> n, at |-> job[t].at] \in Job
    BY <1>1, <2>2 DEF Job, Idle
  <2>6. job' \in [Threads -> Job] /\ \A u \in Threads : job'[u] = Idle \/ job'[u].state \in 1..created'
    BY <1>0, <1>1, <2>2, <2>5, JobPut
  <2> QED
    BY <1>0, <2>2, <2>4, <2>6 DEF TypeOK
<1>8. CASE Learn(t)
  <2>1. PICK links \in Links :
          /\ Teach(n, links \cup {job[t].at})
          /\ shown' = [shown EXCEPT ![n] = @ \cup HostsOf(links)]
    BY <1>8 DEF Learn
  <2>2. links \in SUBSET Urls
    BY DEF Links, Proper
  <2>3. job[t].at \in Urls
    BY <1>1, <1>8 DEF Learn, Job, Idle
  <2>4. states' \in [1..created -> RunState] /\ shown' \in [1..created -> SUBSET HostsOf(Urls)]
    <3>1. links \cup {job[t].at} \in SUBSET Urls
      BY <2>2, <2>3
    <3> QED
      BY <1>1, <2>1, <2>2, <3>1, TaughtTypes, ShownTypes
  <2>5. End(t) /\ late' = late
    BY <1>8 DEF Learn
  <2> QED
    BY <1>0, <2>4, <2>5, EndTypes DEF TypeOK
<1> QED
  BY <1>2, <1>3, <1>4, <1>5, <1>6, <1>7, <1>8 DEF Serve

LEMMA NextTypes == TypeOK /\ [Next]_vars => TypeOK'
<1> SUFFICES ASSUME TypeOK, [Next]_vars PROVE TypeOK'
  OBVIOUS
<1>1. CASE Tick \/ UNCHANGED vars
  BY <1>1, LimitTypes DEF Tick, vars, TypeOK
<1> QED
  BY <1>1, RegisterTypes, CallTypes, ServeTypes DEF Next

\* Every variable keeps its range: the states, their counters and the threads.
THEOREM TypeCorrect == Spec => []TypeOK
BY InitTypes, NextTypes, PTL DEF Spec

-----------------------------------------------------------------------------
(* What a request being served changes *)

\* Only its own state and its own thread; the state's expiry never.
LEMMA ServeFrame ==
  ASSUME TypeOK, NEW t \in Threads, Serve(t)
  PROVE  /\ job[t].state \in 1..created /\ UNCHANGED <<created, runs, clock>>
         /\ \A u \in Threads \ {t} : job'[u] = job[u]
         /\ job'[t] = Idle \/ (job'[t].state = job[t].state /\ job'[t].step # "called")
         /\ \A m \in 1..created : states'[m].expires = states[m].expires
         /\ \A m \in 1..created : m # job[t].state =>
              states'[m] = states[m] /\ shown'[m] = shown[m] /\ late'[m] = late[m]
<1>0. job[t] # Idle
  BY Serves
<1> DEFINE n == job[t].state
<1>1. n \in 1..created /\ states[n] \in RunState /\ job[t] \in Job
  BY <1>0, Held DEF TypeOK
<1> USE DEF TypeOK, RunState
<1>2. CASE SearchDenied(t) \/ FetchDenied(t) \/ FetchFailed(t)
  BY <1>1, <1>2 DEF SearchDenied, FetchDenied, FetchFailed, End
<1>3. CASE StartSearch(t)
  BY <1>1, <1>3, AcceptedTypes DEF StartSearch
<1>4. CASE SearchAnswered(t)
  BY <1>1, <1>4 DEF SearchAnswered, Teach, End
<1>5. CASE StartFetch(t)
  <2>1. PICK url \in Urls :
          /\ states' = [states EXCEPT ![n].hosts = @ \cup {HostOf[url]}, ![n].fetches = @ + 1]
          /\ job' = [job EXCEPT ![t] = [step |-> "get", state |-> n, at |-> url, hops |-> 0]]
          /\ Accepted(n)
    BY <1>5 DEF StartFetch
  <2>2. UNCHANGED <<created, runs, clock, shown>>
    BY <1>5 DEF StartFetch
  <2>3. \A m \in 1..created : states'[m].expires = states[m].expires /\ (m # n => states'[m] = states[m])
    BY <1>1, <2>1
  <2>4. \A m \in 1..created : m # n => late'[m] = late[m]
    BY <1>1, <2>1, AcceptedTypes
  <2>5. /\ job'[t].state = n /\ job'[t].step = "get"
        /\ \A u \in Threads \ {t} : job'[u] = job[u]
    BY <2>1
  <2> QED
    BY <1>1, <2>2, <2>3, <2>4, <2>5
<1>6. CASE Redirected(t)
  <2>1. PICK to \in Urls : job' = [job EXCEPT ![t] = Hopped(job[t], to)]
    BY <1>6 DEF Redirected
  <2>2. job[t].step = "get" /\ UNCHANGED <<states, created, runs, clock, shown, late>>
    BY <1>6 DEF Redirected
  <2>3. job[t] \in [step: {"get"}, state: Numbers, at: Urls, hops: 0..MaxRedirects]
    BY <1>1, <2>2 DEF Job, Idle
  <2>4. Hopped(job[t], to).state = n /\ Hopped(job[t], to).step = "get"
    BY <2>3 DEF Hopped
  <2>5. job'[t] = Hopped(job[t], to) /\ \A u \in Threads \ {t} : job'[u] = job[u]
    BY <2>1
  <2> QED
    BY <1>1, <2>2, <2>4, <2>5
<1>7. CASE Page(t)
  BY <1>1, <1>7 DEF Page
<1>8. CASE Learn(t)
  BY <1>1, <1>8 DEF Learn, Teach, End
<1> QED
  BY <1>2, <1>3, <1>4, <1>5, <1>6, <1>7, <1>8 DEF Serve

-----------------------------------------------------------------------------
(* Where a run may go *)

\* Whatever a state allows is on a host it was shown, and a fetch is at an
\* acceptable URL of such a host.
LedInv ==
  /\ \A n \in 1..created : HostsOf(states[n].eligible) \subseteq shown[n]
  /\ \A t \in Threads : job[t].step \in {"get", "page"} =>
       ~UrlProblem(job[t].at) /\ HostOf[job[t].at] \in shown[job[t].state]

LEMMA HostsOfBoth ==
  ASSUME NEW a, NEW b
  PROVE  HostsOf(a \cup b) = HostsOf(a) \cup HostsOf(b)
BY DEF HostsOf

LEMMA HostsOfOne ==
  ASSUME NEW a, NEW u \in a
  PROVE  HostOf[u] \in HostsOf(a)
BY DEF HostsOf

LEMMA ServeLed ==
  ASSUME TypeOK, LedInv, NEW t \in Threads, Serve(t), NEW n, n = job[t].state
  PROVE  /\ HostsOf(states'[n].eligible) \subseteq shown'[n]
         /\ shown[n] \subseteq shown'[n]
         /\ job'[t].step \in {"get", "page"} =>
              ~UrlProblem(job'[t].at) /\ HostOf[job'[t].at] \in shown'[n]
<1>0. job[t] # Idle
  BY Serves
<1>1. /\ n \in 1..created /\ states[n] \in RunState /\ job[t] \in Job
      /\ HostsOf(states[n].eligible) \subseteq shown[n]
  BY <1>0, Held DEF TypeOK, LedInv
<1> USE DEF TypeOK
<1>2. CASE SearchDenied(t) \/ FetchDenied(t) \/ FetchFailed(t)
  BY <1>1, <1>2 DEF SearchDenied, FetchDenied, FetchFailed, End, Idle
<1>3. CASE StartSearch(t)
  <2>1. /\ states'[n].eligible = states[n].eligible /\ shown' = shown
        /\ job'[t].step = "query"
    BY <1>1, <1>3 DEF StartSearch, RunState
  <2> QED
    BY <1>1, <2>1
<1>4. CASE SearchAnswered(t)
  <2>1. PICK found \in Findings : Teach(n, found) /\ shown' = [shown EXCEPT ![n] = @ \cup HostsOf(found)]
    BY <1>4 DEF SearchAnswered
  <2>2. states'[n].eligible = states[n].eligible \cup found
    BY <1>1, <2>1 DEF Teach, RunState
  <2>3. shown'[n] = shown[n] \cup HostsOf(found) /\ job'[t] = Idle
    BY <1>1, <1>4, <2>1 DEF SearchAnswered, End
  <2>4. HostsOf(states'[n].eligible) = HostsOf(states[n].eligible) \cup HostsOf(found)
    BY <2>2, HostsOfBoth
  <2> QED
    BY <1>1, <2>3, <2>4 DEF Idle
<1>5. CASE StartFetch(t)
  <2>1. PICK url \in Urls :
          /\ MayFetch(states[n], url)
          /\ states' = [states EXCEPT ![n].hosts = @ \cup {HostOf[url]}, ![n].fetches = @ + 1]
          /\ job' = [job EXCEPT ![t] = [step |-> "get", state |-> n, at |-> url, hops |-> 0]]
    BY <1>5 DEF StartFetch
  <2>2. states'[n].eligible = states[n].eligible
    BY <1>1, <2>1 DEF RunState
  <2>3. ~UrlProblem(url) /\ HostOf[url] \in shown[n]
    BY <1>1, <2>1, HostsOfOne DEF MayFetch
  <2>4. shown' = shown
    BY <1>5 DEF StartFetch
  <2>5. job'[t].at = url
    BY <2>1
  <2> QED
    BY <1>1, <2>2, <2>3, <2>4, <2>5
<1>6. CASE Redirected(t)
  <2>1. PICK to \in Urls : /\ MayRedirect(states[n], job[t].at, to)
                           /\ job' = [job EXCEPT ![t] = Hopped(job[t], to)]
    BY <1>6 DEF Redirected
  <2>2. job[t].step = "get" /\ UNCHANGED <<states, shown>>
    BY <1>6 DEF Redirected
  <2>3. job[t] \in [step: {"get"}, state: Numbers, at: Urls, hops: 0..MaxRedirects]
    BY <1>1, <2>2 DEF Job, Idle
  <2>4. job'[t].at = to
    BY <2>1, <2>3 DEF Hopped
  <2>5. ~UrlProblem(to) /\ HostOf[to] \in shown[n]
    BY <1>1, <2>1, <2>2, HostsOfOne DEF MayRedirect, LedInv
  <2> QED
    BY <1>1, <2>2, <2>4, <2>5
<1>7. CASE Page(t)
  <2>1. /\ job[t].step = "get" /\ shown' = shown /\ job'[t].at = job[t].at
    BY <1>7 DEF Page
  <2>2. states'[n].eligible = states[n].eligible
    BY <1>1, <1>7 DEF Page, RunState
  <2> QED
    BY <1>1, <2>1, <2>2 DEF LedInv
<1>8. CASE Learn(t)
  <2>1. PICK links \in Links :
          /\ Teach(n, links \cup {job[t].at})
          /\ shown' = [shown EXCEPT ![n] = @ \cup HostsOf(links)]
    BY <1>8 DEF Learn
  <2>2. states'[n].eligible = states[n].eligible \cup (links \cup {job[t].at})
    BY <1>1, <2>1 DEF Teach, RunState
  <2>3. shown'[n] = shown[n] \cup HostsOf(links) /\ job'[t] = Idle
    BY <1>1, <1>8, <2>1 DEF Learn, End
  <2>4. HostsOf({job[t].at}) \subseteq shown[n]
    BY <1>1, <1>8 DEF Learn, LedInv, HostsOf
  <2>5. HostsOf(links \cup {job[t].at}) = HostsOf(links) \cup HostsOf({job[t].at})
    BY HostsOfBoth
  <2>6. HostsOf(states'[n].eligible) =
          HostsOf(states[n].eligible) \cup (HostsOf(links) \cup HostsOf({job[t].at}))
    <3>1. HostsOf(states[n].eligible \cup (links \cup {job[t].at})) =
            HostsOf(states[n].eligible) \cup HostsOf(links \cup {job[t].at})
      BY HostsOfBoth
    <3> QED
      BY <2>2, <2>5, <3>1, Zenon
  <2> HIDE DEF TypeOK
  <2>7. HostsOf(states'[n].eligible) \subseteq shown'[n]
    BY <1>1, <2>3, <2>4, <2>6, Zenon
  <2>8. shown[n] \subseteq shown'[n]
    BY <2>3
  <2> QED
    BY <2>3, <2>7, <2>8 DEF Idle
<1> QED
  BY <1>2, <1>3, <1>4, <1>5, <1>6, <1>7, <1>8 DEF Serve

LEMMA NextLed == TypeOK /\ LedInv /\ [Next]_vars => LedInv'
<1> SUFFICES ASSUME TypeOK, LedInv, [Next]_vars PROVE LedInv'
  OBVIOUS
<1>1. ASSUME NEW t \in Threads, Serve(t) PROVE LedInv'
  <2>0. job[t].state \in 1..created /\ created' = created
    BY <1>1, ServeFrame
  <2>1. \A n \in 1..created : HostsOf(states'[n].eligible) \subseteq shown'[n]
    <3> TAKE n \in 1..created
    <3>1. CASE n = job[t].state
      BY <1>1, <3>1, ServeLed
    <3>2. CASE n # job[t].state
      <4>1. states'[n].eligible = states[n].eligible /\ shown'[n] = shown[n]
        BY <1>1, <3>2, ServeFrame
      <4> QED
        BY <4>1 DEF LedInv
    <3> QED
      BY <3>1, <3>2
  <2>2. \A n \in 1..created : shown[n] \subseteq shown'[n]
    <3> TAKE n \in 1..created
    <3>1. CASE n = job[t].state
      BY <1>1, <3>1, ServeLed
    <3>2. CASE n # job[t].state
      <4>1. shown'[n] = shown[n]
        BY <1>1, <3>2, ServeFrame
      <4> QED
        BY <4>1
    <3> QED
      BY <3>1, <3>2
  <2>3. ASSUME NEW u \in Threads, job'[u].step \in {"get", "page"}
        PROVE  ~UrlProblem(job'[u].at) /\ HostOf[job'[u].at] \in shown'[job'[u].state]
    <3>1. CASE u = t
      BY <1>1, <2>3, <3>1, ServeFrame, ServeLed DEF Idle
    <3>2. CASE u # t
      <4>1. job'[u] = job[u]
        BY <1>1, <3>2, ServeFrame
      <4>2. job[u].state \in 1..created
        BY <2>3, <4>1, Held DEF Idle
      <4> QED
        BY <2>2, <2>3, <4>1, <4>2 DEF LedInv
    <3> QED
      BY <3>1, <3>2
  <2>4. \A n \in 1..created' : HostsOf(states'[n].eligible) \subseteq shown'[n]
    BY <2>0, <2>1
  <2> QED
    BY <2>3, <2>4 DEF LedInv, HostsOf, UrlProblem
<1>2. ASSUME NEW run \in Runs, Register(run) PROVE LedInv'
  <2>1. /\ created' = created + 1 /\ created \in Nat
        /\ \A n \in 1..created' : n # created' => n \in 1..created
    BY <1>2 DEF Register, TypeOK
  <2>2. PICK seeds \in {Proper(given) : given \in SeedSets} :
          /\ states' = [n \in 1..created' |->
                          IF n = created' THEN Fresh(seeds, clock) ELSE states[n]]
          /\ shown' = [n \in 1..created' |-> IF n = created' THEN HostsOf(seeds) ELSE shown[n]]
    BY <1>2 DEF Register
  <2>3. Fresh(seeds, clock).eligible = seeds
    BY DEF Fresh
  <2>4. \A n \in 1..created' : HostsOf(states'[n].eligible) \subseteq shown'[n]
    BY <2>1, <2>2, <2>3 DEF LedInv
  <2>6. job' = job
    BY <1>2 DEF Register
  <2>7. ASSUME NEW t \in Threads, job'[t].step \in {"get", "page"}
        PROVE  ~UrlProblem(job'[t].at) /\ HostOf[job'[t].at] \in shown'[job'[t].state]
    <3>1. job[t].state \in 1..created /\ job'[t] = job[t]
      BY <2>6, <2>7, Held DEF Idle
    <3>2. shown'[job[t].state] = shown[job[t].state]
      BY <2>1, <2>2, <3>1
    <3> QED
      BY <2>7, <3>1, <3>2 DEF LedInv
  <2> QED
    BY <2>4, <2>7 DEF LedInv, HostsOf, UrlProblem
<1>3. ASSUME NEW t \in Threads, NEW run \in Runs, Call(t, run) PROVE LedInv'
  <2>1. UNCHANGED <<states, created, shown>>
    BY <1>3 DEF Call
  <2>2. \A u \in Threads : job'[u].step \in {"get", "page"} => job'[u] = job[u]
    BY <1>3 DEF Call, TypeOK
  <2> QED
    BY <2>1, <2>2 DEF LedInv, HostsOf, UrlProblem
<1>4. CASE Tick \/ UNCHANGED vars
  BY <1>4 DEF Tick, vars, LedInv, HostsOf, UrlProblem
<1> QED
  BY <1>1, <1>2, <1>3, <1>4 DEF Next

LEMMA InitLed == Init => LedInv
BY DEF Init, LedInv, Idle

\* No request leaves for a host that the run was not led to, and no chain of
\* redirects ends at a URL that the policy refuses.
THEOREM RunsAreLed == Spec => []Provenance
<1>1. LedInv => Provenance
  BY DEF LedInv, Provenance
<1> QED
  BY <1>1, InitLed, NextLed, TypeCorrect, PTL DEF Spec

-----------------------------------------------------------------------------
(* How much a run may fetch *)

LEMMA ThreadCount ==
  ASSUME NEW S \in SUBSET Threads
  PROVE  /\ IsFiniteSet(S) /\ Cardinality(S) \in Nat
         /\ Cardinality(Threads) \in Nat /\ Cardinality(S) <= Cardinality(Threads)
BY ResearchAssumption, FS_Subset, FS_CardinalityType

LEMMA TimesGrows ==
  ASSUME NEW p \in Nat, NEW a \in Nat, NEW b \in Nat, a <= b
  PROVE  p * a \in Nat /\ p * b \in Nat /\ p * a <= p * b
<1>1. PICK d \in Nat : b = a + d
  <2>1. b - a \in Nat /\ b = a + (b - a)
    OBVIOUS
  <2> QED
    BY <2>1
<1>2. p * b = p * a + p * d /\ p * d \in Nat /\ p * a \in Nat
  BY <1>1
<1> QED
  BY <1>2

LEMMA TimesOneMore ==
  ASSUME NEW p \in Nat, NEW a \in Nat
  PROVE  p * (a + 1) = p * a + p
OBVIOUS

\* The bytes of a state and of the pages it is still waiting for.
ByteInv ==
  \A n \in 1..created :
    states[n].bytes + PageMax * Cardinality(Fetching(n)) < ByteLimit + PageMax * Cardinality(Threads)

LEMMA ServeBytes ==
  ASSUME TypeOK, NEW t \in Threads, Serve(t), NEW n, n = job[t].state
  PROVE  \/ states'[n].bytes = states[n].bytes /\ (job'[t].step = "get" => job[t].step = "get")
         \/ states'[n].bytes = states[n].bytes /\ states[n].bytes < ByteLimit
         \/ /\ states'[n].bytes <= states[n].bytes + PageMax
            /\ job[t].step = "get" /\ job'[t].step # "get"
<1>0. job[t] # Idle
  BY Serves
<1>1. n \in 1..created /\ states[n] \in RunState
  BY <1>0, Held
<1> USE DEF TypeOK
<1>2. CASE SearchDenied(t) \/ FetchDenied(t) \/ FetchFailed(t)
  BY <1>1, <1>2 DEF SearchDenied, FetchDenied, FetchFailed, End, Idle
<1>3. CASE StartSearch(t)
  BY <1>1, <1>3 DEF StartSearch, RunState
<1>4. CASE SearchAnswered(t)
  BY <1>1, <1>4 DEF SearchAnswered, Teach, End, Idle, RunState
<1>5. CASE StartFetch(t)
  <2>1. PICK url \in Urls :
          /\ MayFetch(states[n], url)
          /\ states' = [states EXCEPT ![n].hosts = @ \cup {HostOf[url]}, ![n].fetches = @ + 1]
    BY <1>5 DEF StartFetch
  <2> QED
    BY <1>1, <2>1 DEF MayFetch, RunState
<1>6. CASE Redirected(t)
  BY <1>6 DEF Redirected
<1>7. CASE Page(t)
  <2>1. PICK size \in PageSizes : states' = [states EXCEPT ![n].bytes = @ + size]
    BY <1>7 DEF Page
  <2>2. states'[n].bytes = states[n].bytes + size /\ size <= PageMax
    BY <1>1, <2>1, LimitTypes DEF RunState, PageSizes
  <2>3. job[t].step = "get" /\ job'[t].step = "page"
    BY <1>7 DEF Page
  <2>4. states[n].bytes \in Nat /\ size \in Nat /\ PageMax \in Nat
    BY <1>1, LimitTypes DEF RunState, PageSizes
  <2>5. states'[n].bytes <= states[n].bytes + PageMax
    <3> HIDE DEF TypeOK
    <3> QED
      BY <2>2, <2>4
  <2> QED
    BY <2>3, <2>5
<1>8. CASE Learn(t)
  BY <1>1, <1>8 DEF Learn, Teach, End, Idle, RunState
<1> QED
  BY <1>2, <1>3, <1>4, <1>5, <1>6, <1>7, <1>8 DEF Serve

LEMMA NextBytes == TypeOK /\ ByteInv /\ [Next]_vars => ByteInv'
<1> SUFFICES ASSUME TypeOK, TypeOK', ByteInv, [Next]_vars, NEW n \in 1..created'
             PROVE  states'[n].bytes + PageMax * Cardinality(Fetching(n)')
                      < ByteLimit + PageMax * Cardinality(Threads)
  BY NextTypes DEF ByteInv, Fetching
<1> DEFINE before == Fetching(n)
           after == Fetching(n)'
<1>0. /\ before \in SUBSET Threads /\ after \in SUBSET Threads
      /\ Cardinality(before) \in Nat /\ Cardinality(after) \in Nat
      /\ Cardinality(Threads) \in Nat /\ IsFiniteSet(before)
      /\ Cardinality(after) <= Cardinality(Threads)
  <2>1. before \in SUBSET Threads /\ after \in SUBSET Threads
    BY DEF Fetching
  <2> QED
    BY <2>1, ThreadCount
<1>a. /\ PageMax * Cardinality(before) \in Nat /\ PageMax * Cardinality(after) \in Nat
      /\ PageMax * Cardinality(Threads) \in Nat
      /\ PageMax * Cardinality(after) <= PageMax * Cardinality(Threads)
  BY <1>0, LimitTypes, TimesGrows
<1>b. states'[n].bytes \in Nat
  BY DEF TypeOK, RunState
<1> HIDE DEF before, after
\* A state no fetch of which is new, and whose bytes are what they were.
<1>c. ASSUME n \in 1..created, states'[n].bytes = states[n].bytes, after \subseteq before
      PROVE  states'[n].bytes + PageMax * Cardinality(after) < ByteLimit + PageMax * Cardinality(Threads)
  <2>1. Cardinality(after) <= Cardinality(before)
    BY <1>0, <1>c, FS_Subset
  <2>2. PageMax * Cardinality(after) <= PageMax * Cardinality(before)
    BY <1>0, <2>1, LimitTypes, TimesGrows
  <2>3. states[n].bytes + PageMax * Cardinality(before) < ByteLimit + PageMax * Cardinality(Threads)
    BY <1>c DEF ByteInv, before
  <2> QED
    BY <1>a, <1>b, <1>c, <2>2, <2>3, LimitTypes
<1>1. ASSUME NEW t \in Threads, Serve(t)
      PROVE  states'[n].bytes + PageMax * Cardinality(after) < ByteLimit + PageMax * Cardinality(Threads)
  <2>0. created' = created /\ job[t].state \in 1..created /\ n \in 1..created
    BY <1>1, ServeFrame
  <2>1. \A u \in Threads \ {t} : u \in after <=> u \in before
    BY <1>1, ServeFrame DEF Fetching, before, after
  <2>2. t \in after => job'[t].step = "get" /\ job[t].state = n
    BY <1>1, ServeFrame DEF Fetching, after, Idle
  <2>3. CASE n # job[t].state
    <3>1. states'[n] = states[n]
      BY <1>1, <2>0, <2>3, ServeFrame
    <3>2. after \subseteq before
      BY <1>0, <2>1, <2>2, <2>3
    <3> QED
      BY <1>c, <2>0, <3>1, <3>2
  <2>4. CASE n = job[t].state /\ states'[n].bytes = states[n].bytes
             /\ (job'[t].step = "get" => job[t].step = "get")
    <3>1. t \in after => t \in before
      BY <2>2, <2>4 DEF Fetching, before
    <3>2. after \subseteq before
      BY <1>0, <2>1, <3>1
    <3> QED
      BY <1>c, <2>0, <2>4, <3>2
  <2>5. CASE states'[n].bytes = states[n].bytes /\ states[n].bytes < ByteLimit
    BY <1>a, <1>b, <2>5, LimitTypes
  <2>6. CASE /\ n = job[t].state /\ states'[n].bytes <= states[n].bytes + PageMax
             /\ job[t].step = "get" /\ job'[t].step # "get"
    <3>1. t \in before /\ after \subseteq before \ {t}
      BY <1>0, <2>1, <2>2, <2>6 DEF Fetching, before
    <3>2. IsFiniteSet(before \ {t}) /\ Cardinality(before \ {t}) = Cardinality(before) - 1
      BY <1>0, <3>1, FS_RemoveElement
    <3>3. Cardinality(after) <= Cardinality(before \ {t})
      BY <3>1, <3>2, FS_Subset
    <3>4. Cardinality(after) + 1 <= Cardinality(before)
      BY <1>0, <3>2, <3>3
    <3>5. PageMax * (Cardinality(after) + 1) <= PageMax * Cardinality(before)
      BY <1>0, <3>4, LimitTypes, TimesGrows
    <3>6. PageMax * (Cardinality(after) + 1) = PageMax * Cardinality(after) + PageMax
      BY <1>0, LimitTypes, TimesOneMore
    <3>7. states[n].bytes + PageMax * Cardinality(before) < ByteLimit + PageMax * Cardinality(Threads)
      BY <2>0 DEF ByteInv, before
    <3>8. states[n].bytes \in Nat
      BY <2>0 DEF TypeOK, RunState
    <3> QED
      BY <1>a, <1>b, <2>6, <3>5, <3>6, <3>7, <3>8, LimitTypes
  <2> QED
    BY <1>1, <2>3, <2>4, <2>5, <2>6, ServeBytes
<1>2. ASSUME NEW run \in Runs, Register(run)
      PROVE  states'[n].bytes + PageMax * Cardinality(after) < ByteLimit + PageMax * Cardinality(Threads)
  <2>1. created' = created + 1 /\ created \in Nat /\ job' = job
    BY <1>2 DEF Register, TypeOK
  <2>2. PICK seeds : states' = [m \in 1..created' |->
                                 IF m = created' THEN Fresh(seeds, clock) ELSE states[m]]
    BY <1>2 DEF Register
  <2>3. CASE n = created'
    <3>1. states'[n].bytes = 0
      BY <2>2, <2>3 DEF Fresh
    <3> QED
      BY <1>a, <3>1, LimitTypes
  <2>4. CASE n # created'
    <3>1. n \in 1..created /\ states'[n] = states[n]
      BY <2>1, <2>2, <2>4
    <3>2. after = before
      BY <2>1 DEF before, after, Fetching
    <3> QED
      BY <1>c, <3>1, <3>2
  <2> QED
    BY <2>3, <2>4
<1>3. ASSUME NEW t \in Threads, NEW run \in Runs, Call(t, run)
      PROVE  states'[n].bytes + PageMax * Cardinality(after) < ByteLimit + PageMax * Cardinality(Threads)
  <2>1. states' = states /\ created' = created
    BY <1>3 DEF Call
  <2>2. \A u \in Threads : job'[u].step = "get" => job'[u] = job[u]
    BY <1>3 DEF Call, TypeOK
  <2>3. after \subseteq before
    BY <2>2 DEF before, after, Fetching
  <2> QED
    BY <1>c, <2>1, <2>3
<1>4. CASE Tick \/ UNCHANGED vars
  <2>1. states' = states /\ created' = created /\ job' = job
    BY <1>4 DEF Tick, vars
  <2>2. after = before
    BY <2>1 DEF before, after, Fetching
  <2>3. n \in 1..created /\ states'[n].bytes = states[n].bytes
    BY <2>1
  <2>4. after \subseteq before
    BY <2>2
  <2> QED
    BY <1>c, <2>3, <2>4 DEF after
<1> QED
  BY <1>1, <1>2, <1>3, <1>4 DEF Next, after

LEMMA InitBytes == Init => ByteInv
BY DEF Init, ByteInv

LEMMA BytesSuffice == TypeOK /\ ByteInv => ByteOvershoot
<1> SUFFICES ASSUME TypeOK, ByteInv, NEW n \in 1..created
             PROVE  states[n].bytes < ByteLimit + PageMax * Cardinality(Threads)
  BY DEF ByteOvershoot
<1>1. Fetching(n) \in SUBSET Threads
  BY DEF Fetching
<1>2. Cardinality(Fetching(n)) \in Nat /\ Cardinality(Threads) \in Nat
  BY <1>1, ThreadCount
<1>3. PageMax * Cardinality(Fetching(n)) \in Nat /\ PageMax * Cardinality(Threads) \in Nat
  BY <1>2, LimitTypes, TimesGrows
<1>4. states[n].bytes \in Nat
  BY DEF TypeOK, RunState
<1>5. states[n].bytes + PageMax * Cardinality(Fetching(n)) < ByteLimit + PageMax * Cardinality(Threads)
  BY DEF ByteInv
<1> QED
  BY <1>3, <1>4, <1>5, LimitTypes

\* Concurrent fetches pass the byte limit by less than a page for each thread.
THEOREM BytesAreBounded == Spec => []ByteOvershoot
BY InitBytes, NextBytes, BytesSuffice, TypeCorrect, PTL DEF Spec

-----------------------------------------------------------------------------
(* What becomes of a state that was dropped *)

Waiting(n) == {t \in Threads : job[t].step = "called" /\ job[t].state = n}

\* Nothing is late for a state the registry still hands out; a state once
\* dropped is never found again, so what is late for it and what still waits
\* for it were looked up by distinct threads.
LateInv ==
  \A n \in 1..created :
    /\ Live(n) => late[n] = 0
    /\ late[n] + Cardinality(Waiting(n)) <= Cardinality(Threads)

LEMMA WaitingCount ==
  ASSUME NEW n
  PROVE  /\ Waiting(n) \in SUBSET Threads /\ IsFiniteSet(Waiting(n))
         /\ Cardinality(Waiting(n)) \in Nat /\ Cardinality(Threads) \in Nat
         /\ Cardinality(Waiting(n)) <= Cardinality(Threads)
<1>1. Waiting(n) \in SUBSET Threads
  BY DEF Waiting
<1> QED
  BY <1>1, ThreadCount

\* A request is counted as late only when it stops waiting, on a state that
\* was dropped.
LEMMA ServeLate ==
  ASSUME TypeOK, NEW t \in Threads, Serve(t)
  PROVE  \/ late' = late
         \/ /\ job[t].step = "called" /\ ~Live(job[t].state)
            /\ late' = [late EXCEPT ![job[t].state] = @ + 1]
<1>1. job[t].state \in 1..created
  BY ServeFrame
<1>2. CASE StartSearch(t)
  BY <1>1, <1>2, AcceptedTypes DEF StartSearch
<1>3. CASE StartFetch(t)
  BY <1>1, <1>3, AcceptedTypes DEF StartFetch
<1>4. CASE ~StartSearch(t) /\ ~StartFetch(t)
  BY <1>4 DEF Serve, SearchDenied, SearchAnswered, FetchDenied, Redirected, FetchFailed, Page, Learn
<1> QED
  BY <1>2, <1>3, <1>4

\* The step of a request leaves a dropped state dropped.
LEMMA NoReturn ==
  ASSUME TypeOK, [Next]_vars, NEW n \in 1..created, Live(n)'
  PROVE  Live(n)
<1>1. ASSUME NEW t \in Threads, Serve(t) PROVE Live(n)
  BY <1>1, ServeFrame DEF Live, Expired
<1>2. ASSUME NEW run \in Runs, Register(run) PROVE Live(n)
  <2>1. /\ created' = created + 1 /\ created \in Nat /\ clock' = clock
        /\ runs' = [Collected EXCEPT ![run] = created']
    BY <1>2 DEF Register, TypeOK
  <2>2. PICK seeds : states' = [m \in 1..created' |->
                                 IF m = created' THEN Fresh(seeds, clock) ELSE states[m]]
    BY <1>2 DEF Register
  <2>3. states'[n] = states[n] /\ n # created' /\ n # 0
    BY <2>1, <2>2
  <2>4. PICK r \in Runs : runs'[r] = n
    BY DEF Live
  <2>5. Collected[r] = n
    BY <2>1, <2>3, <2>4, CollectedTypes
  <2>6. runs[r] = n
    BY <2>3, <2>5 DEF Collected
  <2> QED
    BY <2>1, <2>3, <2>6 DEF Live, Expired
<1>3. ASSUME NEW t \in Threads, NEW run \in Runs, Call(t, run) PROVE Live(n)
  <2>1. states' = states /\ clock' = clock /\ runs' = Collected
    BY <1>3 DEF Call
  <2>2. PICK r \in Runs : runs'[r] = n
    BY DEF Live
  <2>3. runs[r] = n
    BY <2>1, <2>2 DEF Collected
  <2> QED
    BY <2>1, <2>3 DEF Live, Expired
<1>4. CASE Tick \/ UNCHANGED vars
  <2>1. states' = states /\ runs' = runs /\ clock' >= clock
    BY <1>4, LimitTypes DEF Tick, vars, TypeOK
  <2>2. states[n].expires \in Nat /\ clock \in Nat /\ clock' \in Nat
    <3>1. clock \in Nat /\ clock' \in Nat
      BY <1>4, LimitTypes DEF Tick, vars, TypeOK
    <3>2. states[n] \in RunState
      BY DEF TypeOK
    <3> QED
      BY <3>1, <3>2 DEF RunState
  <2>3. Expired(n) => Expired(n)'
    BY <2>1, <2>2 DEF Expired
  <2> QED
    BY <2>1, <2>3 DEF Live
<1> QED
  BY <1>1, <1>2, <1>3, <1>4 DEF Next

LEMMA NextLate == TypeOK /\ LateInv /\ [Next]_vars => LateInv'
<1> SUFFICES ASSUME TypeOK, TypeOK', LateInv, [Next]_vars, NEW n \in 1..created'
             PROVE  /\ Live(n)' => late'[n] = 0
                    /\ late'[n] + Cardinality(Waiting(n)') <= Cardinality(Threads)
  BY NextTypes DEF LateInv, Live, Expired, Waiting
<1> DEFINE before == Waiting(n)
           after == Waiting(n)'
<1>0. /\ IsFiniteSet(before) /\ Cardinality(before) \in Nat
      /\ after \in SUBSET Threads /\ Cardinality(after) \in Nat
      /\ Cardinality(Threads) \in Nat /\ Cardinality(after) <= Cardinality(Threads)
  <2>1. after \in SUBSET Threads
    BY DEF Waiting
  <2> QED
    BY <2>1, WaitingCount, ThreadCount
<1>a. late'[n] \in Nat
  BY DEF TypeOK
<1>b. ASSUME n \in 1..created
      PROVE  /\ late[n] \in Nat /\ (Live(n) => late[n] = 0) /\ (Live(n)' => Live(n))
             /\ late[n] + Cardinality(before) <= Cardinality(Threads)
  BY <1>b, NoReturn DEF TypeOK, LateInv
<1> HIDE DEF before, after
<1>c. ASSUME n \in 1..created, late'[n] = late[n], after \subseteq before
      PROVE  (Live(n)' => late'[n] = 0) /\ late'[n] + Cardinality(after) <= Cardinality(Threads)
  <2>1. Cardinality(after) <= Cardinality(before)
    BY <1>0, <1>c, FS_Subset
  <2>2. late'[n] + Cardinality(after) <= Cardinality(Threads)
    BY <1>0, <1>b, <1>c, <2>1
  <2> QED
    BY <1>b, <1>c, <2>2
<1>1. ASSUME NEW t \in Threads, Serve(t)
      PROVE  (Live(n)' => late'[n] = 0) /\ late'[n] + Cardinality(after) <= Cardinality(Threads)
  <2>0. created' = created /\ n \in 1..created
    BY <1>1, ServeFrame
  <2>1. after \subseteq before \ {t}
    BY <1>1, ServeFrame DEF before, after, Waiting, Idle
  <2>2. CASE late'[n] = late[n]
    BY <1>c, <2>0, <2>1, <2>2
  <2>3. CASE late'[n] # late[n]
    <3>1. /\ job[t].step = "called" /\ ~Live(job[t].state)
          /\ late' = [late EXCEPT ![job[t].state] = @ + 1]
      BY <1>1, <2>3, ServeLate
    <3>2. n = job[t].state /\ late'[n] = late[n] + 1
      BY <2>0, <2>3, <3>1 DEF TypeOK
    <3>3. t \in before
      BY <3>1, <3>2 DEF before, Waiting
    <3>4. IsFiniteSet(before \ {t}) /\ Cardinality(before \ {t}) = Cardinality(before) - 1
      BY <1>0, <3>3, FS_RemoveElement
    <3>5. Cardinality(after) <= Cardinality(before) - 1
      BY <2>1, <3>4, FS_Subset
    <3>6. late'[n] + Cardinality(after) <= Cardinality(Threads)
      BY <1>0, <1>b, <2>0, <3>2, <3>5
    <3> QED
      BY <1>b, <2>0, <3>1, <3>2, <3>6
  <2> QED
    BY <2>2, <2>3
<1>2. ASSUME NEW run \in Runs, Register(run)
      PROVE  (Live(n)' => late'[n] = 0) /\ late'[n] + Cardinality(after) <= Cardinality(Threads)
  <2>1. created' = created + 1 /\ created \in Nat /\ job' = job
    BY <1>2 DEF Register, TypeOK
  <2>2. late' = [m \in 1..created' |-> IF m = created' THEN 0 ELSE late[m]]
    BY <1>2 DEF Register
  <2>3. CASE n = created'
    BY <1>0, <2>2, <2>3
  <2>4. CASE n # created'
    <3>1. n \in 1..created /\ late'[n] = late[n]
      BY <2>1, <2>2, <2>4
    <3>2. after \subseteq before
      BY <2>1 DEF before, after, Waiting
    <3> QED
      BY <1>c, <3>1, <3>2
  <2> QED
    BY <2>3, <2>4
<1>3. ASSUME NEW t \in Threads, NEW run \in Runs, Call(t, run)
      PROVE  (Live(n)' => late'[n] = 0) /\ late'[n] + Cardinality(after) <= Cardinality(Threads)
  <2>1. late' = late /\ n \in 1..created /\ states' = states /\ clock' = clock /\ runs' = Collected
    BY <1>3 DEF Call
  <2>2. CASE Live(n)
    BY <1>0, <1>b, <2>1, <2>2
  <2>3. CASE ~Live(n)
    <3>1. runs'[run] # n
      <4>1. SUFFICES ASSUME runs'[run] = n PROVE FALSE
        OBVIOUS
      <4>2. Collected[run] = n /\ n # 0
        BY <2>1, <4>1
      <4>3. runs[run] = n /\ ~Expired(n)
        BY <4>2 DEF Collected
      <4> QED
        BY <2>3, <4>3 DEF Live
    <3>2. after \subseteq before
      BY <1>3, <3>1 DEF before, after, Waiting, Call, TypeOK
    <3> QED
      BY <1>c, <2>1, <3>2
  <2> QED
    BY <2>2, <2>3
<1>4. CASE Tick \/ UNCHANGED vars
  <2>1. late' = late /\ created' = created /\ job' = job
    BY <1>4 DEF Tick, vars
  <2>2. after \subseteq before
    BY <2>1 DEF before, after, Waiting
  <2>3. (Live(n)' => late'[n] = 0) /\ late'[n] + Cardinality(after) <= Cardinality(Threads)
    BY <1>c, <2>1, <2>2
  <2> QED
    BY <2>3 DEF after
<1> QED
  BY <1>1, <1>2, <1>3, <1>4 DEF Next, after

LEMMA InitLate == Init => LateInv
BY DEF Init, LateInv

LEMMA LateSuffices == TypeOK /\ LateInv => DrainsAfterDrop
<1> SUFFICES ASSUME TypeOK, LateInv, NEW n \in 1..created
             PROVE  late[n] <= Cardinality(Threads)
  BY DEF DrainsAfterDrop
<1>1. late[n] \in Nat /\ late[n] + Cardinality(Waiting(n)) <= Cardinality(Threads)
  BY DEF TypeOK, LateInv
<1> QED
  BY <1>1, WaitingCount

\* A state that was replaced or has expired serves one request a thread at
\* most.
THEOREM DroppedStatesDrain == Spec => []DrainsAfterDrop
BY InitLate, NextLate, LateSuffices, TypeCorrect, PTL DEF Spec

-----------------------------------------------------------------------------
(* Requests are short *)

\* The steps that a thread still takes for its request, at most.
StepsLeft(j) ==
  CASE j.step = "called" -> MaxRedirects + 3
    [] j.step = "get" -> MaxRedirects - j.hops + 2
    [] j.step \in {"query", "page"} -> 1
    [] OTHER -> 0

\* The guards of Serve.
CanServe(t) ==
  LET searches == states[job[t].state].searches IN
  \/ job[t].step = "called" /\ (searches < SearchLimit \/ searches >= SearchLimit)
  \/ job[t].step \in {"query", "get", "page"}

\* A step of the thread brings the end nearer; no other step touches a request
\* that is under way.
Shortens(t) ==
  /\ Serve(t) => StepsLeft(job'[t]) < StepsLeft(job[t])
  /\ job[t] # Idle => job'[t] = job[t] \/ StepsLeft(job'[t]) < StepsLeft(job[t])

LEMMA ServeShortens ==
  ASSUME TypeOK, NEW t \in Threads, Serve(t)
  PROVE  /\ StepsLeft(job'[t]) < StepsLeft(job[t])
         /\ \A s \in Threads \ {t} : job'[s] = job[s]
<1>0. job \in [Threads -> Job] /\ MaxRedirects \in Nat /\ StepsLeft(Idle) = 0
  BY LimitTypes DEF TypeOK, StepsLeft, Idle
<1>1. CASE StartSearch(t)
  <2>1. job' = [job EXCEPT ![t] = [step |-> "query", state |-> job[t].state]]
    BY <1>1 DEF StartSearch
  <2>2. job[t].step = "called"
    BY <1>1 DEF StartSearch
  <2> QED
    BY <1>0, <2>1, <2>2 DEF StepsLeft
<1>2. CASE StartFetch(t)
  <2>1. PICK url \in Urls :
          job' = [job EXCEPT ![t] = [step |-> "get", state |-> job[t].state, at |-> url, hops |-> 0]]
    BY <1>2 DEF StartFetch
  <2>2. job[t].step = "called"
    BY <1>2 DEF StartFetch
  <2> QED
    BY <1>0, <2>1, <2>2 DEF StepsLeft
<1>3. CASE Redirected(t)
  <2>1. PICK to \in Urls : job' = [job EXCEPT ![t] = Hopped(@, to)]
    BY <1>3 DEF Redirected
  <2>2. /\ job[t].step = "get" /\ job[t].hops < MaxRedirects
        /\ job[t].hops \in Nat /\ job[t] \in [step: {"get"}, state: Numbers, at: Urls, hops: 0..MaxRedirects]
    BY <1>0, <1>3 DEF Redirected, Job, Idle
  <2>3. job'[t].step = "get" /\ job'[t].hops = job[t].hops + 1
    BY <1>0, <2>1, <2>2 DEF Hopped
  <2>4. \A s \in Threads \ {t} : job'[s] = job[s]
    BY <1>0, <2>1
  <2> QED
    BY <1>0, <2>2, <2>3, <2>4 DEF StepsLeft
<1>4. CASE Page(t)
  <2>1. job' = [job EXCEPT ![t] = [step |-> "page", state |-> job[t].state, at |-> job[t].at]]
    BY <1>4 DEF Page
  <2>2. job[t].step = "get" /\ job[t].hops \in 0..MaxRedirects
    BY <1>0, <1>4 DEF Page, Job, Idle
  <2> QED
    BY <1>0, <2>1, <2>2 DEF StepsLeft
<1>5. CASE SearchDenied(t) \/ SearchAnswered(t) \/ FetchDenied(t) \/ FetchFailed(t) \/ Learn(t)
  <2>1. job' = [job EXCEPT ![t] = Idle]
    BY <1>5 DEF SearchDenied, SearchAnswered, FetchDenied, FetchFailed, Learn, End
  <2>2. \/ job[t].step \in {"called", "query", "page"}
        \/ job[t].step = "get" /\ job[t].hops \in 0..MaxRedirects
    BY <1>0, <1>5 DEF SearchDenied, SearchAnswered, FetchDenied, FetchFailed, Learn, Job, Idle
  <2> QED
    BY <1>0, <2>1, <2>2 DEF StepsLeft
<1> QED
  BY <1>1, <1>2, <1>3, <1>4, <1>5 DEF Serve

LEMMA StepsBounded ==
  ASSUME TypeOK, NEW t \in Threads
  PROVE  StepsLeft(job[t]) \in 0..(MaxRedirects + 3) /\ (job[t] # Idle => CanServe(t))
<1>0. MaxRedirects \in Nat /\ SearchLimit \in Nat
  BY LimitTypes
<1>1. job[t] \in Job
  BY DEF TypeOK
<1>2. job[t] # Idle /\ job[t].step = "called" =>
        job[t].state \in 1..created /\ states[job[t].state].searches \in Nat
  BY <1>0 DEF TypeOK, RunState
<1> QED
  BY <1>0, <1>1, <1>2 DEF StepsLeft, CanServe, Job, Idle

\* Every request is answered after a few steps of its thread, one for each
\* redirect and three more: each step brings the end nearer, the thread can
\* always take one, and neither another thread nor a new registration of the
\* run takes a request back.
THEOREM RequestsAreShort ==
  Spec => /\ [](\A t \in Threads : /\ StepsLeft(job[t]) \in 0..(MaxRedirects + 3)
                                   /\ job[t] # Idle => CanServe(t))
          /\ [][\A t \in Threads : Shortens(t)]_vars
<1>1. TypeOK => \A t \in Threads : /\ StepsLeft(job[t]) \in 0..(MaxRedirects + 3)
                                   /\ job[t] # Idle => CanServe(t)
  BY StepsBounded
<1>2. TypeOK /\ [Next]_vars => [\A t \in Threads : Shortens(t)]_vars
  <2> SUFFICES ASSUME TypeOK, Next, NEW t \in Threads PROVE Shortens(t)
    OBVIOUS
  <2>1. job[t] # Idle => job'[t] = job[t] \/ StepsLeft(job'[t]) < StepsLeft(job[t])
    <3>1. ASSUME NEW run \in Runs, Register(run) PROVE job' = job
      BY <3>1 DEF Register
    <3>2. ASSUME NEW s \in Threads, NEW run \in Runs, Call(s, run)
          PROVE  job[t] # Idle => job'[t] = job[t]
      BY <3>2 DEF Call, TypeOK
    <3>3. ASSUME NEW s \in Threads, Serve(s)
          PROVE  job'[t] = job[t] \/ StepsLeft(job'[t]) < StepsLeft(job[t])
      BY <3>3, ServeShortens
    <3>4. CASE Tick
      BY <3>4 DEF Tick
    <3> QED
      BY <3>1, <3>2, <3>3, <3>4 DEF Next
  <2> QED
    BY <2>1, ServeShortens DEF Shortens
<1> QED
  BY <1>1, <1>2, TypeCorrect, PTL DEF Spec
=============================================================================
