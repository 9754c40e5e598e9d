-------------------------- MODULE ResearchService --------------------------
(***************************************************************************)
(* The research service (setup/research-service/research_service.py): the  *)
(* one component of a researcher run that reaches the internet.  The       *)
(* orchestrator registers a run with its seed URLs; the gateway then sends *)
(* searches and fetches for it.  A URL may be fetched when it is a seed,   *)
(* a search result of the run or a link of a page the run fetched.         *)
(*                                                                         *)
(* Every request is served by a thread of its own.  It looks its run up    *)
(* under the registry's lock, checks and counts under the run's lock, and  *)
(* talks to the network without any lock; registering a run again, or its  *)
(* expiry, replaces or drops the RunState that threads still hold.         *)
(*                                                                         *)
(* Signatures, DNS pinning and the text of pages are left out.             *)
(***************************************************************************)
EXTENDS Naturals, FiniteSets

CONSTANTS
  Runs,            \* run ids
  Urls, HostOf,    \* URLs in their canonical form, and the host of each
  Problematic,     \* URLs the policy refuses: scheme, port, address, blocklists
  SeedSets,        \* the seed URLs a registration may carry
  Threads,         \* handler threads
  SearchLimit, FetchLimit, HostLimit, ByteLimit,   \* limits of a run
  PageMax,         \* max_page_bytes
  MaxFound,        \* max_results, and limits.links
  MaxRedirects,    \* max_redirects
  RunTtl,          \* run_ttl_seconds
  MaxRegistrations, MaxClock      \* bounds of the model

ASSUME ResearchAssumption ==
  /\ DOMAIN HostOf = Urls
  /\ SeedSets \subseteq SUBSET Urls /\ Problematic \subseteq Urls
  /\ IsFiniteSet(Threads)
  /\ {SearchLimit, FetchLimit, HostLimit, ByteLimit} \subseteq Nat \ {0}
  /\ {PageMax, MaxFound, MaxRedirects, RunTtl, MaxRegistrations, MaxClock} \subseteq Nat

VARIABLES
  states,      \* the RunState objects created so far, by number
  created,     \* how many they are
  runs,        \* registry.runs: per run id a number of states, 0 for none
  job,         \* what each thread is doing
  clock,
  shown,       \* history: per state, the hosts of its seeds and of the URLs
               \* returned to it
  late         \* history: per state, requests accepted after it was dropped

vars == <<states, created, runs, job, clock, shown, late>>

-----------------------------------------------------------------------------
(* RunState and Registry *)

Numbers == 1..MaxRegistrations

HostsOf(urls) == {HostOf[u] : u \in urls}

UrlProblem(u) == u \in Problematic

Proper(urls) == {u \in urls : ~UrlProblem(u)}

RunState == [eligible: SUBSET Urls, hosts: SUBSET HostsOf(Urls),
             searches: 0..SearchLimit, fetches: 0..FetchLimit, bytes: Nat,
             expires: Nat]

\* Counters at zero, the seeds eligible and their hosts counted.
Fresh(seeds, now) ==
  [eligible |-> seeds, hosts |-> HostsOf(seeds),
   searches |-> 0, fetches |-> 0, bytes |-> 0, expires |-> now + RunTtl]

Expired(n) == states[n].expires < clock

\* Bug: expired runs are never dropped.
CollectedNothing == runs

\* _gc: every lookup and registration first drops the expired runs.
Collected == [r \in Runs |-> IF runs[r] # 0 /\ Expired(runs[r]) THEN 0 ELSE runs[r]]

\* The registry would still hand this state out.
Live(n) == ~Expired(n) /\ \E r \in Runs : runs[r] = n

Idle == [step |-> "idle"]

Job ==
  {Idle} \cup [step: {"called", "query"}, state: Numbers]
         \cup [step: {"get"}, state: Numbers, at: Urls, hops: 0..MaxRedirects]
         \cup [step: {"page"}, state: Numbers, at: Urls]

TypeOK ==
  /\ created \in 0..MaxRegistrations
  /\ states \in [1..created -> RunState]
  /\ runs \in [Runs -> 0..created]
  /\ job \in [Threads -> Job]
  /\ \A t \in Threads : job[t] = Idle \/ job[t].state \in 1..created
  /\ clock \in 0..MaxClock
  /\ shown \in [1..created -> SUBSET HostsOf(Urls)]
  /\ late \in [1..created -> Nat]

Init ==
  /\ states = <<>> /\ created = 0
  /\ runs = [r \in Runs |-> 0]
  /\ job = [t \in Threads |-> Idle]
  /\ clock = 0
  /\ shown = <<>> /\ late = <<>>

\* POST /register: the run gets a new state, whatever it had before.
Register(run) ==
  /\ created < MaxRegistrations
  /\ created' = created + 1
  /\ runs' = [Collected EXCEPT ![run] = created']
  /\ \E seeds \in {Proper(given) : given \in SeedSets} :
       /\ states' = [n \in 1..created' |->
                       IF n = created' THEN Fresh(seeds, clock) ELSE states[n]]
       /\ shown' = [n \in 1..created' |-> IF n = created' THEN HostsOf(seeds) ELSE shown[n]]
       /\ late' = [n \in 1..created' |-> IF n = created' THEN 0 ELSE late[n]]
  /\ UNCHANGED <<job, clock>>

\* A search or fetch arrives: Registry.get, denied when there is no such run.
Call(t, run) ==
  /\ job[t] = Idle
  /\ runs' = Collected
  /\ job' = IF runs'[run] = 0 THEN job
            ELSE [job EXCEPT ![t] = [step |-> "called", state |-> runs'[run]]]
  /\ UNCHANGED <<states, created, clock, shown, late>>

-----------------------------------------------------------------------------
(* do_search *)

End(t) == job' = [job EXCEPT ![t] = Idle]

\* Counts a request accepted for a state the registry has let go.
Accepted(n) == late' = IF Live(n) THEN late ELSE [late EXCEPT ![n] = @ + 1]

StartSearch(t) ==
  /\ job[t].step = "called"
  /\ LET n == job[t].state IN
       /\ states[n].searches < SearchLimit
       /\ states' = [states EXCEPT ![n].searches = @ + 1]
       /\ job' = [job EXCEPT ![t] = [step |-> "query", state |-> n]]
       /\ Accepted(n)
  /\ UNCHANGED <<created, runs, clock, shown>>

SearchDenied(t) ==
  /\ job[t].step = "called"
  /\ states[job[t].state].searches >= SearchLimit
  /\ End(t)
  /\ UNCHANGED <<states, created, runs, clock, shown, late>>

\* Bug: what a request found goes to the state its run has now.
TeachCurrent(n, urls) ==
  LET now == {m \in 1..created : \E r \in Runs : runs[r] = m} IN
  states' = [m \in DOMAIN states |->
    IF m \in now THEN [states[m] EXCEPT !.eligible = @ \cup urls] ELSE states[m]]

\* run.eligible.update, on the state the request was looked up with.
Teach(n, urls) == states' = [states EXCEPT ![n].eligible = @ \cup urls]

\* What filter_results leaves of the answer of the search engine.
Findings == {found \in SUBSET Proper(Urls) : Cardinality(found) <= MaxFound}

\* The backend answers; no results also stands for a failed query.
SearchAnswered(t) ==
  /\ job[t].step = "query"
  /\ \E found \in Findings :
       /\ Teach(job[t].state, found)
       /\ shown' = [shown EXCEPT ![job[t].state] = @ \cup HostsOf(found)]
  /\ End(t)
  /\ UNCHANGED <<created, runs, clock, late>>

-----------------------------------------------------------------------------
(* do_fetch *)

\* Bug: the bytes a run has had are not looked at.
MayFetchUnmetered(s, url) ==
  /\ s.fetches < FetchLimit
  /\ ~UrlProblem(url) /\ url \in s.eligible
  /\ HostOf[url] \in s.hosts \/ Cardinality(s.hosts) < HostLimit

\* Checked under the run's lock: the quotas, eligibility, the host quota.
MayFetch(s, url) ==
  /\ s.fetches < FetchLimit
  /\ s.bytes < ByteLimit
  /\ ~UrlProblem(url) /\ url \in s.eligible
  /\ HostOf[url] \in s.hosts \/ Cardinality(s.hosts) < HostLimit

StartFetch(t) ==
  /\ job[t].step = "called"
  /\ \E url \in Urls : LET n == job[t].state IN
       /\ MayFetch(states[n], url)
       /\ states' = [states EXCEPT ![n].hosts = @ \cup {HostOf[url]},
                                   ![n].fetches = @ + 1]
       /\ job' = [job EXCEPT ![t] = [step |-> "get", state |-> n, at |-> url, hops |-> 0]]
       /\ Accepted(n)
  /\ UNCHANGED <<created, runs, clock, shown>>

FetchDenied(t) ==
  /\ job[t].step = "called"
  /\ \E url \in Urls : ~MayFetch(states[job[t].state], url)
  /\ End(t)
  /\ UNCHANGED <<states, created, runs, clock, shown, late>>

\* Reads run.eligible without the lock; the target's host is not counted.
MayRedirect(s, from, to) ==
  ~UrlProblem(to) /\ (HostOf[to] = HostOf[from] \/ to \in s.eligible)

\* Bug: hops are not counted.
Hop(j, to) == [j EXCEPT !.at = to]

\* The next request of a redirected fetch.
Hopped(j, to) == [j EXCEPT !.at = to, !.hops = @ + 1]

Redirected(t) ==
  /\ job[t].step = "get"
  /\ job[t].hops < MaxRedirects
  /\ \E to \in Urls :
       /\ MayRedirect(states[job[t].state], job[t].at, to)
       /\ job' = [job EXCEPT ![t] = Hopped(@, to)]
  /\ UNCHANGED <<states, created, runs, clock, shown, late>>

\* DNS, connection, redirect refused or one too many, content type refused:
\* none of the bytes of these answers is counted.
FetchFailed(t) ==
  /\ job[t].step = "get"
  /\ End(t)
  /\ UNCHANGED <<states, created, runs, clock, shown, late>>

\* What http_get_pinned may return: it cuts the page.
PageSizes == 0..PageMax

\* A page of an accepted type: its bytes are added to the run's.
Page(t) ==
  /\ job[t].step = "get"
  /\ \E size \in PageSizes :
       states' = [states EXCEPT ![job[t].state].bytes = @ + size]
  /\ job' = [job EXCEPT ![t] = [step |-> "page", state |-> job[t].state, at |-> job[t].at]]
  /\ UNCHANGED <<created, runs, clock, shown, late>>

\* The acceptable links of a page, up to their limit.
Links == {found \in SUBSET Proper(Urls) : Cardinality(found) <= MaxFound}

\* The links, and the URL the page was found at, become eligible.
Learn(t) ==
  /\ job[t].step = "page"
  /\ \E links \in Links :
       /\ Teach(job[t].state, links \cup {job[t].at})
       /\ shown' = [shown EXCEPT ![job[t].state] = @ \cup HostsOf(links)]
  /\ End(t)
  /\ UNCHANGED <<created, runs, clock, late>>

Tick ==
  /\ clock < MaxClock
  /\ clock' = clock + 1
  /\ UNCHANGED <<states, created, runs, job, shown, late>>

-----------------------------------------------------------------------------

\* What a thread does once its request was looked up.
Serve(t) ==
  \/ StartSearch(t) \/ SearchDenied(t) \/ SearchAnswered(t)
  \/ StartFetch(t) \/ FetchDenied(t) \/ Redirected(t) \/ FetchFailed(t)
  \/ Page(t) \/ Learn(t)

Next ==
  \/ \E run \in Runs : Register(run)
  \/ \E t \in Threads, run \in Runs : Call(t, run)
  \/ \E t \in Threads : Serve(t)
  \/ Tick

(***************************************************************************)
(* A thread that serves a request goes on: every network operation has a   *)
(* timeout and a page a maximal size.  Nobody has to call or register.     *)
(***************************************************************************)
Spec == Init /\ [][Next]_vars /\ \A t \in Threads : WF_vars(Serve(t))

-----------------------------------------------------------------------------
(* Properties *)

\* No request leaves for a host the run was not led to: what one run, or an
\* earlier registration of the same run, was shown opens nothing to another,
\* whichever requests were still under way when it was replaced.  And no
\* chain of redirects ends at a URL the policy refuses.
Provenance ==
  \A t \in Threads : job[t].step \in {"get", "page"} =>
    HostOf[job[t].at] \in shown[job[t].state] /\ ~UrlProblem(job[t].at)

Fetching(n) == {t \in Threads : job[t].step = "get" /\ job[t].state = n}

\* Bytes are checked before a fetch and added after it: concurrent fetches
\* can pass the limit, by less than a page for each thread.
ByteOvershoot ==
  \A n \in 1..created :
    states[n].bytes < ByteLimit + PageMax * Cardinality(Threads)

\* A state that was replaced or has expired serves only the requests that had
\* already been looked up, one for each thread at most.
DrainsAfterDrop ==
  \A n \in 1..created : late[n] <= Cardinality(Threads)

\* Every request is answered, whatever chain of redirects it meets.
RequestsEnd ==
  \A t \in Threads : []<>(job[t] = Idle)

=============================================================================
