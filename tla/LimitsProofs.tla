---------------------------- MODULE LimitsProofs ----------------------------
(***************************************************************************)
(* Theorems about the three limits the gateway puts on its callers: the    *)
(* connections served at once (Connections), for any number of clients and *)
(* permits; the requests granted in a window (RateLimiter), for any keys,  *)
(* threads, windows, allowances and table size; and the model calls of a   *)
(* run (RunQuota), for any number of runs, threads and counters.           *)
(***************************************************************************)
EXTENDS RateLimiter, Connections, RunQuota, FiniteSetTheorems, WellFoundedInduction, TLAPS

-----------------------------------------------------------------------------
(* Connections *)

\* The range of every variable but the semaphore, whose range follows from
\* PermitsMatch.
LocalTypes ==
  /\ permits \in Nat
  /\ phase \in [Conns -> {"none", "backlog"} \cup Served]
  /\ sent \in [Conns -> {"nothing", "headers", "all", "closed"}]
  /\ timer \in [Conns -> {"off", "armed", "fired", "cancelled"}]
  /\ expired \in [Conns -> BOOLEAN] /\ shut \in [Conns -> BOOLEAN]
  /\ inTime \in [Conns -> BOOLEAN]

\* Every action is one of one connection.
Step(c) == Client(c) \/ Accept(c) \/ Handler(c) \/ Timer(c)

LEMMA ServiceCount ==
  IsFiniteSet(InService) /\ Cardinality(InService) \in Nat
<1>1. InService \in SUBSET Conns
  BY DEF InService
<1> QED
  BY <1>1, ServerAssumption, FS_Subset, FS_CardinalityType

-----------------------------------------------------------------------------
(* Connections: types and permits *)

\* A connection that enters service, or leaves it, changes the count by one.
LEMMA OneMore ==
  ASSUME NEW c \in Conns, c \notin InService, InService' = InService \cup {c}
  PROVE  Cardinality(InService') = Cardinality(InService) + 1
BY ServiceCount, FS_AddElement

LEMMA OneLess ==
  ASSUME NEW c \in Conns, c \in InService, InService' = InService \ {c}
  PROVE  Cardinality(InService') = Cardinality(InService) - 1
BY ServiceCount, FS_RemoveElement

LEMMA InitPermits == ServerInit => LocalTypes /\ PermitsMatch
<1> SUFFICES ASSUME ServerInit PROVE LocalTypes /\ PermitsMatch
  OBVIOUS
<1>1. LocalTypes
  BY ServerAssumption DEF ServerInit, LocalTypes
<1>2. InService = {}
  BY DEF ServerInit, InService, Served
<1>3. QED
  BY <1>1, <1>2, FS_EmptySet, ServerAssumption DEF ServerInit, PermitsMatch

LEMMA StepTypes ==
  ASSUME LocalTypes, PermitsMatch, NEW c \in Conns, Step(c)
  PROVE  LocalTypes'
<1> USE DEF LocalTypes, Served, Move
<1>1. CASE Client(c)
  BY <1>1 DEF Client, Connect, Send, Close
<1>2. CASE Accept(c)
  BY <1>2 DEF Accept
<1>3. CASE Setup(c) \/ Verify(c) \/ Work(c) \/ Answer(c)
  BY <1>3 DEF Setup, Verify, Work, Answer
<1>4. CASE ReadHeaders(c)
  BY <1>4 DEF ReadHeaders, Cancelled
<1>5. CASE ReadBody(c)
  BY <1>5 DEF ReadBody
<1>6. CASE CancelTimer(c) \/ Finish(c)
  <2>1. timer' = Cancelled(c) /\ Cancelled(c) \in [Conns -> {"off", "armed", "fired", "cancelled"}]
    BY <1>6 DEF CancelTimer, Finish, Cancelled
  <2>2. inTime' \in [Conns -> BOOLEAN]
    BY <1>6 DEF CancelTimer, Finish
  <2>3. permits' \in Nat /\ phase' \in [Conns -> {"none", "backlog"} \cup Served]
    BY <1>6 DEF CancelTimer, Finish
  <2> QED
    BY <1>6, <2>1, <2>2, <2>3 DEF CancelTimer, Finish
<1>7. CASE Timer(c)
  BY <1>7 DEF Timer, Fire, ShutDown
<1> QED
  BY <1>1, <1>2, <1>3, <1>4, <1>5, <1>6, <1>7 DEF Step, Handler

\* A step that moves a connection within service, or outside it, takes no permit.
LEMMA SameService ==
  ASSUME LocalTypes, PermitsMatch, InService' = InService, permits' = permits
  PROVE  PermitsMatch'
  BY DEF PermitsMatch

LEMMA StepPermits ==
  ASSUME LocalTypes, PermitsMatch, NEW c \in Conns, Step(c)
  PROVE  PermitsMatch'
<1> USE DEF LocalTypes, Served, Move, InService
<1>1. CASE Client(c)
  <2>1. InService' = InService /\ permits' = permits
    BY <1>1 DEF Client, Connect, Send, Close
  <2> QED
    BY <2>1, SameService
<1>2. CASE Accept(c)
  <2>1. CASE /\ phase[c] = "backlog" /\ phase' = [phase EXCEPT ![c] = "setup"]
             /\ permits > 0 /\ permits' = permits - 1
    <3>1. InService' = InService \cup {c} /\ c \notin InService
      BY <2>1
    <3>2. Cardinality(InService') = Cardinality(InService) + 1
      BY <3>1, OneMore
    <3> QED
      BY <2>1, <3>2, ServiceCount, ServerAssumption DEF PermitsMatch
  <2>2. CASE /\ phase[c] = "backlog" /\ phase' = [phase EXCEPT ![c] = "none"]
             /\ permits' = permits
    <3>1. InService' = InService
      BY <2>2
    <3> QED
      BY <3>1, <2>2, SameService
  <2> QED
    BY <1>2, <2>1, <2>2 DEF Accept
<1>3. CASE Handler(c) /\ ~Finish(c)
  <2>1. InService' = InService /\ permits' = permits
    <3>1. CASE Setup(c) \/ Verify(c) \/ Work(c) \/ Answer(c) \/ CancelTimer(c)
      BY <3>1 DEF Setup, Verify, Work, Answer, CancelTimer
    <3>2. CASE ReadHeaders(c)
      BY <3>2 DEF ReadHeaders
    <3>3. CASE ReadBody(c)
      BY <3>3 DEF ReadBody
    <3> QED
      BY <1>3, <3>1, <3>2, <3>3 DEF Handler
  <2> QED
    BY <2>1, SameService
<1>4. CASE Finish(c)
  <2>1. InService' = InService \ {c} /\ c \in InService
    BY <1>4 DEF Finish
  <2>2. Cardinality(InService') = Cardinality(InService) - 1
    BY <2>1, OneLess
  <2> QED
    BY <1>4, <2>2, ServiceCount, ServerAssumption DEF PermitsMatch, Finish
<1>5. CASE Timer(c)
  <2>1. InService' = InService /\ permits' = permits
    BY <1>5 DEF Timer, Fire, ShutDown
  <2> QED
    BY <2>1, SameService
<1> QED
  BY <1>1, <1>2, <1>3, <1>4, <1>5 DEF Step

LEMMA NextPermits ==
  LocalTypes /\ PermitsMatch /\ [ServerNext]_serverVars => (LocalTypes /\ PermitsMatch)'
<1> SUFFICES ASSUME LocalTypes, PermitsMatch, [ServerNext]_serverVars
             PROVE  (LocalTypes /\ PermitsMatch)'
  OBVIOUS
<1>1. CASE ServerNext
  <2>1. PICK c \in Conns : Step(c)
    BY <1>1 DEF ServerNext, Step
  <2> QED
    BY <2>1, StepTypes, StepPermits
<1>2. CASE UNCHANGED serverVars
  BY <1>2 DEF serverVars, LocalTypes, PermitsMatch, InService
<1> QED
  BY <1>1, <1>2

LEMMA TypesFromPermits == LocalTypes /\ PermitsMatch => ServerTypeOK
<1> SUFFICES ASSUME LocalTypes, PermitsMatch PROVE ServerTypeOK
  OBVIOUS
<1>1. permits <= MaxPermits
  BY ServiceCount, ServerAssumption DEF LocalTypes, PermitsMatch
<1> QED
  BY <1>1, ServerAssumption DEF LocalTypes, ServerTypeOK

\* Every variable keeps its type; the semaphore stays between zero and its
\* limit, so that process_request and process_request_thread agree on it.
THEOREM ServerTypes == ServerSpec => []ServerTypeOK
<1>1. ServerSpec => [](LocalTypes /\ PermitsMatch)
  BY InitPermits, NextPermits, PTL DEF ServerSpec
<1> QED
  BY <1>1, TypesFromPermits, PTL

\* Whatever fails, expires or ends, no permit of _capacity is lost, and none
\* is given back twice.
THEOREM PermitsAlwaysMatch == ServerSpec => []PermitsMatch
  BY InitPermits, NextPermits, PTL DEF ServerSpec

-----------------------------------------------------------------------------
(* Connections: the deadline *)

LEMMA InitDeadline == ServerInit => DeadlineInv
  BY DEF ServerInit, DeadlineInv

LEMMA StepDeadline ==
  ASSUME LocalTypes, DeadlineInv, NEW c \in Conns, Step(c)
  PROVE  DeadlineInv'
<1> USE DEF LocalTypes, Served, Move, DeadlineInv
<1>1. CASE Client(c)
  BY <1>1 DEF Client, Connect, Send, Close
<1>2. CASE Accept(c)
  BY <1>2 DEF Accept
<1>3. CASE Setup(c) \/ Verify(c) \/ Work(c) \/ Answer(c)
  BY <1>3 DEF Setup, Verify, Work, Answer
<1>4. CASE ReadHeaders(c)
  BY <1>4 DEF ReadHeaders, Cancelled
<1>5. CASE ReadBody(c)
  BY <1>5 DEF ReadBody
<1>6. CASE CancelTimer(c) \/ Finish(c)
  BY <1>6 DEF CancelTimer, Finish, Cancelled
<1>7. CASE Timer(c)
  BY <1>7 DEF Timer, Fire, ShutDown
<1> QED
  BY <1>1, <1>2, <1>3, <1>4, <1>5, <1>6, <1>7 DEF Step, Handler

LEMMA NextDeadline == LocalTypes /\ DeadlineInv /\ [ServerNext]_serverVars => DeadlineInv'
<1> SUFFICES ASSUME LocalTypes, DeadlineInv, [ServerNext]_serverVars PROVE DeadlineInv'
  OBVIOUS
<1>1. CASE ServerNext
  <2>1. PICK c \in Conns : Step(c)
    BY <1>1 DEF ServerNext, Step
  <2> QED
    BY <2>1, StepDeadline
<1>2. CASE UNCHANGED serverVars
  BY <1>2 DEF serverVars, DeadlineInv
<1> QED
  BY <1>1, <1>2

\* A request whose reading beat the timer keeps its answer: expire_request_read
\* never runs for it, at whatever moment cancel and the timer meet.
THEOREM InTimeAlwaysAnswered == ServerSpec => []ReadInTimeIsAnswered
<1>1. ServerSpec => [](LocalTypes /\ PermitsMatch)
  BY InitPermits, NextPermits, PTL DEF ServerSpec
<1>2. LocalTypes /\ DeadlineInv => ReadInTimeIsAnswered
  BY DEF LocalTypes, DeadlineInv, ReadInTimeIsAnswered
<1> QED
  BY <1>1, <1>2, InitDeadline, NextDeadline, PTL DEF ServerSpec

-----------------------------------------------------------------------------
(* Connections: every connection goes on *)

\* While the thread may wait for its client, the timer is running or has run.
TimedInv ==
  \A c \in Conns : phase[c] \in {"headers", "verify", "body", "read"} => timer[c] \in {"armed", "fired"}

\* The guards of the listener, of the handler thread and of the timer.
CanGo(c) ==
  \/ phase[c] \in {"backlog", "setup", "verify", "read", "work", "answer", "finish"}
  \/ phase[c] = "headers" /\ (Ended(c) \/ sent[c] \in {"headers", "all"})
  \/ phase[c] = "body" /\ (Ended(c) \/ sent[c] = "all")
  \/ timer[c] = "armed" \/ (timer[c] = "fired" /\ ~shut[c])

PhasesLeft(at) ==
  CASE at = "backlog" -> 9
    [] at = "setup" -> 8
    [] at = "headers" -> 7
    [] at = "verify" -> 6
    [] at = "body" -> 5
    [] at = "read" -> 4
    [] at = "work" -> 3
    [] at = "answer" -> 2
    [] at = "finish" -> 1
    [] OTHER -> 0

TimerLeft(c) ==
  CASE timer[c] = "armed" -> 2 [] timer[c] = "fired" /\ ~shut[c] -> 1 [] OTHER -> 0

\* The steps that the server still takes for a connection, at most.
StepsLeft(c) == 3 * PhasesLeft(phase[c]) + TimerLeft(c)

\* Each step of the server shortens them; the client cannot prolong them.
Shortens(c) ==
  /\ Accept(c) \/ Handler(c) \/ Timer(c) => StepsLeft(c)' < StepsLeft(c)
  /\ phase[c] # "none" => StepsLeft(c)' <= StepsLeft(c)

LEMMA StepTimed ==
  ASSUME LocalTypes, DeadlineInv, TimedInv, NEW c \in Conns, Step(c)
  PROVE  TimedInv'
<1> USE DEF LocalTypes, Served, Move, DeadlineInv, TimedInv
<1>1. CASE Client(c)
  BY <1>1 DEF Client, Connect, Send, Close
<1>2. CASE Accept(c)
  BY <1>2 DEF Accept
<1>3. CASE Setup(c) \/ Verify(c) \/ Work(c) \/ Answer(c)
  BY <1>3 DEF Setup, Verify, Work, Answer
<1>4. CASE ReadHeaders(c)
  BY <1>4 DEF ReadHeaders, Cancelled
<1>5. CASE ReadBody(c)
  BY <1>5 DEF ReadBody
<1>6. CASE CancelTimer(c) \/ Finish(c)
  BY <1>6 DEF CancelTimer, Finish, Cancelled
<1>7. CASE Timer(c)
  BY <1>7 DEF Timer, Fire, ShutDown
<1> QED
  BY <1>1, <1>2, <1>3, <1>4, <1>5, <1>6, <1>7 DEF Step, Handler

LEMMA ServerShortens ==
  ASSUME LocalTypes, NEW c \in Conns, Accept(c) \/ Handler(c) \/ Timer(c)
  PROVE  StepsLeft(c)' < StepsLeft(c)
<1> USE DEF LocalTypes, Served, Move
<1>0. /\ PhasesLeft(phase[c]) \in Nat /\ PhasesLeft(phase'[c]) \in Nat
      /\ TimerLeft(c) \in 0..2 /\ TimerLeft(c)' \in 0..2
  BY DEF PhasesLeft, TimerLeft
<1>1. CASE Accept(c) \/ Handler(c)
  <2>1. \/ phase[c] = "backlog" /\ phase'[c] \in {"setup", "none"}
        \/ phase[c] = "setup" /\ phase'[c] = "headers"
        \/ phase[c] = "headers" /\ phase'[c] \in {"verify", "work", "finish"}
        \/ phase[c] = "verify" /\ phase'[c] \in {"body", "answer"}
        \/ phase[c] = "body" /\ phase'[c] \in {"read", "answer"}
        \/ phase[c] = "read" /\ phase'[c] = "work"
        \/ phase[c] = "work" /\ phase'[c] = "answer"
        \/ phase[c] = "answer" /\ phase'[c] = "finish"
        \/ phase[c] = "finish" /\ phase'[c] = "none"
    BY <1>1 DEF Accept, Handler, Setup, ReadHeaders, Verify, ReadBody, CancelTimer, Work, Answer,
                Finish
  <2>2. PhasesLeft(phase'[c]) < PhasesLeft(phase[c])
    BY <2>1 DEF PhasesLeft
  <2> QED
    BY <1>0, <2>2 DEF StepsLeft
<1>2. CASE Timer(c)
  <2>1. phase' = phase /\ TimerLeft(c)' < TimerLeft(c)
    BY <1>2 DEF Timer, Fire, ShutDown, TimerLeft
  <2> QED
    BY <1>0, <2>1 DEF StepsLeft
<1> QED
  BY <1>1, <1>2

LEMMA StepShortens ==
  ASSUME LocalTypes, NEW c \in Conns, Step(c), NEW d \in Conns, phase[d] # "none"
  PROVE  StepsLeft(d)' <= StepsLeft(d)
<1>0. StepsLeft(d) \in Int /\ StepsLeft(d)' \in Int
  BY DEF StepsLeft, PhasesLeft, TimerLeft
<1>1. CASE d # c
  <2>1. phase'[d] = phase[d] /\ timer'[d] = timer[d] /\ shut'[d] = shut[d]
    BY <1>1 DEF LocalTypes, Move, Step, Client, Connect, Send, Close, Accept, Handler, Setup,
       ReadHeaders, Verify, ReadBody, CancelTimer, Work, Answer, Finish, Timer, Fire, ShutDown,
       Cancelled
  <2> QED
    BY <1>0, <2>1 DEF StepsLeft, TimerLeft
<1>2. CASE d = c /\ Client(c)
  <2>1. phase' = phase /\ timer' = timer /\ shut' = shut
    BY <1>2 DEF Client, Connect, Send, Close, Move
  <2> QED
    BY <1>0, <2>1 DEF StepsLeft, TimerLeft
<1>3. CASE d = c /\ ~Client(c)
  BY <1>0, <1>3, ServerShortens DEF Step
<1> QED
  BY <1>1, <1>2, <1>3

\* No connection waits for its client alone: until it has ended, its thread or
\* the listener can go on, or its timer can fire or shut it down; and each of
\* these brings its end nearer, by a count that the client cannot raise.
THEOREM ConnectionsGoOn ==
  ServerSpec => /\ [](\A c \in Conns : phase[c] # "none" => CanGo(c))
                /\ [][\A c \in Conns : Shortens(c)]_serverVars
<1>1. ServerSpec => [](LocalTypes /\ PermitsMatch)
  BY InitPermits, NextPermits, PTL DEF ServerSpec
<1>2. LocalTypes /\ TimedInv => \A c \in Conns : phase[c] # "none" => CanGo(c)
  BY DEF LocalTypes, Served, TimedInv, CanGo, Ended
<1>3. LocalTypes /\ [ServerNext]_serverVars => [\A c \in Conns : Shortens(c)]_serverVars
  <2> SUFFICES ASSUME LocalTypes, ServerNext PROVE \A c \in Conns : Shortens(c)
    BY DEF serverVars
  <2>1. PICK c \in Conns : Step(c)
    BY DEF ServerNext, Step
  <2> QED
    BY <2>1, StepShortens, ServerShortens DEF Shortens
<1>4. ServerInit => TimedInv
  BY DEF ServerInit, TimedInv
<1>5. LocalTypes /\ DeadlineInv /\ TimedInv /\ [ServerNext]_serverVars => TimedInv'
  <2> SUFFICES ASSUME LocalTypes, DeadlineInv, TimedInv, [ServerNext]_serverVars PROVE TimedInv'
    OBVIOUS
  <2>1. CASE ServerNext
    BY <2>1, StepTimed DEF ServerNext, Step
  <2>2. CASE UNCHANGED serverVars
    BY <2>2 DEF serverVars, TimedInv
  <2> QED
    BY <2>1, <2>2
<1> QED
  BY <1>1, <1>2, <1>3, <1>4, <1>5, InitDeadline, NextDeadline, PTL DEF ServerSpec

-----------------------------------------------------------------------------
(* The rate limiter: the inductive invariants *)

\* Both tables are finite, though there may be any number of keys.
Types ==
  /\ TypeOK
  /\ IsFiniteSet(DOMAIN events)
  /\ granted \in [Keys -> Seq(Nat)]

\* What a denied caller waits for to leave the window is in the list.
RetryInv ==
  \A k \in DOMAIN events :
    /\ Len(events[k]) <= Allowance[k]
    /\ k \in DOMAIN retryAt =>
         \E i \in DOMAIN events[k] : events[k][i] + Window[k] < retryAt[k]

\* As long as the calls enter in order: the grants of a key are in order, the
\* list is the end of them, and everything still in the window is in the list.
Ordered(k) ==
  /\ \A i \in 1..Len(granted[k]) :
       /\ granted[k][i] <= newest
       /\ \A j \in i..Len(granted[k]) : granted[k][i] <= granted[k][j]
       /\ granted[k][i] + Window[k] > newest =>
            k \in DOMAIN events /\ Len(granted[k]) < i + Len(events[k])
  /\ k \in DOMAIN events =>
       /\ 0 < Len(granted[k]) /\ Len(events[k]) <= Len(granted[k])
       /\ expires[k] = granted[k][Len(granted[k])] + Window[k]
       /\ \A j \in 1..Len(events[k]) :
            events[k][j] = granted[k][Len(granted[k]) - Len(events[k]) + j]

OrderInv == ~reordered => WindowBound /\ \A k \in Keys : Ordered(k)

-----------------------------------------------------------------------------
(* The list comprehension of check, as the entries at a set of indices *)

LEMMA Intervals ==
  \A a, b \in Nat : /\ IsFiniteSet(a..b)
                    /\ Cardinality(a..b) = IF a > b THEN 0 ELSE b - a + 1
<1> TAKE a, b \in Nat
<1>1. a \in Int /\ b \in Int
  OBVIOUS
<1> QED
  BY <1>1, FS_Interval

\* A set of naturals has a least element.  (The intervals up to its elements
\* are ordered as they are; the induction theorems of the library take
\* operators, which no prover can instantiate.)
LEMMA Least ==
  ASSUME NEW T \in SUBSET Nat, T # {}
  PROVE  \E m \in T : \A n \in T : m <= n
<1>1. PICK top \in T : TRUE
  OBVIOUS
<1> DEFINE upTo == {0..m : m \in {n \in T : n <= top}}
<1>2. upTo \subseteq FiniteSubsetsOf(Nat) /\ upTo # {}
  <2>1. \A m \in Nat : 0..m \in FiniteSubsetsOf(Nat)
    BY Intervals DEF FiniteSubsetsOf
  <2>2. top <= top
    BY <1>1
  <2> QED
    BY <1>1, <2>1, <2>2
<1>3. PICK least \in upTo : \A n \in upTo : ~ (<<n, least>> \in StrictSubsetOrdering(Nat))
  BY <1>2, FS_StrictSubsetOrderingWellFounded, WFMin
<1>4. PICK m \in T : m <= top /\ least = 0..m
  BY <1>3
<1>5. ASSUME NEW n \in T, n < m PROVE FALSE
  <2>1. 0..n \in upTo
    BY <1>1, <1>4, <1>5
  <2>2. 0..n \subseteq 0..m /\ m \in 0..m /\ m \notin 0..n
    BY <1>5
  <2>3. <<0..n, least>> \in StrictSubsetOrdering(Nat)
    <3>1. 0..n \in SUBSET Nat /\ least \in SUBSET Nat
      BY <1>4
    <3>2. 0..n \subseteq least /\ 0..n # least
      BY <1>4, <2>2
    <3> QED
      BY <3>1, <3>2 DEF StrictSubsetOrdering
  <2> QED
    BY <1>3, <2>1, <2>3
<1> QED
  BY <1>4, <1>5

\* Every rank up to the number of elements is that of an element.
LEMMA Ranks ==
  ASSUME NEW len \in Nat, NEW kept \in SUBSET (1..len), NEW n \in 1..Cardinality(kept)
  PROVE  \E i \in kept : Cardinality({j \in kept : j <= i}) = n
<1> DEFINE upTo(i) == {j \in kept : j <= i}
           T == {i \in 0..len : Cardinality(upTo(i)) >= n}
<1>0. \A j \in kept : j \in Nat /\ ~(j <= 0) /\ j <= len
  OBVIOUS
<1>1. IsFiniteSet(kept) /\ Cardinality(kept) \in Nat /\ n \in Nat /\ n > 0
  <2>1. IsFiniteSet(1..len)
    BY FS_Interval
  <2>2. IsFiniteSet(kept) /\ Cardinality(kept) \in Nat
    BY <2>1, FS_Subset, FS_CardinalityType
  <2> QED
    BY <2>2
<1>2. \A i \in Nat : IsFiniteSet(upTo(i)) /\ Cardinality(upTo(i)) \in Nat
  <2> TAKE i \in Nat
  <2>1. upTo(i) \in SUBSET kept
    OBVIOUS
  <2> HIDE DEF upTo
  <2> QED
    BY <1>1, <2>1, FS_Subset, FS_CardinalityType
<1>3. len \in T
  <2>1. upTo(len) = kept
    BY <1>0, Zenon
  <2>2. Cardinality(upTo(len)) >= n
    BY <1>1, <2>1
  <2> QED
    BY <2>2
<1>4. PICK m \in T : \A i \in T : m <= i
  <2>1. T \in SUBSET Nat
    OBVIOUS
  <2>2. T # {}
    <3> HIDE DEF T
    <3> QED
      BY <1>3
  <2> HIDE DEF T
  <2> QED
    BY <2>1, <2>2, Least
<1>5. m # 0
  <2>1. upTo(0) = {}
    BY <1>0, Zenon
  <2>2. Cardinality(upTo(0)) = 0
    BY <2>1, FS_EmptySet
  <2>3. 0 \notin T
    BY <1>1, <2>2
  <2> QED
    BY <2>3
<1>6. m \in Nat /\ m - 1 \in Nat /\ m - 1 \in 0..len /\ Cardinality(upTo(m)) >= n
  <2>1. m \in 0..len /\ Cardinality(upTo(m)) >= n
    OBVIOUS
  <2> QED
    BY <1>5, <2>1
<1>7. Cardinality(upTo(m - 1)) < n
  <2>1. m - 1 \notin T
    <3> HIDE DEF T
    <3> QED
      BY <1>4, <1>6
  <2>2. ~(Cardinality(upTo(m - 1)) >= n)
    BY <1>6, <2>1
  <2>3. Cardinality(upTo(m - 1)) \in Nat
    BY <1>2, <1>6
  <2> HIDE DEF upTo
  <2> QED
    BY <1>1, <2>2, <2>3
<1>8. CASE m \in kept
  <2>0. \A j \in kept : j <= m <=> (j <= m - 1 \/ j = m)
    BY <1>0, <1>6
  <2>1. upTo(m) = upTo(m - 1) \cup {m} /\ m \notin upTo(m - 1)
    <3>1. upTo(m) = upTo(m - 1) \cup {m}
      BY <1>8, <2>0
    <3>2. ~(m <= m - 1)
      BY <1>6
    <3> QED
      BY <3>1, <3>2
  <2>2. Cardinality(upTo(m)) = Cardinality(upTo(m - 1)) + 1
    <3> HIDE DEF upTo
    <3> QED
      BY <1>2, <1>6, <2>1, FS_AddElement
  <2>3. Cardinality(upTo(m)) = n
    <3>1. Cardinality(upTo(m - 1)) \in Nat
      BY <1>2, <1>6
    <3> HIDE DEF upTo
    <3> QED
      BY <1>1, <1>6, <1>7, <2>2, <3>1
  <2> QED
    BY <1>8, <2>3
<1>9. CASE m \notin kept
  <2>0. \A j \in kept : j <= m <=> j <= m - 1
    BY <1>0, <1>6, <1>9
  <2>1. upTo(m) = upTo(m - 1)
    BY <2>0
  <2>2. Cardinality(upTo(m - 1)) \in Nat
    BY <1>2, <1>6
  <2> HIDE DEF upTo
  <2> QED
    BY <1>1, <1>6, <1>7, <2>1, <2>2
<1> QED
  BY <1>8, <1>9

\* What Entries returns: as many entries as indices, each of them one of the
\* list's at such an index.
LEMMA EntriesOf ==
  ASSUME NEW list \in Seq(Nat), NEW kept \in SUBSET (1..Len(list))
  PROVE  /\ Entries(list, kept) \in Seq(Nat)
         /\ Len(Entries(list, kept)) = Cardinality(kept)
         /\ Cardinality(kept) \in Nat /\ Cardinality(kept) <= Len(list)
         /\ \A n \in 1..Cardinality(kept) :
              \E i \in kept : Entries(list, kept)[n] = list[i]
<1>1. Cardinality(kept) \in Nat /\ Cardinality(kept) <= Len(list)
  <2>1. Len(list) \in Nat
    OBVIOUS
  <2>2. \A b \in Nat : IsFiniteSet(1..b) /\ Cardinality(1..b) = b
    BY Intervals
  <2>3. IsFiniteSet(1..Len(list)) /\ Cardinality(1..Len(list)) = Len(list)
    BY <2>1, <2>2, Zenon
  <2> QED
    BY <2>1, <2>3, FS_Subset, FS_CardinalityType
<1>2. ASSUME NEW n \in 1..Cardinality(kept)
      PROVE  \E i \in kept : Entries(list, kept)[n] = list[i]
  <2>1. \E i \in kept : Cardinality({j \in kept : j <= i}) = n
    <3>1. Len(list) \in Nat
      OBVIOUS
    <3> QED
      BY <3>1, Ranks
  <2> DEFINE chosen == CHOOSE i \in kept : Cardinality({j \in kept : j <= i}) = n
  <2>2. chosen \in kept
    BY <2>1
  <2>3. Entries(list, kept)[n] = list[chosen]
    BY DEF Entries
  <2> QED
    BY <2>2, <2>3
<1>3. Entries(list, kept) \in [1..Cardinality(kept) -> Nat]
  <2>1. \A n \in 1..Cardinality(kept) : Entries(list, kept)[n] \in Nat
    BY <1>2
  <2> QED
    BY <2>1 DEF Entries
<1>4. Entries(list, kept) \in Seq(Nat) /\ Len(Entries(list, kept)) = Cardinality(kept)
  BY <1>1, <1>3
<1> QED
  BY <1>1, <1>2, <1>4

\* The entries from an index on.
LEMMA EntriesFrom ==
  ASSUME NEW list \in Seq(Nat), NEW first \in 1..(Len(list) + 1)
  PROVE  /\ Cardinality(first..Len(list)) = Len(list) - first + 1
         /\ \A n \in 1..(Len(list) - first + 1) :
              Entries(list, first..Len(list))[n] = list[first + n - 1]
<1>0. Len(list) \in Nat /\ first \in Nat
  OBVIOUS
<1>1. Cardinality(first..Len(list)) = Len(list) - first + 1
  <2>1. \A b \in Nat : first <= b + 1 => Cardinality(first..b) = b - first + 1
    <3>1. first \in Nat
      OBVIOUS
    <3>2. \A a, b \in Nat : a <= b + 1 => Cardinality(a..b) = b - a + 1
      BY Intervals
    <3> QED
      BY <3>1, <3>2
  <2>2. first <= Len(list) + 1
    BY <1>0
  <2> QED
    BY <1>0, <2>1, <2>2, Zenon
<1>2. ASSUME NEW n \in 1..(Len(list) - first + 1)
      PROVE  Entries(list, first..Len(list))[n] = list[first + n - 1]
  <2> DEFINE rank(i) == Cardinality({j \in first..Len(list) : j <= i})
             chosen == CHOOSE i \in first..Len(list) : rank(i) = n
  <2>1. \A i \in first..Len(list) : rank(i) = i - first + 1
    <3> TAKE i \in first..Len(list)
    <3>1. {j \in first..Len(list) : j <= i} = first..i
      BY <1>0
    <3>2. Cardinality(first..i) = i - first + 1
      BY <1>0, FS_Interval
    <3> QED
      BY <3>1, <3>2
  <2>2. Entries(list, first..Len(list))[n] = list[chosen]
    BY <1>1 DEF Entries
  <2> HIDE DEF rank
  <2>3. first + n - 1 \in first..Len(list) /\ rank(first + n - 1) = n
    BY <1>0, <2>1
  <2>4. chosen \in first..Len(list) /\ rank(chosen) = n
    BY <2>3
  <2>5. chosen = first + n - 1
    BY <1>0, <2>1, <2>4
  <2> QED
    BY <2>2, <2>5
<1> QED
  BY <1>1, <1>2

-----------------------------------------------------------------------------
(* The rate limiter: types *)

\* A call in the lock: its key and its clock, and what is left of its list.
LEMMA RecentOf ==
  ASSUME Types, NEW k \in Keys, NEW now \in Nat
  PROVE  /\ Recent(k, now) \in Seq(Nat)
         /\ Len(Recent(k, now)) \in Nat
         /\ k \notin Live(now) => Recent(k, now) = <<>>
         /\ k \in DOMAIN events =>
              /\ Len(Recent(k, now)) <= Len(events[k])
              /\ \A n \in 1..Len(Recent(k, now)) :
                   \E i \in 1..Len(events[k]) : Recent(k, now)[n] = events[k][i]
              /\ (\E i \in 1..Len(events[k]) : events[k][i] + Window[k] < now)
                   => Len(Recent(k, now)) < Len(events[k])
<1>1. CASE k \notin Live(now)
  <2>1. Recent(k, now) = <<>>
    BY <1>1 DEF Recent
  <2>2. k \in DOMAIN events => events[k] \in Seq(Nat)
    BY DEF Types, TypeOK
  <2> QED
    BY <1>1, <2>1, <2>2
<1>2. CASE k \in Live(now)
  <2>1. k \in DOMAIN events /\ events[k] \in Seq(Nat)
    BY <1>2 DEF Live, Types, TypeOK
  <2> DEFINE kept == {i \in DOMAIN events[k] : events[k][i] + Window[k] >= now}
  <2>2. kept \in SUBSET (1..Len(events[k])) /\ Recent(k, now) = Entries(events[k], kept)
    BY <1>2, <2>1 DEF Recent
  <2>3. ASSUME NEW i \in 1..Len(events[k]), events[k][i] + Window[k] < now
        PROVE  Cardinality(kept) < Len(events[k])
    <3>1. events[k][i] \in Nat /\ Window[k] \in Nat
      BY <2>1, ConstantsAssumption
    <3>2. i \notin kept
      BY <2>3, <3>1
    <3> HIDE DEF kept
    <3>3. kept # 1..Len(events[k]) /\ Len(events[k]) \in Nat
      BY <2>1, <3>2
    <3>4. IsFiniteSet(1..Len(events[k])) /\ Cardinality(1..Len(events[k])) = Len(events[k])
      BY <3>3, FS_Interval
    <3>5. Cardinality(kept) <= Len(events[k]) /\ Cardinality(kept) # Len(events[k])
      <4>1. /\ Cardinality(kept) <= Cardinality(1..Len(events[k]))
            /\ Cardinality(kept) = Cardinality(1..Len(events[k])) => kept = 1..Len(events[k])
        BY <2>2, <3>4, FS_Subset
      <4> QED
        BY <3>3, <3>4, <4>1
    <3>6. Cardinality(kept) \in Nat
      BY <2>2, <3>4, FS_Subset, FS_CardinalityType
    <3> QED
      BY <3>3, <3>5, <3>6
  <2> HIDE DEF kept
  <2>4. /\ Entries(events[k], kept) \in Seq(Nat)
        /\ Len(Entries(events[k], kept)) = Cardinality(kept)
        /\ Cardinality(kept) \in Nat /\ Cardinality(kept) <= Len(events[k])
        /\ \A n \in 1..Cardinality(kept) :
             \E i \in kept : Entries(events[k], kept)[n] = events[k][i]
    BY <2>1, <2>2, EntriesOf
  <2>5. /\ Recent(k, now) \in Seq(Nat) /\ Len(Recent(k, now)) = Cardinality(kept)
        /\ \A n \in 1..Len(Recent(k, now)) :
             \E i \in 1..Len(events[k]) : Recent(k, now)[n] = events[k][i]
    BY <2>2, <2>4
  <2> QED
    BY <1>2, <2>3, <2>4, <2>5
<1> QED
  BY <1>1, <1>2

LEMMA InitTypes == Init => Types
<1> SUFFICES ASSUME Init PROVE Types
  OBVIOUS
<1>1. DOMAIN events = {} /\ DOMAIN expires = {} /\ DOMAIN retryAt = {}
  BY DEF Init, Empty
<1>2. IsFiniteSet(DOMAIN events) /\ Cardinality(DOMAIN events) <= Cap
  BY <1>1, FS_EmptySet, ConstantsAssumption
<1> QED
  <2>1. granted \in [Keys -> Seq(Nat)]
    BY DEF Init
  <2>2. call \in [Threads -> {Idle} \cup Call]
    BY DEF Init
  <2> QED
    BY <1>1, <1>2, <2>1, <2>2 DEF Init, Types, TypeOK

\* The keys that are left, with that of a call that found room for it.
LEMMA Fits ==
  ASSUME Types, NEW k \in Keys, NEW now \in Nat
  PROVE  /\ Live(now) \subseteq DOMAIN events /\ IsFiniteSet(Live(now))
         /\ Cardinality(Live(now)) <= Cap
         /\ ~TableFull(k, now) => /\ IsFiniteSet(Live(now) \cup {k})
                                  /\ Cardinality(Live(now) \cup {k}) <= Cap
<1>1. Live(now) \in SUBSET DOMAIN events
  BY DEF Live
<1>2. IsFiniteSet(Live(now)) /\ Cardinality(Live(now)) <= Cardinality(DOMAIN events)
  BY <1>1, FS_Subset DEF Types
<1>3. Cardinality(Live(now)) \in Nat /\ Cardinality(DOMAIN events) \in Nat
  BY <1>2, FS_CardinalityType DEF Types
<1>4. Cardinality(Live(now)) <= Cap
  BY <1>2, <1>3, ConstantsAssumption DEF Types, TypeOK
<1>5. ~TableFull(k, now) => /\ IsFiniteSet(Live(now) \cup {k})
                            /\ Cardinality(Live(now) \cup {k}) <= Cap
  <2>1. /\ IsFiniteSet(Live(now) \cup {k})
        /\ Cardinality(Live(now) \cup {k}) =
             IF k \in Live(now) THEN Cardinality(Live(now)) ELSE Cardinality(Live(now)) + 1
    BY <1>2, FS_AddElement, Zenon
  <2>2. ~TableFull(k, now) => k \in Live(now) \/ ~(Cardinality(Live(now)) >= Cap)
    BY DEF TableFull
  <2>3. Cap \in Nat
    BY ConstantsAssumption
  <2> QED
    BY <1>3, <1>4, <2>1, <2>2, <2>3
<1> QED
  BY <1>1, <1>2, <1>4, <1>5

LEMMA NextTypes == Types /\ [Next]_vars => Types'
<1> SUFFICES ASSUME Types, [Next]_vars PROVE Types'
  OBVIOUS
<1>1. ASSUME NEW t \in Threads, Begin(t) PROVE Types'
  BY <1>1 DEF Begin, Types, TypeOK, Call
<1>2. CASE Tick
  BY <1>2, ConstantsAssumption DEF Tick, Types, TypeOK
<1>3. CASE UNCHANGED vars
  BY <1>3 DEF vars, Types, TypeOK, Live
<1>4. ASSUME NEW t \in Threads, DenyFull(t) \/ DenyLimit(t) \/ Grant(t)
      PROVE  Types'
  <2> DEFINE k == call[t].key
             now == call[t].now
  <2>1. call[t] \in Call /\ k \in Keys /\ now \in Nat
    BY <1>4 DEF DenyFull, DenyLimit, Grant, Types, TypeOK, Call
  <2> HIDE DEF k, now
  <2>2. /\ Live(now) \subseteq DOMAIN events /\ IsFiniteSet(Live(now))
        /\ Cardinality(Live(now)) <= Cap
        /\ ~TableFull(k, now) => /\ IsFiniteSet(Live(now) \cup {k})
                                 /\ Cardinality(Live(now) \cup {k}) <= Cap
    BY <2>1, Fits
  <2>3. /\ Recent(k, now) \in Seq(Nat) /\ Len(Recent(k, now)) \in Nat
        /\ k \notin Live(now) => Recent(k, now) = <<>>
    BY <2>1, RecentOf
  <2>4. Enter(t, now) => /\ call' \in [Threads -> {Idle} \cup Call]
                         /\ clock' \in Nat /\ newest' \in Nat /\ reordered' \in BOOLEAN
    BY <2>1 DEF Enter, Types, TypeOK
  <2>5. \A x \in Live(now) : events[x] \in Seq(Nat) /\ expires[x] \in Nat /\ x \in Keys
    BY <2>2 DEF Types, TypeOK
  <2>6. CASE DenyFull(t)
    <3>1. /\ events' = Only(events, Live(now)) /\ expires' = Only(expires, Live(now))
          /\ Enter(t, now) /\ UNCHANGED <<granted, retryAt>>
      BY <2>6 DEF DenyFull, k, now
    <3> QED
      BY <2>2, <2>4, <2>5, <3>1 DEF Only, Types, TypeOK
  <2>7. CASE DenyLimit(t)
    <3>1. /\ ~TableFull(k, now) /\ Len(Recent(k, now)) >= Allowance[k]
          /\ events' = Set(Only(events, Live(now)), k, Recent(k, now))
          /\ expires' = Only(expires, Live(now))
          /\ retryAt' = Set(retryAt, k, now + RetryAfter(k, now, Recent(k, now)))
          /\ Enter(t, now) /\ UNCHANGED granted
      BY <2>7 DEF DenyLimit, k, now
    <3>2. Allowance[k] \in Nat \ {0} /\ Window[k] \in Nat \ {0}
      BY <2>1, ConstantsAssumption
    <3>3. k \in Live(now) /\ Recent(k, now)[1] \in Nat
      BY <2>3, <3>1, <3>2
    <3>4. RetryAfter(k, now, Recent(k, now)) \in Nat
      BY <2>1, <3>2, <3>3 DEF RetryAfter
    <3>5. /\ DOMAIN events' = Live(now) /\ DOMAIN expires' = Live(now)
          /\ \A x \in Live(now) : events'[x] \in Seq(Nat) /\ expires'[x] \in Nat
      BY <2>3, <2>5, <3>1, <3>3 DEF Set, Only
    <3>6. /\ DOMAIN retryAt' \subseteq Keys
          /\ \A x \in DOMAIN retryAt' : retryAt'[x] \in Nat
      BY <2>1, <3>1, <3>4 DEF Set, Types, TypeOK
    <3> QED
      BY <2>2, <2>4, <2>5, <3>1, <3>5, <3>6 DEF Types, TypeOK
  <2>8. CASE Grant(t)
    <3>1. /\ ~TableFull(k, now)
          /\ events' = Set(Only(events, Live(now)), k, Append(Recent(k, now), now))
          /\ expires' = Set(Only(expires, Live(now)), k, Deadline(k, now))
          /\ granted' = [granted EXCEPT ![k] = Append(@, now)]
          /\ retryAt' = Only(retryAt, DOMAIN retryAt \ {k})
          /\ Enter(t, now)
      BY <2>8 DEF Grant, k, now
    <3>2. Deadline(k, now) \in Nat /\ Append(Recent(k, now), now) \in Seq(Nat)
      BY <2>1, <2>3, ConstantsAssumption DEF Deadline
    <3>3. /\ DOMAIN events' = Live(now) \cup {k} /\ DOMAIN expires' = Live(now) \cup {k}
          /\ \A x \in Live(now) \cup {k} :
               events'[x] \in Seq(Nat) /\ expires'[x] \in Nat /\ x \in Keys
      BY <2>1, <2>5, <3>1, <3>2 DEF Set, Only
    <3>4. granted' \in [Keys -> Seq(Nat)]
      BY <2>1, <3>1 DEF Types
    <3>5. /\ DOMAIN retryAt' \subseteq Keys
          /\ \A x \in DOMAIN retryAt' : retryAt'[x] \in Nat
      BY <3>1 DEF Only, Types, TypeOK
    <3> QED
      BY <2>2, <2>4, <3>1, <3>3, <3>4, <3>5 DEF Types, TypeOK
  <2> QED
    BY <1>4, <2>6, <2>7, <2>8
<1> QED
  BY <1>1, <1>2, <1>3, <1>4 DEF Next, Check

\* The table of the limiter never holds more keys than there is room for, and
\* both of its maps hold the same keys.
THEOREM LimiterTypes == Spec => []TypeOK
<1>1. Spec => []Types
  BY InitTypes, NextTypes, PTL DEF Spec
<1>2. Types => TypeOK
  BY DEF Types
<1> QED
  BY <1>1, <1>2, PTL

-----------------------------------------------------------------------------
(* The rate limiter: what a denied caller was told *)

LEMMA NextRetry == Types /\ RetryInv /\ [Next]_vars => RetryInv'
<1> SUFFICES ASSUME Types, RetryInv, [Next]_vars PROVE RetryInv'
  OBVIOUS
<1>1. CASE (\E t \in Threads : Begin(t)) \/ Tick \/ UNCHANGED vars
  <2>1. UNCHANGED <<events, retryAt>>
    BY <1>1 DEF Begin, Tick, vars
  <2> QED
    BY <2>1 DEF RetryInv
<1>2. ASSUME NEW t \in Threads, DenyFull(t) \/ DenyLimit(t) \/ Grant(t)
      PROVE  RetryInv'
  <2> DEFINE k == call[t].key
             now == call[t].now
  <2>1. call[t] \in Call /\ k \in Keys /\ now \in Nat
    BY <1>2 DEF DenyFull, DenyLimit, Grant, Types, TypeOK, Call
  <2> HIDE DEF k, now
  <2>2. Live(now) \subseteq DOMAIN events
    BY DEF Live
  <2>3. /\ Recent(k, now) \in Seq(Nat) /\ Len(Recent(k, now)) \in Nat
        /\ k \notin Live(now) => Recent(k, now) = <<>>
        /\ k \in DOMAIN events => Len(Recent(k, now)) <= Len(events[k])
    BY <2>1, RecentOf
  <2>4. \A x \in Live(now) :
          /\ Len(events[x]) <= Allowance[x]
          /\ x \in DOMAIN retryAt =>
               \E i \in DOMAIN events[x] : events[x][i] + Window[x] < retryAt[x]
    BY <2>2 DEF RetryInv
  <2>5. Allowance[k] \in Nat \ {0} /\ Window[k] \in Nat \ {0}
    BY <2>1, ConstantsAssumption
  <2>6. CASE DenyFull(t)
    <3>1. events' = Only(events, Live(now)) /\ UNCHANGED retryAt
      BY <2>6 DEF DenyFull, k, now
    <3> QED
      BY <2>4, <3>1 DEF Only, RetryInv
  <2>7. CASE DenyLimit(t)
    <3>1. /\ Len(Recent(k, now)) >= Allowance[k]
          /\ events' = Set(Only(events, Live(now)), k, Recent(k, now))
          /\ retryAt' = Set(retryAt, k, now + RetryAfter(k, now, Recent(k, now)))
      BY <2>7 DEF DenyLimit, k, now
    <3>2. k \in Live(now)
      BY <2>3, <2>5, <3>1
    <3>3. Len(Recent(k, now)) <= Allowance[k]
      <4>1. events[k] \in Seq(Nat) /\ Len(events[k]) \in Nat
        BY <2>2, <3>2 DEF Types, TypeOK
      <4> QED
        BY <2>2, <2>3, <2>4, <2>5, <3>2, <4>1
    <3>4. Recent(k, now)[1] + Window[k] < now + RetryAfter(k, now, Recent(k, now))
      <4>1. Recent(k, now)[1] \in Nat
        BY <2>3, <2>5, <3>1
      <4> QED
        BY <2>1, <2>5, <4>1 DEF RetryAfter
    <3>5. 1 \in DOMAIN Recent(k, now)
      BY <2>3, <2>5, <3>1
    <3>6. ASSUME NEW x \in DOMAIN events'
          PROVE  /\ Len(events'[x]) <= Allowance[x]
                 /\ x \in DOMAIN retryAt' =>
                      \E i \in DOMAIN events'[x] : events'[x][i] + Window[x] < retryAt'[x]
      <4>1. CASE x = k
        <5>1. events'[x] = Recent(k, now)
          BY <3>1, <4>1 DEF Set
        <5>2. retryAt'[x] = now + RetryAfter(k, now, Recent(k, now))
          BY <3>1, <4>1 DEF Set
        <5> QED
          BY <3>3, <3>4, <3>5, <4>1, <5>1, <5>2
      <4>2. CASE x # k
        <5>1. x \in Live(now) /\ events'[x] = events[x]
          BY <3>1, <4>2 DEF Set, Only
        <5>2. x \in DOMAIN retryAt' => x \in DOMAIN retryAt /\ retryAt'[x] = retryAt[x]
          BY <3>1, <4>2 DEF Set
        <5> QED
          BY <2>4, <5>1, <5>2
      <4> QED
        BY <4>1, <4>2
    <3> QED
      BY <3>6 DEF RetryInv
  <2>8. CASE Grant(t)
    <3>1. /\ Len(Recent(k, now)) < Allowance[k]
          /\ events' = Set(Only(events, Live(now)), k, Append(Recent(k, now), now))
          /\ retryAt' = Only(retryAt, DOMAIN retryAt \ {k})
      BY <2>8 DEF Grant, k, now
    <3>2. Len(Append(Recent(k, now), now)) <= Allowance[k]
      BY <2>1, <2>3, <2>5, <3>1
    <3>3. ASSUME NEW x \in DOMAIN events'
          PROVE  /\ Len(events'[x]) <= Allowance[x]
                 /\ x \in DOMAIN retryAt' =>
                      \E i \in DOMAIN events'[x] : events'[x][i] + Window[x] < retryAt'[x]
      <4>1. CASE x = k
        <5>1. events'[x] = Append(Recent(k, now), now)
          BY <3>1, <4>1 DEF Set
        <5>2. x \notin DOMAIN retryAt'
          BY <3>1, <4>1 DEF Only
        <5> QED
          BY <3>2, <4>1, <5>1, <5>2
      <4>2. CASE x # k
        <5>1. x \in Live(now) /\ events'[x] = events[x]
          BY <3>1, <4>2 DEF Set, Only
        <5>2. x \in DOMAIN retryAt' => x \in DOMAIN retryAt /\ retryAt'[x] = retryAt[x]
          BY <3>1 DEF Only
        <5> QED
          BY <2>4, <5>1, <5>2
      <4> QED
        BY <4>1, <4>2
    <3> QED
      BY <3>3 DEF RetryInv
  <2> QED
    BY <1>2, <2>6, <2>7, <2>8
<1> QED
  BY <1>1, <1>2 DEF Next, Check

\* A caller that waits for as long as it was told finds its window with room.
THEOREM RetryAfterAlwaysSuffices == Spec => []RetryAfterSuffices
<1>1. Init => RetryInv
  BY DEF Init, Empty, RetryInv
<1>2. Spec => [](Types /\ RetryInv)
  BY <1>1, InitTypes, NextTypes, NextRetry, PTL DEF Spec
<1>3. Types /\ RetryInv => RetryAfterSuffices
  <2> SUFFICES ASSUME Types, RetryInv, NEW k \in DOMAIN retryAt, clock >= retryAt[k]
               PROVE  Len(Recent(k, clock)) < Allowance[k]
    BY DEF RetryAfterSuffices
  <2>1. k \in Keys /\ clock \in Nat /\ retryAt[k] \in Nat
    BY DEF Types, TypeOK
  <2>2. Allowance[k] \in Nat \ {0} /\ Window[k] \in Nat
    BY <2>1, ConstantsAssumption
  <2>3. CASE k \notin DOMAIN events
    <3>1. Recent(k, clock) = <<>>
      BY <2>1, <2>3 DEF Recent, Live
    <3> QED
      BY <2>2, <3>1
  <2>4. CASE k \in DOMAIN events
    <3>1. events[k] \in Seq(Nat) /\ Len(events[k]) \in Nat
      BY <2>4 DEF Types, TypeOK
    <3>2. PICK i \in DOMAIN events[k] : events[k][i] + Window[k] < retryAt[k]
      BY <2>4 DEF RetryInv
    <3>3. i \in 1..Len(events[k]) /\ events[k][i] \in Nat
      BY <3>1, <3>2
    <3>4. events[k][i] + Window[k] < clock
      BY <2>1, <2>2, <3>2, <3>3
    <3>5. Len(Recent(k, clock)) < Len(events[k]) /\ Len(Recent(k, clock)) \in Nat
      BY <2>1, <2>4, <3>3, <3>4, RecentOf
    <3>6. Len(events[k]) <= Allowance[k]
      BY <2>4 DEF RetryInv
    <3> QED
      BY <2>2, <3>1, <3>5, <3>6
  <2> QED
    BY <2>3, <2>4
<1> QED
  BY <1>2, <1>3, PTL

-----------------------------------------------------------------------------
(* The rate limiter: the windows *)

\* In a list whose entries are in order, those within the window are its end.
LEMMA RecentIsEnd ==
  ASSUME Types, NEW k \in Keys, NEW now \in Nat, k \in Live(now),
         \A i \in 1..Len(events[k]) : \A j \in i..Len(events[k]) :
           events[k][i] <= events[k][j]
  PROVE  \E first \in 1..(Len(events[k]) + 1) :
           /\ Len(Recent(k, now)) = Len(events[k]) - first + 1
           /\ \A n \in 1..Len(Recent(k, now)) :
                Recent(k, now)[n] = events[k][first + n - 1]
           /\ \A i \in 1..Len(events[k]) :
                events[k][i] + Window[k] >= now => first <= i
<1> DEFINE list == events[k]
           len == Len(list)
           kept == {i \in 1..len : list[i] + Window[k] >= now}
<1>1. list \in Seq(Nat) /\ len \in Nat /\ DOMAIN list = 1..len
  BY DEF Live, Types, TypeOK
<1>2. Recent(k, now) = Entries(list, kept)
  BY <1>1 DEF Recent
<1>3. Window[k] \in Nat
  BY ConstantsAssumption
<1>4. \A i \in 1..len : list[i] \in Nat
  BY <1>1
<1>5. kept \in SUBSET (1..len)
  OBVIOUS
<1>6. \E first \in 1..(len + 1) : kept = first..len
  <2>1. CASE kept = {}
    <3>1. (len + 1)..len = {} /\ len + 1 \in 1..(len + 1)
      BY <1>1
    <3> QED
      BY <2>1, <3>1
  <2>2. CASE kept # {}
    <3>1. PICK first \in kept : \A i \in kept : first <= i
      <4>1. kept \in SUBSET Nat
        BY <1>1, <1>5
      <4> HIDE DEF kept
      <4> QED
        BY <2>2, <4>1, Least
    <3>2. first \in 1..len /\ list[first] + Window[k] >= now
      OBVIOUS
    <3>3. ASSUME NEW i \in first..len PROVE i \in kept
      <4>1. i \in 1..len /\ list[first] <= list[i]
        BY <1>1, <3>2
      <4> QED
        BY <1>3, <1>4, <3>2, <4>1
    <3>4. ASSUME NEW i \in kept PROVE i \in first..len
      BY <1>1, <1>5, <3>1, <3>2
    <3>5. kept = first..len
      <4> HIDE DEF kept
      <4> QED
        BY <3>3, <3>4
    <3>6. first \in 1..(len + 1)
      BY <1>1, <3>2
    <3> QED
      BY <3>5, <3>6
  <2> QED
    BY <2>1, <2>2
<1>7. PICK first \in 1..(len + 1) : kept = first..len
  BY <1>6
<1>8. /\ Cardinality(kept) = len - first + 1
      /\ \A n \in 1..(len - first + 1) : Entries(list, kept)[n] = list[first + n - 1]
  <2> HIDE DEF kept, list
  <2> QED
    BY <1>1, <1>7, EntriesFrom
<1>9. Len(Entries(list, kept)) = Cardinality(kept)
  <2> HIDE DEF kept, list
  <2> QED
    BY <1>1, <1>5, EntriesOf
<1>10. \A i \in 1..len : list[i] + Window[k] >= now => first <= i
  BY <1>1, <1>7
<1> HIDE DEF kept
<1> QED
  BY <1>2, <1>7, <1>8, <1>9, <1>10

LEMMA GrantsTypes ==
  ASSUME Types, NEW k \in Keys
  PROVE  /\ granted[k] \in Seq(Nat) /\ Len(granted[k]) \in Nat
         /\ \A i \in 1..Len(granted[k]) : granted[k][i] \in Nat
         /\ newest \in Nat /\ Window[k] \in Nat \ {0} /\ Allowance[k] \in Nat \ {0}
         /\ k \in DOMAIN events =>
              events[k] \in Seq(Nat) /\ Len(events[k]) \in Nat /\ expires[k] \in Nat
<1>1. granted[k] \in Seq(Nat)
  BY DEF Types
<1>2. k \in DOMAIN events => events[k] \in Seq(Nat) /\ expires[k] \in Nat
  BY DEF Types, TypeOK
<1>3. newest \in Nat /\ Window[k] \in Nat \ {0} /\ Allowance[k] \in Nat \ {0}
  BY ConstantsAssumption DEF Types, TypeOK
<1> QED
  BY <1>1, <1>2, <1>3

\* What is within the window of a call in order is in the table, and in what
\* the call finds of it.
LEMMA RecentOfOrdered ==
  ASSUME Types, NEW k \in Keys, Ordered(k), NEW now \in Nat, newest <= now
  PROVE  /\ Len(Recent(k, now)) \in Nat /\ Len(Recent(k, now)) <= Len(granted[k])
         /\ \A j \in 1..Len(Recent(k, now)) :
              Recent(k, now)[j] = granted[k][Len(granted[k]) - Len(Recent(k, now)) + j]
         /\ \A i \in 1..Len(granted[k]) : granted[k][i] + Window[k] > now =>
              k \in Live(now) /\ Len(granted[k]) < i + Len(Recent(k, now))
<1> DEFINE grants == granted[k]
           n == Len(grants)
           list == events[k]
           len == Len(list)
           recent == Recent(k, now)
<1>1. /\ n \in Nat /\ \A i \in 1..n : grants[i] \in Nat
      /\ newest \in Nat /\ Window[k] \in Nat
      /\ k \in DOMAIN events => list \in Seq(Nat) /\ len \in Nat
  BY GrantsTypes
<1>2. /\ \A i \in 1..n :
           /\ \A j \in i..n : grants[i] <= grants[j]
           /\ grants[i] + Window[k] > newest => k \in DOMAIN events /\ n < i + len
      /\ k \in DOMAIN events =>
           /\ 0 < n /\ len <= n
           /\ expires[k] = grants[n] + Window[k]
           /\ \A j \in 1..len : list[j] = grants[n - len + j]
  BY DEF Ordered
<1> HIDE DEF grants, n, list, len
<1>3. ASSUME NEW i \in 1..n, grants[i] + Window[k] > now
      PROVE  k \in Live(now) /\ n < i + len
  <2>1. grants[i] + Window[k] > newest
    BY <1>1, <1>3
  <2>2. k \in DOMAIN events /\ n < i + len
    BY <1>2, <2>1
  <2>3. n \in 1..n /\ n \in i..n
    BY <1>1
  <2>4. grants[i] <= grants[n] /\ grants[n] \in Nat
    BY <1>1, <1>2, <2>3
  <2>5. expires[k] > now
    BY <1>1, <1>2, <1>3, <2>2, <2>4
  <2> QED
    BY <2>2, <2>5 DEF Live
<1>4. CASE k \notin Live(now)
  <2>1. recent = <<>>
    BY <1>4 DEF Recent
  <2> QED
    BY <1>1, <1>3, <1>4, <2>1 DEF grants, n
<1>5. CASE k \in Live(now)
  <2>1. k \in DOMAIN events
    BY <1>5 DEF Live
  <2>2. \A i \in 1..len : \A j \in i..len : list[i] <= list[j]
    <3> SUFFICES ASSUME NEW i \in 1..len, NEW j \in i..len PROVE list[i] <= list[j]
      OBVIOUS
    <3>0. list[i] = grants[n - len + i] /\ list[j] = grants[n - len + j]
      BY <1>2, <2>1
    <3>1. n \in Nat /\ len \in Nat /\ len <= n
      BY <1>1, <1>2, <2>1
    <3>2. n - len + i \in 1..n /\ n - len + j \in (n - len + i)..n
      BY <3>1
    <3> QED
      BY <1>2, <3>0, <3>2
  <2>3. PICK first \in 1..(len + 1) :
           /\ Len(recent) = len - first + 1
           /\ \A j \in 1..Len(recent) : recent[j] = list[first + j - 1]
           /\ \A i \in 1..len : list[i] + Window[k] >= now => first <= i
    BY <1>5, <2>2, RecentIsEnd DEF list, len
  <2>4. Len(recent) \in Nat /\ Len(recent) <= n
    BY <1>1, <1>2, <2>1, <2>3
  <2>5. ASSUME NEW j \in 1..Len(recent) PROVE recent[j] = grants[n - Len(recent) + j]
    <3>1. first + j - 1 \in 1..len
      BY <1>1, <2>1, <2>3
    <3>2. recent[j] = grants[n - len + (first + j - 1)]
      BY <1>2, <2>1, <2>3, <3>1
    <3>3. n - len + (first + j - 1) = n - Len(recent) + j
      BY <1>1, <2>1, <2>3
    <3> QED
      BY <3>2, <3>3
  <2>6. ASSUME NEW i \in 1..n, grants[i] + Window[k] > now PROVE n < i + Len(recent)
    <3>1. n < i + len
      BY <1>3, <2>6
    <3>2. i - (n - len) \in 1..len
      BY <1>1, <1>2, <2>1, <3>1
    <3>3. n - len + (i - (n - len)) = i
      BY <1>1, <2>1
    <3>4. list[i - (n - len)] = grants[i]
      BY <1>2, <2>1, <3>2, <3>3
    <3>5. first <= i - (n - len)
      BY <1>1, <2>3, <2>6, <3>2, <3>4
    <3> QED
      BY <1>1, <2>1, <2>3, <3>5
  <2> QED
    BY <1>5, <2>4, <2>5, <2>6 DEF grants, n
<1> QED
  BY <1>4, <1>5

\* A key a call does not touch, or does not get more out of.
LEMMA StaysOrdered ==
  ASSUME Types, NEW k \in Keys, Ordered(k), NEW now \in Nat, newest <= now,
         newest' = now, granted'[k] = granted[k],
         k \in DOMAIN events' <=> k \in Live(now),
         k \in Live(now) =>
           /\ expires'[k] = expires[k]
           /\ events'[k] = events[k] \/ events'[k] = Recent(k, now)
  PROVE  Ordered(k)'
<1> DEFINE grants == granted[k]
           n == Len(grants)
           recent == Recent(k, now)
<1>1. /\ n \in Nat /\ \A i \in 1..n : grants[i] \in Nat
      /\ newest \in Nat /\ Window[k] \in Nat
  BY GrantsTypes
<1>2. /\ Len(recent) \in Nat /\ Len(recent) <= n
      /\ \A j \in 1..Len(recent) : recent[j] = grants[n - Len(recent) + j]
      /\ \A i \in 1..n : grants[i] + Window[k] > now =>
           k \in Live(now) /\ n < i + Len(recent)
  BY RecentOfOrdered
<1>3. \A i \in 1..n : grants[i] <= now /\ \A j \in i..n : grants[i] <= grants[j]
  BY <1>1 DEF Ordered
<1>4. k \in Live(now) =>
        /\ 0 < n /\ Len(events[k]) <= n /\ Len(events[k]) \in Nat
        /\ expires[k] = grants[n] + Window[k]
        /\ \A j \in 1..Len(events[k]) : events[k][j] = grants[n - Len(events[k]) + j]
        /\ Len(recent) <= Len(events[k])
  <2>1. k \in Live(now) => k \in DOMAIN events
    BY DEF Live
  <2> QED
    BY <2>1, GrantsTypes, RecentOf DEF Ordered
<1> HIDE DEF recent, n
<1>5. k \in Live(now) =>
        /\ Len(events'[k]) \in Nat /\ Len(events'[k]) <= n /\ Len(recent) <= Len(events'[k])
        /\ \A j \in 1..Len(events'[k]) : events'[k][j] = grants[n - Len(events'[k]) + j]
  BY <1>1, <1>2, <1>4 DEF recent
<1>6. \A i \in 1..n : grants[i] + Window[k] > now =>
        k \in DOMAIN events' /\ n < i + Len(events'[k])
  <2> SUFFICES ASSUME NEW i \in 1..n, grants[i] + Window[k] > now
               PROVE  k \in DOMAIN events' /\ n < i + Len(events'[k])
    OBVIOUS
  <2>1. k \in Live(now) /\ n < i + Len(recent)
    BY <1>2
  <2>2. Len(events'[k]) \in Nat /\ Len(recent) <= Len(events'[k])
    BY <1>5, <2>1
  <2> QED
    BY <1>1, <1>2, <2>1, <2>2
<1>7. granted'[k] = grants
  OBVIOUS
<1>8. k \in DOMAIN events' =>
        /\ 0 < n /\ Len(events'[k]) <= n
        /\ expires'[k] = grants[n] + Window[k]
        /\ \A j \in 1..Len(events'[k]) : events'[k][j] = grants[n - Len(events'[k]) + j]
  BY <1>4, <1>5
<1> HIDE DEF grants
<1> QED
  BY <1>3, <1>6, <1>7, <1>8 DEF Ordered, n

\* The key of a call that is granted, and its windows.
LEMMA GrantOrdered ==
  ASSUME Types, NEW k \in Keys, Ordered(k), NEW now \in Nat, newest <= now,
         newest' = now, granted'[k] = Append(granted[k], now),
         Len(Recent(k, now)) < Allowance[k],
         k \in DOMAIN events', events'[k] = Append(Recent(k, now), now),
         expires'[k] = now + Window[k],
         \A i \in 1..Len(granted[k]) :
           i + Allowance[k] <= Len(granted[k]) =>
             granted[k][i + Allowance[k]] >= granted[k][i] + Window[k]
  PROVE  /\ Ordered(k)'
         /\ \A i \in 1..Len(granted'[k]) :
              i + Allowance[k] <= Len(granted'[k]) =>
                granted'[k][i + Allowance[k]] >= granted'[k][i] + Window[k]
<1> DEFINE grants == granted[k]
           n == Len(grants)
           recent == Recent(k, now)
           more == Append(grants, now)
           list == Append(recent, now)
<1>1. /\ grants \in Seq(Nat) /\ n \in Nat /\ \A i \in 1..n : grants[i] \in Nat
      /\ newest \in Nat /\ Window[k] \in Nat \ {0} /\ Allowance[k] \in Nat \ {0}
  BY GrantsTypes
<1>2. /\ Len(recent) \in Nat /\ Len(recent) <= n
      /\ \A j \in 1..Len(recent) : recent[j] = grants[n - Len(recent) + j]
      /\ \A i \in 1..n : grants[i] + Window[k] > now =>
           k \in Live(now) /\ n < i + Len(recent)
  BY RecentOfOrdered
<1>3. \A i \in 1..n : grants[i] <= now /\ \A j \in i..n : grants[i] <= grants[j]
  <2>1. \A i \in 1..n : grants[i] <= newest /\ \A j \in i..n : grants[i] <= grants[j]
    BY Zenon DEF Ordered
  <2> HIDE DEF grants, n
  <2> QED
    BY <1>1, <2>1
<1>4. recent \in Seq(Nat)
  BY RecentOf
<1> HIDE DEF grants, recent
<1>5. /\ Len(more) = n + 1 /\ more[n + 1] = now
      /\ \A i \in 1..n : more[i] = grants[i]
  BY <1>1
<1>6. /\ Len(list) = Len(recent) + 1 /\ list[Len(recent) + 1] = now
      /\ \A j \in 1..Len(recent) : list[j] = recent[j]
  BY <1>2, <1>4
<1> HIDE DEF n, more, list
<1>7. \A i \in 1..(n + 1) :
        /\ more[i] <= now
        /\ \A j \in i..(n + 1) : more[i] <= more[j]
        /\ more[i] + Window[k] > now => n + 1 < i + Len(list)
  <2> TAKE i \in 1..(n + 1)
  <2>1. CASE i = n + 1
    BY <1>1, <1>2, <1>5, <1>6, <2>1
  <2>2. CASE i # n + 1
    <3>1. i \in 1..n /\ more[i] = grants[i] /\ grants[i] <= now
      BY <1>1, <1>3, <1>5, <2>2
    <3>2. ASSUME NEW j \in i..(n + 1) PROVE more[i] <= more[j]
      <4>1. CASE j = n + 1
        BY <1>5, <3>1, <4>1
      <4>2. CASE j # n + 1
        <5>0. n \in Nat /\ i \in 1..n
          BY <1>1, <3>1
        <5>1. j \in i..n /\ j \in 1..n
          BY <4>2, <5>0
        <5> QED
          BY <1>3, <1>5, <3>1, <5>1
      <4> QED
        BY <4>1, <4>2
    <3>3. more[i] + Window[k] > now => n + 1 < i + Len(list)
      BY <1>1, <1>2, <1>6, <3>1
    <3> QED
      BY <3>1, <3>2, <3>3
  <2> QED
    BY <2>1, <2>2
<1>8. \A j \in 1..Len(list) : list[j] = more[Len(more) - Len(list) + j]
  <2> TAKE j \in 1..Len(list)
  <2>1. CASE j = Len(recent) + 1
    BY <1>1, <1>2, <1>5, <1>6, <2>1
  <2>2. CASE j # Len(recent) + 1
    <3>0. Len(recent) \in Nat /\ Len(recent) <= n /\ n \in Nat /\ j \in 1..(Len(recent) + 1)
      BY <1>1, <1>2, <1>6
    <3>1. j \in 1..Len(recent) /\ n - Len(recent) + j \in 1..n
      BY <3>0, <2>2
    <3>2. Len(more) - Len(list) + j = n - Len(recent) + j
      BY <1>1, <1>2, <1>5, <1>6, <3>1
    <3> QED
      BY <1>2, <1>5, <1>6, <3>1, <3>2
  <2> QED
    BY <2>1, <2>2
<1>9. ASSUME NEW i \in 1..(n + 1), i + Allowance[k] <= n + 1
      PROVE  more[i + Allowance[k]] >= more[i] + Window[k]
  <2>1. i \in 1..n /\ more[i] = grants[i]
    BY <1>1, <1>5, <1>9
  <2>2. CASE i + Allowance[k] = n + 1
    <3>1. ~(n < i + Len(recent))
      BY <1>1, <1>2, <2>1, <2>2 DEF recent
    <3>2. ~(grants[i] + Window[k] > now)
      BY <1>2, <2>1, <3>1
    <3>3. more[i + Allowance[k]] = now
      BY <1>5, <2>2
    <3>4. grants[i] \in Nat
      BY <1>1, <2>1
    <3> QED
      BY <1>1, <2>1, <3>2, <3>3, <3>4
  <2>3. CASE i + Allowance[k] # n + 1
    <3>1. i + Allowance[k] \in 1..n
      <4>1. i \in Nat /\ i >= 1 /\ n \in Nat /\ Allowance[k] \in Nat
        BY <1>1, <2>1
      <4> QED
        BY <1>9, <2>3, <4>1
    <3>2. grants[i + Allowance[k]] >= grants[i] + Window[k]
      BY <1>1, <2>1, <3>1 DEF grants, n
    <3> QED
      BY <1>5, <2>1, <3>1, <3>2
  <2> QED
    BY <2>2, <2>3
<1>10. granted'[k] = more /\ events'[k] = list /\ expires'[k] = more[Len(more)] + Window[k]
  BY <1>5 DEF more, list, grants, recent
<1>11. Ordered(k)'
  <2>1. 0 < Len(more) /\ Len(list) <= Len(more)
    BY <1>1, <1>2, <1>5, <1>6
  <2> QED
    BY <1>5, <1>7, <1>8, <1>10, <2>1 DEF Ordered
<1>12. \A i \in 1..Len(granted'[k]) :
         i + Allowance[k] <= Len(granted'[k]) =>
           granted'[k][i + Allowance[k]] >= granted'[k][i] + Window[k]
  BY <1>5, <1>9, <1>10
<1> QED
  BY <1>11, <1>12

LEMMA NextOrder == Types /\ OrderInv /\ [Next]_vars => OrderInv'
<1> SUFFICES ASSUME Types, OrderInv, [Next]_vars, ~reordered'
             PROVE  WindowBound' /\ \A k \in Keys : Ordered(k)'
  BY DEF OrderInv
<1>1. CASE (\E t \in Threads : Begin(t)) \/ Tick \/ UNCHANGED vars
  <2>1. UNCHANGED <<events, expires, granted, newest, reordered>>
    BY <1>1 DEF Begin, Tick, vars
  <2> QED
    BY <2>1 DEF OrderInv, Ordered, WindowBound
<1>2. ASSUME NEW t \in Threads, DenyFull(t) \/ DenyLimit(t) \/ Grant(t)
      PROVE  WindowBound' /\ \A k \in Keys : Ordered(k)'
  <2> DEFINE k == call[t].key
             now == call[t].now
  <2>1. call[t] \in Call /\ k \in Keys /\ now \in Nat
    BY <1>2 DEF DenyFull, DenyLimit, Grant, Types, TypeOK, Call
  <2>2. newest' = (IF now > newest THEN now ELSE newest) /\ reordered' = (reordered \/ now < newest)
    BY <1>2 DEF DenyFull, DenyLimit, Grant, Enter
  <2> HIDE DEF k, now
  <2>3. ~reordered /\ newest \in Nat /\ newest <= now /\ newest' = now
    <3>1. ~reordered /\ ~(now < newest)
      BY <2>2, Zenon
    <3>2. newest \in Nat
      BY DEF Types, TypeOK
    <3> QED
      BY <2>1, <2>2, <3>1, <3>2
  <2>4. WindowBound /\ \A x \in Keys : Ordered(x)
    BY <2>3 DEF OrderInv
  <2>5. k \notin Live(now) => Recent(k, now) = <<>>
    BY DEF Recent
  <2>6. Allowance[k] \in Nat \ {0}
    BY <2>1, ConstantsAssumption
  <2>7. CASE DenyFull(t)
    <3>1. /\ events' = Only(events, Live(now)) /\ expires' = Only(expires, Live(now))
          /\ granted' = granted
      BY <2>7 DEF DenyFull, k, now
    <3>2. \A x \in Keys : Ordered(x)'
      BY <2>1, <2>3, <2>4, <3>1, StaysOrdered DEF Only
    <3> QED
      BY <2>3, <2>4, <3>1, <3>2 DEF WindowBound
  <2>8. CASE DenyLimit(t)
    <3>1. /\ events' = Set(Only(events, Live(now)), k, Recent(k, now))
          /\ expires' = Only(expires, Live(now)) /\ granted' = granted
          /\ Len(Recent(k, now)) >= Allowance[k]
      BY <2>8 DEF DenyLimit, k, now
    <3>2. k \in Live(now)
      BY <2>5, <2>6, <3>1
    <3>3. ASSUME NEW x \in Keys PROVE Ordered(x)'
      <4>1. /\ x \in DOMAIN events' <=> x \in Live(now)
            /\ x \in Live(now) =>
                 /\ expires'[x] = expires[x]
                 /\ events'[x] = events[x] \/ events'[x] = Recent(x, now)
        BY <3>1, <3>2 DEF Set, Only
      <4> QED
        BY <2>1, <2>3, <2>4, <3>1, <4>1, StaysOrdered
    <3> QED
      BY <2>3, <2>4, <3>1, <3>3 DEF WindowBound
  <2>9. CASE Grant(t)
    <3>1. /\ Len(Recent(k, now)) < Allowance[k]
          /\ events' = Set(Only(events, Live(now)), k, Append(Recent(k, now), now))
          /\ expires' = Set(Only(expires, Live(now)), k, now + Window[k])
          /\ granted' = [granted EXCEPT ![k] = Append(@, now)]
      BY <2>9 DEF Grant, Deadline, k, now
    <3>2. ASSUME NEW x \in Keys, x = k
          PROVE  /\ Ordered(x)'
                 /\ \A i \in 1..Len(granted'[x]) :
                      i + Allowance[x] <= Len(granted'[x]) =>
                        granted'[x][i + Allowance[x]] >= granted'[x][i] + Window[x]
      <4>1. /\ x \in DOMAIN events' /\ events'[x] = Append(Recent(x, now), now)
            /\ expires'[x] = now + Window[x] /\ granted'[x] = Append(granted[x], now)
            /\ Len(Recent(x, now)) < Allowance[x]
        BY <3>1, <3>2 DEF Set, Types
      <4>2. \A i \in 1..Len(granted[x]) :
              i + Allowance[x] <= Len(granted[x]) =>
                granted[x][i + Allowance[x]] >= granted[x][i] + Window[x]
        BY <2>3, <2>4 DEF WindowBound
      <4> QED
        BY <2>1, <2>3, <2>4, <4>1, <4>2, GrantOrdered
    <3>4. ASSUME NEW x \in Keys, x # k PROVE Ordered(x)' /\ granted'[x] = granted[x]
      <4>1. /\ x \in DOMAIN events' <=> x \in Live(now)
            /\ x \in Live(now) => expires'[x] = expires[x] /\ events'[x] = events[x]
            /\ granted'[x] = granted[x]
        BY <3>1, <3>4 DEF Set, Only, Types
      <4> QED
        BY <2>1, <2>3, <2>4, <4>1, StaysOrdered
    <3>5. WindowBound'
      BY <2>3, <2>4, <3>2, <3>4 DEF WindowBound
    <3> QED
      BY <3>2, <3>4, <3>5
  <2> QED
    BY <1>2, <2>7, <2>8, <2>9
<1> QED
  BY <1>1, <1>2 DEF Next, Check

\* No window of a key holds more grants than its allowance, for any number of
\* keys, threads and any limit of the table, as long as calls enter in order.
THEOREM WindowAlwaysBounded == Spec => []WindowBound
<1>1. Init => OrderInv
  <2> SUFFICES ASSUME Init PROVE WindowBound /\ \A k \in Keys : Ordered(k)
    BY DEF OrderInv
  <2>1. \A k \in Keys : granted[k] = <<>> /\ k \notin DOMAIN events
    BY DEF Init, Empty
  <2>2. \A k \in Keys : 1..Len(granted[k]) = {}
    BY <2>1
  <2> QED
    BY <2>1, <2>2 DEF WindowBound, Ordered
<1>2. Spec => [](Types /\ OrderInv)
  BY <1>1, InitTypes, NextTypes, NextOrder, PTL DEF Spec
<1>3. OrderInv => WindowBound
  BY DEF OrderInv, WindowBound
<1> QED
  BY <1>2, <1>3, PTL

-----------------------------------------------------------------------------
(* The quota of model calls per run *)

USE QuotaAssumption

-----------------------------------------------------------------------------
(* The quota: cardinalities of sets of threads *)

N == Cardinality(Callers)

LEMMA ThreadCount == N \in Nat /\ N >= 1
<1>1. N \in Nat
  BY FS_CardinalityType DEF N
<1>2. N # 0
  BY FS_EmptySet DEF N
<1> QED
  BY <1>1, <1>2

\* A set of threads is finite, and no larger than Callers.
LEMMA ThreadSubset ==
  ASSUME NEW S \in SUBSET Callers
  PROVE  IsFiniteSet(S) /\ Cardinality(S) \in Nat /\ Cardinality(S) <= N
  BY FS_Subset, FS_CardinalityType DEF N

\* A subset of a set of threads is no larger, and without one it is one less.
LEMMA Shrinks ==
  ASSUME NEW S \in SUBSET Callers, NEW T \in SUBSET S
  PROVE  Cardinality(T) <= Cardinality(S)
<1>1. IsFiniteSet(S)
  BY ThreadSubset
<1> QED
  BY <1>1, FS_Subset

LEMMA Loses ==
  ASSUME NEW S \in SUBSET Callers, NEW t \in S
  PROVE  Cardinality(S \ {t}) = Cardinality(S) - 1
<1>1. IsFiniteSet(S)
  BY ThreadSubset
<1> QED
  BY <1>1, FS_RemoveElement

-----------------------------------------------------------------------------
(* The quota: types *)

LEMMA KeptTypes ==
  ASSUME QuotaTypeOK, NEW run \in Runs, NEW now \in Nat, NEW kept \in Kept(run, now)
  PROVE  kept \subseteq DOMAIN calls
  BY DEF Kept, QuotaTypeOK

LEMMA UsedType ==
  ASSUME QuotaTypeOK, NEW run \in Runs
  PROVE  Used(run) \in Nat
  BY DEF Used, QuotaTypeOK

LEMMA InitQuotaTypes == QuotaInit => QuotaTypeOK
  BY DEF QuotaInit, QuotaTypeOK, NoRequest

LEMMA RequestTypes ==
  ASSUME QuotaTypeOK, NEW t \in Callers, job[t].step # "idle"
  PROVE  job[t] \in Request
  BY DEF QuotaTypeOK, NoRequest

LEMMA RecordTypes ==
  ASSUME QuotaTypeOK, NEW t \in Callers, Record(t)
  PROVE  QuotaTypeOK'
<1>1. /\ job[t] \in Request
      /\ job[t].step = "count"
  BY RequestTypes DEF Record
<1>2. job[t].run \in Runs /\ job[t].now \in Nat
  BY <1>1 DEF Request
<1>3. PICK kept \in Kept(job[t].run, job[t].now) :
        /\ calls' = [r \in kept \cup {job[t].run} |->
                       IF r \in kept THEN calls[r] + (IF r = job[t].run THEN 1 ELSE 0)
                       ELSE 1]
        /\ seen' = [r \in kept \cup {job[t].run} |->
                      IF r = job[t].run THEN job[t].now ELSE seen[r]]
        /\ evicted' = evicted \cup (DOMAIN calls \ (kept \cup {job[t].run}))
  BY DEF Record
<1>4. kept \subseteq DOMAIN calls
  BY <1>2, KeptTypes
<1>5. DOMAIN calls' = kept \cup {job[t].run} /\ DOMAIN calls' \subseteq Runs
  BY <1>2, <1>3, <1>4 DEF QuotaTypeOK
<1>6. calls' \in [DOMAIN calls' -> Nat]
  BY <1>3, <1>4, <1>5 DEF QuotaTypeOK
<1>7. seen' \in [DOMAIN calls' -> Nat]
  BY <1>2, <1>3, <1>4, <1>5 DEF QuotaTypeOK
<1>8. job' \in [Callers -> {NoRequest} \cup Request]
  BY <1>1 DEF Record, QuotaTypeOK, Request
<1>9. evicted' \subseteq Runs
  BY <1>3 DEF QuotaTypeOK
<1> QED
  BY <1>5, <1>6, <1>7, <1>8, <1>9 DEF QuotaTypeOK, Record

LEMMA NextQuotaTypes == QuotaTypeOK /\ [QuotaNext]_quotaVars => QuotaTypeOK'
<1> SUFFICES ASSUME QuotaTypeOK, [QuotaNext]_quotaVars PROVE QuotaTypeOK'
  OBVIOUS
<1>1. ASSUME NEW t \in Callers, AskModel(t) PROVE QuotaTypeOK'
  BY <1>1 DEF AskModel, QuotaTypeOK, Request
<1>2. ASSUME NEW t \in Callers, EnforceQuota(t) PROVE QuotaTypeOK'
  <2>1. job[t] \in Request
    BY <1>2, RequestTypes DEF EnforceQuota
  <2>2. [job[t] EXCEPT !.step = "guard"] \in Request
    BY <2>1 DEF Request
  <2>3. job' \in [Callers -> {NoRequest} \cup Request]
    BY <1>2, <2>2 DEF EnforceQuota, QuotaTypeOK
  <2> QED
    BY <1>2, <2>3 DEF EnforceQuota, QuotaTypeOK
<1>3. ASSUME NEW t \in Callers, Guard(t) PROVE QuotaTypeOK'
  <2>1. job[t] \in Request
    BY <1>3, RequestTypes DEF Guard
  <2>2. job' \in [Callers -> {NoRequest} \cup Request]
    BY <1>3, <2>1 DEF Guard, QuotaTypeOK, Request
  <2> QED
    BY <1>3, <2>2 DEF Guard, QuotaTypeOK
<1>4. ASSUME NEW t \in Callers, Record(t) PROVE QuotaTypeOK'
  BY <1>4, RecordTypes
<1>5. ASSUME NEW t \in Callers, Forward(t) PROVE QuotaTypeOK'
  <2>1. job[t].run \in Runs
    BY <1>5, RequestTypes DEF Forward, Request
  <2>2. forwarded' \in [Runs -> Nat]
    BY <1>5, <2>1 DEF Forward, QuotaTypeOK
  <2> QED
    BY <1>5, <2>2 DEF Forward, QuotaTypeOK
<1>6. CASE Restart
  BY <1>6 DEF Restart, QuotaTypeOK
<1>7. CASE Elapse
  BY <1>7 DEF Elapse, QuotaTypeOK
<1>8. CASE UNCHANGED quotaVars
  BY <1>8 DEF quotaVars, QuotaTypeOK
<1> QED
  BY <1>1, <1>2, <1>3, <1>4, <1>5, <1>6, <1>7, <1>8 DEF QuotaNext, ModelRequest

\* Every variable of the quota keeps its type (gateway.py, RUN_MODEL_CALLS).
THEOREM QuotaTypes == QuotaSpec => []QuotaTypeOK
  BY InitQuotaTypes, NextQuotaTypes, PTL DEF QuotaSpec

-----------------------------------------------------------------------------
(* The quota: what each step does to the requests in flight and leaving *)

\* A set of threads gains a thread that was not in it.
LEMMA Gains ==
  ASSUME NEW S \in SUBSET Callers, NEW t \in Callers \ S
  PROVE  Cardinality(S \cup {t}) = Cardinality(S) + 1
<1>1. IsFiniteSet(S)
  BY ThreadSubset
<1> QED
  BY <1>1, FS_AddElement

\* Counting a call: the counter of its run grows by one, the others stay or
\* are dropped.
LEMMA RecordCounts ==
  ASSUME QuotaTypeOK, NEW t \in Callers, Record(t), NEW run \in Runs
  PROVE  /\ run = job[t].run => Used(run)' = Used(run) + 1
         /\ run # job[t].run =>
              \/ Used(run)' = Used(run) /\ (run \in evicted' => run \in evicted)
              \/ Used(run)' = 0 /\ run \in evicted'
<1>1. /\ job[t] \in Request
      /\ job[t].step = "count"
  BY RequestTypes DEF Record
<1>2. job[t].run \in Runs /\ job[t].now \in Nat
  BY <1>1 DEF Request
<1>3. PICK kept \in Kept(job[t].run, job[t].now) :
        /\ calls' = [r \in kept \cup {job[t].run} |->
                       IF r \in kept THEN calls[r] + (IF r = job[t].run THEN 1 ELSE 0)
                       ELSE 1]
        /\ evicted' = evicted \cup (DOMAIN calls \ (kept \cup {job[t].run}))
  BY DEF Record
<1>4. kept \subseteq DOMAIN calls
  BY <1>2, KeptTypes
<1>5. job[t].run \in DOMAIN calls => job[t].run \in kept
  BY DEF Kept
<1>6. calls \in [DOMAIN calls -> Nat]
  BY DEF QuotaTypeOK
<1>7. CASE run = job[t].run
  BY <1>3, <1>4, <1>5, <1>6, <1>7 DEF Used
<1>8. CASE run # job[t].run
  BY <1>3, <1>4, <1>6, <1>8 DEF Used
<1> QED
  BY <1>7, <1>8

-----------------------------------------------------------------------------
(* The quota: the overshoot *)

LEMMA InitOvershoot == QuotaInit => OvershootInv
<1> SUFFICES ASSUME QuotaInit, NEW run \in Runs
             PROVE  Used(run) + Cardinality(InFlight(run)) <= Quota + N - 1
  BY DEF OvershootInv, N
<1>1. InFlight(run) = {} /\ Used(run) = 0
  BY DEF QuotaInit, InFlight, NoRequest, Used
<1> QED
  BY <1>1, FS_EmptySet, ThreadCount

LEMMA NextOvershoot == QuotaTypeOK /\ OvershootInv /\ [QuotaNext]_quotaVars => OvershootInv'
<1> SUFFICES ASSUME QuotaTypeOK, OvershootInv, [QuotaNext]_quotaVars, NEW run \in Runs
             PROVE  Used(run)' + Cardinality(InFlight(run)') <= Quota + N - 1
  BY DEF OvershootInv, N
<1> DEFINE F  == InFlight(run)
           F2 == InFlight(run)'
<1>0. /\ F \in SUBSET Callers /\ F2 \in SUBSET Callers
      /\ Cardinality(F) \in Nat /\ Cardinality(F2) \in Nat
      /\ Cardinality(F2) <= N
      /\ N \in Nat /\ N >= 1
      /\ Used(run) \in Nat /\ Used(run)' \in Nat
      /\ Used(run) + Cardinality(F) <= Quota + N - 1
  <2>1. F \in SUBSET Callers /\ F2 \in SUBSET Callers
    BY DEF InFlight
  <2>2. QuotaTypeOK'
    BY NextQuotaTypes
  <2>3. Used(run)' \in Nat
    BY <2>2 DEF QuotaTypeOK, Used
  <2> HIDE DEF F, F2
  <2>4. /\ Cardinality(F) \in Nat /\ Cardinality(F2) \in Nat
        /\ Cardinality(F2) <= N
    BY <2>1, ThreadSubset
  <2> QED
    BY <2>1, <2>3, <2>4, ThreadCount, UsedType DEF F, OvershootInv, N
\* A step that counts nothing for this run and lets nobody pass its check.
<1>a. ASSUME F2 \subseteq F, Used(run)' <= Used(run)
      PROVE  Used(run)' + Cardinality(F2) <= Quota + N - 1
  <2> HIDE DEF F, F2
  <2>1. Cardinality(F2) <= Cardinality(F)
    BY <1>0, <1>a, Shrinks
  <2> QED
    BY <1>0, <1>a, <2>1
<1>1. ASSUME NEW t \in Callers, AskModel(t)
      PROVE  Used(run)' + Cardinality(F2) <= Quota + N - 1
  <2>1. F2 \subseteq F /\ Used(run)' = Used(run)
    BY <1>1 DEF AskModel, InFlight, Used, QuotaTypeOK
  <2> QED
    BY <1>0, <1>a, <2>1
<1>2. ASSUME NEW t \in Callers, EnforceQuota(t)
      PROVE  Used(run)' + Cardinality(F2) <= Quota + N - 1
  <2>1. Used(run)' = Used(run)
    BY <1>2 DEF EnforceQuota, Used
  <2>2. CASE job[t].run = run /\ Used(run) < Quota
    BY <1>0, <2>1, <2>2
  <2>3. CASE ~(job[t].run = run /\ Used(run) < Quota)
    <3>1. job[t].run = run => Used(run) >= Quota
      BY <1>0, <2>3
    <3>2. F2 \subseteq F
      BY <1>2, <3>1 DEF EnforceQuota, InFlight, QuotaTypeOK, NoRequest
    <3> QED
      BY <1>0, <1>a, <2>1, <3>2
  <2> QED
    BY <2>2, <2>3
<1>3. ASSUME NEW t \in Callers, Guard(t)
      PROVE  Used(run)' + Cardinality(F2) <= Quota + N - 1
  <2>1. Used(run)' = Used(run)
    BY <1>3 DEF Guard, Used
  <2>2. \A u \in Callers \ {t} : job'[u] = job[u]
    BY <1>3 DEF Guard, QuotaTypeOK
  <2>3. job'[t].step \in {"guard", "count"} => job'[t].run = job[t].run
    <3>1. CASE job' = [job EXCEPT ![t] = NoRequest]
      BY <3>1 DEF QuotaTypeOK, NoRequest
    <3>2. CASE job' = [job EXCEPT ![t].step = "count", ![t].now = monotonic]
      <4>1. job[t] \in Request
        BY <1>3, RequestTypes DEF Guard
      <4> QED
        BY <3>2, <4>1 DEF QuotaTypeOK, Request
    <3> QED
      BY <1>3, <3>1, <3>2 DEF Guard
  <2>4. F2 \subseteq F
    BY <1>3, <2>2, <2>3 DEF Guard, InFlight
  <2> QED
    BY <1>0, <1>a, <2>1, <2>4
<1>4. ASSUME NEW t \in Callers, Record(t)
      PROVE  Used(run)' + Cardinality(F2) <= Quota + N - 1
  <2>1. CASE job[t].run = run
    <3>1. t \in F
      BY <1>4, <2>1 DEF Record, InFlight
    <3>2. F2 = F \ {t}
      BY <1>4 DEF Record, InFlight, QuotaTypeOK
    <3> HIDE DEF F, F2
    <3>3. Cardinality(F2) = Cardinality(F) - 1
      BY <1>0, <3>1, <3>2, Loses
    <3>4. Used(run)' = Used(run) + 1
      BY <1>4, <2>1, RecordCounts
    <3> QED
      BY <1>0, <3>3, <3>4
  <2>2. CASE job[t].run # run
    <3>1. F2 \subseteq F
      BY <1>4, <2>2 DEF Record, InFlight, QuotaTypeOK
    <3>2. Used(run)' = Used(run) \/ Used(run)' = 0
      BY <1>4, <2>2, RecordCounts
    <3> QED
      BY <1>0, <1>a, <3>1, <3>2
  <2> QED
    BY <2>1, <2>2
<1>5. ASSUME NEW t \in Callers, Forward(t)
      PROVE  Used(run)' + Cardinality(F2) <= Quota + N - 1
  <2>1. F2 \subseteq F /\ Used(run)' = Used(run)
    BY <1>5 DEF Forward, InFlight, Used, QuotaTypeOK, NoRequest
  <2> QED
    BY <1>0, <1>a, <2>1
<1>6. CASE Restart
  <2>1. F2 = {} /\ Used(run)' = 0
    BY <1>6 DEF Restart, InFlight, Used, NoRequest
  <2> QED
    BY <1>0, <1>a, <2>1
<1>7. CASE Elapse
  <2>1. F2 = F /\ Used(run)' = Used(run)
    BY <1>7 DEF Elapse, InFlight, Used
  <2> QED
    BY <1>0, <1>a, <2>1
<1>8. CASE UNCHANGED quotaVars
  <2>1. F2 = F /\ Used(run)' = Used(run)
    BY <1>8 DEF quotaVars, InFlight, Used
  <2> QED
    BY <1>0, <1>a, <2>1
<1> QED
  BY <1>1, <1>2, <1>3, <1>4, <1>5, <1>6, <1>7, <1>8 DEF QuotaNext, ModelRequest

LEMMA OvershootFollows == QuotaTypeOK /\ OvershootInv => OvershootBounded
<1> SUFFICES ASSUME QuotaTypeOK, OvershootInv, NEW run \in DOMAIN calls
             PROVE  calls[run] <= Quota + N - 1
  BY DEF OvershootBounded, N
<1>1. run \in Runs /\ Used(run) = calls[run] /\ calls[run] \in Nat
  BY DEF QuotaTypeOK, Used
<1>2. InFlight(run) \in SUBSET Callers
  BY DEF InFlight
<1>3. Cardinality(InFlight(run)) \in Nat
  BY <1>2, ThreadSubset
<1>4. Used(run) + Cardinality(InFlight(run)) <= Quota + N - 1
  BY <1>1 DEF OvershootInv, N
<1> QED
  BY <1>1, <1>3, <1>4, ThreadCount

\* For any number of threads, runs and keys, the concurrent requests of a run
\* (enforce_run_model_quota, then record_run_model_call) exceed its quota by
\* at most the number of the other handler threads.
THEOREM QuotaOvershoot == QuotaSpec => []OvershootBounded
<1>1. QuotaSpec => [](QuotaTypeOK /\ OvershootInv)
  BY InitQuotaTypes, NextQuotaTypes, InitOvershoot, NextOvershoot, PTL DEF QuotaSpec
<1> QED
  BY <1>1, OvershootFollows, PTL

-----------------------------------------------------------------------------
(* The quota: no call is lost or counted twice *)

LEMMA InitCounts == QuotaInit => CountsEveryCall
<1> SUFFICES ASSUME QuotaInit, NEW run \in Runs
             PROVE  Used(run) = forwarded[run] + Cardinality(Leaving(run))
  BY DEF CountsEveryCall
<1>1. Leaving(run) = {} /\ Used(run) = 0 /\ forwarded[run] = 0
  BY DEF QuotaInit, Leaving, NoRequest, Used
<1> QED
  BY <1>1, FS_EmptySet

LEMMA NextCounts == QuotaTypeOK /\ CountsEveryCall /\ [QuotaNext]_quotaVars => CountsEveryCall'
<1> SUFFICES ASSUME QuotaTypeOK, CountsEveryCall, [QuotaNext]_quotaVars,
                    NEW run \in Runs, run \notin evicted'
             PROVE  Used(run)' = forwarded'[run] + Cardinality(Leaving(run)')
  BY DEF CountsEveryCall
<1> DEFINE L  == Leaving(run)
           L2 == Leaving(run)'
           Goal == Used(run)' = forwarded'[run] + Cardinality(L2)
<1>0. /\ L \in SUBSET Callers /\ L2 \in SUBSET Callers
      /\ Cardinality(L) \in Nat /\ Cardinality(L2) \in Nat
      /\ Used(run) \in Nat /\ forwarded[run] \in Nat
      /\ run \notin evicted => Used(run) = forwarded[run] + Cardinality(L)
  <2>1. L \in SUBSET Callers /\ L2 \in SUBSET Callers
    BY DEF Leaving
  <2>2. run \notin evicted => Used(run) = forwarded[run] + Cardinality(L)
    BY DEF CountsEveryCall
  <2> HIDE DEF L, L2
  <2>3. Cardinality(L) \in Nat /\ Cardinality(L2) \in Nat
    BY <2>1, ThreadSubset
  <2> QED
    BY <2>1, <2>2, <2>3, UsedType DEF QuotaTypeOK
\* A step that neither counts nor forwards a call of this run.
<1>a. ASSUME L2 = L, Used(run)' = Used(run), forwarded'[run] = forwarded[run],
             run \notin evicted
      PROVE  Goal
  BY <1>0, <1>a
<1>1. ASSUME NEW t \in Callers, AskModel(t) PROVE Goal
  <2>1. L2 = L
    BY <1>1 DEF AskModel, Leaving, QuotaTypeOK, NoRequest
  <2>2. /\ Used(run)' = Used(run) /\ forwarded'[run] = forwarded[run]
        /\ run \notin evicted
    BY <1>1 DEF AskModel, Used
  <2> QED
    BY <1>a, <2>1, <2>2
<1>2. ASSUME NEW t \in Callers, EnforceQuota(t) PROVE Goal
  <2>1. L2 = L
    BY <1>2 DEF EnforceQuota, Leaving, QuotaTypeOK, NoRequest
  <2>2. /\ Used(run)' = Used(run) /\ forwarded'[run] = forwarded[run]
        /\ run \notin evicted
    BY <1>2 DEF EnforceQuota, Used
  <2> QED
    BY <1>a, <2>1, <2>2
<1>3. ASSUME NEW t \in Callers, Guard(t) PROVE Goal
  <2>1. \A u \in Callers \ {t} : job'[u] = job[u]
    BY <1>3 DEF Guard, QuotaTypeOK
  <2>2. job[t].step # "forward" /\ job'[t].step # "forward"
    <3>1. CASE job' = [job EXCEPT ![t] = NoRequest]
      BY <1>3, <3>1 DEF Guard, QuotaTypeOK, NoRequest
    <3>2. CASE job' = [job EXCEPT ![t].step = "count", ![t].now = monotonic]
      <4>1. job[t] \in Request
        BY <1>3, RequestTypes DEF Guard
      <4> QED
        BY <1>3, <3>2, <4>1 DEF Guard, QuotaTypeOK, Request
    <3> QED
      BY <1>3, <3>1, <3>2 DEF Guard
  <2>3. L2 = L
    BY <2>1, <2>2 DEF Leaving
  <2>4. /\ Used(run)' = Used(run) /\ forwarded'[run] = forwarded[run]
        /\ run \notin evicted
    BY <1>3 DEF Guard, Used
  <2> QED
    BY <1>a, <2>3, <2>4
<1>4. ASSUME NEW t \in Callers, Record(t) PROVE Goal
  <2>0. /\ forwarded'[run] = forwarded[run]
        /\ run \notin evicted
    BY <1>4 DEF Record
  <2>1. CASE job[t].run = run
    <3>1. t \in Callers \ L
      BY <1>4 DEF Record, Leaving
    <3>2. L2 = L \cup {t}
      BY <1>4, <2>1 DEF Record, Leaving, QuotaTypeOK
    <3> HIDE DEF L, L2
    <3>3. Cardinality(L2) = Cardinality(L) + 1
      BY <1>0, <3>1, <3>2, Gains
    <3>4. Used(run)' = Used(run) + 1
      BY <1>4, <2>1, RecordCounts
    <3> QED
      BY <1>0, <2>0, <3>3, <3>4
  <2>2. CASE job[t].run # run
    <3>1. L2 = L
      BY <1>4, <2>2 DEF Record, Leaving, QuotaTypeOK
    <3>2. Used(run)' = Used(run)
      BY <1>4, <2>2, RecordCounts
    <3> QED
      BY <1>a, <2>0, <3>1, <3>2
  <2> QED
    BY <2>1, <2>2
<1>5. ASSUME NEW t \in Callers, Forward(t) PROVE Goal
  <2>0. Used(run)' = Used(run) /\ run \notin evicted
    BY <1>5 DEF Forward, Used
  <2>1. CASE job[t].run = run
    <3>1. t \in L
      BY <1>5, <2>1 DEF Forward, Leaving
    <3>2. L2 = L \ {t}
      BY <1>5 DEF Forward, Leaving, QuotaTypeOK, NoRequest
    <3>3. forwarded'[run] = forwarded[run] + 1
      BY <1>5, <2>1 DEF Forward, QuotaTypeOK
    <3> HIDE DEF L, L2
    <3>4. Cardinality(L2) = Cardinality(L) - 1
      BY <1>0, <3>1, <3>2, Loses
    <3> QED
      BY <1>0, <2>0, <3>3, <3>4
  <2>2. CASE job[t].run # run
    <3>1. L2 = L
      BY <1>5, <2>2 DEF Forward, Leaving, QuotaTypeOK, NoRequest
    <3>2. forwarded'[run] = forwarded[run]
      BY <1>5, <2>2 DEF Forward, QuotaTypeOK
    <3> QED
      BY <1>a, <2>0, <3>1, <3>2
  <2> QED
    BY <2>1, <2>2
<1>6. CASE Restart
  <2>1. L2 = {} /\ Used(run)' = 0 /\ forwarded'[run] = 0
    BY <1>6 DEF Restart, Leaving, Used, NoRequest
  <2> QED
    BY <2>1, FS_EmptySet
<1>7. CASE Elapse
  <2>1. /\ L2 = L /\ Used(run)' = Used(run) /\ forwarded'[run] = forwarded[run]
        /\ run \notin evicted
    BY <1>7 DEF Elapse, Leaving, Used
  <2> QED
    BY <1>a, <2>1
<1>8. CASE UNCHANGED quotaVars
  <2>1. /\ L2 = L /\ Used(run)' = Used(run) /\ forwarded'[run] = forwarded[run]
        /\ run \notin evicted
    BY <1>8 DEF quotaVars, Leaving, Used
  <2> QED
    BY <1>a, <2>1
<1> QED
  BY <1>1, <1>2, <1>3, <1>4, <1>5, <1>6, <1>7, <1>8 DEF QuotaNext, ModelRequest

\* The counter of a run that was never dropped from RUN_MODEL_CALLS is the
\* number of its model calls, however the counting threads interleave.
THEOREM QuotaCounts == QuotaSpec => []CountsEveryCall
<1>1. QuotaSpec => [](QuotaTypeOK /\ CountsEveryCall)
  BY InitQuotaTypes, NextQuotaTypes, InitCounts, NextCounts, PTL DEF QuotaSpec
<1> QED
  BY <1>1, PTL

-----------------------------------------------------------------------------
(* The quota: the limit of the table *)

FiniteTable == IsFiniteSet(DOMAIN calls) /\ TableBounded

\* What is kept leaves room for the run, unless it is there.
LEMMA KeptFits ==
  ASSUME FiniteTable, NEW run \in Runs, NEW now \in Nat, NEW kept \in Kept(run, now)
  PROVE  IsFiniteSet(kept \cup {run}) /\ Cardinality(kept \cup {run}) <= MaxKeys
<1> DEFINE all == DOMAIN calls
           fresh == all \ Stale(now)
<1>1. IsFiniteSet(all) /\ Cardinality(all) \in Nat /\ Cardinality(all) <= MaxKeys
  BY FS_CardinalityType DEF FiniteTable, TableBounded
<1>2. \/ kept = all /\ run \in all
      \/ kept \subseteq all /\ Cardinality(kept) < MaxKeys
  <2>1. \/ kept = all /\ (run \in all \/ Cardinality(all) < MaxKeys)
        \/ kept = fresh /\ Cardinality(fresh) < MaxKeys
        \/ kept \in SUBSET fresh /\ Cardinality(kept) = MaxKeys - 1
    BY DEF Kept
  <2> QED
    BY <2>1
<1> HIDE DEF all, fresh
<1>3. CASE kept = all /\ run \in all
  <2>1. kept \cup {run} = all
    BY <1>3
  <2> QED
    BY <1>1, <2>1
<1>4. CASE kept \subseteq all /\ Cardinality(kept) < MaxKeys
  <2>1. IsFiniteSet(kept) /\ Cardinality(kept) \in Nat
    BY <1>1, <1>4, FS_Subset, FS_CardinalityType
  <2>2. /\ IsFiniteSet(kept \cup {run})
        /\ \/ Cardinality(kept \cup {run}) = Cardinality(kept)
           \/ Cardinality(kept \cup {run}) = Cardinality(kept) + 1
    BY <2>1, FS_AddElement
  <2> QED
    BY <1>4, <2>1, <2>2
<1> QED
  BY <1>2, <1>3, <1>4

LEMMA TableStep == QuotaTypeOK /\ FiniteTable /\ [QuotaNext]_quotaVars => FiniteTable'
<1> SUFFICES ASSUME QuotaTypeOK, FiniteTable, [QuotaNext]_quotaVars PROVE FiniteTable'
  OBVIOUS
<1>1. ASSUME NEW t \in Callers, Record(t) PROVE FiniteTable'
  <2>1. job[t].run \in Runs /\ job[t].now \in Nat
    BY <1>1, RequestTypes DEF Record, Request
  <2>2. PICK kept \in Kept(job[t].run, job[t].now) : DOMAIN calls' = kept \cup {job[t].run}
    BY <1>1 DEF Record
  <2> QED
    BY <2>1, <2>2, KeptFits DEF FiniteTable, TableBounded
<1>2. CASE Restart
  <2>1. DOMAIN calls' = {}
    BY <1>2 DEF Restart
  <2> QED
    BY <2>1, FS_EmptySet DEF FiniteTable, TableBounded
<1>3. CASE Elapse \/ UNCHANGED quotaVars
  BY <1>3 DEF Elapse, quotaVars, FiniteTable, TableBounded
<1>4. ASSUME NEW t \in Callers, AskModel(t) \/ EnforceQuota(t) \/ Guard(t) \/ Forward(t)
      PROVE  FiniteTable'
  BY <1>4 DEF AskModel, EnforceQuota, Guard, Forward, FiniteTable, TableBounded
<1> QED
  BY <1>1, <1>2, <1>3, <1>4 DEF QuotaNext, ModelRequest

\* TableBounded: the counters never exceed RUN_MODEL_CALLS_MAX_KEYS, however
\* many runs call and whichever thread makes room.
THEOREM TableFits == QuotaSpec => []TableBounded
<1>1. QuotaInit => FiniteTable
  <2>1. QuotaInit => DOMAIN calls = {}
    BY DEF QuotaInit
  <2> QED
    BY <2>1, FS_EmptySet DEF FiniteTable, TableBounded
<1>2. FiniteTable => TableBounded
  BY DEF FiniteTable
<1> QED
  BY <1>1, <1>2, InitQuotaTypes, NextQuotaTypes, TableStep, PTL DEF QuotaSpec

=============================================================================
