-------------------------- MODULE WorkerRunProofs --------------------------
(***************************************************************************)
(* Theorems about WorkerRun, for any number of calls, any tasks, any times *)
(* that nest as TimesAssumption says, and any number of faults.            *)
(***************************************************************************)
EXTENDS WorkerRun, FiniteSetTheorems, TLAPS

-----------------------------------------------------------------------------
(* Types *)

LEMMA TimeTypes ==
  /\ Ttl \in Nat /\ SshTimeout \in Nat /\ LockWait \in Nat /\ VmTimeout \in Nat
  /\ MaxClock \in Nat /\ MaxFaults \in Nat
  /\ LockWait + VmTimeout < SshTimeout /\ SshTimeout < Ttl
BY TimesAssumption

LEMMA TaskTypes ==
  ASSUME NEW c \in Calls
  PROVE  /\ Task[c] \in Tasks /\ Task[c].profile \in {"reader", "researcher"}
         /\ Task[c].seeds \in Nat /\ Task[c].steps \in Nat
         /\ Task[c].llm \in Nat /\ Task[c].llm > 0
BY TaskAssumption DEF Tasks

\* The guest of a call: it has that call's task, and calls left while it asks.
GuestOf(c) == {g \in Guest : /\ g.task = Task[c] /\ g.calls <= Task[c].llm
                             /\ g.step \in {"ask", "tool"} => g.calls < Task[c].llm}

LEMMA BootedIsGuest ==
  ASSUME NEW c \in Calls
  PROVE  Booted(Task[c]) \in GuestOf(c) /\ Booted(Task[c]) # Off
BY TaskTypes DEF Booted, GuestOf, Guest, Off

\* What parse_action makes of a reply is a final answer, a tool, or cut.
LEMMA ParsedKinds == \A reply \in Replies : Parsed(reply) \in {"final", "tool", "cut"}
BY DEF Replies, Parsed

LEMMA AnswerKinds ==
  \A answer \in Answers :
    answer \in {"final", "tool", "cut", "guard", "output", "canary", "denied", "lost"}
BY ParsedKinds DEF Answers

\* The alternatives of one turn of the loop.
TurnLost(g, answer, h) ==
  answer = "lost" /\ h = [g EXCEPT !.step = "done"]
TurnDrops(g, answer, h) ==
  answer = "guard" /\ CanDrop(g) /\ h = Dropped(g)
TurnRewrites(g, answer, h) ==
  /\ answer = "output" /\ ~g.rewrote /\ g.calls + 1 < g.task.llm
  /\ h = [g EXCEPT !.calls = @ + 1, !.rewrote = TRUE]
TurnWithheld(g, answer, h) ==
  /\ answer = "output" /\ (g.rewrote \/ ~(g.calls + 1 < g.task.llm))
  /\ h = [g EXCEPT !.calls = @ + 1, !.unanswered = TRUE, !.step = "submit"]
TurnTrips(g, answer, h) ==
  answer = "canary" /\ h = [g EXCEPT !.calls = @ + 1, !.tripped = TRUE, !.step = "submit"]
TurnCondenses(g, answer, h) ==
  /\ answer = "cut" /\ g.calls + 1 < g.task.llm
  /\ h = [g EXCEPT !.calls = @ + 1, !.condense = TRUE]
TurnActs(g, answer, h) ==
  /\ answer = "tool" /\ ~LastTurn(g)
  /\ h = [g EXCEPT !.calls = @ + 1, !.step = "tool"]
TurnSubmits(g, answer, h) ==
  /\ answer \notin {"lost", "canary"}
  /\ h = [g EXCEPT !.calls = @ + 1, !.step = "submit"]

LEMMA TurnCases ==
  ASSUME NEW c \in Calls, NEW g \in GuestOf(c), g.step = "ask", NEW answer,
         NEW h, h = AfterAnswer(g, answer)
  PROVE  \/ TurnLost(g, answer, h) \/ TurnDrops(g, answer, h) \/ TurnRewrites(g, answer, h)
         \/ TurnWithheld(g, answer, h) \/ TurnTrips(g, answer, h) \/ TurnCondenses(g, answer, h)
         \/ TurnActs(g, answer, h) \/ TurnSubmits(g, answer, h)
<1>0. g \in Guest
  BY DEF GuestOf
<1> DEFINE counted == [g EXCEPT !.calls = @ + 1]
<1>1. CASE answer = "lost"
  BY <1>1 DEF AfterAnswer, TurnLost
<1>2. CASE answer = "guard" /\ CanDrop(g)
  BY <1>2 DEF AfterAnswer, TurnDrops
<1>3. CASE answer = "guard" /\ ~CanDrop(g)
  BY <1>0, <1>3 DEF TurnSubmits, AfterAnswer, Stopped, Guest
<1>4. CASE answer = "output" /\ ~g.rewrote /\ counted.calls < counted.task.llm
  BY <1>0, <1>4 DEF TurnRewrites, AfterAnswer, Guest
<1>5. CASE answer = "output" /\ ~(~g.rewrote /\ counted.calls < counted.task.llm)
  BY <1>0, <1>5 DEF TurnWithheld, AfterAnswer, Stopped, Guest
<1>6. CASE answer = "canary"
  BY <1>0, <1>6 DEF TurnTrips, AfterAnswer, Stopped, Guest
<1>7. CASE answer = "cut"
  BY <1>0, <1>7 DEF TurnCondenses, TurnSubmits, AfterAnswer, Stopped, Guest
<1>8. CASE answer = "tool"
  BY <1>0, <1>8 DEF TurnActs, TurnSubmits, AfterAnswer, Stopped, Guest
<1>9. CASE answer \notin {"lost", "guard", "output", "canary", "cut", "tool"}
  BY <1>0, <1>9 DEF TurnSubmits, AfterAnswer, Stopped, Guest
<1> QED
  BY <1>1, <1>2, <1>3, <1>4, <1>5, <1>6, <1>7, <1>8, <1>9

-----------------------------------------------------------------------------
(* The guest's program *)

\* The budget from which one call is kept for a rewrite.
Room(g) == IF Reads(g) THEN 3 ELSE 4

\* While the rewrite and the condensed answer are unused there are two calls
\* left, and nothing was submitted before the end.
Careful(g) ==
  /\ g.step \in {"ask", "tool"} /\ ~g.rewrote /\ ~g.condense /\ g.task.llm >= Room(g) =>
       g.calls + 2 <= g.task.llm
  /\ g.unanswered => g.rewrote \/ g.condense \/ g.task.llm < Room(g)
  /\ g.submit # "none" => g.step = "done"

LEMMA BootedIsCareful ==
  ASSUME NEW c \in Calls
  PROVE  Careful(Booted(Task[c]))
BY TaskTypes DEF Booted, Careful, Room, Reads

\* The loop ends by submitting once the calls are used up.
LEMMA AgainGuest ==
  ASSUME NEW c \in Calls, NEW h \in Guest, h.task = Task[c], h.calls <= Task[c].llm,
         h.step # "tool" \/ h.calls < Task[c].llm
  PROVE  /\ Again(h) \in GuestOf(c)
         /\ Again(h).tripped = h.tripped /\ Again(h).submit = h.submit
         /\ h.step = "done" /\ h.calls < Task[c].llm => Again(h).step = "done"
<1>0. h.calls \in Nat /\ Task[c].llm \in Nat /\ Task[c] \in Tasks
  BY TaskTypes DEF Guest
<1>1. CASE h.calls < h.task.llm
  BY <1>0, <1>1 DEF Again, GuestOf
<1>2. CASE ~(h.calls < h.task.llm)
  BY <1>0, <1>2 DEF Again, GuestOf, Guest
<1> QED
  BY <1>1, <1>2

LEMMA AgainCareful ==
  ASSUME NEW h \in Guest, Careful(h), h.submit = "none"
  PROVE  Careful(Again(h))
<1>1. CASE h.calls < h.task.llm
  BY <1>1 DEF Again
<1>2. CASE ~(h.calls < h.task.llm)
  BY <1>2 DEF Again, Careful, Guest, Room, Reads
<1> QED
  BY <1>1, <1>2

LEMMA TurnGuest ==
  ASSUME NEW c \in Calls, NEW g \in GuestOf(c), g.step = "ask", Careful(g), NEW answer,
         NEW h, h = AfterAnswer(g, answer)
  PROVE  /\ h \in Guest /\ h.task = Task[c] /\ h.calls <= Task[c].llm /\ Careful(h)
         /\ h.step # "tool" \/ h.calls < Task[c].llm
         /\ h.submit = "none" /\ (g.tripped => h.tripped)
         /\ answer = "canary" => h.tripped
         /\ answer = "lost" => h.step = "done" /\ h.calls < Task[c].llm
<1>0. /\ g \in Guest /\ g.task = Task[c] /\ g.calls \in Nat /\ g.calls < Task[c].llm
      /\ Task[c].llm \in Nat /\ g.submit = "none" /\ g.calls + 1 \in Nat /\ g.drops + 1 \in Nat
  BY TaskTypes DEF GuestOf, Guest, Careful
<1>1. CASE TurnLost(g, answer, h)
  BY <1>0, <1>1 DEF Guest, Careful, Room, Reads, TurnLost
<1>2. CASE TurnDrops(g, answer, h)
  <2>a. answer = "guard"
    BY <1>2 DEF TurnDrops
  <2>0. g.material \in Nat /\ g.material > 0
    BY <1>0, <1>2 DEF Guest, CanDrop, TurnDrops
  <2> DEFINE left == IF Reads(g) THEN g.material - 1 ELSE 0
  <2>1. left \in Nat
    BY <2>0
  <2>2. h = [g EXCEPT !.drops = @ + 1, !.material = left]
    BY <1>2 DEF Dropped, TurnDrops
  <2> HIDE DEF left
  <2>3. h \in Guest
    BY <1>0, <2>1, <2>2 DEF Guest
  <2>4. /\ h.task = g.task /\ h.submit = g.submit /\ h.tripped = g.tripped
        /\ h.step = g.step /\ h.calls = g.calls
        /\ h.rewrote = g.rewrote /\ h.condense = g.condense /\ h.unanswered = g.unanswered
    BY <1>0, <2>2 DEF Guest
  <2> QED
    BY <1>0, <2>a, <2>3, <2>4 DEF Careful, Room, Reads
<1>3. CASE TurnRewrites(g, answer, h)
  <2>a. answer = "output"
    BY <1>3 DEF TurnRewrites
  <2>1. h \in Guest
    BY <1>0, <1>3 DEF Guest, TurnRewrites
  <2>2. /\ h.task = g.task /\ h.submit = g.submit /\ h.tripped = g.tripped
        /\ h.step = g.step /\ h.calls = g.calls + 1
        /\ h.rewrote /\ h.condense = g.condense /\ h.unanswered = g.unanswered
    BY <1>0, <1>3 DEF Guest, TurnRewrites
  <2> QED
    BY <1>0, <2>a, <2>1, <2>2 DEF Careful, Room, Reads
<1>4. CASE TurnWithheld(g, answer, h)
  <2>a. answer = "output" /\ (g.rewrote \/ ~(g.calls + 1 < g.task.llm))
    BY <1>4 DEF TurnWithheld
  <2>1. h \in Guest
    BY <1>0, <1>4 DEF Guest, TurnWithheld
  <2>2. /\ h.task = g.task /\ h.submit = g.submit /\ h.tripped = g.tripped
        /\ h.step = "submit" /\ h.calls = g.calls + 1
        /\ h.rewrote = g.rewrote /\ h.condense = g.condense
    BY <1>0, <1>4 DEF Guest, TurnWithheld
  <2>3. g.rewrote \/ g.condense \/ g.task.llm < Room(g)
    BY <1>0, <2>a DEF Careful, Room, Reads
  <2> QED
    BY <1>0, <2>a, <2>1, <2>2, <2>3 DEF Careful, Room, Reads
<1>5. CASE TurnTrips(g, answer, h)
  <2>a. answer = "canary"
    BY <1>5 DEF TurnTrips
  <2>1. h \in Guest
    BY <1>0, <1>5 DEF Guest, TurnTrips
  <2>2. /\ h.task = g.task /\ h.submit = g.submit /\ h.tripped
        /\ h.step = "submit" /\ h.calls = g.calls + 1
        /\ h.rewrote = g.rewrote /\ h.condense = g.condense /\ h.unanswered = g.unanswered
    BY <1>0, <1>5 DEF Guest, TurnTrips
  <2> QED
    BY <1>0, <2>a, <2>1, <2>2 DEF Careful, Room, Reads
<1>6. CASE TurnCondenses(g, answer, h)
  <2>a. answer = "cut"
    BY <1>6 DEF TurnCondenses
  <2>1. h \in Guest
    BY <1>0, <1>6 DEF Guest, TurnCondenses
  <2>2. /\ h.task = g.task /\ h.submit = g.submit /\ h.tripped = g.tripped
        /\ h.step = g.step /\ h.calls = g.calls + 1
        /\ h.rewrote = g.rewrote /\ h.condense /\ h.unanswered = g.unanswered
    BY <1>0, <1>6 DEF Guest, TurnCondenses
  <2> QED
    BY <1>0, <2>a, <2>1, <2>2 DEF Careful, Room, Reads
<1>7. CASE TurnActs(g, answer, h)
  <2>a. answer = "tool" /\ ~LastTurn(g)
    BY <1>7 DEF TurnActs
  <2>1. h \in Guest
    BY <1>0, <1>7 DEF Guest, TurnActs
  <2>2. /\ h.task = g.task /\ h.submit = g.submit /\ h.tripped = g.tripped
        /\ h.step = "tool" /\ h.calls = g.calls + 1
        /\ h.rewrote = g.rewrote /\ h.condense = g.condense /\ h.unanswered = g.unanswered
    BY <1>0, <1>7 DEF Guest, TurnActs
  <2>3. /\ g.calls + Reserve(g) + 1 < g.task.llm /\ Reserve(g) \in {0, 1}
        /\ ~g.rewrote /\ g.task.llm >= Room(g) => Reserve(g) = 1
    BY <1>0, <2>a DEF LastTurn, Reserve, Room
  <2> QED
    BY <1>0, <2>a, <2>1, <2>2, <2>3 DEF Careful, Room, Reads
<1>8. CASE TurnSubmits(g, answer, h)
  <2>a. answer \notin {"lost", "canary"}
    BY <1>8 DEF TurnSubmits
  <2>1. h \in Guest
    BY <1>0, <1>8 DEF Guest, TurnSubmits
  <2>2. /\ h.task = g.task /\ h.submit = g.submit /\ h.tripped = g.tripped
        /\ h.step = "submit" /\ h.calls = g.calls + 1
        /\ h.rewrote = g.rewrote /\ h.condense = g.condense /\ h.unanswered = g.unanswered
    BY <1>0, <1>8 DEF Guest, TurnSubmits
  <2> QED
    BY <1>0, <2>a, <2>1, <2>2 DEF Careful, Room, Reads
<1> QED
  BY <1>1, <1>2, <1>3, <1>4, <1>5, <1>6, <1>7, <1>8, TurnCases

\* A turn, as Ask takes it.
LEMMA AskGuest ==
  ASSUME NEW c \in Calls, NEW g \in GuestOf(c), g.step = "ask", Careful(g), NEW answer,
         NEW h, h = Again(AfterAnswer(g, answer))
  PROVE  /\ h \in GuestOf(c) /\ Careful(h)
         /\ h.submit = "none" /\ (g.tripped => h.tripped)
         /\ answer = "canary" => h.tripped
         /\ answer = "lost" => h.step = "done"
BY TurnGuest, AgainGuest, AgainCareful

LEMMA ToolGuest ==
  ASSUME NEW c \in Calls, NEW g \in GuestOf(c), g.step = "tool", Careful(g), NEW answer,
         NEW h, h = AfterTool(g, answer)
  PROVE  /\ h \in GuestOf(c) /\ Careful(h)
         /\ h.submit = "none" /\ (g.tripped => h.tripped)
         /\ answer = "canary" => h.tripped
         /\ answer = "lost" => h.step = "done"
<1>0. /\ g \in Guest /\ g.task = Task[c] /\ g.calls \in Nat /\ g.calls < Task[c].llm
      /\ Task[c].llm \in Nat /\ g.submit = "none" /\ g.tripped \in BOOLEAN
  BY TaskTypes DEF GuestOf, Guest, Careful
<1>1. CASE answer = "lost"
  BY <1>0, <1>1 DEF AfterTool, GuestOf, Guest, Careful, Room, Reads
<1>2. CASE answer # "lost"
  <2> DEFINE k == [g EXCEPT !.step = "ask", !.steps = @ + 1,
                            !.tripped = @ \/ answer = "canary",
                            !.material = IF Reads(g) THEN @ + 1 ELSE 1]
  <2>1. h = Again(k)
    BY <1>2 DEF AfterTool
  <2>2. k \in Guest
    <3> DEFINE material == IF Reads(g) THEN g.material + 1 ELSE 1
               tripped == g.tripped \/ answer = "canary"
    <3>1. g.steps + 1 \in Nat /\ material \in Nat
      BY <1>0 DEF Guest
    <3>2. tripped \in BOOLEAN
      OBVIOUS
    <3>3. k = [g EXCEPT !.step = "ask", !.steps = g.steps + 1, !.tripped = tripped,
                        !.material = material]
      OBVIOUS
    <3> HIDE DEF k, material, tripped
    <3> QED
      BY <1>0, <3>1, <3>2, <3>3, Zenon DEF Guest
  <2>3. /\ k.task = Task[c] /\ k.calls = g.calls /\ k.step = "ask" /\ k.submit = "none"
        /\ (g.tripped => k.tripped) /\ (answer = "canary" => k.tripped)
        /\ k.rewrote = g.rewrote /\ k.condense = g.condense /\ k.unanswered = g.unanswered
    BY <1>0 DEF Guest
  <2> HIDE DEF k
  <2>4. Careful(k)
    BY <1>0, <2>3 DEF Careful, Room, Reads
  <2> QED
    BY <1>0, <1>2, <2>1, <2>2, <2>3, <2>4, AgainGuest, AgainCareful
<1> QED
  BY <1>1, <1>2

LEMMA SubmitGuest ==
  ASSUME NEW c \in Calls, NEW g \in GuestOf(c), g.step = "submit", Careful(g), NEW answer,
         NEW h, h = AfterSubmit(g, answer)
  PROVE  /\ h \in GuestOf(c) /\ Careful(h) /\ h.step = "done"
         /\ (g.tripped => h.tripped) /\ (answer = "canary" => h.tripped)
         /\ (answer # "final" => h.submit # "ok")
<1>0. g \in Guest /\ g.task = Task[c] /\ g.tripped \in BOOLEAN /\ g.calls <= Task[c].llm
  BY DEF GuestOf, Guest
<1> DEFINE how == CASE answer = "lost" -> "none"
                    [] answer = "final" -> "ok"
                    [] OTHER -> "failed"
<1>1. how \in {"none", "ok", "failed"} /\ (answer # "final" => how # "ok")
  OBVIOUS
<1>2. h = [g EXCEPT !.step = "done", !.tripped = g.tripped \/ answer = "canary", !.submit = how]
  BY DEF AfterSubmit
<1> HIDE DEF how
<1>3. h \in Guest
  BY <1>0, <1>1, <1>2 DEF Guest
<1>4. /\ h.step = "done" /\ h.task = g.task /\ h.calls = g.calls /\ h.submit = how
      /\ h.unanswered = g.unanswered /\ h.rewrote = g.rewrote /\ h.condense = g.condense
  BY <1>0, <1>2 DEF Guest
<1>5. (g.tripped => h.tripped) /\ (answer = "canary" => h.tripped)
  BY <1>0, <1>2 DEF Guest
<1> QED
  BY <1>0, <1>1, <1>3, <1>4, <1>5 DEF GuestOf, Careful, Room, Reads

LEMMA TimeUpGuest ==
  ASSUME NEW c \in Calls, NEW g \in GuestOf(c), g.step = "ask", Careful(g)
  PROVE  /\ TimeUp(g) \in GuestOf(c) /\ Careful(TimeUp(g))
         /\ TimeUp(g).submit = g.submit /\ TimeUp(g).tripped = g.tripped
BY DEF TimeUp, Stopped, GuestOf, Guest, Careful, Room, Reads

-----------------------------------------------------------------------------
(* Types of the whole *)

Guests == \A c \in Calls : guest[c] # Off => guest[c] \in GuestOf(c) /\ Careful(guest[c])

WellTyped == TypeOK /\ Guests

LEMMA GrantTypes ==
  /\ Denying \in Grant /\ ~Denying.worker
  /\ \A now \in Nat : [worker |-> TRUE, exp |-> now + Ttl] \in Grant
<1>1. Denying \in Grant /\ ~Denying.worker
  BY DEF Denying, Grant
<1>2. ASSUME NEW now \in Nat PROVE [worker |-> TRUE, exp |-> now + Ttl] \in Grant
  <2>1. now + Ttl \in Nat
    BY TimeTypes
  <2> QED
    BY <2>1 DEF Grant
<1> QED
  BY <1>1, <1>2

LEMMA FaultTypes ==
  ASSUME TypeOK, NEW c \in Calls, Smooth \/ Fault(c)
  PROVE  faults' \in 0..MaxFaults /\ hurt' \subseteq Calls /\ hurt \subseteq hurt'
BY TimeTypes DEF Smooth, Fault, TypeOK

\* What the script prints reaches a parent that still waits.
LEMMA Reported ==
  ASSUME TypeOK, NEW c \in Calls, NEW report \in Reports, Report(c, report)
  PROVE  \E said \in {"none"} \cup Reports :
           /\ said = IF parent[c].step = "wait" THEN report ELSE "none"
           /\ host' = [host EXCEPT ![c] = [step |-> "none", until |-> 0, report |-> said]]
<1> DEFINE said == IF parent[c].step = "wait" THEN report ELSE "none"
<1>1. [Away EXCEPT !.report = IF parent[c].step = "wait" THEN report ELSE @]
        = [step |-> "none", until |-> 0, report |-> said]
  <2>1. CASE parent[c].step = "wait"
    BY <2>1 DEF Away
  <2>2. CASE parent[c].step # "wait"
    BY <2>2 DEF Away
  <2> QED
    BY <2>1, <2>2
<1>2. host' = [host EXCEPT ![c] = [step |-> "none", until |-> 0, report |-> said]]
  BY <1>1 DEF Report
<1>3. said \in {"none"} \cup Reports
  OBVIOUS
<1> QED
  BY <1>2, <1>3

LEMMA ReportTypes ==
  ASSUME TypeOK, NEW c \in Calls, NEW report \in Reports, Report(c, report)
  PROVE  host' \in [Calls -> Host]
BY Reported DEF Host, TypeOK

LEMMA RelayedTypes == \A g : Relayed(g) \in Reports
BY DEF Relayed, Reports

LEMMA HubTypes ==
  ASSUME TypeOK, UNCHANGED hub
  PROVE  /\ grant' \in [Calls -> Grant] /\ condemned' \subseteq Calls
         /\ artifact' \in [Calls -> Statuses]
BY DEF TypeOK, hub

LEMMA GuestPut ==
  ASSUME WellTyped, NEW c \in Calls, NEW h, h = Off \/ (h \in GuestOf(c) /\ Careful(h)),
         guest' = [guest EXCEPT ![c] = h]
  PROVE  /\ guest' \in [Calls -> Guest \cup {Off}] /\ Guests'
         /\ \A d \in Calls : guest'[d] # Off => guest'[d].calls <= Task[d].llm
<1>1. h \in Guest \cup {Off} /\ (h # Off => h.calls <= Task[c].llm)
  BY DEF GuestOf
<1>2. guest \in [Calls -> Guest \cup {Off}]
  BY DEF WellTyped, TypeOK
<1>3. \A d \in Calls : guest'[d] = IF d = c THEN h ELSE guest[d]
  BY <1>2
<1>4. Guests'
  BY <1>3 DEF WellTyped, Guests, GuestOf, Careful, Room, Reads
<1> QED
  BY <1>1, <1>2, <1>3, <1>4 DEF WellTyped, TypeOK

LEMMA GuestKept ==
  ASSUME WellTyped, UNCHANGED guest
  PROVE  /\ guest' \in [Calls -> Guest \cup {Off}] /\ Guests'
         /\ \A d \in Calls : guest'[d] # Off => guest'[d].calls <= Task[d].llm
BY DEF WellTyped, TypeOK, Guests

\* A canary condemns the run, as a lost answer may.
LEMMA Tripped ==
  ASSUME TypeOK, NEW c \in Calls, NEW answer, Trip(c, answer)
  PROVE  /\ condemned' \subseteq Calls /\ hurt' \subseteq Calls /\ hurt \subseteq hurt'
         /\ condemned' = condemned \/ condemned' = condemned \cup {c}
         /\ hurt' = hurt \/ hurt' = hurt \cup {c}
         /\ c \in condemned' /\ c \notin condemned =>
              answer = "canary" \/ (answer = "lost" /\ c \in hurt')
         /\ answer = "canary" => c \in condemned'
BY DEF Trip, TypeOK

LEMMA Assembled ==
  ASSUME grant' \in [Calls -> Grant], condemned' \subseteq Calls, artifact' \in [Calls -> Statuses],
         parent' \in [Calls -> Parent], host' \in [Calls -> Host],
         /\ guest' \in [Calls -> Guest \cup {Off}] /\ Guests'
         /\ \A d \in Calls : guest'[d] # Off => guest'[d].calls <= Task[d].llm,
         clock' \in 0..MaxClock, faults' \in 0..MaxFaults, hurt' \subseteq Calls
  PROVE  WellTyped'
BY DEF WellTyped, TypeOK

\* spawn_worker keeps the types of everything else.
LEMMA SpawnTypes ==
  ASSUME WellTyped, NEW c \in Calls,
         \/ Register(c) \/ Spawn(c) \/ Sever(c) \/ ParentKilled(c)
  PROVE  WellTyped'
<1>0. /\ TypeOK /\ clock \in Nat /\ parent[c] \in Parent /\ clock \in 0..MaxClock
      /\ parent \in [Calls -> Parent] /\ host \in [Calls -> Host] /\ grant \in [Calls -> Grant]
  BY TimeTypes DEF WellTyped, TypeOK
<1>1. clock' = clock /\ guest' = guest
  BY DEF Register, Spawn, StartSsh, Output, SshEnded, SshTimedOut, Metadata, Content,
         Revoke, Sever, ParentKilled
<1>2. Smooth \/ Fault(c)
  BY DEF Register, Spawn, StartSsh, Output, SshEnded, SshTimedOut, Metadata, Content,
         Revoke, Sever, ParentKilled
<1>3. condemned' = condemned /\ artifact' = artifact
  BY DEF Register, Spawn, StartSsh, Output, SshEnded, SshTimedOut, Metadata, Content,
         Revoke, Sever, ParentKilled, hub
<1>4. grant' \in [Calls -> Grant]
  <2>1. Denying \in Grant /\ Allowing \in Grant
    BY <1>0, GrantTypes DEF Allowing
  <2>2. \/ grant' = grant
        \/ grant' = [grant EXCEPT ![c] = Denying] \/ grant' = [grant EXCEPT ![c] = Allowing]
    BY DEF Register, Spawn, StartSsh, Output, SshEnded, SshTimedOut, Metadata, Content,
           Revoke, Sever, ParentKilled, hub
  <2> QED
    BY <1>0, <2>1, <2>2
<1>5. parent' \in [Calls -> Parent] /\ host' \in [Calls -> Host]
  <2>1. CASE Register(c)
    BY <1>0, <2>1 DEF Register, To, Escape, Parent
  <2>2. CASE StartSsh(c)
    <3> DEFINE due == clock + SshTimeout
               wait == clock + LockWait
    <3>1. due \in Nat /\ wait \in Nat
      BY <1>0, TimeTypes
    <3>2. \/ /\ parent' = [parent EXCEPT ![c].step = "wait", ![c].until = due]
             /\ host' = [host EXCEPT ![c] = [step |-> "queue", until |-> wait, report |-> "none"]]
          \/ Raise(c) /\ host' = host
      BY <2>2 DEF StartSsh
    <3> HIDE DEF due, wait
    <3>3. host' \in [Calls -> Host]
      BY <1>0, <3>1, <3>2 DEF Host
    <3>4. CASE parent' = [parent EXCEPT ![c].step = "wait", ![c].until = due]
      BY <1>0, <3>1, <3>3, <3>4 DEF Parent
    <3>5. CASE Raise(c)
      BY <1>0, <3>3, <3>5 DEF Raise, Parent
    <3> QED
      BY <3>2, <3>4, <3>5
  <2>3. CASE Output(c)
    <3>1. host' \in [Calls -> Host]
      BY <1>0, <2>3 DEF Output, Host, Away
    <3>2. \/ To(c, "metadata") \/ Raise(c)
          \/ parent' = [parent EXCEPT ![c].step = "revoke", ![c].until = 0, ![c].outcome = "canary"]
      BY <2>3 DEF Output
    <3>3. parent' \in [Calls -> Parent]
      BY <1>0, <3>2 DEF To, Raise, Parent
    <3> QED
      BY <3>1, <3>3
  <2>4. CASE SshEnded(c) \/ SshTimedOut(c)
    BY <1>0, <2>4 DEF SshEnded, SshTimedOut, Raise, Parent
  <2>5. CASE Metadata(c)
    BY <1>0, <2>5 DEF Metadata, To, Raise, Parent
  <2>6. CASE Content(c)
    BY <1>0, <2>6 DEF Content, Raise, Parent
  <2>7. CASE Revoke(c)
    BY <1>0, <2>7 DEF Revoke, Return, Escape, Parent
  <2>8. CASE ParentKilled(c)
    BY <1>0, <2>8 DEF ParentKilled, To, Parent
  <2>9. CASE Sever(c)
    <3>1. parent' \in [Calls -> Parent]
      BY <1>0, <2>9 DEF Sever, Parent
    <3>2. host' = host \/ host' = [host EXCEPT ![c] = Away]
      BY <2>9 DEF Sever
    <3>3. host' \in [Calls -> Host]
      BY <1>0, <3>2 DEF Host, Away
    <3> QED
      BY <3>1, <3>3
  <2> QED
    BY <2>1, <2>2, <2>3, <2>4, <2>5, <2>6, <2>7, <2>8, <2>9 DEF Spawn
<1>6. condemned' \subseteq Calls /\ artifact' \in [Calls -> Statuses]
  BY <1>0, <1>3 DEF TypeOK
<1> QED
  BY <1>0, <1>1, <1>2, <1>4, <1>5, <1>6, Assembled, GuestKept, FaultTypes

LEMMA ScriptTypes ==
  ASSUME WellTyped, NEW c \in Calls,
         \/ Script(c) \/ ScriptKilled(c)
  PROVE  WellTyped'
<1>0. /\ TypeOK /\ clock \in Nat /\ clock \in 0..MaxClock
      /\ parent \in [Calls -> Parent] /\ host \in [Calls -> Host] /\ guest \in [Calls -> Guest \cup {Off}]
  BY TimeTypes DEF WellTyped, TypeOK
<1>1. clock' = clock /\ parent' = parent /\ UNCHANGED hub
  BY DEF Script, Busy, Refuse, Boot, Collect, ScriptKilled
<1>2. Smooth \/ Fault(c)
  BY DEF Script, Busy, Refuse, Boot, Collect, ScriptKilled
<1>3. host' \in [Calls -> Host]
  <2>1. CASE Busy(c) \/ Refuse(c)
    BY <1>0, <2>1, ReportTypes DEF Busy, Refuse, Reports
  <2>2. CASE Boot(c)
    <3>1. clock + VmTimeout \in Nat
      BY <1>0, TimeTypes
    <3> QED
      BY <1>0, <2>2, <3>1 DEF Boot, Host
  <2>3. CASE Collect(c)
    BY <1>0, <2>3, ReportTypes, RelayedTypes DEF Collect
  <2>4. CASE ScriptKilled(c)
    BY <1>0, <2>4, ReportTypes DEF ScriptKilled, Reports
  <2> QED
    BY <2>1, <2>2, <2>3, <2>4 DEF Script
<1>4. \/ guest' = guest \/ guest' = [guest EXCEPT ![c] = Off]
      \/ guest' = [guest EXCEPT ![c] = Booted(Task[c])]
  BY DEF Script, Busy, Refuse, Boot, Collect, ScriptKilled
<1>5. /\ guest' \in [Calls -> Guest \cup {Off}] /\ Guests'
      /\ \A d \in Calls : guest'[d] # Off => guest'[d].calls <= Task[d].llm
  BY <1>4, GuestPut, GuestKept, BootedIsGuest, BootedIsCareful
<1>6. parent' \in [Calls -> Parent]
  BY <1>0, <1>1
<1> QED
  BY <1>0, <1>1, <1>2, <1>3, <1>5, <1>6, Assembled, HubTypes, FaultTypes

\* The guest of a call after one of its steps.
LEMMA GuestMoves ==
  ASSUME WellTyped, NEW c \in Calls, Ask(c) \/ OutOfTime(c) \/ Tool(c) \/ Submit(c)
  PROVE  /\ guest[c] # Off /\ guest[c] \in GuestOf(c) /\ Careful(guest[c])
         /\ guest[c].step \in {"ask", "tool", "submit"} /\ guest[c].submit = "none"
         /\ \E h \in GuestOf(c) :
              /\ Careful(h) /\ guest' = [guest EXCEPT ![c] = h]
              /\ guest[c].tripped => h.tripped
              /\ \/ condemned' = condemned /\ hurt' = hurt /\ (h.submit = "ok" => c \notin condemned)
                 \/ condemned' = condemned \cup {c} /\ (h.tripped \/ (h.step = "done" /\ h.submit # "ok" /\ c \in hurt'))
                    /\ (hurt' = hurt \/ hurt' = hurt \cup {c})
<1>0. guest[c] # Off /\ guest[c].step \in {"ask", "tool", "submit"} /\ TypeOK
  BY DEF Ask, OutOfTime, Tool, Submit, Off, WellTyped
<1>1. guest[c] \in GuestOf(c) /\ Careful(guest[c])
  BY <1>0 DEF WellTyped, Guests
<1>2. guest[c].submit = "none"
  BY <1>0, <1>1 DEF Careful
<1> DEFINE Moved(h) ==
      /\ Careful(h) /\ guest' = [guest EXCEPT ![c] = h]
      /\ guest[c].tripped => h.tripped
      /\ \/ condemned' = condemned /\ hurt' = hurt /\ (h.submit = "ok" => c \notin condemned)
         \/ condemned' = condemned \cup {c} /\ (h.tripped \/ (h.step = "done" /\ h.submit # "ok" /\ c \in hurt'))
            /\ (hurt' = hurt \/ hurt' = hurt \cup {c})
<1>3. CASE Ask(c)
  <2>1. PICK answer \in Answers :
          /\ guest' = [guest EXCEPT ![c] = Again(AfterAnswer(guest[c], answer))]
          /\ Trip(c, answer)
    BY <1>3 DEF Ask
  <2>2. guest[c].step = "ask"
    BY <1>3 DEF Ask
  <2> DEFINE h == Again(AfterAnswer(guest[c], answer))
  <2>3. /\ h \in GuestOf(c) /\ Careful(h) /\ h.submit = "none"
        /\ guest[c].tripped => h.tripped
        /\ answer = "canary" => h.tripped
        /\ answer = "lost" => h.step = "done"
    BY <1>1, <2>2, AskGuest
  <2>4. guest' = [guest EXCEPT ![c] = h]
    BY <2>1
  <2> HIDE DEF h
  <2>5. \/ condemned' = condemned /\ hurt' = hurt
        \/ /\ condemned' = condemned \cup {c} /\ (h.tripped \/ (h.step = "done" /\ c \in hurt'))
           /\ (hurt' = hurt \/ hurt' = hurt \cup {c})
    BY <2>1, <2>3 DEF Trip
  <2>6. Moved(h)
    BY <2>3, <2>4, <2>5
  <2> QED
    BY <1>0, <1>1, <1>2, <2>3, <2>6
<1>4. CASE OutOfTime(c)
  <2> DEFINE h == TimeUp(guest[c])
  <2>1. guest' = [guest EXCEPT ![c] = h] /\ condemned' = condemned /\ hurt' = hurt
    BY <1>4 DEF OutOfTime, hub, Smooth
  <2>2. h \in GuestOf(c) /\ Careful(h) /\ h.submit = "none" /\ h.tripped = guest[c].tripped
    BY <1>1, <1>2, <1>4, TimeUpGuest DEF OutOfTime
  <2> HIDE DEF h
  <2>3. Moved(h)
    BY <2>1, <2>2
  <2> QED
    BY <1>0, <1>1, <1>2, <2>2, <2>3
<1>5. CASE Tool(c)
  <2>1. PICK answer \in {"final", "denied", "canary", "lost"} :
          guest' = [guest EXCEPT ![c] = AfterTool(guest[c], answer)] /\ Trip(c, answer)
    BY <1>5 DEF Tool
  <2>2. guest[c].step = "tool"
    BY <1>5 DEF Tool
  <2> DEFINE h == AfterTool(guest[c], answer)
  <2>3. /\ h \in GuestOf(c) /\ Careful(h) /\ h.submit = "none"
        /\ guest[c].tripped => h.tripped
        /\ answer = "canary" => h.tripped
        /\ answer = "lost" => h.step = "done"
    BY <1>1, <2>2, ToolGuest
  <2>4. guest' = [guest EXCEPT ![c] = h]
    BY <2>1
  <2> HIDE DEF h
  <2>5. \/ condemned' = condemned /\ hurt' = hurt
        \/ /\ condemned' = condemned \cup {c} /\ (h.tripped \/ (h.step = "done" /\ c \in hurt'))
           /\ (hurt' = hurt \/ hurt' = hurt \cup {c})
    BY <2>1, <2>3 DEF Trip
  <2>6. Moved(h)
    BY <2>3, <2>4, <2>5
  <2> QED
    BY <1>0, <1>1, <1>2, <2>3, <2>6
<1>6. CASE Submit(c)
  <2>1. PICK answer \in {"final", "denied", "canary", "lost"} :
          /\ guest' = [guest EXCEPT ![c] = AfterSubmit(guest[c], answer)] /\ Trip(c, answer)
          /\ answer # "final" \/ c \notin condemned'
    BY <1>6 DEF Submit
  <2>2. guest[c].step = "submit"
    BY <1>6 DEF Submit
  <2> DEFINE h == AfterSubmit(guest[c], answer)
  <2>3. /\ h \in GuestOf(c) /\ Careful(h) /\ h.step = "done"
        /\ guest[c].tripped => h.tripped
        /\ answer = "canary" => h.tripped
        /\ answer # "final" => h.submit # "ok"
    BY <1>1, <2>2, SubmitGuest
  <2>4. guest' = [guest EXCEPT ![c] = h]
    BY <2>1
  <2> HIDE DEF h
  <2>5. \/ condemned' = condemned /\ hurt' = hurt /\ (h.submit = "ok" => c \notin condemned)
        \/ /\ condemned' = condemned \cup {c} /\ (h.tripped \/ (h.submit # "ok" /\ c \in hurt'))
           /\ (hurt' = hurt \/ hurt' = hurt \cup {c})
    BY <2>1, <2>3 DEF Trip
  <2>6. Moved(h)
    BY <2>3, <2>4, <2>5
  <2> QED
    BY <1>0, <1>1, <1>2, <2>3, <2>6
<1> QED
  BY <1>3, <1>4, <1>5, <1>6

LEMMA GuestTypes ==
  ASSUME WellTyped, NEW c \in Calls, GuestStep(c)
  PROVE  WellTyped'
<1>0. /\ TypeOK /\ clock \in 0..MaxClock /\ faults \in 0..MaxFaults /\ hurt \subseteq Calls
      /\ parent \in [Calls -> Parent] /\ host \in [Calls -> Host]
      /\ grant \in [Calls -> Grant] /\ artifact \in [Calls -> Statuses] /\ condemned \subseteq Calls
  BY DEF WellTyped, TypeOK
<1>1. CASE Exit(c)
  <2>1. /\ grant' = grant /\ condemned' = condemned /\ artifact' = artifact /\ parent' = parent
        /\ clock' = clock /\ faults' = faults /\ hurt' \subseteq Calls
    BY <1>0, <1>1 DEF Exit, hub
  <2>2. host' \in [Calls -> Host]
    BY <1>0, <1>1, ReportTypes, RelayedTypes DEF Exit
  <2>3. guest' = [guest EXCEPT ![c] = Off]
    BY <1>1 DEF Exit
  <2> QED
    BY <1>0, <2>1, <2>2, <2>3, GuestPut, Assembled
<1>2. CASE Ask(c) \/ OutOfTime(c) \/ Tool(c) \/ Submit(c)
  <2>1. /\ grant' = grant /\ parent' = parent /\ host' = host /\ clock' = clock /\ faults' = faults
    BY <1>2 DEF Ask, OutOfTime, Tool, Submit, hub, Smooth
  <2>2. artifact' \in [Calls -> Statuses]
    BY <1>0, <1>2 DEF Ask, OutOfTime, Tool, Submit, hub, Statuses
  <2>3. PICK h \in GuestOf(c) : Careful(h) /\ guest' = [guest EXCEPT ![c] = h]
    BY <1>2, GuestMoves
  <2>4. condemned' \subseteq Calls /\ hurt' \subseteq Calls
    BY <1>0, <1>2, GuestMoves
  <2> QED
    BY <1>0, <2>1, <2>2, <2>3, <2>4, GuestPut, Assembled
<1> QED
  BY <1>1, <1>2 DEF GuestStep

LEMMA NextTypes == WellTyped /\ [Next]_vars => WellTyped'
<1> SUFFICES ASSUME WellTyped, [Next]_vars PROVE WellTyped'
  OBVIOUS
<1>1. ASSUME NEW c \in Calls, Register(c) \/ Spawn(c) \/ Sever(c) \/ ParentKilled(c)
      PROVE  WellTyped'
  BY <1>1, SpawnTypes
<1>2. ASSUME NEW c \in Calls, Script(c) \/ ScriptKilled(c) PROVE WellTyped'
  BY <1>2, ScriptTypes
<1>3. ASSUME NEW c \in Calls, GuestStep(c) PROVE WellTyped'
  BY <1>3, GuestTypes
<1>4. CASE Tick
  <2>1. clock' \in 0..MaxClock
    BY <1>4, TimeTypes DEF Tick, WellTyped, TypeOK
  <2>2. UNCHANGED <<grant, condemned, artifact, parent, host, guest, faults, hurt>>
    BY <1>4 DEF Tick, hub, Smooth
  <2> QED
    BY <2>1, <2>2 DEF WellTyped, TypeOK, Guests
<1>5. CASE UNCHANGED vars
  BY <1>5 DEF vars, WellTyped, TypeOK, Guests
<1> QED
  BY <1>1, <1>2, <1>3, <1>4, <1>5 DEF Next

LEMMA InitTypes == Init => WellTyped
<1> SUFFICES ASSUME Init PROVE WellTyped
  OBVIOUS
<1>1. grant \in [Calls -> Grant]
  BY GrantTypes DEF Init
<1>2. parent \in [Calls -> Parent] /\ host \in [Calls -> Host] /\ artifact \in [Calls -> Statuses]
  BY DEF Init, Parent, Host, Away, Statuses
<1>3. guest \in [Calls -> Guest \cup {Off}] /\ \A c \in Calls : guest[c] = Off
  BY DEF Init
<1>4. clock \in 0..MaxClock /\ faults \in 0..MaxFaults /\ hurt = {} /\ condemned = {}
  BY TimeTypes DEF Init
<1> QED
  BY <1>1, <1>2, <1>3, <1>4 DEF WellTyped, TypeOK, Guests

LEMMA TypesHold == Spec => []WellTyped
BY InitTypes, NextTypes, PTL DEF Spec

\* Every variable keeps its type, and no guest calls its model more often than
\* its task allows.
THEOREM TypeCorrect == Spec => []TypeOK
<1>1. WellTyped => TypeOK
  BY DEF WellTyped
<1> QED
  BY <1>1, TypesHold, PTL

\* A withheld reply costs the answer only where no call was kept for a rewrite.
THEOREM RewritesAreReserved == Spec => []RewriteReserved
<1>1. WellTyped => RewriteReserved
  BY DEF WellTyped, Guests, GuestOf, Careful, Room, Reads, RewriteReserved
<1> QED
  BY <1>1, TypesHold, PTL

-----------------------------------------------------------------------------
(* The course of one call *)

\* Where its parent, its script, its machine and its report can be.
Placed(c) ==
  /\ parent[c].step \in {"idle", "start", "wait", "severed", "metadata", "content"} =>
       parent[c].outcome = "none"
  /\ parent[c].step \in {"severed", "killed"} => c \in hurt
  /\ host[c].step # "none" =>
       /\ parent[c].step = "wait" \/ c \in hurt
       /\ parent[c].step \in {"wait", "severed", "revoke", "ended", "killed"}
       /\ parent[c].outcome \in {"none", "raised"} /\ host[c].report = "none"
  /\ host[c].report # "none" => parent[c].step \in {"wait", "killed"}
  /\ parent[c].step \in {"idle", "start"} \/ host[c].step = "queue" =>
       guest[c] = Off /\ c \notin condemned
  /\ host[c].step = "vm" => guest[c] # Off
  /\ guest[c] # Off =>
       /\ parent[c].step \in {"wait", "severed", "revoke", "ended", "killed"}
       /\ parent[c].outcome \in {"none", "raised"}
       /\ host[c].step = "vm" \/ (c \in hurt /\ host[c].report \in {"none", "nothing"})

\* The timeouts of the parent and the script, one within the other.
Timed(c) ==
  /\ parent[c].step = "start" => grant[c].exp = clock + Ttl
  /\ parent[c].step \in {"wait", "severed"} =>
       clock <= parent[c].until /\ parent[c].until < grant[c].exp
  /\ host[c].step \in {"queue", "vm"} => clock <= host[c].until
  /\ host[c].step = "queue" /\ grant[c].worker => host[c].until + VmTimeout < grant[c].exp
  /\ host[c].step = "vm" /\ grant[c].worker => host[c].until < grant[c].exp
  /\ host[c].step = "queue" /\ parent[c].step = "wait" =>
       host[c].until + VmTimeout < parent[c].until
  /\ host[c].step = "vm" /\ parent[c].step = "wait" => host[c].until < parent[c].until

\* What becomes of a canary trip.
Condemning(c) ==
  /\ parent[c].step \in {"metadata", "content"} \/ parent[c].outcome \in {"ok", "withheld"} =>
       guest[c] = Off /\ c \notin condemned
  /\ host[c].report = "artifact" => guest[c] = Off /\ c \notin condemned
  /\ c \in condemned /\ guest[c] # Off =>
       guest[c].tripped \/ (guest[c].step = "done" /\ guest[c].submit # "ok")
  /\ c \in condemned /\ c \notin hurt =>
       \/ guest[c] # Off /\ guest[c].tripped /\ host[c].step = "vm"
       \/ host[c].report = "canary"
       \/ parent[c].outcome = "canary"

\* What becomes of the identity.
Granting(c) ==
  /\ parent[c].step = "idle" => ~grant[c].worker
  /\ parent[c].step \in {"start", "wait", "severed", "metadata", "content"} => grant[c].worker
  /\ parent[c].step # "ended" => parent[c].revoked = "unknown"
  /\ parent[c].revoked = "yes" => ~grant[c].worker
  /\ parent[c].step = "ended" /\ grant[c].worker => c \in hurt

Course(c) == Placed(c) /\ Timed(c) /\ Condemning(c) /\ Granting(c)

\* One machine, held by a script or left behind by one.
Occupies(c) == host[c].step = "vm" \/ guest[c] # Off

CourseInv ==
  /\ \A c \in Calls : Course(c)
  /\ \A c, d \in Calls : Occupies(c) /\ Occupies(d) => c = d

\* A step of one call leaves the others as they are.
Apart(c) ==
  /\ clock' = clock
  /\ \A d \in Calls \ {c} :
       /\ parent'[d] = parent[d] /\ host'[d] = host[d] /\ guest'[d] = guest[d]
       /\ grant'[d] = grant[d]
       /\ (d \in condemned' <=> d \in condemned) /\ (d \in hurt' <=> d \in hurt)

LEMMA CourseApart ==
  ASSUME NEW c \in Calls, NEW d \in Calls \ {c}, Course(d), Apart(c)
  PROVE  Course(d)'
BY DEF Course, Placed, Timed, Condemning, Granting, Apart

-----------------------------------------------------------------------------
(* spawn_worker on its own call *)

LEMMA SpawnApart ==
  ASSUME WellTyped, NEW c \in Calls, Register(c) \/ Spawn(c) \/ Sever(c) \/ ParentKilled(c)
  PROVE  Apart(c)
<1>0. parent \in [Calls -> Parent] /\ host \in [Calls -> Host] /\ grant \in [Calls -> Grant]
  BY DEF WellTyped, TypeOK
<1>1. clock' = clock /\ guest' = guest /\ condemned' = condemned
  BY DEF Register, Spawn, StartSsh, Output, SshEnded, SshTimedOut, Metadata, Content,
         Revoke, Sever, ParentKilled, hub
<1>2. hurt' = hurt \/ hurt' = hurt \cup {c}
  BY DEF Register, Spawn, StartSsh, Output, SshEnded, SshTimedOut, Metadata, Content,
         Revoke, Sever, ParentKilled,
         Smooth, Fault
<1>3. \A d \in Calls \ {c} : grant'[d] = grant[d] /\ host'[d] = host[d]
  BY <1>0 DEF Register, Spawn, StartSsh, Output, SshEnded, SshTimedOut, Metadata, Content,
              Revoke,
              Sever, ParentKilled, hub
<1>4. \A d \in Calls \ {c} : parent'[d] = parent[d]
  BY <1>0 DEF Register, Spawn, StartSsh, Output, SshEnded, SshTimedOut, Metadata, Content,
              Revoke,
              Sever, ParentKilled, To, Raise, Escape, Return
<1> QED
  BY <1>1, <1>2, <1>3, <1>4 DEF Apart

LEMMA RegisterCourse ==
  ASSUME WellTyped, NEW c \in Calls, Course(c), Register(c)
  PROVE  Course(c)'
<1>0. parent[c] \in Parent /\ parent \in [Calls -> Parent] /\ grant \in [Calls -> Grant]
  BY DEF WellTyped, TypeOK
<1>1. /\ parent[c].step = "idle" /\ clock' = clock
      /\ host' = host /\ guest' = guest /\ condemned' = condemned /\ hurt \subseteq hurt'
  BY DEF Register, Smooth, Fault
<1>2. \/ /\ grant' = [grant EXCEPT ![c] = Allowing] /\ parent'[c].step = "start"
         /\ parent'[c].outcome = parent[c].outcome
      \/ /\ parent'[c].step = "ended" /\ parent'[c].outcome = "raised"
         /\ grant' = grant \/ c \in hurt'
  BY <1>0 DEF Register, To, Escape, Fault, Parent
<1>3. parent'[c].revoked = parent[c].revoked
  BY <1>0 DEF Register, To, Escape, Parent
<1>4. Allowing.exp = clock + Ttl /\ Allowing.worker
  BY DEF Allowing
<1>5. grant' = [grant EXCEPT ![c] = Allowing] => grant'[c].exp = clock + Ttl /\ grant'[c].worker
  BY <1>0, <1>4
<1>6. Placed(c)' /\ Condemning(c)'
  BY <1>0, <1>1, <1>2 DEF Course, Placed, Condemning
<1>7. Timed(c)'
  BY <1>0, <1>1, <1>2, <1>5 DEF Course, Placed, Timed
<1>8. Granting(c)'
  BY <1>0, <1>1, <1>2, <1>3, <1>5 DEF Course, Granting
<1> QED
  BY <1>6, <1>7, <1>8 DEF Course

LEMMA SpawnCourse ==
  ASSUME WellTyped, NEW c \in Calls, Course(c), Spawn(c) \/ Sever(c) \/ ParentKilled(c)
  PROVE  Course(c)'
<1>0. /\ parent[c] \in Parent /\ parent \in [Calls -> Parent] /\ host \in [Calls -> Host]
      /\ host[c] \in Host /\ clock \in Nat
      /\ parent[c].until \in Nat /\ host[c].until \in Nat /\ grant[c].exp \in Nat
  BY TimeTypes DEF WellTyped, TypeOK, Parent, Host, Grant
<1>1. clock' = clock /\ guest' = guest /\ condemned' = condemned
  BY DEF Spawn, StartSsh, Output, SshEnded, SshTimedOut, Metadata, Content, Revoke, Sever,
         ParentKilled, hub
<1>2. CASE StartSsh(c)
  <2>1. grant' = grant /\ hurt' = hurt /\ parent[c].step = "start"
    BY <1>2 DEF StartSsh, hub, Smooth
  <2>2. CASE /\ parent' = [parent EXCEPT ![c].step = "wait", ![c].until = clock + SshTimeout]
             /\ host' = [host EXCEPT ![c] = [step |-> "queue", until |-> clock + LockWait,
                                             report |-> "none"]]
    <3>1. /\ parent'[c].step = "wait" /\ parent'[c].until = clock + SshTimeout
          /\ parent'[c].outcome = parent[c].outcome /\ parent'[c].revoked = parent[c].revoked
          /\ host'[c].step = "queue" /\ host'[c].until = clock + LockWait /\ host'[c].report = "none"
      BY <1>0, <2>2 DEF Parent
    <3> HIDE <2>2
    <3>2. Placed(c)' /\ Condemning(c)' /\ Granting(c)'
      BY <1>1, <2>1, <3>1 DEF Course, Placed, Condemning, Granting
    <3>3. Timed(c)'
      BY <1>0, <1>1, <2>1, <3>1, TimeTypes DEF Course, Timed
    <3> QED
      BY <3>2, <3>3 DEF Course
  <2>3. CASE Raise(c) /\ host' = host
    <3>1. /\ parent'[c].step = "revoke" /\ parent'[c].outcome = "raised"
          /\ parent'[c].revoked = parent[c].revoked /\ host'[c] = host[c]
      BY <1>0, <2>3 DEF Raise, Parent
    <3> QED
      BY <1>1, <2>1, <3>1 DEF Course, Placed, Condemning, Granting, Timed
  <2> QED
    BY <1>2, <2>2, <2>3 DEF StartSsh
<1>3. CASE Output(c)
  <2>1. /\ grant' = grant /\ hurt' = hurt /\ parent[c].step = "wait" /\ host[c].report # "none"
        /\ host'[c] = Away
    BY <1>0, <1>3 DEF Output, hub, Smooth
  <2>2. parent'[c].revoked = parent[c].revoked
    BY <1>0, <1>3 DEF Output, To, Raise, Parent
  <2>3. \/ host[c].report = "canary" /\ parent'[c].step = "revoke" /\ parent'[c].outcome = "canary"
        \/ /\ host[c].report = "artifact" /\ parent'[c].step = "metadata"
           /\ parent'[c].outcome = parent[c].outcome
        \/ /\ host[c].report \notin {"canary", "artifact"} /\ parent'[c].step = "revoke"
           /\ parent'[c].outcome = "raised"
    <3>1. \/ /\ host[c].report = "canary"
             /\ parent' = [parent EXCEPT ![c].step = "revoke", ![c].until = 0, ![c].outcome = "canary"]
          \/ host[c].report = "artifact" /\ To(c, "metadata")
          \/ host[c].report \notin {"canary", "artifact"} /\ Raise(c)
      BY <1>3 DEF Output
    <3>2. CASE /\ host[c].report = "canary"
               /\ parent' = [parent EXCEPT ![c].step = "revoke", ![c].until = 0, ![c].outcome = "canary"]
      BY <1>0, <3>2 DEF Parent
    <3>3. CASE host[c].report = "artifact" /\ To(c, "metadata")
      BY <1>0, <3>3 DEF To, Parent
    <3>4. CASE host[c].report \notin {"canary", "artifact"} /\ Raise(c)
      BY <1>0, <3>4 DEF Raise, Parent
    <3> QED
      BY <3>1, <3>2, <3>3, <3>4
  <2> QED
    BY <1>1, <2>1, <2>2, <2>3 DEF Course, Placed, Condemning, Granting, Timed, Away
<1>4. CASE SshEnded(c) \/ SshTimedOut(c)
  <2>1. /\ grant' = grant /\ hurt' = hurt /\ host' = host
        /\ parent[c].step = "severed" \/ (parent[c].step = "wait" /\ clock >= parent[c].until)
        /\ parent[c].step = "wait" => host[c].report = "none"
    BY <1>4 DEF SshEnded, SshTimedOut, hub, Smooth
  <2>2. /\ parent'[c].step = "revoke" /\ parent'[c].outcome = "raised"
        /\ parent'[c].revoked = parent[c].revoked
    BY <1>0, <1>4 DEF SshEnded, SshTimedOut, Raise, Parent
  <2>3. host[c].step \in {"queue", "vm"} => c \in hurt
    BY <1>0, <2>1, TimeTypes DEF Course, Placed, Timed
  <2> QED
    BY <1>0, <1>1, <2>1, <2>2, <2>3 DEF Course, Placed, Condemning, Granting, Timed, Host
<1>5. CASE Metadata(c)
  <2>1. grant' = grant /\ hurt \subseteq hurt' /\ parent[c].step = "metadata" /\ host' = host
    BY <1>5 DEF Metadata, hub, Smooth, Fault
  <2>2. parent'[c].revoked = parent[c].revoked
    BY <1>0, <1>5 DEF Metadata, To, Raise, Parent
  <2>3. \/ parent'[c].step = "content" /\ parent'[c].outcome = parent[c].outcome
        \/ parent'[c].step = "revoke" /\ parent'[c].outcome \in {"withheld", "raised"}
    BY <1>0, <1>5 DEF Metadata, To, Raise, Parent
  <2> QED
    BY <1>1, <2>1, <2>2, <2>3 DEF Course, Placed, Condemning, Granting, Timed
<1>6. CASE Content(c)
  <2>1. grant' = grant /\ hurt \subseteq hurt' /\ parent[c].step = "content" /\ host' = host
    BY <1>6 DEF Content, hub, Smooth, Fault
  <2>2. /\ parent'[c].revoked = parent[c].revoked /\ parent'[c].step = "revoke"
        /\ parent'[c].outcome \in {"ok", "raised"}
    BY <1>0, <1>6 DEF Content, Raise, Parent
  <2> QED
    BY <1>1, <2>1, <2>2 DEF Course, Placed, Condemning, Granting, Timed
<1>7. CASE Revoke(c)
  <2>1. hurt \subseteq hurt' /\ parent[c].step = "revoke" /\ host' = host /\ parent'[c].step = "ended"
    BY <1>0, <1>7 DEF Revoke, Smooth, Fault, Return, Escape, Parent
  <2>2. /\ grant' = grant \/ grant' = [grant EXCEPT ![c] = Denying]
        /\ grant' = [grant EXCEPT ![c] = Denying] => ~grant'[c].worker
    BY <1>7, GrantTypes DEF Revoke, WellTyped, TypeOK
  <2>3. \/ /\ grant' = [grant EXCEPT ![c] = Denying]
           /\ parent'[c].revoked = "yes" /\ parent'[c].outcome = parent[c].outcome
        \/ /\ c \in hurt' /\ parent'[c].outcome \in {"raised", parent[c].outcome}
           /\ parent'[c].revoked \in {"no", parent[c].revoked}
    BY <1>0, <1>7 DEF Revoke, Return, Escape, Fault, Parent
  <2> HIDE <1>7
  <2> QED
    BY <1>1, <2>1, <2>2, <2>3 DEF Course, Placed, Condemning, Granting, Timed
<1>8. CASE ParentKilled(c)
  <2>1. /\ grant' = grant /\ c \in hurt' /\ hurt \subseteq hurt' /\ host' = host
        /\ parent[c].step \notin {"idle", "ended", "killed"}
    BY <1>8 DEF ParentKilled, Fault, hub
  <2>2. /\ parent'[c].step = "killed" /\ parent'[c].outcome = parent[c].outcome
        /\ parent'[c].revoked = parent[c].revoked
    BY <1>0, <1>8 DEF ParentKilled, To, Parent
  <2> QED
    BY <1>1, <2>1, <2>2 DEF Course, Placed, Condemning, Granting, Timed
<1>9. CASE Sever(c)
  <2>1. /\ grant' = grant /\ c \in hurt' /\ hurt \subseteq hurt' /\ parent[c].step = "wait"
        /\ \/ host' = host /\ host[c].report = "none"
           \/ host[c].step # "vm" /\ host'[c] = Away
    BY <1>0, <1>9 DEF Sever, Fault, hub
  <2>2. /\ parent'[c].step = "severed" /\ parent'[c].outcome = parent[c].outcome
        /\ parent'[c].revoked = parent[c].revoked /\ parent'[c].until = parent[c].until
    BY <1>0, <1>9 DEF Sever, Parent
  <2> QED
    BY <1>1, <2>1, <2>2 DEF Course, Placed, Condemning, Granting, Timed, Away
<1> QED
  BY <1>2, <1>3, <1>4, <1>5, <1>6, <1>7, <1>8, <1>9 DEF Spawn

-----------------------------------------------------------------------------
(* asg-fc-worker and the guest on their own call *)

LEMMA ScriptApart ==
  ASSUME WellTyped, NEW c \in Calls, Script(c) \/ ScriptKilled(c)
  PROVE  Apart(c)
<1>0. host \in [Calls -> Host] /\ guest \in [Calls -> Guest \cup {Off}]
  BY DEF WellTyped, TypeOK
<1>1. clock' = clock /\ parent' = parent /\ grant' = grant /\ condemned' = condemned
  BY DEF Script, Busy, Refuse, Boot, Collect, ScriptKilled, hub
<1>2. hurt' = hurt \/ hurt' = hurt \cup {c}
  BY DEF Script, Busy, Refuse, Boot, Collect, ScriptKilled, Smooth, Fault
<1>3. \A d \in Calls \ {c} : host'[d] = host[d]
  BY <1>0 DEF Script, Busy, Refuse, Boot, Collect, ScriptKilled, Report
<1>4. \A d \in Calls \ {c} : guest'[d] = guest[d]
  BY <1>0 DEF Script, Busy, Refuse, Boot, Collect, ScriptKilled
<1> QED
  BY <1>1, <1>2, <1>3, <1>4 DEF Apart

LEMMA RelayedMeans ==
  \A g : (Relayed(g) = "artifact" => ~g.tripped /\ g.submit = "ok") /\ (g.tripped => Relayed(g) = "canary")
BY DEF Relayed

LEMMA ScriptCourse ==
  ASSUME WellTyped, NEW c \in Calls, Course(c), Script(c) \/ ScriptKilled(c)
  PROVE  Course(c)'
<1>0. /\ TypeOK /\ host \in [Calls -> Host] /\ host[c] \in Host /\ clock \in Nat
      /\ guest \in [Calls -> Guest \cup {Off}]
      /\ parent[c].until \in Nat /\ host[c].until \in Nat /\ grant[c].exp \in Nat
  BY TimeTypes DEF WellTyped, TypeOK, Parent, Host, Grant
<1>1. clock' = clock /\ parent' = parent /\ grant' = grant /\ condemned' = condemned
  BY DEF Script, Busy, Refuse, Boot, Collect, ScriptKilled, hub
<1>2. CASE Busy(c) \/ Refuse(c)
  <2>1. host[c].step = "queue" /\ guest' = guest /\ hurt' = hurt
    BY <1>2 DEF Busy, Refuse, Smooth
  <2>2. host'[c].step = "none" /\ host'[c].report \in {"none", "refused"}
        /\ (host'[c].report # "none" => parent[c].step = "wait")
    BY <1>0, <1>2, Reported DEF Busy, Refuse, Reports
  <2> QED
    BY <1>1, <2>1, <2>2 DEF Course, Placed, Condemning, Granting, Timed
<1>3. CASE Boot(c)
  <2>1. /\ host[c].step = "queue" /\ ~Locked /\ hurt' = hurt
        /\ guest'[c] = Booted(Task[c]) /\ guest'[c] # Off
    BY <1>0, <1>3, BootedIsGuest DEF Boot, Smooth
  <2>2. /\ host'[c].step = "vm" /\ host'[c].until = clock + VmTimeout
        /\ host'[c].report = host[c].report
    BY <1>0, <1>3, TimeTypes DEF Boot, Host
  <2>3. Placed(c)' /\ Condemning(c)' /\ Granting(c)'
    BY <1>1, <2>1, <2>2 DEF Course, Placed, Condemning, Granting
  <2>4. Timed(c)'
    BY <1>0, <1>1, <2>1, <2>2, TimeTypes DEF Course, Timed
  <2> QED
    BY <2>3, <2>4 DEF Course
<1>4. CASE Collect(c)
  <2>1. host[c].step = "vm" /\ guest'[c] = Off /\ hurt' = hurt
    BY <1>0, <1>4 DEF Collect, Smooth
  <2>2. /\ host'[c].step = "none"
        /\ host'[c].report = IF parent[c].step = "wait" THEN Relayed(guest[c]) ELSE "none"
    BY <1>0, <1>4, Reported, RelayedTypes DEF Collect
  <2> QED
    BY <1>1, <2>1, <2>2, RelayedMeans DEF Course, Placed, Condemning, Granting, Timed
<1>5. CASE ScriptKilled(c)
  <2>1. host[c].step = "vm" /\ guest' = guest /\ c \in hurt' /\ hurt \subseteq hurt'
    BY <1>5 DEF ScriptKilled, Fault
  <2>2. /\ host'[c].step = "none" /\ host'[c].report \in {"none", "nothing"}
        /\ (host'[c].report # "none" => parent[c].step = "wait")
    BY <1>0, <1>5, Reported DEF ScriptKilled, Reports
  <2> QED
    BY <1>1, <2>1, <2>2 DEF Course, Placed, Condemning, Granting, Timed
<1> QED
  BY <1>2, <1>3, <1>4, <1>5 DEF Script

LEMMA GuestApart ==
  ASSUME WellTyped, NEW c \in Calls, GuestStep(c)
  PROVE  Apart(c)
<1>0. host \in [Calls -> Host] /\ guest \in [Calls -> Guest \cup {Off}]
  BY DEF WellTyped, TypeOK
<1>1. clock' = clock /\ parent' = parent /\ grant' = grant
  BY DEF GuestStep, Ask, OutOfTime, Tool, Submit, Exit, hub
<1>2. CASE Exit(c)
  <2>1. hurt' = hurt \/ hurt' = hurt \cup {c}
    BY <1>2 DEF Exit
  <2>2. condemned' = condemned /\ \A d \in Calls \ {c} : host'[d] = host[d] /\ guest'[d] = guest[d]
    BY <1>0, <1>2 DEF Exit, Report, hub
  <2> QED
    BY <1>1, <2>1, <2>2 DEF Apart
<1>3. CASE Ask(c) \/ OutOfTime(c) \/ Tool(c) \/ Submit(c)
  <2>1. host' = host
    BY <1>3 DEF Ask, OutOfTime, Tool, Submit
  <2>2. PICK h : /\ guest' = [guest EXCEPT ![c] = h]
                 /\ condemned' = condemned \/ condemned' = condemned \cup {c}
                 /\ hurt' = hurt \/ hurt' = hurt \cup {c}
    BY <1>3, GuestMoves
  <2> QED
    BY <1>0, <1>1, <2>1, <2>2 DEF Apart
<1> QED
  BY <1>2, <1>3 DEF GuestStep

LEMMA GuestCourse ==
  ASSUME WellTyped, NEW c \in Calls, Course(c), GuestStep(c)
  PROVE  Course(c)'
<1>0. /\ TypeOK /\ host \in [Calls -> Host] /\ host[c] \in Host
      /\ guest \in [Calls -> Guest \cup {Off}]
  BY DEF WellTyped, TypeOK
<1>1. clock' = clock /\ parent' = parent /\ grant' = grant
  BY DEF GuestStep, Ask, OutOfTime, Tool, Submit, Exit, hub
<1>2. CASE Exit(c)
  <2>1. /\ guest[c] # Off /\ guest'[c] = Off /\ condemned' = condemned
        /\ (host[c].step = "vm" => guest[c].step # "done") /\ hurt \subseteq hurt'
        /\ (guest[c].step # "done" => c \in hurt')
    BY <1>0, <1>2 DEF Exit, hub
  <2>2. CASE host[c].step # "vm"
    <3>1. host' = host
      BY <1>2, <2>2 DEF Exit
    <3> QED
      BY <1>1, <2>1, <2>2, <3>1 DEF Course, Placed, Condemning, Granting, Timed
  <2>3. CASE host[c].step = "vm"
    <3>1. /\ host'[c].step = "none"
          /\ host'[c].report = IF parent[c].step = "wait" THEN Relayed(guest[c]) ELSE "none"
      BY <1>0, <1>2, <2>3, Reported, RelayedTypes DEF Exit
    <3> QED
      BY <1>1, <2>1, <2>3, <3>1, RelayedMeans DEF Course, Placed, Condemning, Granting, Timed
  <2> QED
    BY <2>2, <2>3
<1>3. CASE Ask(c) \/ OutOfTime(c) \/ Tool(c) \/ Submit(c)
  <2>1. host' = host
    BY <1>3 DEF Ask, OutOfTime, Tool, Submit
  <2>2. guest[c] # Off /\ guest[c].step \in {"ask", "tool", "submit"}
    BY <1>3, GuestMoves
  <2>3. PICK h \in GuestOf(c) :
          /\ guest' = [guest EXCEPT ![c] = h]
          /\ guest[c].tripped => h.tripped
          /\ \/ condemned' = condemned /\ hurt' = hurt /\ (h.submit = "ok" => c \notin condemned)
             \/ condemned' = condemned \cup {c} /\ (h.tripped \/ (h.step = "done" /\ h.submit # "ok" /\ c \in hurt'))
                /\ (hurt' = hurt \/ hurt' = hurt \cup {c})
    BY <1>3, GuestMoves
  <2>4. h # Off /\ guest'[c] = h
    BY <1>0, <2>3 DEF GuestOf, Guest, Off
  <2>5. Placed(c)' /\ Timed(c)' /\ Granting(c)'
    BY <1>1, <2>1, <2>2, <2>3, <2>4 DEF Course, Placed, Granting, Timed
  <2>6. c \in condemned => guest[c].tripped
    BY <2>2 DEF Course, Condemning
  <2>7. Condemning(c)'
    BY <1>1, <2>1, <2>2, <2>3, <2>4, <2>6 DEF Course, Placed, Condemning
  <2> QED
    BY <2>5, <2>7 DEF Course
<1> QED
  BY <1>2, <1>3 DEF GuestStep

-----------------------------------------------------------------------------
(* The invariant *)

\* Only the boot of a machine occupies it, and it waits for the lock.
LEMMA OneOccupies ==
  ASSUME WellTyped, CourseInv, NEW c \in Calls, Apart(c),
         \/ Register(c) \/ Spawn(c) \/ Sever(c) \/ ParentKilled(c)
         \/ Script(c) \/ ScriptKilled(c) \/ GuestStep(c)
  PROVE  \A d, e \in Calls : Occupies(d)' /\ Occupies(e)' => d = e
<1>0. \A d \in Calls \ {c} : Occupies(d)' <=> Occupies(d)
  BY DEF Apart, Occupies
<1>1. Occupies(c)' => Occupies(c) \/ \A d \in Calls : ~Occupies(d)
  <2>0. host \in [Calls -> Host] /\ guest \in [Calls -> Guest \cup {Off}] /\ TypeOK
    BY DEF WellTyped, TypeOK
  <2>1. CASE Boot(c)
    BY <2>1 DEF Boot, Locked, Occupies
  <2>2. CASE Register(c) \/ Spawn(c) \/ Sever(c) \/ ParentKilled(c)
    <3>1. guest' = guest
      BY <2>2 DEF Register, Spawn, StartSsh, Output, SshEnded, SshTimedOut, Metadata,
                  Content, Revoke, Sever, ParentKilled
    <3>2. host'[c].step = "vm" => host[c].step = "vm"
      BY <2>0, <2>2 DEF Register, Spawn, StartSsh, Output, SshEnded, SshTimedOut, Metadata,
                        Content, Revoke,
                        Sever, ParentKilled, hub, Away
    <3> QED
      BY <3>1, <3>2 DEF Occupies
  <2>3. CASE Busy(c) \/ Refuse(c)
    BY <2>0, <2>3, Reported DEF Busy, Refuse, Reports, Occupies
  <2>4. CASE Collect(c)
    BY <2>0, <2>4, Reported, RelayedTypes DEF Collect, Occupies
  <2>5. CASE ScriptKilled(c)
    BY <2>0, <2>5, Reported DEF ScriptKilled, Reports, Occupies
  <2>6. CASE GuestStep(c)
    BY <2>6, GuestMoves DEF GuestStep, Exit, Occupies
  <2> QED
    BY <2>1, <2>2, <2>3, <2>4, <2>5, <2>6 DEF Script
<1> QED
  BY <1>0, <1>1 DEF CourseInv

LEMMA NextCourse == WellTyped /\ CourseInv /\ [Next]_vars => CourseInv'
<1> SUFFICES ASSUME WellTyped, CourseInv, [Next]_vars PROVE CourseInv'
  OBVIOUS
<1>1. ASSUME NEW c \in Calls,
             \/ Register(c) \/ Spawn(c) \/ Sever(c) \/ ParentKilled(c)
             \/ Script(c) \/ ScriptKilled(c) \/ GuestStep(c)
      PROVE  CourseInv'
  <2>1. Apart(c)
    BY <1>1, SpawnApart, ScriptApart, GuestApart
  <2>2. Course(c)'
    BY <1>1, RegisterCourse, SpawnCourse, ScriptCourse, GuestCourse DEF CourseInv
  <2>3. \A d \in Calls \ {c} : Course(d)'
    BY <2>1, CourseApart DEF CourseInv
  <2>4. \A d, e \in Calls : Occupies(d)' /\ Occupies(e)' => d = e
    BY <1>1, <2>1, OneOccupies
  <2> QED
    BY <2>2, <2>3, <2>4 DEF CourseInv
<1>2. CASE Tick
  <2>0. /\ clock' = clock + 1 /\ clock \in Nat
        /\ UNCHANGED <<grant, condemned, artifact, parent, host, guest, faults, hurt>>
    BY <1>2, TimeTypes DEF Tick, hub, Smooth, WellTyped, TypeOK
  <2>1. ASSUME NEW c \in Calls PROVE Course(c)'
    <3>1. Course(c) /\ parent[c].until \in Nat /\ host[c].until \in Nat
      BY DEF CourseInv, WellTyped, TypeOK, Parent, Host
    <3>2. parent[c].step # "start"
      BY <1>2 DEF Tick
    <3>3. parent[c].step \in {"wait", "severed"} => clock < parent[c].until
      BY <1>2 DEF Tick, Deadlines
    <3>4. host[c].step \in {"queue", "vm"} => clock < host[c].until
      BY <1>2 DEF Tick, Deadlines
    <3>5. Timed(c)'
      BY <2>0, <3>1, <3>2, <3>3, <3>4 DEF Course, Timed
    <3> QED
      BY <2>0, <3>1, <3>5 DEF Course, Placed, Condemning, Granting
  <2> QED
    BY <2>0, <2>1 DEF CourseInv, Occupies
<1>3. CASE UNCHANGED vars
  BY <1>3 DEF vars, CourseInv, Course, Placed, Timed, Condemning, Granting, Occupies
<1> QED
  BY <1>1, <1>2, <1>3 DEF Next

LEMMA InitCourse == Init => CourseInv
<1> SUFFICES ASSUME Init PROVE CourseInv
  OBVIOUS
<1>1. ASSUME NEW c \in Calls PROVE Course(c) /\ ~Occupies(c)
  <2>1. /\ parent[c].step = "idle" /\ parent[c].outcome = "none" /\ parent[c].revoked = "unknown"
        /\ host[c].step = "none" /\ host[c].report = "none" /\ guest[c] = Off /\ c \notin condemned
        /\ grant[c] = Denying
    BY DEF Init, Away
  <2> QED
    BY <2>1, GrantTypes DEF Course, Placed, Timed, Condemning, Granting, Occupies
<1> QED
  BY <1>1 DEF CourseInv

LEMMA CourseHolds == Spec => []CourseInv
BY InitCourse, NextCourse, TypesHold, PTL DEF Spec

-----------------------------------------------------------------------------
(* Theorems *)

\* A call that has ended leaves no identity in force, not even while its
\* machine still runs, unless a fault touched it (an answer lost, the
\* connection broken, the revocation refused, a process killed); what a result
\* says of its revocation is right anyway.
THEOREM EndedCallsAreDead == Spec => []EndedIsDead
<1>1. CourseInv => EndedIsDead
  BY DEF CourseInv, Course, Granting, EndedIsDead, Ended, Live
<1> QED
  BY <1>1, CourseHolds, PTL

\* No run that tripped a canary returns an answer; its result says why unless
\* something was lost on the way.
THEOREM TripsEndTheirRun == Spec => []TripEndsTheRun
<1>1. WellTyped /\ CourseInv => TripEndsTheRun
  <2> SUFFICES ASSUME WellTyped, CourseInv, NEW c \in condemned
               PROVE  /\ parent[c].outcome \notin {"ok", "withheld"}
                      /\ Ended(c) /\ c \notin hurt => parent[c].outcome \in {"canary"}
    BY DEF TripEndsTheRun
  <2>1. c \in Calls /\ Course(c)
    BY DEF WellTyped, TypeOK, CourseInv
  <2> QED
    BY <2>1 DEF Course, Placed, Condemning, Ended
<1> QED
  BY <1>1, CourseHolds, TypesHold, PTL

\* While a script runs its machine, the identity of the guest has not expired;
\* and if no fault touched the call, its parent has not given up and the
\* identity is in force.
THEOREM TheTimeoutsNest == Spec => []TimeoutsNest
<1>1. WellTyped /\ CourseInv => TimeoutsNest
  <2> SUFFICES ASSUME WellTyped, CourseInv, NEW c \in Calls, host[c].step = "vm"
               PROVE  /\ grant[c].worker => clock <= grant[c].exp
                      /\ c \notin hurt => parent[c].step = "wait" /\ grant[c].worker
    BY DEF TimeoutsNest
  <2>1. clock \in Nat /\ host[c].until \in Nat /\ grant[c].exp \in Nat
    BY TimeTypes DEF WellTyped, TypeOK, Host, Grant
  <2>2. grant[c].worker => clock <= grant[c].exp
    BY <2>1 DEF CourseInv, Course, Timed
  <2>3. c \notin hurt => parent[c].step = "wait" /\ grant[c].worker
    BY DEF CourseInv, Course, Placed, Granting
  <2> QED
    BY <2>2, <2>3
<1> QED
  BY <1>1, CourseHolds, TypesHold, PTL

\* There is one virtual machine at a time, whichever scripts are killed.
THEOREM MachinesAreAlone == Spec => []OneMachine
<1>1. CourseInv => OneMachine
  <2> SUFFICES ASSUME CourseInv PROVE Cardinality({c \in Calls : guest[c] # Off}) <= 1
    BY DEF OneMachine
  <2> DEFINE on == {c \in Calls : guest[c] # Off}
  <2>1. \A c, d \in on : c = d
    BY DEF CourseInv, Occupies
  <2>2. CASE on = {}
    BY <2>2, FS_EmptySet
  <2>3. CASE on # {}
    <3>1. PICK c : on = {c}
      BY <2>1, <2>3
    <3> QED
      BY <3>1, FS_Singleton
  <2> QED
    BY <2>2, <2>3
<1> QED
  BY <1>1, CourseHolds, PTL

-----------------------------------------------------------------------------
(* What the worker asks of the gateway, in the terms of RunScopes *)

\* The parent has registered the run, or has revoked what it registered.
Asked(c) == grant[c].worker \/ parent[c].revoked = "yes" \/ c \in hurt

Registry == [c \in Calls |-> IF Asked(c) THEN {grant[c]} ELSE {}]

Scopes == INSTANCE RunScopes WITH Runs <- Calls, Grants <- Grant, grant <- Registry

\* A run that is under way is registered; nothing touches one that never was.
Held(c) ==
  /\ parent[c].step = "idle" => c \notin hurt
  /\ parent[c].step \in {"start", "wait", "severed", "metadata", "content", "revoke", "killed"} =>
       grant[c].worker
  /\ host[c].step # "none" \/ guest[c] # Off => Asked(c)

HeldInv == \A c \in Calls : Held(c)

\* Only the parent's own registration and revocation change what is held for
\* its run.
OnlyByParent(c) ==
  \/ Registry'[c] = Registry[c]
  \/ (Register(c) \/ Revoke(c)) /\ Registry'[c] = {grant'[c]}

LEMMA EntryOf ==
  ASSUME NEW c \in Calls
  PROVE  /\ Registry[c] = IF Asked(c) THEN {grant[c]} ELSE {}
         /\ Registry'[c] = IF Asked(c)' THEN {grant'[c]} ELSE {}
BY DEF Registry

LEMMA ApartHeld ==
  ASSUME NEW c \in Calls, Apart(c), NEW d \in Calls \ {c}
  PROVE  (Held(d) => Held(d)') /\ Registry'[d] = Registry[d]
BY EntryOf DEF Apart, Held, Asked

LEMMA RegisterHeld ==
  ASSUME WellTyped, NEW c \in Calls, Course(c), Held(c), Register(c)
  PROVE  Held(c)' /\ OnlyByParent(c)
<1>0. parent[c] \in Parent /\ parent \in [Calls -> Parent] /\ grant \in [Calls -> Grant]
  BY DEF WellTyped, TypeOK
<1>1. /\ parent[c].step = "idle" /\ host' = host /\ guest' = guest /\ hurt \subseteq hurt'
      /\ ~grant[c].worker /\ parent[c].revoked = "unknown" /\ c \notin hurt
  BY DEF Register, Smooth, Fault, Course, Granting, Held
<1>2. parent'[c].revoked = parent[c].revoked
  BY <1>0 DEF Register, To, Escape, Parent
<1>3. \/ /\ grant'[c].worker /\ parent'[c].step \in {"start", "ended"}
      \/ /\ grant' = grant /\ parent'[c].step = "ended" /\ hurt' = hurt
  BY <1>0 DEF Register, To, Escape, Smooth, Parent, Allowing
<1>4. ~Asked(c) /\ host[c].step = "none" /\ guest[c] = Off
  BY <1>1 DEF Asked, Held
<1>5. Held(c)'
  BY <1>1, <1>3, <1>4 DEF Held, Asked
<1>6. OnlyByParent(c)
  BY <1>1, <1>2, <1>3, <1>4, EntryOf DEF OnlyByParent, Asked
<1> QED
  BY <1>5, <1>6

LEMMA SpawnHeld ==
  ASSUME WellTyped, NEW c \in Calls, Course(c), Held(c), Spawn(c) \/ Sever(c) \/ ParentKilled(c)
  PROVE  Held(c)' /\ OnlyByParent(c)
<1>0. parent[c] \in Parent /\ parent \in [Calls -> Parent] /\ host \in [Calls -> Host]
      /\ grant \in [Calls -> Grant]
  BY DEF WellTyped, TypeOK
<1>1. guest' = guest /\ hurt \subseteq hurt'
  BY DEF Spawn, StartSsh, Output, SshEnded, SshTimedOut, Metadata, Content, Revoke, Sever,
         ParentKilled,
         Smooth, Fault
<1>2. parent[c].step \in {"start", "wait", "severed", "metadata", "content", "revoke"}
  BY <1>0 DEF Spawn, StartSsh, Output, SshEnded, SshTimedOut, Metadata, Content, Revoke,
              Sever, ParentKilled, Parent
<1>3. grant[c].worker /\ Asked(c)
  BY <1>2 DEF Held, Asked
<1>4. CASE Revoke(c)
  <2>1. parent'[c].step = "ended"
    BY <1>0, <1>4 DEF Revoke, Return, Escape, Parent
  <2>2. grant' = grant \/ parent'[c].revoked = "yes" \/ c \in hurt'
    BY <1>0, <1>4 DEF Revoke, Return, Fault, Parent
  <2>3. Asked(c)'
    BY <1>3, <2>2 DEF Asked
  <2>4. OnlyByParent(c)
    BY <1>4, <2>3, EntryOf DEF OnlyByParent
  <2> QED
    BY <2>1, <2>3, <2>4 DEF Held
<1>5. CASE ~Revoke(c)
  <2>1. grant' = grant
    BY <1>5 DEF Spawn, StartSsh, Output, SshEnded, SshTimedOut, Metadata, Content,
                Sever, ParentKilled, hub
  <2>2. parent'[c].step # "idle"
    BY <1>0, <1>5 DEF Spawn, StartSsh, Output, SshEnded, SshTimedOut, Metadata, Content,
                      Sever, ParentKilled, To, Raise, Parent
  <2>3. Asked(c)'
    BY <1>3, <2>1 DEF Asked
  <2>4. OnlyByParent(c)
    BY <1>3, <2>1, <2>3, EntryOf DEF OnlyByParent
  <2> QED
    BY <1>3, <2>1, <2>2, <2>3, <2>4 DEF Held
<1> QED
  BY <1>4, <1>5

LEMMA OthersHeld ==
  ASSUME WellTyped, NEW c \in Calls, Course(c), Held(c),
         Script(c) \/ ScriptKilled(c) \/ GuestStep(c)
  PROVE  Held(c)' /\ OnlyByParent(c)
<1>0. TypeOK /\ host \in [Calls -> Host] /\ guest \in [Calls -> Guest \cup {Off}]
  BY DEF WellTyped, TypeOK
<1>1. grant' = grant /\ parent' = parent
  BY DEF Script, Busy, Refuse, Boot, Collect, ScriptKilled, hub,
         GuestStep, Ask, OutOfTime, Tool, Submit, Exit
<1>2. hurt' = hurt \/ hurt' = hurt \cup {c}
  <2>1. CASE Script(c) \/ ScriptKilled(c)
    BY <2>1 DEF Script, Busy, Refuse, Boot, Collect, ScriptKilled, Smooth, Fault
  <2>2. CASE GuestStep(c)
    BY <2>2, GuestMoves DEF GuestStep, Exit
  <2> QED
    BY <2>1, <2>2
<1>3. Asked(c)
  <2>1. CASE Script(c) \/ ScriptKilled(c)
    BY <2>1 DEF Script, Busy, Refuse, Boot, Collect, ScriptKilled, Held
  <2>2. CASE GuestStep(c)
    BY <2>2, GuestMoves DEF GuestStep, Exit, Held
  <2> QED
    BY <2>1, <2>2
<1>4. Asked(c)' /\ Registry'[c] = Registry[c]
  BY <1>1, <1>2, <1>3, EntryOf DEF Asked
<1>5. parent[c].step # "idle"
  BY <1>3 DEF Asked, Held, Course, Granting
<1> QED
  BY <1>1, <1>2, <1>4, <1>5 DEF Held, OnlyByParent

LEMMA CallHeld ==
  ASSUME WellTyped, CourseInv, HeldInv, NEW c \in Calls,
         \/ Register(c) \/ Spawn(c) \/ Sever(c) \/ ParentKilled(c)
         \/ Script(c) \/ ScriptKilled(c) \/ GuestStep(c)
  PROVE  HeldInv' /\ Apart(c) /\ \A d \in Calls : OnlyByParent(d)
<1>1. Apart(c)
  BY SpawnApart, ScriptApart, GuestApart
<1>2. Held(c)' /\ OnlyByParent(c)
  BY RegisterHeld, SpawnHeld, OthersHeld DEF CourseInv, HeldInv
<1>3. \A d \in Calls \ {c} : Held(d)' /\ OnlyByParent(d)
  BY <1>1, ApartHeld DEF HeldInv, OnlyByParent
<1> QED
  BY <1>1, <1>2, <1>3 DEF HeldInv

LEMMA QuietHeld ==
  ASSUME HeldInv, Tick \/ UNCHANGED vars
  PROVE  HeldInv' /\ Registry' = Registry
<1>1. UNCHANGED <<grant, parent, host, guest, hurt>>
  BY DEF Tick, vars, hub, Smooth
<1> QED
  BY <1>1 DEF HeldInv, Held, Registry, Asked

LEMMA HeldHolds == Spec => []HeldInv
<1>1. Init => HeldInv
  <2> SUFFICES ASSUME Init, NEW c \in Calls PROVE Held(c)
    BY DEF HeldInv
  <2> QED
    BY DEF Init, Held, Away
<1>2. WellTyped /\ CourseInv /\ HeldInv /\ [Next]_vars => HeldInv'
  BY CallHeld, QuietHeld DEF Next
<1> QED
  BY <1>1, <1>2, TypesHold, CourseHolds, PTL DEF Spec

\* Nothing but spawn_worker's registration and revocation of a run changes what
\* the gateway holds for it: no step of the script, of the guest or of another
\* call does.
THEOREM OnlyParentsRegister == Spec => [][\A c \in Calls : OnlyByParent(c)]_vars
<1>1. WellTyped /\ CourseInv /\ HeldInv /\ [Next]_vars => [\A c \in Calls : OnlyByParent(c)]_vars
  BY CallHeld, QuietHeld DEF Next, OnlyByParent
<1> QED
  BY <1>1, TypesHold, CourseHolds, HeldHolds, PTL DEF Spec

\* The worker's use of the gateway is one the run store's abstract specification
\* allows: every registration and revocation is a Register of RunScopes.
THEOREM WorkersUseScopes == Spec => Scopes!Spec
<1>1. Init => Scopes!Init
  <2> SUFFICES ASSUME Init PROVE Scopes!Init
    OBVIOUS
  <2>1. \A c \in Calls : ~Asked(c)
    BY GrantTypes DEF Init, Asked
  <2> QED
    BY <2>1 DEF Init, Scopes!Init, Registry
<1>2. WellTyped /\ CourseInv /\ HeldInv /\ [Next]_vars => [Scopes!Next]_(Scopes!vars)
  <2> SUFFICES ASSUME WellTyped, CourseInv, HeldInv, [Next]_vars
               PROVE  [Scopes!Next]_(Scopes!vars)
    OBVIOUS
  <2>1. ASSUME NEW c \in Calls,
               \/ Register(c) \/ Spawn(c) \/ Sever(c) \/ ParentKilled(c)
               \/ Script(c) \/ ScriptKilled(c) \/ GuestStep(c)
        PROVE  [Scopes!Next]_(Scopes!vars)
    <3>1. Apart(c) /\ OnlyByParent(c)
      BY <2>1, CallHeld
    <3>2. clock' = clock /\ \A d \in Calls \ {c} : Registry'[d] = Registry[d]
      BY <3>1, ApartHeld DEF Apart
    <3>3. CASE Registry'[c] = Registry[c]
      <4>1. Registry' = Registry
        BY <3>2, <3>3 DEF Registry
      <4> QED
        BY <3>2, <4>1 DEF Scopes!vars
    <3>4. CASE Registry'[c] = {grant'[c]}
      <4>1. Registry' = [Registry EXCEPT ![c] = {grant'[c]}]
        BY <3>2, <3>4 DEF Registry
      <4>2. grant'[c] \in Grant
        BY NextTypes DEF WellTyped, TypeOK
      <4>3. Scopes!Register(c)
        BY <3>2, <3>4, <4>1, <4>2 DEF Scopes!Register
      <4> QED
        BY <4>3 DEF Scopes!Next
    <3> QED
      BY <3>1, <3>3, <3>4 DEF OnlyByParent
  <2>2. CASE Tick
    BY <2>2, QuietHeld DEF Tick, Scopes!Next, Scopes!Tick
  <2>3. CASE UNCHANGED vars
    BY <2>3, QuietHeld DEF vars, Scopes!vars
  <2> QED
    BY <2>1, <2>2, <2>3 DEF Next
<1> QED
  BY <1>1, <1>2, TypesHold, CourseHolds, HeldHolds, PTL DEF Spec, Scopes!Spec

-----------------------------------------------------------------------------
(* Nothing goes on for ever *)

\* What a guest may still do: each turn of its loop spends a call, drops
\* material without one, or leaves the loop.
Patience(g) ==
  3 * (g.task.llm - g.calls) + (8 - g.drops) +
  CASE g.step = "tool" -> 3
    [] g.step = "ask" -> 2
    [] g.step = "submit" -> 1
    [] OTHER -> 0

DropsInv == \A c \in Calls : guest[c] # Off => guest[c].drops <= 8

LEMMA AgainShortens ==
  ASSUME NEW h \in Guest, h.step = "done" => h.calls < h.task.llm
  PROVE  Patience(Again(h)) <= Patience(h) /\ Again(h).drops = h.drops
<1>0. h.calls \in Nat /\ h.drops \in Nat /\ h.task.llm \in Nat
  BY DEF Guest, Tasks
<1>1. CASE h.calls < h.task.llm
  BY <1>0, <1>1 DEF Again, Patience
<1>2. CASE ~(h.calls < h.task.llm)
  <2>1. /\ Again(h).calls = h.calls /\ Again(h).drops = h.drops /\ Again(h).task = h.task
        /\ Again(h).step = "submit"
    BY <1>2 DEF Again, Guest
  <2>2. h.step \in {"ask", "tool", "submit"}
    BY <1>2 DEF Guest
  <2> QED
    BY <1>0, <2>1, <2>2 DEF Patience
<1> QED
  BY <1>1, <1>2

LEMMA TurnShortens ==
  ASSUME NEW c \in Calls, NEW g \in GuestOf(c), g.step = "ask", g.drops <= 8, NEW answer,
         NEW h, h = AfterAnswer(g, answer)
  PROVE  h.drops <= 8 /\ Patience(h) < Patience(g) /\ (h.step = "done" => answer = "lost")
<1>0. /\ g \in Guest /\ g.calls \in Nat /\ g.drops \in Nat /\ g.task.llm \in Nat
      /\ g.step = "ask"
  BY TaskTypes DEF GuestOf, Guest
<1>1. CASE TurnLost(g, answer, h)
  <2>1. /\ h.calls = g.calls /\ h.drops = g.drops /\ h.task = g.task /\ h.step = "done"
    BY <1>0, <1>1 DEF TurnLost, Guest
  <2> QED
    BY <1>0, <1>1, <2>1 DEF Patience, TurnLost
<1>2. CASE TurnDrops(g, answer, h)
  <2>1. g.drops < 8
    BY <1>0, <1>2 DEF TurnDrops, CanDrop
  <2>2. /\ h.calls = g.calls /\ h.drops = g.drops + 1 /\ h.task = g.task /\ h.step = g.step
    BY <1>0, <1>2 DEF TurnDrops, Dropped, Guest
  <2> QED
    BY <1>0, <2>1, <2>2 DEF Patience
<1>3. CASE \/ TurnRewrites(g, answer, h) \/ TurnWithheld(g, answer, h) \/ TurnTrips(g, answer, h)
           \/ TurnCondenses(g, answer, h) \/ TurnActs(g, answer, h) \/ TurnSubmits(g, answer, h)
  <2>1. /\ h.calls = g.calls + 1 /\ h.drops = g.drops /\ h.task = g.task
        /\ h.step \in {"ask", "tool", "submit"}
    BY <1>0, <1>3 DEF TurnRewrites, TurnWithheld, TurnTrips, TurnCondenses, TurnActs,
                      TurnSubmits, Guest
  <2> QED
    BY <1>0, <2>1 DEF Patience
<1> QED
  BY <1>1, <1>2, <1>3, TurnCases

LEMMA AskShortens ==
  ASSUME NEW c \in Calls, NEW g \in GuestOf(c), g.step = "ask", Careful(g), g.drops <= 8,
         NEW answer, NEW h, h = Again(AfterAnswer(g, answer))
  PROVE  h.drops <= 8 /\ Patience(h) < Patience(g)
<1> DEFINE k == AfterAnswer(g, answer)
<1>1. /\ k \in Guest /\ k.task = Task[c] /\ k.submit = "none"
      /\ answer = "lost" => k.step = "done" /\ k.calls < Task[c].llm
  BY TurnGuest
<1>2. k.drops <= 8 /\ Patience(k) < Patience(g) /\ (k.step = "done" => answer = "lost")
  BY TurnShortens
<1> HIDE DEF k
<1>3. Patience(Again(k)) <= Patience(k) /\ Again(k).drops = k.drops
  BY <1>1, <1>2, AgainShortens
<1>4. /\ k.calls \in Nat /\ k.drops \in Nat /\ k.task.llm \in Nat
      /\ g.calls \in Nat /\ g.drops \in Nat /\ g.task.llm \in Nat
      /\ Again(k).calls \in Nat /\ Again(k).drops \in Nat /\ Again(k).task.llm \in Nat
  BY <1>1 DEF GuestOf, Guest, Tasks, Again
<1>5. Patience(k) \in Int /\ Patience(g) \in Int /\ Patience(Again(k)) \in Int
  BY <1>4 DEF Patience
<1>6. h = Again(k)
  BY DEF k
<1> QED
  BY <1>2, <1>3, <1>5, <1>6

LEMMA ToolShortens ==
  ASSUME NEW c \in Calls, NEW g \in GuestOf(c), g.step = "tool", g.drops <= 8,
         NEW answer, NEW h, h = AfterTool(g, answer)
  PROVE  h.drops <= 8 /\ Patience(h) < Patience(g)
<1>0. g \in Guest /\ g.calls \in Nat /\ g.drops \in Nat /\ g.task.llm \in Nat
  BY DEF GuestOf, Guest, Tasks
<1>1. /\ h.calls = g.calls /\ h.drops = g.drops /\ h.task = g.task
      /\ h.step \in {"ask", "submit", "done"}
  BY <1>0 DEF AfterTool, Again, Guest
<1> QED
  BY <1>0, <1>1 DEF Patience

\* Every step of a guest in its program shortens what it may still do.
LEMMA GuestShortens ==
  ASSUME WellTyped, DropsInv, NEW c \in Calls, Ask(c) \/ OutOfTime(c) \/ Tool(c) \/ Submit(c)
  PROVE  /\ guest[c] # Off /\ guest'[c].drops <= 8
         /\ Patience(guest'[c]) < Patience(guest[c])
         /\ \A d \in Calls \ {c} : guest'[d] = guest[d]
<1> DEFINE g == guest[c]
<1>0. g # Off /\ g \in GuestOf(c) /\ Careful(g)
  BY GuestMoves
<1>1. g \in Guest /\ g.calls \in Nat /\ g.drops \in Nat /\ g.task.llm \in Nat /\ g.drops <= 8
  BY <1>0 DEF GuestOf, Guest, Tasks, DropsInv
<1>2. guest \in [Calls -> Guest \cup {Off}]
  BY DEF WellTyped, TypeOK
<1>3. CASE Ask(c)
  <2>1. PICK answer \in Answers : guest' = [guest EXCEPT ![c] = Again(AfterAnswer(g, answer))]
    BY <1>3 DEF Ask
  <2>2. g.step = "ask"
    BY <1>3 DEF Ask
  <2>3. guest'[c] = Again(AfterAnswer(g, answer)) /\ \A d \in Calls \ {c} : guest'[d] = guest[d]
    BY <1>2, <2>1
  <2> QED
    BY <1>0, <1>1, <2>2, <2>3, AskShortens
<1>4. CASE Tool(c)
  <2>1. PICK answer : guest' = [guest EXCEPT ![c] = AfterTool(g, answer)]
    BY <1>4 DEF Tool
  <2>2. g.step = "tool"
    BY <1>4 DEF Tool
  <2>3. guest'[c] = AfterTool(g, answer) /\ \A d \in Calls \ {c} : guest'[d] = guest[d]
    BY <1>2, <2>1
  <2> QED
    BY <1>0, <1>1, <2>2, <2>3, ToolShortens
<1>5. CASE OutOfTime(c)
  <2>1. /\ guest'[c] = [g EXCEPT !.step = "submit"] /\ g.step = "ask"
        /\ \A d \in Calls \ {c} : guest'[d] = guest[d]
    BY <1>2, <1>5 DEF OutOfTime, TimeUp, Stopped
  <2>2. /\ guest'[c].calls = g.calls /\ guest'[c].drops = g.drops /\ guest'[c].task = g.task
        /\ guest'[c].step = "submit"
    BY <1>1, <2>1 DEF Guest
  <2> QED
    BY <1>0, <1>1, <2>1, <2>2 DEF Patience
<1>6. CASE Submit(c)
  <2>1. PICK answer : guest' = [guest EXCEPT ![c] = AfterSubmit(g, answer)]
    BY <1>6 DEF Submit
  <2>2. g.step = "submit"
    BY <1>6 DEF Submit
  <2>3. guest'[c] = AfterSubmit(g, answer) /\ \A d \in Calls \ {c} : guest'[d] = guest[d]
    BY <1>2, <2>1
  <2>4. /\ guest'[c].calls = g.calls /\ guest'[c].drops = g.drops /\ guest'[c].task = g.task
        /\ guest'[c].step = "done"
    BY <1>1, <2>3 DEF AfterSubmit, Guest
  <2> QED
    BY <1>0, <1>1, <2>2, <2>3, <2>4 DEF Patience
<1> QED
  BY <1>3, <1>4, <1>5, <1>6

\* A step that leaves a guest alone, ends it or boots it.
LEMMA GuestStays ==
  ASSUME WellTyped, NEW c \in Calls,
         \/ Register(c) \/ Spawn(c) \/ Sever(c) \/ ParentKilled(c)
         \/ Script(c) \/ ScriptKilled(c) \/ Exit(c)
  PROVE  \A d \in Calls : \/ guest'[d] = guest[d]
                          \/ guest'[d] = Off
                          \/ guest[d] = Off /\ guest'[d].drops = 0
<1>0. guest \in [Calls -> Guest \cup {Off}]
  BY DEF WellTyped, TypeOK
<1>1. CASE Boot(c)
  <2>1. guest[c] = Off /\ guest' = [guest EXCEPT ![c] = Booted(Task[c])]
    BY <1>1 DEF Boot, Locked
  <2>2. Booted(Task[c]).drops = 0
    BY DEF Booted
  <2> QED
    BY <1>0, <2>1, <2>2
<1>2. CASE Collect(c) \/ Exit(c)
  BY <1>0, <1>2 DEF Collect, Exit
<1>3. CASE ~(Boot(c) \/ Collect(c) \/ Exit(c))
  <2>1. guest' = guest
    BY <1>3 DEF Register, Spawn, StartSsh, Output, SshEnded, SshTimedOut, Metadata, Content,
                Revoke,
                Sever, ParentKilled, Script, Busy, Refuse, ScriptKilled
  <2> QED
    BY <2>1
<1> QED
  BY <1>1, <1>2, <1>3

\* What a step leaves to a guest that was on and stays on.
Shortened(c) ==
  guest[c] # Off /\ guest'[c] # Off /\ guest'[c] # guest[c] =>
    Patience(guest'[c]) < Patience(guest[c])

LEMMA NextShortens ==
  ASSUME WellTyped, DropsInv, [Next]_vars
  PROVE  DropsInv' /\ \A c \in Calls : Shortened(c)
<1>1. ASSUME NEW c \in Calls,
             \/ Register(c) \/ Spawn(c) \/ Sever(c) \/ ParentKilled(c)
             \/ Script(c) \/ ScriptKilled(c) \/ Exit(c)
      PROVE  DropsInv' /\ \A d \in Calls : Shortened(d)
  BY <1>1, GuestStays DEF DropsInv, Shortened
<1>2. ASSUME NEW c \in Calls, Ask(c) \/ OutOfTime(c) \/ Tool(c) \/ Submit(c)
      PROVE  DropsInv' /\ \A d \in Calls : Shortened(d)
  BY <1>2, GuestShortens DEF DropsInv, Shortened
<1>3. CASE Tick \/ UNCHANGED vars
  BY <1>3 DEF Tick, vars, DropsInv, Shortened
<1> QED
  BY <1>1, <1>2, <1>3 DEF Next, GuestStep

LEMMA DropsHold == Spec => []DropsInv
<1>1. Init => DropsInv
  BY DEF Init, DropsInv
<1> QED
  BY <1>1, NextShortens, TypesHold, PTL DEF Spec

LEMMA PatienceBounds ==
  ASSUME WellTyped, DropsInv, NEW c \in Calls, guest[c] # Off
  PROVE  Patience(guest[c]) \in 0..(3 * Task[c].llm + 11)
<1>1. /\ guest[c].task = Task[c] /\ guest[c].calls \in Nat /\ guest[c].calls <= Task[c].llm
      /\ guest[c].drops \in Nat /\ guest[c].drops <= 8 /\ Task[c].llm \in Nat
  BY TaskTypes DEF WellTyped, Guests, GuestOf, Guest, DropsInv
<1> QED
  BY <1>1 DEF Patience

\* The guest's loop ends whatever it is answered: every step it takes shortens
\* what it may still do, which is a number that its budget of calls bounds.  A
\* turn that costs no call, because a guard withheld the request, drops
\* material, which it does eight times at most.
THEOREM GuestLoopsEnd ==
  Spec => /\ [](\A c \in Calls : guest[c] # Off =>
                 Patience(guest[c]) \in 0..(3 * Task[c].llm + 11))
          /\ [][\A c \in Calls : Shortened(c)]_vars
<1>1. WellTyped /\ DropsInv =>
        \A c \in Calls : guest[c] # Off => Patience(guest[c]) \in 0..(3 * Task[c].llm + 11)
  BY PatienceBounds
<1>2. WellTyped /\ DropsInv /\ [Next]_vars => [\A c \in Calls : Shortened(c)]_vars
  BY NextShortens
<1> QED
  BY <1>1, <1>2, TypesHold, DropsHold, PTL DEF Spec

-----------------------------------------------------------------------------
(* Every call goes forward *)

ParentAhead(step) ==
  CASE step = "idle" -> 8
    [] step = "start" -> 7
    [] step = "wait" -> 4
    [] step \in {"severed", "metadata"} -> 3
    [] step = "content" -> 2
    [] step = "revoke" -> 1
    [] OTHER -> 0

ScriptAhead(step) == CASE step = "queue" -> 2 [] step = "vm" -> 1 [] OTHER -> 0

\* The stages that a call and its script still have before them, at most.
Ahead(c) == ParentAhead(parent[c].step) + ScriptAhead(host[c].step)

LEMMA AheadTypes ==
  ASSUME NEW step
  PROVE  ParentAhead(step) \in 0..8 /\ ScriptAhead(step) \in 0..2
BY DEF ParentAhead, ScriptAhead

\* A step of a call, or of its script, brings it forward; nothing brings it back.
Forward(c) ==
  /\ \/ Ahead(c)' < Ahead(c)
     \/ parent'[c].step = parent[c].step /\ host'[c].step = host[c].step
  /\ Register(c) \/ Spawn(c) \/ Script(c) => Ahead(c)' < Ahead(c)

LEMMA ParentForward ==
  ASSUME WellTyped, NEW c \in Calls, Register(c) \/ Spawn(c) \/ Sever(c) \/ ParentKilled(c)
  PROVE  Ahead(c)' < Ahead(c)
<1>0. /\ parent[c] \in Parent /\ parent \in [Calls -> Parent]
      /\ host[c] \in Host /\ host \in [Calls -> Host]
  BY DEF WellTyped, TypeOK
<1>1. CASE StartSsh(c)
  <2>1. parent[c].step = "start"
    BY <1>1 DEF StartSsh
  <2>2. \/ parent'[c].step = "wait" /\ host'[c].step = "queue"
        \/ parent'[c].step = "revoke" /\ host' = host
    BY <1>0, <1>1 DEF StartSsh, Raise, Parent
  <2>3. ScriptAhead(host[c].step) \in 0..2
    BY AheadTypes
  <2>4. ParentAhead(parent[c].step) = 7 /\ ParentAhead("wait") = 4 /\ ParentAhead("revoke") = 1
    BY <2>1 DEF ParentAhead
  <2>5. ScriptAhead("queue") = 2
    BY DEF ScriptAhead
  <2> QED
    BY <2>2, <2>3, <2>4, <2>5 DEF Ahead
<1>2. CASE \/ Register(c) \/ Output(c) \/ SshEnded(c) \/ SshTimedOut(c) \/ Metadata(c)
           \/ Content(c) \/ Revoke(c) \/ Sever(c) \/ ParentKilled(c)
  <2>1. host'[c].step = "none" \/ host' = host
    BY <1>0, <1>2 DEF Register, Output, SshEnded, SshTimedOut, Metadata, Content, Revoke,
                      Sever, ParentKilled, Away
  <2>2. ScriptAhead(host'[c].step) <= ScriptAhead(host[c].step)
    BY <2>1, AheadTypes DEF ScriptAhead
  <2>3. \/ parent[c].step = "idle" /\ parent'[c].step \in {"start", "ended"}
        \/ parent[c].step = "wait" /\ parent'[c].step \in {"severed", "metadata", "revoke"}
        \/ parent[c].step = "severed" /\ parent'[c].step = "revoke"
        \/ parent[c].step = "metadata" /\ parent'[c].step \in {"content", "revoke"}
        \/ parent[c].step = "content" /\ parent'[c].step = "revoke"
        \/ parent[c].step = "revoke" /\ parent'[c].step = "ended"
        \/ parent[c].step \notin {"idle", "ended", "killed"} /\ parent'[c].step = "killed"
    <3>1. CASE Register(c)
      BY <1>0, <3>1 DEF Register, To, Escape, Parent
    <3>2. CASE Output(c)
      BY <1>0, <3>2 DEF Output, To, Raise, Parent
    <3>3. CASE SshEnded(c) \/ SshTimedOut(c)
      BY <1>0, <3>3 DEF SshEnded, SshTimedOut, Raise, Parent
    <3>4. CASE Metadata(c)
      BY <1>0, <3>4 DEF Metadata, To, Raise, Parent
    <3>5. CASE Content(c)
      BY <1>0, <3>5 DEF Content, Raise, Parent
    <3>6. CASE Revoke(c)
      BY <1>0, <3>6 DEF Revoke, Return, Escape, Parent
    <3>7. CASE ParentKilled(c)
      BY <1>0, <3>7 DEF ParentKilled, To, Parent
    <3>8. CASE Sever(c)
      BY <1>0, <3>8 DEF Sever, Parent
    <3> QED
      BY <1>2, <3>1, <3>2, <3>3, <3>4, <3>5, <3>6, <3>7, <3>8
  <2>4. ParentAhead(parent'[c].step) < ParentAhead(parent[c].step)
    BY <1>0, <2>3 DEF ParentAhead, Parent
  <2>5. /\ ParentAhead(parent'[c].step) \in Int /\ ParentAhead(parent[c].step) \in Int
        /\ ScriptAhead(host'[c].step) \in Int /\ ScriptAhead(host[c].step) \in Int
    BY AheadTypes
  <2> QED
    BY <2>2, <2>4, <2>5 DEF Ahead
<1> QED
  BY <1>1, <1>2 DEF Spawn

LEMMA ScriptForward ==
  ASSUME WellTyped, NEW c \in Calls, Script(c) \/ ScriptKilled(c)
  PROVE  Ahead(c)' < Ahead(c)
<1>0. TypeOK /\ host \in [Calls -> Host] /\ host[c] \in Host
  BY DEF WellTyped, TypeOK
<1>1. parent' = parent /\ ParentAhead(parent[c].step) \in Int
  BY AheadTypes DEF Script, Busy, Refuse, Boot, Collect, ScriptKilled, hub
<1>2. \/ host[c].step = "queue" /\ host'[c].step \in {"vm", "none"}
      \/ host[c].step = "vm" /\ host'[c].step = "none"
  <2>1. CASE Boot(c)
    BY <1>0, <2>1 DEF Boot, Host
  <2>2. CASE Busy(c) \/ Refuse(c)
    BY <1>0, <2>2, Reported DEF Busy, Refuse, Reports
  <2>3. CASE Collect(c)
    BY <1>0, <2>3, Reported, RelayedTypes DEF Collect
  <2>4. CASE ScriptKilled(c)
    BY <1>0, <2>4, Reported DEF ScriptKilled, Reports
  <2> QED
    BY <2>1, <2>2, <2>3, <2>4 DEF Script
<1>3. ScriptAhead(host'[c].step) < ScriptAhead(host[c].step)
  BY <1>2 DEF ScriptAhead
<1>4. ScriptAhead(host'[c].step) \in Int /\ ScriptAhead(host[c].step) \in Int
  BY AheadTypes
<1> QED
  BY <1>1, <1>3, <1>4 DEF Ahead

\* The guest and the other calls leave a call and its script where they are, or
\* end the script.
LEMMA OthersForward ==
  ASSUME WellTyped, NEW c \in Calls, GuestStep(c)
  PROVE  \/ Ahead(c)' < Ahead(c)
         \/ parent'[c].step = parent[c].step /\ host'[c].step = host[c].step
<1>0. TypeOK /\ host \in [Calls -> Host] /\ host[c] \in Host
  BY DEF WellTyped, TypeOK
<1>1. parent' = parent /\ ParentAhead(parent[c].step) \in Int
  BY AheadTypes DEF GuestStep, Ask, OutOfTime, Tool, Submit, Exit, hub
<1>2. CASE host' = host
  BY <1>1, <1>2
<1>3. CASE Exit(c) /\ host[c].step = "vm"
  <2>1. host'[c].step = "none"
    BY <1>0, <1>3, Reported, RelayedTypes DEF Exit
  <2>2. ScriptAhead(host'[c].step) < ScriptAhead(host[c].step)
    BY <1>3, <2>1 DEF ScriptAhead
  <2>3. ScriptAhead(host'[c].step) \in Int /\ ScriptAhead(host[c].step) \in Int
    BY AheadTypes
  <2> QED
    BY <1>1, <2>2, <2>3 DEF Ahead
<1> QED
  BY <1>2, <1>3 DEF GuestStep, Ask, OutOfTime, Tool, Submit, Exit

LEMMA NextForward ==
  ASSUME WellTyped, [Next]_vars
  PROVE  \A c \in Calls : Forward(c)
<1>1. ASSUME NEW c \in Calls, NEW d \in Calls,
             \/ Register(c) \/ Spawn(c) \/ Sever(c) \/ ParentKilled(c)
             \/ Script(c) \/ ScriptKilled(c) \/ GuestStep(c)
      PROVE  \/ Ahead(d)' < Ahead(d)
             \/ parent'[d].step = parent[d].step /\ host'[d].step = host[d].step
  <2>1. Apart(c)
    BY <1>1, SpawnApart, ScriptApart, GuestApart
  <2>2. CASE d # c
    BY <2>1, <2>2 DEF Apart
  <2>3. CASE d = c
    BY <1>1, <2>3, ParentForward, ScriptForward, OthersForward
  <2> QED
    BY <2>2, <2>3
<1>2. ASSUME NEW d \in Calls, Tick \/ UNCHANGED vars
      PROVE  parent'[d].step = parent[d].step /\ host'[d].step = host[d].step
  BY <1>2 DEF Tick, vars
<1>3. \A c \in Calls : Register(c) \/ Spawn(c) \/ Script(c) => Ahead(c)' < Ahead(c)
  BY ParentForward, ScriptForward
<1> QED
  BY <1>1, <1>2, <1>3 DEF Next, Forward

\* Every step of spawn_worker, and of the script it started, brings the call
\* nearer to its end, which is at most ten steps away; no fault, no other
\* call and nothing the guest does takes it back to an earlier stage.
THEOREM CallsGoForward ==
  Spec => /\ [](\A c \in Calls : Ahead(c) \in 0..10)
          /\ [][\A c \in Calls : Forward(c)]_vars
<1>1. \A c \in Calls : Ahead(c) \in 0..10
  BY AheadTypes DEF Ahead
<1>2. WellTyped /\ [Next]_vars => [\A c \in Calls : Forward(c)]_vars
  BY NextForward
<1> QED
  BY <1>1, <1>2, TypesHold, PTL DEF Spec

-----------------------------------------------------------------------------
(* Nobody waits without an end *)

\* Nothing is left to do for the call and its script.
Over(c) == parent[c].step \in {"idle", "ended", "killed"} /\ host[c].step = "none"

\* The guards of Spawn, of Script and of Tick.
CanSpawn(c) ==
  \/ parent[c].step \in {"start", "severed", "metadata", "content", "revoke"}
  \/ parent[c].step = "wait" /\ (host[c].report # "none" \/ clock >= parent[c].until)

CanScript(c) ==
  \/ host[c].step = "queue" /\ (clock >= host[c].until \/ ~Locked)
  \/ host[c].step = "vm" /\ (guest[c].step = "done" \/ clock >= host[c].until)

CanTick ==
  /\ clock < MaxClock
  /\ \A c \in Calls : parent[c].step # "start"
  /\ \A deadline \in Deadlines : clock < deadline

Proceeds ==
  (\E c \in Calls : ~Over(c)) => CanTick \/ \E c \in Calls : CanSpawn(c) \/ CanScript(c)

\* What anybody waits for lies within the life of a registration, also when the
\* parent that started the script was killed.
OnTime(c) ==
  /\ grant[c].exp <= MaxClock
  /\ host[c].step = "queue" => host[c].until + VmTimeout <= MaxClock
  /\ host[c].step = "vm" => host[c].until <= MaxClock

OnTimeInv == \A c \in Calls : OnTime(c)

\* A step that sets no deadline of the call.
Unhurried(c) ==
  /\ grant'[c].exp <= MaxClock
  /\ \/ host'[c].step = "none"
     \/ host'[c].step = host[c].step /\ host'[c].until = host[c].until

LEMMA UnhurriedOnTime ==
  ASSUME NEW c \in Calls, OnTime(c), Unhurried(c)
  PROVE  OnTime(c)'
BY DEF OnTime, Unhurried

LEMMA ParentOnTime ==
  ASSUME WellTyped, CourseInv, NEW c \in Calls, OnTime(c),
         Register(c) \/ Spawn(c) \/ Sever(c) \/ ParentKilled(c)
  PROVE  OnTime(c)'
<1>0. /\ host \in [Calls -> Host] /\ grant \in [Calls -> Grant] /\ clock \in Nat
      /\ MaxClock \in Nat /\ grant[c].exp \in Nat
  BY TimeTypes DEF WellTyped, TypeOK, Grant
<1>1. CASE StartSsh(c)
  <2>1. /\ parent[c].step = "start" /\ grant' = grant
        /\ \/ host' = host
           \/ host' = [host EXCEPT ![c] = [step |-> "queue", until |-> clock + LockWait,
                                           report |-> "none"]]
    BY <1>1 DEF StartSsh, hub
  <2>2. CASE host' = host
    BY <2>1, <2>2 DEF OnTime
  <2>3. CASE host' = [host EXCEPT ![c] = [step |-> "queue", until |-> clock + LockWait,
                                          report |-> "none"]]
    <3>1. host'[c].step = "queue" /\ host'[c].until = clock + LockWait
      BY <1>0, <2>3
    <3>2. clock + Ttl <= MaxClock
      BY <2>1 DEF CourseInv, Course, Timed, OnTime
    <3>3. clock + LockWait + VmTimeout <= MaxClock
      BY <1>0, <3>2, TimeTypes
    <3> QED
      BY <2>1, <3>1, <3>3 DEF OnTime
  <2> QED
    BY <2>1, <2>2, <2>3
<1>2. CASE Register(c)
  <2>1. host' = host
    BY <1>2 DEF Register
  <2>2. clock + Ttl <= MaxClock /\ (grant' = grant \/ grant' = [grant EXCEPT ![c] = Allowing])
    BY <1>2 DEF Register
  <2>3. grant'[c].exp <= MaxClock
    BY <1>0, <2>2 DEF OnTime, Allowing
  <2> QED
    BY <2>1, <2>3, UnhurriedOnTime DEF Unhurried
<1>3. CASE \/ Output(c) \/ SshEnded(c) \/ SshTimedOut(c) \/ Metadata(c) \/ Content(c)
           \/ Revoke(c) \/ Sever(c) \/ ParentKilled(c)
  <2>1. host' = host \/ host'[c].step = "none"
    BY <1>0, <1>3 DEF Output, SshEnded, SshTimedOut, Metadata, Content, Revoke, Sever,
                      ParentKilled, Away
  <2>2. grant' = grant \/ grant' = [grant EXCEPT ![c] = Denying]
    BY <1>3 DEF Output, SshEnded, SshTimedOut, Metadata, Content, Revoke, Sever,
                ParentKilled, hub
  <2>3. grant'[c].exp <= MaxClock
    BY <1>0, <2>2 DEF OnTime, Denying
  <2> QED
    BY <2>1, <2>3, UnhurriedOnTime DEF Unhurried
<1> QED
  BY <1>1, <1>2, <1>3 DEF Spawn

LEMMA OthersOnTime ==
  ASSUME WellTyped, CourseInv, NEW c \in Calls, OnTime(c),
         Script(c) \/ ScriptKilled(c) \/ GuestStep(c)
  PROVE  OnTime(c)'
<1>0. /\ TypeOK /\ host \in [Calls -> Host] /\ host[c] \in Host /\ clock \in Nat
      /\ MaxClock \in Nat /\ host[c].until \in Nat
  BY TimeTypes DEF WellTyped, TypeOK, Host
<1>1. grant' = grant
  BY DEF Script, Busy, Refuse, Boot, Collect, ScriptKilled, hub,
         GuestStep, Ask, OutOfTime, Tool, Submit, Exit
<1>2. CASE Boot(c)
  <2>1. /\ host[c].step = "queue" /\ host'[c].step = "vm" /\ host'[c].until = clock + VmTimeout
    BY <1>0, <1>2 DEF Boot, Host
  <2>2. clock <= host[c].until
    BY <2>1 DEF CourseInv, Course, Timed
  <2> QED
    BY <1>0, <1>1, <2>1, <2>2, TimeTypes DEF OnTime
<1>3. CASE ~Boot(c)
  <2>1. host'[c].step = "none" \/ host' = host
    <3>1. CASE Busy(c) \/ Refuse(c)
      BY <1>0, <3>1, Reported DEF Busy, Refuse, Reports
    <3>2. CASE Collect(c)
      BY <1>0, <3>2, Reported, RelayedTypes DEF Collect
    <3>3. CASE ScriptKilled(c)
      BY <1>0, <3>3, Reported DEF ScriptKilled, Reports
    <3>4. CASE Exit(c)
      BY <1>0, <3>4, Reported, RelayedTypes DEF Exit
    <3>5. CASE Ask(c) \/ OutOfTime(c) \/ Tool(c) \/ Submit(c)
      BY <3>5 DEF Ask, OutOfTime, Tool, Submit
    <3> QED
      BY <1>3, <3>1, <3>2, <3>3, <3>4, <3>5 DEF Script, GuestStep
  <2> QED
    BY <1>1, <2>1, UnhurriedOnTime DEF Unhurried, OnTime
<1> QED
  BY <1>2, <1>3

LEMMA OnTimeHolds == Spec => []OnTimeInv
<1>1. Init => OnTimeInv
  BY TimeTypes DEF Init, OnTimeInv, OnTime, Denying, Away
<1>2. WellTyped /\ CourseInv /\ OnTimeInv /\ [Next]_vars => OnTimeInv'
  <2> SUFFICES ASSUME WellTyped, CourseInv, OnTimeInv, [Next]_vars PROVE OnTimeInv'
    OBVIOUS
  <2>1. ASSUME NEW c \in Calls,
               \/ Register(c) \/ Spawn(c) \/ Sever(c) \/ ParentKilled(c)
               \/ Script(c) \/ ScriptKilled(c) \/ GuestStep(c)
        PROVE  OnTimeInv'
    <3>1. Apart(c)
      BY <2>1, SpawnApart, ScriptApart, GuestApart
    <3>2. OnTime(c)'
      BY <2>1, ParentOnTime, OthersOnTime DEF OnTimeInv
    <3>3. \A d \in Calls \ {c} : OnTime(d)'
      BY <3>1 DEF OnTimeInv, OnTime, Apart
    <3> QED
      BY <3>2, <3>3 DEF OnTimeInv
  <2>2. CASE Tick \/ UNCHANGED vars
    BY <2>2 DEF Tick, vars, hub, OnTimeInv, OnTime
  <2> QED
    BY <2>1, <2>2 DEF Next
<1> QED
  BY <1>1, <1>2, TypesHold, CourseHolds, PTL DEF Spec

\* Until every call is over and every script has let go of its machine, some
\* call or script can go on, or time can pass and reach the timer of one that
\* waits: none waits for the guest, for the lock or for another call alone.
THEOREM CallsProceed == Spec => []Proceeds
<1>1. WellTyped /\ CourseInv /\ OnTimeInv => Proceeds
  <2> SUFFICES ASSUME WellTyped, CourseInv, OnTimeInv, NEW c \in Calls, ~Over(c),
                      \A d \in Calls : ~CanSpawn(d) /\ ~CanScript(d)
               PROVE  CanTick
    BY DEF Proceeds
  <2>0. /\ clock \in Nat /\ MaxClock \in Nat
        /\ \A d \in Calls : /\ parent[d] \in Parent /\ host[d] \in Host
                            /\ parent[d].until \in Nat /\ host[d].until \in Nat
                            /\ grant[d].exp \in Nat
    BY TimeTypes DEF WellTyped, TypeOK, Parent, Host, Grant
  <2>1. \A d \in Calls : parent[d].step # "start"
    BY DEF CanSpawn
  <2>2. \A d \in Calls : parent[d].step \in {"wait", "severed"} => clock < parent[d].until
    BY <2>0 DEF CanSpawn
  <2>3. \A d \in Calls : host[d].step \in {"queue", "vm"} => clock < host[d].until
    BY <2>0 DEF CanScript
  <2>4. \A deadline \in Deadlines : clock < deadline
    BY <2>2, <2>3 DEF Deadlines
  <2>5. CASE parent[c].step = "wait"
    <3>1. parent[c].until < grant[c].exp /\ grant[c].exp <= MaxClock
      BY <2>5 DEF CourseInv, Course, Timed, OnTimeInv, OnTime
    <3> QED
      BY <2>0, <2>1, <2>2, <2>4, <2>5, <3>1 DEF CanTick
  <2>6. CASE parent[c].step # "wait"
    <3>1. host[c].step \in {"queue", "vm"}
      BY <2>0, <2>1, <2>6 DEF Over, CanSpawn, Parent, Host
    <3>2. host[c].until <= MaxClock
      BY <2>0, <3>1, TimeTypes DEF OnTimeInv, OnTime
    <3> QED
      BY <2>0, <2>1, <2>3, <2>4, <3>1, <3>2 DEF CanTick
  <2> QED
    BY <2>5, <2>6
<1> QED
  BY <1>1, TypesHold, CourseHolds, OnTimeHolds, PTL
=============================================================================
