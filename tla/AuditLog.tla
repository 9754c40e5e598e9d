------------------------------ MODULE AuditLog ------------------------------
(***************************************************************************)
(* The audit log (class AuditLogger and verify_audit_log in proxy.py): a   *)
(* JSONL file in which every event carries the hash of the event before    *)
(* it.  The writers are the handler threads of the gateway and the garbage *)
(* collectors, other processes; each takes a lock in its process and a     *)
(* lock on a file, reads the last hash, appends and releases.  Verifying   *)
(* and exporting an anchor read the file without the lock.                 *)
(*                                                                         *)
(* Hashes are numbers; every event is different (it has its request id and *)
(* time), so its hash is a number of its own.  0 is the hash before the    *)
(* first event.  The hashes have no key: whoever can write the file can    *)
(* give any text the hash of that text.                                    *)
(***************************************************************************)
EXTENDS Naturals, Sequences, FiniteSets

CONSTANTS
  Writers,
  NoWriter,
  Separated,               \* events whose text holds a line separator of Unicode
  MaxEvents, MaxTears,     \* bounds of the model
  MaxCopy, MaxForged       \* bounds of the copies a verifier is given: lines,
                           \* and hashes that are not the log's

ASSUME ConstantsAssumption ==
  /\ NoWriter \notin Writers
  /\ Separated \subseteq Nat
  /\ MaxEvents \in Nat /\ MaxTears \in Nat /\ MaxCopy \in Nat /\ MaxForged \in Nat

VARIABLES
  log,      \* the lines of the file that ended in a newline
  tail,     \* what follows the last newline: empty or one line
  holder,   \* who holds the lock
  job,      \* what each writer is doing
  last,     \* the largest hash given to an event
  tears,    \* partial writes so far
  chopped,  \* history: one of them lacked nothing but the newline
  anchors   \* history: the anchors exported

vars == <<log, tail, holder, job, last, tears, chopped, anchors>>

-----------------------------------------------------------------------------
(* Lines *)

Zero == 0

\* A line that is not whole (part of a line, or glued to one) is no JSON; one
\* that is not sealed does not have the hash of its own text.
Line == [prev: Nat, hash: Nat, whole: BOOLEAN, sealed: BOOLEAN]

Broken == [prev |-> Zero, hash |-> Zero, whole |-> FALSE, sealed |-> FALSE]

\* What a reader finds in the file.
Visible == log \o tail

\* Bug: once a line of the file is damaged, every event starts a chain.
LastHashGivesUp(lines) ==
  IF lines = <<>> \/ (\E i \in 1..Len(lines) : ~lines[i].whole) THEN Zero
  ELSE lines[Len(lines)].hash

\* What _last_hash returns for a file.
LastHash(lines) ==
  IF lines = <<>> THEN Zero
  ELSE IF lines[Len(lines)].whole THEN lines[Len(lines)].hash ELSE Zero

-----------------------------------------------------------------------------
(* Writing *)

Idle == [step |-> "idle"]

Writing == [step: {"read", "append", "flush", "end"}, line: Line]

Anchor == [hash: Nat, count: Nat]

TypeOK ==
  /\ log \in Seq(Line)
  /\ tail \in Seq(Line) /\ Len(tail) <= 1
  /\ holder \in Writers \cup {NoWriter}
  /\ job \in [Writers -> {Idle} \cup Writing]
  /\ last \in Nat /\ tears \in Nat /\ chopped \in BOOLEAN
  /\ anchors \subseteq Anchor

Init ==
  /\ log = <<>> /\ tail = <<>>
  /\ holder = NoWriter
  /\ job = [w \in Writers |-> Idle]
  /\ last = 0 /\ tears = 0 /\ chopped = FALSE
  /\ anchors = {}

Draft(hash) ==
  [step |-> "read",
   line |-> [prev |-> Zero, hash |-> hash, whole |-> TRUE, sealed |-> FALSE]]

\* The thread lock and the file lock are taken.
Acquire(w) ==
  /\ job[w] = Idle /\ last < MaxEvents
  /\ holder = NoWriter
  /\ last' = last + 1
  /\ holder' = w
  /\ job' = [job EXCEPT ![w] = Draft(last + 1)]
  /\ UNCHANGED <<log, tail, tears, chopped, anchors>>

\* The last hash is read; the event's own hash covers it.
ReadLast(w) ==
  /\ job[w].step = "read"
  /\ job' = [job EXCEPT ![w].step = "append", ![w].line.prev = LastHash(Visible),
                        ![w].line.sealed = TRUE]
  /\ UNCHANGED <<log, tail, holder, last, tears, chopped, anchors>>

\* The first bytes of the line reach the file, glued to any tail.
Flush(w) ==
  /\ job[w].step = "append"
  /\ tail' = <<Broken>>
  /\ job' = [job EXCEPT ![w].step = "flush", ![w].line.whole = (tail = <<>>)]
  /\ UNCHANGED <<log, holder, last, tears, chopped, anchors>>

\* All but the newline is in the file.
Complete(w) ==
  /\ job[w].step = "flush"
  /\ tail' = <<job[w].line>>
  /\ job' = [job EXCEPT ![w].step = "end"]
  /\ UNCHANGED <<log, holder, last, tears, chopped, anchors>>

\* Bug: the line replaces the one before.
FinishReplacing(w) ==
  /\ job[w].step = "end"
  /\ log' = (IF log = <<>> THEN log ELSE SubSeq(log, 1, Len(log) - 1)) \o tail
  /\ tail' = <<>>
  /\ holder' = NoWriter
  /\ job' = [job EXCEPT ![w] = Idle]
  /\ UNCHANGED <<last, tears, chopped, anchors>>

\* The newline is in the file and on disk; the locks are released.
Finish(w) ==
  /\ job[w].step = "end"
  /\ log' = Visible
  /\ tail' = <<>>
  /\ holder' = NoWriter
  /\ job' = [job EXCEPT ![w] = Idle]
  /\ UNCHANGED <<last, tears, chopped, anchors>>

\* The writer dies or its write fails; the locks are released.
Die(w) ==
  /\ job[w] # Idle
  /\ IF job[w].step \in {"flush", "end"}
       THEN tears < MaxTears /\ tears' = tears + 1
       ELSE tears' = tears
  /\ chopped' = (chopped \/ job[w].step = "end")
  /\ holder' = NoWriter
  /\ job' = [job EXCEPT ![w] = Idle]
  /\ UNCHANGED <<log, tail, last, anchors>>

-----------------------------------------------------------------------------
(* Verifying and exporting an anchor, without the lock *)

\* The hash verify_audit_log expects before line i: that of the last whole
\* line above it.
Expected(lines, i) ==
  LET above == {j \in 1..(i - 1) : lines[j].whole}
  IN  IF above = {} THEN Zero
      ELSE lines[CHOOSE j \in above : \A k \in above : k <= j].hash

\* Bug: only the first line and its neighbour are compared.
BadLinesShort(lines) ==
  {i \in 1..Len(lines) :
     ~lines[i].whole \/ ~lines[i].sealed \/ (i <= 2 /\ lines[i].prev # Expected(lines, i))}

\* The lines verify_audit_log reports.
BadLines(lines) ==
  {i \in 1..Len(lines) :
     ~lines[i].whole \/ ~lines[i].sealed \/ lines[i].prev # Expected(lines, i)}

Verifies(lines) == BadLines(lines) = {}

LatestHash(lines) == Expected(lines, Len(lines) + 1)

\* verify-audit with --expect-anchor: it is compared with the end of the file.
Expects(lines, anchor) == Verifies(lines) /\ LatestHash(lines) = anchor.hash

\* verify_audit_chain, of the incident bundles of asgctl: it stops at the first
\* line it cannot read or link, and reads a line as two at a separator that
\* the gateway does not take for one.
Breaks(lines) ==
  {i \in 1..Len(lines) :
     \/ ~lines[i].whole \/ ~lines[i].sealed \/ lines[i].hash \in Separated
     \/ lines[i].prev # IF i = 1 THEN Zero ELSE lines[i - 1].hash}

\* The lines it reports as checked.
Checked(lines) == {i \in 1..Len(lines) : \A j \in 1..i : j \notin Breaks(lines)}

\* export-audit-anchor: of a log that verifies, its last hash and length.
Export ==
  /\ Verifies(Visible)
  /\ anchors' = anchors \cup {[hash |-> LatestHash(Visible), count |-> Len(Visible)]}
  /\ UNCHANGED <<log, tail, holder, job, last, tears, chopped>>

Write(w) == Acquire(w) \/ ReadLast(w) \/ Flush(w) \/ Complete(w) \/ Finish(w)

Next ==
  \/ \E w \in Writers : Write(w) \/ Die(w)
  \/ Export

Spec == Init /\ [][Next]_vars

-----------------------------------------------------------------------------
(* Properties *)

\* Every event links to the one before it, whatever writers of whatever
\* process interleave and die, as long as none dies in the middle of a line.
Linked ==
  \A i \in 1..Len(log) :
    /\ log[i].whole
    /\ log[i].prev = IF i = 1 THEN Zero ELSE log[i - 1].hash

ChainLinked == tears = 0 => Linked

\* Why it holds: who is writing holds the lock, so the hash it read is still
\* the last one, and only what it wrote itself follows the last newline.
ChainInv ==
  /\ \A w \in Writers : job[w] # Idle => holder = w
  /\ tears = 0 =>
       /\ Linked
       /\ tail # <<>> => \E w \in Writers : job[w].step \in {"flush", "end"}
       /\ \A w \in Writers :
            /\ job[w].step \in {"append", "flush", "end"} =>
                 job[w].line.prev = LastHash(log)
            /\ job[w].step \in {"flush", "end"} => job[w].line.whole
            /\ job[w].step = "end" => tail = <<job[w].line>>

\* The lines of a copy that somebody changed: lines of the log; such a line
\* with another text and its old hash; and a line with the hash of its text,
\* which no event of the log has, and any hash before it.
Events == {log[i] : i \in 1..Len(log)}

Edited == {[line EXCEPT !.sealed = FALSE] : line \in Events}

Forged ==
  [prev: 0..(last + MaxForged), hash: (last + 1)..(last + MaxForged),
   whole: {TRUE}, sealed: {TRUE}]

Copies(n) == [1..n -> Events \cup Edited \cup Forged]

\* A copy that is the beginning of the log, and after it nothing of the log.
Continues(lines) ==
  \E n \in 0..Len(lines) :
    /\ n <= Len(log) /\ SubSeq(lines, 1, n) = SubSeq(log, 1, n)
    /\ \A i \in (n + 1)..Len(lines) : lines[i] \in Forged

\* Both verifiers see an event of an intact log that was edited, dropped,
\* repeated or moved, or that follows a forged line: what they accept begins
\* with lines of the log in their order and goes on with nothing but forged
\* ones.  That its end was cut off or forged anew they cannot see; an anchor
\* shows it, which only the log up to that anchor matches.
DetectsEdits ==
  tears = 0 =>
    \A n \in 0..MaxCopy : \A lines \in Copies(n) :
      /\ Verifies(lines) \/ Breaks(lines) = {} => Continues(lines)
      /\ \A a \in anchors : Expects(lines, a) => lines = SubSeq(Visible, 1, a.count)

\* A line torn by a crash costs no more than two reported lines: the one it
\* was glued to, and the next one, which starts a chain of its own.  And an
\* incident bundle vouches for what the verifier finds intact from the first
\* line on, up to an event whose text holds a separator.
DamageIsLocal ==
  /\ Cardinality(BadLines(log)) <= 2 * tears
  /\ Checked(log) =
       {i \in 1..Len(log) :
          \A j \in 1..i : j \notin BadLines(log) /\ log[j].hash \notin Separated}

\* An exported anchor stays true of the log: the line it counted to keeps its
\* hash, whatever is appended or torn later, and although the export may have
\* read a line that was still being written.  The exception is a line that a
\* crash left without its newline, which the next event is glued to.
AnchorsStay ==
  ~chopped =>
    \A a \in anchors :
      /\ a.count <= Len(Visible)
      /\ a.count > 0 => Visible[a.count].whole /\ Visible[a.count].hash = a.hash
=============================================================================
