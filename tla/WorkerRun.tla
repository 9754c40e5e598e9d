----------------------------- MODULE WorkerRun -----------------------------
(***************************************************************************)
(* One disposable worker, from the parent's call to its end:               *)
(*   - spawn_worker (setup/firecracker-worker/spawn_worker.py) registers a *)
(*     run with a fresh identity, starts the worker over ssh, reads the    *)
(*     artifact it submitted and revokes the run;                          *)
(*   - asg-fc-worker, on the worker host, waits for the one virtual        *)
(*     machine, boots it, waits for its end or its time, destroys it and   *)
(*     reports;                                                            *)
(*   - the guest (WorkerAgent) uses the identity at the gateway.           *)
(*                                                                         *)
(* The gateway grants as RunScopes says: the newest registration of a run  *)
(* decides until it expires.  A canary that reaches it revokes the run's   *)
(* identity for good.  Its answers may be lost after they took effect, the *)
(* ssh connection may break, the parent or the script may be killed, the   *)
(* guest may hang or crash.                                                *)
(*                                                                         *)
(* Timers fire when they are due: the clock does not pass a deadline that  *)
(* its owner is still waiting for.                                         *)
(***************************************************************************)
EXTENDS WorkerAgent, FiniteSets

CONSTANTS
  Calls,       \* calls of spawn_worker; each draws a run id of its own
  Task,        \* what each call asks of its worker
  Ttl,         \* lifetime of a registration
  SshTimeout, LockWait, VmTimeout,   \* of the parent, and of the script
  MaxClock, MaxFaults                \* bounds of the model

ASSUME TaskAssumption == Task \in [Calls -> Tasks]

ASSUME TimesAssumption ==
  /\ {Ttl, SshTimeout, LockWait, VmTimeout} \subseteq Nat \ {0}
  /\ MaxClock \in Nat /\ MaxFaults \in Nat
  /\ LockWait + VmTimeout < SshTimeout /\ SshTimeout < Ttl

VARIABLES
  grant,      \* per run, the newest registration at the gateway
  condemned,  \* runs whose identity a canary trip revoked
  artifact,   \* per run, the status of the artifact stored for it
  parent,     \* per call, what spawn_worker is doing
  host,       \* per call, what asg-fc-worker is doing
  guest,      \* per call, the guest in its virtual machine
  clock,
  faults,
  hurt        \* history: calls that a fault has touched

vars == <<grant, condemned, artifact, parent, host, guest, clock, faults, hurt>>

-----------------------------------------------------------------------------
(* State *)

Grant == [worker: BOOLEAN, exp: Nat]

Statuses == {"none", "verified", "needs_review"}

\* step "severed": ssh waits on a connection that has broken.
\* outcome: what the tool returns, "raised" standing for an exception.
\* revoked: the report on the revocation.
Parent == [step: {"idle", "start", "wait", "severed", "metadata", "content", "revoke",
                  "ended", "killed"},
           until: Nat,
           outcome: {"none", "raised", "ok", "withheld", "canary"},
           revoked: {"unknown", "yes", "no"}]

\* report: the JSON object on stdout; "nothing" if there is none.
Reports == {"nothing", "refused", "canary", "artifact", "no_artifact"}

Away == [step |-> "none", until |-> 0, report |-> "none"]

Host == [step: {"none", "queue", "vm"}, until: Nat, report: {"none"} \cup Reports]

\* Nothing but inspection, for one second; afterwards there is no registration,
\* which allows the worker as little.
Denying == [worker |-> FALSE, exp |-> 0]

TypeOK ==
  /\ grant \in [Calls -> Grant]
  /\ condemned \subseteq Calls
  /\ artifact \in [Calls -> Statuses]
  /\ parent \in [Calls -> Parent]
  /\ host \in [Calls -> Host]
  /\ guest \in [Calls -> Guest \cup {Off}]
  /\ \A c \in Calls : guest[c] # Off => guest[c].calls <= Task[c].llm
  /\ clock \in 0..MaxClock /\ faults \in 0..MaxFaults
  /\ hurt \subseteq Calls

Init ==
  /\ grant = [c \in Calls |-> Denying]
  /\ condemned = {}
  /\ artifact = [c \in Calls |-> "none"]
  /\ parent = [c \in Calls |-> [step |-> "idle", until |-> 0, outcome |-> "none",
                                revoked |-> "unknown"]]
  /\ host = [c \in Calls |-> Away]
  /\ guest = [c \in Calls |-> Off]
  /\ clock = 0 /\ faults = 0 /\ hurt = {}

\* The identity of the run works at the gateway.
Live(c) == grant[c].worker /\ clock <= grant[c].exp /\ c \notin condemned

\* The scope of the run still lets the parent read its artifact.
Readable(c) == grant[c].worker /\ clock <= grant[c].exp

Fault(c) ==
  /\ faults < MaxFaults
  /\ faults' = faults + 1
  /\ hurt' = hurt \cup {c}

Smooth == UNCHANGED <<faults, hurt>>

hub == <<grant, condemned, artifact>>

-----------------------------------------------------------------------------
(* spawn_worker *)

To(c, step) == parent' = [parent EXCEPT ![c].step = step, ![c].until = 0]

\* An exception in the try block: its finally clause revokes.
Raise(c) ==
  parent' = [parent EXCEPT ![c].step = "revoke", ![c].until = 0, ![c].outcome = "raised"]

\* An exception that leaves spawn_worker.
Escape(c) == parent' = [parent EXCEPT ![c].step = "ended", ![c].outcome = "raised"]

\* Bug: the identity lives as long as the machine may.
AllowingTheMachine == [worker |-> TRUE, exp |-> clock + VmTimeout]

Allowing == [worker |-> TRUE, exp |-> clock + Ttl]

\* The registration stands before the try block: without an answer nothing
\* revokes what it stored.
Register(c) ==
  /\ parent[c].step = "idle"
  /\ clock + Ttl <= MaxClock
  /\ \/ /\ grant' = [grant EXCEPT ![c] = Allowing]
        /\ \/ To(c, "start") /\ Smooth
           \/ Escape(c) /\ Fault(c)
     \/ Escape(c) /\ UNCHANGED grant /\ Smooth
  /\ UNCHANGED <<condemned, artifact, host, guest, clock>>

\* subprocess.run: ssh starts asg-fc-worker, or fails.
StartSsh(c) ==
  /\ parent[c].step = "start"
  /\ \/ /\ parent' = [parent EXCEPT ![c].step = "wait", ![c].until = clock + SshTimeout]
        /\ host' = [host EXCEPT ![c] = [step |-> "queue", until |-> clock + LockWait,
                                        report |-> "none"]]
     \/ Raise(c) /\ UNCHANGED host
  /\ UNCHANGED <<hub, guest, clock>> /\ Smooth

\* Bug: the events the script relays are not looked at.
OutputWithoutEvents(c) ==
  /\ parent[c].step = "wait" /\ host[c].report # "none"
  /\ IF host[c].report = "artifact" THEN To(c, "metadata") ELSE Raise(c)
  /\ host' = [host EXCEPT ![c] = Away]
  /\ UNCHANGED <<hub, guest, clock>> /\ Smooth

\* The script's output: a canary trip first, then the artifact id.
Output(c) ==
  /\ parent[c].step = "wait" /\ host[c].report # "none"
  /\ CASE host[c].report = "canary" ->
            parent' = [parent EXCEPT ![c].step = "revoke", ![c].until = 0,
                                     ![c].outcome = "canary"]
       [] host[c].report = "artifact" -> To(c, "metadata")
       [] OTHER -> Raise(c)
  /\ host' = [host EXCEPT ![c] = Away]
  /\ UNCHANGED <<hub, guest, clock>> /\ Smooth

\* The connection breaks: what the script has printed or will print is lost,
\* and nothing stops it, unless its input had not reached it yet.
Sever(c) ==
  /\ parent[c].step = "wait"
  /\ parent' = [parent EXCEPT ![c].step = "severed"]
  /\ \/ host[c].report = "none" /\ UNCHANGED host
     \/ host[c].step # "vm" /\ host' = [host EXCEPT ![c] = Away]
  /\ Fault(c)
  /\ UNCHANGED <<hub, guest, clock>>

\* ServerAliveInterval: ssh notices and ends with nothing on stdout,
\* orchestrator_bad_output.
SshEnded(c) ==
  /\ parent[c].step = "severed"
  /\ Raise(c)
  /\ UNCHANGED <<hub, host, guest, clock>> /\ Smooth

\* subprocess.TimeoutExpired; nothing stops the script.
SshTimedOut(c) ==
  /\ parent[c].step \in {"wait", "severed"} /\ host[c].report = "none"
  /\ clock >= parent[c].until
  /\ Raise(c)
  /\ UNCHANGED <<hub, host, guest, clock>> /\ Smooth

\* The manifest decides; a quarantined artifact is withheld.
Metadata(c) ==
  /\ parent[c].step = "metadata"
  /\ \/ /\ Readable(c) /\ artifact[c] = "verified" /\ To(c, "content") /\ Smooth
     \/ /\ Readable(c) /\ artifact[c] = "needs_review"
        /\ parent' = [parent EXCEPT ![c].step = "revoke", ![c].outcome = "withheld"]
        /\ Smooth
     \/ ~Readable(c) /\ Raise(c) /\ Smooth
     \/ Raise(c) /\ Fault(c)
  /\ UNCHANGED <<hub, host, guest, clock>>

Content(c) ==
  /\ parent[c].step = "content"
  /\ \/ /\ Readable(c)
        /\ parent' = [parent EXCEPT ![c].step = "revoke", ![c].outcome = "ok"]
        /\ Smooth
     \/ ~Readable(c) /\ Raise(c) /\ Smooth
     \/ Raise(c) /\ Fault(c)
  /\ UNCHANGED <<hub, host, guest, clock>>

Return(c, revoked) ==
  parent' = [parent EXCEPT ![c].step = "ended", ![c].revoked = revoked]

\* Bug: a call that raised returns without revoking.
RevokeResultsOnly(c) ==
  /\ parent[c].step = "revoke"
  /\ \/ /\ parent[c].outcome # "raised"
        /\ grant' = [grant EXCEPT ![c] = Denying] /\ Return(c, "yes") /\ Smooth
     \/ parent[c].outcome = "raised" /\ Return(c, "no") /\ UNCHANGED grant /\ Smooth
  /\ UNCHANGED <<condemned, artifact, host, guest, clock>>

\* The finally clause.  An HTTP error is reported with the result; without
\* any answer the exception leaves spawn_worker and the result is lost.
Revoke(c) ==
  /\ parent[c].step = "revoke"
  /\ \/ grant' = [grant EXCEPT ![c] = Denying] /\ Return(c, "yes") /\ Smooth
     \/ grant' = [grant EXCEPT ![c] = Denying] /\ Escape(c) /\ Fault(c)
     \/ UNCHANGED grant /\ Return(c, "no") /\ Fault(c)
     \/ UNCHANGED grant /\ Escape(c) /\ Fault(c)
  /\ UNCHANGED <<condemned, artifact, host, guest, clock>>

\* The parent process dies; ssh goes with it, the script does not.
ParentKilled(c) ==
  /\ parent[c].step \notin {"idle", "ended", "killed"}
  /\ To(c, "killed") /\ Fault(c)
  /\ UNCHANGED <<hub, host, guest, clock>>

Spawn(c) ==
  \/ StartSsh(c) \/ Output(c) \/ SshEnded(c) \/ SshTimedOut(c)
  \/ Metadata(c) \/ Content(c) \/ Revoke(c)

-----------------------------------------------------------------------------
(* asg-fc-worker *)

\* The lock file is open in the script and in the virtual machine it started:
\* the lock is free when both are gone.
Locked == \E c \in Calls : host[c].step = "vm" \/ guest[c] # Off

\* The script ends; what it prints reaches a parent that still waits for it.
Report(c, report) ==
  host' = [host EXCEPT ![c] =
             [Away EXCEPT !.report = IF parent[c].step = "wait" THEN report ELSE @]]

Busy(c) ==
  /\ host[c].step = "queue" /\ clock >= host[c].until
  /\ Report(c, "refused")
  /\ UNCHANGED <<hub, parent, guest, clock>> /\ Smooth

\* A golden image, specification or research service that is not as it must
\* be; the script ends before there is a virtual machine.
Refuse(c) ==
  /\ host[c].step = "queue" /\ ~Locked
  /\ Report(c, "refused")
  /\ UNCHANGED <<hub, parent, guest, clock>> /\ Smooth

Boot(c) ==
  /\ host[c].step = "queue" /\ ~Locked
  /\ host' = [host EXCEPT ![c].step = "vm", ![c].until = clock + VmTimeout]
  /\ guest' = [guest EXCEPT ![c] = Booted(Task[c])]
  /\ UNCHANGED <<hub, parent, clock>> /\ Smooth

\* What the console of the guest shows.
Relayed(g) ==
  CASE g.tripped -> "canary"
    [] ~g.tripped /\ g.submit = "ok" -> "artifact"
    [] OTHER -> "no_artifact"

\* Bug: the script waits for the guest only.
CollectDone(c) ==
  /\ host[c].step = "vm" /\ guest[c].step = "done"
  /\ Report(c, Relayed(guest[c]))
  /\ guest' = [guest EXCEPT ![c] = Off]
  /\ UNCHANGED <<hub, parent, clock>> /\ Smooth

\* Done, or out of time: the machine is destroyed and the script reports.
Collect(c) ==
  /\ host[c].step = "vm"
  /\ guest[c].step = "done" \/ clock >= host[c].until
  /\ Report(c, Relayed(guest[c]))
  /\ guest' = [guest EXCEPT ![c] = Off]
  /\ UNCHANGED <<hub, parent, clock>> /\ Smooth

\* The script is killed; its traps do not run and the machine goes on.
ScriptKilled(c) ==
  /\ host[c].step = "vm"
  /\ Report(c, "nothing")
  /\ Fault(c)
  /\ UNCHANGED <<hub, parent, guest, clock>>

Script(c) == Busy(c) \/ Refuse(c) \/ Boot(c) \/ Collect(c)

-----------------------------------------------------------------------------
(* The guest, and what the gateway answers it *)

Answered(c, answer) ==
  \/ answer = "lost"
  \/ answer = "canary" /\ Live(c)
  \/ answer = "denied"
  \/ answer \in Answers \ {"lost", "canary", "denied"} /\ Live(c)

\* A canary in a request condemns the identity it came from, also when the
\* answer that says so is lost.
Trip(c, answer) ==
  \/ answer # "canary" /\ UNCHANGED <<condemned, hurt>>
  \/ answer \in {"canary", "lost"} /\ Live(c)
     /\ condemned' = condemned \cup {c}
     /\ hurt' = IF answer = "lost" THEN hurt \cup {c} ELSE hurt

Ask(c) ==
  /\ guest[c].step = "ask"
  /\ \E answer \in Answers :
       /\ Answered(c, answer)
       /\ guest' = [guest EXCEPT ![c] = Again(AfterAnswer(@, answer))]
       /\ Trip(c, answer)
  /\ UNCHANGED <<grant, artifact, parent, host, clock, faults>>

OutOfTime(c) ==
  /\ guest[c].step = "ask"
  /\ guest' = [guest EXCEPT ![c] = TimeUp(@)]
  /\ UNCHANGED <<hub, parent, host, clock>> /\ Smooth

\* A reader fetches by itself; a researcher through the gateway.
Tool(c) ==
  /\ guest[c].step = "tool"
  /\ \E answer \in {"final", "denied", "canary", "lost"} :
       /\ IF Reads(guest[c]) THEN answer = "final" ELSE Answered(c, answer)
       /\ guest' = [guest EXCEPT ![c] = AfterTool(@, answer)]
       /\ Trip(c, answer)
  /\ UNCHANGED <<grant, artifact, parent, host, clock, faults>>

\* The gateway stores the artifact with the verdict of its scan.
Submit(c) ==
  /\ guest[c].step = "submit"
  /\ \E answer \in {"final", "denied", "canary", "lost"} :
       /\ Answered(c, answer)
       /\ guest' = [guest EXCEPT ![c] = AfterSubmit(@, answer)]
       /\ Trip(c, answer)
       /\ \/ answer \in {"final", "lost"} /\ Live(c)
             /\ \E status \in {"verified", "needs_review"} :
                  artifact' = [artifact EXCEPT ![c] = status]
             /\ c \notin condemned'
          \/ answer # "final" /\ UNCHANGED artifact
  /\ UNCHANGED <<grant, parent, host, clock, faults>>

\* It reboots when it is done, or panics; firecracker exits.
Exit(c) ==
  /\ guest[c] # Off
  /\ host[c].step = "vm" => guest[c].step # "done"
  /\ guest' = [guest EXCEPT ![c] = Off]
  /\ IF host[c].step = "vm" THEN Report(c, Relayed(guest[c])) ELSE UNCHANGED host
  /\ hurt' = IF guest[c].step = "done" THEN hurt ELSE hurt \cup {c}
  /\ UNCHANGED <<hub, parent, clock, faults>>

GuestStep(c) == Ask(c) \/ OutOfTime(c) \/ Tool(c) \/ Submit(c) \/ Exit(c)

-----------------------------------------------------------------------------

\* The deadlines somebody still waits for.
Deadlines ==
  {parent[c].until : c \in {d \in Calls : parent[d].step \in {"wait", "severed"}}} \cup
  {host[c].until : c \in {d \in Calls : host[d].step \in {"queue", "vm"}}}

\* Between the answer to the registration and ssh the parent does not wait.
Tick ==
  /\ clock < MaxClock
  /\ \A c \in Calls : parent[c].step # "start"
  /\ \A deadline \in Deadlines : clock < deadline
  /\ clock' = clock + 1
  /\ UNCHANGED <<hub, parent, host, guest>> /\ Smooth

Next ==
  \/ \E c \in Calls : Register(c) \/ Spawn(c) \/ Sever(c) \/ ParentKilled(c)
  \/ \E c \in Calls : Script(c) \/ ScriptKilled(c)
  \/ \E c \in Calls : GuestStep(c)
  \/ Tick

(***************************************************************************)
(* The parent and the script go on, and time passes.  Nothing is assumed   *)
(* of the guest, which may hang.                                           *)
(***************************************************************************)
Spec ==
  /\ Init /\ [][Next]_vars
  /\ \A c \in Calls : WF_vars(Spawn(c)) /\ WF_vars(Script(c))
  /\ WF_vars(Tick)

-----------------------------------------------------------------------------
(* Properties *)

Ended(c) == parent[c].step = "ended"

\* A call that has ended, with a result or an exception, leaves no identity
\* in force, not even while its machine still runs, unless a fault touched it
\* (an answer lost, the connection broken, the revocation refused, a process
\* killed); and a result that says that the run was revoked is right in any
\* case, also after a fault.
EndedIsDead ==
  \A c \in Calls : Ended(c) /\ Live(c) => c \in hurt /\ parent[c].revoked # "yes"

\* A run that tripped a canary returns no answer, and if nothing was lost on
\* the way its result says why.
TripEndsTheRun ==
  \A c \in condemned :
    /\ parent[c].outcome \notin {"ok", "withheld"}
    /\ Ended(c) /\ c \notin hurt => parent[c].outcome \in {"canary"}

\* One virtual machine at a time, whichever scripts are killed.
OneMachine == Cardinality({c \in Calls : guest[c] # Off}) <= 1

\* The nested timeouts: while a script runs its machine, the identity of the
\* guest has not expired; and if no fault touched the call, its parent has not
\* given up and the identity is in force.  A parent whose connection broke, or
\* that was killed, may have left the machine behind.
TimeoutsNest ==
  \A c \in Calls : host[c].step = "vm" =>
    /\ grant[c].worker => clock <= grant[c].exp
    /\ c \notin hurt => parent[c].step = "wait" /\ grant[c].worker

\* A reply that the output guard withheld costs the answer only if another
\* was withheld before, a condensed answer took the call that was kept for
\* it, or the budget has no room for one.
RewriteReserved ==
  \A c \in Calls : guest[c] # Off /\ guest[c].unanswered =>
    \/ guest[c].rewrote \/ guest[c].condense
    \/ Task[c].llm < (IF Reads(guest[c]) THEN 3 ELSE 4)

\* Every call ends, and every script lets go of its machine, even if the guest
\* or that of another call hangs, unless the parent is killed.
CallsEnd ==
  <>[](\A c \in Calls : /\ parent[c].step \in {"idle", "ended", "killed"}
                        /\ host[c].step = "none")

=============================================================================
