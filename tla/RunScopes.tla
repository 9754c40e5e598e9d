----------------------------- MODULE RunScopes -----------------------------
(***************************************************************************)
(* What the run store promises its readers: each run has at most one       *)
(* grant in force; a registration replaces the run's grant, whatever it    *)
(* was; a grant that has expired may be forgotten; nothing else changes a  *)
(* grant.  There is no file, no lock, no garbage collection.               *)
(***************************************************************************)
EXTENDS Naturals

CONSTANTS Runs, Grants   \* a grant has a field exp, its expiry

VARIABLES
  grant,   \* for each run, the set holding its grant: empty or a singleton
  clock

vars == <<grant, clock>>

Init ==
  /\ grant = [run \in Runs |-> {}]
  /\ clock = 0

Register(run) ==
  /\ \E g \in grant'[run] : g \in Grants /\ grant' = [grant EXCEPT ![run] = {g}]
  /\ UNCHANGED clock

\* Any number of runs whose grants have expired are forgotten together.
Forget ==
  /\ \E gone \in SUBSET Runs :
       /\ \A run \in gone : \A g \in grant[run] : g.exp < clock
       /\ grant' = [run \in Runs |-> IF run \in gone THEN {} ELSE grant[run]]
  /\ UNCHANGED clock

Tick ==
  /\ clock' = clock + 1
  /\ UNCHANGED grant

Next == Forget \/ Tick \/ \E run \in Runs : Register(run)

Spec == Init /\ [][Next]_vars
=============================================================================
