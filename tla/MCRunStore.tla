---------------------------- MODULE MCRunStore ----------------------------
(* Constants for model checking RunStore. *)
EXTENDS RunStore, TLC

CONSTANTS r1, k1, chat, search, inspect, parent, worker, t1, t2

\* What spawn_worker registers, and what it re-registers to revoke.
WorkerScope == [allow |-> {chat}, deny |-> {}, callers |-> {parent, worker}]
DenyAllScope == [allow |-> {inspect}, deny |-> {chat, search}, callers |-> {parent}]

AllRoutes   == {chat, search, inspect}
TwoScopes   == {WorkerScope, DenyAllScope}
NoStatic    == [s \in {} |-> [scope |-> WorkerScope, exp |-> 0]]
OneConfig   == {AllRoutes}
\* The operator removes a route that only the researcher profile uses.
TwoConfigs  == {AllRoutes, {chat, inspect}}

ThreadSymmetry == Permutations(Threads)
=============================================================================
