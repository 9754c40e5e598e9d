--------------------------- MODULE MCRateLimiter ---------------------------
(* Constants for model checking RateLimiter: an agent with two requests in *)
(* three seconds, a receipt route with one request in two.                 *)
EXTENDS RateLimiter, TLC

CONSTANTS agent, receipt

TwoWindows    == [k \in Keys |-> IF k = agent THEN 3 ELSE 2]
TwoAllowances == [k \in Keys |-> IF k = agent THEN 2 ELSE 1]

ThreadSymmetry == Permutations(Threads)
=============================================================================
