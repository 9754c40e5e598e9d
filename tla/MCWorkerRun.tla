---------------------------- MODULE MCWorkerRun ----------------------------
(* Constants for model checking WorkerRun: two calls that are not alike. *)
EXTENDS WorkerRun

CONSTANTS c1, c2

MCCalls == {c1, c2}

MCTask ==
  [c \in MCCalls |->
     IF c = c1 THEN [profile |-> "reader", seeds |-> 0, llm |-> 3, steps |-> 2]
     ELSE [profile |-> "researcher", seeds |-> 0, llm |-> 2, steps |-> 1]]
=============================================================================
