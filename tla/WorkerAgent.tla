---------------------------- MODULE WorkerAgent ----------------------------
(***************************************************************************)
(* The program in the worker's virtual machine                             *)
(* (setup/firecracker-worker/worker_agent.py).  It asks the model, through *)
(* the gateway, what to do; fetches a page or searches when told to; and   *)
(* submits one artifact with the answer.                                   *)
(*                                                                         *)
(* Each operator maps the guest to the guest after one exchange with the   *)
(* gateway.  What the gateway answers is decided by the module that uses   *)
(* this one.  The texts of prompts, pages and answers are left out.        *)
(***************************************************************************)
EXTENDS Naturals

\* What the worker is told: its profile, the number of URLs that a reader
\* fetches before its first turn, max_llm_calls and max_steps.
Tasks == [profile: {"reader", "researcher"}, seeds: Nat, llm: Nat \ {0}, steps: Nat \ {0}]

\* A reply of the model: whether the output limit cut it off, and the action of
\* the object in it, if that is complete and one of the profile.
Replies == [cut: BOOLEAN, action: {"final", "tool", "none"}]

\* parse_action takes a text without an action for the answer;
\* parse_complete_action does not, as the text was cut off.
Parsed(reply) ==
  IF reply.action # "none" THEN reply.action ELSE IF reply.cut THEN "cut" ELSE "final"

\* What a model call comes back with.  "guard": the input or action guard
\* withheld the request, "output": the output guard withheld the reply;
\* "denied": any other error; "lost": no HTTP answer at all.
Answers ==
  {Parsed(reply) : reply \in Replies} \cup {"guard", "output", "canary", "denied", "lost"}

Off == [step |-> "off"]

\* material: what a guard may have objected to: a reader's pages, or 1 if a
\* researcher's last tool output was not yet withheld.
\* unanswered: an output block was the reason for having no answer.
Guest == [step: {"ask", "tool", "submit", "done"}, task: Tasks,
          calls: Nat, steps: Nat, material: Nat, drops: Nat,
          rewrote: BOOLEAN, condense: BOOLEAN, unanswered: BOOLEAN,
          tripped: BOOLEAN, submit: {"none", "ok", "failed"}]

Reads(g) == g.task.profile = "reader"

Booted(task) ==
  [step |-> "ask", task |-> task, calls |-> 0, drops |-> 0,
   steps |-> IF task.profile = "reader" THEN task.seeds ELSE 0,
   material |-> IF task.profile = "reader" THEN task.seeds ELSE 1,
   rewrote |-> FALSE, condense |-> FALSE, unanswered |-> FALSE,
   tripped |-> FALSE, submit |-> "none"]

-----------------------------------------------------------------------------
(* The loop: research_loop, and the reader's loop in main *)

\* Bug: no call is kept for a rewrite.
ReserveNothing(g) == 0

\* A call kept for one rewrite, if the budget is large enough.
Reserve(g) ==
  IF ~g.rewrote /\ g.task.llm >= (IF Reads(g) THEN 3 ELSE 4) THEN 1 ELSE 0

\* The model is told to finish, and a tool action is taken as the answer.
LastTurn(g) ==
  g.steps >= g.task.steps \/ g.calls + Reserve(g) + 1 >= g.task.llm \/ g.condense

\* What a guard objected to can be dropped, at no cost in calls.
CanDrop(g) ==
  g.material > 0 /\ g.drops < (IF Reads(g) THEN 5 ELSE 8)

Dropped(g) ==
  [g EXCEPT !.drops = @ + 1,
            !.material = IF Reads(g) THEN @ - 1 ELSE 0]

\* The loop's condition on its calls.
Again(g) == IF g.calls < g.task.llm THEN g ELSE [g EXCEPT !.step = "submit"]

Stopped(g) == [g EXCEPT !.step = "submit"]

\* One turn of the loop.  Without an HTTP answer an exception ends the program.
AfterAnswer(g, answer) ==
  LET counted == [g EXCEPT !.calls = @ + 1]
      more    == counted.calls < g.task.llm
  IN
  CASE answer = "lost" -> [g EXCEPT !.step = "done"]
    [] answer = "guard" /\ CanDrop(g) -> Dropped(g)
    [] answer = "output" /\ ~g.rewrote /\ more -> [counted EXCEPT !.rewrote = TRUE]
    [] answer = "output" /\ ~(~g.rewrote /\ more) ->
         Stopped([counted EXCEPT !.unanswered = TRUE])
    [] answer = "canary" -> Stopped([counted EXCEPT !.tripped = TRUE])
    [] answer = "cut" /\ more /\ ~g.condense -> [counted EXCEPT !.condense = TRUE]
    [] answer = "tool" /\ ~LastTurn(g) -> [counted EXCEPT !.step = "tool"]
    [] OTHER -> Stopped(counted)

\* The run's time is up at the head of the loop, or too short to condense.
TimeUp(g) == Stopped(g)

\* A page was fetched, or a search or fetch came back from the gateway.
AfterTool(g, answer) ==
  IF answer = "lost" THEN [g EXCEPT !.step = "done"]
  ELSE Again([g EXCEPT !.step = "ask", !.steps = @ + 1,
                       !.tripped = @ \/ answer = "canary",
                       !.material = IF Reads(g) THEN @ + 1 ELSE 1])

\* The answer to the submission; the last line on the console is "done".
AfterSubmit(g, answer) ==
  [g EXCEPT !.step = "done",
            !.tripped = @ \/ answer = "canary",
            !.submit = CASE answer = "lost" -> "none"
                         [] answer = "final" -> "ok"
                         [] OTHER -> "failed"]
=============================================================================
