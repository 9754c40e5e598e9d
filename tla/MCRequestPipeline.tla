-------------------------- MODULE MCRequestPipeline --------------------------
(* Constants for model checking RequestPipeline. *)
EXTENDS RequestPipeline, TLC

CONSTANTS worker, parent

\* Findings: f has n matches, f near a URL is conditional.
F(kind, severity, windows) ==
  [kind |-> kind, severity |-> severity, windows |-> windows, url |-> kind = "conditional"]

\* The defaults, with all checks enabled and fewer snippet checks.
Settings8 ==
  [block |-> 8, review |-> 4, outBlock |-> 8, outReview |-> 4, outStrict |-> TRUE,
   snippet |-> TRUE, snippetOutput |-> TRUE, maxChecks |-> 3,
   inspector |-> "closed", inspectBlocked |-> FALSE, minRisk |-> 1, maxRisk |-> 13]

\* A model for text only, and a tool.
Chat ==
  [kind |-> "openai_chat_completions", ignored |-> {"boundary"}, review |-> FALSE,
   lenient |-> FALSE, tool |-> FALSE, fetch |-> TRUE, json |-> FALSE]
Search ==
  [kind |-> "http_json", ignored |-> {"boundary", "shape"}, review |-> TRUE,
   lenient |-> TRUE, tool |-> TRUE, fetch |-> FALSE, json |-> TRUE]

Plain(a) ==
  [kind |-> "routed", agent |-> a, for |-> a, decoy |-> FALSE, canary |-> {},
   found |-> {}, route |-> Chat, action |-> "none"]

\* A small budget, and the last place it reaches.
SmallBudget == [depth |-> 1, strings |-> 2, candidates |-> 1]
LastPlace   == [depth |-> 1, strings |-> 1, candidates |-> 1]

\* A worker that relays a canary, with an action that needs an approval and a
\* phrase that can be talked down; calls a decoy; or asks for what the guards
\* block, with more phrases than can be checked.  Approvals, also of its own
\* action, and texts it only asks about.
ManyShapes ==
  [canary |-> [Plain(worker) EXCEPT !.canary = {LastPlace}, !.action = "approvable",
                 !.found = {F("phrase", 8, 2)}, !.route = Search],
   decoy |-> [Plain(worker) EXCEPT !.decoy = TRUE],
   harmful |-> [Plain(worker) EXCEPT !.action = "forbidden",
                 !.found = {F("injection", 3, 2), F("phrase", 5, 2), F("phrase", 5, 3)}],
   approval |-> [Plain(parent) EXCEPT !.kind = "approval", !.for = worker,
                   !.canary = {[LastPlace EXCEPT !.depth = 2]}],
   inspect |-> [Plain(worker) EXCEPT !.kind = "inspect"],
   selfish |-> [Plain(worker) EXCEPT !.kind = "approval"]]

FewReplies ==
  [action |-> [found |-> {F("query", 8, 0)}, fetch |-> TRUE, object |-> TRUE],
   text |-> [found |-> {F("conditional", 8, 1), F("out_path", 8, 1)}, fetch |-> FALSE, object |-> FALSE]]

\* A run in test mode is in none once that has expired.
TwoModes ==
  {[mode |-> m, exp |-> 1, hosts |-> m # "test"] : m \in {"test", "quarantined"}}

Symmetry == Permutations(Threads)
=============================================================================
