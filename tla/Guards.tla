------------------------------- MODULE Guards -------------------------------
(***************************************************************************)
(* What the guards decide about one text (proxy.py, gateway.py): a request *)
(* on its way to a backend, or the answer on its way back.                 *)
(*                                                                         *)
(* A scanner finds a set of findings, each with a severity; their sum is   *)
(* the risk score, and two thresholds make it a block or a review.  After  *)
(* that, up to five steps each change the findings and judge them again:   *)
(* a small model is asked whether a finding only describes something (the  *)
(* snippet check), another model classifies the whole text (the LLM        *)
(* inspector), and the route may ignore, relax or demand something.        *)
(*                                                                         *)
(* The models answer what they want, or fail: where one is asked, the      *)
(* operators return the set of all possible results.  What the scanner     *)
(* finds in which text is left to the constants of a specification.        *)
(***************************************************************************)
EXTENDS Naturals, FiniteSets, FiniteSetsExt

CONSTANT
  Guard       \* the settings of the guards: a record, see Settings

-----------------------------------------------------------------------------
(* Findings *)

\* What the steps tell apart of the categories.  boundary: too long to be
\* inspected; injection: injection and obfuscation patterns never lowered;
\* phrase: those that SNIPPET_DOWNGRADABLE_CATEGORIES lists; conditional: those
\* lowered in answers only, away from URLs; in_path, out_path: local paths;
\* query, shape: a URL's query, and where a URL points; inspector: the LLM
\* inspector; not_object: an answer that is no JSON object; artifact: a content
\* that is empty, no text or not what it was declared to be.
Kinds ==
  {"boundary", "secret", "injection", "phrase", "conditional", "in_path",
   "out_path", "query", "shape", "inspector", "not_object", "artifact"}

\* What untrusted_url_findings and url_policy_findings say about where a URL
\* points; its scheme, its credentials and a sensitive query are secrets.
UrlKinds == {"query", "shape"}

\* windows: how many matches the pattern has in the text the snippet check
\* reads (none if it has no pattern); url: one of them is near a URL.
Finding == [kind: Kinds, severity: Nat, windows: Nat, url: BOOLEAN]

\* fetch: the answer is nothing but one fetch action, and its URL is the only
\* one with a query; object: it is a JSON object.
Reply == [found: SUBSET Finding, fetch: BOOLEAN, object: BOOLEAN]

\* What a route says about texts.
Policy ==
  [kind: {"openai_chat_completions", "http_json"},
   ignored: SUBSET Kinds,         \* input_policy.allow_scanner_findings
   review: BOOLEAN,               \* input_policy.block_on_review
   lenient: BOOLEAN,              \* output_policy.block_on_review is false
   tool: BOOLEAN,                 \* output_policy.untrusted_tool_result
   fetch: BOOLEAN,                \* output_policy.allow_fetch_query_to_run_hosts
   json: BOOLEAN]                 \* output_policy.require_json_object

\* The thresholds of texts and of answers; the snippet check; the inspector;
\* max_risk_score of quarantined reads.
Settings ==
  [block: Nat, review: Nat, outBlock: Nat, outReview: Nat, outStrict: BOOLEAN,
   snippet: BOOLEAN, snippetOutput: BOOLEAN, maxChecks: Nat,
   inspector: {"off", "open", "closed"}, inspectBlocked: BOOLEAN, minRisk: Nat,
   maxRisk: Nat]

ASSUME GuardAssumption == Guard \in Settings

-----------------------------------------------------------------------------
(* Scanning and judging *)

\* The risk score.
Score(findings) == MapThenSumSet(LAMBDA f : f.severity, findings)

\* The text was too long: whatever else is found, it was not inspected.
Incomplete(findings) == \E f \in findings : f.kind = "boundary"

Judged(findings, block, review, held) ==
  [findings |-> findings, blocked |-> held \/ Score(findings) >= block,
   review |-> Score(findings) >= review]

\* scan_text, merged with the scans of the concatenated parts of the text.
InputScan(found) == Judged(found, Guard.block, Guard.review, Incomplete(found))

OutputScan(found) == Judged(found, Guard.outBlock, Guard.outReview, Incomplete(found))

-----------------------------------------------------------------------------
(* The snippet check *)

Lowerable(output) ==
  {"phrase"} \cup IF output THEN {"in_path", "out_path", "conditional"} ELSE {}

\* How many snippet checks it takes to talk these findings down.
Matches(findings) == MapThenSumSet(LAMBDA f : f.windows, findings)

Candidates(s, output) ==
  {f \in s.findings : f.kind \in Lowerable(output) /\ f.severity > 0}

\* It is asked only about a text that is held, was inspected as a whole and
\* would not be blocked for its other findings alone.
IsChecked(s, output) ==
  /\ Guard.snippet /\ (output => Guard.snippetOutput)
  /\ s.blocked \/ s.review
  /\ ~Incomplete(s.findings)
  /\ Score(s.findings \ Candidates(s, output)) < Guard.block

\* Bug: in answers too, a conditional finding near a URL may be lowered.
LowerableSetsNearUrl(s, output) ==
  {low \in SUBSET Candidates(s, output) :
     /\ \A f \in low : f.windows > 0
     /\ Matches(low) <= Guard.maxChecks}

\* Bug: only the first matches of a finding are asked about.
LowerableSetsSampled(s, output) ==
  {low \in SUBSET Candidates(s, output) :
     \A f \in low : f.windows > 0 /\ ~(f.kind = "conditional" /\ f.url)}

\* Every match of a finding must be asked about and be a description, so that
\* findings can be lowered together only as far as the checks suffice.
LowerableSets(s, output) ==
  {low \in SUBSET Candidates(s, output) :
     /\ \A f \in low : f.windows > 0 /\ ~(f.kind = "conditional" /\ f.url)
     /\ Matches(low) <= Guard.maxChecks}

Lowered(f) == [f EXCEPT !.severity = 0]

\* An answer is judged again by the thresholds of texts, not of answers.
Lower(s, low) ==
  IF low = {} THEN s
  ELSE Judged((s.findings \ low) \cup {Lowered(f) : f \in low}, Guard.block, Guard.review, FALSE)

SnippetCheck(s, output) ==
  IF IsChecked(s, output) THEN {Lower(s, low) : low \in LowerableSets(s, output)} ELSE {s}

-----------------------------------------------------------------------------
(* Requests *)

\* What the inspector adds: a verdict, or its own failure when that counts.
Verdicts ==
  {[kind |-> "inspector", severity |-> n, windows |-> 0, url |-> FALSE] :
     n \in IF Guard.inspector = "closed" THEN {8, 9} ELSE {8}}

Inspect(s) ==
  IF \/ Guard.inspector = "off"
     \/ s.blocked /\ ~Guard.inspectBlocked
     \/ Score(s.findings) < Guard.minRisk
  THEN {s}
  ELSE {s} \cup {Judged(s.findings \cup {v}, Guard.block, Guard.review, s.blocked) : v \in Verdicts}

\* scan_inbound: what becomes of a text with these findings.
Inbound(found) == UNION {Inspect(s) : s \in SnippetCheck(InputScan(found), FALSE)}

\* The findings that count on a route; that of a text too long to be inspected
\* always does.
Counted(found, route) == {f \in found : f.kind \notin route.ignored \/ f.kind = "boundary"}

RoutePolicy(s, route) ==
  LET kept == Counted(s.findings, route) IN
  IF kept = s.findings THEN s
  ELSE Judged(kept, Guard.block, Guard.review, Incomplete(kept))

\* scan_inbound_for_route.
RoutedInbound(found, route) == {RoutePolicy(s, route) : s \in Inbound(found)}

InputBlocks(s, route) == s.blocked \/ (s.review /\ route.review)

\* What may be shown to a model without tools.
InjectionKinds == {"injection", "phrase", "conditional", "inspector", "in_path"}

QuarantineEligible(s) ==
  /\ \A f \in s.findings : f.severity > 0 => f.kind \in InjectionKinds
  /\ Score(s.findings) <= Guard.maxRisk

-----------------------------------------------------------------------------
(* Answers *)

\* UNTRUSTED_TOOL_RESULT_RELAXABLE.
Relaxable == UrlKinds \cup {"in_path", "out_path"}

Without(s, dropped) ==
  LET kept == {f \in s.findings : f.kind \notin dropped} IN
  IF kept = s.findings THEN s
  ELSE Judged(kept, Guard.outBlock, Guard.outReview, Incomplete(kept))

\* A tool's result: the shape of its URLs says nothing.
RelaxToolResult(s, route) ==
  IF route.tool /\ route.kind = "http_json" THEN Without(s, Relaxable) ELSE s

\* A fetch action for a host that the parent registered for the run.
RelaxFetchAction(s, route, reply, hosts) ==
  IF route.fetch /\ hosts /\ reply.fetch THEN Without(s, {"query"}) ELSE s

\* What the route and the snippet check may let go of in an answer: a
\* conditional finding only if it is not near a URL.
Yields(route, f) ==
  IF route.kind = "openai_chat_completions"
  THEN \/ f.kind \in Lowerable(TRUE) /\ ~(f.kind = "conditional" /\ f.url)
       \/ f.kind = "query" /\ route.fetch
  ELSE route.tool /\ f.kind \in Relaxable

NotObject == [kind |-> "not_object", severity |-> 8, windows |-> 0, url |-> FALSE]

\* An earlier block stays; the thresholds of answers count again.
RequireObject(s, route, reply) ==
  IF ~route.json THEN s
  ELSE Judged(s.findings \cup (IF reply.object THEN {} ELSE {NotObject}),
              Guard.outBlock, Guard.outReview, s.blocked)

\* enforce_output_guard: what becomes of an answer.
Outbound(reply, route, hosts) ==
  LET s == RelaxToolResult(OutputScan(reply.found), route) IN
  {RequireObject(c, route, reply) :
     c \in IF route.kind = "openai_chat_completions"
           THEN SnippetCheck(RelaxFetchAction(s, route, reply, hosts), TRUE) ELSE {s}}

OutputBlocks(s, route) == s.blocked \/ (s.review /\ ~route.lenient /\ Guard.outStrict)

=============================================================================
