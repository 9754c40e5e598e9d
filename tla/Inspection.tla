------------------------------ MODULE Inspection ------------------------------
(***************************************************************************)
(* What inspect_artifact_content (gateway.py) says of the content of an    *)
(* artifact, when it is submitted and again before it is downloaded or     *)
(* reviewed.  A text is scanned and, like every text that a model wrote,   *)
(* goes through the snippet check; anything else needs a person.           *)
(***************************************************************************)
EXTENDS Guards

\* text: declared or found to be text; decodes: it is UTF-8; mismatch: it was
\* declared to be something else than what it looks like.
Media == [text: BOOLEAN, decodes: BOOLEAN, empty: BOOLEAN, mismatch: BOOLEAN]

\* "warnable": held for review by nothing but injection or obfuscation.
Findings == {"clean", "warnable", "needs_review", "blocked"}

\* A finding about the artifact and not about its text.
Flaw(severity) == [kind |-> "artifact", severity |-> severity, windows |-> 0, url |-> FALSE]

Scannable(media) == media.text /\ media.decodes /\ ~media.empty

Scans(media, found) ==
  IF Scannable(media) THEN SnippetCheck(InputScan(found), TRUE)
  ELSE {Judged({Flaw(4)}, Guard.block, Guard.review, FALSE)}

\* A wrong declaration is one more finding.
Mismatched(s, media) ==
  IF ~media.mismatch THEN s
  ELSE Judged(s.findings \cup {Flaw(3)}, Guard.block, Guard.review, s.blocked)

\* What no step of an inspection may drop.
Firm(found) ==
  {f \in found : f.kind \notin Lowerable(TRUE) \/ (f.kind = "conditional" /\ f.url)}

Warnable == {"injection", "phrase", "conditional"}

\* artifact_warning_eligible.
WarningEligible(s) ==
  /\ \E f \in s.findings : f.severity > 0
  /\ \A f \in s.findings : f.severity > 0 => f.kind \in Warnable

Concluded(s, media) ==
  CASE s.blocked -> "blocked"
    [] ~s.blocked /\ ~s.review /\ Scannable(media) /\ ~media.mismatch -> "clean"
    [] ~s.blocked /\ s.review /\ WarningEligible(s) -> "warnable"
    [] OTHER -> "needs_review"

\* The results an inspection may have, depending on what the small model says.
Inspected(media, found) ==
  {Concluded(Mismatched(s, media), media) : s \in Scans(media, found)}
=============================================================================
