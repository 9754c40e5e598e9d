------------------------ MODULE MCResearchService ------------------------
(* Constants for model checking ResearchService: no symmetry, a liveness *)
(* property is checked.                                                  *)
EXTENDS ResearchService

CONSTANTS home, away, blocked, here, there

\* The host limit admits only the first host, so the second is reached by a
\* redirect or not at all.
MCHostOf == [u \in Urls |-> IF u = away THEN there ELSE here]
MCSeedSets == {{home, blocked}}
=============================================================================
