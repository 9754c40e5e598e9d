-------------------------- MODULE MCArtifactStore --------------------------
(* Constants for model checking ArtifactStore. *)
EXTENDS ArtifactStore, TLC

CONSTANTS text, summary, picture, t1, t2

Settings8 ==
  [block |-> 8, review |-> 4, outBlock |-> 8, outReview |-> 4, outStrict |-> TRUE,
   snippet |-> TRUE, snippetOutput |-> TRUE, maxChecks |-> 3,
   inspector |-> "off", inspectBlocked |-> FALSE, minRisk |-> 1, maxRisk |-> 13]

F(kind, severity) ==
  [kind |-> kind, severity |-> severity, windows |-> 1, url |-> FALSE]

TextMedia == [text |-> TRUE, decodes |-> TRUE, empty |-> FALSE, mismatch |-> FALSE]

\* The picture is declared to be a text.
ThreeMedia ==
  [c \in {text, summary, picture} |->
     IF c = picture THEN [TextMedia EXCEPT !.text = FALSE, !.decodes = FALSE, !.mismatch = TRUE]
     ELSE TextMedia]

\* One policy finds nothing; the next one finds in text a phrase that can be
\* talked down and an injection that cannot; the last one a secret.
NothingFound  == [c \in DOMAIN ThreeMedia |-> {}]
PhrasesFound  == [NothingFound EXCEPT ![text] = {F("phrase", 5), F("injection", 4)}]
SecretFound   == [NothingFound EXCEPT ![text] = {F("phrase", 5), F("secret", 4)}]

AllScanners == {NothingFound, PhrasesFound, SecretFound}

Released  == {"verified", "verified_with_warnings"}
OneRoute  == {Released}

IdAndThreadSymmetry == Permutations(Ids) \cup Permutations(Threads)
=============================================================================
