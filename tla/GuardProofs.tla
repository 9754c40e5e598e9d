---------------------------- MODULE GuardProofs ----------------------------
(***************************************************************************)
(* Theorems about Guards and Inspection, for any findings and settings:    *)
(* what may pass the guards.  They rest on how sums over findings grow;    *)
(* the sums of the library are recursive functions that pick one element   *)
(* after the other, in an order of their own.                              *)
(***************************************************************************)
EXTENDS Inspection, FiniteSetTheorems, WellFoundedInduction, TLAPS

\* A set of subsets of a finite set has a minimal one.
LEMMA MinimalSet ==
  ASSUME NEW S, IsFiniteSet(S), NEW T, T \subseteq SUBSET S, T # {}
  PROVE  \E m \in T : \A n \in T : ~(n \subseteq m /\ n # m)
<1>1. T \subseteq FiniteSubsetsOf(S)
  BY FS_Subset DEF FiniteSubsetsOf
<1>2. PICK m \in T : \A n \in T : ~ (<<n, m>> \in StrictSubsetOrdering(S))
  BY <1>1, FS_StrictSubsetOrderingWellFounded, WFMin
<1>3. \A n \in T : ~(n \subseteq m /\ n # m)
  BY <1>1, <1>2 DEF StrictSubsetOrdering, FiniteSubsetsOf
<1> QED BY <1>3

\* The element a sum takes next.
Chosen(s) == CHOOSE x \in s : TRUE

\* How a sum goes on, one element less.
Added(w, g, s) == IF s = {} THEN 0 ELSE w[Chosen(s)] + g[s \ {Chosen(s)}]

\* g has the sums of the weights w over the subsets of S.
Adds(w, g, S) == g = [s \in SUBSET S |-> Added(w, g, s)]

LEMMA ChosenIn == ASSUME NEW s, s # {} PROVE Chosen(s) \in s
BY DEF Chosen

LEMMA AddsAt ==
  ASSUME NEW w, NEW g, NEW S, Adds(w, g, S), NEW T \in SUBSET S
  PROVE  /\ T = {} => g[T] = 0
         /\ T # {} => /\ Chosen(T) \in T /\ T \ {Chosen(T)} \in SUBSET S
                      /\ T \ {Chosen(T)} # T
                      /\ g[T] = w[Chosen(T)] + g[T \ {Chosen(T)}]
<1>1. g[T] = Added(w, g, T)
  BY DEF Adds
<1>2. T # {} => Chosen(T) \in T
  BY ChosenIn
<1> QED
  BY <1>1, <1>2 DEF Added

\* They are determined by the weights.
LEMMA SumsAgree ==
  ASSUME NEW w, NEW g, NEW h, NEW S, NEW R, Adds(w, g, S), Adds(w, h, R), IsFiniteSet(S),
         NEW T \in SUBSET S, T \subseteq R
  PROVE  g[T] = h[T]
<1> DEFINE bad == {A \in SUBSET S : A \subseteq R /\ g[A] # h[A]}
<1> SUFFICES ASSUME bad # {} PROVE FALSE
  OBVIOUS
<1>1. PICK A \in bad : \A n \in bad : ~(n \subseteq A /\ n # A)
  <2>1. bad \subseteq SUBSET S
    OBVIOUS
  <2> HIDE DEF bad
  <2> QED
    BY <2>1, MinimalSet
<1>2. A # {}
  BY AddsAt
<1>3. A \ {Chosen(A)} \notin bad
  BY <1>1, <1>2, AddsAt
<1> QED
  BY <1>2, <1>3, AddsAt

\* There are such sums.
LEMMA SumsExist ==
  ASSUME NEW w, NEW S, IsFiniteSet(S)
  PROVE  \E g : Adds(w, g, S)
<1> DEFINE bad == {A \in SUBSET S : ~\E g : Adds(w, g, A)}
           some(A) == CHOOSE g : Adds(w, g, A)
           total(A) == some(A)[A]
<1> SUFFICES ASSUME bad # {} PROVE FALSE
  OBVIOUS
<1>1. PICK A \in bad : \A n \in bad : ~(n \subseteq A /\ n # A)
  <2>1. bad \subseteq SUBSET S
    OBVIOUS
  <2> HIDE DEF bad
  <2> QED
    BY <2>1, MinimalSet
<1>2. \A B \in SUBSET A : B # A => Adds(w, some(B), B) /\ IsFiniteSet(B)
  <2>1. \A B \in SUBSET A : B # A => \E g : Adds(w, g, B)
    BY <1>1
  <2> QED
    BY <2>1, FS_Subset, <1>1
<1> DEFINE h == [s \in SUBSET A |-> IF s = {} THEN 0 ELSE w[Chosen(s)] + total(s \ {Chosen(s)})]
<1> HIDE DEF bad, some
<1>3. ASSUME NEW s \in SUBSET A, s # {}
      PROVE  h[s \ {Chosen(s)}] = total(s \ {Chosen(s)})
  <2> DEFINE r == s \ {Chosen(s)}
             q == r \ {Chosen(r)}
  <2>1. r \in SUBSET A /\ r # A
    BY <1>3, ChosenIn
  <2>2. Adds(w, some(r), r) /\ r \in SUBSET r
    BY <1>2, <2>1
  <2>3. CASE r = {}
    BY <2>1, <2>2, <2>3, AddsAt
  <2>4. CASE r # {}
    <3>1. q \in SUBSET r /\ q # A /\ q \in SUBSET A
      BY <2>1, <2>4, ChosenIn
    <3>2. some(r)[r] = w[Chosen(r)] + some(r)[q]
      <4> HIDE DEF r
      <4> QED
        BY <2>2, <2>4, AddsAt
    <3>3. Adds(w, some(q), q) /\ IsFiniteSet(q) /\ q \subseteq r /\ q \in SUBSET q
      BY <1>2, <3>1
    <3>4. some(r)[q] = some(q)[q]
      BY <2>2, <3>3, SumsAgree
    <3>5. h[r] = w[Chosen(r)] + total(q)
      BY <2>1, <2>4
    <3> QED
      BY <3>2, <3>4, <3>5
  <2> QED
    BY <2>3, <2>4
<1>4. Adds(w, h, A)
  <2>1. ASSUME NEW s \in SUBSET A PROVE h[s] = Added(w, h, s)
    BY <1>3 DEF Added
  <2> QED
    BY <2>1 DEF Adds
<1> QED
  BY <1>1, <1>4 DEF bad

\* An element's weight may be taken off in any order.
LEMMA SumsWithout ==
  ASSUME NEW U, NEW w \in [U -> Nat], NEW S \in SUBSET U, IsFiniteSet(S), NEW g, Adds(w, g, S),
         NEW T \in SUBSET S
  PROVE  g[T] \in Nat /\ \A x \in T : g[T] = w[x] + g[T \ {x}]
<1> DEFINE good(A) == g[A] \in Nat /\ \A x \in A : g[A] = w[x] + g[A \ {x}]
           bad == {A \in SUBSET S : ~good(A)}
<1> SUFFICES ASSUME bad # {} PROVE FALSE
  OBVIOUS
<1>1. PICK A \in bad : \A n \in bad : ~(n \subseteq A /\ n # A)
  <2>1. bad \subseteq SUBSET S
    OBVIOUS
  <2> HIDE DEF bad
  <2> QED
    BY <2>1, MinimalSet
<1>2. A # {}
  <2>1. A = {} => g[A] = 0
    BY AddsAt, <1>1
  <2> QED
    BY <1>1, <2>1
<1> DEFINE c == Chosen(A)
<1>3. c \in A /\ g[A] = w[c] + g[A \ {c}]
  BY <1>2, AddsAt
<1>4. \A x \in A : good(A \ {x})
  BY <1>1
<1>5. \A x \in A : w[x] \in Nat /\ g[A \ {x}] \in Nat
  BY <1>4
<1>6. g[A] \in Nat
  <2>1. w[c] \in Nat /\ g[A \ {c}] \in Nat
    BY <1>3, <1>5
  <2> HIDE DEF c, bad
  <2> QED
    BY <1>3, <2>1
<1>7. ASSUME NEW x \in A, x # c PROVE g[A] = w[x] + g[A \ {x}]
  <2> DEFINE B == (A \ {x}) \ {c}
  <2>1. B = (A \ {c}) \ {x} /\ c \in A \ {x} /\ x \in A \ {c}
    BY <1>3, <1>7
  <2>2. g[A \ {x}] = w[c] + g[B]
    BY <1>4, <2>1
  <2>3. g[A \ {c}] = w[x] + g[B]
    BY <1>3, <1>4, <2>1
  <2>4. g[B] \in Nat
    <3>1. A \ {x} \notin bad
      BY <1>1
    <3>2. B \in SUBSET S /\ B \notin bad
      BY <1>1, <2>1
    <3> QED
      BY <3>2
  <2> QED
    BY <1>3, <1>5, <2>2, <2>3, <2>4
<1>8. good(A)
  BY <1>3, <1>6, <1>7
<1> QED
  BY <1>1, <1>8

\* Fewer elements do not weigh more.
LEMMA SumsGrow ==
  ASSUME NEW U, NEW w \in [U -> Nat], NEW S \in SUBSET U, IsFiniteSet(S), NEW g, Adds(w, g, S),
         NEW B \in SUBSET S, NEW A \in SUBSET B
  PROVE  g[A] <= g[B]
<1> DEFINE bad == {T \in SUBSET S : ~\A R \in SUBSET T : g[R] <= g[T]}
<1> SUFFICES ASSUME bad # {} PROVE FALSE
  OBVIOUS
<1>1. PICK T \in bad : \A n \in bad : ~(n \subseteq T /\ n # T)
  <2>1. bad \subseteq SUBSET S
    OBVIOUS
  <2> HIDE DEF bad
  <2> QED
    BY <2>1, MinimalSet
<1>2. PICK R \in SUBSET T : ~(g[R] <= g[T])
  BY <1>1
<1>3. g[R] \in Nat /\ g[T] \in Nat
  BY <1>1, <1>2, SumsWithout
<1>4. PICK x \in T : x \notin R
  BY <1>2, <1>3
<1>5. g[T] = w[x] + g[T \ {x}] /\ w[x] \in Nat
  BY <1>1, <1>4, SumsWithout
<1>6. g[T \ {x}] \in Nat /\ T \ {x} \in SUBSET S
  BY <1>1, <1>4, SumsWithout
<1>7. R \in SUBSET (T \ {x}) /\ T \ {x} \notin bad
  BY <1>1, <1>2, <1>4
<1>8. g[R] <= g[T \ {x}]
  BY <1>6, <1>7
<1> QED
  BY <1>2, <1>3, <1>5, <1>6, <1>8

\* The two weights of a finding, and the sums of them.
Severity == [f \in Finding |-> f.severity]
Windows  == [f \in Finding |-> f.windows]

LEMMA WeightTypes == Severity \in [Finding -> Nat] /\ Windows \in [Finding -> Nat]
BY DEF Severity, Windows, Finding

LEMMA ScoreIsSum ==
  ASSUME NEW S \in SUBSET Finding, IsFiniteSet(S)
  PROVE  \E g : Adds(Severity, g, S) /\ Score(S) = g[S]
<1> DEFINE body(g, s) == IF s = {} THEN 0 ELSE Chosen(s).severity + g[s \ {Chosen(s)}]
           sums(g) == g = [s \in SUBSET S |-> body(g, s)]
<1>1. Score(S) = (CHOOSE g : sums(g))[S]
  BY Zenon DEF Score, MapThenSumSet, MapThenFoldSet, Chosen
<1>2. ASSUME NEW g PROVE sums(g) <=> Adds(Severity, g, S)
  <2>1. ASSUME NEW s \in SUBSET S PROVE body(g, s) = Added(Severity, g, s)
    BY ChosenIn DEF Added, Severity
  <2> HIDE DEF body
  <2> QED
    BY <2>1, Zenon DEF Adds
<1>3. \E g : sums(g)
  BY <1>2, SumsExist
<1> HIDE DEF sums
<1>4. sums(CHOOSE g : sums(g))
  BY <1>3
<1> QED
  BY <1>1, <1>2, <1>4

LEMMA MatchesAreSum ==
  ASSUME NEW S \in SUBSET Finding, IsFiniteSet(S)
  PROVE  \E g : Adds(Windows, g, S) /\ Matches(S) = g[S]
<1> DEFINE body(g, s) == IF s = {} THEN 0 ELSE Chosen(s).windows + g[s \ {Chosen(s)}]
           sums(g) == g = [s \in SUBSET S |-> body(g, s)]
<1>1. Matches(S) = (CHOOSE g : sums(g))[S]
  BY Zenon DEF Matches, MapThenSumSet, MapThenFoldSet, Chosen
<1>2. ASSUME NEW g PROVE sums(g) <=> Adds(Windows, g, S)
  <2>1. ASSUME NEW s \in SUBSET S PROVE body(g, s) = Added(Windows, g, s)
    BY ChosenIn DEF Added, Windows
  <2> HIDE DEF body
  <2> QED
    BY <2>1, Zenon DEF Adds
<1>3. \E g : sums(g)
  BY <1>2, SumsExist
<1> HIDE DEF sums
<1>4. sums(CHOOSE g : sums(g))
  BY <1>3
<1> QED
  BY <1>1, <1>2, <1>4

\* What is found in a part weighs no more than what is found in the whole.
LEMMA ScoreGrows ==
  ASSUME NEW B \in SUBSET Finding, IsFiniteSet(B), NEW A \in SUBSET B
  PROVE  Score(A) \in Nat /\ Score(B) \in Nat /\ Score(A) <= Score(B)
<1>1. IsFiniteSet(A) /\ A \in SUBSET Finding /\ A \in SUBSET A /\ B \in SUBSET B
  BY FS_Subset
<1>2. PICK a : Adds(Severity, a, A) /\ Score(A) = a[A]
  BY <1>1, ScoreIsSum
<1>3. PICK b : Adds(Severity, b, B) /\ Score(B) = b[B]
  BY ScoreIsSum
<1>4. a[A] = b[A]
  BY <1>1, <1>2, <1>3, SumsAgree
<1>5. b[A] \in Nat /\ b[B] \in Nat
  BY <1>1, <1>3, WeightTypes, SumsWithout
<1>6. b[A] <= b[B]
  BY <1>1, <1>3, WeightTypes, SumsGrow
<1> QED
  BY <1>2, <1>3, <1>4, <1>5, <1>6

LEMMA MatchesGrow ==
  ASSUME NEW B \in SUBSET Finding, IsFiniteSet(B), NEW A \in SUBSET B
  PROVE  Matches(A) \in Nat /\ Matches(B) \in Nat /\ Matches(A) <= Matches(B)
<1>1. IsFiniteSet(A) /\ A \in SUBSET Finding /\ A \in SUBSET A /\ B \in SUBSET B
  BY FS_Subset
<1>2. PICK a : Adds(Windows, a, A) /\ Matches(A) = a[A]
  BY <1>1, MatchesAreSum
<1>3. PICK b : Adds(Windows, b, B) /\ Matches(B) = b[B]
  BY MatchesAreSum
<1>4. a[A] = b[A]
  BY <1>1, <1>2, <1>3, SumsAgree
<1>5. b[A] \in Nat /\ b[B] \in Nat
  BY <1>1, <1>3, WeightTypes, SumsWithout
<1>6. b[A] <= b[B]
  BY <1>1, <1>3, WeightTypes, SumsGrow
<1> QED
  BY <1>2, <1>3, <1>4, <1>5, <1>6

-----------------------------------------------------------------------------
(* The snippet check *)

Found == {found \in SUBSET Finding : IsFiniteSet(found)}

LEMMA FoundSubset == ASSUME NEW B \in Found, NEW A \in SUBSET B PROVE A \in Found
BY FS_Subset DEF Found

LEMMA FoundUnion == ASSUME NEW A \in Found, NEW B \in Found PROVE A \cup B \in Found
BY FS_Union DEF Found

LEMMA FoundOne == ASSUME NEW f \in Finding PROVE {f} \in Found
BY FS_Singleton DEF Found

LEMMA Thresholds ==
  /\ Guard.block \in Nat /\ Guard.review \in Nat /\ Guard.maxChecks \in Nat
  /\ Guard.outBlock \in Nat /\ Guard.outReview \in Nat
BY GuardAssumption DEF Settings

LEMMA LoweredFound ==
  ASSUME NEW low \in Found
  PROVE  {Lowered(f) : f \in low} \in Found
<1> DEFINE image == {Lowered(f) : f \in low}
           g == [f \in low |-> Lowered(f)]
<1>1. image \in SUBSET Finding
  BY DEF Found, Finding, Lowered
<1>2. g \in Surjection(low, image)
  BY Zenon DEF Surjection
<1>3. IsFiniteSet(image)
  BY <1>2, FS_Surjection DEF Found
<1> QED
  BY <1>1, <1>3 DEF Found

\* A set of findings that the small model may talk down.
MayLower(found, low, output) ==
  /\ low \in SUBSET found /\ Matches(low) <= Guard.maxChecks
  /\ \A f \in low : /\ f.kind \in Lowerable(output) /\ f.windows > 0
                    /\ ~(f.kind = "conditional" /\ f.url)

\* A result of the snippet check leaves a scan as it was, or everything but
\* what was talked down, and judges it by the thresholds of texts.
LEMMA Snippets ==
  ASSUME NEW s, s.findings \in Found, NEW output, NEW c \in SnippetCheck(s, output)
  PROVE  \/ c = s
         \/ \E low : /\ MayLower(s.findings, low, output)
                     /\ ~Incomplete(s.findings)
                     /\ c.findings \in Found /\ s.findings \ low \subseteq c.findings
                     /\ c.blocked <=> Score(c.findings) >= Guard.block
                     /\ c.review <=> Score(c.findings) >= Guard.review
<1> SUFFICES ASSUME c # s
             PROVE \E low : /\ MayLower(s.findings, low, output)
                            /\ ~Incomplete(s.findings)
                            /\ c.findings \in Found /\ s.findings \ low \subseteq c.findings
                            /\ c.blocked <=> Score(c.findings) >= Guard.block
                            /\ c.review <=> Score(c.findings) >= Guard.review
  OBVIOUS
<1>1. IsChecked(s, output)
  BY DEF SnippetCheck
<1>2. PICK low \in LowerableSets(s, output) : c = Lower(s, low)
  BY <1>1 DEF SnippetCheck
<1> DEFINE after == (s.findings \ low) \cup {Lowered(f) : f \in low}
<1>3. c = Judged(after, Guard.block, Guard.review, FALSE)
  BY <1>2 DEF Lower
<1>4. MayLower(s.findings, low, output)
  BY <1>2 DEF LowerableSets, Candidates, MayLower
<1>5. low \in Found /\ s.findings \ low \in Found
  BY <1>4, FoundSubset DEF MayLower
<1>6. after \in Found
  BY <1>5, LoweredFound, FoundUnion
<1>7. /\ c.findings = after
      /\ c.blocked <=> Score(after) >= Guard.block
      /\ c.review <=> Score(after) >= Guard.review
  BY <1>3, Zenon DEF Judged
<1> QED
  BY <1>1, <1>4, <1>6, <1>7 DEF IsChecked

LEMMA NothingLowered == ASSUME NEW found, NEW output PROVE MayLower(found, {}, output)
<1>1. {} \in SUBSET Finding /\ IsFiniteSet({}) /\ {} \in SUBSET {}
  BY FS_EmptySet
<1>2. PICK g : Adds(Windows, g, {}) /\ Matches({}) = g[{}]
  BY <1>1, MatchesAreSum
<1>3. Matches({}) = 0
  BY <1>1, <1>2, AddsAt
<1> QED
  BY <1>3, Thresholds DEF MayLower

-----------------------------------------------------------------------------
(* Requests *)

\* What a scan with the thresholds of texts and the snippet check say of a text.
LEMMA CheckKeeps ==
  ASSUME NEW found \in Found, NEW output, NEW c \in SnippetCheck(InputScan(found), output)
  PROVE  /\ c.findings \in Found
         /\ c.blocked <=> Incomplete(found) \/ Score(c.findings) >= Guard.block
         /\ c.review <=> Score(c.findings) >= Guard.review
         /\ \E low : MayLower(found, low, output) /\ found \ low \subseteq c.findings
<1> DEFINE s == InputScan(found)
<1>1. /\ s.findings = found
      /\ s.blocked <=> Incomplete(found) \/ Score(found) >= Guard.block
      /\ s.review <=> Score(found) >= Guard.review
  BY Zenon DEF InputScan, Judged
<1>2. CASE c = s
  BY <1>1, <1>2, NothingLowered
<1>3. CASE c # s
  BY <1>1, <1>3, Snippets
<1> QED
  BY <1>2, <1>3

LEMMA VerdictsFound == ASSUME NEW v \in Verdicts PROVE v \in Finding
<1>1. PICK n \in {8, 9} : v = [kind |-> "inspector", severity |-> n, windows |-> 0, url |-> FALSE]
  BY DEF Verdicts
<1>2. n \in Nat
  BY <1>1
<1> QED
  BY <1>1, <1>2 DEF Finding, Kinds

\* scan_inbound drops nothing but what was talked down.
LEMMA InboundKeeps ==
  ASSUME NEW found \in Found, NEW i \in Inbound(found)
  PROVE  /\ i.findings \in Found
         /\ ~i.blocked => ~Incomplete(found) /\ Score(i.findings) < Guard.block
         /\ \E low : MayLower(found, low, FALSE) /\ found \ low \subseteq i.findings
<1>1. PICK c \in SnippetCheck(InputScan(found), FALSE) : i \in Inspect(c)
  BY DEF Inbound
<1>2. /\ c.findings \in Found
      /\ c.blocked <=> Incomplete(found) \/ Score(c.findings) >= Guard.block
      /\ \E low : MayLower(found, low, FALSE) /\ found \ low \subseteq c.findings
  BY CheckKeeps
<1>3. Score(c.findings) \in Nat
  BY <1>2, ScoreGrows DEF Found
<1>4. CASE i = c
  <2>1. ~c.blocked => ~Incomplete(found) /\ Score(c.findings) < Guard.block
    BY <1>2, <1>3, Thresholds
  <2> QED
    BY <1>2, <1>4, <2>1, Zenon
<1>5. CASE i # c
  <2>1. PICK v \in Verdicts :
          i = Judged(c.findings \cup {v}, Guard.block, Guard.review, c.blocked)
    BY <1>1, <1>5, Zenon DEF Inspect
  <2>2. /\ i.findings = c.findings \cup {v}
        /\ i.blocked <=> c.blocked \/ Score(i.findings) >= Guard.block
    BY <2>1, Zenon DEF Judged
  <2>3. i.findings \in Found
    BY <1>2, <2>2, VerdictsFound, FoundOne, FoundUnion
  <2>4. Score(i.findings) \in Nat
    BY <2>3, ScoreGrows DEF Found
  <2>5. ~i.blocked => ~Incomplete(found) /\ Score(i.findings) < Guard.block
    BY <1>2, <2>2, <2>4, Thresholds
  <2>6. c.findings \subseteq i.findings
    BY <2>2, Zenon
  <2> QED
    BY <1>2, <2>3, <2>5, <2>6, Zenon
<1> QED
  BY <1>4, <1>5

\* scan_inbound_for_route: what a route cannot ignore and the small model
\* cannot talk down, together with what it can but had no checks left for,
\* does not weigh enough to block a text that passes; no text passes that was
\* not inspected as a whole.
THEOREM TextsThatPass ==
  ASSUME NEW found \in Found, NEW route, NEW s \in RoutedInbound(found, route), ~s.blocked
  PROVE  LET counted == Counted(found, route) IN
         /\ ~Incomplete(counted)
         /\ \E low : MayLower(counted, low, FALSE) /\ Score(counted \ low) < Guard.block
<1> DEFINE counted == Counted(found, route)
<1>1. PICK i \in Inbound(found) : s = RoutePolicy(i, route)
  BY DEF RoutedInbound
<1>2. /\ i.findings \in Found
      /\ ~i.blocked => ~Incomplete(found) /\ Score(i.findings) < Guard.block
  BY InboundKeeps
<1>3. PICK low : MayLower(found, low, FALSE) /\ found \ low \subseteq i.findings
  BY InboundKeeps
<1> DEFINE kept == Counted(i.findings, route)
<1>4. kept \in Found /\ counted \ low \subseteq kept
  BY <1>2, <1>3, FoundSubset DEF Counted
<1>5. Score(kept) < Guard.block /\ ~Incomplete(counted)
  <2>1. CASE kept = i.findings
    <3>1. s = i
      BY <1>1, <2>1 DEF RoutePolicy, Counted
    <3> QED
      BY <1>2, <2>1, <3>1 DEF Incomplete, Counted
  <2>2. CASE kept # i.findings
    <3>1. s = Judged(kept, Guard.block, Guard.review, Incomplete(kept))
      BY <1>1, <2>2 DEF RoutePolicy, Counted
    <3>2. ~Incomplete(kept) /\ ~(Score(kept) >= Guard.block)
      BY <3>1, Zenon DEF Judged
    <3>3. ~Incomplete(counted)
      <4> SUFFICES ASSUME NEW f \in counted, f.kind = "boundary" PROVE FALSE
        BY DEF Incomplete
      <4>1. f \notin low
        BY <1>3 DEF MayLower, Lowerable
      <4> QED
        BY <1>4, <3>2, <4>1 DEF Incomplete
    <3>4. Score(kept) \in Nat
      BY <1>4, ScoreGrows DEF Found
    <3> QED
      BY <3>2, <3>3, <3>4, Thresholds
  <2> QED
    BY <2>1, <2>2
<1>6. MayLower(counted, low \cap counted, FALSE)
  <2>1. low \in Found
    BY <1>3, FoundSubset DEF MayLower
  <2>2. /\ Matches(low \cap counted) \in Nat /\ Matches(low) \in Nat
        /\ Matches(low \cap counted) <= Matches(low)
    BY <2>1, MatchesGrow DEF Found
  <2>3. Matches(low) <= Guard.maxChecks
    BY <1>3 DEF MayLower
  <2>4. Matches(low \cap counted) <= Guard.maxChecks
    BY <2>2, <2>3, Thresholds
  <2> QED
    BY <1>3, <2>4 DEF MayLower
<1>7. Score(counted \ (low \cap counted)) < Guard.block
  <2>1. counted \ (low \cap counted) \in SUBSET kept
    BY <1>4
  <2>2. /\ Score(counted \ (low \cap counted)) \in Nat /\ Score(kept) \in Nat
        /\ Score(counted \ (low \cap counted)) <= Score(kept)
    BY <1>4, <2>1, ScoreGrows DEF Found
  <2> QED
    BY <1>5, <2>2, Thresholds
<1> QED
  BY <1>5, <1>6, <1>7

\* quarantine_eligible: a quarantined read takes nothing but what is about
\* injection and what the route ignores.
THEOREM QuarantinedTexts ==
  ASSUME NEW found \in Found, NEW route, NEW s \in RoutedInbound(found, route),
         QuarantineEligible(s), NEW f \in found, f.severity > 0
  PROVE  f.kind \in InjectionKinds \cup (route.ignored \ {"boundary"})
<1> SUFFICES ASSUME f.kind \notin InjectionKinds, f.kind \notin route.ignored \/ f.kind = "boundary"
             PROVE  FALSE
  OBVIOUS
<1>1. PICK i \in Inbound(found) : s = RoutePolicy(i, route)
  BY DEF RoutedInbound
<1>2. PICK low : MayLower(found, low, FALSE) /\ found \ low \subseteq i.findings
  BY InboundKeeps
<1>3. f \notin low
  BY <1>2 DEF MayLower, Lowerable, InjectionKinds
<1>4. f \in i.findings
  BY <1>2, <1>3
<1>5. f \in s.findings
  BY <1>1, <1>4 DEF RoutePolicy, Counted, Judged
<1> QED
  BY <1>5 DEF QuarantineEligible

-----------------------------------------------------------------------------
(* Answers *)

\* What a step of the output guard that drops kinds of findings keeps.
LEMMA WithoutKeeps ==
  ASSUME NEW s, s.findings \in Found, NEW dropped, "boundary" \notin dropped,
         s.blocked <=> Incomplete(s.findings) \/ Score(s.findings) >= Guard.outBlock,
         NEW w, w = Without(s, dropped)
  PROVE  /\ w.findings \in Found /\ w.findings \subseteq s.findings
         /\ \A f \in s.findings : f.kind \notin dropped => f \in w.findings
         /\ w.blocked <=> Incomplete(w.findings) \/ Score(w.findings) >= Guard.outBlock
         /\ Incomplete(w.findings) <=> Incomplete(s.findings)
<1> DEFINE kept == {f \in s.findings : f.kind \notin dropped}
<1>1. kept \in Found
  BY FoundSubset
<1>2. CASE kept = s.findings
  BY <1>2 DEF Without
<1>3. CASE kept # s.findings
  <2> DEFINE j == Judged(kept, Guard.outBlock, Guard.outReview, Incomplete(kept))
  <2>1. w = j
    BY <1>3 DEF Without
  <2>2. /\ j.findings = kept
        /\ j.blocked <=> Incomplete(kept) \/ Score(kept) >= Guard.outBlock
    BY Zenon DEF Judged
  <2>3. Incomplete(kept) <=> Incomplete(s.findings)
    BY DEF Incomplete
  <2>4. kept \subseteq s.findings /\ \A f \in s.findings : f.kind \notin dropped => f \in kept
    OBVIOUS
  <2> HIDE DEF kept, j
  <2> QED
    BY <1>1, <2>1, <2>2, <2>3, <2>4
<1> QED
  BY <1>2, <1>3

\* The findings of an answer once a tool's result or a fetch action is relaxed.
LEMMA RelaxedKeeps ==
  ASSUME NEW reply, reply.found \in Found, NEW route \in Policy, NEW hosts,
         NEW r, r = RelaxToolResult(OutputScan(reply.found), route),
         NEW s, s = IF route.kind = "openai_chat_completions"
                    THEN RelaxFetchAction(r, route, reply, hosts) ELSE r
  PROVE  /\ s.findings \in Found
         /\ \A f \in reply.found : f \in s.findings \/ Yields(route, f)
         /\ s.blocked <=> Incomplete(s.findings) \/ Score(s.findings) >= Guard.outBlock
         /\ Incomplete(s.findings) <=> Incomplete(reply.found)
<1> DEFINE scan == OutputScan(reply.found)
<1>1. /\ scan.findings = reply.found
      /\ scan.blocked <=> Incomplete(reply.found) \/ Score(reply.found) >= Guard.outBlock
  BY Zenon DEF OutputScan, Judged
<1>2. "boundary" \notin Relaxable /\ "boundary" \notin {"query"}
  BY DEF Relaxable, UrlKinds
<1>3. CASE route.kind = "openai_chat_completions"
  <2>1. r = scan
    BY <1>3 DEF RelaxToolResult
  <2>2. CASE route.fetch /\ hosts /\ reply.fetch
    <3>1. s = Without(scan, {"query"})
      BY <1>3, <2>1, <2>2 DEF RelaxFetchAction
    <3>2. \A f \in reply.found : f.kind \in {"query"} => Yields(route, f)
      BY <1>3, <2>2 DEF Yields
    <3> HIDE DEF scan
    <3> QED
      BY <1>1, <1>2, <3>1, <3>2, WithoutKeeps
  <2>3. CASE ~(route.fetch /\ hosts /\ reply.fetch)
    BY <1>1, <1>3, <2>1, <2>3 DEF RelaxFetchAction
  <2> QED
    BY <2>2, <2>3
<1>4. CASE route.kind # "openai_chat_completions"
  <2>1. CASE route.tool /\ route.kind = "http_json"
    <3>1. s = Without(scan, Relaxable)
      BY <1>4, <2>1 DEF RelaxToolResult
    <3>2. \A f \in reply.found : f.kind \in Relaxable => Yields(route, f)
      BY <1>4, <2>1 DEF Yields
    <3> HIDE DEF scan
    <3> QED
      BY <1>1, <1>2, <3>1, <3>2, WithoutKeeps
  <2>2. CASE ~(route.tool /\ route.kind = "http_json")
    BY <1>1, <1>4, <2>2 DEF RelaxToolResult
  <2> QED
    BY <2>1, <2>2
<1> QED
  BY <1>3, <1>4

\* enforce_output_guard: an answer that passes was inspected as a whole, and
\* what may not be dropped of it weighs too little to be withheld, by the
\* thresholds of answers or by those of texts.
THEOREM AnswersThatPass ==
  ASSUME NEW reply, reply.found \in Found, NEW route \in Policy, NEW hosts,
         NEW c \in Outbound(reply, route, hosts), ~c.blocked
  PROVE  LET firm == {f \in reply.found : ~Yields(route, f)} IN
         /\ ~Incomplete(reply.found)
         /\ Score(firm) < Guard.outBlock \/ Score(firm) < Guard.block
<1> DEFINE firm == {f \in reply.found : ~Yields(route, f)}
           r == RelaxToolResult(OutputScan(reply.found), route)
           s == IF route.kind = "openai_chat_completions"
                THEN RelaxFetchAction(r, route, reply, hosts) ELSE r
<1>1. PICK k \in IF route.kind = "openai_chat_completions" THEN SnippetCheck(s, TRUE) ELSE {s} :
        c = RequireObject(k, route, reply)
  BY DEF Outbound
<1>2. ~k.blocked
  BY <1>1 DEF RequireObject, Judged
<1>3. /\ s.findings \in Found
      /\ \A f \in reply.found : f \in s.findings \/ Yields(route, f)
      /\ s.blocked <=> Incomplete(s.findings) \/ Score(s.findings) >= Guard.outBlock
      /\ Incomplete(s.findings) <=> Incomplete(reply.found)
  BY RelaxedKeeps
<1> HIDE DEF s, r
<1>4. firm \in SUBSET s.findings
  BY <1>3
<1>5. CASE k = s
  <2>1. Score(firm) \in Nat /\ Score(s.findings) \in Nat /\ Score(firm) <= Score(s.findings)
    BY <1>3, <1>4, ScoreGrows DEF Found
  <2>2. ~Incomplete(reply.found) /\ ~(Score(s.findings) >= Guard.outBlock)
    BY <1>2, <1>3, <1>5
  <2>3. Score(firm) < Guard.outBlock
    BY <2>1, <2>2, Thresholds
  <2> QED
    BY <2>2, <2>3
<1>6. CASE k # s
  <2>1. route.kind = "openai_chat_completions" /\ k \in SnippetCheck(s, TRUE)
    BY <1>1, <1>6
  <2>2. PICK low : /\ MayLower(s.findings, low, TRUE)
                   /\ ~Incomplete(s.findings)
                   /\ k.findings \in Found /\ s.findings \ low \subseteq k.findings
                   /\ k.blocked <=> Score(k.findings) >= Guard.block
    BY <1>3, <1>6, <2>1, Snippets
  <2>3. \A f \in low : Yields(route, f)
    BY <2>1, <2>2 DEF MayLower, Yields
  <2>4. firm \in SUBSET k.findings
    BY <1>4, <2>2, <2>3
  <2>5. Score(firm) \in Nat /\ Score(k.findings) \in Nat /\ Score(firm) <= Score(k.findings)
    BY <2>2, <2>4, ScoreGrows DEF Found
  <2>6. Score(firm) < Guard.block
    BY <1>2, <2>2, <2>5, Thresholds
  <2> QED
    BY <1>3, <2>2, <2>6
<1> QED
  BY <1>5, <1>6

-----------------------------------------------------------------------------
(* Contents of artifacts *)

\* inspect_artifact_content: what is clean, or warnable, is a whole text that
\* is what it was declared to be; what may not be talked down in it weighs too
\* little for a review, or is injection and weighs too little for a block.
THEOREM ContentsThatPass ==
  ASSUME NEW media \in Media, NEW found \in Found,
         NEW result \in Inspected(media, found), result \in {"clean", "warnable"}
  PROVE  /\ Scannable(media) /\ ~media.mismatch /\ ~Incomplete(found)
         /\ result = "clean" => Score(Firm(found)) < Guard.review
         /\ Score(Firm(found)) < Guard.block
         /\ result = "warnable" => \A f \in Firm(found) : f.severity > 0 => f.kind \in Warnable
<1>1. PICK k \in Scans(media, found) : result = Concluded(Mismatched(k, media), media)
  BY DEF Inspected
<1> DEFINE s == Mismatched(k, media)
<1>2. /\ ~s.blocked
      /\ result = "clean" => ~s.review /\ Scannable(media) /\ ~media.mismatch
      /\ result = "warnable" => WarningEligible(s)
  BY <1>1 DEF Concluded
<1>3. \A n \in {3, 4} : Flaw(n).severity > 0 /\ Flaw(n).kind \notin Warnable
  BY DEF Flaw, Warnable
<1>4. Scannable(media) /\ ~media.mismatch
  <2>1. SUFFICES ASSUME result = "warnable" PROVE Scannable(media) /\ ~media.mismatch
    BY <1>2
  <2>2. \A f \in s.findings : f.severity > 0 => f.kind \in Warnable
    BY <1>2, <2>1 DEF WarningEligible
  <2>3. CASE media.mismatch
    <3>1. Flaw(3) \in s.findings
      BY <2>3 DEF Mismatched, Judged
    <3> QED
      BY <1>3, <2>2, <3>1
  <2>4. CASE ~media.mismatch /\ ~Scannable(media)
    <3>1. s = Judged({Flaw(4)}, Guard.block, Guard.review, FALSE)
      BY <2>4 DEF Mismatched, Scans
    <3>2. Flaw(4) \in s.findings
      BY <3>1 DEF Judged
    <3> QED
      BY <1>3, <2>2, <3>2
  <2> QED
    BY <2>3, <2>4
<1>5. s = k /\ k \in SnippetCheck(InputScan(found), TRUE)
  BY <1>4 DEF Mismatched, Scans
<1>6. /\ k.findings \in Found
      /\ k.blocked <=> Incomplete(found) \/ Score(k.findings) >= Guard.block
      /\ k.review <=> Score(k.findings) >= Guard.review
      /\ \E low : MayLower(found, low, TRUE) /\ found \ low \subseteq k.findings
  BY <1>5, CheckKeeps
<1>7. Firm(found) \in SUBSET k.findings
  <2>1. PICK low : MayLower(found, low, TRUE) /\ found \ low \subseteq k.findings
    BY <1>6
  <2>2. \A f \in Firm(found) : f \notin low
    BY <2>1 DEF MayLower, Firm
  <2> QED
    BY <2>1, <2>2 DEF Firm
<1>8. /\ Score(Firm(found)) \in Nat /\ Score(k.findings) \in Nat
      /\ Score(Firm(found)) <= Score(k.findings)
  BY <1>6, <1>7, ScoreGrows DEF Found
<1> HIDE DEF s
<1>9. ~Incomplete(found) /\ ~(Score(k.findings) >= Guard.block)
  BY <1>2, <1>5, <1>6
<1>10. result = "clean" => ~(Score(k.findings) >= Guard.review)
  BY <1>2, <1>5, <1>6
<1>11. /\ Score(Firm(found)) < Guard.block
       /\ result = "clean" => Score(Firm(found)) < Guard.review
  BY <1>8, <1>9, <1>10, Thresholds
<1>12. ASSUME result = "warnable", NEW f \in Firm(found), f.severity > 0 PROVE f.kind \in Warnable
  BY <1>2, <1>5, <1>7, <1>12 DEF WarningEligible
<1> QED
  BY <1>4, <1>9, <1>11, <1>12

=============================================================================
