--------------------------- MODULE TraceTrees_proofs ---------------------------
(* Lemmas about the operators TraceWaterfall is built from: finite orders and *)
(* what Sorted makes of them, loops written as recursive functions, trees of  *)
(* spans, what is above a span, and the order of the visit.                   *)
EXTENDS TraceWaterfall, FiniteSetTheorems, WellFoundedInduction, TLAPS

-----------------------------------------------------------------------------
(* Induction over an interval, and loops *)

\* A set that holds 0 and with every number below n the next holds 0..n.
LEMMA IntervalInduction ==
  ASSUME NEW n \in Nat, NEW G,
         0 \in G, \A k \in 0..n-1 : k \in G => k + 1 \in G
  PROVE  0..n \subseteq G
  <1> DEFINE bad == (0..n) \ G
             below == {0..k : k \in bad}
  <1> SUFFICES ASSUME bad # {} PROVE FALSE
      OBVIOUS
  <1>1. below # {} /\ below \subseteq SUBSET (0..n)
      OBVIOUS
  <1>2. below \subseteq FiniteSubsetsOf(0..n)
    <2>1. IsFiniteSet(0..n)
        BY FS_Interval
    <2>2. FiniteSubsetsOf(0..n) = SUBSET (0..n)
        BY <2>1, FS_FiniteSubsetsOfFinite
    <2> QED BY <1>1, <2>2
  <1>3. PICK B \in below : \A A \in below : <<A, B>> \notin StrictSubsetOrdering(0..n)
    <2> HIDE DEF below
    <2> QED BY <1>1, <1>2, FS_StrictSubsetOrderingWellFounded, WFMin
  <1>4. PICK k \in bad : B = 0..k
      OBVIOUS
  <1>5. k - 1 \in (0..n-1) /\ k - 1 \in G
    <2>1. k - 1 \in 0..n-1
        OBVIOUS
    <2>2. ASSUME k - 1 \notin G PROVE FALSE
      <3>1. (0..k-1) \in below
          BY <2>1, <2>2
      <3>2. (0..k-1) \subseteq B /\ (0..k-1) # B /\ k \in B /\ k \notin 0..k-1
          BY <1>4
      <3> QED BY <1>1, <1>3, <3>1, <3>2 DEF StrictSubsetOrdering
    <2> QED BY <2>1, <2>2
  <1> QED
      BY <1>5

\* A loop of n steps over values of D, and what it goes through from x.
IsLoop(D, n, step) == step \in [1..n -> [D -> D]]
IsRun(n, x, step, g) == g[0] = x /\ \A k \in 1..n : g[k] = step[k][g[k - 1]]

\* A loop has a run.
LEMMA LoopRuns ==
  ASSUME NEW D, NEW n \in Nat, NEW x \in D, NEW step, IsLoop(D, n, step)
  PROVE  \E g \in [0..n -> D] : IsRun(n, x, step, g)
  <1> DEFINE G == {m \in 0..n : \E g \in [0..m -> D] : IsRun(m, x, step, g)}
  <1>1. 0 \in G
    <2> DEFINE g == [m \in 0..0 |-> x]
    <2>1. g \in [0..0 -> D] /\ IsRun(0, x, step, g)
        BY DEF IsRun
    <2> HIDE DEF g
    <2> QED BY <2>1
  <1>2. ASSUME NEW k \in 0..n-1, k \in G PROVE k + 1 \in G
    <2>1. PICK g \in [0..k -> D] : IsRun(k, x, step, g)
        BY <1>2
    <2> DEFINE h == [m \in 0..k+1 |-> IF m = k + 1 THEN step[k + 1][g[k]] ELSE g[m]]
    <2>2. h \in [0..k+1 -> D]
        BY DEF IsLoop
    <2>3. IsRun(k + 1, x, step, h)
        BY <2>1 DEF IsRun
    <2>4. k + 1 \in 0..n
        OBVIOUS
    <2> HIDE DEF h
    <2> QED BY <2>2, <2>3, <2>4
  <1> HIDE DEF G
  <1>3. n \in G
      BY <1>1, <1>2, IntervalInduction, n \in 0..n
  <1> QED BY <1>3 DEF G

-----------------------------------------------------------------------------
(* Finite orders *)

\* The pairs of "before" order the members of ids strictly and totally.
Irreflexive(before, ids) == \A i \in ids : <<i, i>> \notin before
Transitive(before, ids) ==
  \A i, j, k \in ids : <<i, j>> \in before /\ <<j, k>> \in before => <<i, k>> \in before
Total(before, ids) ==
  \A i, j \in ids : i # j => <<i, j>> \in before \/ <<j, i>> \in before
StrictOrder(before, ids) ==
  Irreflexive(before, ids) /\ Transitive(before, ids) /\ Total(before, ids)

\* How many come before one of them.
Before(i, ids, before) == {j \in ids : <<j, i>> \in before}
Place(i, ids, before)  == Cardinality(Before(i, ids, before))

\* Fewer are before what comes first.
LEMMA PlaceGrows ==
  ASSUME NEW ids, IsFiniteSet(ids), NEW before, StrictOrder(before, ids),
         NEW i \in ids, NEW j \in ids, <<i, j>> \in before
  PROVE  Place(i, ids, before) < Place(j, ids, before)
  <1> DEFINE A == Before(i, ids, before)
             B == Before(j, ids, before)
  <1>1. A \subseteq B /\ i \in B /\ i \notin A /\ B \subseteq ids
      BY DEF StrictOrder, Transitive, Irreflexive, Before
  <1> HIDE DEF A, B
  <1>2. IsFiniteSet(B)
      BY <1>1, FS_Subset
  <1>3. /\ IsFiniteSet(A)
        /\ Cardinality(A) <= Cardinality(B)
        /\ Cardinality(A) # Cardinality(B)
      BY <1>1, <1>2, FS_Subset
  <1>4. Cardinality(A) \in Nat /\ Cardinality(B) \in Nat
      BY <1>2, <1>3, FS_CardinalityType
  <1> QED
      BY <1>3, <1>4 DEF Place, A, B

\* There are places 0 to n - 1.
LEMMA PlaceBounded ==
  ASSUME NEW ids, IsFiniteSet(ids), NEW before, StrictOrder(before, ids), NEW i \in ids
  PROVE  Place(i, ids, before) \in 0..Cardinality(ids)-1
  <1> DEFINE A == Before(i, ids, before)
  <1>1. A \subseteq ids /\ i \notin A
      BY DEF StrictOrder, Irreflexive, Before
  <1>2. Cardinality(A) \in Nat /\ Cardinality(ids) \in Nat
      BY <1>1, FS_Subset, FS_CardinalityType
  <1>3. Cardinality(A) <= Cardinality(ids) /\ Cardinality(A) # Cardinality(ids)
      BY <1>1, FS_Subset
  <1> QED
      BY <1>2, <1>3 DEF Place

\* Every place is taken, by one.
LEMMA PlaceOnto ==
  ASSUME NEW ids, IsFiniteSet(ids), NEW before, StrictOrder(before, ids)
  PROVE  /\ \A n \in 1..Cardinality(ids) : \E i \in ids : Place(i, ids, before) = n - 1
         /\ \A i, j \in ids : Place(i, ids, before) = Place(j, ids, before) => i = j
  <1> DEFINE n == Cardinality(ids)
             place == [i \in ids |-> Place(i, ids, before)]
  <1>1. n \in Nat
      BY FS_CardinalityType
  <1>2. place \in [ids -> 0..n-1]
      BY PlaceBounded
  <1>3. \A i, j \in ids : Place(i, ids, before) = Place(j, ids, before) => i = j
    <2> SUFFICES ASSUME NEW i \in ids, NEW j \in ids, i # j
                 PROVE  Place(i, ids, before) # Place(j, ids, before)
        OBVIOUS
    <2>1. <<i, j>> \in before \/ <<j, i>> \in before
        BY DEF StrictOrder, Total
    <2>2. Place(i, ids, before) \in Int /\ Place(j, ids, before) \in Int
        BY PlaceBounded, <1>1
    <2> QED BY <2>1, <2>2, PlaceGrows
  <1>4. place \in Injection(ids, 0..n-1)
      BY <1>2, <1>3 DEF Injection, IsInjective
  <1>5. IsFiniteSet(0..n-1) /\ Cardinality(0..n-1) = n
      BY <1>1, FS_Interval
  <1>6. place \in Surjection(ids, 0..n-1)
    <2> HIDE DEF place
    <2> QED BY <1>4, <1>5, FS_Injection
  <1>7. \A m \in 0..n-1 : \E i \in ids : place[i] = m
    <2> HIDE DEF place
    <2> QED BY <1>6 DEF Surjection
  <1> QED
      BY <1>1, <1>3, <1>7

\* Sorted lists the members of a finite order, each once, the first first.
LEMMA SortedLists ==
  ASSUME NEW ids, IsFiniteSet(ids), NEW before, StrictOrder(before, ids),
         NEW s, s = Sorted(ids, before), NEW n, n = Cardinality(ids)
  PROVE  /\ n \in Nat
         /\ s \in [1..n -> ids]
         /\ \A i \in ids : \E k \in 1..n : s[k] = i
         /\ \A m, k \in 1..n : m < k => <<s[m], s[k]>> \in before
         /\ \A m, k \in 1..n : s[m] = s[k] => m = k
  <1>1. n \in Nat
      BY FS_CardinalityType
  <1>2. \A k \in 1..n : s[k] \in ids /\ Place(s[k], ids, before) = k - 1
    <2> SUFFICES ASSUME NEW k \in 1..n
                 PROVE  s[k] \in ids /\ Place(s[k], ids, before) = k - 1
        OBVIOUS
    <2>1. s[k] = CHOOSE i \in ids : Place(i, ids, before) = k - 1
        BY DEF Sorted, Place, Before
    <2>2. \E i \in ids : Place(i, ids, before) = k - 1
        BY PlaceOnto
    <2> QED BY <2>1, <2>2
  <1>3. s \in [1..n -> ids]
      BY <1>2 DEF Sorted
  <1>4. \A i \in ids : \E k \in 1..n : s[k] = i
    <2> SUFFICES ASSUME NEW i \in ids PROVE \E k \in 1..n : s[k] = i
        OBVIOUS
    <2> DEFINE k == Place(i, ids, before) + 1
    <2>1. Place(i, ids, before) \in 0..n-1
        BY PlaceBounded
    <2>2. k \in 1..n /\ k - 1 = Place(i, ids, before)
        BY <2>1, <1>1
    <2> HIDE DEF k
    <2> QED BY <2>2, <1>2, PlaceOnto
  <1>5. ASSUME NEW m \in 1..n, NEW k \in 1..n, m < k PROVE <<s[m], s[k]>> \in before
    <2>1. /\ s[m] \in ids /\ s[k] \in ids
          /\ Place(s[m], ids, before) = m - 1 /\ Place(s[k], ids, before) = k - 1
        BY <1>2
    <2>2. s[m] # s[k]
        BY <2>1, <1>5, <1>1
    <2>3. <<s[k], s[m]>> \notin before
        BY <2>1, <1>5, <1>1, PlaceGrows
    <2> QED BY <2>1, <2>2, <2>3 DEF StrictOrder, Total
  <1>6. ASSUME NEW m \in 1..n, NEW k \in 1..n, s[m] = s[k] PROVE m = k
      BY <1>1, <1>2, <1>6
  <1> QED
      BY <1>1, <1>3, <1>4, <1>5, <1>6

\* A finite order has a first.
LEMMA FirstExists ==
  ASSUME NEW ids, IsFiniteSet(ids), ids # {}, NEW before, StrictOrder(before, ids)
  PROVE  \E i \in ids : \A j \in ids : j = i \/ <<i, j>> \in before
  <1> DEFINE s == Sorted(ids, before)
             n == Cardinality(ids)
  <1>1. /\ n \in Nat /\ s \in [1..n -> ids]
        /\ \A i \in ids : \E k \in 1..n : s[k] = i
        /\ \A m, k \in 1..n : m < k => <<s[m], s[k]>> \in before
      BY SortedLists
  <1> HIDE DEF s, n
  <1>2. 1 \in 1..n
      BY <1>1
  <1>3. \A j \in ids : j = s[1] \/ <<s[1], j>> \in before
    <2> SUFFICES ASSUME NEW j \in ids PROVE j = s[1] \/ <<s[1], j>> \in before
        OBVIOUS
    <2>1. PICK k \in 1..n : s[k] = j
        BY <1>1
    <2>2. k = 1 \/ 1 < k
        BY <1>1
    <2> QED BY <1>1, <1>2, <2>1, <2>2
  <1> QED BY <1>1, <1>2, <1>3

-----------------------------------------------------------------------------
(* Spans and ids *)

\* The ids of a trace are finitely many, none is NoParent, and each finds a
\* span of the trace that bears it.
LEMMA SpanFacts ==
  ASSUME NEW spans \in Seq(InputSpan)
  PROVE  /\ IsFiniteSet(Ids(spans)) /\ Cardinality(Ids(spans)) <= Len(spans)
         /\ Ids(spans) \subseteq Nat \ {NoParent}
         /\ \A i \in Ids(spans) : /\ SpanOf(spans, i) \in InputSpan
                                  /\ SpanOf(spans, i).id = i
                                  /\ \E k \in DOMAIN spans : SpanOf(spans, i) = spans[k]
  <1> DEFINE f == [k \in 1..Len(spans) |-> spans[k].id]
  <1>1. Len(spans) \in Nat /\ DOMAIN spans = 1..Len(spans)
        /\ \A k \in DOMAIN spans : spans[k] \in InputSpan
      OBVIOUS
  <1>2. f \in Surjection(1..Len(spans), Ids(spans))
      BY <1>1 DEF Surjection, Ids
  <1>3. IsFiniteSet(1..Len(spans)) /\ Cardinality(1..Len(spans)) = Len(spans)
      BY <1>1, FS_Interval
  <1>4. IsFiniteSet(Ids(spans)) /\ Cardinality(Ids(spans)) <= Len(spans)
    <2> HIDE DEF f
    <2> QED BY <1>2, <1>3, FS_Surjection
  <1>5. Ids(spans) \subseteq Nat \ {NoParent}
      BY <1>1 DEF Ids, InputSpan
  <1>6. ASSUME NEW i \in Ids(spans)
        PROVE  /\ SpanOf(spans, i) \in InputSpan /\ SpanOf(spans, i).id = i
               /\ \E k \in DOMAIN spans : SpanOf(spans, i) = spans[k]
    <2>1. PICK k \in DOMAIN spans : spans[k].id = i
        BY DEF Ids
    <2> QED BY <1>1, <2>1 DEF SpanOf
  <1> QED BY <1>4, <1>5, <1>6

\* When no id is given twice each span is found by its own.
LEMMA DistinctSpans ==
  ASSUME NEW spans \in Seq(InputSpan), Distinct(spans)
  PROVE  /\ \A k, m \in DOMAIN spans : spans[k].id = spans[m].id => k = m
         /\ \A k \in DOMAIN spans : SpanOf(spans, spans[k].id) = spans[k]
  <1> DEFINE f == [k \in 1..Len(spans) |-> spans[k].id]
  <1>1. Len(spans) \in Nat /\ DOMAIN spans = 1..Len(spans)
      OBVIOUS
  <1>2. f \in Surjection(1..Len(spans), Ids(spans))
      BY <1>1 DEF Surjection, Ids
  <1>3. IsFiniteSet(1..Len(spans)) /\ Cardinality(1..Len(spans)) = Len(spans)
      BY <1>1, FS_Interval
  <1>4. f \in Injection(1..Len(spans), Ids(spans))
    <2> HIDE DEF f
    <2> QED BY <1>2, <1>3, FS_Surjection DEF Distinct
  <1>5. \A k, m \in DOMAIN spans : spans[k].id = spans[m].id => k = m
    <2>1. \A k, m \in 1..Len(spans) : f[k] = f[m] => k = m
      <3> HIDE DEF f
      <3> QED BY <1>4 DEF Injection, IsInjective
    <2> QED BY <1>1, <2>1
  <1>6. ASSUME NEW k \in DOMAIN spans PROVE SpanOf(spans, spans[k].id) = spans[k]
    <2>1. spans[k].id \in Ids(spans)
        BY DEF Ids
    <2>2. PICK m \in DOMAIN spans : SpanOf(spans, spans[k].id) = spans[m]
        BY <2>1, SpanFacts
    <2>3. SpanOf(spans, spans[k].id).id = spans[k].id
        BY <2>1, SpanFacts
    <2> QED BY <2>2, <2>3, <1>5
  <1> QED BY <1>5, <1>6

-----------------------------------------------------------------------------
(* What is above a span *)

\* Sets of spans that hold the parents of their members.
Closed(spans, S) == S \subseteq Ids(spans) /\ \A i \in S : Up(spans, i) \subseteq S

\* The closure is the least closed set around its spans.
LEMMA ClosureIsLeast ==
  ASSUME NEW spans, NEW ids \in SUBSET Ids(spans)
  PROVE  /\ ids \subseteq AncestorClosure(spans, ids)
         /\ Closed(spans, AncestorClosure(spans, ids))
         /\ \A S : Closed(spans, S) /\ ids \subseteq S => AncestorClosure(spans, ids) \subseteq S
  <1> DEFINE C == AncestorClosure(spans, ids)
             closed == {S \in SUBSET Ids(spans) : ids \subseteq S /\ \A i \in S : Up(spans, i) \subseteq S}
  <1>1. C = {j \in Ids(spans) : \A S \in closed : j \in S}
      BY DEF AncestorClosure
  <1>2. \A S : S \in closed <=> Closed(spans, S) /\ ids \subseteq S
      BY DEF Closed
  <1> HIDE DEF C, closed
  <1>3. ids \subseteq C
      BY <1>1, <1>2
  <1>4. \A S : Closed(spans, S) /\ ids \subseteq S => C \subseteq S
      BY <1>1, <1>2
  <1>5. ASSUME NEW i \in C, NEW p \in Up(spans, i) PROVE p \in C
    <2>1. p \in Ids(spans)
        BY DEF Up
    <2>2. \A S \in closed : p \in S
        BY <1>1, <1>2, <1>5 DEF Closed
    <2> QED BY <1>1, <2>1, <2>2
  <1>6. Closed(spans, C)
      BY <1>1, <1>5 DEF Closed
  <1> QED BY <1>3, <1>4, <1>6 DEF C

\* What is closed is its own closure.
LEMMA ClosureOfClosed ==
  ASSUME NEW spans, NEW S, Closed(spans, S)
  PROVE  AncestorClosure(spans, S) = S
  <1>1. S \in SUBSET Ids(spans)
      BY DEF Closed
  <1> QED BY <1>1, ClosureIsLeast

\* The closure of a union is the union of the closures.
LEMMA ClosureOfUnion ==
  ASSUME NEW spans, NEW A \in SUBSET Ids(spans), NEW B \in SUBSET Ids(spans)
  PROVE  AncestorClosure(spans, A \cup B) = AncestorClosure(spans, A) \cup AncestorClosure(spans, B)
  <1> DEFINE a == AncestorClosure(spans, A)
             b == AncestorClosure(spans, B)
             c == AncestorClosure(spans, A \cup B)
  <1>1. /\ A \subseteq a /\ Closed(spans, a)
        /\ \A S : Closed(spans, S) /\ A \subseteq S => a \subseteq S
      BY ClosureIsLeast
  <1>2. /\ B \subseteq b /\ Closed(spans, b)
        /\ \A S : Closed(spans, S) /\ B \subseteq S => b \subseteq S
      BY ClosureIsLeast
  <1>3. /\ A \cup B \subseteq c /\ Closed(spans, c)
        /\ \A S : Closed(spans, S) /\ A \cup B \subseteq S => c \subseteq S
      BY ClosureIsLeast
  <1> HIDE DEF a, b, c
  <1>4. Closed(spans, a \cup b)
      BY <1>1, <1>2 DEF Closed
  <1>5. c \subseteq a \cup b
      BY <1>1, <1>2, <1>3, <1>4
  <1>6. a \subseteq c /\ b \subseteq c
      BY <1>1, <1>2, <1>3
  <1> QED BY <1>5, <1>6 DEF a, b, c

\* The chain of a span: the span, its parent, and nothing that is not closed.
LEMMA ChainFacts ==
  ASSUME NEW spans, NEW i \in Ids(spans)
  PROVE  /\ i \in Chain(spans, i) /\ Chain(spans, i) \subseteq Ids(spans)
         /\ \A j \in Chain(spans, i) : Up(spans, j) \subseteq Chain(spans, i)
         /\ \A S : Closed(spans, S) /\ i \in S => Chain(spans, i) \subseteq S
  BY ClosureIsLeast DEF Chain, Closed

\* What is above something above i is above i.
LEMMA ChainTransitive ==
  ASSUME NEW spans, NEW i \in Ids(spans), NEW j \in Chain(spans, i)
  PROVE  j \in Ids(spans) /\ Chain(spans, j) \subseteq Chain(spans, i)
  <1>1. j \in Ids(spans) /\ Closed(spans, Chain(spans, i))
      BY ChainFacts DEF Closed
  <1> QED BY <1>1, ChainFacts

\* A chain is the span and the chain of its parent.
LEMMA ChainUnfolds ==
  ASSUME NEW spans, NEW i \in Ids(spans), NEW j \in Chain(spans, i)
  PROVE  j = i \/ \E p \in Up(spans, i) : j \in Chain(spans, p)
  <1> DEFINE S == {i} \cup UNION {Chain(spans, p) : p \in Up(spans, i)}
  <1>1. Up(spans, i) \subseteq Ids(spans)
      BY DEF Up
  <1>2. \A p \in Up(spans, i) : Closed(spans, Chain(spans, p)) /\ p \in Chain(spans, p)
      BY <1>1, ChainFacts DEF Closed
  <1>3. Closed(spans, S)
      BY <1>1, <1>2 DEF Closed
  <1>4. Chain(spans, i) \subseteq S
    <2> HIDE DEF S
    <2>1. i \in S
        BY DEF S
    <2> QED BY <1>3, <2>1, ChainFacts
  <1> QED BY <1>4

\* Of two spans above a third one is above the other.
LEMMA ChainIsLinear ==
  ASSUME NEW spans, NEW i \in Ids(spans),
         NEW x \in Chain(spans, i), NEW y \in Chain(spans, i)
  PROVE  x \in Chain(spans, y) \/ y \in Chain(spans, x)
  <1> DEFINE C == Chain(spans, i)
             S == {z \in C : \A w \in C : z \in Chain(spans, w) \/ w \in Chain(spans, z)}
  <1>1. i \in C /\ C \subseteq Ids(spans) /\ \A z \in C : Up(spans, z) \subseteq C
      BY ChainFacts
  <1> HIDE DEF C
  <1>2. i \in S
      BY <1>1 DEF C
  <1>3. ASSUME NEW z \in S, NEW p \in Up(spans, z) PROVE p \in S
    <2>1. p \in C /\ z \in C
        BY <1>1, <1>3
    <2>2. ASSUME NEW w \in C PROVE p \in Chain(spans, w) \/ w \in Chain(spans, p)
      <3>1. CASE z \in Chain(spans, w)
          BY <3>1, <1>1, <2>1, ChainFacts
      <3>2. CASE w \in Chain(spans, z)
        <4>1. w = z \/ \E q \in Up(spans, z) : w \in Chain(spans, q)
            BY <3>2, <1>1, <2>1, ChainUnfolds
        <4>2. \A q \in Up(spans, z) : q = p
            BY DEF Up
        <4>3. p \in Chain(spans, z)
            BY <1>1, <2>1, ChainFacts
        <4> QED BY <4>1, <4>2, <4>3
      <3> QED BY <1>3, <2>1, <2>2, <3>1, <3>2
    <2> QED BY <2>1, <2>2
  <1>4. Closed(spans, S)
      BY <1>1, <1>3 DEF Closed
  <1>5. C \subseteq S
    <2> HIDE DEF S
    <2> QED BY <1>2, <1>4, ChainFacts DEF C
  <1> QED BY <1>5 DEF C

-----------------------------------------------------------------------------
(* Trees *)

\* A trace whose spans make one tree: what Validated asks, but for the times.
OneTree(spans) ==
  /\ spans \in Seq(InputSpan)
  /\ Distinct(spans)
  /\ Cardinality(Roots(spans)) = 1
  /\ \A i \in Ids(spans) : SpanOf(spans, i).parent \in Ids(spans) \cup {NoParent}
  /\ ~HasCycle(spans)

Parent(spans, i) == SpanOf(spans, i).parent

\* There is one root, every other span has its parent, and the root is above
\* every span.
LEMMA TreeFacts ==
  ASSUME NEW spans, OneTree(spans)
  PROVE  /\ NoParent \notin Ids(spans)
         /\ \A i \in Ids(spans) : Parent(spans, i) \in Ids(spans) \/ Parent(spans, i) = NoParent
         /\ \A i \in Ids(spans) : Up(spans, i) =
              IF Parent(spans, i) = NoParent THEN {} ELSE {Parent(spans, i)}
         /\ RootOf([spans |-> spans]) \in Ids(spans)
         /\ Roots(spans) = {RootOf([spans |-> spans])}
         /\ \A i \in Ids(spans) :
              Parent(spans, i) = NoParent <=> i = RootOf([spans |-> spans])
         /\ \A i \in Ids(spans) : RootOf([spans |-> spans]) \in Chain(spans, i)
  <1> DEFINE root == RootOf([spans |-> spans])
  <1>1. NoParent \notin Ids(spans) /\ IsFiniteSet(Ids(spans))
      BY SpanFacts DEF OneTree
  <1>2. \A i \in Ids(spans) : Parent(spans, i) \in Ids(spans) \/ Parent(spans, i) = NoParent
      BY DEF OneTree, Parent
  <1>3. \A i \in Ids(spans) : Up(spans, i) =
              IF Parent(spans, i) = NoParent THEN {} ELSE {Parent(spans, i)}
      BY <1>1, <1>2 DEF Up, Parent
  <1>4. PICK r : Roots(spans) = {r}
    <2>1. Roots(spans) \subseteq Ids(spans)
        BY DEF Roots
    <2>2. IsFiniteSet(Roots(spans))
        BY <1>1, <2>1, FS_Subset
    <2> QED BY <2>2, FS_Singleton DEF OneTree
  <1>5. root = r
      BY <1>4 DEF RootOf
  <1>6. root \in Ids(spans) /\ \A i \in Ids(spans) : Parent(spans, i) = NoParent <=> i = root
      BY <1>4, <1>5 DEF Roots, Parent
  <1>7. ASSUME NEW i \in Ids(spans) PROVE root \in Chain(spans, i)
    <2>1. Climb(spans, i) # "cycle"
        BY DEF OneTree, HasCycle
    <2>2. PICK j \in Chain(spans, i) : Parent(spans, j) \notin Ids(spans)
        BY <2>1 DEF Climb, Parent
    <2>3. j \in Ids(spans)
        BY ChainFacts
    <2> QED BY <2>2, <2>3, <1>2, <1>6
  <1> HIDE DEF root
  <1> QED BY <1>1, <1>2, <1>3, <1>4, <1>5, <1>6, <1>7 DEF root

\* Of two spans of a tree at most one is above the other.
LEMMA ChainAntisymmetric ==
  ASSUME NEW spans, OneTree(spans), NEW x \in Ids(spans), NEW y \in Chain(spans, x),
         x \in Chain(spans, y)
  PROVE  x = y
  <1> SUFFICES ASSUME x # y PROVE FALSE
      OBVIOUS
  <1> DEFINE C == Chain(spans, x)
             S == {z \in C : x \in Chain(spans, z)}
             root == RootOf([spans |-> spans])
  <1>1. x \in C /\ C \subseteq Ids(spans) /\ \A z \in C : Up(spans, z) \subseteq C
      BY ChainFacts
  <1>2. ASSUME NEW z \in S, NEW p \in Up(spans, z) PROVE p \in S
    <2>1. p \in C /\ p \in Ids(spans) /\ z \in Ids(spans) /\ Up(spans, z) = {p}
        BY <1>1, <1>2 DEF Up
    <2>2. CASE z # x
        BY <2>1, <2>2, <1>2, ChainUnfolds
    <2>3. CASE z = x
      <3>1. y \in Chain(spans, p)
          BY <2>1, <2>3, ChainUnfolds
      <3>2. Chain(spans, y) \subseteq Chain(spans, p)
          BY <2>1, <3>1, ChainTransitive
      <3> QED BY <2>1, <3>2
    <2> QED BY <2>2, <2>3
  <1>3. Closed(spans, S)
      BY <1>1, <1>2 DEF Closed
  <1>4. C \subseteq S
    <2>1. x \in S
        BY <1>1
    <2> HIDE DEF S
    <2> QED BY <1>3, <2>1, ChainFacts
  <1>5. root \in S /\ Up(spans, root) = {} /\ root \in Ids(spans)
      BY <1>4, TreeFacts
  <1>6. x = root
      BY <1>5, ChainUnfolds
  <1>7. y = root
      BY <1>5, <1>6, ChainUnfolds
  <1> QED BY <1>6, <1>7

\* No span is above its parent.
LEMMA ParentIsNotBelow ==
  ASSUME NEW spans, OneTree(spans), NEW x \in Ids(spans), NEW p \in Up(spans, x)
  PROVE  /\ p \in Ids(spans) /\ p \in Chain(spans, x)
         /\ p = Parent(spans, x) /\ x # p /\ x \notin Chain(spans, p)
  <1>1. p \in Ids(spans) /\ p = Parent(spans, x) /\ p \in Chain(spans, x)
    <2>1. p \in Ids(spans) /\ p = Parent(spans, x)
        BY DEF Up, Parent
    <2> QED BY <2>1, ChainFacts
  <1>2. x # p
    <2> SUFFICES ASSUME x = p PROVE FALSE
        OBVIOUS
    <2>1. Up(spans, x) = {x}
        BY DEF Up
    <2>2. Closed(spans, {x})
        BY <2>1 DEF Closed
    <2>3. RootOf([spans |-> spans]) = x
        BY <2>2, ChainFacts, TreeFacts
    <2> QED BY <2>1, <2>3, TreeFacts
  <1>3. x \notin Chain(spans, p)
      BY <1>1, <1>2, ChainAntisymmetric
  <1> QED BY <1>1, <1>2, <1>3

\* Siblings: neither is above the other.
LEMMA SiblingsApart ==
  ASSUME NEW spans, OneTree(spans), NEW x \in Ids(spans), NEW y \in Ids(spans),
         Parent(spans, x) = Parent(spans, y), x \in Chain(spans, y)
  PROVE  x = y
  <1> SUFFICES ASSUME x # y PROVE FALSE
      OBVIOUS
  <1>1. PICK p \in Up(spans, y) : x \in Chain(spans, p)
      BY ChainUnfolds
  <1>2. p \in Up(spans, x)
      BY DEF Up, Parent
  <1> QED BY <1>1, <1>2, ParentIsNotBelow

\* What is strictly below p is below a child of p.
LEMMA ChildAbove ==
  ASSUME NEW spans, OneTree(spans), NEW b \in Ids(spans), NEW p \in Chain(spans, b), p # b
  PROVE  \E y \in Chain(spans, b) : p \in Up(spans, y)
  <1> SUFFICES ASSUME \A y \in Chain(spans, b) : p \notin Up(spans, y) PROVE FALSE
      OBVIOUS
  <1>1. Closed(spans, Chain(spans, b) \ {p}) /\ b \in Chain(spans, b) \ {p}
      BY ChainFacts DEF Closed
  <1> QED BY <1>1, ChainFacts

\* The ways up from two spans, neither above the other, meet below siblings.
LEMMA ForkExists ==
  ASSUME NEW spans, OneTree(spans), NEW a \in Ids(spans), NEW b \in Ids(spans),
         a \notin Chain(spans, b), b \notin Chain(spans, a)
  PROVE  \E x \in Chain(spans, a), y \in Chain(spans, b) :
           x # y /\ Parent(spans, x) = Parent(spans, y)
  <1> DEFINE S == Chain(spans, a) \ Chain(spans, b)
  <1>1. PICK x \in S : \E p \in Up(spans, x) : p \in Chain(spans, b)
    <2> SUFFICES ASSUME \A x \in S : \A p \in Up(spans, x) : p \notin Chain(spans, b)
                 PROVE  FALSE
        OBVIOUS
    <2>1. Closed(spans, S) /\ a \in S
        BY ChainFacts DEF Closed
    <2>2. Chain(spans, a) \subseteq S
      <3> HIDE DEF S
      <3> QED BY <2>1, ChainFacts
    <2> QED BY <2>2, TreeFacts
  <1> PICK p \in Up(spans, x) : p \in Chain(spans, b)
      BY <1>1
  <1>2. x \in Ids(spans) /\ x \in Chain(spans, a) /\ p = Parent(spans, x)
        /\ p \in Chain(spans, a)
      BY ChainFacts, ParentIsNotBelow
  <1>3. p # b
      BY <1>2
  <1>4. PICK y \in Chain(spans, b) : p \in Up(spans, y)
      BY <1>1, <1>3, ChildAbove
  <1>5. p = Parent(spans, y)
      BY <1>4 DEF Up, Parent
  <1> QED BY <1>2, <1>4, <1>5

-----------------------------------------------------------------------------
(* The two orders of the worker *)

\* Spans one after the other by start, and by id among equals.
Sooner(spans, i, j) == Earlier(SpanOf(spans, i), SpanOf(spans, j))

\* This orders the spans of a trace, no two of them at one place.
LEMMA SoonerIsStrict ==
  ASSUME NEW spans \in Seq(InputSpan)
  PROVE  /\ \A i \in Ids(spans) : ~Sooner(spans, i, i)
         /\ \A i, j, k \in Ids(spans) :
              Sooner(spans, i, j) /\ Sooner(spans, j, k) => Sooner(spans, i, k)
         /\ \A i, j \in Ids(spans) : i # j => Sooner(spans, i, j) \/ Sooner(spans, j, i)
  <1>1. \A i \in Ids(spans) : /\ SpanOf(spans, i).start \in Int
                              /\ SpanOf(spans, i).id \in Int
                              /\ SpanOf(spans, i).id = i
    <2> SUFFICES ASSUME NEW i \in Ids(spans)
                 PROVE  /\ SpanOf(spans, i).start \in Int
                        /\ SpanOf(spans, i).id \in Int
                        /\ SpanOf(spans, i).id = i
        OBVIOUS
    <2>1. SpanOf(spans, i) \in InputSpan /\ SpanOf(spans, i).id = i
        BY SpanFacts
    <2> QED BY <2>1 DEF InputSpan
  <1> QED BY <1>1 DEF Sooner, Earlier

\* The order of _stable_span_ids.
LEMMA StableOrder ==
  ASSUME NEW spans \in Seq(InputSpan), NEW ids \in SUBSET Ids(spans)
  PROVE  StrictOrder({p \in ids \X ids : Earlier(SpanOf(spans, p[1]), SpanOf(spans, p[2]))}, ids)
  <1> DEFINE before == {p \in ids \X ids : Earlier(SpanOf(spans, p[1]), SpanOf(spans, p[2]))}
  <1>1. \A i, j \in ids : <<i, j>> \in before <=> Sooner(spans, i, j)
      BY DEF Sooner
  <1> HIDE DEF before
  <1>2. Irreflexive(before, ids)
      BY <1>1, SoonerIsStrict DEF Irreflexive
  <1>3. Transitive(before, ids)
    <2> SUFFICES ASSUME NEW i \in ids, NEW j \in ids, NEW k \in ids,
                        Sooner(spans, i, j), Sooner(spans, j, k)
                 PROVE  Sooner(spans, i, k)
        BY <1>1 DEF Transitive
    <2> QED BY SoonerIsStrict
  <1>4. Total(before, ids)
      BY <1>1, SoonerIsStrict DEF Total
  <1> QED BY <1>2, <1>3, <1>4 DEF StrictOrder, before

\* The two ways in which the visit meets a first: above b, or at a fork.
StrictlyAbove(spans, a, b) == a # b /\ a \in Chain(spans, b)
Fork(spans, a, b, x, y) ==
  /\ x \in Chain(spans, a) /\ y \in Chain(spans, b)
  /\ Parent(spans, x) = Parent(spans, y) /\ Sooner(spans, x, y)

\* There is no third.
LEMMA PrecedesSplits ==
  ASSUME NEW spans, NEW a, NEW b
  PROVE  Precedes(spans, a, b) <=>
           StrictlyAbove(spans, a, b) \/ \E x, y : Fork(spans, a, b, x, y)
  BY DEF Precedes, StrictlyAbove, Fork, Parent, Sooner

\* No visit meets a span before itself.
LEMMA PrecedesIrreflexive ==
  ASSUME NEW spans, OneTree(spans), NEW a \in Ids(spans)
  PROVE  ~Precedes(spans, a, a)
  <1> SUFFICES ASSUME NEW x, NEW y, Fork(spans, a, a, x, y) PROVE FALSE
      BY PrecedesSplits DEF StrictlyAbove
  <1>1. x \in Ids(spans) /\ y \in Ids(spans) /\ Parent(spans, x) = Parent(spans, y)
      BY ChainFacts DEF Fork
  <1>2. x \in Chain(spans, y) \/ y \in Chain(spans, x)
      BY ChainIsLinear DEF Fork
  <1>3. x = y
      BY <1>1, <1>2, SiblingsApart
  <1> QED BY <1>1, <1>3, SoonerIsStrict DEF Fork, OneTree

\* Of two spans one is met first.
LEMMA PrecedesTotal ==
  ASSUME NEW spans, OneTree(spans), NEW a \in Ids(spans), NEW b \in Ids(spans), a # b
  PROVE  Precedes(spans, a, b) \/ Precedes(spans, b, a)
  <1>1. CASE a \in Chain(spans, b) \/ b \in Chain(spans, a)
      BY <1>1, PrecedesSplits DEF StrictlyAbove
  <1>2. CASE a \notin Chain(spans, b) /\ b \notin Chain(spans, a)
    <2>1. PICK x \in Chain(spans, a), y \in Chain(spans, b) :
            x # y /\ Parent(spans, x) = Parent(spans, y)
        BY <1>2, ForkExists
    <2>2. x \in Ids(spans) /\ y \in Ids(spans)
        BY ChainFacts
    <2>3. Sooner(spans, x, y) \/ Sooner(spans, y, x)
        BY <2>1, <2>2, SoonerIsStrict DEF OneTree
    <2>4. Fork(spans, a, b, x, y) \/ Fork(spans, b, a, y, x)
        BY <2>1, <2>3 DEF Fork
    <2> QED BY <2>4, PrecedesSplits
  <1> QED BY <1>1, <1>2

\* A span strictly above x is above x's siblings, and what is above them.
LEMMA AboveSibling ==
  ASSUME NEW spans, OneTree(spans), NEW c \in Ids(spans), NEW x \in Ids(spans),
         NEW y \in Chain(spans, c), Parent(spans, x) = Parent(spans, y),
         NEW a \in Chain(spans, x), a # x
  PROVE  a \in Chain(spans, c) /\ a # c
  <1>1. PICK p \in Up(spans, x) : a \in Chain(spans, p)
      BY ChainUnfolds
  <1>2. y \in Ids(spans) /\ Chain(spans, y) \subseteq Chain(spans, c)
      BY ChainTransitive
  <1>3. p \in Up(spans, y)
      BY DEF Up, Parent
  <1>4. p \in Ids(spans) /\ p \in Chain(spans, y) /\ y \notin Chain(spans, p)
      BY <1>2, <1>3, ParentIsNotBelow
  <1>5. Chain(spans, p) \subseteq Chain(spans, y)
      BY <1>2, <1>4, ChainTransitive
  <1>6. a # c
    <2> SUFFICES ASSUME a = c PROVE FALSE
        OBVIOUS
    <2>1. Chain(spans, c) \subseteq Chain(spans, p)
        BY <1>1, <1>4, ChainTransitive
    <2> QED BY <2>1, <1>4
  <1> QED BY <1>1, <1>2, <1>5, <1>6

\* What is met before b is met before what b is met before.
LEMMA PrecedesTransitive ==
  ASSUME NEW spans, OneTree(spans),
         NEW a \in Ids(spans), NEW b \in Ids(spans), NEW c \in Ids(spans),
         Precedes(spans, a, b), Precedes(spans, b, c)
  PROVE  Precedes(spans, a, c)
  <1>1. CASE StrictlyAbove(spans, a, b) /\ StrictlyAbove(spans, b, c)
    <2>1. a \in Chain(spans, c)
        BY <1>1, ChainTransitive DEF StrictlyAbove
    <2>2. a # c
        BY <1>1, ChainAntisymmetric DEF StrictlyAbove
    <2> QED BY <2>1, <2>2, PrecedesSplits DEF StrictlyAbove
  <1>2. ASSUME NEW x, NEW y, StrictlyAbove(spans, a, b), Fork(spans, b, c, x, y)
        PROVE  Precedes(spans, a, c)
    <2>1. x \in Ids(spans) /\ (x \in Chain(spans, a) \/ a \in Chain(spans, x))
        BY <1>2, ChainFacts, ChainIsLinear DEF StrictlyAbove, Fork
    <2>2. CASE x \in Chain(spans, a)
        BY <1>2, <2>2, PrecedesSplits DEF Fork
    <2>3. CASE x \notin Chain(spans, a) /\ a \in Chain(spans, x)
      <3>1. a # x
          BY <2>3, ChainFacts
      <3>2. a \in Chain(spans, c) /\ a # c
          BY <1>2, <2>1, <2>3, <3>1, AboveSibling DEF Fork
      <3> QED BY <3>2, PrecedesSplits DEF StrictlyAbove
    <2> QED BY <2>1, <2>2, <2>3
  <1>3. ASSUME NEW x, NEW y, Fork(spans, a, b, x, y), StrictlyAbove(spans, b, c)
        PROVE  Precedes(spans, a, c)
    <2>1. y \in Chain(spans, c)
        BY <1>3, ChainTransitive DEF StrictlyAbove, Fork
    <2> QED BY <1>3, <2>1, PrecedesSplits DEF Fork
  <1>4. ASSUME NEW x, NEW y, NEW u, NEW v, Fork(spans, a, b, x, y), Fork(spans, b, c, u, v)
        PROVE  Precedes(spans, a, c)
    <2>1. /\ x \in Ids(spans) /\ y \in Ids(spans) /\ u \in Ids(spans) /\ v \in Ids(spans)
          /\ y \in Chain(spans, u) \/ u \in Chain(spans, y)
        BY <1>4, ChainFacts, ChainIsLinear DEF Fork
    <2>2. CASE y = u
      <3>1. Sooner(spans, x, v)
          BY <1>4, <2>1, <2>2, SoonerIsStrict DEF Fork, OneTree
      <3> QED BY <1>4, <2>2, <3>1, PrecedesSplits DEF Fork
    <2>3. CASE y # u /\ y \in Chain(spans, u)
      <3>1. y \in Chain(spans, c)
          BY <1>4, <2>1, <2>3, AboveSibling DEF Fork
      <3> QED BY <1>4, <3>1, PrecedesSplits DEF Fork
    <2>4. CASE y # u /\ u \in Chain(spans, y)
      <3>1. u \in Chain(spans, a)
          BY <1>4, <2>1, <2>4, AboveSibling DEF Fork
      <3> QED BY <1>4, <3>1, PrecedesSplits DEF Fork
    <2> QED BY <2>1, <2>2, <2>3, <2>4
  <1> QED BY <1>1, <1>2, <1>3, <1>4, PrecedesSplits

\* The visit is an order.
LEMMA VisitOrder ==
  ASSUME NEW spans, OneTree(spans), NEW ids \in SUBSET Ids(spans)
  PROVE  StrictOrder({p \in ids \X ids : Precedes(spans, p[1], p[2])}, ids)
  <1> DEFINE before == {p \in ids \X ids : Precedes(spans, p[1], p[2])}
  <1>1. \A i, j \in ids : <<i, j>> \in before <=> Precedes(spans, i, j)
      OBVIOUS
  <1> HIDE DEF before
  <1>2. Irreflexive(before, ids)
      BY <1>1, PrecedesIrreflexive DEF Irreflexive
  <1>3. Transitive(before, ids)
    <2> SUFFICES ASSUME NEW i \in ids, NEW j \in ids, NEW k \in ids,
                        Precedes(spans, i, j), Precedes(spans, j, k)
                 PROVE  Precedes(spans, i, k)
        BY <1>1 DEF Transitive
    <2> QED BY PrecedesTransitive
  <1>4. Total(before, ids)
      BY <1>1, PrecedesTotal DEF Total
  <1> QED BY <1>2, <1>3, <1>4 DEF StrictOrder, before

\* A list of n ids without repetition, parents first.
Visits(spans, ids, s, n) ==
  /\ n \in Nat
  /\ s \in [1..n -> ids]
  /\ \A i \in ids : \E k \in 1..n : s[k] = i
  /\ \A m, k \in 1..n : s[m] = s[k] => m = k
  /\ \A k \in 1..n : \A p \in Up(spans, s[k]) : \E m \in 1..k-1 : s[m] = p

\* The visit of a closed set lists it, each span once and after its parent
\* (_topological_order).
THEOREM TopologicalOrderLists ==
  ASSUME NEW spans, OneTree(spans), NEW ids, Closed(spans, ids),
         NEW s, s = TopologicalOrder(spans, ids), NEW n, n = Cardinality(ids)
  PROVE  IsFiniteSet(ids) /\ Visits(spans, ids, s, n)
  <1> DEFINE before == {p \in ids \X ids : Precedes(spans, p[1], p[2])}
  <1>1. ids \subseteq Ids(spans)
      BY DEF Closed
  <1>2. \A i \in ids : Chain(spans, i) \subseteq ids
      BY <1>1, ChainFacts
  <1>3. s = Sorted(ids, before)
    <2>1. {i \in ids : Chain(spans, i) \subseteq ids} = ids
        BY <1>2
    <2> QED BY <2>1 DEF TopologicalOrder
  <1>4. IsFiniteSet(ids)
      BY <1>1, SpanFacts, FS_Subset DEF OneTree
  <1>5. StrictOrder(before, ids)
      BY <1>1, VisitOrder
  <1>6. \A i, j \in ids : <<i, j>> \in before <=> Precedes(spans, i, j)
      OBVIOUS
  <1> HIDE DEF before
  <1>7. /\ n \in Nat
        /\ s \in [1..n -> ids]
        /\ \A i \in ids : \E k \in 1..n : s[k] = i
        /\ \A m, k \in 1..n : m < k => <<s[m], s[k]>> \in before
        /\ \A m, k \in 1..n : s[m] = s[k] => m = k
      BY <1>3, <1>4, <1>5, SortedLists
  <1>8. ASSUME NEW k \in 1..n, NEW p \in Up(spans, s[k]) PROVE \E m \in 1..k-1 : s[m] = p
    <2>1. s[k] \in ids /\ s[k] \in Ids(spans)
        BY <1>1, <1>7
    <2>2. p \in ids /\ p \in Ids(spans) /\ p \in Chain(spans, s[k]) /\ p # s[k]
        BY <2>1, <1>1, <1>8, ParentIsNotBelow DEF Closed
    <2>3. PICK m \in 1..n : s[m] = p
        BY <1>7, <2>2
    <2>4. <<s[m], s[k]>> \in before
        BY <1>6, <2>1, <2>2, <2>3, PrecedesSplits DEF StrictlyAbove
    <2>5. ~(k < m)
      <3> SUFFICES ASSUME <<s[k], s[m]>> \in before PROVE FALSE
          BY <1>7
      <3> QED BY <1>5, <2>1, <2>2, <2>3, <2>4 DEF StrictOrder, Transitive, Irreflexive
    <2>6. m < k
        BY <2>2, <2>3, <2>5, <1>7
    <2> QED BY <2>3, <2>6, <1>7
  <1> QED BY <1>4, <1>7, <1>8 DEF Visits
=============================================================================
