------------------------- MODULE TraceWaterfall_proofs -------------------------
(* Proofs about TraceWaterfall, for every cap, every number of tools and      *)
(* everything they may answer.                                                *)
EXTENDS TraceTrees_proofs

-----------------------------------------------------------------------------
(* Validation: what the worker accepts is a tree within its time *)

\* In a tree every set that holds the root and the children of its members
\* holds all spans.
LEMMA TreeIsReached ==
  ASSUME NEW spans, OneTree(spans)
  PROVE  IsTree(spans)
  <1> SUFFICES ASSUME NEW S \in SUBSET Ids(spans), Roots(spans) \subseteq S,
                      \A i \in Ids(spans) : SpanOf(spans, i).parent \in S => i \in S,
                      NEW i \in Ids(spans)
               PROVE  i \in S
      BY DEF IsTree, OneTree
  <1> SUFFICES ASSUME i \notin S PROVE FALSE
      OBVIOUS
  <1>1. Closed(spans, Ids(spans) \ S)
      BY DEF Closed, Up
  <1>2. Chain(spans, i) \subseteq Ids(spans) \ S
      BY <1>1, ChainFacts
  <1> QED BY <1>2, TreeFacts

\* What is reached from the root has a parent, and no way up that is a circle.
LEMMA ReachedIsTree ==
  ASSUME NEW spans \in Seq(InputSpan), IsTree(spans)
  PROVE  OneTree(spans)
  <1>1. NoParent \notin Ids(spans)
      BY SpanFacts
  <1>2. \A S \in SUBSET Ids(spans) :
          (/\ Roots(spans) \subseteq S
           /\ \A i \in Ids(spans) : Parent(spans, i) \in S => i \in S) => S = Ids(spans)
      BY DEF IsTree, Parent
  <1>3. \A i \in Ids(spans) : i \in Roots(spans) <=> Parent(spans, i) = NoParent
      BY DEF Roots, Parent
  <1>4. Roots(spans) \subseteq Ids(spans)
      BY DEF Roots
  <1>5. \A i \in Ids(spans) : Parent(spans, i) \in Ids(spans) \cup {NoParent}
    <2> DEFINE S == {i \in Ids(spans) : Parent(spans, i) \in Ids(spans) \cup {NoParent}}
    <2>1. S \in SUBSET Ids(spans) /\ Roots(spans) \subseteq S
        BY <1>3, <1>4
    <2>2. \A i \in Ids(spans) : Parent(spans, i) \in S => i \in S
        OBVIOUS
    <2>3. S = Ids(spans)
      <3> HIDE DEF S
      <3> QED BY <1>2, <2>1, <2>2
    <2> QED BY <2>3
  <1>6. \A i \in Ids(spans) : \E j \in Chain(spans, i) : Parent(spans, j) = NoParent
    <2> DEFINE S == {i \in Ids(spans) : \E j \in Chain(spans, i) : Parent(spans, j) = NoParent}
    <2>1. S \in SUBSET Ids(spans) /\ Roots(spans) \subseteq S
        BY <1>3, <1>4, ChainFacts
    <2>2. ASSUME NEW i \in Ids(spans), Parent(spans, i) \in S PROVE i \in S
      <3>1. Parent(spans, i) \in Up(spans, i)
          BY <2>2 DEF Up, Parent
      <3>2. Parent(spans, i) \in Chain(spans, i)
          BY <3>1, ChainFacts
      <3>3. Chain(spans, Parent(spans, i)) \subseteq Chain(spans, i)
          BY <3>2, ChainTransitive
      <3> QED BY <2>2, <3>3
    <2>3. S = Ids(spans)
      <3> HIDE DEF S
      <3> QED BY <1>2, <2>1, <2>2
    <2> QED BY <2>3
  <1>7. ASSUME NEW i \in Ids(spans) PROVE Climb(spans, i) # "cycle"
    <2> DEFINE ends == {SpanOf(spans, j).parent : j \in Chain(spans, i)} \ Ids(spans)
    <2>1. NoParent \in ends
        BY <1>1, <1>6 DEF Parent
    <2>2. Climb(spans, i) =
            IF ends = {} THEN "cycle" ELSE IF ends = {NoParent} THEN "root" ELSE "KeyError"
        BY DEF Climb
    <2> HIDE DEF ends
    <2>3. ends # {}
        BY <2>1
    <2> QED BY <2>2, <2>3
  <1> QED BY <1>5, <1>7 DEF OneTree, IsTree, HasCycle, Parent

\* What the worker accepts by ids that are unique, one root, parents that are
\* there and no cycle is what is reached from its one root, within the time of
\* the trace, and nothing else (_validated_candidate, _has_cycle).
THEOREM ValidatedIsUsable ==
  ASSUME NEW t \in InputTrace
  PROVE  /\ Validated(t) <=> Usable(t)
         /\ Validated(t) => OneTree(t.spans) /\ WithinTrace(t.spans, Duration(t))
  <1>1. t.spans \in Seq(InputSpan)
      BY DEF InputTrace
  <1>2. ASSUME Distinct(t.spans)
        PROVE  (\A k \in DOMAIN t.spans : t.spans[k].parent \in Ids(t.spans) \cup {NoParent}) <=>
               (\A i \in Ids(t.spans) : SpanOf(t.spans, i).parent \in Ids(t.spans) \cup {NoParent})
    <2>1. \A k \in DOMAIN t.spans : /\ t.spans[k].id \in Ids(t.spans)
                                    /\ SpanOf(t.spans, t.spans[k].id) = t.spans[k]
        BY <1>1, <1>2, DistinctSpans DEF Ids
    <2>2. \A i \in Ids(t.spans) : \E k \in DOMAIN t.spans : SpanOf(t.spans, i) = t.spans[k]
        BY <1>1, SpanFacts
    <2> QED BY <2>1, <2>2
  <1>3. Validated(t) <=> OneTree(t.spans) /\ WithinTrace(t.spans, Duration(t))
    <2>1. CASE Distinct(t.spans)
        BY <1>1, <1>2, <2>1 DEF Validated, OneTree
    <2>2. CASE ~Distinct(t.spans)
        BY <2>2 DEF Validated, OneTree
    <2> QED BY <2>1, <2>2
  <1> QED BY <1>1, <1>3, TreeIsReached, ReachedIsTree DEF Usable

-----------------------------------------------------------------------------
(* The ranking of the candidates *)

\* A trace has a duration, declared or that of its last span.
LEMMA DurationIsInt ==
  ASSUME NEW t \in InputTrace
  PROVE  Duration(t) \in Int
  <1> DEFINE spans == t.spans
             ends == {End(spans[k]) : k \in DOMAIN spans}
             f == [k \in 1..Len(spans) |-> End(spans[k])]
             before == {p \in ends \X ends : p[1] > p[2]}
  <1>1. /\ spans \in Seq(InputSpan) /\ t.duration \in Int
        /\ Len(spans) \in Nat /\ DOMAIN spans = 1..Len(spans) /\ 1 \in DOMAIN spans
      BY DEF InputTrace, NoDuration
  <1>2. ends \subseteq Int
    <2> SUFFICES ASSUME NEW k \in DOMAIN spans PROVE End(spans[k]) \in Int
        OBVIOUS
    <2>1. spans[k] \in InputSpan
        BY <1>1
    <2> QED BY <2>1 DEF InputSpan, End
  <1>3. ends # {}
      BY <1>1
  <1>4. f \in Surjection(1..Len(spans), ends)
      BY <1>1 DEF Surjection
  <1>5. IsFiniteSet(ends)
    <2> HIDE DEF f, ends
    <2> QED BY <1>1, <1>4, FS_Interval, FS_Surjection
  <1>6. StrictOrder(before, ends)
    <2> HIDE DEF ends
    <2> QED BY <1>2 DEF StrictOrder, Irreflexive, Transitive, Total
  <1>7. PICK d \in ends : \A e \in ends : e = d \/ <<d, e>> \in before
    <2> HIDE DEF before, ends
    <2> QED BY <1>3, <1>5, <1>6, FirstExists
  <1>8. \A k \in DOMAIN spans : End(spans[k]) <= d
    <2> SUFFICES ASSUME NEW k \in DOMAIN spans PROVE End(spans[k]) <= d
        OBVIOUS
    <2>1. End(spans[k]) \in ends
        OBVIOUS
    <2>2. \A e \in ends : <<d, e>> \in before => d > e
        OBVIOUS
    <2> HIDE DEF ends, before
    <2>3. End(spans[k]) = d \/ d > End(spans[k])
        BY <1>7, <2>1, <2>2
    <2>4. d \in Int /\ End(spans[k]) \in Int
        BY <1>2, <2>1
    <2> QED BY <2>3, <2>4
  <1>9. (CHOOSE e \in ends : \A k \in DOMAIN spans : End(spans[k]) <= e) \in Int
    <2> HIDE DEF ends
    <2> QED BY <1>2, <1>8
  <1> QED BY <1>1, <1>9 DEF Duration

\* Above compares the five parts of a rank one after the other.
Ranks == [1..5 -> Int]

\* It is the comparison of tuples: the first part that differs decides.
LEMMA AboveUnfolds ==
  ASSUME NEW a \in Ranks, NEW b \in Ranks
  PROVE  Above(a, b) <=>
           \/ a[1] > b[1]
           \/ a[1] = b[1] /\ a[2] > b[2]
           \/ a[1] = b[1] /\ a[2] = b[2] /\ a[3] > b[3]
           \/ a[1] = b[1] /\ a[2] = b[2] /\ a[3] = b[3] /\ a[4] > b[4]
           \/ a[1] = b[1] /\ a[2] = b[2] /\ a[3] = b[3] /\ a[4] = b[4] /\ a[5] > b[5]
  <1> DEFINE At(n) == a[n] > b[n] /\ \A m \in 1..n-1 : a[m] = b[m]
  <1>1. Above(a, b) <=> \E n \in 1..5 : At(n)
      BY DEF Above, Ranks
  <1>2. (\E n \in 1..5 : At(n)) <=> At(1) \/ At(2) \/ At(3) \/ At(4) \/ At(5)
    <2> HIDE DEF At
    <2> QED OBVIOUS
  <1>3. /\ At(1) <=> a[1] > b[1]
        /\ At(2) <=> a[1] = b[1] /\ a[2] > b[2]
        /\ At(3) <=> a[1] = b[1] /\ a[2] = b[2] /\ a[3] > b[3]
        /\ At(4) <=> a[1] = b[1] /\ a[2] = b[2] /\ a[3] = b[3] /\ a[4] > b[4]
        /\ At(5) <=> a[1] = b[1] /\ a[2] = b[2] /\ a[3] = b[3] /\ a[4] = b[4] /\ a[5] > b[5]
    <2>1. 1..0 = {} /\ 1..1 = {1} /\ 1..2 = {1, 2} /\ 1..3 = {1, 2, 3} /\ 1..4 = {1, 2, 3, 4}
        OBVIOUS
    <2> QED BY <2>1
  <1> HIDE DEF At
  <1> QED BY <1>1, <1>2, <1>3

\* Above is a strict order of ranks.
LEMMA AboveIsStrict ==
  ASSUME NEW a \in Ranks, NEW b \in Ranks, NEW c \in Ranks
  PROVE  /\ ~Above(a, a)
         /\ Above(a, b) => ~Above(b, a)
         /\ Above(a, b) /\ Above(b, c) => Above(a, c)
         /\ ~Above(b, a) /\ ~Above(c, b) => ~Above(c, a)
         /\ Above(a, b) /\ ~Above(c, b) => Above(a, c)
         /\ ~Above(b, a) /\ Above(b, c) => Above(a, c)
  <1>1. \A n \in 1..5 : a[n] \in Int /\ b[n] \in Int /\ c[n] \in Int
      BY DEF Ranks
  <1> QED BY <1>1, AboveUnfolds

\* A validated trace has a root, a span and a rank.
LEMMA ValidatedFacts ==
  ASSUME NEW t \in InputTrace, Validated(t)
  PROVE  /\ t.spans \in Seq(InputSpan) /\ t.spans # <<>>
         /\ OneTree(t.spans)
         /\ RootOf(t) = RootOf([spans |-> t.spans])
         /\ RootOf(t) \in Ids(t.spans) /\ Roots(t.spans) = {RootOf(t)}
         /\ Duration(t) \in Int
         /\ Rank(t) \in Ranks
  <1>1. t.spans \in Seq(InputSpan) /\ t.anomaly \in Int /\ t.match \in Int /\ t.id \in Int
      BY DEF InputTrace
  <1>2. OneTree(t.spans)
      BY ValidatedIsUsable
  <1>3. RootOf(t) = RootOf([spans |-> t.spans])
      BY DEF RootOf
  <1>4. RootOf(t) \in Ids(t.spans) /\ Roots(t.spans) = {RootOf(t)}
      BY <1>2, <1>3, TreeFacts
  <1>5. t.spans # <<>>
      BY DEF InputTrace
  <1>6. Duration(t) \in Int
      BY DurationIsInt
  <1>7. Rank(t) \in Ranks
      BY <1>1, <1>6 DEF Rank, Ranks
  <1> QED BY <1>1, <1>2, <1>3, <1>4, <1>5, <1>6, <1>7

\* The worker's ranking is the operator's: the error of a trace counts when it
\* is at the root or on the critical path.
LEMMA HitIsHasError ==
  ASSUME NEW t \in InputTrace, Validated(t)
  PROVE  Hit(t) <=> HasError(t)
  <1> DEFINE spans == t.spans
  <1>1. /\ spans \in Seq(InputSpan) /\ Distinct(spans)
        /\ RootOf(t) \in Ids(spans) /\ Roots(spans) = {RootOf(t)}
      BY ValidatedFacts DEF OneTree
  <1> HIDE DEF spans
  <1>2. \A k, m \in DOMAIN spans : spans[k].id = spans[m].id => k = m
      BY <1>1, DistinctSpans
  <1>3. PICK r \in DOMAIN spans : SpanOf(spans, RootOf(t)) = spans[r] /\ spans[r].id = RootOf(t)
      BY <1>1, SpanFacts
  <1>4. \A i : i \in Failed(spans) <=> \E k \in DOMAIN spans : spans[k].id = i /\ spans[k].error
      BY DEF Failed
  <1>5. \A i : i \in Critical(spans) <=> \E k \in DOMAIN spans : spans[k].id = i /\ spans[k].critical
      BY DEF Critical
  <1>6. Hit(t) <=> RootOf(t) \in Failed(spans) \/ \E i \in Failed(spans) : i \in Critical(spans)
      BY <1>1 DEF Hit, spans
  <1>7. RootOf(t) \in Failed(spans) <=> SpanOf(spans, RootOf(t)).error
      BY <1>2, <1>3, <1>4
  <1>8. (\E i \in Failed(spans) : i \in Critical(spans)) <=>
          \E k \in DOMAIN spans : spans[k].error /\ spans[k].critical
    <2>1. ASSUME NEW i \in Failed(spans), i \in Critical(spans)
          PROVE  \E k \in DOMAIN spans : spans[k].error /\ spans[k].critical
        BY <2>1, <1>2, <1>4, <1>5
    <2>2. ASSUME NEW k \in DOMAIN spans, spans[k].error, spans[k].critical
          PROVE  spans[k].id \in Failed(spans) /\ spans[k].id \in Critical(spans)
        BY <2>2, <1>4, <1>5
    <2> QED BY <2>1, <2>2
  <1> QED BY <1>6, <1>7, <1>8 DEF HasError, spans

\* A trace ranks above another exactly when it is the worse.
LEMMA AboveIsWorse ==
  ASSUME NEW a \in InputTrace, Validated(a), NEW b \in InputTrace, Validated(b)
  PROVE  Above(Rank(a), Rank(b)) <=> Worse(a, b)
  <1>1. Rank(a) \in Ranks /\ Rank(b) \in Ranks
      BY ValidatedFacts
  <1>2. /\ Hit(a) <=> HasError(a)
        /\ Hit(b) <=> HasError(b)
      BY HitIsHasError
  <1>3. /\ Rank(a)[1] = (IF HasError(a) THEN 1 ELSE 0) /\ Rank(a)[2] = a.anomaly
        /\ Rank(a)[3] = a.match /\ Rank(a)[4] = Duration(a) /\ Rank(a)[5] = a.id
        /\ Rank(b)[1] = (IF HasError(b) THEN 1 ELSE 0) /\ Rank(b)[2] = b.anomaly
        /\ Rank(b)[3] = b.match /\ Rank(b)[4] = Duration(b) /\ Rank(b)[5] = b.id
      BY DEF Rank
  <1>4. /\ Rank(a)[1] > Rank(b)[1] <=> HasError(a) /\ ~HasError(b)
        /\ Rank(a)[1] = Rank(b)[1] <=> (HasError(a) <=> HasError(b))
      BY <1>3
  <1> QED BY <1>1, <1>2, <1>3, <1>4, AboveUnfolds DEF Worse

\* There is a candidate that none ranks above, and of those the first is the
\* representative.
LEMMA RepresentativeRanksHighest ==
  ASSUME NEW p \in Seq(InputTrace), Candidates(p) # {}
  PROVE  \E k \in Candidates(p) :
           Representative(p) = p[k] /\ \A m \in Candidates(p) : ~Above(Rank(p[m]), Rank(p[k]))
  <1> DEFINE C == Candidates(p)
             Better(k, m) == \/ Above(Rank(p[k]), Rank(p[m]))
                             \/ ~Above(Rank(p[m]), Rank(p[k])) /\ k < m
             before == {q \in C \X C : Better(q[1], q[2])}
             Best(k) == \A m \in C : /\ ~Above(Rank(p[m]), Rank(p[k]))
                                     /\ m < k => Above(Rank(p[k]), Rank(p[m]))
  <1>1. C \subseteq 1..Len(p) /\ Len(p) \in Nat
      BY DEF Candidates
  <1>2. IsFiniteSet(C)
    <2>1. IsFiniteSet(1..Len(p))
        BY <1>1, FS_Interval
    <2> HIDE DEF C
    <2> QED BY <1>1, <2>1, FS_Subset
  <1>3. \A k \in C : Rank(p[k]) \in Ranks /\ k \in Int
    <2> SUFFICES ASSUME NEW k \in C PROVE Rank(p[k]) \in Ranks
        BY <1>1
    <2>1. p[k] \in InputTrace /\ Validated(p[k])
        BY <1>1 DEF Candidates
    <2> QED BY <2>1, ValidatedFacts
  <1>4. \A k, m \in C : <<k, m>> \in before <=> Better(k, m)
      OBVIOUS
  <1> HIDE DEF C, before
  <1>5. Irreflexive(before, C)
      BY <1>3, <1>4, AboveIsStrict DEF Irreflexive
  <1>6. Transitive(before, C)
    <2> SUFFICES ASSUME NEW i \in C, NEW j \in C, NEW k \in C, Better(i, j), Better(j, k)
                 PROVE  Better(i, k)
      <3> HIDE DEF Better
      <3> QED BY <1>4 DEF Transitive
    <2>1. /\ Rank(p[i]) \in Ranks /\ Rank(p[j]) \in Ranks /\ Rank(p[k]) \in Ranks
          /\ i \in Int /\ j \in Int /\ k \in Int
        BY <1>3
    <2> QED BY <2>1, AboveIsStrict
  <1>7. Total(before, C)
      BY <1>3, <1>4 DEF Total
  <1>8. PICK k \in C : \A m \in C : m = k \/ Better(k, m)
    <2> HIDE DEF Better
    <2>1. StrictOrder(before, C)
        BY <1>5, <1>6, <1>7 DEF StrictOrder
    <2> QED BY <1>2, <1>4, <2>1, FirstExists DEF C
  <1>9. Best(k)
    <2> SUFFICES ASSUME NEW m \in C
                 PROVE  /\ ~Above(Rank(p[m]), Rank(p[k]))
                        /\ m < k => Above(Rank(p[k]), Rank(p[m]))
        OBVIOUS
    <2> QED BY <1>3, <1>8, AboveIsStrict
  <1>10. Representative(p) = p[CHOOSE i \in C : Best(i)]
      BY DEF Representative, C
  <1>11. (CHOOSE i \in C : Best(i)) \in C /\ Best(CHOOSE i \in C : Best(i))
    <2> HIDE DEF Best
    <2> QED BY <1>9
  <1> QED BY <1>10, <1>11 DEF C

-----------------------------------------------------------------------------
(* Filling up *)

\* Adding a span to a closed set that fits leaves one, which has the span
\* exactly when it fits with what is above it.
LEMMA AddFacts ==
  ASSUME NEW spans, OneTree(spans), NEW S, Closed(spans, S), Cardinality(S) <= MaxSpans,
         NEW i \in Ids(spans)
  PROVE  /\ Closed(spans, AddWithAncestors(spans, S, i))
         /\ Cardinality(AddWithAncestors(spans, S, i)) <= MaxSpans
         /\ S \subseteq AddWithAncestors(spans, S, i)
         /\ i \in AddWithAncestors(spans, S, i) <=>
              Cardinality(S \cup Chain(spans, i)) <= MaxSpans
         /\ AddWithAncestors(spans, S, i) =
              IF i \in AddWithAncestors(spans, S, i) THEN S \cup Chain(spans, i) ELSE S
  <1> DEFINE C == Chain(spans, i)
             R == AddWithAncestors(spans, S, i)
  <1>1. i \in C /\ Closed(spans, C) /\ (i \in S => C \subseteq S)
      BY ChainFacts DEF Closed
  <1>2. R = IF Cardinality(S \cup C) <= MaxSpans THEN S \cup C ELSE S
      BY DEF AddWithAncestors
  <1> HIDE DEF C, R
  <1>3. Closed(spans, S \cup C)
      BY <1>1 DEF Closed
  <1>4. i \in S => S \cup C = S
      BY <1>1
  <1>5. Closed(spans, R) /\ Cardinality(R) <= MaxSpans /\ S \subseteq R
      BY <1>2, <1>3
  <1>6. /\ i \in R <=> Cardinality(S \cup C) <= MaxSpans
        /\ R = IF i \in R THEN S \cup C ELSE S
    <2>1. CASE Cardinality(S \cup C) <= MaxSpans
        BY <1>1, <1>2, <2>1
    <2>2. CASE ~(Cardinality(S \cup C) <= MaxSpans)
        BY <1>2, <1>4, <2>2
    <2> QED BY <2>1, <2>2
  <1> QED BY <1>5, <1>6 DEF C, R

\* The sets Fill goes through.
Grows(spans, kept, todo, n, g) ==
  /\ g[0] = kept
  /\ \A k \in 1..n : g[k] = AddWithAncestors(spans, g[k - 1], todo[k])

\* The loop runs, and ends with the last of them.
LEMMA FillGrows ==
  ASSUME NEW spans, OneTree(spans), NEW kept \in SUBSET Ids(spans),
         NEW n \in Nat, NEW todo \in [1..n -> Ids(spans)], Len(todo) = n
  PROVE  \E g : Grows(spans, kept, todo, n, g) /\ Fill(spans, kept, todo) = g[n]
  <1> DEFINE D == SUBSET Ids(spans)
             step == [k \in 1..n |-> [S \in D |-> AddWithAncestors(spans, S, todo[k])]]
             Body(g) == [k \in 0..n |-> IF k = 0 THEN kept
                                        ELSE AddWithAncestors(spans, g[k - 1], todo[k])]
             grown == CHOOSE g : g = Body(g)
  <1>1. step \in [1..n -> [D -> D]]
    <2> SUFFICES ASSUME NEW k \in 1..n, NEW S \in D
                 PROVE  AddWithAncestors(spans, S, todo[k]) \in D
        OBVIOUS
    <2>1. todo[k] \in Ids(spans)
        OBVIOUS
    <2> QED BY <2>1, ChainFacts DEF AddWithAncestors
  <1>2. PICK h \in [0..n -> D] : IsRun(n, kept, step, h)
    <2> HIDE DEF step, D
    <2>1. kept \in D
        BY DEF D
    <2>2. IsLoop(D, n, step)
        BY <1>1 DEF IsLoop
    <2> QED BY <2>1, <2>2, LoopRuns
  <1>3. h = Body(h)
    <2>1. \A k \in 1..n : h[k] = AddWithAncestors(spans, h[k - 1], todo[k])
      <3> SUFFICES ASSUME NEW k \in 1..n
                   PROVE  h[k] = AddWithAncestors(spans, h[k - 1], todo[k])
          OBVIOUS
      <3>1. h[k - 1] \in D
          OBVIOUS
      <3> HIDE DEF D
      <3>2. h[k] = step[k][h[k - 1]]
          BY <1>2 DEF IsRun
      <3> QED BY <3>1, <3>2
    <2>2. \A k \in 0..n : k # 0 => k \in 1..n
        OBVIOUS
    <2> QED BY <1>2, <2>1, <2>2 DEF IsRun
  <1>4. grown = Body(grown)
    <2> HIDE DEF Body
    <2> QED BY <1>3
  <1>5. Fill(spans, kept, todo) = grown[n]
      BY DEF Fill
  <1> HIDE DEF grown
  <1>6. Grows(spans, kept, todo, n, grown)
    <2>1. 0 \in 0..n /\ \A k \in 1..n : k \in 0..n /\ k # 0
        OBVIOUS
    <2> QED BY <1>4, <2>1 DEF Grows
  <1> QED BY <1>5, <1>6

\* Every set on the way is closed and fits, and none loses a span.
LEMMA GrowsClosed ==
  ASSUME NEW spans, OneTree(spans), NEW kept, Closed(spans, kept), Cardinality(kept) <= MaxSpans,
         NEW n \in Nat, NEW todo \in [1..n -> Ids(spans)],
         NEW g, Grows(spans, kept, todo, n, g)
  PROVE  /\ \A k \in 0..n : Closed(spans, g[k]) /\ Cardinality(g[k]) <= MaxSpans
         /\ \A k \in 0..n : g[k] \subseteq g[n]
  <1> DEFINE Good(k) == Closed(spans, g[k]) /\ Cardinality(g[k]) <= MaxSpans
             G == {k \in 0..n : Good(k)}
             H == {d \in 0..n : g[n - d] \subseteq g[n]}
  <1>1. \A k \in 1..n : g[k] = AddWithAncestors(spans, g[k - 1], todo[k]) /\ todo[k] \in Ids(spans)
      BY DEF Grows
  <1>2. \A k \in 0..n-1 : g[k + 1] = AddWithAncestors(spans, g[k], todo[k + 1])
                          /\ todo[k + 1] \in Ids(spans)
    <2> SUFFICES ASSUME NEW k \in 0..n-1
                 PROVE  g[k + 1] = AddWithAncestors(spans, g[k], todo[k + 1])
                        /\ todo[k + 1] \in Ids(spans)
        OBVIOUS
    <2>1. k + 1 \in 1..n /\ (k + 1) - 1 = k
        OBVIOUS
    <2> QED BY <1>1, <2>1
  <1>3. 0 \in G
      BY DEF Grows
  <1>4. \A k \in 0..n-1 : k \in G => k + 1 \in G
    <2> SUFFICES ASSUME NEW k \in 0..n-1, Good(k) PROVE Good(k + 1) /\ k + 1 \in 0..n
        OBVIOUS
    <2> DEFINE i == todo[k + 1]
               S == g[k]
    <2>1. /\ g[k + 1] = AddWithAncestors(spans, S, i) /\ i \in Ids(spans)
          /\ Closed(spans, S) /\ Cardinality(S) <= MaxSpans
        BY <1>2
    <2> HIDE DEF i, S, G, H
    <2>2. /\ Closed(spans, AddWithAncestors(spans, S, i))
          /\ Cardinality(AddWithAncestors(spans, S, i)) <= MaxSpans
      <3> HIDE DEF Good
      <3> QED BY <2>1, AddFacts
    <2>3. Good(k + 1)
        BY <2>1, <2>2
    <2> QED BY <2>3
  <1>5. \A k \in 0..n : Good(k)
    <2>1. 0..n \subseteq G
      <3> HIDE DEF G
      <3> QED BY <1>3, <1>4, IntervalInduction
    <2> HIDE DEF Good
    <2> QED BY <2>1
  <1>6. 0 \in H
      OBVIOUS
  <1>7. \A d \in 0..n-1 : d \in H => d + 1 \in H
    <2> SUFFICES ASSUME NEW d \in 0..n-1, g[n - d] \subseteq g[n]
                 PROVE  g[n - (d + 1)] \subseteq g[n] /\ d + 1 \in 0..n
        OBVIOUS
    <2> DEFINE k == n - (d + 1)
               i == todo[k + 1]
               S == g[k]
    <2>1. k \in 0..n-1 /\ k + 1 = n - d /\ k \in 0..n
        OBVIOUS
    <2> HIDE DEF k
    <2>2. g[k + 1] = AddWithAncestors(spans, S, i) /\ i \in Ids(spans)
          /\ Closed(spans, S) /\ Cardinality(S) <= MaxSpans
        BY <2>1, <1>2, <1>5
    <2> HIDE DEF i, S, G, H, Good
    <2>3. S \subseteq AddWithAncestors(spans, S, i)
        BY <2>2, AddFacts
    <2> QED BY <2>1, <2>2, <2>3 DEF k, S
  <1>8. \A k \in 0..n : g[k] \subseteq g[n]
    <2>1. 0..n \subseteq H
      <3> HIDE DEF H
      <3> QED BY <1>6, <1>7, IntervalInduction
    <2> SUFFICES ASSUME NEW k \in 0..n PROVE g[k] \subseteq g[n]
        OBVIOUS
    <2>2. n - k \in 0..n /\ n - (n - k) = k
        OBVIOUS
    <2> QED BY <2>1, <2>2
  <1> QED BY <1>5, <1>8

\* A span that did not fit when it was its turn is not in the end either, so
\* at each turn there are the spans kept from the start and, with all that is
\* above them, those of the end that had their turn.
Greedy(spans, kept, todo, n, g) ==
  /\ \A k \in 1..n : todo[k] \in g[n] <=>
       Cardinality(g[k - 1] \cup Chain(spans, todo[k])) <= MaxSpans
  /\ \A k \in 0..n : g[k] =
       kept \cup AncestorClosure(spans, {todo[m] : m \in 1..k} \cap g[n])

\* So it is from any closed start that fits.
LEMMA GrowsGreedily ==
  ASSUME NEW spans, OneTree(spans), NEW kept, Closed(spans, kept), Cardinality(kept) <= MaxSpans,
         NEW n \in Nat, NEW todo \in [1..n -> Ids(spans)],
         NEW g, Grows(spans, kept, todo, n, g)
  PROVE  Greedy(spans, kept, todo, n, g)
  <1> DEFINE K == g[n]
             Seen(k) == {todo[m] : m \in 1..k} \cap K
             G == {k \in 0..n : g[k] = kept \cup AncestorClosure(spans, Seen(k))}
  <1>1. /\ \A k \in 0..n : Closed(spans, g[k]) /\ Cardinality(g[k]) <= MaxSpans
        /\ \A k \in 0..n : g[k] \subseteq K
      BY GrowsClosed
  <1>2. Closed(spans, K) /\ Cardinality(K) <= MaxSpans /\ K \subseteq Ids(spans)
      BY <1>1 DEF Closed
  <1>3. IsFiniteSet(K) /\ Cardinality(K) \in Nat
    <2>1. IsFiniteSet(Ids(spans))
        BY SpanFacts DEF OneTree
    <2> QED BY <1>2, <2>1, FS_Subset, FS_CardinalityType
  <1> HIDE DEF K
  <1>4. ASSUME NEW k \in 1..n
        PROVE  /\ todo[k] \in Ids(spans) /\ k - 1 \in 0..n /\ k \in 0..n
               /\ todo[k] \in K <=> Cardinality(g[k - 1] \cup Chain(spans, todo[k])) <= MaxSpans
               /\ todo[k] \in K => g[k] = g[k - 1] \cup Chain(spans, todo[k])
               /\ todo[k] \notin K => g[k] = g[k - 1]
    <2> DEFINE i == todo[k]
               S == g[k - 1]
               U == S \cup Chain(spans, i)
    <2>1. i \in Ids(spans) /\ k - 1 \in 0..n /\ k \in 0..n
        OBVIOUS
    <2>2. g[k] = AddWithAncestors(spans, S, i) /\ Closed(spans, S) /\ Cardinality(S) <= MaxSpans
        BY <1>1, <2>1 DEF Grows
    <2> HIDE DEF S, i
    <2>3. /\ i \in g[k] <=> Cardinality(U) <= MaxSpans
          /\ i \in g[k] => g[k] = U
          /\ i \notin g[k] => g[k] = S
        BY <2>1, <2>2, AddFacts
    <2>4. ASSUME i \in K PROVE Cardinality(U) <= MaxSpans
      <3>1. U \subseteq K
          BY <1>1, <1>2, <2>1, <2>4, ChainFacts DEF S
      <3> HIDE DEF U
      <3>2. IsFiniteSet(U) /\ Cardinality(U) <= Cardinality(K) /\ Cardinality(U) \in Nat
          BY <1>3, <3>1, FS_Subset, FS_CardinalityType
      <3>3. MaxSpans \in Nat
          BY TraceAssumption
      <3> QED BY <1>2, <1>3, <3>2, <3>3
    <2>5. i \in g[k] => i \in K
        BY <1>1, <2>1
    <2> QED BY <2>1, <2>3, <2>4, <2>5 DEF i, S
  <1>5. 0 \in G
    <2>1. Seen(0) = {} /\ Closed(spans, {}) /\ g[0] = kept /\ 0 \in 0..n
      <3>1. 1..0 = {}
          OBVIOUS
      <3> QED BY <3>1 DEF Closed, Grows
    <2>2. AncestorClosure(spans, {}) = {}
        BY <2>1, ClosureOfClosed
    <2> HIDE DEF Seen
    <2> QED BY <2>1, <2>2
  <1>6. \A k \in 0..n-1 : k \in G => k + 1 \in G
    <2> SUFFICES ASSUME NEW k \in 0..n-1, g[k] = kept \cup AncestorClosure(spans, Seen(k))
                 PROVE  g[k + 1] = kept \cup AncestorClosure(spans, Seen(k + 1))
        OBVIOUS
    <2> DEFINE i == todo[k + 1]
    <2>1. k + 1 \in 1..n /\ (k + 1) - 1 = k /\ i \in Ids(spans)
        OBVIOUS
    <2>2. /\ i \in K => g[k + 1] = g[k] \cup Chain(spans, i)
          /\ i \notin K => g[k + 1] = g[k]
        BY <1>4, <2>1
    <2>3. Seen(k + 1) = Seen(k) \cup ({i} \cap K)
      <3>1. 1..k+1 = (1..k) \cup {k + 1}
          OBVIOUS
      <3> QED BY <3>1
    <2>4. Seen(k) \in SUBSET Ids(spans)
        BY <1>2
    <2> HIDE DEF Seen, i
    <2>5. CASE i \in K
      <3>1. Seen(k + 1) = Seen(k) \cup {i}
          BY <2>3, <2>5
      <3>2. AncestorClosure(spans, Seen(k + 1)) = AncestorClosure(spans, Seen(k)) \cup Chain(spans, i)
          BY <2>1, <2>4, <3>1, ClosureOfUnion DEF Chain
      <3> QED BY <2>2, <2>5, <3>2
    <2>6. CASE i \notin K
      <3>1. Seen(k + 1) = Seen(k)
          BY <2>3, <2>6
      <3> QED BY <2>2, <2>6, <3>1
    <2> QED BY <2>5, <2>6
  <1>7. 0..n \subseteq G
    <2> HIDE DEF G
    <2> QED BY <1>5, <1>6, IntervalInduction
  <1>8. \A k \in 0..n : g[k] = kept \cup AncestorClosure(spans, Seen(k))
      BY <1>7
  <1> QED BY <1>4, <1>8 DEF Greedy, K

-----------------------------------------------------------------------------
(* The cut *)

\* Functions over 1..n are sequences.
LEMMA ListIsSeq ==
  ASSUME NEW n \in Nat, NEW S, NEW f \in [1..n -> S]
  PROVE  f \in Seq(S) /\ Len(f) = n /\ DOMAIN f = 1..n
  OBVIOUS

\* The order in which Fill looks at the spans: all of them, by start.
LEMMA StableLists ==
  ASSUME NEW spans, OneTree(spans),
         NEW s, s = Stable(spans, Ids(spans)), NEW n, n = Cardinality(Ids(spans))
  PROVE  /\ n \in Nat /\ s \in [1..n -> Ids(spans)] /\ Len(s) = n
         /\ \A k \in 1..n :
              {j \in Ids(spans) : Sooner(spans, j, s[k])} = {s[m] : m \in 1..k-1}
         /\ \A i \in Ids(spans) : \E k \in 1..n : s[k] = i
  <1> DEFINE ids == Ids(spans)
             before == {p \in ids \X ids : Earlier(SpanOf(spans, p[1]), SpanOf(spans, p[2]))}
  <1>1. IsFiniteSet(ids)
      BY SpanFacts DEF OneTree
  <1>2. StrictOrder(before, ids)
      BY StableOrder DEF OneTree
  <1>3. s = Sorted(ids, before)
      BY DEF Stable
  <1>4. \A i, j \in ids : <<i, j>> \in before <=> Sooner(spans, i, j)
      BY DEF Sooner
  <1> HIDE DEF before
  <1>5. /\ n \in Nat /\ s \in [1..n -> ids]
        /\ \A i \in ids : \E k \in 1..n : s[k] = i
        /\ \A m, k \in 1..n : m < k => <<s[m], s[k]>> \in before
        /\ \A m, k \in 1..n : s[m] = s[k] => m = k
      BY <1>1, <1>2, <1>3, SortedLists
  <1>6. ASSUME NEW k \in 1..n
        PROVE  {j \in ids : Sooner(spans, j, s[k])} = {s[m] : m \in 1..k-1}
    <2>1. s[k] \in ids /\ k \in Int
        BY <1>5
    <2>2. ASSUME NEW j \in ids, Sooner(spans, j, s[k]) PROVE \E m \in 1..k-1 : s[m] = j
      <3>1. PICK m \in 1..n : s[m] = j
          BY <1>5
      <3>2. ~(k < m)
        <4> SUFFICES ASSUME Sooner(spans, s[k], s[m]) PROVE FALSE
            BY <1>4, <1>5
        <4> QED BY <2>1, <2>2, <3>1, SoonerIsStrict DEF OneTree
      <3>3. m # k
          BY <2>1, <2>2, <3>1, SoonerIsStrict DEF OneTree
      <3>4. m \in 1..k-1
          BY <3>2, <3>3, <1>5
      <3> QED BY <3>1, <3>4
    <2>3. ASSUME NEW m \in 1..k-1 PROVE s[m] \in ids /\ Sooner(spans, s[m], s[k])
      <3>1. m \in 1..n /\ m < k
          BY <1>5
      <3> QED BY <3>1, <1>4, <1>5
    <2> QED BY <2>2, <2>3
  <1> QED BY <1>5, <1>6, ListIsSeq

\* The critical path and the root, and with them what failed: closed.
Path(t)   == AncestorClosure(t.spans, Critical(t.spans)) \cup Roots(t.spans)
Needed(t) == Path(t) \cup AncestorClosure(t.spans, Failed(t.spans))

\* Both are trees with the root, and the second is what _truncate requires.
LEMMA PathFacts ==
  ASSUME NEW t \in InputTrace, Validated(t)
  PROVE  /\ Closed(t.spans, Path(t)) /\ Closed(t.spans, Needed(t))
         /\ Path(t) = AncestorClosure(t.spans, Critical(t.spans)) \cup {RootOf(t)}
         /\ Required(t) = Needed(t)
         /\ RootOf(t) \in Path(t) /\ RootOf(t) \in Needed(t)
         /\ IsFiniteSet(Ids(t.spans)) /\ Ids(t.spans) \subseteq Nat
  <1> DEFINE spans == t.spans
             c == AncestorClosure(spans, Critical(spans))
             f == AncestorClosure(spans, Failed(spans))
  <1>1. /\ OneTree(spans) /\ Roots(spans) = {RootOf(t)} /\ RootOf(t) \in Ids(spans)
        /\ RootOf(t) = RootOf([spans |-> spans])
      BY ValidatedFacts
  <1>2. Critical(spans) \in SUBSET Ids(spans) /\ Failed(spans) \in SUBSET Ids(spans)
      BY DEF Critical, Failed, Ids
  <1>3. Closed(spans, c) /\ Closed(spans, f)
      BY <1>2, ClosureIsLeast
  <1>4. AncestorClosure(spans, Critical(spans) \cup Failed(spans)) = c \cup f
      BY <1>2, ClosureOfUnion
  <1>5. Up(spans, RootOf(t)) = {}
      BY <1>1, TreeFacts
  <1>6. Closed(spans, c \cup {RootOf(t)}) /\ Closed(spans, c \cup {RootOf(t)} \cup f)
      BY <1>1, <1>3, <1>5 DEF Closed
  <1>7. IsFiniteSet(Ids(spans)) /\ Ids(spans) \subseteq Nat
      BY <1>1, SpanFacts DEF OneTree
  <1>8. Path(t) = c \cup {RootOf(t)} /\ Needed(t) = c \cup {RootOf(t)} \cup f
      BY <1>1 DEF Path, Needed
  <1>9. Required(t) = c \cup f \cup {RootOf(t)}
      BY <1>4 DEF Required
  <1> HIDE DEF c, f
  <1> QED BY <1>6, <1>7, <1>8, <1>9 DEF c

\* The first spans of the visit: as many as fit, with their parents.
LEMMA FirstOfPath ==
  ASSUME NEW spans, OneTree(spans), NEW ids, Closed(spans, ids), Cardinality(ids) > MaxSpans,
         NEW order, order = TopologicalOrder(spans, ids),
         NEW first, first = {order[k] : k \in {k \in DOMAIN order : k <= MaxSpans}}
  PROVE  Closed(spans, first) /\ first \subseteq ids /\ Cardinality(first) = MaxSpans
  <1> DEFINE n == Cardinality(ids)
             f == [k \in 1..MaxSpans |-> order[k]]
  <1>1. /\ n \in Nat /\ order \in [1..n -> ids]
        /\ \A m, k \in 1..n : order[m] = order[k] => m = k
        /\ \A k \in 1..n : \A p \in Up(spans, order[k]) : \E m \in 1..k-1 : order[m] = p
    <2>1. n = Cardinality(ids)
        OBVIOUS
    <2> HIDE DEF n, f
    <2>2. Visits(spans, ids, order, n)
        BY <2>1, TopologicalOrderLists
    <2> QED BY <2>2 DEF Visits
  <1>2. MaxSpans \in Nat /\ n > MaxSpans
      BY TraceAssumption
  <1> HIDE DEF n
  <1>3. first = {order[k] : k \in 1..MaxSpans}
    <2>1. {k \in DOMAIN order : k <= MaxSpans} = 1..MaxSpans
        BY <1>1, <1>2
    <2> QED BY <2>1
  <1>4. first \subseteq ids /\ ids \subseteq Ids(spans)
      BY <1>1, <1>2, <1>3 DEF Closed
  <1>5. ASSUME NEW i \in first, NEW p \in Up(spans, i) PROVE p \in first
    <2>1. PICK k \in 1..MaxSpans : i = order[k]
        BY <1>3
    <2>2. k \in 1..n
        BY <1>1, <1>2
    <2>3. PICK m \in 1..k-1 : order[m] = p
        BY <1>1, <1>5, <2>1, <2>2
    <2>4. m \in 1..MaxSpans
        BY <1>2
    <2> QED BY <1>3, <2>3, <2>4
  <1>6. Cardinality(first) = MaxSpans
    <2>1. f \in Surjection(1..MaxSpans, first)
        BY <1>3 DEF Surjection
    <2>2. f \in Injection(1..MaxSpans, first)
        BY <1>1, <1>2, <1>3 DEF Injection, IsInjective
    <2> HIDE DEF f
    <2>3. IsFiniteSet(1..MaxSpans) /\ Cardinality(1..MaxSpans) = MaxSpans
      <3>1. 1 \in Int /\ MaxSpans \in Int /\ ~(1 > MaxSpans)
          BY TraceAssumption
      <3> QED BY <3>1, FS_Interval
    <2> QED BY <2>1, <2>2, <2>3, FS_Surjection
  <1> QED BY <1>4, <1>5, <1>6 DEF Closed

\* Filling up from what is needed keeps the spans that fit when it is their
\* turn, with what is above them, and no others.
LEMMA FillKeepsWell ==
  ASSUME NEW t \in InputTrace, Validated(t), Cardinality(Needed(t)) <= MaxSpans,
         NEW kept, kept = Fill(t.spans, Needed(t), Stable(t.spans, Ids(t.spans)))
  PROVE  /\ Closed(t.spans, kept) /\ Needed(t) \subseteq kept /\ Cardinality(kept) <= MaxSpans
         /\ \A i \in Ids(t.spans) : i \in kept <=>
              Cardinality(Needed(t) \cup AncestorClosure(t.spans,
                {j \in kept : Sooner(t.spans, j, i)} \cup {i})) <= MaxSpans
  <1> DEFINE spans == t.spans
             needed == Needed(t)
             s == Stable(spans, Ids(spans))
             n == Cardinality(Ids(spans))
             sooner(i) == {j \in kept : Sooner(spans, j, i)}
  <1>1. OneTree(spans) /\ Closed(spans, needed)
      BY ValidatedFacts, PathFacts
  <1>2. needed \in SUBSET Ids(spans)
      BY <1>1 DEF Closed
  <1> HIDE DEF spans, needed
  <1>3. /\ n \in Nat /\ s \in [1..n -> Ids(spans)] /\ Len(s) = n
        /\ \A k \in 1..n :
             {j \in Ids(spans) : Sooner(spans, j, s[k])} = {s[m] : m \in 1..k-1}
        /\ \A i \in Ids(spans) : \E k \in 1..n : s[k] = i
      BY <1>1, StableLists
  <1> HIDE DEF s, n
  <1>4. PICK g : Grows(spans, needed, s, n, g) /\ kept = g[n]
    <2>1. kept = Fill(spans, needed, s)
        BY DEF spans, needed, s
    <2> QED BY <1>1, <1>2, <1>3, <2>1, FillGrows
  <1>5. Cardinality(needed) <= MaxSpans
      BY DEF needed
  <1>6. /\ \A k \in 0..n : Closed(spans, g[k]) /\ Cardinality(g[k]) <= MaxSpans
        /\ \A k \in 0..n : g[k] \subseteq g[n]
      BY <1>1, <1>3, <1>4, <1>5, GrowsClosed
  <1>7. /\ \A k \in 1..n : s[k] \in g[n] <=>
             Cardinality(g[k - 1] \cup Chain(spans, s[k])) <= MaxSpans
        /\ \A k \in 0..n : g[k] =
             needed \cup AncestorClosure(spans, {s[m] : m \in 1..k} \cap g[n])
    <2>1. Greedy(spans, needed, s, n, g)
        BY <1>1, <1>3, <1>4, <1>5, GrowsGreedily
    <2> QED BY <2>1 DEF Greedy
  <1>8. Closed(spans, kept) /\ needed \subseteq kept /\ Cardinality(kept) <= MaxSpans
    <2>1. 0 \in 0..n /\ n \in 0..n /\ g[0] = needed
        BY <1>3, <1>4 DEF Grows
    <2> QED BY <1>4, <1>6, <2>1
  <1>9. ASSUME NEW i \in Ids(spans)
        PROVE  i \in kept <=>
                 Cardinality(needed \cup AncestorClosure(spans, sooner(i) \cup {i})) <= MaxSpans
    <2>1. PICK k \in 1..n : s[k] = i
        BY <1>3
    <2>2. sooner(i) = {s[m] : m \in 1..k-1} \cap g[n]
      <3>1. kept \subseteq Ids(spans)
          BY <1>8 DEF Closed
      <3> QED BY <1>3, <1>4, <2>1, <3>1
    <2>3. k - 1 \in 0..n
        BY <1>3
    <2>4. sooner(i) \in SUBSET Ids(spans)
        BY <1>8 DEF Closed
    <2> HIDE DEF sooner
    <2>5. g[k - 1] = needed \cup AncestorClosure(spans, sooner(i))
        BY <1>7, <2>2, <2>3
    <2>6. AncestorClosure(spans, sooner(i) \cup {i}) =
            AncestorClosure(spans, sooner(i)) \cup Chain(spans, i)
        BY <2>4, ClosureOfUnion DEF Chain
    <2>7. g[k - 1] \cup Chain(spans, i) =
            needed \cup AncestorClosure(spans, sooner(i) \cup {i})
        BY <2>5, <2>6
    <2> QED BY <1>4, <1>7, <2>1, <2>7
  <1> QED BY <1>8, <1>9 DEF spans, needed

\* What the cut selects: a tree with the root that fits, and holds what a
\* trace may not lose.
LEMMA SelectedFacts ==
  ASSUME NEW t \in InputTrace, Validated(t)
  PROVE  /\ Closed(t.spans, Selected(t)) /\ RootOf(t) \in Selected(t)
         /\ Cardinality(Selected(t)) <= MaxSpans
         /\ WellKept(t, Selected(t))
  <1> DEFINE kept == Selected(t)
             fits(S) == Cardinality(S) <= MaxSpans
  <1>1. /\ Closed(t.spans, Path(t)) /\ Closed(t.spans, Needed(t))
        /\ Path(t) = AncestorClosure(t.spans, Critical(t.spans)) \cup {RootOf(t)}
        /\ Required(t) = Needed(t)
        /\ RootOf(t) \in Path(t) /\ RootOf(t) \in Needed(t)
        /\ IsFiniteSet(Ids(t.spans))
      BY PathFacts
  <1>2. OneTree(t.spans)
      BY ValidatedFacts
  <1>3. /\ MaxSpans \in Nat /\ MaxSpans > 0
        /\ \A S : Closed(t.spans, S) => IsFiniteSet(S) /\ Cardinality(S) \in Nat
      BY <1>1, TraceAssumption, FS_Subset, FS_CardinalityType DEF Closed
  <1>4. WellKept(t, kept) <=>
          \/ /\ fits(Needed(t)) /\ Needed(t) \subseteq kept
             /\ \A i \in Ids(t.spans) \ Needed(t) : i \in kept <=>
                  fits(Needed(t) \cup AncestorClosure(t.spans,
                    {j \in kept : Sooner(t.spans, j, i)} \cup {i}))
          \/ ~fits(Needed(t)) /\ fits(Path(t)) /\ kept = Path(t)
          \/ ~fits(Path(t)) /\ kept \subseteq Path(t) /\ Cardinality(kept) = MaxSpans
    <2> HIDE DEF kept
    <2> QED BY DEF WellKept, Path, Needed, Sooner
  <1>5. CASE fits(Needed(t))
    <2>1. ~(Cardinality(Required(t)) > MaxSpans)
        BY <1>1, <1>3, <1>5
    <2>2. kept = Fill(t.spans, Needed(t), Stable(t.spans, Ids(t.spans)))
        BY <1>1, <2>1 DEF Selected
    <2> HIDE DEF kept
    <2>3. /\ Closed(t.spans, kept) /\ Needed(t) \subseteq kept /\ Cardinality(kept) <= MaxSpans
          /\ \A i \in Ids(t.spans) : i \in kept <=>
               Cardinality(Needed(t) \cup AncestorClosure(t.spans,
                 {j \in kept : Sooner(t.spans, j, i)} \cup {i})) <= MaxSpans
        BY <1>5, <2>2, FillKeepsWell
    <2>4. WellKept(t, kept)
        BY <1>4, <1>5, <2>3
    <2> QED BY <1>1, <2>3, <2>4 DEF kept
  <1>6. CASE ~fits(Needed(t))
    <2> DEFINE order == TopologicalOrder(t.spans, Path(t))
               n == Cardinality(Path(t))
    <2>1. Cardinality(Required(t)) > MaxSpans
        BY <1>1, <1>3, <1>6
    <2>2. kept = {order[k] : k \in {k \in DOMAIN order : k <= MaxSpans}}
        BY <1>1, <2>1 DEF Selected
    <2>3. CASE fits(Path(t))
      <3>1. /\ n \in Nat /\ order \in [1..n -> Path(t)]
            /\ \A i \in Path(t) : \E k \in 1..n : order[k] = i
        <4>1. n = Cardinality(Path(t)) /\ order = TopologicalOrder(t.spans, Path(t))
            OBVIOUS
        <4> HIDE DEF n, order, kept
        <4>2. Visits(t.spans, Path(t), order, n)
            BY <1>1, <1>2, <4>1, TopologicalOrderLists
        <4> QED BY <4>2 DEF Visits
      <3>2. n <= MaxSpans
          BY <2>3
      <3> HIDE DEF order, n, kept
      <3>3. {k \in DOMAIN order : k <= MaxSpans} = 1..n
          BY <1>3, <3>1, <3>2
      <3>4. kept = Path(t)
          BY <2>2, <3>1, <3>3
      <3> QED BY <1>1, <1>4, <1>6, <2>3, <3>4 DEF kept
    <2>4. CASE ~fits(Path(t))
      <3>1. Cardinality(Path(t)) > MaxSpans
          BY <1>1, <1>3, <2>4
      <3> HIDE DEF order, n, kept
      <3>2. Closed(t.spans, kept) /\ kept \subseteq Path(t) /\ Cardinality(kept) = MaxSpans
          BY <1>1, <1>2, <2>2, <3>1, FirstOfPath DEF order
      <3>3. RootOf(t) \in kept
        <4>1. kept # {}
            BY <1>3, <3>2, FS_EmptySet
        <4>2. PICK i : i \in kept /\ i \in Ids(t.spans)
            BY <3>2, <4>1 DEF Closed
        <4>3. Chain(t.spans, i) \subseteq kept
            BY <3>2, <4>2, ChainFacts
        <4> QED BY <1>2, <4>2, <4>3, TreeFacts, ValidatedFacts
      <3>4. WellKept(t, kept)
          BY <1>4, <2>4, <3>2
      <3> QED BY <1>3, <3>2, <3>3, <3>4 DEF kept
    <2> QED BY <2>3, <2>4
  <1> QED BY <1>5, <1>6

-----------------------------------------------------------------------------
(* What is stored, and what the back end makes of it *)

\* The stored spans are the selected ones, as they were, parents first.
LEMMA StoredSpans ==
  ASSUME NEW t \in InputTrace, Validated(t), NEW spans, spans = Stored(t).spans
  PROVE  /\ spans \in Seq(InputSpan) /\ Len(spans) \in 1..MaxSpans
         /\ Len(spans) <= Len(t.spans)
         /\ Len(spans) = Len(TopologicalOrder(t.spans, Selected(t)))
         /\ Ids(spans) = Selected(t) /\ Distinct(spans)
         /\ \A i \in Selected(t) : SpanOf(spans, i) = SpanOf(t.spans, i)
         /\ \A k \in DOMAIN spans : \E m \in DOMAIN t.spans : spans[k] = t.spans[m]
         /\ ParentsFirst(spans)
  <1> DEFINE all == t.spans
             kept == Selected(t)
             order == TopologicalOrder(all, kept)
             n == Cardinality(kept)
  <1>1. /\ OneTree(all) /\ all \in Seq(InputSpan) /\ RootOf(t) \in Ids(all)
        /\ Closed(all, kept) /\ RootOf(t) \in kept /\ n <= MaxSpans /\ kept \subseteq Ids(all)
      BY ValidatedFacts, SelectedFacts DEF Closed
  <1>2. spans = [k \in DOMAIN order |-> SpanOf(all, order[k])]
      BY DEF Stored
  <1> HIDE DEF all, kept
  <1>3. IsFiniteSet(kept) /\ Visits(all, kept, order, n)
    <2>1. n = Cardinality(kept) /\ order = TopologicalOrder(all, kept)
        OBVIOUS
    <2> HIDE DEF n, order
    <2> QED BY <1>1, <2>1, TopologicalOrderLists
  <1>4. n \in Nat /\ n # 0 /\ n <= Cardinality(Ids(all)) /\ Cardinality(Ids(all)) = Len(all)
      BY <1>1, <1>3, SpanFacts, FS_Subset, FS_EmptySet, FS_CardinalityType DEF OneTree, Distinct
  <1>5. /\ order \in [1..n -> kept]
        /\ \A i \in kept : \E k \in 1..n : order[k] = i
        /\ \A k \in 1..n : \A p \in Up(all, order[k]) : \E m \in 1..k-1 : order[m] = p
        /\ \A m, k \in 1..n : order[m] = order[k] => m = k
      BY <1>3 DEF Visits
  <1>6. Len(order) = n /\ DOMAIN order = 1..n
      BY <1>4, <1>5, ListIsSeq
  <1> HIDE DEF order, n
  <1>7. \A k \in 1..n : /\ order[k] \in kept /\ order[k] \in Ids(all)
                        /\ spans[k] = SpanOf(all, order[k])
                        /\ spans[k] \in InputSpan /\ spans[k].id = order[k]
                        /\ \E m \in DOMAIN all : spans[k] = all[m]
    <2> SUFFICES ASSUME NEW k \in 1..n
                 PROVE  /\ order[k] \in kept /\ order[k] \in Ids(all)
                        /\ spans[k] = SpanOf(all, order[k])
                        /\ spans[k] \in InputSpan /\ spans[k].id = order[k]
                        /\ \E m \in DOMAIN all : spans[k] = all[m]
        OBVIOUS
    <2>1. order[k] \in kept /\ order[k] \in Ids(all) /\ spans[k] = SpanOf(all, order[k])
        BY <1>1, <1>2, <1>5, <1>6
    <2> QED BY <1>1, <2>1, SpanFacts
  <1>8. spans \in [1..n -> InputSpan]
      BY <1>2, <1>6, <1>7
  <1>9. spans \in Seq(InputSpan) /\ Len(spans) = n /\ DOMAIN spans = 1..n
      BY <1>4, <1>8, ListIsSeq
  <1>10. Ids(spans) = kept
    <2>1. Ids(spans) = {spans[k].id : k \in 1..n}
        BY <1>9 DEF Ids
    <2> QED BY <1>5, <1>7, <2>1
  <1>11. Distinct(spans)
      BY <1>9, <1>10 DEF Distinct, n
  <1>12. ASSUME NEW i \in kept PROVE SpanOf(spans, i) = SpanOf(all, i)
    <2>1. PICK k \in DOMAIN spans : SpanOf(spans, i) = spans[k] /\ spans[k].id = i
        BY <1>9, <1>10, <1>12, SpanFacts
    <2> QED BY <1>7, <1>9, <2>1
  <1>13. ParentsFirst(spans)
    <2> SUFFICES ASSUME NEW k \in 1..n, spans[k].parent # NoParent
                 PROVE  \E m \in 1..k-1 : spans[m].id = spans[k].parent
        BY <1>9 DEF ParentsFirst
    <2>1. spans[k].parent = Parent(all, order[k])
        BY <1>7 DEF Parent
    <2>2. spans[k].parent \in Up(all, order[k])
        BY <1>1, <1>7, <2>1, TreeFacts
    <2>3. PICK m \in 1..k-1 : order[m] = spans[k].parent
        BY <1>5, <2>2
    <2>4. m \in 1..n
        BY <1>4
    <2> QED BY <1>7, <2>3, <2>4
  <1>14. n \in 1..MaxSpans /\ n <= Len(all)
      BY <1>1, <1>4, TraceAssumption
  <1> QED
      BY <1>6, <1>7, <1>9, <1>10, <1>11, <1>12, <1>13, <1>14 DEF all, kept, order

\* The way up from a stored span ends at the root.
LEMMA StoredTree ==
  ASSUME NEW t \in InputTrace, Validated(t), NEW spans, spans = Stored(t).spans
  PROVE  /\ Roots(spans) = {RootOf(t)}
         /\ \A i \in Ids(spans) : SpanOf(spans, i).parent \in Ids(spans) \cup {NoParent}
         /\ \A i \in Ids(spans) : Climb(spans, i) = "root"
  <1> DEFINE all == t.spans
             kept == Selected(t)
  <1>1. /\ OneTree(all) /\ Roots(all) = {RootOf(t)}
        /\ RootOf(t) = RootOf([spans |-> all])
        /\ Closed(all, kept) /\ RootOf(t) \in kept /\ kept \subseteq Ids(all)
      BY ValidatedFacts, SelectedFacts DEF Closed
  <1>2. Ids(spans) = kept /\ \A i \in kept : SpanOf(spans, i) = SpanOf(all, i)
      BY StoredSpans
  <1> HIDE DEF all, kept
  <1>3. \A i \in kept : Parent(spans, i) = Parent(all, i)
      BY <1>2 DEF Parent
  <1>4. \A i \in Ids(all) : Parent(all, i) = NoParent <=> i = RootOf(t)
      BY <1>1, TreeFacts
  <1>5. \A i \in kept : Parent(spans, i) \in kept \/ Parent(spans, i) = NoParent
    <2> SUFFICES ASSUME NEW i \in kept, Parent(all, i) # NoParent PROVE Parent(all, i) \in kept
        BY <1>3
    <2>1. Parent(all, i) \in Up(all, i)
        BY <1>1, TreeFacts
    <2> QED BY <1>1, <2>1 DEF Closed
  <1>6. Roots(spans) = {RootOf(t)}
      BY <1>1, <1>2, <1>3, <1>4 DEF Roots, Parent
  <1>7. ASSUME NEW i \in kept PROVE Climb(spans, i) = "root"
    <2> DEFINE C == Chain(spans, i)
               ends == {SpanOf(spans, j).parent : j \in C} \ Ids(spans)
    <2>1. i \in C /\ C \subseteq kept /\ \A j \in C : Up(spans, j) \subseteq C
        BY <1>2, <1>7, ChainFacts
    <2> HIDE DEF C
    <2>2. ends \subseteq {NoParent}
        BY <1>2, <1>5, <2>1 DEF Parent
    <2>3. ends # {}
      <3> SUFFICES ASSUME \A j \in C : Parent(spans, j) \in kept PROVE FALSE
          BY <1>2 DEF Parent
      <3>1. \A j \in C : Parent(all, j) \in C
          BY <1>2, <1>3, <2>1 DEF Up, Parent
      <3>2. Closed(all, C)
          BY <1>1, <2>1, <3>1 DEF Closed, Up, Parent
      <3>3. RootOf(t) \in C
          BY <1>1, <1>7, <2>1, <3>2, ChainFacts, TreeFacts
      <3>4. NoParent \in C /\ NoParent \in Ids(all)
          BY <1>1, <1>4, <2>1, <3>1, <3>3
      <3> QED BY <1>1, <3>4, TreeFacts
    <2>4. Climb(spans, i) =
            IF ends = {} THEN "cycle" ELSE IF ends = {NoParent} THEN "root" ELSE "KeyError"
        BY DEF Climb, C
    <2>5. ends = {NoParent}
        BY <2>2, <2>3
    <2> HIDE DEF ends
    <2> QED BY <2>3, <2>4, <2>5
  <1> QED BY <1>2, <1>5, <1>6, <1>7 DEF Parent

\* The back end shows a trace the worker stored if its ids are plain, and
\* never fails on it.
LEMMA StoredIsParsed ==
  ASSUME NEW t \in InputTrace, Validated(t), NEW r, r = Stored(t)
  PROVE  Parsed(r) = IF r.plain /\ \A k \in DOMAIN r.spans : r.spans[k].plain
                     THEN "trace" ELSE "null"
  <1> DEFINE spans == r.spans
  <1>1. /\ spans \in Seq(InputSpan) /\ Len(spans) \in 1..MaxSpans
        /\ Len(spans) <= Len(t.spans)
        /\ Len(spans) = Len(TopologicalOrder(t.spans, Selected(t)))
        /\ Distinct(spans)
        /\ \A k \in DOMAIN spans : \E m \in DOMAIN t.spans : spans[k] = t.spans[m]
      BY StoredSpans
  <1>2. /\ Roots(spans) = {RootOf(t)}
        /\ \A i \in Ids(spans) : SpanOf(spans, i).parent \in Ids(spans) \cup {NoParent}
        /\ \A i \in Ids(spans) : Climb(spans, i) = "root"
      BY StoredTree
  <1>3. /\ r.root = RootOf(t) /\ r.duration = Duration(t) /\ r.count = Len(t.spans)
        /\ r.truncated = (Len(TopologicalOrder(t.spans, Selected(t))) < Len(t.spans))
      BY DEF Stored
  <1> HIDE DEF spans
  <1>4. Len(spans) \in Nat /\ Len(t.spans) \in Nat
      BY <1>1 DEF InputTrace
  <1>5. r.count >= Len(spans) /\ (r.truncated <=> r.count > Len(spans))
      BY <1>1, <1>3, <1>4
  <1>6. WithinTrace(spans, r.duration)
    <2>1. WithinTrace(t.spans, Duration(t))
        BY ValidatedIsUsable
    <2> QED BY <1>1, <1>3, <2>1 DEF WithinTrace
  <1>7. Tree(spans) = "trace"
    <2>1. \A k \in DOMAIN spans : spans[k].id \in Ids(spans) /\ SpanOf(spans, spans[k].id) = spans[k]
        BY <1>1, DistinctSpans DEF Ids
    <2>2. \A k \in DOMAIN spans : Looks(spans, k) = "root"
        BY <1>2, <2>1 DEF Looks
    <2>3. {k \in DOMAIN spans : Looks(spans, k) # "root"} = {}
        BY <2>2
    <2> QED BY <2>3 DEF Tree
  <1> QED BY <1>1, <1>2, <1>3, <1>5, <1>6, <1>7 DEF Parsed, spans

-----------------------------------------------------------------------------
(* The inductive invariant *)

\* Where a collection is: every answer so far has its evidence, unless one had
\* no candidate and ended it.
Progress ==
  /\ answers \in Seq(Seq(InputTrace)) /\ evidence \in Seq({Stored(t) : t \in InputTrace})
  /\ stage \in {"collecting", "failed", "stored"}
  /\ stage = "collecting" => Len(answers) < Len(Payloads)
  /\ stage # "failed" => Len(evidence) = Len(answers)
  /\ stage = "failed" => /\ evidence = <<>> /\ answers # <<>>
                         /\ Candidates(Last(answers)) = {}
  /\ stage = "stored" => newest \in DOMAIN evidence

\* What the evidence is made of.
MadeOfAnswers ==
  \A k \in DOMAIN evidence :
    Candidates(answers[k]) # {} /\ evidence[k] = Stored(Representative(answers[k]))

TraceInv == Progress /\ MadeOfAnswers

\* It holds before the first tool is asked.
LEMMA InitTraceInv == Init => TraceInv
  <1> SUFFICES ASSUME Init PROVE TraceInv
      OBVIOUS
  <1>1. Len(Payloads) > 0
      BY TraceAssumption
  <1> QED BY <1>1 DEF Init, TraceInv, Progress, MadeOfAnswers

\* Every answer, and every look at the page, keeps it.
LEMMA NextTraceInv == TraceInv /\ [Next]_vars => TraceInv'
  <1> SUFFICES ASSUME TraceInv, [Next]_vars PROVE TraceInv'
      OBVIOUS
  <1> USE DEF TraceInv
  <1>1. ASSUME NEW p \in Payloads[Len(answers) + 1], stage = "collecting", Reject(p)
        PROVE  TraceInv'
    <2>1. Len(answers) + 1 \in 1..Len(Payloads) /\ p \in Seq(InputTrace)
      <3>1. Len(answers) + 1 \in 1..Len(Payloads)
          BY <1>1 DEF Progress
      <3> QED BY <3>1, TraceAssumption
    <2>2. answers' \in Seq(Seq(InputTrace)) /\ answers' # <<>> /\ Last(answers') = p
        BY <1>1, <2>1 DEF Progress, Reject, Answer, Last
    <2>3. Progress'
        BY <1>1, <2>2 DEF Progress, Reject
    <2>4. MadeOfAnswers'
        BY <1>1 DEF MadeOfAnswers, Reject
    <2> QED BY <2>3, <2>4
  <1>2. ASSUME NEW p \in Payloads[Len(answers) + 1], stage = "collecting", Accept(p)
        PROVE  TraceInv'
    <2> DEFINE e == Stored(Representative(p))
               n == Len(answers)
    <2>1. n + 1 \in 1..Len(Payloads) /\ p \in Seq(InputTrace) /\ n \in Nat
          /\ Len(Payloads) \in Nat /\ DOMAIN Payloads = 1..Len(Payloads)
      <3>1. n + 1 \in 1..Len(Payloads)
          BY <1>2 DEF Progress
      <3> QED BY <3>1, TraceAssumption DEF Progress
    <2>2. e \in {Stored(t) : t \in InputTrace}
      <3>1. PICK k \in Candidates(p) : Representative(p) = p[k]
          BY <1>2, <2>1, RepresentativeRanksHighest DEF Accept
      <3>2. p[k] \in InputTrace
          BY <2>1 DEF Candidates
      <3> QED BY <3>1, <3>2
    <2>3. answers' = Append(answers, p) /\ evidence' = Append(evidence, e)
          /\ Candidates(p) # {}
        BY <1>2 DEF Accept, Answer
    <2> HIDE DEF e
    <2>4. /\ answers \in Seq(Seq(InputTrace)) /\ evidence \in Seq({Stored(t) : t \in InputTrace})
          /\ Len(evidence) = n
        BY <1>2 DEF Progress
    <2>5. /\ answers' \in Seq(Seq(InputTrace)) /\ evidence' \in Seq({Stored(t) : t \in InputTrace})
          /\ Len(answers') = n + 1 /\ Len(evidence') = n + 1
          /\ DOMAIN evidence = 1..n /\ DOMAIN evidence' = 1..n+1
          /\ \A k \in 1..n : answers'[k] = answers[k] /\ evidence'[k] = evidence[k]
          /\ answers'[n + 1] = p /\ evidence'[n + 1] = e
        BY <2>1, <2>2, <2>3, <2>4
    <2>6. Progress'
      <3>1. CASE Len(answers') = Len(Payloads)
        <4>1. stage' = "stored" /\ newest' \in DOMAIN Payloads
            BY <1>2, <3>1 DEF Accept
        <4>2. newest' \in DOMAIN evidence'
            BY <2>1, <2>5, <3>1, <4>1
        <4> QED BY <2>5, <4>1, <4>2 DEF Progress
      <3>2. CASE Len(answers') # Len(Payloads)
        <4>1. stage' = "collecting"
            BY <1>2, <3>2 DEF Accept
        <4>2. Len(answers') < Len(Payloads)
          <5>1. n + 1 # Len(Payloads)
              BY <2>5, <3>2
          <5> DEFINE N == Len(Payloads)
          <5>2. n \in Nat /\ N \in Nat /\ n < N /\ n + 1 # N
              BY <1>2, <2>1, <5>1 DEF Progress
          <5> HIDE DEF n, N
          <5>3. n + 1 < N
              BY <5>2
          <5> QED BY <2>5, <5>3 DEF N
        <4> QED BY <2>5, <4>1, <4>2 DEF Progress
      <3> QED BY <3>1, <3>2
    <2>7. MadeOfAnswers'
      <3> SUFFICES ASSUME NEW k \in 1..n+1
                   PROVE  Candidates(answers'[k]) # {}
                          /\ evidence'[k] = Stored(Representative(answers'[k]))
          BY <2>5 DEF MadeOfAnswers
      <3>1. CASE k = n + 1
          BY <2>3, <2>5, <3>1 DEF e
      <3>2. CASE k # n + 1
        <4>1. k \in 1..n
            BY <2>1, <3>2
        <4> QED BY <2>5, <4>1 DEF MadeOfAnswers
      <3> QED BY <3>1, <3>2
    <2> QED BY <2>6, <2>7
  <1>3. CASE Show
      BY <1>3 DEF Show, Progress, MadeOfAnswers
  <1>4. CASE UNCHANGED vars
      BY <1>4 DEF vars, Progress, MadeOfAnswers
  <1> QED BY <1>1, <1>2, <1>3, <1>4 DEF Next

\* The drafts of a collection are those of the answers it was given, whatever
\* tools there are and whatever they answer (McpSpecialist._collect_evidence).
THEOREM Tracing == Spec => []TraceInv
  BY InitTraceInv, NextTraceInv, PTL DEF Spec

-----------------------------------------------------------------------------
(* What the properties need *)

\* Trees are the candidates of an answer.
LEMMA TreesAreCandidates ==
  ASSUME NEW p \in Seq(InputTrace), NEW t
  PROVE  t \in Trees(p) <=> \E k \in Candidates(p) : t = p[k]
  <1>1. \A k \in DOMAIN p : p[k] \in InputTrace
      OBVIOUS
  <1>2. \A k \in DOMAIN p : Validated(p[k]) <=> Usable(p[k])
      BY <1>1, ValidatedIsUsable
  <1> QED BY <1>2 DEF Trees, ToSet, Candidates

\* The representative of an answer is a tree of it, and none is worse.
LEMMA RepresentativeIsTheWorst ==
  ASSUME NEW p \in Seq(InputTrace), Candidates(p) # {}, NEW t, t = Representative(p)
  PROVE  /\ t \in InputTrace /\ Validated(t) /\ t \in Trees(p)
         /\ \A other \in Trees(p) : ~Worse(other, t)
  <1>1. PICK k \in Candidates(p) : /\ t = p[k]
                                   /\ \A m \in Candidates(p) : ~Above(Rank(p[m]), Rank(p[k]))
      BY RepresentativeRanksHighest
  <1>2. \A m \in Candidates(p) : p[m] \in InputTrace /\ Validated(p[m])
      BY DEF Candidates
  <1>3. \A m \in Candidates(p) : ~Worse(p[m], t)
      BY <1>1, <1>2, AboveIsWorse
  <1> QED BY <1>1, <1>2, <1>3, TreesAreCandidates

\* What is known of a piece of evidence.
LEMMA EvidenceFacts ==
  ASSUME TraceInv, NEW k \in DOMAIN evidence
  PROVE  /\ k \in DOMAIN answers /\ answers[k] \in Seq(InputTrace)
         /\ Candidates(answers[k]) # {}
         /\ evidence[k] = Stored(Representative(answers[k]))
  <1>1. stage # "failed"
      BY DEF TraceInv, Progress
  <1> QED BY <1>1 DEF TraceInv, Progress, MadeOfAnswers

-----------------------------------------------------------------------------
(* The properties *)

\* Evidence made of the representative is made of the worst tree there is.
LEMMA InvStoresTheWorst == TraceInv => StoresTheWorst
  <1> SUFFICES ASSUME TraceInv PROVE StoresTheWorst
      OBVIOUS
  <1>1. ASSUME NEW k \in DOMAIN evidence
        PROVE  \E t \in Trees(answers[k]) :
                 /\ evidence[k].id = t.id /\ evidence[k].duration = Duration(t)
                 /\ evidence[k].spans # <<>> /\ evidence[k].root \in Roots(t.spans)
                 /\ \A other \in Trees(answers[k]) : ~Worse(other, t)
    <2> DEFINE t == Representative(answers[k])
    <2>1. /\ answers[k] \in Seq(InputTrace) /\ Candidates(answers[k]) # {}
          /\ evidence[k] = Stored(t)
        BY EvidenceFacts
    <2>2. /\ t \in InputTrace /\ Validated(t) /\ t \in Trees(answers[k])
          /\ \A other \in Trees(answers[k]) : ~Worse(other, t)
        BY <2>1, RepresentativeIsTheWorst
    <2> HIDE DEF t
    <2>3. Len(evidence[k].spans) \in 1..MaxSpans
        BY <2>1, <2>2, StoredSpans
    <2>4. evidence[k].spans # <<>>
        BY <2>3
    <2>5. /\ evidence[k].id = t.id /\ evidence[k].duration = Duration(t)
          /\ evidence[k].root = RootOf(t)
        BY <2>1 DEF Stored
    <2>6. evidence[k].root \in Roots(t.spans)
        BY <2>2, <2>5, ValidatedFacts
    <2> QED BY <2>2, <2>4, <2>5, <2>6
  <1>2. ASSUME stage = "failed" PROVE Trees(Last(answers)) = {}
    <2>1. answers \in Seq(Seq(InputTrace)) /\ answers # <<>> /\ Candidates(Last(answers)) = {}
        BY <1>2 DEF TraceInv, Progress
    <2>2. Last(answers) \in Seq(InputTrace)
        BY <2>1 DEF Last
    <2> QED BY <2>1, <2>2, TreesAreCandidates
  <1> QED BY <1>1, <1>2 DEF StoresTheWorst

\* Its spans are what the cut selected of that tree.
LEMMA InvKeepsWhatMatters == TraceInv => KeepsWhatMatters
  <1> SUFFICES ASSUME TraceInv, NEW k \in DOMAIN evidence
               PROVE  \E t \in Trees(answers[k]) :
                        /\ t.id = evidence[k].id /\ Len(t.spans) = evidence[k].count
                        /\ ToSet(evidence[k].spans) \subseteq ToSet(t.spans)
                        /\ WellCut(t, evidence[k].spans)
      BY DEF KeepsWhatMatters
  <1> DEFINE t == Representative(answers[k])
             spans == evidence[k].spans
  <1>1. /\ answers[k] \in Seq(InputTrace) /\ Candidates(answers[k]) # {}
        /\ evidence[k] = Stored(t)
      BY EvidenceFacts
  <1>2. t \in InputTrace /\ Validated(t) /\ t \in Trees(answers[k])
      BY <1>1, RepresentativeIsTheWorst
  <1>3. t.id = evidence[k].id /\ Len(t.spans) = evidence[k].count
      BY <1>1 DEF Stored
  <1> HIDE DEF t
  <1>4. /\ Ids(spans) = Selected(t) /\ ParentsFirst(spans)
        /\ \A n \in DOMAIN spans : \E m \in DOMAIN t.spans : spans[n] = t.spans[m]
    <2>1. spans = Stored(t).spans
        BY <1>1
    <2> HIDE DEF spans
    <2> QED BY <1>2, <2>1, StoredSpans
  <1>5. WellCut(t, spans)
      BY <1>2, <1>4, SelectedFacts DEF WellCut
  <1>6. ToSet(spans) \subseteq ToSet(t.spans)
      BY <1>4 DEF ToSet
  <1> QED BY <1>2, <1>3, <1>5, <1>6

\* Evidence is made of an answer exactly when it holds a tree of spans within
\* its trace's time, and of the worst of them by error, anomaly, match,
\* duration and id; the answer that fails a collection holds none
\* (normalize_trace_evidence).
THEOREM WorstIsStored == Spec => []StoresTheWorst
  BY Tracing, InvStoresTheWorst, PTL

\* The cut keeps what is needed with all that is above it, fills up with the
\* earliest spans that fit with theirs, and falls back to the critical path
\* and to its first spans (_truncate).
THEOREM CutKeepsWhatMatters == Spec => []KeepsWhatMatters
  BY Tracing, InvKeepsWhatMatters, PTL

\* The only step that shows anything shows evidence of that form.
LEMMA NextShownAsStored ==
  TraceInv /\ [Next]_vars =>
    (stage = "stored" /\ shown' # shown =>
       LET e == evidence[newest]
           readable == e.plain /\ \A k \in DOMAIN e.spans : e.spans[k].plain
       IN  shown' = IF readable THEN "trace" ELSE "null")
  <1> DEFINE e == evidence[newest]
             t == Representative(answers[newest])
  <1> SUFFICES ASSUME TraceInv, [Next]_vars, stage = "stored", shown' # shown
               PROVE  shown' = IF e.plain /\ \A k \in DOMAIN e.spans : e.spans[k].plain
                               THEN "trace" ELSE "null"
      OBVIOUS
  <1>1. shown' = Parsed(e)
      BY DEF Next, Show, vars
  <1>2. newest \in DOMAIN evidence
      BY DEF TraceInv, Progress
  <1>3. /\ answers[newest] \in Seq(InputTrace) /\ Candidates(answers[newest]) # {}
        /\ e = Stored(t)
      BY <1>2, EvidenceFacts
  <1>4. t \in InputTrace /\ Validated(t)
      BY <1>3, RepresentativeIsTheWorst
  <1> HIDE DEF t, e
  <1> QED BY <1>1, <1>3, <1>4, StoredIsParsed

\* The back end, validating on its own, shows every trace the worker stored
\* unless one of its ids is not plain, and never ends in an error
\* (parse_trace_waterfall).
THEOREM StoredIsShown == Spec => ShownAsStored
  <1>1. TraceInv /\ [Next]_vars =>
          [stage = "stored" /\ shown' # shown =>
             LET e == evidence[newest]
                 readable == e.plain /\ \A k \in DOMAIN e.spans : e.spans[k].plain
             IN  shown' = IF readable THEN "trace" ELSE "null"]_vars
      BY NextShownAsStored
  <1> QED BY Tracing, <1>1, PTL DEF Spec, ShownAsStored
=============================================================================
