--------------------------- MODULE TraceWaterfall ---------------------------
(***************************************************************************)
(* The trace of an RCA run, from the answers of the TRACE tools to the page *)
(* of an operator.  For each answer the worker validates the candidate      *)
(* traces, ranks them, cuts the best one down to its cap and makes it a     *)
(* draft of evidence (normalize_trace_evidence); the drafts of a collection *)
(* are stored together, see EvidenceSession.  The back end trusts nothing   *)
(* of what it finds and validates the stored trace again, in code of its    *)
(* own (parse_trace_waterfall).                                             *)
(* Texts, attributes and times of day are left out; ids are numbered in     *)
(* their order, and "plain" ones are those that look like identifiers.      *)
(***************************************************************************)
EXTENDS Integers, FiniteSets, Sequences, SequencesExt

CONSTANTS
  Payloads,    \* for each TRACE tool what it may answer: sequences of traces
  MaxSpans     \* spans of a stored trace, in the worker and in the back end

NoParent   == 0
NoDuration == -1

\* What a tool sends, once its types are checked; times are not negative.
InputSpan  == [id : Nat \ {NoParent}, plain : BOOLEAN, parent : Nat, start : Nat, duration : Nat,
               error : BOOLEAN, critical : BOOLEAN]
InputTrace == [id : Nat, plain : BOOLEAN, anomaly : Nat, match : Nat,
               duration : Nat \cup {NoDuration}, spans : Seq(InputSpan) \ {<<>>}]

ASSUME TraceAssumption ==
  /\ MaxSpans \in Nat \ {0}
  /\ Payloads \in Seq(SUBSET Seq(InputTrace)) /\ Payloads # <<>>

VARIABLES
  stage,     \* collecting, failed or stored
  answers,   \* raw_result of each tool so far
  evidence,  \* structured_data of each tool so far
  newest,    \* the evidence the random ids put first
  shown      \* what the operator got: none yet, null, an error or the trace

vars == <<stage, answers, evidence, newest, shown>>

-----------------------------------------------------------------------------
(* Trees of spans. *)

Ids(spans)       == {spans[k].id : k \in DOMAIN spans}
Distinct(spans)  == Cardinality(Ids(spans)) = Len(spans)
SpanOf(spans, i) == spans[CHOOSE k \in DOMAIN spans : spans[k].id = i]
Roots(spans)     == {i \in Ids(spans) : SpanOf(spans, i).parent = NoParent}
End(s)           == s.start + s.duration
WithinTrace(spans, duration) == \A k \in DOMAIN spans : End(spans[k]) <= duration + 1

\* The parent of a span, when the trace has it.
Up(spans, i) == {SpanOf(spans, i).parent} \cap Ids(spans)

\* Spans and all that is met on the way up from them.
AncestorClosure(spans, ids) ==
  LET closed == {S \in SUBSET Ids(spans) : ids \subseteq S /\ \A i \in S : Up(spans, i) \subseteq S}
  IN  {j \in Ids(spans) : \A S \in closed : j \in S}

Chain(spans, i) == AncestorClosure(spans, {i})

\* How the way up from a span ends: at a root, where it goes round in a circle
\* (no parent leads out of it), or at a parent that is not there, a KeyError.
Climb(spans, i) ==
  LET ends == {SpanOf(spans, j).parent : j \in Chain(spans, i)} \ Ids(spans)
  IN  IF ends = {} THEN "cycle" ELSE IF ends = {NoParent} THEN "root" ELSE "KeyError"

HasCycle(spans) == \E i \in Ids(spans) : Climb(spans, i) = "cycle"

Earlier(a, b) == a.start < b.start \/ (a.start = b.start /\ a.id < b.id)

\* The ids in a strict total order: the n-th has n - 1 others before it.
Sorted(ids, before) ==
  [n \in 1..Cardinality(ids) |->
     CHOOSE i \in ids : Cardinality({j \in ids : <<j, i>> \in before}) = n - 1]

\* By start and, among equal ones, by id.
Stable(spans, ids) ==
  Sorted(ids, {p \in ids \X ids : Earlier(SpanOf(spans, p[1]), SpanOf(spans, p[2]))})

\* The visit meets a before b: a is above b, or of the two siblings where
\* their ways up meet a's is the earlier.
Precedes(spans, a, b) ==
  \/ a # b /\ a \in Chain(spans, b)
  \/ \E x \in Chain(spans, a), y \in Chain(spans, b) :
       /\ SpanOf(spans, x).parent = SpanOf(spans, y).parent
       /\ Earlier(SpanOf(spans, x), SpanOf(spans, y))

\* Parents first, siblings by start; only what is reached from a root.
TopologicalOrder(spans, ids) ==
  LET reached == {i \in ids : Chain(spans, i) \subseteq ids}
  IN  Sorted(reached, {p \in reached \X reached : Precedes(spans, p[1], p[2])})

-----------------------------------------------------------------------------
(* The worker. *)

Duration(t) ==
  IF t.duration = NoDuration
  THEN CHOOSE d \in {End(t.spans[k]) : k \in DOMAIN t.spans} :
         \A k \in DOMAIN t.spans : End(t.spans[k]) <= d
  ELSE t.duration

\* Faulty variant: spans may outlast their trace.
Validated_AnyTime(t) ==
  /\ Distinct(t.spans)
  /\ Cardinality(Roots(t.spans)) = 1
  /\ \A k \in DOMAIN t.spans : t.spans[k].parent \in Ids(t.spans) \cup {NoParent}
  /\ ~HasCycle(t.spans)

\* A candidate that is not one tree, in its time, is dropped.
Validated(t) ==
  /\ Distinct(t.spans)
  /\ Cardinality(Roots(t.spans)) = 1
  /\ \A k \in DOMAIN t.spans : t.spans[k].parent \in Ids(t.spans) \cup {NoParent}
  /\ ~HasCycle(t.spans)
  /\ WithinTrace(t.spans, Duration(t))

\* Their places in the answer.
Candidates(p) == {k \in DOMAIN p : Validated(p[k])}
RootOf(t)     == CHOOSE i \in Roots(t.spans) : TRUE

\* Faulty variant: an error in any span.
HasError_Anywhere(t) == \E k \in DOMAIN t.spans : t.spans[k].error

HasError(t) ==
  \/ SpanOf(t.spans, RootOf(t)).error
  \/ \E k \in DOMAIN t.spans : t.spans[k].error /\ t.spans[k].critical

Rank(t) == <<IF HasError(t) THEN 1 ELSE 0, t.anomaly, t.match, Duration(t), t.id>>
Above(a, b) == \E n \in DOMAIN a : a[n] > b[n] /\ \A m \in 1..n-1 : a[m] = b[m]

\* sorted(..., reverse=True)[0]: of equal candidates the first.
Representative(p) ==
  p[CHOOSE k \in Candidates(p) :
      \A m \in Candidates(p) : /\ ~Above(Rank(p[m]), Rank(p[k]))
                               /\ m < k => Above(Rank(p[k]), Rank(p[m]))]

\* Faulty variant: the span without its ancestors.
AddWithAncestors_Bare(spans, kept, i) ==
  IF Cardinality(kept \cup {i}) <= MaxSpans THEN kept \cup {i} ELSE kept

AddWithAncestors(spans, kept, i) ==
  LET more == kept \cup Chain(spans, i)
  IN  IF Cardinality(more) <= MaxSpans THEN more ELSE kept

Critical(spans) == {spans[k].id : k \in {k \in DOMAIN spans : spans[k].critical}}
Failed(spans)   == {spans[k].id : k \in {k \in DOMAIN spans : spans[k].error}}
Required(t) == AncestorClosure(t.spans, Critical(t.spans) \cup Failed(t.spans)) \cup {RootOf(t)}

\* The spans of "todo" one after the other, each with its ancestors if it fits.
Fill(spans, kept, todo) ==
  LET grown[k \in 0..Len(todo)] ==
        IF k = 0 THEN kept ELSE AddWithAncestors(spans, grown[k - 1], todo[k])
  IN  grown[Len(todo)]

Selected(t) ==
  IF Cardinality(Required(t)) > MaxSpans
  THEN LET critical == AncestorClosure(t.spans, Critical(t.spans)) \cup {RootOf(t)}
           order    == TopologicalOrder(t.spans, critical)
       IN  {order[k] : k \in {k \in DOMAIN order : k <= MaxSpans}}
  ELSE Fill(t.spans, Required(t), Stable(t.spans, Ids(t.spans)))

\* _truncate and to_storage_dict.
Stored(t) ==
  LET order == TopologicalOrder(t.spans, Selected(t))
  IN  [id |-> t.id, plain |-> t.plain, root |-> RootOf(t), duration |-> Duration(t),
       count |-> Len(t.spans), truncated |-> Len(order) < Len(t.spans),
       spans |-> [k \in DOMAIN order |-> SpanOf(t.spans, order[k])]]

-----------------------------------------------------------------------------
(* The back end. *)

\* has_valid_tree looks at the spans one after the other: the first that is
\* not in order decides whether the answer is null or an error.
Looks(spans, k) ==
  IF spans[k].parent \notin Ids(spans) \cup {NoParent} THEN "null"
  ELSE Climb(spans, spans[k].id)

Tree(spans) ==
  LET bad == {k \in DOMAIN spans : Looks(spans, k) # "root"}
  IN  IF bad = {} THEN "trace"
      ELSE IF Looks(spans, CHOOSE k \in bad : \A m \in bad : k <= m) = "KeyError"
           THEN "error" ELSE "null"

\* The root stands for the names of its service and operation.
Parsed(r) ==
  IF /\ Len(r.spans) \in 1..MaxSpans
     /\ r.plain /\ \A k \in DOMAIN r.spans : r.spans[k].plain
     /\ Distinct(r.spans)
     /\ Roots(r.spans) = {r.root}
     /\ r.count >= Len(r.spans)
     /\ r.truncated <=> r.count > Len(r.spans)
     /\ WithinTrace(r.spans, r.duration)
  THEN Tree(r.spans) ELSE "null"

-----------------------------------------------------------------------------
Init ==
  /\ stage = "collecting" /\ answers = <<>> /\ evidence = <<>>
  /\ newest = 0 /\ shown = "none"

Answer(p) ==
  /\ stage = "collecting"
  /\ answers' = Append(answers, p)

\* No candidate is left: the collection fails, and nothing of it is stored.
Reject(p) ==
  /\ Answer(p)
  /\ Candidates(p) = {}
  /\ stage' = "failed" /\ evidence' = <<>>
  /\ UNCHANGED <<newest, shown>>

\* The last tool's draft makes the batch whole.  Its rows bear one
\* observed_at, and random ids.
Accept(p) ==
  /\ Answer(p)
  /\ Candidates(p) # {}
  /\ evidence' = Append(evidence, Stored(Representative(p)))
  /\ IF Len(answers') = Len(Payloads)
     THEN stage' = "stored" /\ newest' \in DOMAIN Payloads
     ELSE UNCHANGED <<stage, newest>>
  /\ UNCHANGED shown

\* get_trace_waterfall
Show ==
  /\ shown' = IF stage = "stored" THEN Parsed(evidence[newest]) ELSE "null"
  /\ UNCHANGED <<stage, answers, evidence, newest>>

Next ==
  \/ /\ stage = "collecting"
     /\ \E p \in Payloads[Len(answers) + 1] : Reject(p) \/ Accept(p)
  \/ Show

Spec == Init /\ [][Next]_vars

-----------------------------------------------------------------------------
(* What a stored trace should be, in terms of its own. *)

\* One root, from which every span is reached.
IsTree(spans) ==
  /\ Distinct(spans)
  /\ Cardinality(Roots(spans)) = 1
  /\ \A S \in SUBSET Ids(spans) :
       (/\ Roots(spans) \subseteq S
        /\ \A i \in Ids(spans) : SpanOf(spans, i).parent \in S => i \in S) => S = Ids(spans)

Usable(t) == IsTree(t.spans) /\ WithinTrace(t.spans, Duration(t))

Trees(p) == {t \in ToSet(p) : Usable(t)}

\* Of two traces the one with an error at its root or on its critical path is
\* shown; then the more anomalous, the one closer to the alert, the longer.
Hit(t) == Failed(t.spans) \cap (Roots(t.spans) \cup Critical(t.spans)) # {}

Worse(a, b) ==
  \/ Hit(a) /\ ~Hit(b)
  \/ /\ Hit(a) <=> Hit(b)
     /\ \/ a.anomaly > b.anomaly
        \/ /\ a.anomaly = b.anomaly
           /\ \/ a.match > b.match
              \/ /\ a.match = b.match
                 /\ \/ Duration(a) > Duration(b)
                    \/ Duration(a) = Duration(b) /\ a.id > b.id

\* What a trace may lose when it is cut to its cap.
WellKept(t, kept) ==
  LET path     == AncestorClosure(t.spans, Critical(t.spans)) \cup Roots(t.spans)
      needed   == path \cup AncestorClosure(t.spans, Failed(t.spans))
      sooner(i) == {j \in kept : Earlier(SpanOf(t.spans, j), SpanOf(t.spans, i))}
      fits(S)  == Cardinality(S) <= MaxSpans
  IN  \/ /\ fits(needed) /\ needed \subseteq kept
         /\ \A i \in Ids(t.spans) \ needed : i \in kept <=>
              fits(needed \cup AncestorClosure(t.spans, sooner(i) \cup {i}))
      \/ ~fits(needed) /\ fits(path) /\ kept = path
      \/ ~fits(path) /\ kept \subseteq path /\ Cardinality(kept) = MaxSpans

ParentsFirst(spans) ==
  \A k \in DOMAIN spans :
    spans[k].parent = NoParent \/ \E m \in 1..k-1 : spans[m].id = spans[k].parent

WellCut(t, spans) == ParentsFirst(spans) /\ WellKept(t, Ids(spans))

-----------------------------------------------------------------------------
(* Properties. *)

\* What the worker has written the back end accepts: the operator sees the
\* trace, and never an error.  The worker takes any id, so a trace of ids that
\* do not look like identifiers is stored and not shown, unless the odd spans
\* were cut off.
ShownAsStored ==
  [][stage = "stored" /\ shown' # shown =>
       LET e == evidence[newest]
           readable == e.plain /\ \A k \in DOMAIN e.spans : e.spans[k].plain
       IN  shown' = IF readable THEN "trace" ELSE "null"]_vars

\* Evidence is made of an answer whenever it holds a tree of spans within its
\* trace's time, and of the worst of them; the answer that fails a collection
\* holds none.
StoresTheWorst ==
  /\ \A k \in DOMAIN evidence :
       \E t \in Trees(answers[k]) :
         /\ evidence[k].id = t.id /\ evidence[k].duration = Duration(t)
         /\ evidence[k].spans # <<>> /\ evidence[k].root \in Roots(t.spans)
         /\ \A other \in Trees(answers[k]) : ~Worse(other, t)
  /\ stage = "failed" => Trees(Last(answers)) = {}

\* A trace that is cut keeps its critical path and its errors with all their
\* ancestors and fills up with the earliest spans that fit with theirs; when
\* that is too much it keeps the critical path alone, and of a critical path
\* that is too long as much as fits.  Parents always come first.
KeepsWhatMatters ==
  \A k \in DOMAIN evidence :
    LET e == evidence[k]
    IN  \E t \in Trees(answers[k]) :
          /\ t.id = e.id /\ Len(t.spans) = e.count
          /\ ToSet(e.spans) \subseteq ToSet(t.spans)
          /\ WellCut(t, e.spans)
=============================================================================
