------------------------- MODULE SpecialistRuns_proofs -------------------------
(* Proofs about SpecialistRuns, for every number of attempts and specialists, *)
(* every mixture of modes and everything discovery may find.                  *)
EXTENDS SpecialistRuns, TLAPS

\* The steps of attempt a.
Acts(a) == Processor(a) \/ \E k \in Kinds : Branch(a, k)

\* What attempt a does leaves the memory of the others alone, and the
\* evidence it adds is its own.
Local(a) ==
  /\ mode' = mode
  /\ \A b \in Attempts \ {a} :
       /\ pc'[b] = pc[b]
       /\ step'[b] = step[b]
       /\ receipt'[b] = receipt[b]
       /\ outcome'[b] = outcome[b]
       /\ draft'[b] = draft[b]
       /\ version'[b] = version[b]
  /\ evidence \subseteq evidence'
  /\ evidence' \subseteq evidence \cup ({a} \X Kinds)
  /\ dropped \subseteq dropped'

-----------------------------------------------------------------------------
(* Types *)

\* One entry of a table of attempts and kinds.
LEMMA PutEntry ==
  ASSUME NEW S, NEW f \in [Attempts -> [Kinds -> S]],
         NEW a \in Attempts, NEW k \in Kinds, NEW x \in S
  PROVE  [f EXCEPT ![a][k] = x] \in [Attempts -> [Kinds -> S]]
  OBVIOUS

\* One row of such a table.
LEMMA PutRow ==
  ASSUME NEW S, NEW f \in [Attempts -> S], NEW a \in Attempts, NEW x \in S
  PROVE  [f EXCEPT ![a] = x] \in [Attempts -> S]
  OBVIOUS

\* Forgetting keeps the types of the memory of an attempt.
LEMMA ForgetTypes ==
  ASSUME TypeOK, NEW a \in Attempts, NEW s \in Stage, Forget(a, s)
  PROVE  /\ pc' \in [Attempts -> Stage]
         /\ step' \in [Attempts -> [Kinds -> Step]]
         /\ tries' \in [Attempts -> [Kinds -> 0..1]]
         /\ receipt' \in [Attempts -> [Kinds -> SUBSET Batch]]
         /\ outcome' \in [Attempts -> [Kinds -> Outcome]]
         /\ draft' \in [Attempts -> Draft]
         /\ version' \in [Attempts -> Nat]
         /\ lock' \in [Kinds -> Attempts \cup {NoAttempt}]
<1> USE DEF TypeOK, Forget
<1>1. pc' \in [Attempts -> Stage] /\ version' \in [Attempts -> Nat]
  BY PutRow
<1>2. step' \in [Attempts -> [Kinds -> Step]]
  <2>1. [k \in Kinds |-> "off"] \in [Kinds -> Step]
    BY DEF Step
  <2> QED
    BY <2>1, PutRow
<1>3. tries' \in [Attempts -> [Kinds -> 0..1]]
  <2>1. [k \in Kinds |-> 0] \in [Kinds -> 0..1]
    OBVIOUS
  <2> QED
    BY <2>1, PutRow
<1>4. receipt' \in [Attempts -> [Kinds -> SUBSET Batch]]
  <2>1. [k \in Kinds |-> {}] \in [Kinds -> SUBSET Batch]
    OBVIOUS
  <2> QED
    BY <2>1, PutRow
<1>5. outcome' \in [Attempts -> [Kinds -> Outcome]]
  <2>1. [k \in Kinds |-> "NONE"] \in [Kinds -> Outcome]
    BY DEF Outcome
  <2> QED
    BY <2>1, PutRow
<1>6. draft' \in [Attempts -> Draft]
  <2>1. NoDraft \in Draft
    BY DEF NoDraft, Draft, ReportStatus
  <2> QED
    BY <2>1, PutRow
<1>7. lock' \in [Kinds -> Attempts \cup {NoAttempt}]
  OBVIOUS
<1> QED
  BY <1>1, <1>2, <1>3, <1>4, <1>5, <1>6, <1>7

\* Steps of a branch keep the types.
LEMMA BranchTypes ==
  ASSUME TypeOK, NEW a \in Attempts, NEW k \in Kinds, Branch(a, k)
  PROVE  TypeOK'
<1> USE DEF TypeOK, durable, memory, MoveTo, Step
<1>1. ASSUME BeginBranch(a, k)
      PROVE  TypeOK'
  BY <1>1, PutEntry DEF BeginBranch, RowStatus
<1>2. ASSUME Reserve(a, k)
      PROVE  TypeOK'
  BY <1>2, PutEntry DEF Reserve
<1>3. ASSUME ListPersisted(a, k)
      PROVE  TypeOK'
  <2>1. OfKind(k) \in SUBSET Batch
    BY DEF OfKind
  <2>2. receipt' \in [Attempts -> [Kinds -> SUBSET Batch]]
    BY <1>3, <2>1, PutEntry DEF ListPersisted
  <2>3. step' \in [Attempts -> [Kinds -> Step]]
    BY <1>3, PutEntry DEF ListPersisted
  <2> QED
    BY <1>3, <2>2, <2>3 DEF ListPersisted
<1>4. ASSUME CollectNothing(a, k)
      PROVE  TypeOK'
  BY <1>4, PutEntry DEF CollectNothing
<1>5. ASSUME Collect(a, k)
      PROVE  TypeOK'
  <2>1. evidence' \subseteq Batch
    BY <1>5 DEF Collect, Batch
  <2>2. step' \in [Attempts -> [Kinds -> Step]]
    BY <1>5, PutEntry DEF Collect
  <2> QED
    BY <1>5, <2>1, <2>2 DEF Collect
<1>6. ASSUME Analyse(a, k)
      PROVE  TypeOK'
  <2>1. outcome' \in [Attempts -> [Kinds -> Outcome]]
    BY <1>6, PutEntry DEF Analyse, Outcome, Usable, Failure
  <2>2. step' \in [Attempts -> [Kinds -> Step]]
    BY <1>6, PutEntry DEF Analyse
  <2>3. lock' \in [Kinds -> Attempts \cup {NoAttempt}]
    BY <1>6 DEF Analyse, Release
  <2> QED
    BY <1>6, <2>1, <2>2, <2>3 DEF Analyse
<1>7. ASSUME LegacyBranch(a, k)
      PROVE  TypeOK'
  <2>1. outcome' \in [Attempts -> [Kinds -> Outcome]]
    BY <1>7, PutEntry DEF LegacyBranch, Outcome, Usable
  <2>2. step' \in [Attempts -> [Kinds -> Step]]
    BY <1>7, PutEntry DEF LegacyBranch
  <2> QED
    BY <1>7, <2>1, <2>2 DEF LegacyBranch
<1>8. ASSUME NEW code \in Failure, BranchFails(a, k, code)
      PROVE  TypeOK'
  <2>1. lock' \in [Kinds -> Attempts \cup {NoAttempt}]
    BY <1>8 DEF BranchFails, Release
  <2>2. /\ step' \in [Attempts -> [Kinds -> Step]]
        /\ tries' \in [Attempts -> [Kinds -> 0..1]]
        /\ receipt' \in [Attempts -> [Kinds -> SUBSET Batch]]
        /\ outcome' \in [Attempts -> [Kinds -> Outcome]]
    <3>1. CASE code = "TRANSPORT" /\ tries[a][k] = 0
      <4>1. /\ step' = [step EXCEPT ![a][k] = "begin"]
            /\ tries' = [tries EXCEPT ![a][k] = 1]
            /\ receipt' = [receipt EXCEPT ![a][k] = {}]
            /\ outcome' = outcome
        BY <1>8, <3>1 DEF BranchFails
      <4>2. 1 \in 0..1 /\ {} \in SUBSET Batch /\ "begin" \in Step
        OBVIOUS
      <4> QED
        BY <4>1, <4>2, PutEntry
    <3>2. CASE ~(code = "TRANSPORT" /\ tries[a][k] = 0)
      <4>1. /\ step' = [step EXCEPT ![a][k] = "end"]
            /\ outcome' = [outcome EXCEPT ![a][k] = code]
            /\ tries' = tries
            /\ receipt' = receipt
        BY <1>8, <3>2 DEF BranchFails
      <4>2. code \in Outcome /\ "end" \in Step
        BY DEF Outcome
      <4> QED
        BY <4>1, <4>2, PutEntry
    <3> QED
      BY <3>1, <3>2
  <2> QED
    BY <1>8, <2>1, <2>2 DEF BranchFails
<1>9. ASSUME DropReservation(a, k)
      PROVE  TypeOK'
  BY <1>9 DEF DropReservation, Batch
<1> QED
  BY <1>1, <1>2, <1>3, <1>4, <1>5, <1>6, <1>7, <1>8, <1>9 DEF Branch
\* Whoever synthesizes knows batches only.
LEMMA KnownBatch ==
  ASSUME TypeOK, NEW a \in Attempts
  PROVE  Known(a) \subseteq Batch
  BY DEF TypeOK, Known

\* A report that cites evidence of attempt a alone, and is whole if it says so.
Sound(a, d) ==
  /\ d \in Draft
  /\ d.cites \subseteq Known(a)
  /\ d.status = "COMPLETE" =>
       /\ Has(a, Failure \cup {"PARTIAL"}) = {}
       /\ d.cites # {}

\* What is synthesized is such a report.
LEMMA Synthesized ==
  ASSUME TypeOK, NEW a \in Attempts, Synthesize(a)
  PROVE  \E d \in Draft : Sound(a, d) /\ draft' = [draft EXCEPT ![a] = d]
<1>1. CASE NothingToAnalyse(a)
  <2>1. \E d \in {FailedAnalysis, InsufficientEvidence} : draft' = [draft EXCEPT ![a] = d]
    BY <1>1 DEF Synthesize
  <2>2. Sound(a, FailedAnalysis) /\ Sound(a, InsufficientEvidence)
    BY DEF Sound, FailedAnalysis, InsufficientEvidence, Draft, ReportStatus
  <2> QED
    BY <2>1, <2>2 DEF Sound
<1>2. CASE ~NothingToAnalyse(a)
  <2>1. PICK d \in RootDrafts(Known(a)) : draft' = [draft EXCEPT ![a] = WithFailures(a, d)]
    BY <1>2 DEF Synthesize
  <2>2. /\ d \in Draft
        /\ d.cites \subseteq Known(a)
        /\ d.status = "COMPLETE" => d.cites # {}
    BY KnownBatch DEF RootDrafts, Draft
  <2>3. Sound(a, WithFailures(a, d))
    <3>1. CASE d.status = "COMPLETE" /\ Has(a, Failure \cup {"PARTIAL"}) # {}
      BY <2>2, <3>1 DEF Sound, WithFailures, Draft, ReportStatus
    <3>2. CASE ~(d.status = "COMPLETE" /\ Has(a, Failure \cup {"PARTIAL"}) # {})
      BY <2>2, <3>2 DEF Sound, WithFailures
    <3> QED
      BY <3>1, <3>2
  <2> QED
    BY <2>1, <2>3 DEF Sound
<1> QED
  BY <1>1, <1>2

\* Versions are positive, the next one too.
LEMMA VersionTypes ==
  ASSUME TypeOK
  PROVE  Versions \subseteq Nat \ {0} /\ NextVersions \subseteq Nat \ {0}
<1>1. Versions \subseteq Nat \ {0}
  BY DEF TypeOK, Versions
<1> QED
  BY <1>1 DEF NextVersions

\* What the processor does keeps the types.
LEMMA ProcessorTypes ==
  ASSUME TypeOK, VersionInv, NEW a \in Attempts, Processor(a)
  PROVE  TypeOK'
<1> USE DEF durable, memory
<1>1. ASSUME UnsafeScope(a)
      PROVE  TypeOK'
  BY <1>1 DEF TypeOK, UnsafeScope, InsufficientEvidence, Draft, ReportStatus, Stage
<1>2. ASSUME Start(a)
      PROVE  TypeOK'
  <2>1. PICK found \in [Kinds -> Found] :
          /\ step' = [step EXCEPT ![a] =
                        [k \in Kinds |-> IF found[k] = "TOOLS" THEN "begin" ELSE "off"]]
          /\ outcome' = [outcome EXCEPT ![a] =
                           [k \in Kinds |-> IF found[k] \in Failure THEN found[k] ELSE "NONE"]]
    BY <1>2 DEF Start
  <2>2. step' \in [Attempts -> [Kinds -> Step]]
    <3>1. [k \in Kinds |-> IF found[k] = "TOOLS" THEN "begin" ELSE "off"] \in [Kinds -> Step]
      BY DEF Step
    <3> QED
      BY <2>1, <3>1, PutRow DEF TypeOK
  <2>3. outcome' \in [Attempts -> [Kinds -> Outcome]]
    <3>1. [k \in Kinds |-> IF found[k] \in Failure THEN found[k] ELSE "NONE"]
            \in [Kinds -> Outcome]
      BY DEF Outcome
    <3> QED
      BY <2>1, <3>1, PutRow DEF TypeOK
  <2>4. pc' \in [Attempts -> Stage]
    BY <1>2 DEF TypeOK, Start, Stage
  <2> QED
    BY <1>2, <2>2, <2>3, <2>4 DEF TypeOK, Start
<1>3. ASSUME PersistAnalysis(a)
      PROVE  TypeOK'
  <2>1. PICK k \in Unwritten(a) :
          /\ step' = [step EXCEPT ![a][k] = "kept"]
          /\ IF Owned(a, k)
               THEN /\ row' = [row EXCEPT ![k] = RowOf(outcome[a][k])]
                    /\ analysis' = [analysis EXCEPT ![k] = outcome[a][k]]
                    /\ UNCHANGED outcome
               ELSE /\ outcome' = [outcome EXCEPT ![a][k] = "OTHER"]
                    /\ UNCHANGED <<row, analysis>>
    BY <1>3 DEF PersistAnalysis
  <2>2. k \in Kinds /\ outcome[a][k] \in Usable
    BY DEF Unwritten, Has
  <2>3. step' \in [Attempts -> [Kinds -> Step]]
    BY <2>1, <2>2, PutEntry DEF TypeOK, Step
  <2>4. /\ row' \in [Kinds -> RowStatus]
        /\ analysis' \in [Kinds -> AnalysisStatus]
        /\ outcome' \in [Attempts -> [Kinds -> Outcome]]
    <3>1. CASE Owned(a, k)
      BY <2>1, <2>2, <3>1 DEF TypeOK, RowOf, RowStatus, AnalysisStatus, Usable
    <3>2. CASE ~Owned(a, k)
      <4>1. "OTHER" \in Outcome
        BY DEF Outcome, Failure
      <4>2. outcome' = [outcome EXCEPT ![a][k] = "OTHER"] /\ row' = row /\ analysis' = analysis
        BY <2>1, <3>2
      <4>3. outcome' \in [Attempts -> [Kinds -> Outcome]]
        BY <2>2, <4>1, <4>2, PutEntry DEF TypeOK
      <4> QED
        BY <4>2, <4>3 DEF TypeOK
    <3> QED
      BY <3>1, <3>2
  <2> QED
    BY <1>3, <2>3, <2>4 DEF TypeOK, PersistAnalysis
<1>4. ASSUME PersistFailures(a)
      PROVE  TypeOK'
  <2>1. row' \in [Kinds -> RowStatus] /\ analysis' \in [Kinds -> AnalysisStatus]
    BY <1>4 DEF TypeOK, PersistFailures, RowStatus, AnalysisStatus
  <2>2. CASE Retryable(a)
    <3>1. Forget(a, "gone") /\ "gone" \in Stage
      BY <1>4, <2>2 DEF PersistFailures, Stage
    <3> QED
      BY <1>4, <2>1, <3>1, ForgetTypes DEF TypeOK, PersistFailures
  <2>3. CASE ~Retryable(a)
    BY <1>4, <2>1, <2>3 DEF TypeOK, PersistFailures, Stage
  <2> QED
    BY <2>2, <2>3
<1>5. ASSUME PersistBundle(a)
      PROVE  TypeOK'
  <2> DEFINE batches == {<<a, k>> : k \in Has(a, {"COMPLETE"})}
  <2>1. batches \subseteq Batch
    BY DEF Has, Batch
  <2>2. receipt' = [receipt EXCEPT ![a] = [k \in Kinds |-> {e \in batches : e[2] = k}]]
    BY <1>5 DEF PersistBundle
  <2>3. [k \in Kinds |-> {e \in batches : e[2] = k}] \in [Kinds -> SUBSET Batch]
    BY <2>1
  <2>4. receipt' \in [Attempts -> [Kinds -> SUBSET Batch]]
    <3> HIDE DEF batches
    <3> QED
      BY <2>2, <2>3, PutRow DEF TypeOK
  <2>5. evidence' \subseteq Batch
    BY <1>5, <2>1 DEF TypeOK, PersistBundle
  <2>6. row' \in [Kinds -> RowStatus] /\ pc' \in [Attempts -> Stage]
    BY <1>5 DEF TypeOK, PersistBundle, RowStatus, Stage
  <2> QED
    BY <1>5, <2>4, <2>5, <2>6 DEF TypeOK, PersistBundle
<1>6. ASSUME Synthesize(a)
      PROVE  TypeOK'
  <2>1. draft' \in [Attempts -> Draft]
    <3>1. PICK d \in Draft : draft' = [draft EXCEPT ![a] = d]
      BY <1>6, Synthesized DEF Sound
    <3> QED
      BY <3>1, PutRow DEF TypeOK
  <2>2. pc' \in [Attempts -> Stage]
    BY <1>6 DEF TypeOK, Synthesize, Stage
  <2> QED
    BY <1>6, <2>1, <2>2 DEF TypeOK, Synthesize
<1>7. ASSUME ReadVersion(a)
      PROVE  TypeOK'
  <2>1. PICK v \in NextVersions : version' = [version EXCEPT ![a] = v]
    BY <1>7 DEF ReadVersion
  <2>2. v \in Nat
    BY VersionTypes
  <2> QED
    BY <1>7, <2>1, <2>2 DEF TypeOK, ReadVersion, Stage
<1>8. ASSUME InsertReport(a)
      PROVE  TypeOK'
  <2>1. CASE version[a] \in Versions
    <3>1. Forget(a, "gone") /\ "gone" \in Stage
      BY <1>8, <2>1 DEF InsertReport, Stage
    <3> QED
      BY <1>8, <3>1, ForgetTypes DEF TypeOK, InsertReport
  <2>2. CASE version[a] \notin Versions
    BY <1>8, <2>2 DEF TypeOK, InsertReport, Stage
  <2> QED
    BY <2>1, <2>2
<1>9. ASSUME CommitReport(a)
      PROVE  TypeOK'
  <2>1. Forget(a, "done") /\ "done" \in Stage
    BY <1>9 DEF CommitReport, Stage
  <2>2. version[a] \in Nat \ {0} /\ draft[a] \in Draft
    BY <1>9 DEF TypeOK, VersionInv, CommitReport
  <2>3. \A r \in reports' : r \in [version : Nat \ {0}, status : ReportStatus,
                                  cites : SUBSET Batch]
    BY <1>9, <2>2 DEF TypeOK, CommitReport, Draft
  <2> QED
    BY <1>9, <2>1, <2>3, ForgetTypes DEF TypeOK, CommitReport
<1>10. ASSUME Abandon(a)
       PROVE  TypeOK'
  <2>1. Forget(a, "gone") /\ "gone" \in Stage
    BY <1>10 DEF Abandon, Stage
  <2> QED
    BY <1>10, <2>1, ForgetTypes DEF TypeOK, Abandon
<1> QED
  BY <1>1, <1>2, <1>3, <1>4, <1>5, <1>6, <1>7, <1>8, <1>9, <1>10 DEF Processor

\* The shape of the state is kept by every step.
LEMMA TypeStep ==
  ASSUME TypeOK, VersionInv, NEW a \in Attempts, Acts(a)
  PROVE  TypeOK'
  BY BranchTypes, ProcessorTypes DEF Acts

-----------------------------------------------------------------------------
(* Frames *)

\* An attempt touches its own memory and adds its own evidence.
LEMMA LocalStep ==
  ASSUME TypeOK, NEW a \in Attempts, Acts(a)
  PROVE  Local(a)
<1> USE DEF TypeOK, Local, durable, memory, MoveTo
<1>1. ASSUME NEW k \in Kinds, Branch(a, k)
      PROVE  Local(a)
  <2>1. CASE Collect(a, k)
    BY <2>1 DEF Collect
  <2>2. CASE \/ BeginBranch(a, k) \/ Reserve(a, k) \/ ListPersisted(a, k)
             \/ CollectNothing(a, k) \/ DropReservation(a, k)
    BY <2>2 DEF BeginBranch, Reserve, ListPersisted, CollectNothing, DropReservation
  <2>3. CASE Analyse(a, k) \/ LegacyBranch(a, k)
    BY <2>3 DEF Analyse, LegacyBranch
  <2>4. CASE \E code \in Failure : BranchFails(a, k, code)
    BY <2>4 DEF BranchFails
  <2> QED
    BY <1>1, <2>1, <2>2, <2>3, <2>4 DEF Branch
<1>2. ASSUME NEW s, Forget(a, s)
      PROVE  \A b \in Attempts \ {a} :
               /\ pc'[b] = pc[b]
               /\ step'[b] = step[b]
               /\ receipt'[b] = receipt[b]
               /\ outcome'[b] = outcome[b]
               /\ draft'[b] = draft[b]
               /\ version'[b] = version[b]
  BY <1>2 DEF Forget
<1>3. CASE UnsafeScope(a) \/ Start(a)
  BY <1>3 DEF UnsafeScope, Start
<1>4. CASE PersistAnalysis(a)
  BY <1>4 DEF PersistAnalysis
<1>5. CASE PersistFailures(a)
  BY <1>5, <1>2 DEF PersistFailures
<1>6. CASE PersistBundle(a)
  <2>1. /\ evidence \subseteq evidence'
        /\ evidence' \subseteq evidence \cup ({a} \X Kinds)
    BY <1>6 DEF PersistBundle, Has
  <2> QED
    BY <1>6, <2>1 DEF PersistBundle
<1>7. CASE Synthesize(a) \/ ReadVersion(a)
  BY <1>7 DEF Synthesize, ReadVersion
<1>8. CASE InsertReport(a)
  BY <1>8, <1>2 DEF InsertReport
<1>9. CASE CommitReport(a) \/ Abandon(a)
  BY <1>9, <1>2 DEF CommitReport, Abandon
<1> QED
  BY <1>1, <1>3, <1>4, <1>5, <1>6, <1>7, <1>8, <1>9 DEF Acts, Processor

\* What a step of branch k leaves alone.
LEMMA BranchFrame ==
  ASSUME TypeOK, NEW a \in Attempts, NEW k \in Kinds, Branch(a, k)
  PROVE  /\ UNCHANGED <<reports, mode, pc, draft, version>>
         /\ \A j \in Kinds \ {k} :
              /\ step'[a][j] = step[a][j]
              /\ receipt'[a][j] = receipt[a][j]
              /\ outcome'[a][j] = outcome[a][j]
              /\ lock'[j] = lock[j]
<1> USE DEF TypeOK, durable, memory, MoveTo, Release
<1>1. CASE \/ BeginBranch(a, k) \/ Reserve(a, k) \/ ListPersisted(a, k)
           \/ CollectNothing(a, k) \/ Collect(a, k) \/ DropReservation(a, k)
  BY <1>1 DEF BeginBranch, Reserve, ListPersisted, CollectNothing, Collect, DropReservation
<1>2. CASE Analyse(a, k) \/ LegacyBranch(a, k)
  BY <1>2 DEF Analyse, LegacyBranch
<1>3. CASE \E code \in Failure : BranchFails(a, k, code)
  BY <1>3 DEF BranchFails
<1> QED
  BY <1>1, <1>2, <1>3 DEF Branch

\* The ways of a branch, as its own entries see them.
Way(a, k) ==
  \/ /\ step[a][k] = "begin" /\ step'[a][k] = "queued"
     /\ Reserved(a) /\ lock' = lock /\ receipt' = receipt /\ evidence' = evidence
  \/ /\ step[a][k] = "queued" /\ step'[a][k] = "read"
     /\ lock[k] = NoAttempt /\ lock'[k] = a /\ receipt' = receipt /\ evidence' = evidence
  \/ /\ step[a][k] \in {"read", "saved"}
     /\ step'[a][k] = IF OfKind(k) = {} THEN "collect" ELSE "analyse"
     /\ lock' = lock /\ receipt'[a][k] = OfKind(k) /\ evidence' = evidence
  \/ /\ step[a][k] = "collect" /\ step'[a][k] \in {"analyse", "saved"}
     /\ lock' = lock /\ receipt' = receipt
     /\ evidence' = evidence \/ evidence' = evidence \cup {<<a, k>>}
  \/ /\ step[a][k] \in {"begin", "queued"} \cup InReservation
     /\ step'[a][k] \in {"begin", "end"}
     /\ lock'[k] = IF lock[k] = a THEN NoAttempt ELSE lock[k]
     /\ receipt'[a][k] \in {receipt[a][k], {}} /\ evidence' = evidence
  \/ /\ step' = step
     /\ lock[k] = a /\ lock'[k] = NoAttempt /\ <<a, k>> \in dropped'
     /\ receipt' = receipt /\ evidence' = evidence

\* A branch goes one of these ways, while its attempt waits or its lock drops.
LEMMA BranchWay ==
  ASSUME TypeOK, LockInv, NEW a \in Attempts, NEW k \in Kinds, Branch(a, k)
  PROVE  Way(a, k) /\ (pc[a] = "branches" \/ step' = step)
<1> USE DEF TypeOK, durable, memory, MoveTo, Release, At, Way
<1>1. CASE BeginBranch(a, k)
  BY <1>1 DEF BeginBranch
<1>2. CASE Reserve(a, k)
  BY <1>2 DEF Reserve
<1>3. CASE ListPersisted(a, k)
  BY <1>3 DEF ListPersisted
<1>4. CASE CollectNothing(a, k) \/ Collect(a, k)
  BY <1>4 DEF CollectNothing, Collect
<1>5. CASE Analyse(a, k)
  BY <1>5 DEF Analyse, InReservation
<1>6. CASE LegacyBranch(a, k)
  <2>1. lock[k] # a
    BY <1>6 DEF LegacyBranch, LockInv, InReservation
  <2> QED
    BY <1>6, <2>1 DEF LegacyBranch
<1>7. ASSUME NEW code \in Failure, BranchFails(a, k, code)
      PROVE  Way(a, k) /\ pc[a] = "branches"
  <2>1. CASE code = "TRANSPORT" /\ tries[a][k] = 0
    BY <1>7, <2>1 DEF BranchFails
  <2>2. CASE ~(code = "TRANSPORT" /\ tries[a][k] = 0)
    BY <1>7, <2>2 DEF BranchFails
  <2> QED
    BY <2>1, <2>2
<1>8. CASE DropReservation(a, k)
  BY <1>8 DEF DropReservation
<1> QED
  BY <1>1, <1>2, <1>3, <1>4, <1>5, <1>6, <1>7, <1>8 DEF Branch

\* What the processor does outside of its branches: no branch is running but
\* those it starts, and no lock is held.
Outside(a) ==
  /\ dropped' = dropped
  /\ \A k \in Kinds :
       /\ step'[a][k] \notin {"queued"} \cup InReservation
       /\ step'[a][k] = "begin" => pc'[a] = "branches"
       /\ lock'[k] = IF lock[k] = a THEN NoAttempt ELSE lock[k]
       /\ receipt'[a][k] \subseteq receipt[a][k] \cup {e \in evidence' : e[2] = k}
  /\ evidence' = evidence \/ ~Reserved(a)
  /\ pc'[a] = "bundle" => ~Reserved(a)

\* A branch is not running when its attempt does not wait for it.
LEMMA NotRunning ==
  ASSUME TypeOK, StageInv, LockInv, NEW a \in Attempts, NEW k \in Kinds,
         pc[a] # "branches" \/ BranchesEnded(a)
  PROVE  step[a][k] \notin {"begin", "queued"} \cup InReservation /\ lock[k] # a
<1>1. step[a][k] \notin {"begin", "queued"} \cup InReservation
  BY DEF StageInv, BranchesEnded, InReservation
<1> QED
  BY <1>1 DEF LockInv

\* Forgetting is such a step.
LEMMA ForgetOutside ==
  ASSUME TypeOK, NEW a \in Attempts, NEW s \in {"gone", "done"}, Forget(a, s),
         dropped' = dropped, evidence' = evidence
  PROVE  Outside(a)
<1>1. pc'[a] = s
  BY DEF Forget, TypeOK
<1>2. ASSUME NEW k \in Kinds
      PROVE  /\ step'[a][k] = "off"
             /\ lock'[k] = IF lock[k] = a THEN NoAttempt ELSE lock[k]
             /\ receipt'[a][k] = {}
  BY DEF Forget, TypeOK
<1> QED
  BY <1>1, <1>2 DEF Outside, InReservation

\* So are all others of the processor.
LEMMA ProcessorOutside ==
  ASSUME TypeOK, StageInv, LockInv, NEW a \in Attempts, Processor(a)
  PROVE  Outside(a)
<1> USE DEF durable, memory
<1> DEFINE Ended == \A k \in Kinds :
                      /\ step[a][k] \notin {"begin", "queued"} \cup InReservation
                      /\ lock[k] # a
<1>1. pc[a] # "branches" \/ BranchesEnded(a) => Ended
  BY NotRunning
<1>2. CASE UnsafeScope(a)
  <2>1. Ended
    BY <1>1, <1>2 DEF UnsafeScope, Claimed
  <2> QED
    BY <1>2, <2>1 DEF UnsafeScope, Outside, TypeOK
<1>3. CASE Start(a)
  <2>1. Ended
    BY <1>1, <1>3 DEF Start, Claimed
  <2>2. \A k \in Kinds : step'[a][k] \in {"begin", "off"}
    BY <1>3 DEF Start, TypeOK
  <2> QED
    BY <1>3, <2>1, <2>2 DEF Start, Outside, TypeOK, InReservation
<1>4. CASE PersistAnalysis(a)
  <2>1. Ended
    BY <1>1, <1>4 DEF PersistAnalysis
  <2>2. \A k \in Kinds : step'[a][k] \in {step[a][k], "kept"}
    BY <1>4 DEF PersistAnalysis, TypeOK, Unwritten, Has
  <2>3. pc'[a] = "branches"
    BY <1>4 DEF PersistAnalysis, BranchesEnded
  <2> QED
    BY <1>4, <2>1, <2>2, <2>3 DEF PersistAnalysis, Outside, TypeOK, InReservation
<1>5. CASE PersistFailures(a)
  <2>1. CASE Retryable(a)
    BY <1>5, <2>1, ForgetOutside DEF PersistFailures
  <2>2. CASE ~Retryable(a)
    <3>1. Ended
      BY <1>1, <1>5 DEF PersistFailures
    <3> QED
      BY <1>5, <2>2, <3>1 DEF PersistFailures, Outside, TypeOK
  <2> QED
    BY <2>1, <2>2
<1>6. CASE PersistBundle(a)
  <2>1. Ended
    BY <1>1, <1>6 DEF PersistBundle
  <2>2. ~Reserved(a)
    BY <1>6 DEF PersistBundle, StageInv
  <2>3. \A k \in Kinds : receipt'[a][k] \subseteq {e \in evidence' : e[2] = k}
    BY <1>6 DEF PersistBundle, TypeOK
  <2>4. pc'[a] = "synthesis" /\ lock' = lock /\ step' = step /\ dropped' = dropped
    BY <1>6 DEF PersistBundle, TypeOK
  <2> QED
    BY <2>1, <2>2, <2>3, <2>4 DEF Outside
<1>7. CASE Synthesize(a)
  <2>1. Ended
    BY <1>1, <1>7 DEF Synthesize
  <2> QED
    BY <1>7, <2>1 DEF Synthesize, Outside, TypeOK
<1>8. CASE ReadVersion(a)
  <2>1. Ended
    BY <1>1, <1>8 DEF ReadVersion
  <2> QED
    BY <1>8, <2>1 DEF ReadVersion, Outside, TypeOK
<1>9. CASE InsertReport(a)
  <2>1. CASE version[a] \in Versions
    BY <1>9, <2>1, ForgetOutside DEF InsertReport
  <2>2. CASE version[a] \notin Versions
    <3>1. Ended
      BY <1>1, <1>9 DEF InsertReport
    <3> QED
      BY <1>9, <2>2, <3>1 DEF InsertReport, Outside, TypeOK
  <2> QED
    BY <2>1, <2>2
<1>10. CASE CommitReport(a) \/ Abandon(a)
  BY <1>10, ForgetOutside DEF CommitReport, Abandon
<1> QED
  BY <1>2, <1>3, <1>4, <1>5, <1>6, <1>7, <1>8, <1>9, <1>10 DEF Processor

-----------------------------------------------------------------------------
(* Stages, locks and claims *)

\* The stages fit the branches.
LEMMA StageStep ==
  ASSUME TypeOK, StageInv, LockInv, NEW a \in Attempts, Acts(a)
  PROVE  StageInv'
<1>1. Local(a)
  BY LocalStep
<1>2. ASSUME NEW b \in Attempts \ {a}
      PROVE  /\ pc'[b] = "bundle" => ~Reserved(b)'
             /\ \A k \in Kinds :
                  /\ step'[b][k] \in {"begin", "queued"} \cup InReservation
                       => pc'[b] = "branches"
                  /\ step'[b][k] \in {"queued"} \cup InReservation => Reserved(b)'
  BY <1>1 DEF Local, StageInv, Reserved
<1>3. Reserved(a)' = Reserved(a)
  BY <1>1 DEF Local, Reserved
<1>4. CASE Processor(a)
  <2>1. Outside(a)
    BY <1>4, ProcessorOutside
  <2> QED
    BY <1>2, <1>3, <2>1 DEF Outside, StageInv
<1>5. ASSUME NEW k \in Kinds, Branch(a, k)
      PROVE  StageInv'
  <2>1. /\ Way(a, k) /\ (pc[a] = "branches" \/ step' = step)
        /\ pc' = pc
        /\ \A j \in Kinds \ {k} : step'[a][j] = step[a][j]
    BY <1>5, BranchWay, BranchFrame
  <2>2. step'[a][k] \in {"queued"} \cup InReservation => Reserved(a)
    BY <2>1 DEF Way, StageInv, InReservation
  <2>3. step'[a][k] \in {"begin", "queued"} \cup InReservation => pc'[a] = "branches"
    BY <2>1 DEF StageInv
  <2>4. pc'[a] = "bundle" => ~Reserved(a)
    BY <2>1 DEF StageInv
  <2>5. \A j \in Kinds \ {k} :
          /\ step'[a][j] \in {"begin", "queued"} \cup InReservation => pc'[a] = "branches"
          /\ step'[a][j] \in {"queued"} \cup InReservation => Reserved(a)
    BY <2>1 DEF StageInv
  <2> QED
    BY <1>2, <1>3, <2>2, <2>3, <2>4, <2>5 DEF StageInv
<1> QED
  BY <1>4, <1>5 DEF Acts

\* A reservation holds its lock or has dropped it.
LEMMA LockStep ==
  ASSUME TypeOK, StageInv, LockInv, NEW a \in Attempts, Acts(a)
  PROVE  LockInv'
<1>1. Local(a)
  BY LocalStep
<1>2. CASE Processor(a)
  <2>1. Outside(a)
    BY <1>2, ProcessorOutside
  <2>2. a # NoAttempt
    BY DEF Attempts, NoAttempt
  <2>3. ASSUME NEW b \in Attempts, NEW k \in Kinds
        PROVE  /\ lock'[k] = b => step'[b][k] \in InReservation
               /\ step'[b][k] \in InReservation => lock'[k] = b \/ <<b, k>> \in dropped'
    <3>1. CASE b = a
      BY <2>1, <2>2, <3>1 DEF Outside
    <3>2. CASE b # a
      <4>1. b # NoAttempt
        BY DEF Attempts, NoAttempt
      <4> QED
        BY <1>1, <2>1, <3>2, <4>1 DEF Outside, Local, LockInv
    <3> QED
      BY <3>1, <3>2
  <2> QED
    BY <2>3 DEF LockInv
<1>3. ASSUME NEW k \in Kinds, Branch(a, k)
      PROVE  LockInv'
  <2>1. /\ Way(a, k)
        /\ \A j \in Kinds \ {k} : step'[a][j] = step[a][j] /\ lock'[j] = lock[j]
    BY <1>3, BranchWay, BranchFrame
  <2>2. /\ lock'[k] = a => step'[a][k] \in InReservation
        /\ step'[a][k] \in InReservation => lock'[k] = a \/ <<a, k>> \in dropped'
    <3>1. a # NoAttempt /\ <<a, k>> \in dropped => <<a, k>> \in dropped'
      BY <1>1 DEF Attempts, NoAttempt, Local
    <3> QED
      BY <1>1, <2>1, <3>1 DEF Way, LockInv, Local, InReservation, Attempts, NoAttempt
  <2>3. ASSUME NEW b \in Attempts \ {a}
        PROVE  /\ lock'[k] = b => lock[k] = b
               /\ lock[k] = b => lock'[k] = b
    BY <2>1 DEF Way, Attempts, NoAttempt
  <2>4. ASSUME NEW b \in Attempts, NEW j \in Kinds, b # a \/ j # k
        PROVE  /\ lock'[j] = b => step'[b][j] \in InReservation
               /\ step'[b][j] \in InReservation => lock'[j] = b \/ <<b, j>> \in dropped'
    <3>1. (lock'[j] = b <=> lock[j] = b) /\ step'[b][j] = step[b][j]
      BY <1>1, <2>1, <2>3, <2>4 DEF Local
    <3> QED
      BY <1>1, <3>1 DEF LockInv, Local
  <2> QED
    BY <2>2, <2>4 DEF LockInv
<1> QED
  BY <1>2, <1>3 DEF Acts

\* Who becomes a claimant has just found no evidence, under a reservation.
LEMMA NewClaimant ==
  ASSUME TypeOK, StageInv, LockInv, NEW a \in Attempts, Acts(a),
         NEW b \in Attempts, NEW k \in Kinds, Claimant(b, k)', ~Claimant(b, k)
  PROVE  /\ b = a
         /\ step[a][k] \in InReservation
         /\ OfKind(k) = {}
         /\ evidence' = evidence
         /\ step'[a][k] = "collect"
<1>1. Local(a)
  BY LocalStep
<1>2. Reserved(b)' = Reserved(b) /\ Reserved(b)
  BY <1>1 DEF Local, Reserved, Claimant
<1>3. b = a
  BY <1>1, <1>2 DEF Local, Claimant
<1>4. CASE Processor(a)
  <2>1. Outside(a)
    BY <1>4, ProcessorOutside
  <2> QED
    BY <1>2, <1>3, <2>1 DEF Outside, Claimant, InReservation
<1>5. ASSUME NEW j \in Kinds, Branch(a, j)
      PROVE  /\ step[a][k] \in InReservation
             /\ OfKind(k) = {}
             /\ evidence' = evidence
             /\ step'[a][k] = "collect"
  <2>1. /\ Way(a, j)
        /\ \A i \in Kinds \ {j} : step'[a][i] = step[a][i]
    BY <1>5, BranchWay, BranchFrame
  <2>2. evidence' = evidence \/ (evidence' = evidence \cup {<<a, j>>} /\ step[a][j] = "collect")
    BY <2>1 DEF Way
  <2>3. j = k
    BY <1>2, <1>3, <2>1, <2>2 DEF Claimant
  <2>4. step[a][k] # "collect" /\ <<a, k>> \notin evidence
    BY <1>2, <1>3 DEF Claimant
  <2>5. evidence' = evidence /\ step'[a][k] = "collect"
    BY <1>2, <1>3, <2>2, <2>3, <2>4 DEF Claimant
  <2> QED
    BY <2>1, <2>3, <2>4, <2>5 DEF Way, InReservation
<1> QED
  BY <1>3, <1>4, <1>5 DEF Acts

\* Two claimants have not both kept their reservations.
LEMMA ClaimStep ==
  ASSUME TypeOK, StageInv, LockInv, ClaimInv, NEW a \in Attempts, Acts(a)
  PROVE  ClaimInv'
<1>1. dropped \subseteq dropped'
  BY LocalStep DEF Local
<1>2. ASSUME NEW k \in Kinds, NEW b \in Attempts, NEW c \in Attempts, b # c,
             Claimant(b, k)', Claimant(c, k)', ~Claimant(b, k)
      PROVE  <<b, k>> \in dropped' \/ <<c, k>> \in dropped'
  <2>1. b = a /\ step[a][k] \in InReservation /\ OfKind(k) = {}
    BY <1>2, NewClaimant
  <2>2. Claimant(c, k)
    BY <1>2, <2>1, NewClaimant
  <2>3. step[c][k] = "collect"
    BY <2>1, <2>2 DEF Claimant, OfKind
  <2>4. lock[k] = a \/ <<a, k>> \in dropped
    BY <2>1 DEF LockInv
  <2>5. lock[k] = c \/ <<c, k>> \in dropped
    BY <2>3 DEF LockInv, InReservation
  <2> QED
    BY <1>1, <1>2, <2>1, <2>4, <2>5
<1>3. ASSUME NEW k \in Kinds, NEW b \in Attempts, NEW c \in Attempts, b # c,
             Claimant(b, k)', Claimant(c, k)'
      PROVE  <<b, k>> \in dropped' \/ <<c, k>> \in dropped'
  <2>1. CASE Claimant(b, k) /\ Claimant(c, k)
    BY <1>1, <1>3, <2>1 DEF ClaimInv
  <2>2. CASE ~Claimant(b, k)
    BY <1>2, <1>3, <2>2
  <2>3. CASE ~Claimant(c, k)
    BY <1>2, <1>3, <2>3
  <2> QED
    BY <2>1, <2>2, <2>3
<1> QED
  BY <1>3 DEF ClaimInv

\* What a branch knows is there.
LEMMA ReceiptStep ==
  ASSUME TypeOK, StageInv, LockInv, ReceiptInv, NEW a \in Attempts, Acts(a)
  PROVE  ReceiptInv'
<1>1. Local(a)
  BY LocalStep
<1>2. \A k \in Kinds : OfKind(k) \subseteq OfKind(k)'
  BY <1>1 DEF Local, OfKind
<1>3. ASSUME NEW b \in Attempts \ {a}, NEW k \in Kinds
      PROVE  receipt'[b][k] \subseteq OfKind(k)'
  BY <1>1, <1>2 DEF Local, ReceiptInv
<1>4. ASSUME NEW k \in Kinds
      PROVE  receipt'[a][k] \subseteq OfKind(k)'
  <2>1. CASE Processor(a)
    <3>1. receipt'[a][k] \subseteq receipt[a][k] \cup OfKind(k)'
      BY <2>1, ProcessorOutside DEF Outside, OfKind
    <3> QED
      BY <1>2, <3>1 DEF ReceiptInv
  <2>2. ASSUME NEW j \in Kinds, Branch(a, j)
        PROVE  receipt'[a][k] \subseteq OfKind(k)'
    <3>1. Way(a, j) /\ \A i \in Kinds \ {j} : receipt'[a][i] = receipt[a][i]
      BY <2>2, BranchWay, BranchFrame
    <3>2. receipt'[a][j] \in {receipt[a][j], {}, OfKind(j)}
      BY <3>1 DEF Way
    <3> QED
      BY <1>2, <3>1, <3>2 DEF ReceiptInv
  <2> QED
    BY <2>1, <2>2 DEF Acts
<1> QED
  BY <1>3, <1>4 DEF ReceiptInv

-----------------------------------------------------------------------------
(* Drafts and rows *)

ReportStage == {"report", "insert", "commit"}

\* A branch takes steps only while its attempt waits for it.
LEMMA BranchWaits ==
  ASSUME StageInv, LockInv, TypeOK, NEW a \in Attempts, NEW k \in Kinds, Branch(a, k)
  PROVE  pc[a] = "branches"
<1>1. CASE DropReservation(a, k)
  BY <1>1 DEF DropReservation, LockInv, StageInv
<1>2. CASE ~DropReservation(a, k)
  BY <1>2 DEF Branch, BeginBranch, Reserve, ListPersisted, CollectNothing, Collect, Analyse,
              LegacyBranch, BranchFails, At
<1> QED
  BY <1>1, <1>2

\* What a step makes of the report of its attempt.
DraftWay(a) ==
  \/ draft'[a] = NoDraft
  \/ /\ draft'[a] = draft[a] /\ outcome'[a] = outcome[a]
     /\ pc[a] \in ReportStage /\ pc'[a] \in ReportStage
  \/ /\ Sound(a, draft'[a]) /\ outcome'[a] = outcome[a]
     /\ pc'[a] \in ReportStage

\* A report is made once and forgotten with its attempt.
LEMMA DraftStepOf ==
  ASSUME TypeOK, StageInv, LockInv, DraftInv, NEW a \in Attempts, Acts(a)
  PROVE  DraftWay(a)
<1> USE DEF durable, memory
<1>1. ASSUME NEW k \in Kinds, Branch(a, k)
      PROVE  DraftWay(a)
  BY <1>1, BranchWaits, BranchFrame DEF DraftInv, DraftWay
<1>2. ASSUME NEW s, Forget(a, s)
      PROVE  DraftWay(a)
  BY <1>2 DEF Forget, TypeOK, DraftWay
<1>3. CASE UnsafeScope(a)
  <2>1. draft'[a] = InsufficientEvidence /\ pc'[a] = "report" /\ outcome' = outcome
    BY <1>3 DEF UnsafeScope, TypeOK
  <2>2. Sound(a, InsufficientEvidence)
    BY DEF Sound, InsufficientEvidence, Draft, ReportStatus
  <2> QED
    BY <2>1, <2>2 DEF DraftWay, ReportStage
<1>4. CASE Start(a)
  BY <1>4 DEF Start, Claimed, DraftInv, DraftWay
<1>5. CASE PersistAnalysis(a)
  BY <1>5 DEF PersistAnalysis, BranchesEnded, DraftInv, DraftWay
<1>6. CASE PersistFailures(a)
  BY <1>6, <1>2 DEF PersistFailures, BranchesEnded, DraftInv, DraftWay
<1>7. CASE PersistBundle(a)
  BY <1>7 DEF PersistBundle, DraftInv, DraftWay
<1>8. CASE Synthesize(a)
  <2>1. PICK d \in Draft : Sound(a, d) /\ draft' = [draft EXCEPT ![a] = d]
    BY <1>8, Synthesized
  <2>2. draft'[a] = d /\ pc'[a] = "report" /\ outcome' = outcome
    BY <1>8, <2>1 DEF Synthesize, TypeOK
  <2> QED
    BY <2>1, <2>2 DEF DraftWay, ReportStage
<1>9. CASE ReadVersion(a)
  BY <1>9 DEF ReadVersion, TypeOK, DraftWay, ReportStage
<1>10. CASE InsertReport(a)
  <2>1. CASE version[a] \in Versions
    BY <1>10, <2>1, <1>2 DEF InsertReport
  <2>2. CASE version[a] \notin Versions
    BY <1>10, <2>2 DEF InsertReport, TypeOK, DraftWay, ReportStage
  <2> QED
    BY <2>1, <2>2
<1>11. CASE CommitReport(a) \/ Abandon(a)
  BY <1>11, <1>2 DEF CommitReport, Abandon
<1> QED
  BY <1>1, <1>3, <1>4, <1>5, <1>6, <1>7, <1>8, <1>9, <1>10, <1>11 DEF Acts, Processor

\* Whoever has a report is about to store it.
LEMMA DraftStep ==
  ASSUME TypeOK, StageInv, LockInv, DraftInv, NEW a \in Attempts, Acts(a)
  PROVE  DraftInv'
<1>1. DraftWay(a) /\ Local(a)
  BY DraftStepOf, LocalStep
<1>2. pc'[a] \notin ReportStage => draft'[a] = NoDraft
  BY <1>1 DEF DraftWay
<1>3. ASSUME NEW b \in Attempts \ {a}
      PROVE  pc'[b] \notin ReportStage => draft'[b] = NoDraft
  BY <1>1 DEF Local, DraftInv, ReportStage
<1> QED
  BY <1>2, <1>3 DEF DraftInv, ReportStage

\* Reports cite what is there, and are whole if they say so.
LEMMA CompleteStep ==
  ASSUME TypeOK, StageInv, LockInv, ReceiptInv, DraftInv, CompleteIsWhole,
         NEW a \in Attempts, Acts(a)
  PROVE  CompleteIsWhole'
<1>1. DraftWay(a) /\ Local(a)
  BY DraftStepOf, LocalStep
<1>2. ASSUME NEW b \in Attempts, outcome'[b] = outcome[b]
      PROVE  Has(b, Failure \cup {"PARTIAL"})' = Has(b, Failure \cup {"PARTIAL"})
  BY <1>2 DEF Has
<1>3. Known(a) \subseteq evidence
  BY DEF Known, ReceiptInv, OfKind
<1>4. NoDraft.cites = {} /\ NoDraft.status # "COMPLETE"
  BY DEF NoDraft
<1>5. /\ draft'[a].cites \subseteq evidence'
      /\ draft'[a].status = "COMPLETE" =>
           /\ Has(a, Failure \cup {"PARTIAL"})' = {}
           /\ draft'[a].cites # {}
  <2>1. CASE draft'[a] = NoDraft
    BY <2>1, <1>4
  <2>2. CASE draft'[a] = draft[a] /\ outcome'[a] = outcome[a]
    BY <2>2, <1>1, <1>2 DEF Local, CompleteIsWhole
  <2>3. CASE Sound(a, draft'[a]) /\ outcome'[a] = outcome[a]
    BY <2>3, <1>1, <1>2, <1>3 DEF Local, Sound
  <2> QED
    BY <1>1, <2>1, <2>2, <2>3 DEF DraftWay
<1>6. ASSUME NEW b \in Attempts \ {a}
      PROVE  /\ draft'[b].cites \subseteq evidence'
             /\ draft'[b].status = "COMPLETE" =>
                  /\ Has(b, Failure \cup {"PARTIAL"})' = {}
                  /\ draft'[b].cites # {}
  BY <1>1, <1>2 DEF Local, CompleteIsWhole
<1> QED
  BY <1>5, <1>6 DEF CompleteIsWhole

\* A row and its analysis are written together.
LEMMA RowStep ==
  ASSUME TypeOK, StageInv, LockInv, RowMatchesAnalysis, NEW a \in Attempts, Acts(a)
  PROVE  RowMatchesAnalysis'
<1> USE DEF durable, memory
<1> DEFINE Match(r, x) == /\ r \in {"ABSENT", "FAILED"} => x = "NONE"
                          /\ r = "SUCCEEDED" => x = "COMPLETE"
                          /\ r = "PARTIAL" => x = "PARTIAL"
<1> SUFFICES ASSUME (\A b \in Attempts : Reserved(b))', NEW k \in Kinds
             PROVE  Match(row'[k], analysis'[k])
  BY DEF RowMatchesAnalysis
<1>1. \A b \in Attempts : Reserved(b)
  BY LocalStep DEF Local, Reserved
<1>2. \A j \in Kinds : Match(row[j], analysis[j])
  BY <1>1 DEF RowMatchesAnalysis
<1>3. CASE row' = row /\ analysis' = analysis
  BY <1>2, <1>3
<1>4. ASSUME NEW j \in Kinds, BeginBranch(a, j)
      PROVE  Match(row'[k], analysis'[k])
  BY <1>2, <1>4 DEF BeginBranch, TypeOK
<1>5. CASE PersistAnalysis(a)
  <2>1. PICK j \in Unwritten(a) :
          IF Owned(a, j)
            THEN /\ row' = [row EXCEPT ![j] = RowOf(outcome[a][j])]
                 /\ analysis' = [analysis EXCEPT ![j] = outcome[a][j]]
            ELSE UNCHANGED <<row, analysis>>
    BY <1>5 DEF PersistAnalysis
  <2>2. j \in Kinds /\ outcome[a][j] \in Usable
    BY DEF Unwritten, Has
  <2>3. Match(RowOf(outcome[a][j]), outcome[a][j])
    BY <2>2 DEF RowOf, Usable
  <2> QED
    BY <1>2, <2>1, <2>2, <2>3 DEF TypeOK
<1>6. CASE PersistFailures(a)
  BY <1>1, <1>2, <1>6 DEF PersistFailures, ClearsAnalysis
<1>7. CASE PersistBundle(a)
  BY <1>1, <1>7 DEF PersistBundle, StageInv
<1>8. ASSUME NEW j \in Kinds, Branch(a, j), ~BeginBranch(a, j)
      PROVE  row' = row /\ analysis' = analysis
  BY <1>8 DEF Branch, Reserve, ListPersisted, CollectNothing, Collect, Analyse,
              LegacyBranch, BranchFails, DropReservation
<1>9. CASE \/ UnsafeScope(a) \/ Start(a) \/ Synthesize(a) \/ ReadVersion(a)
           \/ InsertReport(a) \/ CommitReport(a) \/ Abandon(a)
  BY <1>3, <1>9 DEF UnsafeScope, Start, Synthesize, ReadVersion, InsertReport, CommitReport,
                    Abandon
<1> QED
  BY <1>3, <1>4, <1>5, <1>6, <1>7, <1>8, <1>9 DEF Acts, Processor

-----------------------------------------------------------------------------
(* Versions and the ledger *)

\* Steps that neither compute nor store a version.
Silent(a) ==
  /\ reports' = reports
  /\ \/ pc'[a] \notin {"insert", "commit"}
     \/ pc'[a] = pc[a] /\ version'[a] = version[a]

\* Steps of branches, and of the processor before the report, are silent.
LEMMA SilentStep ==
  ASSUME TypeOK, StageInv, LockInv, NEW a \in Attempts, Acts(a)
  PROVE  \/ Silent(a)
         \/ ReadVersion(a)
         \/ InsertReport(a) /\ version[a] \notin Versions
         \/ CommitReport(a)
<1> USE DEF durable, memory
<1>1. ASSUME NEW k \in Kinds, Branch(a, k)
      PROVE  Silent(a)
  BY <1>1, BranchFrame DEF Silent
<1>2. ASSUME NEW s \in {"gone", "done"}, Forget(a, s)
      PROVE  pc'[a] \notin {"insert", "commit"}
  BY <1>2 DEF Forget, TypeOK
<1>3. CASE UnsafeScope(a) \/ Start(a) \/ PersistBundle(a) \/ Synthesize(a)
  BY <1>3 DEF UnsafeScope, Start, PersistBundle, Synthesize, TypeOK, Silent
<1>4. CASE PersistAnalysis(a)
  BY <1>4 DEF PersistAnalysis, Silent
<1>5. CASE PersistFailures(a)
  BY <1>5, <1>2 DEF PersistFailures, TypeOK, Silent
<1>6. CASE InsertReport(a) /\ version[a] \in Versions
  BY <1>6, <1>2 DEF InsertReport, Silent
<1>7. CASE Abandon(a)
  BY <1>7, <1>2 DEF Abandon, Silent
<1> QED
  BY <1>1, <1>3, <1>4, <1>5, <1>6, <1>7 DEF Acts, Processor

\* A version about to be stored is larger than those that are there.
LEMMA NewVersion ==
  ASSUME TypeOK, VersionInv, NEW a \in Attempts, pc[a] = "commit"
  PROVE  /\ version[a] \in Nat \ {0}
         /\ version[a] \in {1} \cup {w + 1 : w \in Versions}
         /\ \A w \in Versions : w < version[a]
<1>1. /\ version[a] \in Nat \ {0}
      /\ version[a] = 1 \/ version[a] - 1 \in Versions
      /\ version[a] \notin Versions
  BY DEF TypeOK, VersionInv
<1>2. ASSUME NEW w \in Versions
      PROVE  w < version[a]
  <2>1. w \in Nat /\ (version[a] <= w => version[a] \in 1..w)
    BY <1>1, VersionTypes
  <2>2. \A u \in 1..w : u \in Versions
    BY DEF VersionInv
  <2> QED
    BY <1>1, <2>1, <2>2
<1>3. version[a] - 1 \in Versions => version[a] \in {w + 1 : w \in Versions}
  <2>1. version[a] = (version[a] - 1) + 1
    BY <1>1
  <2> QED
    BY <2>1
<1> QED
  BY <1>1, <1>2, <1>3

\* Committing adds one version.
LEMMA CommitVersions ==
  ASSUME NEW a \in Attempts, CommitReport(a)
  PROVE  Versions' = Versions \cup {version[a]}
<1>1. PICK r : /\ r = [version |-> version[a], status |-> draft[a].status,
                       cites |-> draft[a].cites]
               /\ reports' = reports \cup {r}
  BY DEF CommitReport
<1>2. r.version = version[a]
  BY <1>1
<1>3. Versions' = {q.version : q \in reports \cup {r}}
  BY <1>1 DEF Versions
<1> QED
  BY <1>2, <1>3 DEF Versions

\* Versions stay without gaps, and the ones to come fit.
LEMMA VersionStep ==
  ASSUME TypeOK, StageInv, LockInv, VersionInv, NEW a \in Attempts, Acts(a)
  PROVE  VersionInv'
<1> USE DEF durable, memory
<1>1. Local(a)
  BY LocalStep
<1>2. CASE Silent(a)
  <2>1. Versions' = Versions
    BY <1>2 DEF Silent, Versions
  <2>2. ASSUME NEW b \in Attempts, pc'[b] \in {"insert", "commit"}
        PROVE  pc'[b] = pc[b] /\ version'[b] = version[b]
    BY <1>1, <1>2, <2>2 DEF Local, Silent
  <2> QED
    BY <2>1, <2>2 DEF VersionInv
<1>3. CASE ReadVersion(a)
  <2>1. PICK v \in NextVersions : version' = [version EXCEPT ![a] = v]
    BY <1>3 DEF ReadVersion
  <2>2. v # 0 /\ (v = 1 \/ v - 1 \in Versions)
    BY VersionTypes DEF NextVersions
  <2>3. Versions' = Versions
    BY <1>3 DEF ReadVersion, Versions
  <2>4. pc'[a] = "insert" /\ version'[a] = v
    BY <1>3, <2>1 DEF ReadVersion, TypeOK
  <2>5. ASSUME NEW b \in Attempts \ {a}
        PROVE  pc'[b] = pc[b] /\ version'[b] = version[b]
    BY <1>1 DEF Local
  <2> QED
    BY <2>2, <2>3, <2>4, <2>5 DEF VersionInv
<1>4. CASE InsertReport(a) /\ version[a] \notin Versions
  <2>1. Versions' = Versions /\ version' = version
    BY <1>4 DEF InsertReport, Versions
  <2>2. /\ pc[a] = "insert"
        /\ pc'[a] = "commit"
        /\ \A b \in Attempts \ {a} : pc'[b] = pc[b]
    BY <1>1, <1>4 DEF InsertReport, TypeOK, Local
  <2>3. ASSUME NEW b \in Attempts \ {a}, pc[b] = "commit"
        PROVE  version[b] # version[a]
    BY <1>4, <2>3 DEF InsertReport, VersionHolders
  <2> QED
    BY <1>4, <2>1, <2>2, <2>3 DEF VersionInv
<1>5. CASE CommitReport(a)
  <2>1. Versions' = Versions \cup {version[a]}
    BY <1>5, CommitVersions
  <2>2. /\ pc[a] = "commit"
        /\ pc'[a] = "done"
        /\ \A b \in Attempts \ {a} : pc'[b] = pc[b] /\ version'[b] = version[b]
    BY <1>1, <1>5 DEF CommitReport, Forget, TypeOK, Local
  <2>3. version[a] = 1 \/ version[a] - 1 \in Versions
    BY <2>2 DEF VersionInv
  <2>4. \A w \in 1..version[a] : w \in Versions'
    <3>1. version[a] \in Nat \ {0}
      BY <2>2, NewVersion
    <3>2. ASSUME version[a] - 1 \in Versions, NEW w \in 1..(version[a] - 1)
          PROVE  w \in Versions
      BY <3>2 DEF VersionInv
    <3> QED
      BY <2>1, <2>3, <3>1, <3>2
  <2>5. \A v \in Versions' : \A w \in 1..v : w \in Versions'
    BY <2>1, <2>4 DEF VersionInv
  <2>6. ASSUME NEW b \in Attempts, pc'[b] \in {"insert", "commit"}
        PROVE  /\ b # a
               /\ pc[b] = pc'[b]
               /\ version'[b] = version[b]
               /\ version'[b] = 1 \/ version'[b] - 1 \in Versions'
               /\ version'[b] # 0
               /\ pc'[b] = "commit" => version'[b] \notin Versions'
    <3>1. b # a /\ pc[b] = pc'[b] /\ version'[b] = version[b]
      BY <2>2, <2>6
    <3>2. /\ version[b] = 1 \/ version[b] - 1 \in Versions
          /\ version[b] # 0
          /\ pc[b] = "commit" => version[b] \notin Versions
          /\ pc[b] = "commit" => version[b] # version[a]
      BY <2>2, <2>6, <3>1 DEF VersionInv
    <3> QED
      BY <2>1, <3>1, <3>2
  <2>7. ASSUME NEW b \in Attempts, NEW c \in Attempts,
               pc'[b] = "commit", pc'[c] = "commit", version'[b] = version'[c]
        PROVE  b = c
    BY <2>6, <2>7 DEF VersionInv
  <2> QED
    BY <2>5, <2>6, <2>7 DEF VersionInv
<1> QED
  BY <1>2, <1>3, <1>4, <1>5, SilentStep

\* Every step adds evidence, or one report after the last.
LEMMA LedgerStep ==
  ASSUME IInv, TypeOK', NEW a \in Attempts, Acts(a)
  PROVE  Ledger!LNext
<1> USE DEF IInv
<1>1. CASE reports' = reports
  <2>1. evidence' = evidence \cup (evidence' \ evidence)
    BY LocalStep DEF Local
  <2>2. evidence' \ evidence \in SUBSET (Attempts \X Kinds)
    BY DEF TypeOK, Batch
  <2> QED
    BY <1>1, <2>1, <2>2 DEF Ledger!LNext, Ledger!Collect
<1>2. CASE CommitReport(a)
  <2>1. draft[a] \in Draft
    BY DEF TypeOK
  <2>2. PICK status \in ReportStatus, cites \in SUBSET Batch :
          status = draft[a].status /\ cites = draft[a].cites
    BY <2>1 DEF Draft
  <2>3. cites \subseteq evidence /\ (status = "COMPLETE" => cites # {})
    BY <2>2 DEF CompleteIsWhole
  <2>4. /\ version[a] \in {1} \cup {r.version + 1 : r \in reports}
        /\ \A r \in reports : r.version < version[a]
    BY <1>2, NewVersion DEF CommitReport, Versions
  <2>5. /\ reports' = reports \cup
               {[version |-> version[a], status |-> status, cites |-> cites]}
        /\ evidence' = evidence
    BY <1>2, <2>2 DEF CommitReport
  <2>6. Ledger!Report(status, cites)
    BY <2>3, <2>4, <2>5 DEF Ledger!Report
  <2> QED
    BY <2>6 DEF Ledger!LNext, ReportStatus, Batch
<1>3. CASE ReadVersion(a) \/ InsertReport(a)
  BY <1>1, <1>3 DEF ReadVersion, InsertReport, durable
<1> QED
  BY <1>1, <1>2, <1>3, SilentStep DEF Silent

-----------------------------------------------------------------------------
(* Theorems *)

\* A run nobody has begun.
LEMMA InitInv ==
  ASSUME Init
  PROVE  IInv
<1>1. NoDraft \in Draft /\ NoDraft.cites = {} /\ NoDraft.status = "FAILED"
  BY DEF NoDraft, Draft, ReportStatus
<1>2. TypeOK
  BY <1>1 DEF Init, TypeOK, RowStatus, AnalysisStatus, Stage, Step, Outcome
<1>3. StageInv /\ ReceiptInv /\ DraftInv /\ RowMatchesAnalysis
  BY DEF Init, StageInv, InReservation, ReceiptInv, DraftInv, RowMatchesAnalysis
<1>4. LockInv
  BY DEF Init, LockInv, InReservation, Attempts, NoAttempt
<1>5. ClaimInv
  BY DEF Init, ClaimInv, Claimant
<1>6. VersionInv
  BY DEF Init, VersionInv, Versions
<1>7. CompleteIsWhole
  BY <1>1 DEF Init, CompleteIsWhole
<1> QED
  BY <1>2, <1>3, <1>4, <1>5, <1>6, <1>7 DEF IInv

\* Nothing happens, nothing changes.
LEMMA StutterInv ==
  ASSUME IInv, UNCHANGED vars
  PROVE  IInv'
<1> USE DEF vars, durable, memory, IInv
<1>1. TypeOK' /\ StageInv' /\ DraftInv' /\ LockInv'
  BY DEF TypeOK, StageInv, Reserved, DraftInv, LockInv
<1>2. ClaimInv' /\ ReceiptInv' /\ RowMatchesAnalysis'
  BY DEF ClaimInv, Claimant, Reserved, ReceiptInv, OfKind, RowMatchesAnalysis
<1>3. VersionInv' /\ CompleteIsWhole'
  BY DEF VersionInv, Versions, CompleteIsWhole, Has
<1> QED
  BY <1>1, <1>2, <1>3

\* Every step keeps the invariant.
LEMMA StepInv ==
  ASSUME IInv, [Next]_vars
  PROVE  IInv'
<1>1. ASSUME NEW a \in Attempts, Acts(a)
      PROVE  IInv'
  <2> USE DEF IInv
  <2>1. TypeOK' /\ StageInv' /\ LockInv' /\ ClaimInv' /\ ReceiptInv'
    BY <1>1, TypeStep, StageStep, LockStep, ClaimStep, ReceiptStep
  <2>2. DraftInv' /\ VersionInv' /\ RowMatchesAnalysis' /\ CompleteIsWhole'
    BY <1>1, DraftStep, VersionStep, RowStep, CompleteStep
  <2> QED
    BY <2>1, <2>2
<1> QED
  BY <1>1, StutterInv DEF Next, Acts

\* Attempts of a run that overlap keep the invariant, however many there are.
\* (ProductionRcaProcessor and RcaRepository.)
THEOREM Invariance == Spec => []IInv
  BY InitInv, StepInv, PTL DEF Spec

\* The state keeps its shape.  (The tables of rca_repository.py.)
THEOREM TypeCorrect == Spec => []TypeOK
<1>1. IInv => TypeOK
  BY DEF IInv
<1> QED
  BY <1>1, Invariance, PTL

\* Two attempts have both stored evidence of a specialist only if one had
\* lost its reservation.  (_specialist_collection_reservation.)
THEOREM OnceUnlessDropped == Spec => []CollectedOnce
<1>1. IInv => CollectedOnce
  BY DEF IInv, ClaimInv, Claimant, CollectedOnce
<1> QED
  BY <1>1, Invariance, PTL

\* The status of a specialist's row and its analysis tell the same.
\* (upsert_specialist_analysis, _persist_analysis_failures.)
THEOREM RowsMatch == Spec => []RowMatchesAnalysis
<1>1. IInv => RowMatchesAnalysis
  BY DEF IInv
<1> QED
  BY <1>1, Invariance, PTL

\* A COMPLETE report has no failed or partial specialist behind it and cites
\* committed evidence.  (with_specialist_failures, _known_evidence.)
THEOREM Whole == Spec => []CompleteIsWhole
<1>1. IInv => CompleteIsWhole
  BY DEF IInv
<1> QED
  BY <1>1, Invariance, PTL

\* The attempts implement the ledger: evidence stays, reports are numbered
\* 1, 2, 3, ... in the order of their commits.  (_persist_report.)
THEOREM Refinement == Spec => ImplementsLedger
<1>1. Init => Ledger!LInit
  BY DEF Init, Ledger!LInit
<1>2. IInv /\ IInv' /\ [Next]_vars => [Ledger!LNext]_(Ledger!ledger)
  <2>1. ASSUME IInv, IInv', NEW a \in Attempts, Acts(a)
        PROVE  Ledger!LNext
    BY <2>1, LedgerStep DEF IInv
  <2>2. UNCHANGED vars => UNCHANGED Ledger!ledger
    BY DEF vars, durable, Ledger!ledger
  <2> QED
    BY <2>1, <2>2 DEF Next, Acts
<1> QED
  BY <1>1, <1>2, Invariance, PTL DEF Spec, ImplementsLedger
=============================================================================
