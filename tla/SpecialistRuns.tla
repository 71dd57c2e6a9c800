---------------------------- MODULE SpecialistRuns ----------------------------
(***************************************************************************)
(* The attempts of one RCA run at its specialists, evidence and reports:    *)
(* ProductionRcaProcessor (application/rca/processor.py) with the workflows *)
(* it runs (agents/specialists/workflow.py, agents/rca/workflow.py) and     *)
(* RcaRepository.                                                           *)
(*                                                                         *)
(* A lease that is taken over leaves the older attempt running until it     *)
(* notices, so attempts overlap.  Nothing they write is fenced by owner or  *)
(* attempt.  What keeps them apart is an advisory lock per run and kind,    *)
(* held by a transaction that is otherwise idle while evidence is           *)
(* collected and analysed, and the unique version of a report.  The lock    *)
(* is gone when its connection is.                                          *)
(***************************************************************************)
EXTENDS Integers, FiniteSets

CONSTANTS
  LastAttempt,  \* attempts of a job, three in the code
  Kinds,        \* specialists, numbered in the order METRICS, TRACE, LOG
  Discovery,    \* Discovery[k]: what discover_capabilities may find for kind k
  Modes,        \* specialist_analysis_mode of the workers
  Unreserved    \* the modes without a reservation: DISABLED

ASSUME RunAssumption ==
  /\ LastAttempt \in Nat \ {0}
  /\ Kinds \subseteq Nat
  /\ IsFiniteSet(Kinds)
  /\ Discovery \in [Kinds -> SUBSET {"TOOLS", "MISSING", "TRANSPORT", "OTHER"}]
  /\ Modes # {}

Attempts  == 1..LastAttempt
NoAttempt == 0

VARIABLES
  evidence,   \* committed batches <<attempt, kind>> of evidence_records
  row,        \* specialist_runs.status of a kind
  analysis,   \* status in specialist_runs.analysis_result
  reports,    \* rows of rca_reports
  lock,       \* attempt that holds the advisory lock of a kind
  dropped,    \* <<attempt, kind>> whose reservation lost its connection
  mode,       \* mode of attempt a
  pc,         \* where attempt a is
  step,       \* step[a][k]: where its branch of kind k is
  tries,      \* tries[a][k]: retries of the branch
  receipt,    \* receipt[a][k]: known_evidence of the branch
  outcome,    \* outcome[a][k]: what the bundle has for kind k
  draft,      \* the report of attempt a that is to be stored
  version     \* version computed for it

durable == <<evidence, row, analysis, reports>>
memory  == <<step, tries, receipt, outcome>>
vars    == <<durable, lock, dropped, mode, pc, memory, draft, version>>

-----------------------------------------------------------------------------
RowStatus      == {"ABSENT", "RUNNING", "SUCCEEDED", "PARTIAL", "FAILED"}
AnalysisStatus == {"NONE", "COMPLETE", "PARTIAL"}
ReportStatus   == {"COMPLETE", "PARTIAL", "FAILED"}
Failure        == {"TRANSPORT", "OTHER"}
Found          == {"TOOLS", "MISSING"} \cup Failure
Usable         == {"COMPLETE", "PARTIAL"}
Outcome        == {"NONE", "EMPTY"} \cup Usable \cup Failure
Stage          == {"idle", "branches", "bundle", "synthesis", "report", "insert", "commit",
                   "done", "gone"}
Active         == Stage \ {"idle", "done", "gone"}
Step           == {"off", "begin", "queued", "read", "collect", "saved", "analyse", "end",
                   "kept"}
InReservation  == {"read", "collect", "saved", "analyse"}

Batch   == Attempts \X Kinds
Draft   == [status : ReportStatus, cites : SUBSET Batch]
NoDraft == [status |-> "FAILED", cites |-> {}]

OfKind(k)   == {e \in evidence : e[2] = k}
Reserved(a) == mode[a] \notin Unreserved
Has(a, os)  == {k \in Kinds : outcome[a][k] \in os}
Known(a)    == UNION {receipt[a][k] : k \in Kinds}

\* An attempt ends, whatever the reason: its memory is lost and its
\* connections close.
Forget(a, stage) ==
  /\ pc' = [pc EXCEPT ![a] = stage]
  /\ step' = [step EXCEPT ![a] = [k \in Kinds |-> "off"]]
  /\ tries' = [tries EXCEPT ![a] = [k \in Kinds |-> 0]]
  /\ receipt' = [receipt EXCEPT ![a] = [k \in Kinds |-> {}]]
  /\ outcome' = [outcome EXCEPT ![a] = [k \in Kinds |-> "NONE"]]
  /\ draft' = [draft EXCEPT ![a] = NoDraft]
  /\ version' = [version EXCEPT ![a] = 0]
  /\ lock' = [k \in Kinds |-> IF lock[k] = a THEN NoAttempt ELSE lock[k]]

Init ==
  /\ evidence = {}
  /\ row = [k \in Kinds |-> "ABSENT"]
  /\ analysis = [k \in Kinds |-> "NONE"]
  /\ reports = {}
  /\ lock = [k \in Kinds |-> NoAttempt]
  /\ dropped = {}
  /\ mode \in [Attempts -> Modes]
  /\ pc = [a \in Attempts |-> "idle"]
  /\ step = [a \in Attempts |-> [k \in Kinds |-> "off"]]
  /\ tries = [a \in Attempts |-> [k \in Kinds |-> 0]]
  /\ receipt = [a \in Attempts |-> [k \in Kinds |-> {}]]
  /\ outcome = [a \in Attempts |-> [k \in Kinds |-> "NONE"]]
  /\ draft = [a \in Attempts |-> NoDraft]
  /\ version = [a \in Attempts |-> 0]

-----------------------------------------------------------------------------
(* __call__: the context is loaded, tools are discovered, the branches of   *)
(* the kinds with tools are started.  A job is claimed for attempt a after  *)
(* attempt a - 1, which may still be running.                               *)

Claimed(a) ==
  /\ pc[a] = "idle"
  /\ a > 1 => pc[a - 1] # "idle"

InsufficientEvidence == [status |-> "PARTIAL", cites |-> {}]
FailedAnalysis       == [status |-> "FAILED", cites |-> {}]

UnsafeScope(a) ==
  /\ Claimed(a)
  /\ pc' = [pc EXCEPT ![a] = "report"]
  /\ draft' = [draft EXCEPT ![a] = InsufficientEvidence]
  /\ UNCHANGED <<durable, lock, dropped, mode, memory, version>>

Start(a) ==
  /\ Claimed(a)
  /\ \E found \in {f \in [Kinds -> Found] : \A k \in Kinds : f[k] \in Discovery[k]} :
       /\ step' = [step EXCEPT ![a] =
                     [k \in Kinds |-> IF found[k] = "TOOLS" THEN "begin" ELSE "off"]]
       /\ outcome' = [outcome EXCEPT ![a] =
                        [k \in Kinds |-> IF found[k] \in Failure THEN found[k] ELSE "NONE"]]
  /\ pc' = [pc EXCEPT ![a] = "branches"]
  /\ UNCHANGED <<durable, lock, dropped, mode, tries, receipt, draft, version>>

-----------------------------------------------------------------------------
(* One branch: a specialist of the analysis modes.                          *)

At(a, k, s) ==
  /\ pc[a] = "branches"
  /\ step[a][k] = s

MoveTo(a, k, s) == step' = [step EXCEPT ![a][k] = s]

BeginBranch(a, k) ==
  /\ At(a, k, "begin")
  /\ Reserved(a)
  /\ row' = [row EXCEPT ![k] = "RUNNING"]
  /\ MoveTo(a, k, "queued")
  /\ UNCHANGED <<evidence, analysis, reports, lock, dropped, mode, pc, tries, receipt,
                 outcome, draft, version>>

\* Faulty variant: a lock that is tried, not waited for, and taken for granted.
Reserve_TryLock(a, k) ==
  /\ At(a, k, "queued")
  /\ lock' = [lock EXCEPT ![k] = IF @ = NoAttempt THEN a ELSE @]
  /\ MoveTo(a, k, "read")
  /\ UNCHANGED <<durable, dropped, mode, pc, tries, receipt, outcome, draft, version>>

Reserve(a, k) ==
  /\ At(a, k, "queued")
  /\ lock[k] = NoAttempt
  /\ lock' = [lock EXCEPT ![k] = a]
  /\ MoveTo(a, k, "read")
  /\ UNCHANGED <<durable, dropped, mode, pc, tries, receipt, outcome, draft, version>>

\* collect_evidence: evidence that is there is used, whoever collected it.
ListPersisted(a, k) ==
  /\ \E s \in {"read", "saved"} : At(a, k, s)
  /\ receipt' = [receipt EXCEPT ![a][k] = OfKind(k)]
  /\ MoveTo(a, k, IF OfKind(k) = {} THEN "collect" ELSE "analyse")
  /\ UNCHANGED <<durable, lock, dropped, mode, pc, tries, outcome, draft, version>>

CollectNothing(a, k) ==
  /\ At(a, k, "collect")
  /\ MoveTo(a, k, "analyse")
  /\ UNCHANGED <<durable, lock, dropped, mode, pc, tries, receipt, outcome, draft, version>>

\* The drafts of all tools are stored in one transaction.
Collect(a, k) ==
  /\ At(a, k, "collect")
  /\ evidence' = evidence \cup {<<a, k>>}
  /\ MoveTo(a, k, "saved")
  /\ UNCHANGED <<row, analysis, reports, lock, dropped, mode, pc, tries, receipt,
                 outcome, draft, version>>

\* Faulty variant: a lock of the session, which outlives the transaction.
Release_Never(a, k) == UNCHANGED lock

Release(a, k) == lock' = [lock EXCEPT ![k] = IF @ = a THEN NoAttempt ELSE @]

\* The reservation ends with the commit of the transaction that holds the
\* lock: it fails when the connection is gone, and the analysis with it.
Analyse(a, k) ==
  /\ At(a, k, "analyse")
  /\ \E o \in Usable \cup Failure :
       outcome' = [outcome EXCEPT ![a][k] = IF lock[k] = a THEN o ELSE "OTHER"]
  /\ Release(a, k)
  /\ MoveTo(a, k, "end")
  /\ UNCHANGED <<durable, dropped, mode, pc, tries, receipt, draft, version>>

\* The branch of the legacy workflow keeps its findings in memory.
LegacyBranch(a, k) ==
  /\ At(a, k, "begin")
  /\ ~Reserved(a)
  /\ \E o \in {"COMPLETE", "EMPTY"} : outcome' = [outcome EXCEPT ![a][k] = o]
  /\ MoveTo(a, k, "end")
  /\ UNCHANGED <<durable, lock, dropped, mode, pc, tries, receipt, draft, version>>

\* An exception or the timeout of the branch, at any point; transport errors
\* are tried once more.
BranchFails(a, k, code) ==
  /\ pc[a] = "branches"
  /\ step[a][k] \in {"begin", "queued"} \cup InReservation
  /\ IF code = "TRANSPORT" /\ tries[a][k] = 0
       THEN /\ tries' = [tries EXCEPT ![a][k] = 1]
            /\ receipt' = [receipt EXCEPT ![a][k] = {}]
            /\ MoveTo(a, k, "begin")
            /\ UNCHANGED outcome
       ELSE /\ outcome' = [outcome EXCEPT ![a][k] = code]
            /\ MoveTo(a, k, "end")
            /\ UNCHANGED <<tries, receipt>>
  /\ Release(a, k)
  /\ UNCHANGED <<durable, dropped, mode, pc, draft, version>>

\* The transaction that holds the lock is idle and may lose its connection;
\* the branch goes on and does not notice.
DropReservation(a, k) ==
  /\ lock[k] = a
  /\ lock' = [lock EXCEPT ![k] = NoAttempt]
  /\ dropped' = dropped \cup {<<a, k>>}
  /\ UNCHANGED <<durable, mode, pc, memory, draft, version>>

-----------------------------------------------------------------------------
(* The bundle of all branches is persisted.                                 *)

BranchesEnded(a) ==
  /\ pc[a] = "branches"
  /\ \A k \in Kinds : step[a][k] \in {"off", "end", "kept"}

\* The results whose analyses are still to be written, one transaction each.
Unwritten(a) == {k \in Has(a, Usable) : Reserved(a) /\ step[a][k] = "end"}

RowOf(o) == IF o = "COMPLETE" THEN "SUCCEEDED" ELSE "PARTIAL"

Owned(a, k) == receipt[a][k] \subseteq OfKind(k)

PersistAnalysis(a) ==
  /\ BranchesEnded(a)
  /\ \E k \in Unwritten(a) :
       /\ \A j \in Unwritten(a) : k <= j
       /\ step' = [step EXCEPT ![a][k] = "kept"]
       /\ IF Owned(a, k)
            THEN /\ row' = [row EXCEPT ![k] = RowOf(outcome[a][k])]
                 /\ analysis' = [analysis EXCEPT ![k] = outcome[a][k]]
                 /\ UNCHANGED outcome
            ELSE /\ outcome' = [outcome EXCEPT ![a][k] = "OTHER"]
                 /\ UNCHANGED <<row, analysis>>
  /\ UNCHANGED <<evidence, reports, lock, dropped, mode, pc, tries, receipt, draft, version>>

\* Nothing but transport failures, and attempts left: the job is tried again.
Retryable(a) ==
  /\ a < LastAttempt
  /\ Has(a, Usable \cup {"EMPTY"}) = {}
  /\ Has(a, Failure) # {}
  /\ Has(a, {"OTHER"}) = {}

\* Faulty variant: the legacy statement for everybody.
ClearsAnalysis_Never(a) == FALSE

\* The legacy statement leaves analysis_result as it is.
ClearsAnalysis(a) == Reserved(a)

\* One transaction for all failures.
PersistFailures(a) ==
  /\ BranchesEnded(a)
  /\ Unwritten(a) = {}
  /\ row' = [k \in Kinds |-> IF k \in Has(a, Failure) THEN "FAILED" ELSE row[k]]
  /\ analysis' = [k \in Kinds |->
                    IF k \in Has(a, Failure) /\ ClearsAnalysis(a) THEN "NONE" ELSE analysis[k]]
  /\ IF Retryable(a)
       THEN Forget(a, "gone")
       ELSE /\ pc' = [pc EXCEPT ![a] = IF Reserved(a) THEN "synthesis" ELSE "bundle"]
            /\ UNCHANGED <<memory, draft, version, lock>>
  /\ UNCHANGED <<evidence, reports, dropped, mode>>

\* One transaction for all results of the legacy branches: it inserts their
\* evidence without a look at what is there.
PersistBundle(a) ==
  /\ pc[a] = "bundle"
  /\ LET results == Has(a, {"COMPLETE", "EMPTY"})
         batches == {<<a, k>> : k \in Has(a, {"COMPLETE"})}
     IN  /\ row' = [k \in Kinds |-> IF k \in results THEN "SUCCEEDED" ELSE row[k]]
         /\ evidence' = evidence \cup batches
         /\ receipt' = [receipt EXCEPT ![a] =
                          [k \in Kinds |-> {e \in batches : e[2] = k}]]
  /\ pc' = [pc EXCEPT ![a] = "synthesis"]
  /\ UNCHANGED <<analysis, reports, lock, dropped, mode, step, tries, outcome, draft, version>>

-----------------------------------------------------------------------------
(* The report.                                                              *)

\* Faulty variant: a partial analysis counts as a whole one.
WithFailures_OnlyFailures(a, d) ==
  IF d.status = "COMPLETE" /\ Has(a, Failure) # {}
    THEN [d EXCEPT !.status = "PARTIAL"] ELSE d

WithFailures(a, d) ==
  IF d.status = "COMPLETE" /\ Has(a, Failure \cup {"PARTIAL"}) # {}
    THEN [d EXCEPT !.status = "PARTIAL"] ELSE d

\* What the root agent may return: validated against the known evidence.
RootDrafts(known) ==
  {d \in [status : ReportStatus, cites : SUBSET known] :
     /\ d.status = "COMPLETE" => d.cites # {}
     /\ d.status = "FAILED" => d.cites = {}}

NothingToAnalyse(a) ==
  IF Reserved(a) THEN Has(a, Usable) = {} ELSE Known(a) = {}

Synthesize(a) ==
  /\ pc[a] = "synthesis"
  /\ IF NothingToAnalyse(a)
       THEN draft' = [draft EXCEPT ![a] =
                        IF Has(a, Failure) # {} THEN FailedAnalysis ELSE InsufficientEvidence]
       ELSE \E d \in RootDrafts(Known(a)) :
              draft' = [draft EXCEPT ![a] = WithFailures(a, d)]
  /\ pc' = [pc EXCEPT ![a] = "report"]
  /\ UNCHANGED <<durable, lock, dropped, mode, memory, version>>

Versions == {r.version : r \in reports}

\* Faulty variant: max(version) + 1 where max of no version is taken as 1.
NextVersions_FromTwo ==
  {v \in {2} \cup {w + 1 : w \in Versions} : \A w \in Versions : w < v}

NextVersions == {v \in {1} \cup {w + 1 : w \in Versions} : \A w \in Versions : w < v}

\* INSERT ... SELECT max(version) + 1: the snapshot is older than the insert.
ReadVersion(a) ==
  /\ pc[a] = "report"
  /\ \E v \in NextVersions : version' = [version EXCEPT ![a] = v]
  /\ pc' = [pc EXCEPT ![a] = "insert"]
  /\ UNCHANGED <<durable, lock, dropped, mode, memory, draft>>

\* UNIQUE (rca_run_id, version): waits for another insert of the version.
VersionHolders(a) == {b \in Attempts : pc[b] = "commit" /\ version[b] = version[a]}

InsertReport(a) ==
  /\ pc[a] = "insert"
  /\ VersionHolders(a) = {}
  /\ IF version[a] \in Versions
       THEN Forget(a, "gone")
       ELSE /\ pc' = [pc EXCEPT ![a] = "commit"]
            /\ UNCHANGED <<memory, draft, version, lock>>
  /\ UNCHANGED <<durable, dropped, mode>>

CommitReport(a) ==
  /\ pc[a] = "commit"
  /\ reports' = reports \cup {[version |-> version[a], status |-> draft[a].status,
                               cites |-> draft[a].cites]}
  /\ Forget(a, "done")
  /\ UNCHANGED <<evidence, row, analysis, dropped, mode>>

\* Crash, deadline, lost lease, or an error that leaves the processor.
Abandon(a) ==
  /\ pc[a] \in Active
  /\ Forget(a, "gone")
  /\ UNCHANGED <<durable, dropped, mode>>

-----------------------------------------------------------------------------
Branch(a, k) ==
  \/ BeginBranch(a, k)
  \/ Reserve(a, k)
  \/ ListPersisted(a, k)
  \/ CollectNothing(a, k)
  \/ Collect(a, k)
  \/ Analyse(a, k)
  \/ LegacyBranch(a, k)
  \/ \E code \in Failure : BranchFails(a, k, code)
  \/ DropReservation(a, k)

Processor(a) ==
  \/ UnsafeScope(a)
  \/ Start(a)
  \/ PersistAnalysis(a)
  \/ PersistFailures(a)
  \/ PersistBundle(a)
  \/ Synthesize(a)
  \/ ReadVersion(a)
  \/ InsertReport(a)
  \/ CommitReport(a)
  \/ Abandon(a)

Next == \E a \in Attempts : Processor(a) \/ \E k \in Kinds : Branch(a, k)

Spec == Init /\ [][Next]_vars

-----------------------------------------------------------------------------
(* Properties.                                                              *)

\* Shape of the state.
TypeOK ==
  /\ evidence \subseteq Batch
  /\ row \in [Kinds -> RowStatus]
  /\ analysis \in [Kinds -> AnalysisStatus]
  /\ \A r \in reports : r \in [version : Nat \ {0}, status : ReportStatus, cites : SUBSET Batch]
  /\ lock \in [Kinds -> Attempts \cup {NoAttempt}]
  /\ dropped \subseteq Batch
  /\ mode \in [Attempts -> Modes]
  /\ pc \in [Attempts -> Stage]
  /\ step \in [Attempts -> [Kinds -> Step]]
  /\ tries \in [Attempts -> [Kinds -> 0..1]]
  /\ receipt \in [Attempts -> [Kinds -> SUBSET Batch]]
  /\ outcome \in [Attempts -> [Kinds -> Outcome]]
  /\ draft \in [Attempts -> Draft]
  /\ version \in [Attempts -> Nat]

\* Attempts that reserve a kind collect it once: when two of them have both
\* stored evidence of it, one had lost the connection of its reservation.
\* (_specialist_collection_reservation, _list_persisted before
\* collect_evidence_drafts; crashes, retries and takeovers do not matter.)
CollectedOnce ==
  \A k \in Kinds : \A a, b \in Attempts :
    ( /\ a # b
      /\ Reserved(a) /\ Reserved(b)
      /\ <<a, k>> \in evidence /\ <<b, k>> \in evidence )
    => <<a, k>> \in dropped \/ <<b, k>> \in dropped

\* While no worker is in a mode without reservation, the status and the
\* analysis of a specialist's row tell the same, whichever attempts wrote
\* last: FAILED has none, SUCCEEDED a complete one, PARTIAL a partial one.
\* (upsert_specialist_analysis, _persist_analysis_failures,
\* _get_or_create_specialist_run; their writes interleave.)
RowMatchesAnalysis ==
  (\A a \in Attempts : Reserved(a)) =>
    \A k \in Kinds :
      /\ row[k] \in {"ABSENT", "FAILED"} => analysis[k] = "NONE"
      /\ row[k] = "SUCCEEDED" => analysis[k] = "COMPLETE"
      /\ row[k] = "PARTIAL" => analysis[k] = "PARTIAL"

\* A COMPLETE report has no failed or partial specialist behind it, cites
\* evidence, and cites none but what was committed for the run.
\* (with_specialist_failures, RcaSynthesizer.validate, _known_evidence.)
CompleteIsWhole ==
  \A a \in Attempts :
    /\ draft[a].cites \subseteq evidence
    /\ draft[a].status = "COMPLETE" =>
         /\ Has(a, Failure \cup {"PARTIAL"}) = {}
         /\ draft[a].cites # {}

Ledger == INSTANCE RunLedger

\* What readers see only grows: evidence stays, and reports get the versions
\* 1, 2, 3, ... in the order of their commits although each version is
\* computed from an older snapshot.  (_persist_report.)
ImplementsLedger == Ledger!LInit /\ [][Ledger!LNext]_(Ledger!ledger)

-----------------------------------------------------------------------------
(* The inductive invariant.                                                 *)

\* A branch that is running belongs to an attempt that waits for it, and only
\* branches of the analysis modes reserve.
StageInv ==
  \A a \in Attempts :
    /\ pc[a] = "bundle" => ~Reserved(a)
    /\ \A k \in Kinds :
         /\ step[a][k] \in {"begin", "queued"} \cup InReservation => pc[a] = "branches"
         /\ step[a][k] \in {"queued"} \cup InReservation => Reserved(a)

\* A reservation is held from the read to the end of the analysis, or has
\* been dropped.
LockInv ==
  \A a \in Attempts, k \in Kinds :
    /\ lock[k] = a => step[a][k] \in InReservation
    /\ step[a][k] \in InReservation => lock[k] = a \/ <<a, k>> \in dropped

\* Who has found no evidence may still store some, and whoever has stored
\* some was such a one.
Claimant(a, k) == Reserved(a) /\ (step[a][k] = "collect" \/ <<a, k>> \in evidence)

ClaimInv ==
  \A k \in Kinds : \A a, b \in Attempts :
    a # b /\ Claimant(a, k) /\ Claimant(b, k)
      => <<a, k>> \in dropped \/ <<b, k>> \in dropped

ReceiptInv == \A a \in Attempts, k \in Kinds : receipt[a][k] \subseteq OfKind(k)

DraftInv ==
  \A a \in Attempts : pc[a] \notin {"report", "insert", "commit"} => draft[a] = NoDraft

\* Versions have no gaps; the one somebody is about to insert follows one
\* that is there, and the one that is inserted is new and alone.
VersionInv ==
  /\ \A v \in Versions : \A w \in 1..v : w \in Versions
  /\ \A a \in Attempts :
       /\ pc[a] \in {"insert", "commit"} =>
            version[a] = 1 \/ version[a] - 1 \in Versions
       /\ pc[a] \in {"insert", "commit"} => version[a] # 0
       /\ pc[a] = "commit" => version[a] \notin Versions
  /\ \A a, b \in Attempts :
       pc[a] = "commit" /\ pc[b] = "commit" /\ version[a] = version[b] => a = b

\* Everything the theorems about attempts of one run rest on.
\* (_specialist_collection_reservation, _persist_report.)
IInv ==
  /\ TypeOK
  /\ StageInv
  /\ LockInv
  /\ ClaimInv
  /\ ReceiptInv
  /\ DraftInv
  /\ VersionInv
  /\ RowMatchesAnalysis
  /\ CompleteIsWhole

=============================================================================
