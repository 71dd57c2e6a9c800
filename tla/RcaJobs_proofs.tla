--------------------------- MODULE RcaJobs_proofs ---------------------------
(* Proofs about RcaJobs, for every set of jobs, messages and workers and     *)
(* every value of the timing constants.                                      *)
EXTENDS RcaJobs, TLAPS

USE MessageAssumption, TimingAssumption DEF MessageAssumption, TimingAssumption

\* The instants the actions compute.
LEMMA Instants ==
  ASSUME now \in Nat
  PROVE  /\ now + Lease \in Nat
         /\ now + Backoff \in Nat
         /\ Earlier(Budget, now + Configured) \in Nat
  BY DEF Earlier

\* What the identifier tests and the attempt limit of _claim give.
LEMMA ClaimFacts ==
  ASSUME TypeOK, StageInv, NEW w \in Worker, Claim(w)
  PROVE  /\ delivery[w] \in Message
         /\ JobOf(w) \in Job
         /\ attemptCount[JobOf(w)] \in 0 .. MaxAttempts - 1
         /\ attemptCount[JobOf(w)] + 1 \in 0 .. MaxAttempts
         /\ attemptCount[JobOf(w)] + 1 \in Attempt
         /\ jobStatus[JobOf(w)] \in {"QUEUED", "RUNNING"}
<1>1. delivery[w] \in Message /\ JobOf(w) \in Job
  BY DEF Claim, Claimable, StageInv, Carries, JobOf
<1>2. attemptCount[JobOf(w)] \in 0 .. MaxAttempts - 1
  BY <1>1 DEF Claim, Claimable, TypeOK, DatabaseTypeOK
<1>3. jobStatus[JobOf(w)] \in {"QUEUED", "RUNNING"}
  BY DEF Claim, Claimable
<1> QED
  BY <1>1, <1>2, <1>3 DEF Attempt

-----------------------------------------------------------------------------
(* Types *)

\* An action that leaves a group of variables alone leaves its type alone.
LEMMA UnchangedTypes ==
  /\ DatabaseTypeOK /\ UNCHANGED database => DatabaseTypeOK'
  /\ ReportsTypeOK /\ UNCHANGED reports => ReportsTypeOK'
  BY DEF DatabaseTypeOK, ReportsTypeOK, database, reports

\* The worker's part of every action writes stages, claims and outcomes only.
LEMMA WorkerTypes ==
  ASSUME TypeOK, StageInv, [Next]_vars
  PROVE  WorkerTypeOK'
<1> USE DEF WorkerTypeOK, TypeOK, Stage, Outcome, claim
<1>1. ASSUME NEW w \in Worker, NEW m \in Message, Pull(w, m)
      PROVE  WorkerTypeOK'
  BY <1>1 DEF Pull
<1>2. ASSUME NEW w \in Worker, Claim(w)
      PROVE  WorkerTypeOK'
  BY <1>2, ClaimFacts, Instants DEF Claim
<1>3. ASSUME NEW w \in Worker, ClaimRefused(w)
      PROVE  WorkerTypeOK'
  BY <1>3 DEF ClaimRefused
<1>4. ASSUME NEW w \in Worker, UnclaimedDisposition(w)
      PROVE  WorkerTypeOK'
  BY <1>4 DEF UnclaimedDisposition, AnswerWith, FailureCode
<1>5. ASSUME NEW w \in Worker, MarkUnclaimedTerminal(w)
      PROVE  WorkerTypeOK'
  BY <1>5 DEF MarkUnclaimedTerminal, AnswerWith
<1>6. ASSUME NEW w \in Worker, Process(w)
      PROVE  WorkerTypeOK'
  BY <1>6 DEF Process, PersistReport, ProcessorReturns, ProcessorRaises,
              DeadlineExceeded, LeaseLost, AnswerWith, FailureCode, RaisedCode
<1>7. ASSUME NEW w \in Worker,
             SettleSuccess(w) \/ SettleFailure(w) \/ SettlementRefused(w)
      PROVE  WorkerTypeOK'
  BY <1>7 DEF SettleSuccess, SettleFailure, SettlementRefused, AnswerWith
<1>8. ASSUME NEW w \in Worker, Reply(w) \/ Crash(w)
      PROVE  WorkerTypeOK'
  BY <1>8 DEF Reply, Crash, Forget
<1>9. ASSUME \/ Tick
             \/ \E m \in Message : Publish(m)
             \/ \E w \in Worker : RenewLease(w)
             \/ UNCHANGED vars
      PROVE  WorkerTypeOK'
  BY <1>9 DEF Tick, Publish, RenewLease, vars
<1> QED
  BY <1>1, <1>2, <1>3, <1>4, <1>5, <1>6, <1>7, <1>8, <1>9 DEF Next, Handle

\* A worker that executes or settles has a job and an attempt number of it.
LEMMA BusyFacts ==
  ASSUME TypeOK, StageInv, NEW w \in Worker, pc[w] \in Busy
  PROVE  /\ delivery[w] \in Message
         /\ JobOf(w) \in Job
         /\ attempt[w] \in Attempt
         /\ attempt[w] <= attemptCount[JobOf(w)]
         /\ attemptCount[JobOf(w)] \in Attempt
<1>1. /\ delivery[w] \in Message
      /\ JobOf(w) \in Job
      /\ attempt[w] \in 1 .. attemptCount[JobOf(w)]
  BY DEF StageInv, Carries, Busy, Executing, Settling
<1>2. attemptCount[JobOf(w)] \in 0 .. MaxAttempts
  BY <1>1 DEF TypeOK, DatabaseTypeOK
<1> QED
  BY <1>1, <1>2 DEF Attempt

\* Close keeps the columns it writes in their types.
LEMMA CloseTypes ==
  ASSUME DatabaseTypeOK,
         NEW w \in Worker, JobOf(w) \in Job, attempt[w] \in Attempt,
         NEW status \in JobStatus, NEW run \in RunStatus,
         NEW code \in {"OK"} \cup FailureCode,
         status = "FAILED" => code \in FailureCode,
         Close(w, status, run, code)
  PROVE  /\ jobStatus' \in [Job -> JobStatus]
         /\ leaseOwner' \in [Job -> Worker \cup {NoWorker}]
         /\ runStatus' \in [Job -> RunStatus]
         /\ runFailure' \in [Job -> {"NONE"} \cup FailureCode]
         /\ attemptRow' \in [Job -> [Attempt -> {"NO_ROW", "OPEN", "OK"} \cup FailureCode]]
<1>1. jobStatus' \in [Job -> JobStatus]
  BY DEF DatabaseTypeOK, Close
<1>2. leaseOwner' \in [Job -> Worker \cup {NoWorker}]
  BY DEF DatabaseTypeOK, Close
<1>3. runStatus' \in [Job -> RunStatus]
  BY DEF DatabaseTypeOK, Close
<1>4. runFailure' \in [Job -> {"NONE"} \cup FailureCode]
  BY DEF DatabaseTypeOK, Close
<1>5. attemptRow' \in [Job -> [Attempt -> {"NO_ROW", "OPEN", "OK"} \cup FailureCode]]
  BY DEF DatabaseTypeOK, Close
<1> QED
  BY <1>1, <1>2, <1>3, <1>4, <1>5

\* The columns of worker_jobs, rca_runs and worker_attempts.
LEMMA DatabaseTypes ==
  ASSUME TypeOK, StageInv, [Next]_vars
  PROVE  DatabaseTypeOK'
<1> USE DEF TypeOK
<1>1. CASE UNCHANGED database
  BY <1>1, UnchangedTypes
<1> USE DEF DatabaseTypeOK
<1>2. ASSUME NEW w \in Worker, Claim(w)
      PROVE  DatabaseTypeOK'
  <2>1. /\ JobOf(w) \in Job
        /\ attemptCount[JobOf(w)] + 1 \in 0 .. MaxAttempts
        /\ now + Lease \in Nat
    BY <1>2, ClaimFacts, Instants
  <2>2. /\ jobStatus' \in [Job -> JobStatus]
        /\ runStatus' \in [Job -> RunStatus]
    BY <1>2 DEF Claim, JobStatus, RunStatus
  <2>3. /\ leaseOwner' \in [Job -> Worker \cup {NoWorker}]
        /\ leaseExpires' \in [Job -> Nat]
    BY <1>2, <2>1 DEF Claim, TakeLease
  <2>4. attemptCount' \in [Job -> 0 .. MaxAttempts]
    BY <1>2, <2>1 DEF Claim
  <2>5. attemptRow' \in [Job -> [Attempt -> {"NO_ROW", "OPEN", "OK"} \cup FailureCode]]
    BY <1>2 DEF Claim
  <2>6. UNCHANGED <<availableAt, runFailure>>
    BY <1>2 DEF Claim
  <2> QED
    BY <2>2, <2>3, <2>4, <2>5, <2>6
<1>3. ASSUME NEW w \in Worker, MarkUnclaimedTerminal(w)
      PROVE  DatabaseTypeOK'
  <2>1. outcome[w] \in FailureCode
    BY <1>3 DEF MarkUnclaimedTerminal, StageInv, Carries
  <2>2. runFailure' \in [Job -> {"NONE"} \cup FailureCode]
    BY <1>3, <2>1 DEF MarkUnclaimedTerminal
  <2>3. /\ jobStatus' \in [Job -> JobStatus]
        /\ runStatus' \in [Job -> RunStatus]
        /\ leaseOwner' \in [Job -> Worker \cup {NoWorker}]
    BY <1>3 DEF MarkUnclaimedTerminal, JobStatus, Terminal, RunStatus
  <2>4. UNCHANGED <<attemptCount, leaseExpires, availableAt, attemptRow>>
    BY <1>3 DEF MarkUnclaimedTerminal
  <2> QED
    BY <2>2, <2>3, <2>4
<1>4. ASSUME NEW w \in Worker, RenewLease(w)
      PROVE  DatabaseTypeOK'
  BY <1>4, Instants DEF RenewLease
<1>5. ASSUME NEW w \in Worker, SettleSuccess(w)
      PROVE  DatabaseTypeOK'
  <2>1. JobOf(w) \in Job /\ attempt[w] \in Attempt
    BY <1>5, BusyFacts DEF SettleSuccess, Busy, Settling
  <2>2. \/ outcome[w] \in FailureCode /\ Close(w, "FAILED", "FAILED", outcome[w])
        \/ Close(w, "SUCCEEDED", RunStatusOf(outcome[w]), "OK")
    BY <1>5 DEF SettleSuccess
  <2>3. RunStatusOf(outcome[w]) \in RunStatus
    BY DEF RunStatusOf, RunStatus
  <2>4. UNCHANGED <<attemptCount, leaseExpires, availableAt>>
    BY <1>5 DEF SettleSuccess
  <2>5. {"SUCCEEDED", "FAILED"} \subseteq JobStatus /\ "FAILED" \in RunStatus
    BY DEF JobStatus, Terminal, RunStatus
  <2>6. DatabaseTypeOK
    OBVIOUS
  <2> HIDE DEF TypeOK, DatabaseTypeOK
  <2>7. /\ jobStatus' \in [Job -> JobStatus]
        /\ leaseOwner' \in [Job -> Worker \cup {NoWorker}]
        /\ runStatus' \in [Job -> RunStatus]
        /\ runFailure' \in [Job -> {"NONE"} \cup FailureCode]
        /\ attemptRow' \in [Job -> [Attempt -> {"NO_ROW", "OPEN", "OK"} \cup FailureCode]]
    <3>1. CASE outcome[w] \in FailureCode /\ Close(w, "FAILED", "FAILED", outcome[w])
      BY <3>1, <2>1, <2>5, <2>6, CloseTypes
    <3>2. CASE Close(w, "SUCCEEDED", RunStatusOf(outcome[w]), "OK")
      BY <3>2, <2>1, <2>3, <2>5, <2>6, CloseTypes
    <3> QED
      BY <3>1, <3>2, <2>2
  <2> QED
    BY <2>4, <2>6, <2>7 DEF DatabaseTypeOK
<1>6. ASSUME NEW w \in Worker, SettleFailure(w)
      PROVE  DatabaseTypeOK'
  <2>1. /\ JobOf(w) \in Job /\ attempt[w] \in Attempt
        /\ outcome[w] \in FailureCode
    BY <1>6, BusyFacts DEF SettleFailure, Busy, Settling, StageInv, Carries
  <2>2. \/ Close(w, "FAILED", "FAILED", outcome[w])
        \/ Close(w, "QUEUED", "QUEUED", outcome[w])
    BY <1>6 DEF SettleFailure
  <2>3. availableAt' \in [Job -> Nat]
    BY <1>6, Instants DEF SettleFailure
  <2>4. UNCHANGED <<attemptCount, leaseExpires>>
    BY <1>6 DEF SettleFailure
  <2>5. /\ {"QUEUED", "FAILED"} \subseteq JobStatus
        /\ {"QUEUED", "FAILED"} \subseteq RunStatus
    BY DEF JobStatus, Terminal, RunStatus
  <2>6. DatabaseTypeOK
    OBVIOUS
  <2> HIDE DEF TypeOK, DatabaseTypeOK
  <2>7. /\ jobStatus' \in [Job -> JobStatus]
        /\ leaseOwner' \in [Job -> Worker \cup {NoWorker}]
        /\ runStatus' \in [Job -> RunStatus]
        /\ runFailure' \in [Job -> {"NONE"} \cup FailureCode]
        /\ attemptRow' \in [Job -> [Attempt -> {"NO_ROW", "OPEN", "OK"} \cup FailureCode]]
    BY <2>1, <2>2, <2>5, <2>6, CloseTypes
  <2> QED
    BY <2>3, <2>4, <2>6, <2>7 DEF DatabaseTypeOK
<1> QED
  BY <1>1, <1>2, <1>3, <1>4, <1>5, <1>6
  DEF Next, Handle, Process, Tick, Publish, Pull, ClaimRefused,
      UnclaimedDisposition, PersistReport, ProcessorReturns, ProcessorRaises,
      DeadlineExceeded, LeaseLost, SettlementRefused, Reply, Crash, vars

LEMMA ReportsTypes ==
  ASSUME TypeOK, StageInv, [Next]_vars
  PROVE  ReportsTypeOK'
<1>1. CASE UNCHANGED reports
  BY <1>1, UnchangedTypes DEF TypeOK
<1>2. ASSUME NEW w \in Worker, NEW status \in ReportStatus, NEW code,
             PersistReport(w, status, code)
      PROVE  ReportsTypeOK'
  <2>1. JobOf(w) \in Job /\ attempt[w] \in Attempt
    BY <1>2, BusyFacts DEF PersistReport, Busy, Executing
  <2>2. report' \in [Job -> [Attempt -> {"NONE"} \cup ReportStatus]]
    BY <1>2, <2>1 DEF PersistReport, TypeOK, ReportsTypeOK
  <2>3. newestReport' \in [Job -> 0 .. MaxAttempts]
    BY <1>2, <2>1 DEF PersistReport, TypeOK, ReportsTypeOK, Attempt
  <2> QED
    BY <2>2, <2>3 DEF ReportsTypeOK
<1> QED
  BY <1>1, <1>2
  DEF Next, Handle, Process, Tick, Publish, Pull, Claim, ClaimRefused,
      UnclaimedDisposition, MarkUnclaimedTerminal, RenewLease,
      ProcessorReturns, ProcessorRaises, DeadlineExceeded, LeaseLost,
      SettleSuccess, SettleFailure, SettlementRefused, Reply, Crash, vars,
      ReportStatus

LEMMA TypeStep ==
  ASSUME TypeOK, StageInv, [Next]_vars
  PROVE  TypeOK'
<1>1. now' \in Nat /\ message' \in [Message -> {"unpublished", "unacked", "acked"}]
  BY DEF TypeOK, Next, Handle, Process, Tick, Publish, Pull, Claim,
         ClaimRefused, UnclaimedDisposition, MarkUnclaimedTerminal, RenewLease,
         PersistReport, ProcessorReturns, ProcessorRaises, DeadlineExceeded,
         LeaseLost, SettleSuccess, SettleFailure, SettlementRefused, Reply,
         Crash, vars
<1> QED
  BY <1>1, WorkerTypes, DatabaseTypes, ReportsTypes DEF TypeOK

-----------------------------------------------------------------------------
(* What the transactions do to the rows *)

\* The rows that the invariants speak of.
rows == <<jobStatus, attemptCount, leaseOwner, runStatus, runFailure, attemptRow>>

\* Only four transactions write them.
LEMMA RowSteps ==
  ASSUME [Next]_vars
  PROVE  \/ UNCHANGED rows
         \/ \E w \in Worker : \/ Claim(w)
                             \/ MarkUnclaimedTerminal(w)
                             \/ SettleSuccess(w)
                             \/ SettleFailure(w)
  BY DEF Next, Handle, Process, Tick, Publish, Pull, ClaimRefused,
         UnclaimedDisposition, RenewLease, PersistReport, ProcessorReturns,
         ProcessorRaises, DeadlineExceeded, LeaseLost, SettlementRefused,
         Reply, Crash, vars, rows, database

\* Job i keeps its rows.
SameRows(i) ==
  /\ jobStatus'[i] = jobStatus[i]
  /\ attemptCount'[i] = attemptCount[i]
  /\ leaseOwner'[i] = leaseOwner[i]
  /\ runStatus'[i] = runStatus[i]
  /\ runFailure'[i] = runFailure[i]
  /\ attemptRow'[i] = attemptRow[i]

LEMMA ClaimEffect ==
  ASSUME TypeOK, StageInv, NEW w \in Worker, Claim(w),
         NEW j, j = JobOf(w), NEW n, n = attemptCount[j] + 1
  PROVE  /\ j \in Job /\ n \in Attempt
         /\ jobStatus[j] \in {"QUEUED", "RUNNING"}
         /\ jobStatus'[j] = "RUNNING" /\ leaseOwner'[j] = w
         /\ runStatus'[j] = "RUNNING"
         /\ attemptCount'[j] = n
         /\ attemptRow'[j][n] = "OPEN"
         /\ \A k \in Attempt : k # n => attemptRow'[j][k] = attemptRow[j][k]
         /\ \A i \in Job : i # j => SameRows(i)
<1>1. j \in Job /\ n \in Attempt /\ jobStatus[j] \in {"QUEUED", "RUNNING"}
  BY ClaimFacts
<1>2. /\ jobStatus'[j] = "RUNNING" /\ leaseOwner'[j] = w
      /\ runStatus'[j] = "RUNNING"
      /\ attemptCount'[j] = n
  BY <1>1 DEF Claim, TakeLease, TypeOK, DatabaseTypeOK
<1>3. /\ attemptRow'[j][n] = "OPEN"
      /\ \A k \in Attempt : k # n => attemptRow'[j][k] = attemptRow[j][k]
  BY <1>1 DEF Claim, TakeLease, TypeOK, DatabaseTypeOK
<1>4. \A i \in Job : i # j => SameRows(i)
  BY <1>1 DEF Claim, TakeLease, TypeOK, DatabaseTypeOK, SameRows
<1> QED
  BY <1>1, <1>2, <1>3, <1>4

LEMMA CloseEffect ==
  ASSUME TypeOK, NEW w \in Worker, JobOf(w) \in Job, attempt[w] \in Attempt,
         NEW status, NEW run, NEW code, Close(w, status, run, code),
         UNCHANGED attemptCount, NEW j, j = JobOf(w)
  PROVE  /\ jobStatus'[j] = status /\ leaseOwner'[j] = NoWorker
         /\ runStatus'[j] = run
         /\ attemptCount'[j] = attemptCount[j]
         /\ attemptRow'[j][attempt[w]] = code
         /\ \A k \in Attempt : k # attempt[w] => attemptRow'[j][k] = attemptRow[j][k]
         /\ \A i \in Job : i # j => SameRows(i)
<1>1. /\ jobStatus'[j] = status /\ leaseOwner'[j] = NoWorker
      /\ runStatus'[j] = run
      /\ attemptCount'[j] = attemptCount[j]
  BY DEF Close, TypeOK, DatabaseTypeOK
<1>2. /\ attemptRow'[j][attempt[w]] = code
      /\ \A k \in Attempt : k # attempt[w] => attemptRow'[j][k] = attemptRow[j][k]
  BY DEF Close, TypeOK, DatabaseTypeOK
<1>3. \A i \in Job : i # j => SameRows(i)
  BY DEF Close, TypeOK, DatabaseTypeOK, SameRows
<1> QED
  BY <1>1, <1>2, <1>3

LEMMA MarkEffect ==
  ASSUME TypeOK, StageInv, NEW w \in Worker, MarkUnclaimedTerminal(w),
         NEW j, j = JobOf(w)
  PROVE  /\ j \in Job
         /\ \/ /\ ~Settled(j)
               /\ jobStatus'[j] = "FAILED" /\ leaseOwner'[j] = NoWorker
               /\ runStatus'[j] = "FAILED"
               /\ attemptCount'[j] = attemptCount[j]
               /\ attemptRow'[j] = attemptRow[j]
               /\ \A i \in Job : i # j => SameRows(i)
            \/ Settled(j) /\ UNCHANGED rows
<1>1. j \in Job
  BY DEF MarkUnclaimedTerminal, StageInv, Carries
<1> QED
  BY <1>1 DEF MarkUnclaimedTerminal, TypeOK, DatabaseTypeOK, SameRows, rows

\* The owner's fence: a settling worker that still owns the job runs its
\* newest attempt, whose row is open.
LEMMA SettleFacts ==
  ASSUME IInv, NEW w \in Worker, SettleSuccess(w) \/ SettleFailure(w)
  PROVE  /\ JobOf(w) \in Job /\ attempt[w] \in Attempt
         /\ attempt[w] = attemptCount[JobOf(w)]
         /\ jobStatus[JobOf(w)] = "RUNNING" /\ leaseOwner[JobOf(w)] = w
         /\ UNCHANGED attemptCount
<1>1. pc[w] \in Busy
  BY DEF SettleSuccess, SettleFailure, Busy, Settling
<1>2. JobOf(w) \in Job /\ attempt[w] \in Attempt
  BY <1>1, BusyFacts DEF IInv
<1>3. jobStatus[JobOf(w)] = "RUNNING" /\ leaseOwner[JobOf(w)] = w
  BY DEF SettleSuccess, SettleFailure, Owns
<1>4. attempt[w] = attemptCount[JobOf(w)]
  BY <1>1, <1>3 DEF IInv, OwnerRunsNewestAttempt, Busy
<1>5. UNCHANGED attemptCount
  BY DEF SettleSuccess, SettleFailure
<1> QED
  BY <1>2, <1>3, <1>4, <1>5

\* SettleSuccess and SettleFailure are one of three ways to close the job.
LEMMA SettleCloses ==
  ASSUME IInv, NEW w \in Worker, SettleSuccess(w) \/ SettleFailure(w)
  PROVE  \/ /\ outcome[w] \in FailureCode
            /\ Close(w, "FAILED", "FAILED", outcome[w])
         \/ /\ SettleSuccess(w) /\ outcome[w] \in {"COMPLETE", "PARTIAL"}
            /\ Close(w, "SUCCEEDED", RunStatusOf(outcome[w]), "OK")
         \/ /\ SettleFailure(w) /\ outcome[w] = "MCP_TRANSPORT"
            /\ attempt[w] < MaxAttempts
            /\ Close(w, "QUEUED", "QUEUED", outcome[w])
<1>1. CASE SettleSuccess(w)
  BY <1>1 DEF SettleSuccess, IInv, StageInv, Carries
<1>2. CASE SettleFailure(w)
  <2>1. outcome[w] \in FailureCode
    BY <1>2 DEF SettleFailure, IInv, StageInv, Carries
  <2>2. attempt[w] \in Attempt
    BY <1>2, SettleFacts
  <2> QED
    BY <1>2, <2>1, <2>2 DEF SettleFailure, Attempt
<1> QED
  BY <1>1, <1>2

-----------------------------------------------------------------------------
(* The invariants of the rows *)

\* What every transaction does to any one job.
LEMMA RowEffect ==
  ASSUME IInv, [Next]_vars, NEW i \in Job
  PROVE  \/ SameRows(i)
         \/ \E w \in Worker : Claim(w) /\ i = JobOf(w)
         \/ \E w \in Worker : /\ MarkUnclaimedTerminal(w) /\ i = JobOf(w)
                             /\ ~Settled(i)
         \/ \E w \in Worker : /\ SettleSuccess(w) \/ SettleFailure(w)
                             /\ i = JobOf(w)
<1>1. CASE UNCHANGED rows
  BY <1>1 DEF rows, SameRows
<1>2. ASSUME NEW w \in Worker, Claim(w), i # JobOf(w)
      PROVE  SameRows(i)
  BY <1>2, ClaimEffect DEF IInv
<1>3. ASSUME NEW w \in Worker, MarkUnclaimedTerminal(w),
             i # JobOf(w) \/ Settled(i)
      PROVE  SameRows(i)
  BY <1>3, MarkEffect DEF IInv, rows, SameRows
<1>4. ASSUME NEW w \in Worker, SettleSuccess(w) \/ SettleFailure(w),
             i # JobOf(w)
      PROVE  SameRows(i)
  <2>1. /\ JobOf(w) \in Job /\ attempt[w] \in Attempt
        /\ UNCHANGED attemptCount
    BY <1>4, SettleFacts
  <2>2. PICK status, run, code : Close(w, status, run, code)
    BY <1>4, SettleCloses
  <2> QED
    BY <1>4, <2>1, <2>2, CloseEffect DEF IInv
<1> QED
  BY <1>1, <1>2, <1>3, <1>4, RowSteps

\* The same, with the new values of the rows that are written.
LEMMA RowCases ==
  ASSUME IInv, [Next]_vars, NEW i \in Job
  PROVE  \/ SameRows(i)
         \/ \E w \in Worker :
              /\ Claim(w) /\ i = JobOf(w)
              /\ jobStatus[i] \in {"QUEUED", "RUNNING"}
              /\ attemptCount[i] < MaxAttempts
              /\ jobStatus'[i] = "RUNNING" /\ leaseOwner'[i] = w
              /\ runStatus'[i] = "RUNNING"
              /\ attemptCount'[i] = attemptCount[i] + 1
              /\ attemptRow'[i][attemptCount[i] + 1] = "OPEN"
              /\ \A k \in Attempt : k # attemptCount[i] + 1
                   => attemptRow'[i][k] = attemptRow[i][k]
         \/ /\ ~Settled(i)
            /\ jobStatus'[i] = "FAILED" /\ leaseOwner'[i] = NoWorker
            /\ runStatus'[i] = "FAILED"
            /\ attemptCount'[i] = attemptCount[i]
            /\ attemptRow'[i] = attemptRow[i]
         \/ \E w \in Worker, code \in {"OK"} \cup FailureCode :
              /\ SettleSuccess(w) \/ SettleFailure(w)
              /\ i = JobOf(w)
              /\ jobStatus[i] = "RUNNING" /\ leaseOwner[i] = w
              /\ attempt[w] = attemptCount[i] /\ attempt[w] \in Attempt
              /\ leaseOwner'[i] = NoWorker
              /\ attemptCount'[i] = attemptCount[i]
              /\ attemptRow'[i][attempt[w]] = code
              /\ \A k \in Attempt : k # attempt[w]
                   => attemptRow'[i][k] = attemptRow[i][k]
              /\ \/ /\ jobStatus'[i] = "FAILED" /\ runStatus'[i] = "FAILED"
                 \/ /\ jobStatus'[i] = "SUCCEEDED" /\ code = "OK"
                    /\ SettleSuccess(w)
                    /\ outcome[w] \in {"COMPLETE", "PARTIAL"}
                    /\ runStatus'[i] = RunStatusOf(outcome[w])
                 \/ /\ jobStatus'[i] = "QUEUED" /\ code = "MCP_TRANSPORT"
                    /\ runStatus'[i] = "QUEUED"
                    /\ attempt[w] < MaxAttempts
<1>1. ASSUME NEW w \in Worker, Claim(w), i = JobOf(w)
      PROVE  /\ jobStatus[i] \in {"QUEUED", "RUNNING"}
             /\ attemptCount[i] < MaxAttempts
             /\ jobStatus'[i] = "RUNNING" /\ leaseOwner'[i] = w
             /\ runStatus'[i] = "RUNNING"
             /\ attemptCount'[i] = attemptCount[i] + 1
             /\ attemptRow'[i][attemptCount[i] + 1] = "OPEN"
             /\ \A k \in Attempt : k # attemptCount[i] + 1
                  => attemptRow'[i][k] = attemptRow[i][k]
  <2>1. TypeOK /\ StageInv
    BY DEF IInv
  <2>2. attemptCount[i] < MaxAttempts
    BY <1>1, <2>1, ClaimFacts
  <2> QED
    BY <1>1, <2>1, <2>2, ClaimEffect
<1>2. ASSUME NEW w \in Worker, MarkUnclaimedTerminal(w), i = JobOf(w), ~Settled(i)
      PROVE  /\ jobStatus'[i] = "FAILED" /\ leaseOwner'[i] = NoWorker
             /\ runStatus'[i] = "FAILED"
             /\ attemptCount'[i] = attemptCount[i]
             /\ attemptRow'[i] = attemptRow[i]
  BY <1>2, MarkEffect DEF IInv
<1>3. ASSUME NEW w \in Worker, SettleSuccess(w) \/ SettleFailure(w), i = JobOf(w)
      PROVE  \E code \in {"OK"} \cup FailureCode :
              /\ jobStatus[i] = "RUNNING" /\ leaseOwner[i] = w
              /\ attempt[w] = attemptCount[i] /\ attempt[w] \in Attempt
              /\ leaseOwner'[i] = NoWorker
              /\ attemptCount'[i] = attemptCount[i]
              /\ attemptRow'[i][attempt[w]] = code
              /\ \A k \in Attempt : k # attempt[w]
                   => attemptRow'[i][k] = attemptRow[i][k]
              /\ \/ /\ jobStatus'[i] = "FAILED" /\ runStatus'[i] = "FAILED"
                 \/ /\ jobStatus'[i] = "SUCCEEDED" /\ code = "OK"
                    /\ SettleSuccess(w)
                    /\ outcome[w] \in {"COMPLETE", "PARTIAL"}
                    /\ runStatus'[i] = RunStatusOf(outcome[w])
                 \/ /\ jobStatus'[i] = "QUEUED" /\ code = "MCP_TRANSPORT"
                    /\ runStatus'[i] = "QUEUED"
                    /\ attempt[w] < MaxAttempts
  <2>1. /\ JobOf(w) \in Job /\ attempt[w] \in Attempt
        /\ attempt[w] = attemptCount[i]
        /\ jobStatus[i] = "RUNNING" /\ leaseOwner[i] = w
        /\ UNCHANGED attemptCount
    BY <1>3, SettleFacts
  <2>2. PICK status, run, code :
          /\ code \in {"OK"} \cup FailureCode
          /\ Close(w, status, run, code)
          /\ \/ status = "FAILED" /\ run = "FAILED"
             \/ /\ status = "SUCCEEDED" /\ code = "OK" /\ SettleSuccess(w)
                /\ outcome[w] \in {"COMPLETE", "PARTIAL"}
                /\ run = RunStatusOf(outcome[w])
             \/ /\ status = "QUEUED" /\ code = "MCP_TRANSPORT"
                /\ run = "QUEUED" /\ attempt[w] < MaxAttempts
    <3>1. "MCP_TRANSPORT" \in FailureCode
      BY DEF FailureCode
    <3> QED
      BY <1>3, <3>1, SettleCloses
  <2>3. /\ jobStatus'[i] = status /\ leaseOwner'[i] = NoWorker
        /\ runStatus'[i] = run
        /\ attemptCount'[i] = attemptCount[i]
        /\ attemptRow'[i][attempt[w]] = code
        /\ \A k \in Attempt : k # attempt[w] => attemptRow'[i][k] = attemptRow[i][k]
    BY <1>3, <2>1, <2>2, CloseEffect DEF IInv
  <2> QED
    BY <2>1, <2>2, <2>3
<1> QED
  BY <1>1, <1>2, <1>3, RowEffect

LEMMA LeaseStep ==
  ASSUME IInv, [Next]_vars
  PROVE  LeaseInv'
<1> SUFFICES ASSUME NEW i \in Job
             PROVE  /\ leaseOwner'[i] # NoWorker <=> jobStatus'[i] = "RUNNING"
                    /\ jobStatus'[i] = "QUEUED" => attemptCount'[i] < MaxAttempts
  BY DEF LeaseInv
<1>1. CASE SameRows(i)
  BY <1>1 DEF IInv, LeaseInv, SameRows
<1> QED
  BY <1>1, RowCases

LEMMA RowStep ==
  ASSUME IInv, [Next]_vars
  PROVE  RowInv' /\ SupersededAttemptsNeverSettle'
<1> SUFFICES ASSUME NEW i \in Job
             PROVE  /\ jobStatus'[i] \in {"RUNNING", "SUCCEEDED"}
                         => attemptCount'[i] > 0
                    /\ jobStatus'[i] = "RUNNING" =>
                         attemptRow'[i][attemptCount'[i]] = "OPEN"
                    /\ jobStatus'[i] = "QUEUED" /\ attemptCount'[i] > 0 =>
                         attemptRow'[i][attemptCount'[i]] = "MCP_TRANSPORT"
                    /\ \A n \in Attempt : n < attemptCount'[i] =>
                         attemptRow'[i][n] \in {"OPEN", "MCP_TRANSPORT"}
  BY DEF RowInv, SupersededAttemptsNeverSettle
<1>1. attemptCount[i] \in 0 .. MaxAttempts
  BY DEF IInv, TypeOK, DatabaseTypeOK
<1>2. \A n \in Attempt : n \in Nat /\ n > 0
  BY DEF Attempt
<1>3. /\ jobStatus[i] \in {"RUNNING", "SUCCEEDED"} => attemptCount[i] > 0
      /\ jobStatus[i] = "RUNNING" => attemptRow[i][attemptCount[i]] = "OPEN"
      /\ jobStatus[i] = "QUEUED" /\ attemptCount[i] > 0 =>
           attemptRow[i][attemptCount[i]] = "MCP_TRANSPORT"
      /\ \A n \in Attempt : n < attemptCount[i] =>
           attemptRow[i][n] \in {"OPEN", "MCP_TRANSPORT"}
  BY DEF IInv, RowInv, SupersededAttemptsNeverSettle
<1>4. CASE SameRows(i)
  BY <1>3, <1>4 DEF SameRows
<1>5. \A n \in Attempt : n < attemptCount[i] + 1 =>
         n < attemptCount[i] \/ (n = attemptCount[i] /\ attemptCount[i] > 0)
  BY <1>1, <1>2
<1>6. ASSUME ~SameRows(i)
      PROVE  /\ jobStatus'[i] \in {"RUNNING", "SUCCEEDED"}
                  => attemptCount'[i] > 0
             /\ jobStatus'[i] = "RUNNING" =>
                  attemptRow'[i][attemptCount'[i]] = "OPEN"
             /\ jobStatus'[i] = "QUEUED" =>
                  attemptRow'[i][attemptCount'[i]] = "MCP_TRANSPORT"
  BY <1>1, <1>2, <1>6, RowCases
<1>7. ASSUME ~SameRows(i), NEW n \in Attempt, n < attemptCount'[i]
      PROVE  attemptRow'[i][n] \in {"OPEN", "MCP_TRANSPORT"}
  <2>1. \/ /\ attemptCount'[i] = attemptCount[i]
           /\ attemptRow'[i][n] = attemptRow[i][n]
        \/ /\ attemptCount'[i] = attemptCount[i] + 1
           /\ n # attemptCount[i] + 1
           /\ attemptRow'[i][n] = attemptRow[i][n]
           /\ jobStatus[i] \in {"QUEUED", "RUNNING"}
    BY <1>1, <1>2, <1>7, RowCases
  <2> QED
    BY <1>1, <1>2, <1>3, <1>5, <1>7, <2>1
<1> QED
  BY <1>3, <1>4, <1>6, <1>7

-----------------------------------------------------------------------------
(* What a step does to one worker *)

SameWorker(w) ==
  /\ pc'[w] = pc[w]
  /\ delivery'[w] = delivery[w]
  /\ attempt'[w] = attempt[w]
  /\ outcome'[w] = outcome[w]

\* Only its own steps change what a worker carries.
LEMMA WorkerFrame ==
  ASSUME TypeOK, [Next]_vars, NEW w \in Worker,
         ~ \E m \in Message : Pull(w, m),
         ~ Handle(w), ~ Crash(w)
  PROVE  SameWorker(w)
<1> USE DEF TypeOK, WorkerTypeOK, SameWorker, claim
<1>1. ASSUME NEW v \in Worker, v # w, NEW m \in Message, Pull(v, m)
      PROVE  SameWorker(w)
  BY <1>1 DEF Pull
<1>2. ASSUME NEW v \in Worker, v # w, Claim(v) \/ ClaimRefused(v)
      PROVE  SameWorker(w)
  BY <1>2 DEF Claim, ClaimRefused
<1>3. ASSUME NEW v \in Worker, v # w,
             UnclaimedDisposition(v) \/ MarkUnclaimedTerminal(v)
      PROVE  SameWorker(w)
  BY <1>3 DEF UnclaimedDisposition, MarkUnclaimedTerminal, AnswerWith
<1>4. ASSUME NEW v \in Worker, v # w, Process(v)
      PROVE  SameWorker(w)
  BY <1>4 DEF Process, PersistReport, ProcessorReturns, ProcessorRaises,
              DeadlineExceeded, LeaseLost, AnswerWith
<1>5. ASSUME NEW v \in Worker, v # w,
             SettleSuccess(v) \/ SettleFailure(v) \/ SettlementRefused(v)
      PROVE  SameWorker(w)
  BY <1>5 DEF SettleSuccess, SettleFailure, SettlementRefused, AnswerWith
<1>6. ASSUME NEW v \in Worker, v # w, Reply(v) \/ Crash(v)
      PROVE  SameWorker(w)
  BY <1>6 DEF Reply, Crash, Forget
<1>7. ASSUME \/ Tick
             \/ \E m \in Message : Publish(m)
             \/ \E v \in Worker : RenewLease(v)
             \/ UNCHANGED vars
      PROVE  SameWorker(w)
  BY <1>7 DEF Tick, Publish, RenewLease, vars
<1> QED
  BY <1>1, <1>2, <1>3, <1>4, <1>5, <1>6, <1>7 DEF Next, Handle

\* The attempts of a job are only counted up.
LEMMA AttemptsGrow ==
  ASSUME IInv, [Next]_vars, NEW i \in Job
  PROVE  /\ attemptCount[i] \in Nat /\ attemptCount'[i] \in Nat
         /\ attemptCount[i] <= attemptCount'[i]
<1>1. attemptCount[i] \in 0 .. MaxAttempts
  BY DEF IInv, TypeOK, DatabaseTypeOK
<1> QED
  BY <1>1, RowCases DEF SameRows

LEMMA SettledStays ==
  ASSUME IInv, [Next]_vars, NEW i \in Job, Settled(i)
  PROVE  SameRows(i)
  BY RowCases DEF Settled, Terminal

LEMMA StageStep ==
  ASSUME IInv, [Next]_vars
  PROVE  StageInv'
<1> SUFFICES ASSUME NEW w \in Worker
             PROVE  Carries(w)'
  BY DEF StageInv
<1> USE DEF Carries, Busy, Executing, Settling, JobOf
<1>1. Carries(w) /\ TypeOK /\ StageInv /\ WorkerTypeOK
  BY DEF IInv, StageInv, TypeOK
<1> HIDE DEF Carries
<1>2. CASE SameWorker(w)
  BY <1>1, <1>2, AttemptsGrow DEF SameWorker, Carries
<1>3. ASSUME NEW m \in Message, Pull(w, m)
      PROVE  Carries(w)'
  BY <1>1, <1>3 DEF Pull, WorkerTypeOK, Carries
<1>4. CASE Claim(w)
  <2>1. /\ delivery[w] \in Message
        /\ JobOf(w) \in Job
        /\ attemptCount[JobOf(w)] + 1 \in Nat
        /\ attemptCount[JobOf(w)] + 1 > 0
    BY <1>1, <1>4, ClaimFacts
  <2>2. attemptCount'[JobOf(w)] = attemptCount[JobOf(w)] + 1
    BY <1>1, <1>4, ClaimEffect
  <2>3. /\ pc'[w] = "processing" /\ delivery'[w] = delivery[w]
        /\ attempt'[w] = attemptCount[JobOf(w)] + 1
    BY <1>1, <1>4 DEF Claim, WorkerTypeOK
  <2> QED
    BY <2>1, <2>2, <2>3 DEF Carries
<1>5. CASE ClaimRefused(w)
  BY <1>1, <1>5 DEF ClaimRefused, WorkerTypeOK, claim, Carries
<1>6. CASE UnclaimedDisposition(w)
  <2>1. pc'[w] = "expire" => JobOf(w) \in Job
    BY <1>1, <1>6 DEF UnclaimedDisposition, Unsettled, AnswerWith,
                      WorkerTypeOK, Carries
  <2> QED
    BY <1>1, <1>6, <2>1 DEF UnclaimedDisposition, AnswerWith, WorkerTypeOK,
                            claim, FailureCode, Carries
<1>7. CASE MarkUnclaimedTerminal(w)
  BY <1>1, <1>7 DEF MarkUnclaimedTerminal, AnswerWith, WorkerTypeOK, claim, Carries
<1>8. CASE Process(w)
  BY <1>1, <1>8 DEF Process, PersistReport, ProcessorReturns, ProcessorRaises,
                    DeadlineExceeded, LeaseLost, AnswerWith, FailureCode,
                    RaisedCode, WorkerTypeOK, claim, database, Carries
<1>9. CASE SettleSuccess(w) \/ SettleFailure(w) \/ SettlementRefused(w)
  BY <1>1, <1>9 DEF SettleSuccess, SettleFailure, SettlementRefused, AnswerWith,
                    WorkerTypeOK, claim, Carries
<1>10. CASE Reply(w) \/ Crash(w)
  BY <1>1, <1>10 DEF Reply, Crash, Forget, WorkerTypeOK, Carries
<1> QED
  BY <1>1, <1>2, <1>3, <1>4, <1>5, <1>6, <1>7, <1>8, <1>9, <1>10, WorkerFrame
  DEF Handle

-----------------------------------------------------------------------------
(* Acknowledgements *)

LEMMA AnswerStep ==
  ASSUME IInv, [Next]_vars
  PROVE  AnswerInv'
<1> SUFFICES ASSUME NEW w \in Worker,
                    pc'[w] = "reply", outcome'[w] = "ACK", JobOf(w)' # NoJob
             PROVE  Settled(JobOf(w))'
  BY DEF AnswerInv
<1>1. TypeOK /\ StageInv /\ Carries(w) /\ WorkerTypeOK
  BY DEF IInv, StageInv, TypeOK
<1>2. CASE SameWorker(w)
  <2>1. /\ pc[w] = "reply" /\ outcome[w] = "ACK"
        /\ JobOf(w) # NoJob /\ JobOf(w)' = JobOf(w)
    BY <1>2 DEF SameWorker, JobOf
  <2>2. Settled(JobOf(w)) /\ JobOf(w) \in Job
    BY <2>1, <1>1 DEF IInv, AnswerInv, Carries, JobOf
  <2> QED
    BY <2>1, <2>2, SettledStays DEF SameRows, Settled
<1>3. CASE UnclaimedDisposition(w)
  BY <1>1, <1>3 DEF UnclaimedDisposition, AnswerWith, Unsettled, Settled,
                    WorkerTypeOK, claim, database, JobOf
<1>4. CASE MarkUnclaimedTerminal(w)
  <2>1. JobOf(w)' = JobOf(w)
    BY <1>4 DEF MarkUnclaimedTerminal, claim, JobOf
  <2> QED
    BY <1>1, <1>4, <2>1, MarkEffect DEF Settled, Terminal, rows
<1>5. CASE SettleSuccess(w) \/ SettleFailure(w)
  <2>1. JobOf(w)' = JobOf(w)
    BY <1>5 DEF SettleSuccess, SettleFailure, claim, JobOf
  <2>2. JobOf(w) \in Job /\ attempt[w] \in Attempt /\ UNCHANGED attemptCount
    BY <1>5, SettleFacts
  <2>3. \/ Close(w, "FAILED", "FAILED", outcome[w])
        \/ Close(w, "SUCCEEDED", RunStatusOf(outcome[w]), "OK")
    BY <1>1, <1>5 DEF SettleSuccess, SettleFailure, AnswerWith, WorkerTypeOK
  <2> QED
    BY <1>1, <2>1, <2>2, <2>3, CloseEffect DEF Settled, Terminal
<1>6. CASE Claim(w) \/ ClaimRefused(w) \/ \E m \in Message : Pull(w, m)
  BY <1>1, <1>6 DEF Claim, ClaimRefused, Pull, WorkerTypeOK
<1>7. CASE Process(w) \/ SettlementRefused(w)
  BY <1>1, <1>7 DEF Process, PersistReport, ProcessorReturns, ProcessorRaises,
                    DeadlineExceeded, LeaseLost, SettlementRefused, AnswerWith,
                    WorkerTypeOK
<1>8. CASE Reply(w) \/ Crash(w)
  BY <1>1, <1>8 DEF Reply, Crash, Forget, WorkerTypeOK
<1> QED
  BY <1>1, <1>2, <1>3, <1>4, <1>5, <1>6, <1>7, <1>8, WorkerFrame DEF Handle

\* A message is acknowledged by a reply only.
LEMMA MessageFrame ==
  ASSUME [Next]_vars, NEW m \in Message,
         message \in [Message -> {"unpublished", "unacked", "acked"}]
  PROVE  message'[m] = message[m] \/ message'[m] = "unacked"
         \/ \E w \in Worker : Reply(w) /\ outcome[w] = "ACK" /\ delivery[w] = m
<1>1. CASE UNCHANGED message
  BY <1>1
<1>2. ASSUME NEW n \in Message, Publish(n)
      PROVE  message'[m] = message[m] \/ message'[m] = "unacked"
  BY <1>2 DEF Publish
<1>3. ASSUME NEW w \in Worker, Reply(w)
      PROVE  message'[m] = message[m] \/ (outcome[w] = "ACK" /\ delivery[w] = m)
  <2>1. CASE outcome[w] # "ACK"
    BY <1>3, <2>1 DEF Reply
  <2>2. CASE outcome[w] = "ACK" /\ delivery[w] # m
    <3>1. message' = [message EXCEPT ![delivery[w]] = "acked"]
      BY <1>3, <2>2 DEF Reply
    <3> QED
      BY <2>2, <3>1
  <2> QED
    BY <2>1, <2>2
<1>4. ASSUME NEW w \in Worker, Process(w) \/ RenewLease(w) \/ Crash(w)
      PROVE  UNCHANGED message
  BY <1>4 DEF Process, RenewLease, Crash, PersistReport, ProcessorReturns,
       ProcessorRaises, DeadlineExceeded, LeaseLost
<1>5. ASSUME NEW w \in Worker,
             \/ Claim(w) \/ ClaimRefused(w) \/ UnclaimedDisposition(w)
             \/ MarkUnclaimedTerminal(w) \/ SettleSuccess(w)
             \/ SettleFailure(w) \/ SettlementRefused(w)
      PROVE  UNCHANGED message
  BY <1>5 DEF Claim, ClaimRefused, UnclaimedDisposition, MarkUnclaimedTerminal,
       SettleSuccess, SettleFailure, SettlementRefused
<1>6. ASSUME NEW w \in Worker, NEW n \in Message, Pull(w, n)
      PROVE  UNCHANGED message
  BY <1>6 DEF Pull
<1>7. CASE Tick \/ UNCHANGED vars
  BY <1>7 DEF Tick, vars
<1> QED
  BY <1>1, <1>2, <1>3, <1>4, <1>5, <1>6, <1>7 DEF Next, Handle

LEMMA AckedStep ==
  ASSUME IInv, [Next]_vars
  PROVE  AckedJobsSettled'
<1> SUFFICES ASSUME NEW m \in Message, message'[m] = "acked",
                    MessageJob[m] # NoJob
             PROVE  Settled(MessageJob[m])'
  BY DEF AckedJobsSettled
<1>1. message \in [Message -> {"unpublished", "unacked", "acked"}]
  BY DEF IInv, TypeOK
<1>2. MessageJob[m] \in Job
  OBVIOUS
<1>3. Settled(MessageJob[m])
  <2>1. CASE message[m] = "acked"
    BY <2>1 DEF IInv, AckedJobsSettled
  <2>2. CASE \E w \in Worker : Reply(w) /\ outcome[w] = "ACK" /\ delivery[w] = m
    BY <2>2 DEF IInv, AnswerInv, Reply, JobOf
  <2>3. message'[m] = message[m] \/ message'[m] = "unacked"
        \/ \E w \in Worker : Reply(w) /\ outcome[w] = "ACK" /\ delivery[w] = m
    BY <1>1, MessageFrame
  <2> QED
    BY <2>1, <2>2, <2>3
<1> QED
  BY <1>2, <1>3, SettledStays DEF SameRows, Settled

-----------------------------------------------------------------------------
(* The workers that execute or settle *)

\* How a worker comes to execute or settle.
LEMMA BusyCases ==
  ASSUME IInv, [Next]_vars, NEW w \in Worker, pc'[w] \in Busy
  PROVE  \/ Claim(w)
         \/ /\ pc[w] \in Busy
            /\ delivery'[w] = delivery[w] /\ attempt'[w] = attempt[w]
            /\ ~ SettleSuccess(w) /\ ~ SettleFailure(w)
<1>1. WorkerTypeOK
  BY DEF IInv, TypeOK
<1>2. CASE SameWorker(w)
  BY <1>1, <1>2 DEF SameWorker, SettleSuccess, SettleFailure, AnswerWith, WorkerTypeOK, Busy, Executing, Settling
<1>3. CASE Process(w)
  BY <1>1, <1>3 DEF Process, PersistReport, ProcessorReturns, ProcessorRaises,
                    DeadlineExceeded, LeaseLost, AnswerWith, WorkerTypeOK,
                    claim, Busy, Executing, Settling, SettleSuccess,
                    SettleFailure
<1>4. CASE \/ \E m \in Message : Pull(w, m)
           \/ ClaimRefused(w) \/ Reply(w) \/ Crash(w)
  BY <1>1, <1>4 DEF Pull, ClaimRefused, Reply, Crash, Forget, WorkerTypeOK,
                    Busy, Executing, Settling
<1>5. CASE UnclaimedDisposition(w) \/ MarkUnclaimedTerminal(w)
  BY <1>1, <1>5 DEF UnclaimedDisposition, MarkUnclaimedTerminal, AnswerWith,
                    WorkerTypeOK, Busy, Executing, Settling
<1>6. CASE SettleSuccess(w) \/ SettleFailure(w) \/ SettlementRefused(w)
  BY <1>1, <1>6 DEF SettleSuccess, SettleFailure, SettlementRefused,
                    AnswerWith, WorkerTypeOK, Busy, Executing, Settling
<1> QED
  BY <1>1, <1>2, <1>3, <1>4, <1>5, <1>6, WorkerFrame DEF Handle, IInv

\* What a claim gives the worker that makes it.
LEMMA ClaimedAttempt ==
  ASSUME IInv, NEW w \in Worker, Claim(w)
  PROVE  /\ pc'[w] = "processing" /\ delivery'[w] = delivery[w]
         /\ JobOf(w)' = JobOf(w) /\ JobOf(w) \in Job
         /\ attempt'[w] = attemptCount[JobOf(w)] + 1
         /\ attemptCount'[JobOf(w)] = attemptCount[JobOf(w)] + 1
         /\ jobStatus'[JobOf(w)] = "RUNNING" /\ leaseOwner'[JobOf(w)] = w
<1>1. TypeOK /\ StageInv /\ WorkerTypeOK
  BY DEF IInv, TypeOK
<1>2. /\ pc'[w] = "processing" /\ delivery'[w] = delivery[w]
      /\ JobOf(w)' = JobOf(w)
      /\ attempt'[w] = attemptCount[JobOf(w)] + 1
  BY <1>1 DEF Claim, WorkerTypeOK, JobOf
<1>3. /\ JobOf(w) \in Job
      /\ attemptCount'[JobOf(w)] = attemptCount[JobOf(w)] + 1
      /\ jobStatus'[JobOf(w)] = "RUNNING" /\ leaseOwner'[JobOf(w)] = w
  BY <1>1, ClaimEffect
<1> QED
  BY <1>2, <1>3

\* A worker's claim leaves the others where they are.
LEMMA ClaimFrame ==
  ASSUME IInv, NEW v \in Worker, Claim(v), NEW w \in Worker, w # v
  PROVE  SameWorker(w) /\ ~Claim(w)
<1>1. TypeOK /\ WorkerTypeOK
  BY DEF IInv, TypeOK
<1>2. SameWorker(w)
  BY <1>1 DEF Claim, WorkerTypeOK, SameWorker
<1>3. ~Claim(w)
  BY <1>1, <1>2 DEF Claim, WorkerTypeOK, SameWorker
<1> QED
  BY <1>2, <1>3

LEMMA OwnerStep ==
  ASSUME IInv, [Next]_vars
  PROVE  OwnerRunsNewestAttempt'
<1> SUFFICES ASSUME NEW w \in Worker, pc'[w] \in Busy,
                    leaseOwner'[JobOf(w)'] = w
             PROVE  attempt'[w] = attemptCount'[JobOf(w)']
  BY DEF OwnerRunsNewestAttempt, Busy, Executing, Settling
<1>1. CASE Claim(w)
  BY <1>1, ClaimedAttempt
<1>2. ASSUME ~Claim(w)
      PROVE  attempt'[w] = attemptCount'[JobOf(w)']
  <2>1. /\ pc[w] \in Busy
        /\ delivery'[w] = delivery[w] /\ attempt'[w] = attempt[w]
        /\ ~ SettleSuccess(w) /\ ~ SettleFailure(w)
    BY <1>2, BusyCases
  <2>2. JobOf(w) \in Job /\ JobOf(w)' = JobOf(w)
    BY <2>1, BusyFacts DEF IInv, JobOf
  <2>3. SameRows(JobOf(w))
    BY <1>2, <2>1, <2>2, RowCases
  <2> QED
    BY <2>1, <2>2, <2>3 DEF SameRows, IInv, OwnerRunsNewestAttempt, Busy
<1> QED
  BY <1>1, <1>2

LEMMA AttemptStep ==
  ASSUME IInv, [Next]_vars
  PROVE  AttemptInv'
<1>1. ASSUME NEW w \in Worker, pc'[w] \in Busy, ~Claim(w)
      PROVE  /\ pc[w] \in Busy /\ JobOf(w) \in Job /\ JobOf(w)' = JobOf(w)
             /\ attempt'[w] = attempt[w]
             /\ attempt[w] \in Nat /\ attemptCount[JobOf(w)] \in Nat
             /\ attempt[w] <= attemptCount[JobOf(w)]
  BY <1>1, BusyCases, BusyFacts DEF IInv, JobOf, Attempt
<1>2. ASSUME NEW v \in Worker, NEW w \in Worker, v # w, Claim(v),
             pc'[w] \in Busy, JobOf(w)' = JobOf(v)'
      PROVE  attempt'[v] # attempt'[w]
  <2>1. ~Claim(w)
    BY <1>2, ClaimFrame
  <2> QED
    BY <1>1, <1>2, <2>1, ClaimedAttempt
<1>3. ASSUME NEW v \in Worker, NEW w \in Worker,
             pc'[v] \in Busy, pc'[w] \in Busy,
             JobOf(v)' = JobOf(w)', attempt'[v] = attempt'[w]
      PROVE  v = w
  <2>1. CASE Claim(v) \/ Claim(w)
    BY <1>2, <1>3, <2>1
  <2>2. CASE ~Claim(v) /\ ~Claim(w)
    BY <1>1, <1>3, <2>2 DEF IInv, AttemptInv
  <2> QED
    BY <2>1, <2>2
<1>4. ASSUME NEW w \in Worker, pc'[w] \in Busy,
             jobStatus'[JobOf(w)'] = "SUCCEEDED"
      PROVE  attempt'[w] # attemptCount'[JobOf(w)']
  <2>1. ~Claim(w)
    BY <1>4, ClaimedAttempt
  <2>2. /\ pc[w] \in Busy /\ JobOf(w) \in Job /\ JobOf(w)' = JobOf(w)
        /\ attempt'[w] = attempt[w]
        /\ ~ SettleSuccess(w) /\ ~ SettleFailure(w)
    BY <1>1, <1>4, <2>1, BusyCases
  <2>3. CASE SameRows(JobOf(w))
    BY <1>4, <2>2, <2>3 DEF SameRows, IInv, AttemptInv
  <2>4. CASE ~SameRows(JobOf(w))
    <3>1. PICK v \in Worker :
            /\ SettleSuccess(v)
            /\ JobOf(w) = JobOf(v)
            /\ attempt[v] = attemptCount[JobOf(w)]
            /\ attemptCount'[JobOf(w)] = attemptCount[JobOf(w)]
      BY <1>4, <2>2, <2>4, RowCases
    <3>2. pc[v] \in Busy /\ v # w
      BY <2>2, <3>1 DEF SettleSuccess, Busy, Settling
    <3> QED
      BY <2>2, <3>1, <3>2 DEF IInv, AttemptInv
  <2> QED
    BY <2>3, <2>4
<1> QED
  BY <1>3, <1>4 DEF AttemptInv

-----------------------------------------------------------------------------
(* Reports *)

\* An attempt's report is written by the worker that runs the attempt only.
LEMMA ReportKept ==
  ASSUME IInv, [Next]_vars, NEW j \in Job, NEW n \in Attempt,
         \A v \in Worker : pc[v] \in Busy /\ JobOf(v) = j => attempt[v] # n
  PROVE  report'[j][n] = report[j][n]
<1>1. CASE UNCHANGED reports
  BY <1>1 DEF reports
<1>2. ASSUME NEW v \in Worker, NEW status, NEW code, PersistReport(v, status, code)
      PROVE  report'[j][n] = report[j][n]
  <2>1. pc[v] \in Busy
    BY <1>2 DEF PersistReport, Busy, Executing
  <2>2. JobOf(v) # j \/ attempt[v] # n
    BY <2>1
  <2> QED
    BY <1>2, <2>2 DEF PersistReport, IInv, TypeOK, ReportsTypeOK
<1> QED
  BY <1>1, <1>2
  DEF Next, Handle, Process, Tick, Publish, Pull, Claim, ClaimRefused,
      UnclaimedDisposition, MarkUnclaimedTerminal, RenewLease,
      ProcessorReturns, ProcessorRaises, DeadlineExceeded, LeaseLost,
      SettleSuccess, SettleFailure, SettlementRefused, Reply, Crash, vars

LEMMA SuccessStep ==
  ASSUME IInv, [Next]_vars
  PROVE  SuccessHasItsReport'
<1> SUFFICES ASSUME NEW j \in Job, jobStatus'[j] = "SUCCEEDED"
             PROVE  /\ attemptRow'[j][attemptCount'[j]] = "OK"
                    /\ runStatus'[j] = RunStatusOf(report'[j][attemptCount'[j]])
  BY DEF SuccessHasItsReport, RunStatusOf
<1>1. CASE SameRows(j)
  <2>1. /\ jobStatus[j] = "SUCCEEDED"
        /\ attemptRow[j][attemptCount[j]] = "OK"
        /\ runStatus[j] = RunStatusOf(report[j][attemptCount[j]])
        /\ attemptCount'[j] = attemptCount[j]
    BY <1>1 DEF SameRows, IInv, SuccessHasItsReport
  <2>2. \A v \in Worker : pc[v] \in Busy /\ JobOf(v) = j
                             => attempt[v] # attemptCount[j]
    BY <2>1 DEF IInv, AttemptInv
  <2>3. attemptCount[j] \in Attempt
    BY <2>1 DEF IInv, RowInv, Attempt, TypeOK, DatabaseTypeOK
  <2>4. report'[j][attemptCount[j]] = report[j][attemptCount[j]]
    BY <2>2, <2>3, ReportKept
  <2> QED
    BY <1>1, <2>1, <2>4 DEF SameRows
<1>2. CASE ~SameRows(j)
  <2>1. PICK w \in Worker :
          /\ SettleSuccess(w)
          /\ j = JobOf(w)
          /\ attempt[w] = attemptCount[j] /\ attempt[w] \in Attempt
          /\ attemptCount'[j] = attemptCount[j]
          /\ attemptRow'[j][attempt[w]] = "OK"
          /\ outcome[w] \in {"COMPLETE", "PARTIAL"}
          /\ runStatus'[j] = RunStatusOf(outcome[w])
    BY <1>2, RowCases
  <2>2. report[j][attempt[w]] = outcome[w]
    BY <2>1 DEF SettleSuccess, IInv, ReportInv
  <2>3. report' = report
    BY <2>1 DEF SettleSuccess, reports
  <2> QED
    BY <2>1, <2>2, <2>3
<1> QED
  BY <1>1, <1>2

\* Reports are written by the processor only.
LEMMA ReportsFrame ==
  ASSUME [Next]_vars
  PROVE  \/ UNCHANGED reports
         \/ \E w \in Worker, status \in ReportStatus,
               code \in FailureCode \cup {"NONE"} : PersistReport(w, status, code)
<1>1. ASSUME NEW w \in Worker, Process(w)
      PROVE  \/ UNCHANGED reports
             \/ \E status \in ReportStatus, code \in FailureCode \cup {"NONE"} :
                  PersistReport(w, status, code)
  <2>1. CASE \/ ProcessorReturns(w) \/ DeadlineExceeded(w) \/ LeaseLost(w)
             \/ \E code \in RaisedCode : ProcessorRaises(w, code)
    BY <2>1 DEF ProcessorReturns, DeadlineExceeded, LeaseLost, ProcessorRaises
  <2>2. CASE \E status \in {"COMPLETE", "PARTIAL"} : PersistReport(w, status, "NONE")
    BY <2>2 DEF ReportStatus
  <2>3. CASE \E code \in {"MCP_TRANSPORT", "ANALYSIS_FAILED", "INTERNAL_ERROR"} :
               PersistReport(w, "FAILED", code)
    BY <2>3 DEF ReportStatus, FailureCode
  <2> QED
    BY <1>1, <2>1, <2>2, <2>3 DEF Process
<1>2. ASSUME NEW w \in Worker,
             \/ Claim(w) \/ ClaimRefused(w) \/ UnclaimedDisposition(w)
             \/ MarkUnclaimedTerminal(w) \/ SettleSuccess(w)
             \/ SettleFailure(w) \/ SettlementRefused(w) \/ Reply(w)
             \/ RenewLease(w) \/ Crash(w)
      PROVE  UNCHANGED reports
  BY <1>2 DEF Claim, ClaimRefused, UnclaimedDisposition, MarkUnclaimedTerminal,
       SettleSuccess, SettleFailure, SettlementRefused, Reply, RenewLease, Crash
<1>3. ASSUME NEW w \in Worker, NEW m \in Message, Pull(w, m)
      PROVE  UNCHANGED reports
  BY <1>3 DEF Pull
<1>4. CASE Tick \/ UNCHANGED vars \/ \E m \in Message : Publish(m)
  BY <1>4 DEF Tick, vars, Publish
<1> QED
  BY <1>1, <1>2, <1>3, <1>4 DEF Next, Handle

LEMMA ReportStep ==
  ASSUME IInv, [Next]_vars
  PROVE  ReportInv'
<1> SUFFICES ASSUME NEW w \in Worker, pc'[w] \in {"reported", "settleSuccess"},
                    outcome'[w] \in {"COMPLETE", "PARTIAL"}
             PROVE  report'[JobOf(w)'][attempt'[w]] = outcome'[w]
  BY DEF ReportInv
<1>1. TypeOK /\ StageInv /\ WorkerTypeOK /\ ReportsTypeOK
  BY DEF IInv, TypeOK
<1>2. pc'[w] \in Busy /\ ~Claim(w)
  BY ClaimedAttempt DEF Busy, Executing, Settling
<1>3. /\ pc[w] \in Busy /\ JobOf(w) \in Job /\ attempt[w] \in Attempt
      /\ JobOf(w)' = JobOf(w) /\ attempt'[w] = attempt[w]
  BY <1>1, <1>2, BusyCases, BusyFacts DEF JobOf
<1>4. CASE \E status \in ReportStatus, code \in FailureCode \cup {"NONE"} :
             PersistReport(w, status, code)
  <2>1. PICK status \in ReportStatus, code \in FailureCode \cup {"NONE"} :
          PersistReport(w, status, code)
    BY <1>4
  <2>2. report'[JobOf(w)][attempt[w]] = status
    BY <1>1, <1>3, <2>1 DEF PersistReport, ReportsTypeOK
  <2>3. outcome'[w] = IF status = "FAILED" THEN code ELSE status
    BY <1>1, <2>1 DEF PersistReport, WorkerTypeOK
  <2>4. outcome'[w] = status
    BY <2>3 DEF FailureCode
  <2> QED
    BY <1>3, <2>2, <2>4
<1>5. ASSUME ~ \E status \in ReportStatus, code \in FailureCode \cup {"NONE"} :
                 PersistReport(w, status, code)
      PROVE  pc[w] \in {"reported", "settleSuccess"} /\ outcome'[w] = outcome[w]
  <2>1. CASE SameWorker(w)
    BY <2>1 DEF SameWorker
  <2>2. CASE Process(w)
    BY <1>1, <1>5, <2>2 DEF Process, ProcessorReturns, ProcessorRaises,
      DeadlineExceeded, LeaseLost, AnswerWith, WorkerTypeOK, ReportStatus,
      FailureCode
  <2>3. CASE \/ \E m \in Message : Pull(w, m)
             \/ ClaimRefused(w) \/ Reply(w) \/ Crash(w)
             \/ UnclaimedDisposition(w) \/ MarkUnclaimedTerminal(w)
    BY <1>1, <1>3, <2>3 DEF Pull, ClaimRefused, Reply, Crash, Forget,
      UnclaimedDisposition, MarkUnclaimedTerminal, WorkerTypeOK, Busy,
      Executing, Settling
  <2>4. CASE SettleSuccess(w) \/ SettleFailure(w) \/ SettlementRefused(w)
    BY <1>1, <2>4 DEF SettleSuccess, SettleFailure, SettlementRefused,
      AnswerWith, WorkerTypeOK
  <2> QED
    BY <1>1, <1>2, <2>1, <2>2, <2>3, <2>4, WorkerFrame DEF Handle
<1>6. CASE ~ \E status \in ReportStatus, code \in FailureCode \cup {"NONE"} :
               PersistReport(w, status, code)
  <2>1. pc[w] \in {"reported", "settleSuccess"} /\ outcome'[w] = outcome[w]
    BY <1>5, <1>6
  <2>2. report[JobOf(w)][attempt[w]] = outcome[w]
    BY <2>1 DEF IInv, ReportInv
  <2>3. report'[JobOf(w)][attempt[w]] = report[JobOf(w)][attempt[w]]
    <3>1. CASE UNCHANGED reports
      BY <3>1 DEF reports
    <3>2. ASSUME NEW v \in Worker, NEW status \in ReportStatus,
                 NEW code \in FailureCode \cup {"NONE"},
                 PersistReport(v, status, code)
          PROVE  report'[JobOf(w)][attempt[w]] = report[JobOf(w)][attempt[w]]
      <4>1. v # w /\ pc[v] \in Busy
        BY <1>6, <3>2 DEF PersistReport, Busy, Executing
      <4>2. JobOf(v) # JobOf(w) \/ attempt[v] # attempt[w]
        BY <1>3, <4>1 DEF IInv, AttemptInv
      <4> QED
        BY <1>1, <1>3, <3>2, <4>2 DEF PersistReport, ReportsTypeOK
    <3> QED
      BY <3>1, <3>2, ReportsFrame
  <2> QED
    BY <1>3, <2>1, <2>2, <2>3
<1> QED
  BY <1>4, <1>6

-----------------------------------------------------------------------------
(* The invariant *)

LEMMA IInvInit ==
  ASSUME Init
  PROVE  IInv
<1>1. TypeOK
  BY DEF Init, TypeOK, DatabaseTypeOK, ReportsTypeOK, WorkerTypeOK, JobStatus,
         RunStatus, Stage, Outcome, Attempt
<1>2. LeaseInv /\ RowInv /\ SupersededAttemptsNeverSettle /\ SuccessHasItsReport
  BY DEF Init, LeaseInv, RowInv, SupersededAttemptsNeverSettle,
         SuccessHasItsReport, Attempt
<1>3. StageInv /\ AnswerInv /\ OwnerRunsNewestAttempt /\ AttemptInv /\ ReportInv
  BY DEF Init, StageInv, Carries, AnswerInv, OwnerRunsNewestAttempt,
         AttemptInv, ReportInv, Busy, Executing, Settling
<1>4. AckedJobsSettled
  BY DEF Init, AckedJobsSettled
<1> QED
  BY <1>1, <1>2, <1>3, <1>4 DEF IInv

LEMMA IInvStep ==
  ASSUME IInv, [Next]_vars
  PROVE  IInv'
<1>1. TypeOK'
  BY TypeStep DEF IInv
<1> QED
  BY <1>1, LeaseStep, StageStep, AnswerStep, AckedStep, OwnerStep, AttemptStep,
     RowStep, ReportStep, SuccessStep DEF IInv

\* The inductive invariant holds in every reachable state of the job life
\* cycle, whatever its workers, messages and timings.
THEOREM Invariance == Spec => []IInv
<1>1. Init => IInv
  BY IInvInit
<1>2. IInv /\ [Next]_vars => IInv'
  BY IInvStep
<1> QED
  BY <1>1, <1>2, PTL DEF Spec

\* The rows keep to the CHECK constraints of the schema, attempt_count <= 3
\* included, and the workers to what their stage needs.
THEOREM TypeCorrect == Spec => []TypeOK
<1>1. IInv => TypeOK
  BY DEF IInv
<1> QED
  BY <1>1, Invariance, PTL

\* RcaJobHandler acknowledges a delivery only after the terminal commit of the
\* job it names.
THEOREM AckAfterCommit == Spec => []AckedJobsSettled
<1>1. IInv => AckedJobsSettled
  BY DEF IInv
<1> QED
  BY <1>1, Invariance, PTL

\* Comparing lease_owner alone fences settlement and renewal: the owner of the
\* lease always runs the newest attempt, and superseded attempts settle nothing.
THEOREM OwnerFence == Spec => [](OwnerRunsNewestAttempt /\ SupersededAttemptsNeverSettle)
<1>1. IInv => OwnerRunsNewestAttempt /\ SupersededAttemptsNeverSettle
  BY DEF IInv
<1> QED
  BY <1>1, Invariance, PTL

\* A SUCCEEDED or PARTIAL run has the report of the attempt that settled it,
\* although the report's own transaction tests no lease.
THEOREM SuccessIsReported == Spec => []SuccessHasItsReport
<1>1. IInv => SuccessHasItsReport
  BY DEF IInv
<1> QED
  BY <1>1, Invariance, PTL

\* No late worker or duplicate delivery touches the rows of a settled job.
THEOREM SettledIsFinal == Spec => SettledJobIsFrozen
<1>1. ASSUME IInv, [Next]_vars, NEW j \in Job, Settled(j)
      PROVE  SameRows(j)
  BY <1>1, SettledStays
<1>2. IInv /\ [Next]_vars =>
        [\A j \in Job : Settled(j) =>
           /\ jobStatus'[j] = jobStatus[j]
           /\ runStatus'[j] = runStatus[j]
           /\ runFailure'[j] = runFailure[j]
           /\ leaseOwner'[j] = leaseOwner[j]
           /\ attemptCount'[j] = attemptCount[j]
           /\ attemptRow'[j] = attemptRow[j]]_vars
  BY <1>1 DEF SameRows
<1> QED
  BY <1>2, Invariance, PTL DEF Spec, SettledJobIsFrozen

-----------------------------------------------------------------------------
(* The life cycle implements its contract *)

\* Every step of the life cycle is a step of the contract or leaves it alone.
LEMMA ContractStep ==
  ASSUME IInv, [Next]_vars
  PROVE  [Contract!CNext]_(Contract!contract)
<1> USE DEF Contract!contract
<1>1. TypeOK /\ StageInv /\ DatabaseTypeOK
  BY DEF IInv, TypeOK
<1>2. ASSUME NEW w \in Worker, Claim(w)
      PROVE  Contract!CNext
  <2>1. /\ JobOf(w) \in Job
        /\ jobStatus[JobOf(w)] \in {"QUEUED", "RUNNING"}
        /\ attemptCount[JobOf(w)] < MaxAttempts
    BY <1>1, <1>2, ClaimFacts
  <2>2. Contract!Try(JobOf(w))
    BY <1>2, <2>1 DEF Claim, Contract!Try
  <2> QED
    BY <2>1, <2>2 DEF Contract!CNext
<1>3. ASSUME NEW w \in Worker, MarkUnclaimedTerminal(w), ~Settled(JobOf(w))
      PROVE  Contract!CNext
  <2>1. JobOf(w) \in Job
    BY <1>1, <1>3, MarkEffect
  <2>2. Contract!Fail(JobOf(w))
    BY <1>3, <2>1 DEF MarkUnclaimedTerminal, Contract!Fail, Contract!Ended,
                      Settled, Terminal
  <2> QED
    BY <2>1, <2>2 DEF Contract!CNext
<1>4. ASSUME NEW w \in Worker, SettleSuccess(w) \/ SettleFailure(w)
      PROVE  Contract!CNext
  <2>1. /\ JobOf(w) \in Job
        /\ jobStatus[JobOf(w)] = "RUNNING"
        /\ attempt[w] = attemptCount[JobOf(w)]
        /\ UNCHANGED <<message, attemptCount>>
    BY <1>4, SettleFacts DEF SettleSuccess, SettleFailure
  <2>2. CASE Close(w, "FAILED", "FAILED", outcome[w])
    <3>1. Contract!Fail(JobOf(w))
      BY <2>1, <2>2 DEF Close, Contract!Fail, Contract!Ended
    <3> QED
      BY <2>1, <3>1 DEF Contract!CNext
  <2>3. CASE /\ outcome[w] \in {"COMPLETE", "PARTIAL"}
             /\ Close(w, "SUCCEEDED", RunStatusOf(outcome[w]), "OK")
    <3>1. RunStatusOf(outcome[w]) \in {"SUCCEEDED", "PARTIAL"}
      BY <2>3 DEF RunStatusOf
    <3>2. Contract!Succeed(JobOf(w))
      BY <2>1, <2>3, <3>1 DEF Close, Contract!Succeed
    <3> QED
      BY <2>1, <3>2 DEF Contract!CNext
  <2>4. CASE /\ attempt[w] < MaxAttempts
             /\ Close(w, "QUEUED", "QUEUED", outcome[w])
    <3>1. Contract!Requeue(JobOf(w))
      BY <2>1, <2>4 DEF Close, Contract!Requeue
    <3> QED
      BY <2>1, <3>1 DEF Contract!CNext
  <2> QED
    BY <1>4, <2>2, <2>3, <2>4, SettleCloses
<1>5. ASSUME NEW w \in Worker, Reply(w), outcome[w] = "ACK"
      PROVE  Contract!CNext
  <2>1. PICK m \in Message : m = delivery[w]
    BY <1>5 DEF Reply, IInv, StageInv, Carries
  <2>2. MessageJob[m] # NoJob => Settled(MessageJob[m])
    BY <1>5, <2>1 DEF Reply, IInv, AnswerInv, JobOf
  <2>3. {k \in Message : message'[k] = "acked"}
          = {k \in Message : message[k] = "acked"} \cup {m}
    BY <1>1, <1>5, <2>1 DEF Reply, TypeOK
  <2>4. Contract!Ack(m)
    BY <1>5, <2>2, <2>3 DEF Reply, database, Contract!Ack, Contract!Ended,
                            Settled, Terminal
  <2> QED
    BY <2>4 DEF Contract!CNext
<1>6. ASSUME UNCHANGED rows,
             \A m \in Message : message'[m] = "acked" <=> message[m] = "acked"
      PROVE  UNCHANGED Contract!contract
  BY <1>6 DEF rows
<1>7. ASSUME NEW m \in Message, Publish(m)
      PROVE  \A k \in Message : message'[k] = "acked" <=> message[k] = "acked"
  BY <1>1, <1>7 DEF Publish, TypeOK
<1>8. CASE UNCHANGED rows
  <2>1. \/ UNCHANGED message
        \/ \E m \in Message : Publish(m)
        \/ \E w \in Worker : Reply(w) /\ outcome[w] = "ACK"
    BY DEF Next, Handle, Process, Tick, Pull, Claim, ClaimRefused,
         UnclaimedDisposition, MarkUnclaimedTerminal, RenewLease,
         PersistReport, ProcessorReturns, ProcessorRaises, DeadlineExceeded,
         LeaseLost, SettleSuccess, SettleFailure, SettlementRefused, Reply,
         Crash, vars
  <2> QED
    BY <1>5, <1>6, <1>7, <1>8, <2>1
<1>9. ASSUME NEW w \in Worker, MarkUnclaimedTerminal(w), Settled(JobOf(w))
      PROVE  UNCHANGED rows
  BY <1>1, <1>9, MarkEffect
<1> QED
  BY <1>2, <1>3, <1>4, <1>8, <1>9, RowSteps

\* Workers, leases, crashes, redeliveries and unfenced reports included, the
\* life cycle does only what its contract allows: a bounded number of tries,
\* one end, run and job in step, acknowledgement after the end.
THEOREM Refinement == Spec => ImplementsContract
<1>1. Init => Contract!CInit
  BY DEF Init, Contract!CInit
<1>2. IInv /\ [Next]_vars => [Contract!CNext]_(Contract!contract)
  BY ContractStep
<1> QED
  BY <1>1, <1>2, Invariance, PTL DEF Spec, ImplementsContract, Contract!CSpec
=============================================================================
