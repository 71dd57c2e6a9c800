------------------------------- MODULE RcaJobs -------------------------------
(***************************************************************************)
(* The durable life cycle of an RCA job: rca-worker's RcaJobHandler        *)
(* (application/rca/job_lifecycle.py) driven by the Pub/Sub pull loop      *)
(* (workers/rca_worker.py).                                                *)
(*                                                                         *)
(* Every worker process pulls one message at a time.  PostgreSQL holds the *)
(* job, its run, its attempts and its reports; one database transaction is *)
(* one action.  Pub/Sub delivers at least once: a message that has not     *)
(* been acknowledged may be handed to any idle worker at any moment, also  *)
(* while another worker is still executing the job it names.               *)
(***************************************************************************)
EXTENDS Integers

CONSTANTS
  Job,          \* worker_jobs rows; each has exactly one rca_runs row
  Message,      \* Pub/Sub messages, several of which may name one job
  Worker,       \* WORKER_ID values: a process restarted in its pod keeps its own
  MessageJob,   \* MessageJob[m]: the job whose three identifiers m carries
  NoJob,        \* ... or NoJob: undecodable, unknown or mismatched identifiers
  NoWorker, NoMessage,
  MaxAttempts,  \* attempt_count < 3
  Lease,        \* lease_expires_at = now() + 60 seconds
  Backoff,      \* available_at = now() + 30 seconds
  Budget,       \* created_at + 5 minutes; every job is created at time 0
  Configured,   \* rca_deadline_seconds
  MaxTime       \* bound on the clock

ASSUME MessageAssumption ==
  /\ MessageJob \in [Message -> Job \cup {NoJob}]
  /\ NoJob \notin Job
  /\ NoMessage \notin Message
  /\ NoWorker \notin Worker

ASSUME TimingAssumption ==
  /\ MaxAttempts \in Nat \ {0}
  /\ Lease \in Nat \ {0}
  /\ Backoff \in Nat \ {0}
  /\ Budget \in Nat \ {0}
  /\ Configured \in Nat \ {0}
  /\ MaxTime \in Nat

VARIABLES
  now,            \* the clock of the database, which the workers share
  message,        \* message[m]: its state in the subscription
  jobStatus,      \* worker_jobs.status
  attemptCount,   \* worker_jobs.attempt_count
  leaseOwner,     \* worker_jobs.lease_owner
  leaseExpires,   \* worker_jobs.lease_expires_at, meaningless without an owner
  availableAt,    \* worker_jobs.available_at
  runStatus,      \* rca_runs.status
  runFailure,     \* rca_runs.failure_code
  attemptRow,     \* worker_attempts: attemptRow[j][n]
  report,         \* report[j][n]: result_status of the report attempt n wrote
  newestReport,   \* the attempt that wrote the highest report version
  pc,             \* where worker w is in handling its delivery
  delivery,       \* the message worker w pulled
  attempt,        \* RcaJobClaim.attempt_number
  deadline,       \* RcaJobClaim.deadline_at
  outcome         \* the result, failure code or disposition w carries

database == <<jobStatus, attemptCount, leaseOwner, leaseExpires, availableAt,
              runStatus, runFailure, attemptRow>>
reports  == <<report, newestReport>>
claim    == <<delivery, attempt, deadline>>
vars     == <<now, message, database, reports, pc, claim, outcome>>

-----------------------------------------------------------------------------
Terminal      == {"SUCCEEDED", "FAILED"}
JobStatus     == {"QUEUED", "RUNNING"} \cup Terminal
RunStatus     == {"QUEUED", "RUNNING", "SUCCEEDED", "PARTIAL", "FAILED"}
ReportStatus  == {"COMPLETE", "PARTIAL", "FAILED"}

\* ANALYSIS_FAILED stands for every code that only a failed report carries.
FailureCode   == {"DEADLINE_EXCEEDED", "MCP_TRANSPORT", "INTERNAL_ERROR",
                  "ANALYSIS_FAILED"}

\* _classify_failure: ConnectionError, TimeoutError, any other exception
RaisedCode    == {"MCP_TRANSPORT", "DEADLINE_EXCEEDED", "INTERNAL_ERROR"}

Attempt       == 1 .. MaxAttempts
Stage         == {"idle", "received", "unclaimed", "expire", "processing",
                  "reported", "settleSuccess", "settleFailure", "reply"}
Executing     == {"processing", "reported"}
Settling      == {"settleSuccess", "settleFailure"}

JobOf(w)      == MessageJob[delivery[w]]
Settled(j)    == jobStatus[j] \in Terminal
Unsettled(j)  == j # NoJob /\ ~Settled(j)
Earlier(a, b) == IF a <= b THEN a ELSE b

-----------------------------------------------------------------------------
\* create_rca_work: the job and its run are committed as QUEUED, then an
\* outbox event publishes the message.
Init ==
  /\ now = 0
  /\ message = [m \in Message |-> "unpublished"]
  /\ jobStatus = [j \in Job |-> "QUEUED"]
  /\ attemptCount = [j \in Job |-> 0]
  /\ leaseOwner = [j \in Job |-> NoWorker]
  /\ leaseExpires = [j \in Job |-> 0]
  /\ availableAt = [j \in Job |-> 0]
  /\ runStatus = [j \in Job |-> "QUEUED"]
  /\ runFailure = [j \in Job |-> "NONE"]
  /\ attemptRow = [j \in Job |-> [n \in Attempt |-> "NO_ROW"]]
  /\ report = [j \in Job |-> [n \in Attempt |-> "NONE"]]
  /\ newestReport = [j \in Job |-> 0]
  /\ pc = [w \in Worker |-> "idle"]
  /\ delivery = [w \in Worker |-> NoMessage]
  /\ attempt = [w \in Worker |-> 0]
  /\ deadline = [w \in Worker |-> 0]
  /\ outcome = [w \in Worker |-> "NONE"]

\* The back end publishes m, at creation or in a later manual recovery.
Publish(m) ==
  /\ message[m] = "unpublished"
  /\ message' = [message EXCEPT ![m] = "unacked"]
  /\ UNCHANGED <<now, database, reports, pc, claim, outcome>>

Tick ==
  /\ now < MaxTime
  /\ now' = now + 1
  /\ UNCHANGED <<message, database, reports, pc, claim, outcome>>

\* subscriber.pull(max_messages=1) hands m to w.
Pull(w, m) ==
  /\ pc[w] = "idle"
  /\ message[m] = "unacked"
  /\ pc' = [pc EXCEPT ![w] = "received"]
  /\ delivery' = [delivery EXCEPT ![w] = m]
  /\ UNCHANGED <<now, message, database, reports, attempt, deadline, outcome>>

-----------------------------------------------------------------------------
(* Claiming *)

Claimable_NotRunning(j) ==
  /\ j # NoJob
  /\ availableAt[j] <= now
  /\ attemptCount[j] < MaxAttempts
  /\ Earlier(Budget, now + Configured) > now
  /\ jobStatus[j] # "RUNNING" \/ leaseExpires[j] < now

\* The WHERE clause of _claim, its identifier tests included.
Claimable(j) ==
  /\ j # NoJob
  /\ availableAt[j] <= now
  /\ attemptCount[j] < MaxAttempts
  /\ Earlier(Budget, now + Configured) > now
  /\ \/ jobStatus[j] = "QUEUED"
     \/ jobStatus[j] = "RUNNING" /\ leaseExpires[j] < now

\* Faulty variant: a takeover that keeps the owner it finds.
TakeLease_KeepsOwner(w, j) ==
  /\ leaseOwner' = [leaseOwner EXCEPT ![j] = IF @ = NoWorker THEN w ELSE @]
  /\ leaseExpires' = [leaseExpires EXCEPT ![j] = now + Lease]

TakeLease(w, j) ==
  /\ leaseOwner' = [leaseOwner EXCEPT ![j] = w]
  /\ leaseExpires' = [leaseExpires EXCEPT ![j] = now + Lease]

Claim(w) ==
  LET j == JobOf(w)
      n == attemptCount[j] + 1
  IN
  /\ pc[w] = "received"
  /\ Claimable(j)
  /\ jobStatus' = [jobStatus EXCEPT ![j] = "RUNNING"]
  /\ TakeLease(w, j)
  /\ attemptCount' = [attemptCount EXCEPT ![j] = n]
  /\ runStatus' = [runStatus EXCEPT ![j] = "RUNNING"]
  /\ attemptRow' = [attemptRow EXCEPT ![j][n] = "OPEN"]
  /\ pc' = [pc EXCEPT ![w] = "processing"]
  /\ attempt' = [attempt EXCEPT ![w] = n]
  /\ deadline' = [deadline EXCEPT ![w] = Earlier(Budget, now + Configured)]
  /\ UNCHANGED <<now, message, availableAt, runFailure, reports, delivery,
                 outcome>>

ClaimRefused(w) ==
  /\ pc[w] = "received"
  /\ ~Claimable(JobOf(w))
  /\ pc' = [pc EXCEPT ![w] = "unclaimed"]
  /\ UNCHANGED <<now, message, database, reports, claim, outcome>>

\* Faulty variant: every delivery is acknowledged.
AnswerWith_AlwaysAck(w, d) ==
  /\ pc' = [pc EXCEPT ![w] = "reply"]
  /\ outcome' = [outcome EXCEPT ![w] = "ACK"]

\* w will answer d, "ACK" or "NACK", to Pub/Sub.
AnswerWith(w, d) ==
  /\ pc' = [pc EXCEPT ![w] = "reply"]
  /\ outcome' = [outcome EXCEPT ![w] = d]

\* Faulty variant: a job that is not terminal is always left to a later delivery.
UnclaimedDisposition_NeverExpires(w) ==
  /\ pc[w] = "unclaimed"
  /\ AnswerWith(w, IF Unsettled(JobOf(w)) THEN "NACK" ELSE "ACK")
  /\ UNCHANGED <<now, message, database, reports, claim>>

\* _unclaimed_disposition reads the row in a session of its own ...
UnclaimedDisposition(w) ==
  LET j == JobOf(w)
      expired == Budget <= now
      spent == attemptCount[j] >= MaxAttempts
  IN
  /\ pc[w] = "unclaimed"
  /\ \/ /\ ~Unsettled(j)
        /\ AnswerWith(w, "ACK")
     \/ /\ Unsettled(j)
        /\ expired \/ spent
        /\ pc' = [pc EXCEPT ![w] = "expire"]
        /\ outcome' = [outcome EXCEPT
             ![w] = IF expired THEN "DEADLINE_EXCEEDED" ELSE "INTERNAL_ERROR"]
     \/ /\ Unsettled(j)
        /\ ~expired /\ ~spent
        /\ AnswerWith(w, "NACK")
  /\ UNCHANGED <<now, message, database, reports, claim>>

\* ... and _mark_unclaimed_terminal writes in a later transaction.
MarkUnclaimedTerminal(w) ==
  LET j == JobOf(w) IN
  /\ pc[w] = "expire"
  /\ \/ /\ ~Settled(j)
        /\ jobStatus' = [jobStatus EXCEPT ![j] = "FAILED"]
        /\ leaseOwner' = [leaseOwner EXCEPT ![j] = NoWorker]
        /\ runStatus' = [runStatus EXCEPT ![j] = "FAILED"]
        /\ runFailure' = [runFailure EXCEPT ![j] = outcome[w]]
     \/ /\ Settled(j)
        /\ UNCHANGED <<jobStatus, leaseOwner, runStatus, runFailure>>
  /\ AnswerWith(w, "ACK")
  /\ UNCHANGED <<now, message, attemptCount, leaseExpires, availableAt,
                 attemptRow, reports, claim>>

-----------------------------------------------------------------------------
(* Executing under the lease *)

\* Faulty variant: no owner in the WHERE clause.
Owns_AnyOwner(w) == jobStatus[JobOf(w)] = "RUNNING"

\* WHERE id = :id AND status = 'RUNNING' AND lease_owner = :owner
Owns(w) ==
  /\ jobStatus[JobOf(w)] = "RUNNING"
  /\ leaseOwner[JobOf(w)] = w

\* One turn of the _renew_lease loop.
RenewLease(w) ==
  /\ pc[w] \in Executing
  /\ now < deadline[w]
  /\ Owns(w)
  /\ leaseExpires' = [leaseExpires EXCEPT ![JobOf(w)] = now + Lease]
  /\ UNCHANGED <<now, message, jobStatus, attemptCount, leaseOwner,
                 availableAt, runStatus, runFailure, attemptRow, reports,
                 pc, claim, outcome>>

\* The renewal updates no row: LeaseLostError cancels the processor.
LeaseLost(w) ==
  /\ pc[w] \in Executing
  /\ now < deadline[w]
  /\ ~Owns(w)
  /\ AnswerWith(w, "NACK")
  /\ UNCHANGED <<now, message, database, reports, claim>>

\* The processor commits a report, in a transaction that tests neither the
\* lease nor the attempt.  A FAILED report carries a failure code; without one
\* _settle_success falls back on INTERNAL_ERROR.
PersistReport(w, status, code) ==
  /\ pc[w] = "processing"
  /\ report' = [report EXCEPT ![JobOf(w)][attempt[w]] = status]
  /\ newestReport' = [newestReport EXCEPT ![JobOf(w)] = attempt[w]]
  /\ pc' = [pc EXCEPT ![w] = "reported"]
  /\ outcome' = [outcome EXCEPT ![w] = IF status = "FAILED" THEN code
                                                             ELSE status]
  /\ UNCHANGED <<now, message, database, claim>>

ProcessorReturns(w) ==
  /\ pc[w] = "reported"
  /\ now < deadline[w]
  /\ pc' = [pc EXCEPT ![w] = "settleSuccess"]
  /\ UNCHANGED <<now, message, database, reports, claim, outcome>>

\* The processor, or the renewal's database call, raises: possibly after the
\* report is committed.
ProcessorRaises(w, code) ==
  /\ pc[w] \in Executing
  /\ now < deadline[w]
  /\ pc' = [pc EXCEPT ![w] = "settleFailure"]
  /\ outcome' = [outcome EXCEPT ![w] = code]
  /\ UNCHANGED <<now, message, database, reports, claim>>

\* Nothing is done in time, or what is done is found out late: a processor
\* that has already returned its result loses it.
DeadlineExceeded(w) ==
  /\ pc[w] \in Executing
  /\ now >= deadline[w]
  /\ pc' = [pc EXCEPT ![w] = "settleFailure"]
  /\ outcome' = [outcome EXCEPT ![w] = "DEADLINE_EXCEEDED"]
  /\ UNCHANGED <<now, message, database, reports, claim>>

-----------------------------------------------------------------------------
(* Settling and answering *)

\* Faulty variant: a partial report fails the run of a succeeded job.
RunStatusOf_PartialFails(result) ==
  IF result = "COMPLETE" THEN "SUCCEEDED" ELSE "FAILED"

RunStatusOf(result) ==
  CASE result = "COMPLETE" -> "SUCCEEDED"
    [] result = "PARTIAL"  -> "PARTIAL"
    [] OTHER               -> "FAILED"

\* One transaction closes job, run and attempt with these values.
Close(w, status, run, code) ==
  LET j == JobOf(w) IN
  /\ jobStatus' = [jobStatus EXCEPT ![j] = status]
  /\ leaseOwner' = [leaseOwner EXCEPT ![j] = NoWorker]
  /\ runStatus' = [runStatus EXCEPT ![j] = run]
  /\ runFailure' = [runFailure EXCEPT ![j] = IF status = "FAILED" THEN code
                                                                  ELSE "NONE"]
  /\ attemptRow' = [attemptRow EXCEPT ![j][attempt[w]] = code]

SettleSuccess(w) ==
  /\ pc[w] = "settleSuccess"
  /\ Owns(w)
  /\ IF outcome[w] \in FailureCode
       THEN Close(w, "FAILED", "FAILED", outcome[w])
       ELSE Close(w, "SUCCEEDED", RunStatusOf(outcome[w]), "OK")
  /\ AnswerWith(w, "ACK")
  /\ UNCHANGED <<now, message, attemptCount, leaseExpires, availableAt,
                 reports, claim>>

\* Only a transport failure before the last attempt is retried.
SettleFailure(w) ==
  LET j == JobOf(w)
      terminal == outcome[w] # "MCP_TRANSPORT" \/ attempt[w] >= MaxAttempts
  IN
  /\ pc[w] = "settleFailure"
  /\ Owns(w)
  /\ \/ /\ terminal
        /\ Close(w, "FAILED", "FAILED", outcome[w])
        /\ AnswerWith(w, "ACK")
        /\ UNCHANGED availableAt
     \/ /\ ~terminal
        /\ Close(w, "QUEUED", "QUEUED", outcome[w])
        /\ AnswerWith(w, "NACK")
        /\ availableAt' = [availableAt EXCEPT ![j] = now + Backoff]
  /\ UNCHANGED <<now, message, attemptCount, leaseExpires, reports, claim>>

\* The settling UPDATE matches no row: another worker has the job, or it is
\* terminal already.
SettlementRefused(w) ==
  /\ pc[w] \in Settling
  /\ ~Owns(w)
  /\ AnswerWith(w, "NACK")
  /\ UNCHANGED <<now, message, database, reports, claim>>

\* The handler forgets everything it knew of its delivery.
Forget(w) ==
  /\ pc' = [pc EXCEPT ![w] = "idle"]
  /\ delivery' = [delivery EXCEPT ![w] = NoMessage]
  /\ attempt' = [attempt EXCEPT ![w] = 0]
  /\ deadline' = [deadline EXCEPT ![w] = 0]
  /\ outcome' = [outcome EXCEPT ![w] = "NONE"]

\* acknowledge, or modify_ack_deadline 0 which makes m deliverable at once.
Reply(w) ==
  /\ pc[w] = "reply"
  /\ message' = IF outcome[w] = "ACK"
                  THEN [message EXCEPT ![delivery[w]] = "acked"]
                  ELSE message
  /\ Forget(w)
  /\ UNCHANGED <<now, database, reports>>

\* The process dies, or an exception of the database or of Pub/Sub ends it, or
\* its acknowledgement is lost; the container restarts.  Dying before a NACK
\* is the NACK.
Crash(w) ==
  /\ pc[w] # "idle"
  /\ ~(pc[w] = "reply" /\ outcome[w] = "NACK")
  /\ Forget(w)
  /\ UNCHANGED <<now, message, database, reports>>

-----------------------------------------------------------------------------
Process(w) ==
  \/ \E status \in {"COMPLETE", "PARTIAL"} : PersistReport(w, status, "NONE")
  \/ \E code \in {"MCP_TRANSPORT", "ANALYSIS_FAILED", "INTERNAL_ERROR"} :
       PersistReport(w, "FAILED", code)
  \/ ProcessorReturns(w)
  \/ \E code \in RaisedCode : ProcessorRaises(w, code)
  \/ DeadlineExceeded(w)
  \/ LeaseLost(w)

Handle(w) ==
  \/ Claim(w)
  \/ ClaimRefused(w)
  \/ UnclaimedDisposition(w)
  \/ MarkUnclaimedTerminal(w)
  \/ Process(w)
  \/ SettleSuccess(w)
  \/ SettleFailure(w)
  \/ SettlementRefused(w)
  \/ Reply(w)

Next ==
  \/ Tick
  \/ \E m \in Message : Publish(m)
  \/ \E w \in Worker :
       \/ \E m \in Message : Pull(w, m)
       \/ Handle(w)
       \/ RenewLease(w)
       \/ Crash(w)

Spec == Init /\ [][Next]_vars

\* The clock advances, a worker that is not killed finishes what it handles,
\* Pub/Sub keeps redelivering what is not acknowledged, and crashes (lost
\* acknowledgements included) stop at some point.
Fairness ==
  /\ WF_vars(Tick)
  /\ \A w \in Worker : WF_vars(Handle(w))
  /\ \A m \in Message : SF_vars(\E w \in Worker : Pull(w, m))
  /\ <>[][\A w \in Worker : ~Crash(w)]_vars

FairSpec == Spec /\ Fairness
-----------------------------------------------------------------------------
(* Properties *)

Outcome == {"NONE", "ACK", "NACK", "COMPLETE", "PARTIAL"} \cup FailureCode

DatabaseTypeOK ==
  /\ jobStatus \in [Job -> JobStatus]
  /\ attemptCount \in [Job -> 0 .. MaxAttempts]
  /\ leaseOwner \in [Job -> Worker \cup {NoWorker}]
  /\ leaseExpires \in [Job -> Nat]
  /\ availableAt \in [Job -> Nat]
  /\ runStatus \in [Job -> RunStatus]
  /\ runFailure \in [Job -> {"NONE"} \cup FailureCode]
  /\ attemptRow \in [Job -> [Attempt -> {"NO_ROW", "OPEN", "OK"} \cup FailureCode]]

ReportsTypeOK ==
  /\ report \in [Job -> [Attempt -> {"NONE"} \cup ReportStatus]]
  /\ newestReport \in [Job -> 0 .. MaxAttempts]

WorkerTypeOK ==
  /\ pc \in [Worker -> Stage]
  /\ delivery \in [Worker -> Message \cup {NoMessage}]
  /\ attempt \in [Worker -> 0 .. MaxAttempts]
  /\ deadline \in [Worker -> Nat]
  /\ outcome \in [Worker -> Outcome]

\* The columns hold what their CHECK constraints allow, in particular at most
\* MaxAttempts attempts, and a worker carries what its stage needs.
TypeOK ==
  /\ now \in Nat
  /\ message \in [Message -> {"unpublished", "unacked", "acked"}]
  /\ DatabaseTypeOK
  /\ ReportsTypeOK
  /\ WorkerTypeOK

\* A message is acknowledged only after the terminal commit of the job it
\* names ("ack only after the terminal DB commit", rca-worker/README.md), so
\* no crash or lost update leaves a job without a delivery to finish it.
AckedJobsSettled ==
  \A m \in Message :
    message[m] = "acked" /\ MessageJob[m] # NoJob => Settled(MessageJob[m])

\* The fence of _settle_success and _settle_failure compares the owner only,
\* not the attempt.  It is enough: while the lease of j names w, an attempt
\* of w at j is the newest one, whatever expired, crashed or was taken over.
OwnerRunsNewestAttempt ==
  \A w \in Worker :
    pc[w] \in Executing \cup Settling /\ leaseOwner[JobOf(w)] = w
      => attempt[w] = attemptCount[JobOf(w)]

\* An attempt that another one superseded was either abandoned (its row stays
\* open) or closed for a retry: a stale worker never settles the job.
SupersededAttemptsNeverSettle ==
  \A j \in Job, n \in Attempt :
    n < attemptCount[j] => attemptRow[j][n] \in {"OPEN", "MCP_TRANSPORT"}

\* A run is shown as SUCCEEDED or PARTIAL only over a report of that very
\* status written by the attempt that settled it, though report and
\* settlement are separate transactions and only the second is fenced.
SuccessHasItsReport ==
  \A j \in Job :
    jobStatus[j] = "SUCCEEDED" =>
      /\ attemptRow[j][attemptCount[j]] = "OK"
      /\ runStatus[j] = RunStatusOf(report[j][attemptCount[j]])

\* Once a job is terminal no late worker, duplicate delivery or stale read of
\* _unclaimed_disposition changes its rows: status, run, failure code, lease
\* and attempts are final.
SettledJobIsFrozen ==
  [][\A j \in Job : Settled(j) =>
       /\ jobStatus'[j] = jobStatus[j]
       /\ runStatus'[j] = runStatus[j]
       /\ runFailure'[j] = runFailure[j]
       /\ leaseOwner'[j] = leaseOwner[j]
       /\ attemptCount'[j] = attemptCount[j]
       /\ attemptRow'[j] = attemptRow[j]]_vars

\* Every published message is acknowledged in the end: with AckedJobsSettled,
\* every job that was published reaches a terminal state, across crashes,
\* lost leases, retries and backoff.
MessagesDrain ==
  \A m \in Message : message[m] = "unacked" ~> message[m] = "acked"

-----------------------------------------------------------------------------
(* The inductive invariant behind these properties *)

Busy == Executing \cup Settling

\* A job has an owner exactly while it runs, and a queued job has an attempt
\* left.
LeaseInv ==
  \A j \in Job :
    /\ leaseOwner[j] # NoWorker <=> jobStatus[j] = "RUNNING"
    /\ jobStatus[j] = "QUEUED" => attemptCount[j] < MaxAttempts

\* What a worker carries at each stage.
Carries(w) ==
  /\ pc[w] # "idle" => delivery[w] \in Message
  /\ pc[w] \in Busy \cup {"expire"} => JobOf(w) \in Job
  /\ pc[w] \in Busy => attempt[w] \in 1 .. attemptCount[JobOf(w)]
  /\ pc[w] \in {"reported", "settleSuccess"}
       => outcome[w] \in {"COMPLETE", "PARTIAL"} \cup FailureCode
  /\ pc[w] \in {"settleFailure", "expire"} => outcome[w] \in FailureCode
  /\ pc[w] = "reply" => outcome[w] \in {"ACK", "NACK"}

StageInv == \A w \in Worker : Carries(w)

\* A worker answers ACK for a job only when that job is terminal.
AnswerInv ==
  \A w \in Worker :
    pc[w] = "reply" /\ outcome[w] = "ACK" /\ JobOf(w) # NoJob
      => Settled(JobOf(w))

\* Two workers never run the same attempt, and nobody runs the attempt that
\* made its job succeed.
AttemptInv ==
  /\ \A v, w \in Worker :
       /\ pc[v] \in Busy /\ pc[w] \in Busy
       /\ JobOf(v) = JobOf(w) /\ attempt[v] = attempt[w]
       => v = w
  /\ \A w \in Worker :
       /\ pc[w] \in Busy
       /\ jobStatus[JobOf(w)] = "SUCCEEDED"
       => attempt[w] # attemptCount[JobOf(w)]

\* The newest attempt row of a job that is not terminal is open while the job
\* runs and closed for a retry when it is back in the queue.
RowInv ==
  \A j \in Job :
    /\ jobStatus[j] \in {"RUNNING", "SUCCEEDED"} => attemptCount[j] > 0
    /\ jobStatus[j] = "RUNNING" => attemptRow[j][attemptCount[j]] = "OPEN"
    /\ jobStatus[j] = "QUEUED" /\ attemptCount[j] > 0 =>
         attemptRow[j][attemptCount[j]] = "MCP_TRANSPORT"

\* A worker about to settle a success carries the status of its own report.
ReportInv ==
  \A w \in Worker :
    /\ pc[w] \in {"reported", "settleSuccess"}
    /\ outcome[w] \in {"COMPLETE", "PARTIAL"}
    => report[JobOf(w)][attempt[w]] = outcome[w]

IInv ==
  /\ TypeOK
  /\ LeaseInv
  /\ StageInv
  /\ AnswerInv
  /\ AckedJobsSettled
  /\ OwnerRunsNewestAttempt
  /\ AttemptInv
  /\ RowInv
  /\ SupersededAttemptsNeverSettle
  /\ ReportInv
  /\ SuccessHasItsReport

-----------------------------------------------------------------------------
(* Refinement: forget the workers and the leases *)

Contract == INSTANCE RcaJobContract WITH
  job <- jobStatus, run <- runStatus, tries <- attemptCount,
  acked <- {m \in Message : message[m] = "acked"}

\* The life cycle implements its contract: bounded attempts, one end, job and
\* run in step, acknowledgement after the end.
ImplementsContract == Contract!CSpec

-----------------------------------------------------------------------------
(* What documents of the repository say, and the code does not do *)

\* A redelivery of a job that a worker is executing under a live lease leaves
\* the execution alone: before the deadline only its owner settles the job.
\* (runtime simplification design, 5.2: the durable claim rules "must safely
\* absorb duplicate delivery".)
DuplicateSparesLiveAttempt ==
  [][\A j \in Job, w \in Worker :
       /\ leaseOwner[j] = w /\ leaseExpires[j] >= now
       /\ pc[w] \in Executing /\ now < deadline[w]
       => jobStatus'[j] = "RUNNING"]_vars
=============================================================================
