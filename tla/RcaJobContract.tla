--------------------------- MODULE RcaJobContract ---------------------------
(***************************************************************************)
(* What the job life cycle promises to the rest of the system, without     *)
(* workers, leases, clocks or reports: a job is tried a bounded number of  *)
(* times, ends once, its run always tells the same story as the job, and a *)
(* message is acknowledged only when its job has ended (or when it names   *)
(* none).  RcaJobs implements it.                                          *)
(***************************************************************************)
EXTENDS Integers

CONSTANTS Job, Message, MessageJob, NoJob, MaxAttempts

VARIABLES
  job,     \* job[j]: status of the job
  run,     \* run[j]: status of its run
  tries,   \* tries[j]: attempts started so far
  acked    \* the messages Pub/Sub will not deliver any more

contract == <<job, run, tries, acked>>

Ended(j) == job[j] \in {"SUCCEEDED", "FAILED"}

CInit ==
  /\ job = [j \in Job |-> "QUEUED"]
  /\ run = [j \in Job |-> "QUEUED"]
  /\ tries = [j \in Job |-> 0]
  /\ acked = {}

\* A first attempt, a retry, or the takeover of an abandoned attempt.
Try(j) ==
  /\ job[j] \in {"QUEUED", "RUNNING"}
  /\ tries[j] < MaxAttempts
  /\ job' = [job EXCEPT ![j] = "RUNNING"]
  /\ run' = [run EXCEPT ![j] = "RUNNING"]
  /\ tries' = [tries EXCEPT ![j] = @ + 1]
  /\ UNCHANGED acked

\* Going back to the queue leaves an attempt to come.
Requeue(j) ==
  /\ job[j] = "RUNNING"
  /\ tries[j] < MaxAttempts
  /\ job' = [job EXCEPT ![j] = "QUEUED"]
  /\ run' = [run EXCEPT ![j] = "QUEUED"]
  /\ UNCHANGED <<tries, acked>>

Succeed(j) ==
  /\ job[j] = "RUNNING"
  /\ job' = [job EXCEPT ![j] = "SUCCEEDED"]
  /\ \E r \in {"SUCCEEDED", "PARTIAL"} : run' = [run EXCEPT ![j] = r]
  /\ UNCHANGED <<tries, acked>>

\* Also from the queue: a job nobody claimed in time.
Fail(j) ==
  /\ ~Ended(j)
  /\ job' = [job EXCEPT ![j] = "FAILED"]
  /\ run' = [run EXCEPT ![j] = "FAILED"]
  /\ UNCHANGED <<tries, acked>>

Ack(m) ==
  /\ MessageJob[m] # NoJob => Ended(MessageJob[m])
  /\ acked' = acked \cup {m}
  /\ UNCHANGED <<job, run, tries>>

CNext ==
  \/ \E j \in Job : Try(j) \/ Requeue(j) \/ Succeed(j) \/ Fail(j)
  \/ \E m \in Message : Ack(m)

CSpec == CInit /\ [][CNext]_contract
=============================================================================
