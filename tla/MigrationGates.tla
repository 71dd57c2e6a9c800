---------------------------- MODULE MigrationGates ----------------------------
(***************************************************************************)
(* The database migrations of a release: the two Alembic streams of the     *)
(* Backend and of the RCA worker over one PostgreSQL schema, and the runner *)
(* (deploy/k8s/run-migrations.sh) that interleaves them in four gates.      *)
(*                                                                         *)
(* A job is one transaction that reads its stamp, checks and alters the     *)
(* catalog and moves the stamp.  The runner stops waiting for a job that    *)
(* takes too long, but nothing proves the job gone: jobs of a first and a   *)
(* second rollout, and a downgrade by hand, overlap.  What keeps them apart *)
(* is the relation locks their statements take, the WHERE clause of the     *)
(* stamp's UPDATE, and the rule that no writer runs until the last gate.    *)
(***************************************************************************)
EXTENDS Integers, FiniteSets

CONSTANTS
  Nobody,         \* no job
  Job,            \* slots for migration jobs that may be alive at once
  MaxRows,        \* bound: rows the runtimes write
  MaxFaults,      \* bound: jobs that die and waits that run out
  MaxDowngrades   \* bound: downgrades an operator starts by hand

ASSUME GateAssumption ==
  /\ IsFiniteSet(Job)
  /\ Nobody \notin Job
  /\ MaxRows \in Nat
  /\ MaxFaults \in Nat
  /\ MaxDowngrades \in Nat

Side     == {"backend", "worker"}
NoTable  == -1     \* the version table does not exist
NoLegacy == 0

VARIABLES
  legacy,      \* revision in the shared alembic_version of old releases
  stamp,       \* stamp[s]: committed revision of a stream, 0 for base
  catalog,     \* what the committed schema has
  rows,        \* rows that the canonical tables hold
  gate,        \* gate of the rollout: 0 none, 1..4, 5 all passed
  gateJob,     \* job the runner waits for
  runtime,     \* which release runs: old, new or none
  faults,
  downgrades,
  pc,          \* pc[j]: where job j is
  task,        \* task[j]: stream, target and direction
  from,        \* from[j]: stamp it read when it began
  at,          \* at[j]: stamp in its own view
  adds,        \* adds[j], drops[j]: its uncommitted changes of the catalog
  drops,
  copied,      \* rows it has copied to the ordinary tables
  shared,      \* shared[j]: what it has read and must not change under it
  owned        \* owned[j]: what it alone may touch

database == <<legacy, stamp, catalog, rows>>
runner   == <<gate, gateJob, runtime>>
work     == <<at, adds, drops, copied>>
locks    == <<shared, owned>>
vars     == <<database, runner, faults, downgrades, pc, task, from, work, locks>>

-----------------------------------------------------------------------------
(***************************************************************************)
(* The revisions.  A feature is a part of the schema that the checks tell   *)
(* apart; "tables" are the locks of the tables a revision touches.          *)
(***************************************************************************)
Features == {"base", "normalization", "lifecycle", "analysis", "ordinary",
             "wideBackend", "wideWorker"}
Converted == Features \ {"wideBackend", "wideWorker"}
Objects  == {"alerts", "runs", "versionBackend", "versionWorker",
             "rowBackend", "rowWorker"}

Version(s) == IF s = "backend" THEN "versionBackend" ELSE "versionWorker"
Row(s)     == IF s = "backend" THEN "rowBackend" ELSE "rowWorker"

Backend0001 == [length |-> 26, needs |-> {}, forbids |-> {"base"},
                creates |-> {"base"}, tables |-> {"alerts"}]
Backend0002 == [length |-> 29, needs |-> {"base"}, forbids |-> {"normalization"},
                creates |-> {"normalization"}, tables |-> {"alerts"}]
Backend0003 == [length |-> 33, needs |-> {"base", "normalization", "lifecycle"},
                forbids |-> {"ordinary"},
                creates |-> {"ordinary"}, tables |-> {"alerts", "runs"}]
Worker0001  == [length |-> 18, needs |-> {"base"}, forbids |-> {"lifecycle"},
                creates |-> {"lifecycle"}, tables |-> {"runs"}]
Worker0002  == [length |-> 28, needs |-> {"base", "lifecycle"},
                forbids |-> {"analysis"},
                creates |-> {"analysis"}, tables |-> {"runs"}]
Worker0003  == [length |-> 37, needs |-> {}, forbids |-> {},
                creates |-> {"wideWorker"}, tables |-> {Version("worker")}]

Upgrade == [backend |-> <<Backend0001, Backend0002, Backend0003>>,
            worker  |-> <<Worker0001, Worker0002, Worker0003>>]

\* The first revision drops every table, with the columns the worker added.
UndoBackend0001 == [needs |-> {"base"}, drops |-> {"base", "lifecycle", "analysis"},
                    tables |-> {"alerts", "runs"}]
UndoBackend0002 == [needs |-> {"normalization"}, drops |-> {"normalization"},
                    tables |-> {"alerts"}]
UndoWorker0001  == [needs |-> {"lifecycle"}, drops |-> {"lifecycle"},
                    tables |-> {"runs"}]
UndoWorker0002  == [needs |-> {"analysis"}, drops |-> {"analysis"},
                    tables |-> {"runs"}]

\* The third revisions have no downgrade: they raise.
Downgrade == [backend |-> <<UndoBackend0001, UndoBackend0002>>,
              worker  |-> <<UndoWorker0001, UndoWorker0002>>]
Undoable == 1..2

-----------------------------------------------------------------------------
Stages == {"check", "widen", "copy", "count", "apply", "stamp", "commit"}
Ended  == {"none", "complete", "failed"}
Task   == [side : Side, target : 0..3, up : BOOLEAN]
NoTask == [side |-> "backend", target |-> 0, up |-> TRUE]

(***************************************************************************)
(* A fresh database; one of an old release whose revision is in the shared  *)
(* table, alone, beside an equal or beside another one; one that an old     *)
(* release with separate tables left.                                       *)
(***************************************************************************)
SchemaOf(b, w) ==
  (IF b >= 1 THEN {"base"} ELSE {}) \cup (IF b >= 2 THEN {"normalization"} ELSE {})
    \cup (IF w >= 1 THEN {"lifecycle"} ELSE {}) \cup (IF w >= 2 THEN {"analysis"} ELSE {})

Deployed == [legacy : {NoLegacy}, backend : {NoTable}, worker : {NoTable}]
  \cup [legacy : 1..2, backend : {NoTable} \cup 1..2, worker : {NoTable}]
  \cup [legacy : {NoLegacy}, backend : {2}, worker : {NoTable} \cup 1..2]

Init ==
  /\ \E d \in Deployed :
       /\ legacy = d.legacy
       /\ stamp = [s \in Side |-> IF s = "backend" THEN d.backend ELSE d.worker]
       /\ catalog = SchemaOf(IF d.legacy > d.backend THEN d.legacy ELSE d.backend,
                             d.worker)
       /\ runtime \in IF d.worker >= 1 THEN {"old", "none"} ELSE {"none"}
  /\ rows = 0
  /\ gate = 0 /\ gateJob = Nobody
  /\ faults = 0 /\ downgrades = 0
  /\ pc     = [j \in Job |-> "none"]
  /\ task   = [j \in Job |-> NoTask]
  /\ from   = [j \in Job |-> 0]
  /\ at     = [j \in Job |-> 0]
  /\ adds   = [j \in Job |-> {}]
  /\ drops  = [j \in Job |-> {}]
  /\ copied = [j \in Job |-> 0]
  /\ shared = [j \in Job |-> {}]
  /\ owned  = [j \in Job |-> {}]

-----------------------------------------------------------------------------
(***************************************************************************)
(* Locks.  A statement waits while another transaction holds a lock that    *)
(* conflicts with the ones it takes; all are kept until the job ends.       *)
(***************************************************************************)
InHand(j) == IF task[j].up THEN at[j] + 1 ELSE at[j]   \* revision in hand
Up(j)    == Upgrade[task[j].side][InHand(j)]
Undo(j)  == Downgrade[task[j].side][InHand(j)]
Seen(j)  == (catalog \cup adds[j]) \ drops[j]

ConsultsVersions(j) ==
  CASE task[j].side = "worker" /\ InHand(j) = 1 -> {Version("backend")}
    [] InHand(j) = 3 -> {Version("backend"), Version("worker")}
    [] OTHER -> {}

Reads_NoSnapshot(j) ==
  CASE pc[j] = "begin" -> {Version(task[j].side)}
    [] pc[j] = "check" -> ConsultsVersions(j)
    [] OTHER -> {}

Reads(j) ==
  CASE pc[j] = "begin" -> {Version(task[j].side)}
    [] pc[j] = "check" -> ConsultsVersions(j)
    [] pc[j] = "copy"  -> {"alerts", "runs"}
    [] OTHER -> {}

Writes(j) ==
  CASE pc[j] = "begin" -> IF stamp[task[j].side] = NoTable THEN {Version(task[j].side)} ELSE {}
    [] pc[j] = "widen" -> {Version("backend")}
    [] pc[j] = "apply" -> IF task[j].up THEN Up(j).tables
                          ELSE IF InHand(j) \in Undoable THEN Undo(j).tables ELSE {}
    [] pc[j] = "stamp" -> {Row(task[j].side)}
    [] OTHER -> {}

Blockers(j) ==
  {k \in Job \ {j} : \/ owned[k] \cap (Reads(j) \cup Writes(j)) # {}
                     \/ shared[k] \cap Writes(j) # {}}

Circle(js) == js # {} /\ \A k \in js : Blockers(k) \cap js # {}

Take(j) ==
  /\ Blockers(j) = {}
  /\ shared' = [shared EXCEPT ![j] = @ \cup Reads(j)]
  /\ owned'  = [owned EXCEPT ![j] = @ \cup Writes(j)]

Release(j) ==
  /\ shared' = [shared EXCEPT ![j] = {}]
  /\ owned'  = [owned EXCEPT ![j] = {}]
  /\ at'     = [at EXCEPT ![j] = 0]
  /\ adds'   = [adds EXCEPT ![j] = {}]
  /\ drops'  = [drops EXCEPT ![j] = {}]
  /\ copied' = [copied EXCEPT ![j] = 0]
  /\ from'   = [from EXCEPT ![j] = 0]
  /\ task'   = [task EXCEPT ![j] = NoTask]

\* Only the runner looks at how a job ended; the slot of any other is free.
Told(j, end) == IF j = gateJob THEN end ELSE "none"

\* The transaction is rolled back and the container ends with an error.
Fail(j) ==
  /\ Release(j)
  /\ pc' = [pc EXCEPT ![j] = Told(j, "failed")]
  /\ UNCHANGED <<database, runner, downgrades>>

-----------------------------------------------------------------------------
(***************************************************************************)
(* What the revisions demand before they alter anything.                    *)
(***************************************************************************)
BackendHead == stamp["backend"] = 2

\* What changes the columns of the baseline.
PastBaseline == {"lifecycle", "analysis", "ordinary"}

LegacyBaseline(j) == "base" \in Seen(j) /\ Seen(j) \cap PastBaseline = {}

WorkerSource(j) ==
  /\ stamp["worker"] = 2
  /\ {"lifecycle", "analysis"} \subseteq Seen(j)

ConvertedBackend == stamp["backend"] = 3
OrdinaryTables(j) == "ordinary" \in Seen(j)
WorkerSchema(j) == {"lifecycle", "analysis"} \subseteq Seen(j)

CheckPasses(j) ==
  CASE task[j].side = "worker" /\ InHand(j) = 1 -> BackendHead /\ LegacyBaseline(j)
    [] task[j].side = "backend" /\ InHand(j) = 3 -> WorkerSource(j)
    [] task[j].side = "worker" /\ InHand(j) = 3 ->
         ConvertedBackend /\ OrdinaryTables(j) /\ WorkerSchema(j)
    [] OTHER -> TRUE

\* Statements fail on what is missing and on what is there already.
Applies(j) ==
  IF task[j].up
  THEN Up(j).needs \subseteq Seen(j) /\ Up(j).forbids \cap Seen(j) = {}
  ELSE InHand(j) \in Undoable /\ Undo(j).needs \subseteq Seen(j)

StampMatches_Blind(j) == TRUE

\* UPDATE ... WHERE version_num = the revision that was read: one row or an error.
StampMatches(j) == stamp[task[j].side] = from[j]

\* The column is VARCHAR(32) until a revision widens it.
StampFits(j) ==
  \/ ~task[j].up
  \/ Up(j).length <= 32
  \/ (IF task[j].side = "backend" THEN "wideBackend" ELSE "wideWorker") \in Seen(j)

Stamped(s) == IF stamp[s] = NoTable THEN 0 ELSE stamp[s]

\* The statement in hand succeeds; otherwise it raises.
Succeeds(j) ==
  CASE pc[j] = "begin" -> task[j].up \/ task[j].target <= Stamped(task[j].side)
    [] pc[j] = "check" -> CheckPasses(j)
    [] pc[j] = "copy"  -> Up(j).needs \subseteq Seen(j)
    [] pc[j] = "count" -> copied[j] = rows
    [] pc[j] = "apply" -> Applies(j)
    [] pc[j] = "stamp" -> StampMatches(j) /\ StampFits(j)
    [] OTHER -> TRUE

-----------------------------------------------------------------------------
(***************************************************************************)
(* One job: alembic upgrade or downgrade, in the transaction of env.py.     *)
(***************************************************************************)
Goto(j, stage) == pc' = [pc EXCEPT ![j] = stage]

\* Where a job is that has reached revision a: upgrades of the first worker
\* revision and of the third ones begin with their checks.
StageAt(t, a) ==
  IF a = t.target \/ (t.up /\ a > t.target) THEN "commit"
  ELSE IF t.up /\ (a = 2 \/ (a = 0 /\ t.side = "worker")) THEN "check" ELSE "apply"

StageAfter(j) ==
  CASE pc[j] = "check" -> IF task[j].side = "backend" THEN "widen" ELSE "apply"
    [] pc[j] = "widen" -> "copy"
    [] pc[j] = "copy"  -> "count"
    [] pc[j] = "count" -> "apply"
    [] pc[j] = "apply" -> "stamp"

\* reconcile_backend_version_tables, committed on its own before the rest.
Adopts == legacy # NoLegacy /\ stamp["backend"] \in {NoTable, legacy}
Reconcile(j) ==
  /\ pc[j] = "reconcile"
  /\ legacy = NoLegacy \/ Adopts
  /\ stamp'  = IF Adopts THEN [stamp EXCEPT !["backend"] = legacy] ELSE stamp
  /\ legacy' = NoLegacy
  /\ Goto(j, "begin")
  /\ UNCHANGED <<catalog, rows, runner, faults, downgrades, task, from,
                 work, locks>>

Conflicts(j) ==
  /\ pc[j] = "reconcile"
  /\ legacy # NoLegacy /\ ~Adopts
  /\ Fail(j)
  /\ UNCHANGED faults

\* Reads the stamp, and creates the version table where there is none.
Begin(j) ==
  /\ pc[j] = "begin" /\ Succeeds(j)
  /\ Take(j)
  /\ from' = [from EXCEPT ![j] = stamp[task[j].side]]
  /\ at'   = [at EXCEPT ![j] = Stamped(task[j].side)]
  /\ Goto(j, StageAt(task[j], Stamped(task[j].side)))
  /\ UNCHANGED <<database, runner, faults, downgrades, task, adds, drops, copied>>

Creates_Narrow(j) ==
  IF pc[j] = "apply" /\ task[j].up THEN Up(j).creates ELSE {}

\* A statement of the revision in hand other than the one on the stamp.
Creates(j) ==
  CASE pc[j] = "widen" -> {"wideBackend"}
    [] pc[j] = "apply" /\ task[j].up -> Up(j).creates
    [] OTHER -> {}

Execute(j) ==
  /\ pc[j] \in {"check", "widen", "copy", "count", "apply"} /\ Succeeds(j)
  /\ Take(j)
  /\ adds'   = [adds EXCEPT ![j] = @ \cup Creates(j)]
  /\ drops'  = IF pc[j] = "apply" /\ ~task[j].up
               THEN [drops EXCEPT ![j] = @ \cup Undo(j).drops] ELSE drops
  /\ copied' = IF pc[j] = "copy" THEN [copied EXCEPT ![j] = rows] ELSE copied
  /\ Goto(j, StageAfter(j))
  /\ UNCHANGED <<database, runner, faults, downgrades, task, from, at>>

Stamp(j) ==
  /\ pc[j] = "stamp" /\ Succeeds(j)
  /\ Take(j)
  /\ LET a == IF task[j].up THEN at[j] + 1 ELSE at[j] - 1
     IN  /\ at' = [at EXCEPT ![j] = a]
         /\ Goto(j, StageAt(task[j], a))
  /\ UNCHANGED <<database, runner, faults, downgrades, task, from, adds, drops, copied>>

Refused(j) ==
  /\ pc[j] \in {"begin"} \cup Stages /\ ~Succeeds(j)
  /\ Blockers(j) = {}
  /\ Fail(j)
  /\ UNCHANGED faults

\* Transactions that wait for each other: PostgreSQL cancels one of them.
DeadlockVictim(j) ==
  /\ \E js \in SUBSET Job :
       /\ j \in js /\ Circle(js)
       /\ \A some \in SUBSET js : Circle(some) => some = js
  /\ Fail(j)
  /\ UNCHANGED faults

MovesStamp(j) == Row(task[j].side) \in owned[j] \/ from[j] = NoTable
Contents(j) ==
  IF "base" \in drops[j] THEN 0 ELSE IF "ordinary" \in adds[j] THEN copied[j] ELSE rows

Commit(j) ==
  /\ pc[j] = "commit"
  /\ stamp' = IF MovesStamp(j) THEN [stamp EXCEPT ![task[j].side] = at[j]] ELSE stamp
  /\ catalog' = Seen(j)
  /\ rows' = Contents(j)
  /\ Release(j)
  /\ Goto(j, Told(j, "complete"))
  /\ UNCHANGED <<legacy, runner, faults, downgrades>>

JobStep(j) ==
  \/ Reconcile(j) \/ Conflicts(j) \/ Begin(j) \/ Execute(j) \/ Stamp(j)
  \/ Refused(j) \/ DeadlockVictim(j) \/ Commit(j)

\* The pod is evicted, loses its connection or meets its active deadline.
Die(j) ==
  /\ pc[j] \in {"reconcile", "begin"} \cup Stages
  /\ faults < MaxFaults
  /\ faults' = faults + 1
  /\ Fail(j)

\* It dies after the commit, so that a job that did its work is a failed one.
DieCommitted(j) ==
  /\ pc[j] = "complete"
  /\ faults < MaxFaults
  /\ faults' = faults + 1
  /\ Goto(j, "failed")
  /\ UNCHANGED <<database, runner, downgrades, task, from, work, locks>>

-----------------------------------------------------------------------------
(***************************************************************************)
(* run-migrations.sh and the operator who runs it.                          *)
(***************************************************************************)
GateTask == <<[side |-> "backend", target |-> 2, up |-> TRUE],
              [side |-> "worker",  target |-> 2, up |-> TRUE],
              [side |-> "backend", target |-> 3, up |-> TRUE],
              [side |-> "worker",  target |-> 3, up |-> TRUE]>>

Start(j, t) ==
  /\ pc[j] = "none"
  /\ pc'   = [pc EXCEPT ![j] = IF t.side = "backend" THEN "reconcile" ELSE "begin"]
  /\ task' = [task EXCEPT ![j] = t]

StartRollout ==
  /\ gate = 0 /\ runtime = "none"
  /\ gate' = 1
  /\ UNCHANGED <<database, gateJob, runtime, faults, downgrades, pc, task, from,
                 work, locks>>

CreateJob(j) ==
  /\ gate \in 1..4 /\ gateJob = Nobody
  /\ Start(j, GateTask[gate])
  /\ gateJob' = j
  /\ UNCHANGED <<database, gate, runtime, faults, downgrades, from, work, locks>>

GatePasses_Regardless ==
  /\ gateJob # Nobody /\ pc[gateJob] \in {"complete", "failed"}
  /\ gate' = gate + 1
  /\ gateJob' = Nobody
  /\ Goto(gateJob, "none")
  /\ UNCHANGED <<database, runtime, faults, downgrades, task, from, work, locks>>

\* kubectl wait --for=condition=complete returns.
GatePasses ==
  /\ gateJob # Nobody /\ pc[gateJob] = "complete"
  /\ gate' = gate + 1
  /\ gateJob' = Nobody
  /\ Goto(gateJob, "none")
  /\ UNCHANGED <<database, runtime, faults, downgrades, task, from, work, locks>>

\* The wait runs out, for a job that failed or for one that still runs.
GateFails ==
  /\ gateJob # Nobody /\ pc[gateJob] # "complete"
  /\ IF pc[gateJob] = "failed"
     THEN Goto(gateJob, "none") /\ UNCHANGED faults
     ELSE faults < MaxFaults /\ faults' = faults + 1 /\ UNCHANGED pc
  /\ gate' = 0
  /\ gateJob' = Nobody
  /\ UNCHANGED <<database, runtime, downgrades, task, from, work, locks>>

StartRuntime_Early ==
  /\ gate \in {0, 5}
  /\ runtime' = "new"
  /\ gate' = 0
  /\ UNCHANGED <<database, gateJob, faults, downgrades, pc, task, from, work, locks>>

StartRuntime ==
  /\ gate = 5
  /\ runtime' = "new"
  /\ gate' = 0
  /\ UNCHANGED <<database, gateJob, faults, downgrades, pc, task, from, work, locks>>

StopRuntime ==
  /\ gate = 0 /\ runtime # "none"
  /\ runtime' = "none"
  /\ UNCHANGED <<database, gate, gateJob, faults, downgrades, pc, task, from, work,
                 locks>>

\* An operator runs alembic downgrade, with the runtimes stopped.
DowngradeByHand(j, s, target) ==
  /\ runtime = "none"
  /\ downgrades < MaxDowngrades
  /\ downgrades' = downgrades + 1
  /\ Start(j, [side |-> s, target |-> target, up |-> FALSE])
  /\ UNCHANGED <<database, runner, faults, from, work, locks>>

\* Backend or worker writes; it waits for a job that alters the tables.
Write ==
  /\ runtime # "none"
  /\ rows < MaxRows
  /\ \A j \in Job : "alerts" \notin owned[j]
  /\ rows' = rows + 1
  /\ UNCHANGED <<legacy, stamp, catalog, runner, faults, downgrades, pc, task, from,
                 work, locks>>

-----------------------------------------------------------------------------
RunnerStep == StartRollout \/ (\E j \in Job : CreateJob(j)) \/ GatePasses
                \/ StartRuntime \/ StopRuntime

Next ==
  \/ \E j \in Job : \/ JobStep(j) \/ Die(j) \/ DieCommitted(j)
                    \/ \E s \in Side, target \in 0..2 : DowngradeByHand(j, s, target)
  \/ RunnerStep \/ GateFails \/ Write

Spec == Init /\ [][Next]_vars

(***************************************************************************)
(* A job goes on while it lives, the runner goes on while its gates pass,   *)
(* and the operator runs it again after a gate that failed, as the runbook  *)
(* says.  Strong fairness for a job: its wait for a lock is a place in the   *)
(* queue of PostgreSQL, so jobs of later rollouts cannot pass it for ever.  *)
(* Nothing is assumed of waits that run out, of crashes, of writers  *)
(* and of downgrades by hand.                                               *)
(***************************************************************************)
Fairness ==
  /\ \A j \in Job : SF_vars(JobStep(j))
  /\ WF_vars(RunnerStep)
  /\ WF_vars(GateFails /\ UNCHANGED faults)

FairSpec == Spec /\ Fairness

-----------------------------------------------------------------------------
(***************************************************************************)
(* Properties.                                                              *)
(***************************************************************************)
TypeOK ==
  /\ legacy \in 0..2
  /\ stamp \in [Side -> -1..3]
  /\ catalog \in SUBSET Features
  /\ rows \in Nat
  /\ gate \in 0..5
  /\ gateJob \in Job \cup {Nobody}
  /\ runtime \in {"none", "old", "new"}
  /\ faults \in Nat
  /\ downgrades \in Nat
  /\ pc \in [Job -> {"reconcile", "begin"} \cup Stages \cup Ended]
  /\ task \in [Job -> Task]
  /\ from \in [Job -> -1..3]
  /\ at \in [Job -> 0..3]
  /\ adds \in [Job -> SUBSET Features]
  /\ drops \in [Job -> SUBSET Features]
  /\ copied \in [Job -> Nat]
  /\ shared \in [Job -> SUBSET Objects]
  /\ owned \in [Job -> SUBSET Objects]

\* The last stamp of the worker stream says that the whole schema is converted,
\* whatever downgrades and jobs of earlier rollouts ran beside the gates.
SealedMeansConverted ==
  stamp["worker"] = 3 => stamp["backend"] = 3 /\ Converted \subseteq catalog

(***************************************************************************)
(* Why these hold: an inductive invariant.                                  *)
(***************************************************************************)
\* Objects are owned alone.
LocksExclude ==
  \A j, k \in Job : j # k => owned[j] \cap (owned[k] \cup shared[k]) = {}

InTransaction(j) == pc[j] \in Stages
HasRow(j) == Row(task[j].side) \in owned[j]
Origin(j) == IF from[j] = NoTable THEN 0 ELSE from[j]

\* The revision whose statements are done, also when its stamp is not written.
Done(j) == IF pc[j] = "stamp" THEN (IF task[j].up THEN at[j] + 1 ELSE at[j] - 1)
           ELSE at[j]
Copying(j) == task[j].side = "backend" /\ task[j].up
                /\ \/ pc[j] \in {"count", "apply", "stamp"} /\ at[j] = 2
                   \/ at[j] = 3 /\ from[j] # 3

\* What the committed catalog says of the committed stamps.
StampsFitCatalog ==
  /\ "ordinary" \in catalog <=> stamp["backend"] = 3
  /\ stamp["backend"] = 3 => /\ {"base", "normalization"} \subseteq catalog
                             /\ stamp["worker"] >= 1 => "lifecycle" \in catalog
  /\ "lifecycle" \in catalog =>
       /\ stamp["worker"] >= 1
       /\ "analysis" \in catalog <=> stamp["worker"] >= 2
  /\ "analysis" \in catalog => "lifecycle" \in catalog
  /\ legacy # NoLegacy => stamp["backend"] # 3
  /\ stamp["worker"] = 3 => stamp["backend"] = 3

\* A job outside its transaction holds nothing.
IdleHoldsNothing ==
  \A j \in Job : ~InTransaction(j) =>
    /\ shared[j] = {} /\ owned[j] = {}
    /\ adds[j] = {} /\ drops[j] = {}

\* Past the reconciliation there is no shared revision left to adopt.
LegacyAdopted ==
  \A j \in Job : task[j].side = "backend" /\ pc[j] \in {"begin"} \cup Stages
                   => legacy = NoLegacy

\* A job in its transaction keeps its stream from being taken over by another.
JobHolds(j) ==
  /\ Version(task[j].side) \in shared[j]
  /\ from[j] = NoTable => Version(task[j].side) \in owned[j] /\ stamp[task[j].side] = NoTable
  /\ from[j] = 3 => stamp[task[j].side] = 3
  /\ task[j].side = "backend" /\ stamp["backend"] = 3 => from[j] = 3
  /\ HasRow(j) => from[j] # 3 /\ (stamp[task[j].side] = from[j] \/ from[j] = NoTable)
  /\ (adds[j] \cup drops[j]) \cap {"base", "normalization"} # {} => "alerts" \in owned[j]
  /\ (adds[j] \cup drops[j]) \cap {"lifecycle", "analysis"} # {} => "runs" \in owned[j]

\* Where it is.
Position(j) ==
  LET t == task[j]
  IN  /\ IF t.up THEN Origin(j) <= at[j] ELSE Done(j) <= Origin(j)
      /\ ~HasRow(j) => at[j] = Origin(j)
      /\ pc[j] = "commit" => at[j] = t.target \/ (t.up /\ at[j] > t.target)
      /\ pc[j] # "commit" => IF t.up THEN at[j] < t.target ELSE at[j] > t.target
      /\ pc[j] = "stamp" /\ ~t.up => at[j] # 3
      /\ pc[j] = "check" => t.up /\ (at[j] = 2 \/ (at[j] = 0 /\ t.side = "worker"))
      /\ pc[j] \in {"widen", "copy", "count"} => t.up /\ at[j] = 2 /\ t.side = "backend"

\* What it has changed on the way, by its direction and its stream.
Changes(j) ==
  /\ task[j].up => drops[j] = {}
  /\ ~task[j].up => adds[j] = {}
  /\ task[j].side = "worker" =>
       /\ {"base", "normalization", "ordinary"} \cap (adds[j] \cup drops[j]) = {}
       /\ "lifecycle" \in adds[j]  <=> task[j].up /\ Origin(j) < 1 /\ Done(j) >= 1
       /\ "analysis" \in adds[j]   <=> task[j].up /\ Origin(j) < 2 /\ Done(j) >= 2
       /\ "lifecycle" \in drops[j] <=> ~task[j].up /\ Origin(j) >= 1 /\ Done(j) < 1
       /\ "analysis" \in drops[j]  <=> ~task[j].up /\ Origin(j) >= 2 /\ Done(j) < 2
       /\ "lifecycle" \in adds[j] => "lifecycle" \notin catalog
       /\ "analysis" \in adds[j] => "lifecycle" \in Seen(j)
  /\ task[j].side = "backend" =>
       /\ {"lifecycle", "analysis"} \cap adds[j] = {}
       /\ "ordinary" \notin drops[j]
       /\ "ordinary" \in adds[j] <=> task[j].up /\ Origin(j) < 3 /\ Done(j) = 3
       /\ {"base", "normalization"} \cap drops[j] # {} => from[j] # 3
       /\ "base" \in drops[j] <=> "lifecycle" \in drops[j]
       /\ "base" \in drops[j] <=> "analysis" \in drops[j]

\* From its copy on, the conversion holds the tables it copies.
CopyIsCurrent(j) ==
  /\ pc[j] = "copy" => "versionBackend" \in owned[j]
  /\ Copying(j) =>
       /\ {"base", "normalization", "lifecycle"} \subseteq Seen(j)
       /\ {"alerts", "runs"} \subseteq shared[j]
       /\ "versionBackend" \in owned[j]
       /\ copied[j] = rows

\* The last check of the worker stream has passed.
CheckHolds(j) ==
  task[j].side = "worker" /\ task[j].up /\ from[j] # 3
    /\ (at[j] = 3 \/ (at[j] = 2 /\ pc[j] \in {"apply", "stamp"}))
  => stamp["backend"] = 3

JobInv(j) ==
  InTransaction(j) =>
    JobHolds(j) /\ Position(j) /\ Changes(j) /\ CopyIsCurrent(j) /\ CheckHolds(j)

RolloutFits ==
  /\ gate # 0 => runtime = "none"
  /\ gate \notin 1..4 => gateJob = Nobody
  /\ runtime = "old" => stamp["backend"] # 3 /\ \A j \in Job : pc[j] = "none"
  /\ gate = 5 \/ runtime = "new" => stamp["worker"] = 3
  /\ \A j \in Job : pc[j] \in {"complete", "failed"} => gateJob = j
  /\ gateJob # Nobody /\ gate = 4 =>
       /\ pc[gateJob] \notin Ended => task[gateJob] = GateTask[4]
       /\ pc[gateJob] = "complete" => stamp["worker"] = 3
       /\ pc[gateJob] # "none"

IInv ==
  /\ TypeOK
  /\ LocksExclude
  /\ StampsFitCatalog
  /\ IdleHoldsNothing
  /\ LegacyAdopted
  /\ \A j \in Job : JobInv(j)
  /\ RolloutFits

\* A new runtime never meets a schema that is not the one it was built for.
RuntimeHasItsSchema ==
  runtime = "new" => stamp["worker"] = 3 /\ Converted \subseteq catalog

Promise == INSTANCE ConversionPromise WITH
  phase <- CASE stamp["worker"] = 3 -> "sealed"
             [] stamp["worker"] # 3 /\ "ordinary" \in catalog -> "ordinary"
             [] OTHER -> "partitioned",
  data  <- rows

\* The tables are converted once and for all, with every row that was written,
\* and no row is lost afterwards.
ImplementsConversion == Promise!Spec

\* Dead ends that downgrades by hand can reach, and two version tables that
\* disagree: no rerun of the runner gets out of them.
Stranded ==
  \/ stamp["backend"] = 3 /\ stamp["worker"] < 1
  \/ stamp["worker"] >= 1 /\ "lifecycle" \notin catalog
Disagree == legacy # NoLegacy /\ stamp["backend"] \notin {NoTable, legacy}

\* Reruns of the runner bring any other database to the last gate, whatever
\* jobs died or were left behind on the way.
RolloutEnds == <>(stamp["worker"] = 3 \/ Stranded \/ Disagree)
=============================================================================
