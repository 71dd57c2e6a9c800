------------------------- MODULE MigrationGates_proofs -------------------------
(* Proofs about MigrationGates, for any number of jobs, rows, faults and       *)
(* downgrades by hand.                                                          *)
EXTENDS MigrationGates, TLAPS

Alive == {"reconcile", "begin"} \cup Stages

\* What belongs to a job and is not touched by a step of another one.
Same(k) ==
  /\ pc'[k] = pc[k] /\ task'[k] = task[k] /\ from'[k] = from[k] /\ at'[k] = at[k]
  /\ adds'[k] = adds[k] /\ drops'[k] = drops[k] /\ copied'[k] = copied[k]
  /\ shared'[k] = shared[k] /\ owned'[k] = owned[k]

SameTables == stamp' = stamp /\ catalog' = catalog /\ rows' = rows

-----------------------------------------------------------------------------
(* Frames *)

\* A job keeps its part of the invariant while neither it nor the tables change.
LEMMA JobFrame ==
  ASSUME NEW k \in Job, JobInv(k), Same(k), SameTables
  PROVE  JobInv(k)'
  BY DEF JobInv, InTransaction, JobHolds, Position, Changes, CopyIsCurrent, CheckHolds,
         HasRow, Origin, Done, Copying, Seen, Same, SameTables

\* A step inside a transaction, or into one, has to care for its own job only.
LEMMA Inside ==
  ASSUME IInv, NEW j \in Job, NEW p \in Stages, pc[j] \in {"begin"} \cup Stages,
         pc' = [pc EXCEPT ![j] = p],
         UNCHANGED <<database, runner, task>>,
         \A k \in Job \ {j} : Same(k),
         TypeOK', LocksExclude', JobInv(j)'
  PROVE  IInv'
<1>1. SameTables
  BY DEF SameTables, database
<1>2. StampsFitCatalog'
  BY DEF IInv, StampsFitCatalog, database
<1>3. IdleHoldsNothing'
  <2> SUFFICES ASSUME NEW k \in Job, ~InTransaction(k)'
               PROVE  (shared[k] = {} /\ owned[k] = {} /\ adds[k] = {} /\ drops[k] = {})'
    BY DEF IdleHoldsNothing
  <2>1. k # j
    BY DEF IInv, TypeOK, InTransaction
  <2> QED
    BY <2>1 DEF IInv, IdleHoldsNothing, InTransaction, Same
<1>4. LegacyAdopted'
  BY DEF IInv, LegacyAdopted, TypeOK, database
<1>5. \A k \in Job : JobInv(k)'
  BY <1>1, JobFrame DEF IInv
<1>6. RolloutFits'
  <2>1. pc[j] \notin Ended /\ pc'[j] \notin Ended /\ pc'[j] = p
    BY DEF IInv, TypeOK, Stages, Ended
  <2>2. \A k \in Job \ {j} : pc'[k] = pc[k]
    BY DEF IInv, TypeOK
  <2>3. p # "none" /\ pc[j] # "none" /\ p \notin {"complete", "failed"}
    BY DEF Stages
  <2>4. runtime # "old"
    BY <2>3 DEF IInv, RolloutFits
  <2>5. gateJob \in Job \cup {Nobody}
    BY DEF IInv, TypeOK
  <2> QED
    BY <2>1, <2>2, <2>3, <2>4, <2>5 DEF IInv, RolloutFits, database, runner
<1> QED
  BY <1>2, <1>3, <1>4, <1>5, <1>6 DEF IInv

\* What a statement locks is no one else's.
LEMMA TakeEffect ==
  ASSUME IInv, NEW j \in Job, Take(j), Reads(j) \subseteq Objects, Writes(j) \subseteq Objects
  PROVE  /\ LocksExclude'
         /\ shared' \in [Job -> SUBSET Objects] /\ owned' \in [Job -> SUBSET Objects]
         /\ shared'[j] = shared[j] \cup Reads(j) /\ owned'[j] = owned[j] \cup Writes(j)
         /\ \A k \in Job \ {j} : shared'[k] = shared[k] /\ owned'[k] = owned[k]
<1>1. /\ shared' \in [Job -> SUBSET Objects] /\ owned' \in [Job -> SUBSET Objects]
      /\ shared'[j] = shared[j] \cup Reads(j) /\ owned'[j] = owned[j] \cup Writes(j)
      /\ \A k \in Job \ {j} : shared'[k] = shared[k] /\ owned'[k] = owned[k]
  BY DEF IInv, TypeOK, Take
<1>2. \A k \in Job \ {j} : /\ owned[k] \cap (Reads(j) \cup Writes(j)) = {}
                           /\ shared[k] \cap Writes(j) = {}
  BY DEF Take, Blockers
<1>3. LocksExclude'
  <2> SUFFICES ASSUME NEW k \in Job, NEW l \in Job, k # l
               PROVE  owned'[k] \cap (owned'[l] \cup shared'[l]) = {}
    BY DEF LocksExclude
  <2>1. owned[k] \cap (owned[l] \cup shared[l]) = {}
    BY DEF IInv, LocksExclude
  <2>2. CASE k = j
    BY <1>1, <1>2, <2>1, <2>2
  <2>3. CASE l = j
    BY <1>1, <1>2, <2>1, <2>3
  <2>4. CASE k # j /\ l # j
    BY <1>1, <2>1, <2>4
  <2> QED
    BY <2>2, <2>3, <2>4
<1> QED
  BY <1>1, <1>3

\* The end of a transaction, whatever its end.
LEMMA ReleaseEffect ==
  ASSUME IInv, NEW j \in Job, Release(j)
  PROVE  /\ LocksExclude'
         /\ shared' \in [Job -> SUBSET Objects] /\ owned' \in [Job -> SUBSET Objects]
         /\ at' \in [Job -> 0..3] /\ from' \in [Job -> -1..3] /\ task' \in [Job -> Task]
         /\ adds' \in [Job -> SUBSET Features] /\ drops' \in [Job -> SUBSET Features]
         /\ copied' \in [Job -> Nat]
         /\ shared'[j] = {} /\ owned'[j] = {} /\ adds'[j] = {} /\ drops'[j] = {}
         /\ \A k \in Job \ {j} :
              /\ shared'[k] = shared[k] /\ owned'[k] = owned[k]
              /\ task'[k] = task[k] /\ from'[k] = from[k] /\ at'[k] = at[k]
              /\ adds'[k] = adds[k] /\ drops'[k] = drops[k] /\ copied'[k] = copied[k]
<1>1. NoTask \in Task
  BY DEF NoTask, Task, Side
<1>2. LocksExclude'
  BY DEF IInv, TypeOK, LocksExclude, Release
<1> QED
  BY <1>1, <1>2 DEF IInv, TypeOK, Release

-----------------------------------------------------------------------------
(* The revisions *)

LEMMA Upgrades ==
  ASSUME NEW j, task[j].up, task[j].side \in Side, at[j] \in 0..2
  PROVE  /\ task[j].side = "backend" /\ at[j] = 0 => Up(j) = Backend0001
         /\ task[j].side = "backend" /\ at[j] = 1 => Up(j) = Backend0002
         /\ task[j].side = "backend" /\ at[j] = 2 => Up(j) = Backend0003
         /\ task[j].side = "worker" /\ at[j] = 0 => Up(j) = Worker0001
         /\ task[j].side = "worker" /\ at[j] = 1 => Up(j) = Worker0002
         /\ task[j].side = "worker" /\ at[j] = 2 => Up(j) = Worker0003
<1> HIDE DEF Backend0001, Backend0002, Backend0003, Worker0001, Worker0002, Worker0003
<1> QED
  BY DEF Up, Upgrade, InHand, Side

LEMMA Downgrades ==
  ASSUME NEW j, ~task[j].up, task[j].side \in Side, at[j] \in 1..2
  PROVE  /\ task[j].side = "backend" /\ at[j] = 1 => Undo(j) = UndoBackend0001
         /\ task[j].side = "backend" /\ at[j] = 2 => Undo(j) = UndoBackend0002
         /\ task[j].side = "worker" /\ at[j] = 1 => Undo(j) = UndoWorker0001
         /\ task[j].side = "worker" /\ at[j] = 2 => Undo(j) = UndoWorker0002
  BY DEF Undo, Downgrade, InHand, Side

\* What a revision names is there to be named.
LEMMA UpTyped ==
  ASSUME NEW j, task[j].up, task[j].side \in Side, at[j] \in 0..2
  PROVE  Up(j).tables \subseteq Objects /\ Up(j).creates \subseteq Features
<1> USE DEF Objects, Features, Version
<1>1. CASE task[j].side = "backend" /\ at[j] = 0
  BY <1>1, Upgrades DEF Backend0001
<1>2. CASE task[j].side = "backend" /\ at[j] = 1
  BY <1>2, Upgrades DEF Backend0002
<1>3. CASE task[j].side = "backend" /\ at[j] = 2
  BY <1>3, Upgrades DEF Backend0003
<1>4. CASE task[j].side = "worker" /\ at[j] = 0
  BY <1>4, Upgrades DEF Worker0001
<1>5. CASE task[j].side = "worker" /\ at[j] = 1
  BY <1>5, Upgrades DEF Worker0002
<1>6. CASE task[j].side = "worker" /\ at[j] = 2
  BY <1>6, Upgrades DEF Worker0003
<1> QED
  BY <1>1, <1>2, <1>3, <1>4, <1>5, <1>6 DEF Side

LEMMA UndoTyped ==
  ASSUME NEW j, ~task[j].up, task[j].side \in Side, at[j] \in 1..2
  PROVE  Undo(j).tables \subseteq Objects /\ Undo(j).drops \subseteq Features
<1> USE DEF Objects, Features
<1>1. CASE task[j].side = "backend" /\ at[j] = 1
  BY <1>1, Downgrades DEF UndoBackend0001
<1>2. CASE task[j].side = "backend" /\ at[j] = 2
  BY <1>2, Downgrades DEF UndoBackend0002
<1>3. CASE task[j].side = "worker" /\ at[j] = 1
  BY <1>3, Downgrades DEF UndoWorker0001
<1>4. CASE task[j].side = "worker" /\ at[j] = 2
  BY <1>4, Downgrades DEF UndoWorker0002
<1> QED
  BY <1>1, <1>2, <1>3, <1>4 DEF Side

\* The parts of the type invariant that a step of one job needs of it.
LEMMA JobTyped ==
  ASSUME TypeOK, NEW j \in Job
  PROVE  /\ task[j].side \in Side /\ task[j].target \in 0..3 /\ task[j].up \in BOOLEAN
         /\ at[j] \in 0..3 /\ from[j] \in -1..3 /\ Origin(j) \in 0..3
         /\ pc[j] \in {"reconcile", "begin"} \cup Stages \cup Ended
  BY DEF TypeOK, Task, Origin, NoTable

LEMMA LocksTyped ==
  ASSUME IInv, NEW j \in Job, pc[j] \in {"begin"} \cup Stages
  PROVE  Reads(j) \subseteq Objects /\ Writes(j) \subseteq Objects
<1>1. TypeOK
  BY DEF IInv
<1>2. Reads(j) \subseteq Objects
  BY <1>1, JobTyped DEF Reads, ConsultsVersions, Objects, Version
<1>3. Writes(j) \subseteq Objects
  <2>1. CASE pc[j] = "apply"
    <3>1. Position(j)
      BY <2>1 DEF IInv, JobInv, InTransaction, Stages
    <3>2. CASE task[j].up
      BY <1>1, <2>1, <3>1, <3>2, JobTyped, UpTyped DEF Position, Writes
    <3>3. CASE ~task[j].up
      BY <1>1, <2>1, <3>1, <3>3, JobTyped, UndoTyped DEF Position, Writes, InHand, Undoable
    <3> QED
      BY <3>2, <3>3
  <2>2. CASE pc[j] # "apply"
    BY <1>1, <2>2, JobTyped DEF Writes, Objects, Version, Row
  <2> QED
    BY <2>1, <2>2
<1> QED
  BY <1>2, <1>3

-----------------------------------------------------------------------------
(* Begin *)

\* Where a job is when it has reached revision a.
LEMMA StageTyped ==
  ASSUME NEW t \in Task, NEW a \in 0..3
  PROVE  /\ StageAt(t, a) \in {"commit", "check", "apply"}
         /\ StageAt(t, a) = "commit" <=> a = t.target \/ (t.up /\ a > t.target)
         /\ StageAt(t, a) = "check" => t.up /\ (a = 2 \/ (a = 0 /\ t.side = "worker"))
         /\ StageAt(t, a) = "apply" => ~(t.up /\ a = 2)
  BY DEF StageAt, Task

LEMMA BeginKeeps ==
  ASSUME IInv, NEW j \in Job, Begin(j)
  PROVE  IInv'
<1> DEFINE s == task[j].side
           a == Stamped(s)
           p == StageAt(task[j], a)
<1>1. TypeOK /\ pc[j] = "begin"
  BY DEF IInv, Begin
<1>2. /\ s \in Side /\ a \in 0..3 /\ stamp[s] \in -1..3
      /\ task[j].target \in 0..3 /\ task[j].up \in BOOLEAN
      /\ a = IF stamp[s] = NoTable THEN 0 ELSE stamp[s]
  BY <1>1, JobTyped DEF TypeOK, Stamped, NoTable
<1>3. task[j] \in Task /\ p \in Stages /\ p \in {"commit", "check", "apply"}
  BY <1>1, <1>2, StageTyped DEF Stages, TypeOK
<1>4. owned[j] = {} /\ adds[j] = {} /\ drops[j] = {} /\ shared[j] = {}
  BY <1>1 DEF IInv, IdleHoldsNothing, InTransaction, Stages
<1>5. /\ LocksExclude'
      /\ shared' \in [Job -> SUBSET Objects] /\ owned' \in [Job -> SUBSET Objects]
      /\ shared'[j] = {Version(s)}
      /\ owned'[j] = IF stamp[s] = NoTable THEN {Version(s)} ELSE {}
      /\ \A k \in Job \ {j} : shared'[k] = shared[k] /\ owned'[k] = owned[k]
  <2>1. Reads(j) = {Version(s)} /\ Writes(j) = IF stamp[s] = NoTable THEN {Version(s)} ELSE {}
    BY <1>1 DEF Reads, Writes
  <2> QED
    BY <1>1, <1>4, <2>1, TakeEffect, LocksTyped DEF Begin
<1>6. pc' = [pc EXCEPT ![j] = p] /\ from' = [from EXCEPT ![j] = stamp[s]]
      /\ at' = [at EXCEPT ![j] = a]
      /\ UNCHANGED <<database, runner, faults, downgrades, task, adds, drops, copied>>
  BY DEF Begin, Goto
<1> HIDE DEF s, a, p
<1>7. TypeOK'
  <2>1. pc' \in [Job -> {"reconcile", "begin"} \cup Stages \cup Ended]
    BY <1>1, <1>3, <1>6 DEF TypeOK
  <2>2. from' \in [Job -> -1..3] /\ at' \in [Job -> 0..3]
    BY <1>1, <1>2, <1>6 DEF TypeOK
  <2> QED
    BY <1>1, <1>5, <1>6, <2>1, <2>2 DEF TypeOK, database, runner
<1>8. pc'[j] = p /\ from'[j] = stamp[s] /\ at'[j] = a /\ task'[j] = task[j]
      /\ adds'[j] = {} /\ drops'[j] = {} /\ stamp' = stamp
  BY <1>1, <1>4, <1>6 DEF TypeOK, database
<1>9. \A k \in Job \ {j} : Same(k)
  BY <1>1, <1>5, <1>6 DEF TypeOK, Same
<1>10. Origin(j)' = a /\ Done(j)' = a
  BY <1>2, <1>3, <1>8 DEF Origin, Done
<1>11. ~HasRow(j)'
  BY <1>2, <1>5, <1>8 DEF HasRow, Row, Version, s, Side
<1>12. JobHolds(j)'
  BY <1>2, <1>5, <1>8, <1>11 DEF JobHolds, s, NoTable
<1>13. Position(j)'
  <2>1. task[j].up \/ task[j].target <= a
    BY <1>1 DEF Begin, Succeeds, a, s
  <2> QED
    BY <1>2, <1>3, <1>8, <1>10, <2>1, StageTyped DEF Position, p
<1>14. Changes(j)'
  BY <1>2, <1>8, <1>10 DEF Changes
<1>15. ~Copying(j)' /\ pc'[j] # "copy"
  <2>1. task[j].up /\ a = 2 => p # "apply"
    BY <1>2, <1>3, StageTyped DEF p
  <2> QED
    BY <1>2, <1>3, <1>8, <2>1 DEF Copying, NoTable
<1>16. CheckHolds(j)'
  <2>1. task[j].up /\ a = 2 => p # "apply"
    BY <1>2, <1>3, StageTyped DEF p
  <2> QED
    BY <1>2, <1>3, <1>8, <2>1 DEF CheckHolds, NoTable
<1>17. JobInv(j)'
  BY <1>12, <1>13, <1>14, <1>15, <1>16 DEF JobInv, CopyIsCurrent
<1> QED
  BY <1>1, <1>3, <1>5, <1>6, <1>7, <1>9, <1>17, Inside

-----------------------------------------------------------------------------
(* Execute *)

\* What a statement of a downgrade removes.
Undoes(j) == IF pc[j] = "apply" /\ ~task[j].up THEN Undo(j).drops ELSE {}

\* What a stage does to its job, and what was true of the job before.
LEMMA ExecuteEffect ==
  ASSUME IInv, NEW j \in Job, Execute(j)
  PROVE  /\ pc[j] \in {"check", "widen", "copy", "count", "apply"} /\ Succeeds(j)
         /\ JobHolds(j) /\ Position(j) /\ Changes(j) /\ CopyIsCurrent(j) /\ CheckHolds(j)
         /\ LocksExclude' /\ TypeOK' /\ \A k \in Job \ {j} : Same(k)
         /\ UNCHANGED <<database, runner, task>>
         /\ StageAfter(j) \in Stages /\ pc' = [pc EXCEPT ![j] = StageAfter(j)]
         /\ pc'[j] = StageAfter(j) /\ task'[j] = task[j] /\ from'[j] = from[j] /\ at'[j] = at[j]
         /\ adds'[j] = adds[j] \cup Creates(j) /\ drops'[j] = drops[j] \cup Undoes(j)
         /\ copied'[j] = IF pc[j] = "copy" THEN rows ELSE copied[j]
         /\ shared'[j] = shared[j] \cup Reads(j) /\ owned'[j] = owned[j] \cup Writes(j)
         /\ stamp' = stamp /\ catalog' = catalog /\ rows' = rows
<1>1. /\ TypeOK /\ pc[j] \in {"check", "widen", "copy", "count", "apply"} /\ Succeeds(j)
      /\ pc[j] \in Stages
  BY DEF IInv, Execute, Stages
<1>2. JobHolds(j) /\ Position(j) /\ Changes(j) /\ CopyIsCurrent(j) /\ CheckHolds(j)
  BY <1>1 DEF IInv, JobInv, InTransaction
<1>3. StageAfter(j) \in Stages
  BY <1>1 DEF StageAfter, Stages
<1>4. Creates(j) \subseteq Features
  <2>1. CASE pc[j] = "apply" /\ task[j].up
    <3>1. at[j] \in 0..2
      BY <1>1, <1>2, <2>1, JobTyped DEF Position
    <3> QED
      BY <1>1, <2>1, <3>1, JobTyped, UpTyped DEF Creates
  <2>2. CASE ~(pc[j] = "apply" /\ task[j].up)
    BY <1>1, <2>2 DEF Creates, Features
  <2> QED
    BY <2>1, <2>2
<1>5. Undoes(j) \subseteq Features
  <2>1. CASE pc[j] = "apply" /\ ~task[j].up
    <3>1. at[j] \in 1..2
      BY <1>1, <2>1 DEF Succeeds, Applies, InHand, Undoable
    <3> QED
      BY <1>1, <2>1, <3>1, JobTyped, UndoTyped DEF Undoes
  <2>2. CASE ~(pc[j] = "apply" /\ ~task[j].up)
    BY <2>2 DEF Undoes
  <2> QED
    BY <2>1, <2>2
<1>6. /\ LocksExclude'
      /\ shared' \in [Job -> SUBSET Objects] /\ owned' \in [Job -> SUBSET Objects]
      /\ shared'[j] = shared[j] \cup Reads(j) /\ owned'[j] = owned[j] \cup Writes(j)
      /\ \A k \in Job \ {j} : shared'[k] = shared[k] /\ owned'[k] = owned[k]
  BY <1>1, TakeEffect, LocksTyped DEF Execute
<1>7. /\ pc' = [pc EXCEPT ![j] = StageAfter(j)]
      /\ adds' = [adds EXCEPT ![j] = @ \cup Creates(j)]
      /\ copied' = IF pc[j] = "copy" THEN [copied EXCEPT ![j] = rows] ELSE copied
      /\ UNCHANGED <<database, runner, faults, downgrades, task, from, at>>
  BY DEF Execute, Goto
<1>8. /\ drops' \in [Job -> SUBSET Features] /\ drops'[j] = drops[j] \cup Undoes(j)
      /\ \A k \in Job \ {j} : drops'[k] = drops[k]
  <2>1. CASE pc[j] = "apply" /\ ~task[j].up
    <3>1. drops' = [drops EXCEPT ![j] = @ \cup Undoes(j)]
      BY <2>1 DEF Execute, Undoes
    <3> QED
      BY <1>1, <1>5, <3>1 DEF TypeOK
  <2>2. CASE ~(pc[j] = "apply" /\ ~task[j].up)
    <3>1. drops' = drops
      BY <2>2 DEF Execute
    <3>2. Undoes(j) = {}
      BY <2>2 DEF Undoes
    <3> QED
      BY <1>1, <3>1, <3>2 DEF TypeOK
  <2> QED
    BY <2>1, <2>2
<1>9. /\ adds' \in [Job -> SUBSET Features] /\ adds'[j] = adds[j] \cup Creates(j)
      /\ \A k \in Job \ {j} : adds'[k] = adds[k]
  BY <1>1, <1>4, <1>7 DEF TypeOK
<1>10. /\ copied' \in [Job -> Nat]
       /\ copied'[j] = IF pc[j] = "copy" THEN rows ELSE copied[j]
       /\ \A k \in Job \ {j} : copied'[k] = copied[k]
  BY <1>1, <1>7 DEF TypeOK
<1>11. /\ pc' \in [Job -> {"reconcile", "begin"} \cup Stages \cup Ended]
       /\ pc'[j] = StageAfter(j) /\ \A k \in Job \ {j} : pc'[k] = pc[k]
  BY <1>1, <1>3, <1>7 DEF TypeOK
<1>12. TypeOK'
  BY <1>1, <1>6, <1>7, <1>8, <1>9, <1>10, <1>11 DEF TypeOK, database, runner
<1>13. \A k \in Job \ {j} : Same(k)
  BY <1>6, <1>7, <1>8, <1>9, <1>10, <1>11 DEF Same
<1>14. /\ task'[j] = task[j] /\ from'[j] = from[j] /\ at'[j] = at[j]
       /\ stamp' = stamp /\ catalog' = catalog /\ rows' = rows
       /\ UNCHANGED <<database, runner, task>>
  BY <1>7 DEF database
<1> QED
  BY <1>1, <1>2, <1>3, <1>6, <1>7, <1>8, <1>9, <1>10, <1>11, <1>12, <1>13, <1>14

\* Only the stamp locks the row of the stamp.
LEMMA RowKept ==
  ASSUME IInv, NEW j \in Job, Execute(j)
  PROVE  HasRow(j)' <=> HasRow(j)
<1>1. TypeOK
  BY DEF IInv
<1>2. Row(task[j].side) \notin Writes(j)
  <2>1. CASE pc[j] = "apply" /\ task[j].up
    <3>1. at[j] \in 0..2
      BY <1>1, <2>1, ExecuteEffect, JobTyped DEF Position
    <3>2. Row(task[j].side) \notin Up(j).tables
      BY <1>1, <2>1, <3>1, JobTyped, Upgrades
         DEF Row, Version, Side, Backend0001, Backend0002, Backend0003, Worker0001, Worker0002, Worker0003
    <3> QED
      BY <2>1, <3>2 DEF Writes
  <2>2. CASE pc[j] = "apply" /\ ~task[j].up
    <3>1. at[j] \in 1..2
      BY <1>1, <2>2, ExecuteEffect DEF Succeeds, Applies, InHand, Undoable
    <3>2. Row(task[j].side) \notin Undo(j).tables
      BY <1>1, <2>2, <3>1, JobTyped, Downgrades
         DEF Row, Side, UndoBackend0001, UndoBackend0002, UndoWorker0001, UndoWorker0002
    <3> QED
      BY <2>2, <3>1, <3>2 DEF Writes
  <2>3. CASE pc[j] # "apply"
    <3>1. pc[j] \in {"check", "widen", "copy", "count"}
      BY <2>3, ExecuteEffect
    <3>2. Writes(j) \subseteq {"versionBackend"}
      BY <3>1 DEF Writes, Version
    <3> QED
      BY <3>2 DEF Row
  <2> QED
    BY <2>1, <2>2, <2>3
<1> QED
  BY <1>2, ExecuteEffect DEF HasRow

\* What a job holds stays; what it changes it has to own.
LEMMA HoldsKept ==
  ASSUME IInv, NEW j \in Job, Execute(j),
         (Creates(j) \cup Undoes(j)) \cap {"base", "normalization"} # {} => "alerts" \in owned'[j],
         (Creates(j) \cup Undoes(j)) \cap {"lifecycle", "analysis"} # {} => "runs" \in owned'[j]
  PROVE  JobHolds(j)'
<1>1. /\ task'[j] = task[j] /\ from'[j] = from[j] /\ stamp' = stamp
      /\ shared[j] \subseteq shared'[j] /\ owned[j] \subseteq owned'[j] /\ JobHolds(j)
      /\ adds'[j] = adds[j] \cup Creates(j) /\ drops'[j] = drops[j] \cup Undoes(j)
  BY ExecuteEffect
<1>2. (adds'[j] \cup drops'[j]) \cap {"base", "normalization"} # {} => "alerts" \in owned'[j]
  BY <1>1 DEF JobHolds
<1>3. (adds'[j] \cup drops'[j]) \cap {"lifecycle", "analysis"} # {} => "runs" \in owned'[j]
  BY <1>1 DEF JobHolds
<1> QED
  BY <1>1, <1>2, <1>3, RowKept DEF JobHolds

\* The stages that change nothing but where the job is.
LEMMA QuietStage ==
  ASSUME IInv, NEW j \in Job, Execute(j), Creates(j) \subseteq {"wideBackend"}, Undoes(j) = {},
         pc[j] # "stamp", pc'[j] # "stamp"
  PROVE  /\ JobHolds(j)' /\ Changes(j)'
         /\ Origin(j)' = Origin(j) /\ Done(j)' = Done(j) /\ Done(j) = at[j]
         /\ Seen(j) \subseteq Seen(j)'
<1>1. Origin(j)' = Origin(j) /\ Done(j)' = Done(j) /\ Done(j) = at[j]
  BY ExecuteEffect DEF Origin, Done
<1>2. JobHolds(j)'
  BY HoldsKept
<1>3. Seen(j) \subseteq Seen(j)'
  BY ExecuteEffect DEF Seen
<1>4. drops'[j] = drops[j] /\ adds[j] \subseteq adds'[j] /\ adds'[j] \subseteq adds[j] \cup {"wideBackend"}
  <2>1. drops'[j] = drops[j] \cup Undoes(j) /\ adds'[j] = adds[j] \cup Creates(j)
    BY ExecuteEffect
  <2>2. drops'[j] = drops[j]
    BY <2>1
  <2> QED
    BY <2>1, <2>2
<1>5. Changes(j)'
  <2>1. ~task[j].up => adds'[j] = {}
    <3>1. ~task[j].up => Creates(j) = {}
      <4>1. pc[j] = "widen" => task[j].up
        BY ExecuteEffect DEF Position
      <4> QED
        BY <4>1 DEF Creates
    <3> QED
      BY <3>1, ExecuteEffect DEF Changes
  <2> QED
    BY <1>1, <1>3, <1>4, <2>1, ExecuteEffect DEF Changes
<1> QED
  BY <1>1, <1>2, <1>3, <1>5

LEMMA CheckStage ==
  ASSUME IInv, NEW j \in Job, Execute(j), pc[j] = "check"
  PROVE  JobInv(j)'
<1>1. TypeOK /\ Creates(j) = {} /\ Undoes(j) = {}
  BY DEF IInv, Creates, Undoes
<1>2. pc'[j] = IF task[j].side = "backend" THEN "widen" ELSE "apply"
  BY ExecuteEffect DEF StageAfter
<1>3. /\ JobHolds(j)' /\ Changes(j)'
      /\ Origin(j)' = Origin(j) /\ Done(j)' = Done(j) /\ Done(j) = at[j]
  BY <1>1, <1>2, QuietStage
<1>4. task[j].up /\ (at[j] = 2 \/ (at[j] = 0 /\ task[j].side = "worker"))
  BY ExecuteEffect DEF Position
<1>5. Position(j)'
  BY <1>1, <1>2, <1>3, <1>4, ExecuteEffect, RowKept, JobTyped DEF Position
<1>6. CopyIsCurrent(j)'
  BY <1>2, <1>4, ExecuteEffect DEF CopyIsCurrent, Copying
<1>7. CheckHolds(j)'
  <2>1. CASE task[j].side = "worker" /\ at[j] = 2
    <3>1. CheckPasses(j)
      BY ExecuteEffect DEF Succeeds
    <3>2. InHand(j) = 3
      BY <1>4, <2>1 DEF InHand
    <3>3. stamp["backend"] = 3
      BY <2>1, <3>1, <3>2 DEF CheckPasses, ConvertedBackend
    <3> QED
      BY <3>3, ExecuteEffect DEF CheckHolds
  <2>2. CASE ~(task[j].side = "worker" /\ at[j] = 2)
    BY <1>4, <2>2, ExecuteEffect DEF CheckHolds
  <2> QED
    BY <2>1, <2>2
<1> QED
  BY <1>3, <1>5, <1>6, <1>7 DEF JobInv

LEMMA WidenStage ==
  ASSUME IInv, NEW j \in Job, Execute(j), pc[j] = "widen"
  PROVE  JobInv(j)'
<1>1. TypeOK /\ Creates(j) = {"wideBackend"} /\ Undoes(j) = {} /\ pc'[j] = "copy"
  BY ExecuteEffect DEF IInv, Creates, Undoes, StageAfter
<1>2. /\ JobHolds(j)' /\ Changes(j)'
      /\ Origin(j)' = Origin(j) /\ Done(j)' = Done(j) /\ Done(j) = at[j]
  BY <1>1, QuietStage
<1>3. task[j].up /\ at[j] = 2 /\ task[j].side = "backend"
  BY ExecuteEffect DEF Position
<1>4. Position(j)'
  BY <1>1, <1>2, <1>3, ExecuteEffect, RowKept, JobTyped DEF Position
<1>5. CopyIsCurrent(j)'
  <2>1. Writes(j) = {"versionBackend"}
    BY DEF Writes, Version
  <2> QED
    BY <1>1, <1>3, <2>1, ExecuteEffect DEF CopyIsCurrent, Copying
<1>6. CheckHolds(j)'
  BY <1>3, ExecuteEffect DEF CheckHolds
<1> QED
  BY <1>2, <1>4, <1>5, <1>6 DEF JobInv

LEMMA CopyStage ==
  ASSUME IInv, NEW j \in Job, Execute(j), pc[j] = "copy"
  PROVE  JobInv(j)'
<1>1. TypeOK /\ Creates(j) = {} /\ Undoes(j) = {} /\ pc'[j] = "count"
  BY ExecuteEffect DEF IInv, Creates, Undoes, StageAfter
<1>2. /\ JobHolds(j)' /\ Changes(j)' /\ Seen(j) \subseteq Seen(j)'
      /\ Origin(j)' = Origin(j) /\ Done(j)' = Done(j) /\ Done(j) = at[j]
  BY <1>1, QuietStage
<1>3. task[j].up /\ at[j] = 2 /\ task[j].side = "backend"
  BY ExecuteEffect DEF Position
<1>4. Position(j)'
  BY <1>1, <1>2, <1>3, ExecuteEffect, RowKept, JobTyped DEF Position
<1>5. CopyIsCurrent(j)'
  <2>1. {"base", "normalization", "lifecycle"} \subseteq Seen(j)
    <3>1. Up(j) = Backend0003
      BY <1>3, Upgrades DEF Side
    <3> QED
      BY <3>1, ExecuteEffect DEF Succeeds, Backend0003
  <2>2. {"alerts", "runs"} \subseteq shared'[j] /\ copied'[j] = rows'
    BY ExecuteEffect DEF Reads
  <2>3. "versionBackend" \in owned'[j]
    BY ExecuteEffect DEF CopyIsCurrent
  <2> QED
    BY <1>1, <1>2, <2>1, <2>2, <2>3 DEF CopyIsCurrent
<1>6. CheckHolds(j)'
  BY <1>3, ExecuteEffect DEF CheckHolds
<1> QED
  BY <1>2, <1>4, <1>5, <1>6 DEF JobInv

LEMMA CountStage ==
  ASSUME IInv, NEW j \in Job, Execute(j), pc[j] = "count"
  PROVE  JobInv(j)'
<1>1. TypeOK /\ Creates(j) = {} /\ Undoes(j) = {} /\ pc'[j] = "apply"
  BY ExecuteEffect DEF IInv, Creates, Undoes, StageAfter
<1>2. /\ JobHolds(j)' /\ Changes(j)' /\ Seen(j) \subseteq Seen(j)'
      /\ Origin(j)' = Origin(j) /\ Done(j)' = Done(j) /\ Done(j) = at[j]
  BY <1>1, QuietStage
<1>3. task[j].up /\ at[j] = 2 /\ task[j].side = "backend"
  BY ExecuteEffect DEF Position
<1>4. Position(j)'
  BY <1>1, <1>2, <1>3, ExecuteEffect, RowKept, JobTyped DEF Position
<1>5. CopyIsCurrent(j)'
  <2>1. Copying(j)
    BY <1>3 DEF Copying
  <2> QED
    BY <1>1, <1>2, <2>1, ExecuteEffect DEF CopyIsCurrent
<1>6. CheckHolds(j)'
  BY <1>3, ExecuteEffect DEF CheckHolds
<1> QED
  BY <1>2, <1>4, <1>5, <1>6 DEF JobInv

\* A revision on the way up.
LEMMA ApplyUp ==
  ASSUME IInv, NEW j \in Job, Execute(j), pc[j] = "apply", task[j].up
  PROVE  /\ TypeOK /\ at[j] \in 0..2 /\ pc'[j] = "stamp"
         /\ Origin(j) \in 0..3 /\ Origin(j) <= at[j]
         /\ Origin(j)' = Origin(j) /\ Done(j) = at[j] /\ Done(j)' = at[j] + 1
         /\ drops[j] = {} /\ drops'[j] = {} /\ adds'[j] = adds[j] \cup Up(j).creates
         /\ Creates(j) = Up(j).creates /\ Undoes(j) = {}
         /\ Up(j).needs \subseteq Seen(j) /\ Up(j).forbids \cap Seen(j) = {}
         /\ Up(j).tables \subseteq owned'[j]
         /\ Seen(j) = catalog \cup adds[j] /\ Seen(j)' = catalog \cup adds'[j]
         /\ Position(j)' /\ CopyIsCurrent(j)' /\ CheckHolds(j)'
<1>1. TypeOK /\ pc'[j] = "stamp"
  BY ExecuteEffect DEF IInv, StageAfter
<1>2. at[j] \in 0..2 /\ Origin(j) \in 0..3 /\ Origin(j) <= at[j]
  BY <1>1, ExecuteEffect, JobTyped DEF Position
<1>3. Origin(j)' = Origin(j) /\ Done(j) = at[j] /\ Done(j)' = at[j] + 1
  BY <1>1, ExecuteEffect DEF Origin, Done
<1>4. Creates(j) = Up(j).creates /\ Undoes(j) = {}
  BY DEF Creates, Undoes
<1>5. drops[j] = {} /\ drops'[j] = {} /\ adds'[j] = adds[j] \cup Up(j).creates
  BY <1>4, ExecuteEffect DEF Changes
<1>6. Up(j).needs \subseteq Seen(j) /\ Up(j).forbids \cap Seen(j) = {}
  BY ExecuteEffect DEF Succeeds, Applies
<1>7. Up(j).tables \subseteq owned'[j]
  BY ExecuteEffect DEF Writes
<1>8. Seen(j) = catalog \cup adds[j] /\ Seen(j)' = catalog \cup adds'[j]
  BY <1>5, ExecuteEffect DEF Seen
<1>9. Position(j)'
  BY <1>1, <1>2, <1>3, ExecuteEffect, RowKept, JobTyped DEF Position
<1>10. CopyIsCurrent(j)'
  <2>1. Copying(j)' => Copying(j)
    BY <1>1, <1>2, ExecuteEffect DEF Copying
  <2>2. Seen(j) \subseteq Seen(j)'
    BY <1>5, <1>8
  <2> QED
    BY <1>1, <2>1, <2>2, ExecuteEffect DEF CopyIsCurrent
<1>11. CheckHolds(j)'
  BY <1>1, <1>2, ExecuteEffect DEF CheckHolds
<1> QED
  BY <1>1, <1>2, <1>3, <1>4, <1>5, <1>6, <1>7, <1>8, <1>9, <1>10, <1>11

LEMMA ApplyUpBackend ==
  ASSUME IInv, NEW j \in Job, Execute(j), pc[j] = "apply", task[j].up, task[j].side = "backend"
  PROVE  JobInv(j)'
<1>1. JobHolds(j)' /\ Changes(j)'
  <2>1. CASE at[j] = 0
    <3>1. Up(j) = Backend0001
      BY <2>1, Upgrades DEF Side
    <3>2. Creates(j) = {"base"} /\ "alerts" \in owned'[j]
      BY <3>1, ApplyUp DEF Backend0001
    <3>3. JobHolds(j)'
      BY <3>2, ApplyUp, HoldsKept
    <3>4. Changes(j)'
      BY <2>1, <3>2, ApplyUp, ExecuteEffect DEF Changes
    <3> QED
      BY <3>3, <3>4
  <2>2. CASE at[j] = 1
    <3>1. Up(j) = Backend0002
      BY <2>2, Upgrades DEF Side
    <3>2. Creates(j) = {"normalization"} /\ "alerts" \in owned'[j]
      BY <3>1, ApplyUp DEF Backend0002
    <3>3. JobHolds(j)'
      BY <3>2, ApplyUp, HoldsKept
    <3>4. Changes(j)'
      BY <2>2, <3>2, ApplyUp, ExecuteEffect DEF Changes
    <3> QED
      BY <3>3, <3>4
  <2>3. CASE at[j] = 2
    <3>1. Up(j) = Backend0003
      BY <2>3, Upgrades DEF Side
    <3>2. Creates(j) = {"ordinary"}
      BY <3>1, ApplyUp DEF Backend0003
    <3>3. JobHolds(j)'
      BY <3>2, ApplyUp, HoldsKept
    <3>4. Changes(j)'
      BY <2>3, <3>2, ApplyUp, ExecuteEffect DEF Changes
    <3> QED
      BY <3>3, <3>4
  <2> QED
    BY <2>1, <2>2, <2>3, ApplyUp
<1> QED
  BY <1>1, ApplyUp DEF JobInv

LEMMA ApplyUpWorker ==
  ASSUME IInv, NEW j \in Job, Execute(j), pc[j] = "apply", task[j].up, task[j].side = "worker"
  PROVE  JobInv(j)'
<1>1. JobHolds(j)' /\ Changes(j)'
  <2>1. CASE at[j] = 0
    <3>1. Up(j) = Worker0001
      BY <2>1, Upgrades DEF Side
    <3>2. Creates(j) = {"lifecycle"} /\ "runs" \in owned'[j] /\ "lifecycle" \notin Seen(j)
      BY <3>1, ApplyUp DEF Worker0001
    <3>3. JobHolds(j)'
      BY <3>2, ApplyUp, HoldsKept
    <3>4. Changes(j)'
      BY <2>1, <3>2, ApplyUp, ExecuteEffect DEF Changes
    <3> QED
      BY <3>3, <3>4
  <2>2. CASE at[j] = 1
    <3>1. Up(j) = Worker0002
      BY <2>2, Upgrades DEF Side
    <3>2. Creates(j) = {"analysis"} /\ "runs" \in owned'[j] /\ "lifecycle" \in Seen(j)
      BY <3>1, ApplyUp DEF Worker0002
    <3>3. JobHolds(j)'
      BY <3>2, ApplyUp, HoldsKept
    <3>4. Changes(j)'
      BY <2>2, <3>2, ApplyUp, ExecuteEffect DEF Changes
    <3> QED
      BY <3>3, <3>4
  <2>3. CASE at[j] = 2
    <3>1. Up(j) = Worker0003
      BY <2>3, Upgrades DEF Side
    <3>2. Creates(j) = {"wideWorker"}
      BY <3>1, ApplyUp DEF Worker0003
    <3>3. JobHolds(j)'
      BY <3>2, ApplyUp, HoldsKept
    <3>4. Changes(j)'
      BY <2>3, <3>2, ApplyUp, ExecuteEffect DEF Changes
    <3> QED
      BY <3>3, <3>4
  <2> QED
    BY <2>1, <2>2, <2>3, ApplyUp
<1> QED
  BY <1>1, ApplyUp DEF JobInv

\* A revision on the way down.
LEMMA ApplyDown ==
  ASSUME IInv, NEW j \in Job, Execute(j), pc[j] = "apply", ~task[j].up
  PROVE  /\ TypeOK /\ at[j] \in 1..2 /\ pc'[j] = "stamp"
         /\ Origin(j) \in 0..3 /\ at[j] <= Origin(j) /\ from[j] # 3
         /\ Origin(j)' = Origin(j) /\ Done(j) = at[j] /\ Done(j)' = at[j] - 1
         /\ adds[j] = {} /\ adds'[j] = {} /\ drops'[j] = drops[j] \cup Undo(j).drops
         /\ Creates(j) = {} /\ Undoes(j) = Undo(j).drops
         /\ Undo(j).tables \subseteq owned'[j]
         /\ Position(j)' /\ CopyIsCurrent(j)' /\ CheckHolds(j)'
<1>1. TypeOK /\ pc'[j] = "stamp"
  BY ExecuteEffect DEF IInv, StageAfter
<1>2. InHand(j) \in 1..2 /\ at[j] \in 1..2
  BY ExecuteEffect DEF Succeeds, Applies, InHand, Undoable
<1>3. Origin(j)' = Origin(j) /\ Done(j) = at[j] /\ Done(j)' = at[j] - 1
  BY <1>1, ExecuteEffect DEF Origin, Done
<1>4. Origin(j) \in 0..3 /\ at[j] <= Origin(j)
  BY <1>1, <1>3, ExecuteEffect, JobTyped DEF Position
<1>5. from[j] # 3
  <2>1. HasRow(j) => from[j] # 3
    BY ExecuteEffect DEF JobHolds
  <2>2. ~HasRow(j) => at[j] = Origin(j)
    BY ExecuteEffect DEF Position
  <2> QED
    BY <1>2, <2>1, <2>2 DEF Origin, NoTable
<1>6. Creates(j) = {} /\ Undoes(j) = Undo(j).drops
  BY DEF Creates, Undoes
<1>7. adds[j] = {} /\ adds'[j] = {} /\ drops'[j] = drops[j] \cup Undo(j).drops
  BY <1>6, ExecuteEffect DEF Changes
<1>8. Undo(j).tables \subseteq owned'[j]
  BY <1>2, ExecuteEffect DEF Writes, Undoable
<1>9. Position(j)'
  BY <1>1, <1>2, <1>3, <1>4, ExecuteEffect, RowKept, JobTyped DEF Position
<1>10. CopyIsCurrent(j)' /\ CheckHolds(j)'
  BY <1>1, ExecuteEffect DEF CopyIsCurrent, Copying, CheckHolds
<1> QED
  BY <1>1, <1>2, <1>3, <1>4, <1>5, <1>6, <1>7, <1>8, <1>9, <1>10

LEMMA ApplyDownBackend ==
  ASSUME IInv, NEW j \in Job, Execute(j), pc[j] = "apply", ~task[j].up, task[j].side = "backend"
  PROVE  JobInv(j)'
<1>1. JobHolds(j)' /\ Changes(j)'
  <2>1. CASE at[j] = 1
    <3>1. Undo(j) = UndoBackend0001
      BY <2>1, Downgrades DEF Side
    <3>2. /\ Undoes(j) = {"base", "lifecycle", "analysis"}
          /\ "alerts" \in owned'[j] /\ "runs" \in owned'[j]
      BY <3>1, ApplyDown DEF UndoBackend0001
    <3>3. JobHolds(j)'
      BY <3>2, ApplyDown, HoldsKept
    <3>4. Changes(j)'
      BY <2>1, <3>2, ApplyDown, ExecuteEffect DEF Changes
    <3> QED
      BY <3>3, <3>4
  <2>2. CASE at[j] = 2
    <3>1. Undo(j) = UndoBackend0002
      BY <2>2, Downgrades DEF Side
    <3>2. Undoes(j) = {"normalization"} /\ "alerts" \in owned'[j]
      BY <3>1, ApplyDown DEF UndoBackend0002
    <3>3. JobHolds(j)'
      BY <3>2, ApplyDown, HoldsKept
    <3>4. Changes(j)'
      BY <2>2, <3>2, ApplyDown, ExecuteEffect DEF Changes
    <3> QED
      BY <3>3, <3>4
  <2> QED
    BY <2>1, <2>2, ApplyDown
<1> QED
  BY <1>1, ApplyDown DEF JobInv

LEMMA ApplyDownWorker ==
  ASSUME IInv, NEW j \in Job, Execute(j), pc[j] = "apply", ~task[j].up, task[j].side = "worker"
  PROVE  JobInv(j)'
<1>1. JobHolds(j)' /\ Changes(j)'
  <2>1. CASE at[j] = 1
    <3>1. Undo(j) = UndoWorker0001
      BY <2>1, Downgrades DEF Side
    <3>2. Undoes(j) = {"lifecycle"} /\ "runs" \in owned'[j]
      BY <3>1, ApplyDown DEF UndoWorker0001
    <3>3. JobHolds(j)'
      BY <3>2, ApplyDown, HoldsKept
    <3>4. Changes(j)'
      BY <2>1, <3>2, ApplyDown, ExecuteEffect DEF Changes
    <3> QED
      BY <3>3, <3>4
  <2>2. CASE at[j] = 2
    <3>1. Undo(j) = UndoWorker0002
      BY <2>2, Downgrades DEF Side
    <3>2. Undoes(j) = {"analysis"} /\ "runs" \in owned'[j]
      BY <3>1, ApplyDown DEF UndoWorker0002
    <3>3. JobHolds(j)'
      BY <3>2, ApplyDown, HoldsKept
    <3>4. Changes(j)'
      BY <2>2, <3>2, ApplyDown, ExecuteEffect DEF Changes
    <3> QED
      BY <3>3, <3>4
  <2> QED
    BY <2>1, <2>2, ApplyDown
<1> QED
  BY <1>1, ApplyDown DEF JobInv

LEMMA ExecuteKeeps ==
  ASSUME IInv, NEW j \in Job, Execute(j)
  PROVE  IInv'
<1>1. JobInv(j)'
  <2>1. task[j].side \in {"backend", "worker"}
    BY JobTyped DEF IInv, Side
  <2> QED
    BY <2>1, ExecuteEffect, CheckStage, WidenStage, CopyStage, CountStage,
       ApplyUpBackend, ApplyUpWorker, ApplyDownBackend, ApplyDownWorker
<1>2. pc[j] \in Stages
  BY ExecuteEffect DEF Stages
<1> QED
  BY <1>1, <1>2, ExecuteEffect, Inside

-----------------------------------------------------------------------------
(* Stamp *)

\* The revision a stamp names.
After(j) == IF task[j].up THEN at[j] + 1 ELSE at[j] - 1

LEMMA StampEffect ==
  ASSUME IInv, NEW j \in Job, Stamp(j)
  PROVE  /\ TypeOK /\ pc[j] = "stamp" /\ stamp[task[j].side] = from[j]
         /\ JobHolds(j) /\ Position(j) /\ Changes(j) /\ CopyIsCurrent(j) /\ CheckHolds(j)
         /\ LocksExclude' /\ TypeOK' /\ \A k \in Job \ {j} : Same(k)
         /\ UNCHANGED <<database, runner, task>>
         /\ After(j) \in 0..3 /\ StageAt(task[j], After(j)) \in Stages
         /\ pc' = [pc EXCEPT ![j] = StageAt(task[j], After(j))]
         /\ pc'[j] = StageAt(task[j], After(j)) /\ at'[j] = After(j)
         /\ task'[j] = task[j] /\ from'[j] = from[j]
         /\ adds'[j] = adds[j] /\ drops'[j] = drops[j] /\ copied'[j] = copied[j]
         /\ shared'[j] = shared[j] /\ owned'[j] = owned[j] \cup {Row(task[j].side)}
         /\ stamp' = stamp /\ catalog' = catalog /\ rows' = rows
<1>1. TypeOK /\ pc[j] = "stamp" /\ pc[j] \in Stages
  BY DEF IInv, Stamp, Stages
<1>2. JobHolds(j) /\ Position(j) /\ Changes(j) /\ CopyIsCurrent(j) /\ CheckHolds(j)
  BY <1>1 DEF IInv, JobInv, InTransaction
<1>3. stamp[task[j].side] = from[j]
  BY <1>1 DEF Stamp, Succeeds, StampMatches
<1>4. After(j) \in 0..3
  BY <1>1, <1>2, JobTyped DEF Position, After
<1>5. StageAt(task[j], After(j)) \in Stages
  <2>1. task[j] \in Task
    BY <1>1 DEF TypeOK
  <2> QED
    BY <1>4, <2>1, StageTyped DEF Stages
<1>6. /\ LocksExclude'
      /\ shared' \in [Job -> SUBSET Objects] /\ owned' \in [Job -> SUBSET Objects]
      /\ shared'[j] = shared[j] /\ owned'[j] = owned[j] \cup {Row(task[j].side)}
      /\ \A k \in Job \ {j} : shared'[k] = shared[k] /\ owned'[k] = owned[k]
  <2>1. Reads(j) = {} /\ Writes(j) = {Row(task[j].side)}
    BY <1>1 DEF Reads, Writes
  <2> QED
    BY <1>1, <2>1, TakeEffect, LocksTyped DEF Stamp
<1>7. /\ pc' = [pc EXCEPT ![j] = StageAt(task[j], After(j))] /\ at' = [at EXCEPT ![j] = After(j)]
      /\ UNCHANGED <<database, runner, faults, downgrades, task, from, adds, drops, copied>>
  BY DEF Stamp, Goto, After
<1>8. /\ pc' \in [Job -> {"reconcile", "begin"} \cup Stages \cup Ended]
      /\ pc'[j] = StageAt(task[j], After(j)) /\ \A k \in Job \ {j} : pc'[k] = pc[k]
      /\ at' \in [Job -> 0..3] /\ at'[j] = After(j) /\ \A k \in Job \ {j} : at'[k] = at[k]
  BY <1>1, <1>4, <1>5, <1>7 DEF TypeOK
<1>9. TypeOK'
  BY <1>1, <1>6, <1>7, <1>8 DEF TypeOK, database, runner
<1>10. \A k \in Job \ {j} : Same(k)
  BY <1>6, <1>7, <1>8 DEF Same
<1> QED
  BY <1>1, <1>2, <1>3, <1>4, <1>5, <1>6, <1>7, <1>8, <1>9, <1>10 DEF database

LEMMA StampKeeps ==
  ASSUME IInv, NEW j \in Job, Stamp(j)
  PROVE  IInv'
<1>2. /\ TypeOK /\ pc[j] = "stamp" /\ stamp[task[j].side] = from[j] /\ After(j) \in 0..3
      /\ pc'[j] = StageAt(task[j], After(j)) /\ at'[j] = After(j)
      /\ task'[j] = task[j] /\ from'[j] = from[j]
      /\ adds'[j] = adds[j] /\ drops'[j] = drops[j] /\ copied'[j] = copied[j]
      /\ shared'[j] = shared[j] /\ owned'[j] = owned[j] \cup {Row(task[j].side)}
      /\ stamp' = stamp /\ catalog' = catalog /\ rows' = rows
  BY StampEffect
<1>3. JobHolds(j) /\ Position(j) /\ Changes(j) /\ CopyIsCurrent(j) /\ CheckHolds(j)
  BY StampEffect
<1>4. /\ StageAt(task[j], After(j)) \in {"commit", "check", "apply"}
      /\ StageAt(task[j], After(j)) = "commit" <=> After(j) = task[j].target \/ (task[j].up /\ After(j) > task[j].target)
      /\ StageAt(task[j], After(j)) = "check" =>
           task[j].up /\ (After(j) = 2 \/ (After(j) = 0 /\ task[j].side = "worker"))
      /\ StageAt(task[j], After(j)) = "apply" => ~(task[j].up /\ After(j) = 2)
  <2>1. task[j] \in Task
    BY <1>2 DEF TypeOK
  <2> QED
    BY <1>2, <2>1, StageTyped
<1>5. Origin(j)' = Origin(j) /\ Done(j)' = Done(j) /\ Done(j) = After(j) /\ HasRow(j)'
  BY <1>2, <1>4 DEF Origin, Done, HasRow, After
<1>6. from[j] # 3
  <2>1. CASE HasRow(j)
    BY <1>3, <2>1 DEF JobHolds
  <2>2. CASE ~HasRow(j)
    <3>1. at[j] = Origin(j) /\ at[j] # 3
      BY <1>2, <1>3, <2>2, JobTyped DEF Position
    <3> QED
      BY <3>1 DEF Origin, NoTable
  <2> QED
    BY <2>1, <2>2
<1>7. JobHolds(j)'
  BY <1>2, <1>3, <1>6 DEF JobHolds
<1>8. Position(j)'
  <2>1. task[j].target \in 0..3 /\ task[j].up \in BOOLEAN /\ at[j] \in 0..3 /\ Origin(j) \in 0..3
    BY <1>2, JobTyped
  <2>2. IF task[j].up THEN Origin(j) <= After(j) ELSE After(j) <= Origin(j)
    BY <1>2, <1>3, <1>5, <2>1 DEF Position, Done
  <2>3. IF task[j].up THEN at[j] < task[j].target ELSE at[j] > task[j].target
    BY <1>2, <1>3 DEF Position
  <2> QED
    BY <1>2, <1>4, <1>5, <2>1, <2>2, <2>3 DEF Position, After
<1>9. Changes(j)'
  <2>1. Seen(j)' = Seen(j)
    BY <1>2 DEF Seen
  <2> QED
    BY <1>2, <1>3, <1>5, <2>1 DEF Changes
<1>10. CopyIsCurrent(j)'
  <2>1. Copying(j)' => Copying(j)
    BY <1>2, <1>4, JobTyped DEF Copying, After
  <2>2. Seen(j)' = Seen(j)
    BY <1>2 DEF Seen
  <2> QED
    BY <1>2, <1>3, <1>4, <2>1, <2>2 DEF CopyIsCurrent
<1>11. CheckHolds(j)'
  BY <1>2, <1>3, <1>4, JobTyped DEF CheckHolds, After
<1>12. JobInv(j)'
  BY <1>7, <1>8, <1>9, <1>10, <1>11 DEF JobInv
<1>13. pc[j] \in Stages
  BY <1>2 DEF Stages
<1> QED
  BY <1>12, <1>13, StampEffect, Inside

-----------------------------------------------------------------------------
(* Ends *)

\* A job that leaves its transaction and changes no table.
LEMMA FailKeeps ==
  ASSUME IInv, NEW j \in Job, pc[j] \in Alive, Fail(j), faults' \in Nat
  PROVE  IInv'
<1>1. TypeOK /\ Release(j) /\ UNCHANGED <<database, runner, downgrades>>
  BY DEF IInv, Fail
<1>2. /\ Told(j, "failed") \in {"failed", "none"}
      /\ Told(j, "failed") = "failed" <=> j = gateJob
  BY DEF Told
<1>3. /\ pc' \in [Job -> {"reconcile", "begin"} \cup Stages \cup Ended]
      /\ pc'[j] = Told(j, "failed") /\ \A k \in Job \ {j} : pc'[k] = pc[k]
  <2>1. pc' = [pc EXCEPT ![j] = Told(j, "failed")]
    BY DEF Fail
  <2> QED
    BY <1>1, <1>2, <2>1 DEF TypeOK, Ended
<1>4. TypeOK'
  BY <1>1, <1>3, ReleaseEffect DEF TypeOK, database, runner
<1>5. \A k \in Job \ {j} : Same(k)
  BY <1>1, <1>3, ReleaseEffect DEF Same
<1>6. SameTables
  BY <1>1 DEF SameTables, database
<1>7. ~InTransaction(j)'
  BY <1>2, <1>3 DEF InTransaction, Stages
<1>8. IdleHoldsNothing'
  BY <1>1, <1>5, ReleaseEffect DEF IInv, IdleHoldsNothing, InTransaction, Same
<1>9. LegacyAdopted'
  <2>1. pc'[j] \notin {"begin"} \cup Stages
    BY <1>2, <1>3 DEF Stages
  <2> QED
    BY <1>1, <1>5, <2>1 DEF IInv, LegacyAdopted, database, Same
<1>10. \A k \in Job : JobInv(k)'
  BY <1>5, <1>6, <1>7, JobFrame DEF IInv, JobInv
<1>11. RolloutFits'
  <2>1. runtime # "old"
    BY DEF IInv, RolloutFits, Alive, Stages
  <2>2. pc[j] \notin Ended
    BY DEF Alive, Stages, Ended
  <2>3. gateJob \in Job \cup {Nobody}
    BY <1>1 DEF TypeOK
  <2>4. \A k \in Job \ {j} : pc'[k] = pc[k] /\ task'[k] = task[k]
    BY <1>5 DEF Same
  <2> QED
    BY <1>1, <1>2, <1>3, <2>1, <2>2, <2>3, <2>4 DEF IInv, RolloutFits, database, runner, Ended
<1>12. StampsFitCatalog'
  BY <1>1 DEF IInv, StampsFitCatalog, database
<1> QED
  BY <1>1, <1>4, <1>8, <1>9, <1>10, <1>11, <1>12, ReleaseEffect DEF IInv

-----------------------------------------------------------------------------
(* Commit *)

LEMMA CommitEffect ==
  ASSUME IInv, NEW j \in Job, Commit(j)
  PROVE  /\ TypeOK /\ pc[j] = "commit" /\ Done(j) = at[j]
         /\ JobHolds(j) /\ Position(j) /\ Changes(j) /\ CopyIsCurrent(j) /\ CheckHolds(j)
         /\ MovesStamp(j) => stamp'[task[j].side] = at[j]
         /\ ~MovesStamp(j) => stamp' = stamp
         /\ \A s \in Side \ {task[j].side} : stamp'[s] = stamp[s]
         /\ catalog' = (catalog \cup adds[j]) \ drops[j] /\ rows' = Contents(j)
         /\ UNCHANGED <<legacy, gate, gateJob, runtime>>
         /\ pc'[j] = Told(j, "complete") /\ Told(j, "complete") \in {"complete", "none"}
         /\ Told(j, "complete") = "complete" <=> j = gateJob
         /\ TypeOK' /\ LocksExclude' /\ IdleHoldsNothing' /\ ~InTransaction(j)'
         /\ \A k \in Job \ {j} : Same(k)
<1>1. TypeOK /\ pc[j] = "commit" /\ pc[j] \in Stages /\ Release(j)
  BY DEF IInv, Commit, Stages
<1>2. JobHolds(j) /\ Position(j) /\ Changes(j) /\ CopyIsCurrent(j) /\ CheckHolds(j)
  BY <1>1 DEF IInv, JobInv, InTransaction
<1>3. task[j].side \in Side /\ at[j] \in 0..3
  BY <1>1, JobTyped
<1>4. /\ MovesStamp(j) => stamp'[task[j].side] = at[j]
      /\ ~MovesStamp(j) => stamp' = stamp
      /\ \A s \in Side \ {task[j].side} : stamp'[s] = stamp[s]
      /\ stamp' \in [Side -> -1..3]
  <2>1. stamp' = IF MovesStamp(j) THEN [stamp EXCEPT ![task[j].side] = at[j]] ELSE stamp
    BY DEF Commit
  <2> QED
    BY <1>1, <1>3, <2>1 DEF TypeOK
<1>5. /\ catalog' = (catalog \cup adds[j]) \ drops[j] /\ rows' = Contents(j)
      /\ catalog' \in SUBSET Features /\ rows' \in Nat
  BY <1>1 DEF Commit, Seen, Contents, TypeOK
<1>6. /\ Told(j, "complete") \in {"complete", "none"}
      /\ Told(j, "complete") = "complete" <=> j = gateJob
  BY DEF Told
<1>7. /\ pc' \in [Job -> {"reconcile", "begin"} \cup Stages \cup Ended]
      /\ pc'[j] = Told(j, "complete") /\ \A k \in Job \ {j} : pc'[k] = pc[k]
  <2>1. pc' = [pc EXCEPT ![j] = Told(j, "complete")]
    BY DEF Commit, Goto
  <2> QED
    BY <1>1, <1>6, <2>1 DEF TypeOK, Ended
<1>8. UNCHANGED <<legacy, gate, gateJob, runtime, faults, downgrades>>
  BY DEF Commit, runner
<1>9. TypeOK'
  BY <1>1, <1>4, <1>5, <1>7, <1>8, ReleaseEffect DEF TypeOK
<1>10. \A k \in Job \ {j} : Same(k)
  BY <1>1, <1>7, ReleaseEffect DEF Same
<1>11. ~InTransaction(j)'
  BY <1>6, <1>7 DEF InTransaction, Stages
<1>12. IdleHoldsNothing'
  BY <1>1, <1>10, ReleaseEffect DEF IInv, IdleHoldsNothing, InTransaction, Same
<1> QED
  BY <1>1, <1>2, <1>4, <1>5, <1>6, <1>7, <1>8, <1>9, <1>10, <1>11, <1>12, ReleaseEffect DEF Done

\* A commit that moves a stamp moves it from the revision the job began with.
LEMMA Moves ==
  ASSUME IInv, NEW j \in Job, pc[j] \in Stages, MovesStamp(j)
  PROVE  /\ stamp[task[j].side] = from[j] /\ from[j] # 3
         /\ from[j] = NoTable => Version(task[j].side) \in owned[j]
  BY DEF IInv, JobInv, InTransaction, JobHolds, MovesStamp, HasRow, NoTable

\* A commit that does not move the stamp changes nothing that the stamps tell.
LEMMA Stays ==
  ASSUME IInv, NEW j \in Job, Commit(j), ~MovesStamp(j)
  PROVE  /\ Converted \cap adds[j] \subseteq {"base", "normalization"}
         /\ "ordinary" \notin drops[j]
         /\ task[j].side = "worker" => {"base", "lifecycle", "analysis"} \cap drops[j] = {}
         /\ at[j] = from[j]
<1>1. ~HasRow(j) /\ from[j] # NoTable
  BY DEF MovesStamp, HasRow
<1>2. at[j] = from[j] /\ Origin(j) = at[j] /\ Done(j) = at[j] /\ at[j] \in 0..3
  BY <1>1, CommitEffect, JobTyped DEF Position, Origin
<1>3. task[j].side \in {"backend", "worker"} /\ adds[j] \subseteq Features
  BY CommitEffect, JobTyped DEF TypeOK, Side
<1>4. CASE task[j].side = "worker"
  BY <1>2, <1>3, <1>4, CommitEffect DEF Changes, Converted, Features
<1>5. CASE task[j].side = "backend"
  BY <1>2, <1>3, <1>5, CommitEffect DEF Changes, Converted, Features
<1> QED
  BY <1>2, <1>3, <1>4, <1>5

\* A conversion that commits is alone in its stream, and its copy is whole.
LEMMA Converts ==
  ASSUME IInv, NEW j \in Job, Commit(j), "ordinary" \in adds[j]
  PROVE  /\ task[j].side = "backend" /\ at[j] = 3 /\ MovesStamp(j) /\ drops[j] = {}
         /\ {"base", "normalization", "lifecycle"} \subseteq Seen(j)
         /\ {"alerts", "runs"} \subseteq shared[j] /\ "versionBackend" \in owned[j]
         /\ copied[j] = rows
<1>1. task[j].side \in {"backend", "worker"} /\ Origin(j) \in 0..3
  BY CommitEffect, JobTyped DEF Side
<1>2. task[j].side = "backend"
  BY <1>1, CommitEffect DEF Changes
<1>3. task[j].up /\ Origin(j) < 3 /\ at[j] = 3 /\ drops[j] = {}
  BY <1>2, CommitEffect DEF Changes
<1>4. from[j] # 3
  BY <1>3 DEF Origin, NoTable
<1>5. Copying(j)
  BY <1>2, <1>3, <1>4 DEF Copying
<1>6. MovesStamp(j)
  BY <1>1, <1>3, CommitEffect DEF Position, MovesStamp, HasRow
<1> QED
  BY <1>2, <1>3, <1>5, <1>6, CommitEffect DEF CopyIsCurrent

\* Stamp 3 of the Backend and stamp 3 of the worker are final.
LEMMA Final ==
  ASSUME IInv, NEW j \in Job, Commit(j)
  PROVE  /\ stamp["backend"] = 3 => stamp'["backend"] = 3
         /\ stamp["worker"] = 3 => stamp'["worker"] = 3
<1>1. pc[j] \in Stages /\ task[j].side \in {"backend", "worker"}
  BY CommitEffect, JobTyped DEF Stages, Side
<1>2. CASE MovesStamp(j)
  BY <1>1, <1>2, Moves, CommitEffect DEF Side
<1>3. CASE ~MovesStamp(j)
  BY <1>3, CommitEffect
<1> QED
  BY <1>2, <1>3

\* Whoever commits a change of the stamp of the Backend to 3 has converted.
LEMMA ReachesThree ==
  ASSUME IInv, NEW j \in Job, Commit(j), stamp["backend"] # 3, stamp'["backend"] = 3
  PROVE  task[j].side = "backend" /\ at[j] = 3 /\ "ordinary" \in adds[j] /\ MovesStamp(j)
<1>1. pc[j] \in Stages /\ task[j].side \in {"backend", "worker"} /\ Origin(j) \in 0..3
  BY CommitEffect, JobTyped DEF Stages, Side
<1>2. task[j].side = "backend" /\ MovesStamp(j) /\ at[j] = 3
  BY <1>1, CommitEffect DEF Side
<1>3. from[j] # 3 /\ Origin(j) # 3
  BY <1>1, <1>2, Moves DEF Origin
<1>4. task[j].up
  BY <1>1, <1>2, <1>3, CommitEffect, JobTyped DEF Position
<1> QED
  BY <1>1, <1>2, <1>3, <1>4, CommitEffect DEF Changes

\* What a worker job that commits has done to the two features of its stream.
LEMMA WorkerCommit ==
  ASSUME IInv, NEW j \in Job, Commit(j), task[j].side = "worker", MovesStamp(j)
  PROVE  /\ stamp'["worker"] = at[j] /\ at[j] \in 0..3
         /\ "lifecycle" \in catalog' => at[j] >= 1 /\ ("analysis" \in catalog' <=> at[j] >= 2)
         /\ "analysis" \in catalog' => "lifecycle" \in catalog'
         /\ at[j] >= 1 /\ stamp["backend"] = 3 => "lifecycle" \in catalog'
<1>1. /\ pc[j] \in Stages /\ at[j] \in 0..3 /\ Origin(j) \in 0..3 /\ from[j] \in -1..3
      /\ task[j].up \in BOOLEAN /\ stamp["worker"] \in -1..3
  BY CommitEffect, JobTyped DEF Stages, TypeOK, Side
<1>2. stamp["worker"] = from[j] /\ stamp'["worker"] = at[j]
  BY <1>1, Moves, CommitEffect
<1>3. Origin(j) = IF stamp["worker"] = -1 THEN 0 ELSE stamp["worker"]
  BY <1>2 DEF Origin, NoTable
<1>4. /\ "lifecycle" \in catalog => stamp["worker"] >= 1
      /\ "lifecycle" \in catalog => ("analysis" \in catalog <=> stamp["worker"] >= 2)
      /\ "analysis" \in catalog => "lifecycle" \in catalog
      /\ stamp["backend"] = 3 /\ stamp["worker"] >= 1 => "lifecycle" \in catalog
  BY DEF IInv, StampsFitCatalog
<1>5. CASE task[j].up
  <2>1. /\ Origin(j) <= at[j] /\ catalog' = catalog \cup adds[j]
        /\ "lifecycle" \in adds[j] <=> Origin(j) < 1 /\ at[j] >= 1
        /\ "analysis" \in adds[j] <=> Origin(j) < 2 /\ at[j] >= 2
        /\ "analysis" \in adds[j] => "lifecycle" \in catalog'
    BY <1>5, CommitEffect DEF Position, Changes, Seen
  <2> QED
    BY <1>1, <1>2, <1>3, <1>4, <2>1
<1>6. CASE ~task[j].up
  <2>1. /\ at[j] <= Origin(j) /\ catalog' = catalog \ drops[j]
        /\ "lifecycle" \in drops[j] <=> Origin(j) >= 1 /\ at[j] < 1
        /\ "analysis" \in drops[j] <=> Origin(j) >= 2 /\ at[j] < 2
    BY <1>6, CommitEffect DEF Position, Changes
  <2> QED
    BY <1>1, <1>2, <1>3, <1>4, <2>1
<1> QED
  BY <1>1, <1>5, <1>6

\* Any other commit does not touch them, or the whole schema goes.
LEMMA OtherCommit ==
  ASSUME IInv, NEW j \in Job, Commit(j), task[j].side = "backend" \/ ~MovesStamp(j)
  PROVE  /\ stamp'["worker"] = stamp["worker"]
         /\ \/ \A f \in {"lifecycle", "analysis"} : f \in catalog' <=> f \in catalog
            \/ task[j].side = "backend" /\ from[j] # 3 /\ {"lifecycle", "analysis"} \cap catalog' = {}
<1>1. task[j].side \in {"backend", "worker"}
  BY CommitEffect, JobTyped DEF Side
<1>2. stamp'["worker"] = stamp["worker"]
  BY <1>1, CommitEffect DEF Side
<1>3. CASE task[j].side = "backend"
  <2>1. /\ {"lifecycle", "analysis"} \cap adds[j] = {}
        /\ "lifecycle" \in drops[j] <=> "analysis" \in drops[j]
        /\ "lifecycle" \in drops[j] => from[j] # 3
    BY <1>3, CommitEffect DEF Changes
  <2>2. CASE "lifecycle" \in drops[j]
    BY <1>2, <1>3, <2>1, <2>2, CommitEffect
  <2>3. CASE "lifecycle" \notin drops[j]
    BY <1>2, <2>1, <2>3, CommitEffect
  <2> QED
    BY <2>2, <2>3
<1>4. CASE task[j].side = "worker"
  <2>1. {"lifecycle", "analysis"} \cap adds[j] = {} /\ {"lifecycle", "analysis"} \cap drops[j] = {}
    BY <1>4, Stays DEF Converted, Features
  <2> QED
    BY <1>2, <2>1, CommitEffect
<1> QED
  BY <1>1, <1>3, <1>4

\* The stamps tell the truth about the schema after a commit, too.
LEMMA CommitStamps ==
  ASSUME IInv, NEW j \in Job, Commit(j)
  PROVE  StampsFitCatalog'
<1>1. pc[j] \in Stages /\ task[j].side \in {"backend", "worker"} /\ TypeOK
  BY CommitEffect, JobTyped DEF Stages, Side
<1>2. StampsFitCatalog /\ catalog' = (catalog \cup adds[j]) \ drops[j] /\ legacy' = legacy
  BY CommitEffect DEF IInv
<1>3. "ordinary" \notin drops[j]
  BY <1>1, CommitEffect DEF Changes
<1>4. stamp["backend"] = 3 /\ task[j].side = "backend" => from[j] = 3
  BY CommitEffect DEF JobHolds
<1>5. "ordinary" \in catalog' <=> stamp'["backend"] = 3
  <2>1. CASE "ordinary" \in adds[j]
    <3>1. stamp'["backend"] = 3
      BY <2>1, Converts, CommitEffect
    <3> QED
      BY <1>2, <1>3, <2>1, <3>1
  <2>2. CASE "ordinary" \notin adds[j]
    <3>1. "ordinary" \in catalog' <=> "ordinary" \in catalog
      BY <1>2, <1>3, <2>2
    <3>2. stamp'["backend"] = 3 => stamp["backend"] = 3
      BY <2>2, ReachesThree
    <3> QED
      BY <1>2, <3>1, <3>2, Final DEF StampsFitCatalog
  <2> QED
    BY <2>1, <2>2
<1>6. stamp'["backend"] = 3 => {"base", "normalization"} \subseteq catalog'
  <2> SUFFICES ASSUME stamp'["backend"] = 3 PROVE {"base", "normalization"} \subseteq catalog'
    OBVIOUS
  <2>1. CASE stamp["backend"] = 3
    <3>1. {"base", "normalization"} \cap drops[j] = {}
      BY <1>1, <1>4, <2>1, CommitEffect DEF Changes
    <3> QED
      BY <1>2, <2>1, <3>1 DEF StampsFitCatalog
  <2>2. CASE stamp["backend"] # 3
    BY <1>2, <2>2, ReachesThree, Converts DEF Seen
  <2> QED
    BY <2>1, <2>2
<1>7. stamp'["backend"] = 3 /\ stamp'["worker"] >= 1 => "lifecycle" \in catalog'
  <2> SUFFICES ASSUME stamp'["backend"] = 3, stamp'["worker"] >= 1 PROVE "lifecycle" \in catalog'
    OBVIOUS
  <2>1. CASE stamp["backend"] # 3
    BY <1>2, <2>1, ReachesThree, Converts DEF Seen
  <2>2. CASE stamp["backend"] = 3 /\ task[j].side = "worker" /\ MovesStamp(j)
    BY <2>2, WorkerCommit
  <2>3. CASE stamp["backend"] = 3 /\ (task[j].side = "backend" \/ ~MovesStamp(j))
    <3>1. "lifecycle" \in catalog
      BY <1>2, <2>3, OtherCommit DEF StampsFitCatalog
    <3> QED
      BY <1>4, <2>3, <3>1, OtherCommit
  <2> QED
    BY <1>1, <2>1, <2>2, <2>3
<1>8. /\ "lifecycle" \in catalog' => /\ stamp'["worker"] >= 1
                                     /\ "analysis" \in catalog' <=> stamp'["worker"] >= 2
      /\ "analysis" \in catalog' => "lifecycle" \in catalog'
  <2>1. CASE task[j].side = "worker" /\ MovesStamp(j)
    BY <2>1, WorkerCommit
  <2>2. CASE task[j].side = "backend" \/ ~MovesStamp(j)
    BY <1>2, <2>2, OtherCommit DEF StampsFitCatalog
  <2> QED
    BY <1>1, <2>1, <2>2
<1>9. legacy' # NoLegacy => stamp'["backend"] # 3
  <2>1. CASE task[j].side = "backend"
    BY <1>1, <1>2, <2>1 DEF IInv, LegacyAdopted
  <2>2. CASE task[j].side = "worker"
    BY <1>2, <2>2, CommitEffect DEF StampsFitCatalog, Side
  <2> QED
    BY <1>1, <2>1, <2>2
<1>10. stamp'["worker"] = 3 => stamp'["backend"] = 3
  <2>1. CASE stamp["worker"] = 3
    BY <1>2, <2>1, Final DEF StampsFitCatalog
  <2>2. CASE stamp["worker"] # 3 /\ stamp'["worker"] = 3
    <3>1. task[j].side = "worker" /\ MovesStamp(j) /\ at[j] = 3 /\ from[j] # 3
      BY <1>1, <2>2, CommitEffect, Moves DEF Side
    <3>2. task[j].up
      BY <3>1, CommitEffect, JobTyped DEF Position, Origin
    <3>3. stamp["backend"] = 3
      BY <3>1, <3>2, CommitEffect DEF CheckHolds
    <3> QED
      BY <3>3, Final
  <2> QED
    BY <2>1, <2>2
<1> QED
  BY <1>5, <1>6, <1>7, <1>8, <1>9, <1>10 DEF StampsFitCatalog

\* What the locks of two jobs in their transactions exclude.
LEMMA Apart ==
  ASSUME IInv, NEW j \in Job, NEW k \in Job \ {j}
  PROVE  owned[j] \cap (owned[k] \cup shared[k]) = {} /\ owned[k] \cap (owned[j] \cup shared[j]) = {}
  BY DEF IInv, LocksExclude

\* A commit does not reach another job that is in its transaction.
LEMMA CommitOthers ==
  ASSUME IInv, NEW j \in Job, Commit(j), NEW k \in Job \ {j}
  PROVE  JobInv(k)'
<1> SUFFICES ASSUME InTransaction(k)'
             PROVE  (JobHolds(k) /\ Position(k) /\ Changes(k) /\ CopyIsCurrent(k) /\ CheckHolds(k))'
  BY DEF JobInv
<1>1. /\ pc'[k] = pc[k] /\ task'[k] = task[k] /\ from'[k] = from[k] /\ at'[k] = at[k]
      /\ adds'[k] = adds[k] /\ drops'[k] = drops[k] /\ copied'[k] = copied[k]
      /\ shared'[k] = shared[k] /\ owned'[k] = owned[k]
  BY CommitEffect DEF Same
<1>2. JobHolds(k) /\ Position(k) /\ Changes(k) /\ CopyIsCurrent(k) /\ CheckHolds(k)
  BY <1>1 DEF IInv, JobInv, InTransaction
<1>3. /\ pc[j] \in Stages /\ TypeOK
      /\ task[j].side \in {"backend", "worker"} /\ task[k].side \in {"backend", "worker"}
  BY CommitEffect, JobTyped DEF Stages, Side
<1>4. Origin(k)' = Origin(k) /\ Done(k)' = Done(k) /\ (HasRow(k)' <=> HasRow(k))
      /\ (Copying(k)' <=> Copying(k))
  BY <1>1 DEF Origin, Done, HasRow, Copying
<1>5. MovesStamp(j) /\ task[k].side = task[j].side => HasRow(j) /\ ~HasRow(k) /\ from[k] # NoTable
  <2> SUFFICES ASSUME MovesStamp(j), task[k].side = task[j].side
               PROVE  HasRow(j) /\ ~HasRow(k) /\ from[k] # NoTable
    OBVIOUS
  <2>1. Version(task[j].side) \in shared[j] /\ Version(task[j].side) \in shared[k]
    BY <1>2, CommitEffect DEF JobHolds
  <2>2. from[j] # NoTable
    BY <1>3, <2>1, Moves, Apart
  <2>3. HasRow(j)
    BY <2>2 DEF MovesStamp, HasRow
  <2>4. ~HasRow(k)
    BY <2>3, Apart DEF HasRow
  <2>5. from[k] # NoTable
    BY <1>2, <2>1, Apart DEF JobHolds
  <2> QED
    BY <2>3, <2>4, <2>5
<1>6. task[k].side = task[j].side /\ MovesStamp(j) => from[k] # 3
  BY <1>2, <1>3, Moves DEF JobHolds
<1>7. stamp'[task[k].side] = stamp[task[k].side] \/ (task[k].side = task[j].side /\ MovesStamp(j))
  BY <1>3, CommitEffect DEF Side
<1>8. task[k].side = "backend" /\ stamp'["backend"] = 3 => from[k] = 3
  <2>1. CASE stamp["backend"] = 3
    BY <1>2, <2>1 DEF JobHolds
  <2>2. CASE stamp["backend"] # 3 /\ task[k].side = "backend"
    <3>1. "versionBackend" \in shared[k]
      BY <1>2, <2>2 DEF JobHolds, Version
    <3> QED
      BY <2>2, <3>1, ReachesThree, Converts, Apart
  <2> QED
    BY <2>1, <2>2
<1>9. JobHolds(k)'
  <2>1. /\ Version(task'[k].side) \in shared'[k]
        /\ (adds'[k] \cup drops'[k]) \cap {"base", "normalization"} # {} => "alerts" \in owned'[k]
        /\ (adds'[k] \cup drops'[k]) \cap {"lifecycle", "analysis"} # {} => "runs" \in owned'[k]
    BY <1>1, <1>2 DEF JobHolds
  <2>2. from'[k] = NoTable => Version(task'[k].side) \in owned'[k] /\ stamp'[task'[k].side] = NoTable
    BY <1>1, <1>2, <1>5, <1>7 DEF JobHolds
  <2>3. from'[k] = 3 => stamp'[task'[k].side] = 3
    BY <1>1, <1>2, <1>6, <1>7 DEF JobHolds
  <2>4. HasRow(k)' => from'[k] # 3 /\ (stamp'[task'[k].side] = from'[k] \/ from'[k] = NoTable)
    BY <1>1, <1>2, <1>4, <1>5, <1>7 DEF JobHolds
  <2>5. task'[k].side = "backend" /\ stamp'["backend"] = 3 => from'[k] = 3
    BY <1>1, <1>8
  <2> QED
    BY <2>1, <2>2, <2>3, <2>4, <2>5 DEF JobHolds
<1>10. Position(k)'
  BY <1>1, <1>2, <1>4 DEF Position
<1>11. catalog' = (catalog \cup adds[j]) \ drops[j]
  BY CommitEffect
<1>12. \A f \in {"lifecycle", "analysis"} :
         "runs" \in owned[k] \cup shared[k] => (f \in catalog' <=> f \in catalog)
  <2>1. "runs" \in owned[k] \cup shared[k] => "runs" \notin owned[j]
    BY Apart
  <2>2. (adds[j] \cup drops[j]) \cap {"lifecycle", "analysis"} # {} => "runs" \in owned[j]
    BY CommitEffect DEF JobHolds
  <2> QED
    BY <1>11, <2>1, <2>2
<1>13. Changes(k)'
  <2>1. "lifecycle" \in adds[k] \/ "analysis" \in adds[k] => "runs" \in owned[k]
    BY <1>2 DEF JobHolds
  <2>2. "lifecycle" \in adds[k] /\ task[k].side = "worker" => "lifecycle" \notin catalog'
    BY <1>2, <1>12, <2>1 DEF Changes
  <2>3. "analysis" \in adds[k] /\ task[k].side = "worker" => "lifecycle" \in Seen(k)'
    BY <1>1, <1>2, <1>12, <2>1 DEF Changes, Seen
  <2> QED
    BY <1>1, <1>2, <1>4, <2>2, <2>3 DEF Changes
<1>14. CopyIsCurrent(k)'
  <2> SUFFICES ASSUME Copying(k)
               PROVE  /\ {"base", "normalization", "lifecycle"} \subseteq Seen(k)'
                      /\ copied[k] = rows'
    BY <1>1, <1>2, <1>4 DEF CopyIsCurrent
  <2>1. /\ {"base", "normalization", "lifecycle"} \subseteq Seen(k)
        /\ "alerts" \in shared[k] /\ "runs" \in shared[k] /\ "versionBackend" \in owned[k]
        /\ copied[k] = rows
    BY <1>2 DEF CopyIsCurrent
  <2>2. {"base", "normalization"} \cap drops[j] = {}
    <3>1. "alerts" \notin owned[j]
      BY <2>1, Apart
    <3> QED
      BY <3>1, CommitEffect DEF JobHolds
  <2>3. {"base", "normalization", "lifecycle"} \subseteq Seen(k)'
    BY <1>1, <1>11, <1>12, <2>1, <2>2 DEF Seen
  <2>4. "ordinary" \notin adds[j]
    BY <2>1, Converts, Apart
  <2> QED
    BY <2>1, <2>2, <2>3, <2>4, CommitEffect DEF Contents
<1>15. CheckHolds(k)'
  BY <1>1, <1>2, Final DEF CheckHolds
<1> QED
  BY <1>9, <1>10, <1>13, <1>14, <1>15

LEMMA CommitKeeps ==
  ASSUME IInv, NEW j \in Job, Commit(j)
  PROVE  IInv'
<1>1. TypeOK' /\ LocksExclude' /\ IdleHoldsNothing' /\ StampsFitCatalog'
  BY CommitEffect, CommitStamps
<1>2. \A k \in Job : JobInv(k)'
  BY CommitEffect, CommitOthers DEF JobInv
<1>3. LegacyAdopted'
  <2>1. pc'[j] \notin {"begin"} \cup Stages
    BY CommitEffect DEF Stages
  <2>2. legacy' = legacy /\ \A k \in Job \ {j} : pc'[k] = pc[k] /\ task'[k] = task[k]
    BY CommitEffect DEF Same
  <2> QED
    BY <2>1, <2>2 DEF IInv, LegacyAdopted
<1>4. RolloutFits'
  <2>1. /\ TypeOK /\ pc[j] = "commit" /\ gate' = gate /\ gateJob' = gateJob /\ runtime' = runtime
        /\ pc'[j] \in {"complete", "none"} /\ (pc'[j] = "complete" <=> j = gateJob)
        /\ \A k \in Job \ {j} : pc'[k] = pc[k] /\ task'[k] = task[k]
    BY CommitEffect DEF Same
  <2>2. runtime # "old"
    BY <2>1 DEF IInv, RolloutFits
  <2>3. stamp["worker"] = 3 => stamp'["worker"] = 3
    BY Final
  <2>4. gate = 4 /\ gateJob = j => stamp'["worker"] = 3
    <3> SUFFICES ASSUME gate = 4, gateJob = j PROVE stamp'["worker"] = 3
      OBVIOUS
    <3>1. task[j] = [side |-> "worker", target |-> 3, up |-> TRUE]
      <4>1. gateJob # Nobody
        BY GateAssumption
      <4>2. pc[j] \notin Ended
        BY <2>1 DEF Ended
      <4> QED
        BY <4>1, <4>2 DEF IInv, RolloutFits, GateTask
    <3>2. task[j].side = "worker" /\ task[j].target = 3 /\ task[j].up
      BY <3>1
    <3>3. at[j] = 3
      BY <2>1, <3>2, CommitEffect, JobTyped DEF Position
    <3>4. CASE MovesStamp(j)
      BY <3>2, <3>3, <3>4, CommitEffect
    <3>5. CASE ~MovesStamp(j)
      <4>1. from[j] = 3
        BY <3>3, <3>5, Stays
      <4> QED
        BY <3>2, <3>5, <4>1, CommitEffect DEF JobHolds
    <3> QED
      BY <3>4, <3>5
  <2>5. gateJob \in Job \cup {Nobody}
    BY <2>1 DEF TypeOK
  <2>6. /\ gate' # 0 => runtime' = "none"
        /\ gate' \notin 1..4 => gateJob' = Nobody
        /\ runtime' = "old" => stamp'["backend"] # 3 /\ \A k \in Job : pc'[k] = "none"
        /\ gate' = 5 \/ runtime' = "new" => stamp'["worker"] = 3
    BY <2>1, <2>2, <2>3 DEF IInv, RolloutFits
  <2>7. \A k \in Job : pc'[k] \in {"complete", "failed"} => gateJob' = k
    BY <2>1 DEF IInv, RolloutFits
  <2>8. gateJob' # Nobody /\ gate' = 4 =>
          /\ pc'[gateJob'] \notin Ended => task'[gateJob'] = GateTask[4]
          /\ pc'[gateJob'] = "complete" => stamp'["worker"] = 3
          /\ pc'[gateJob'] # "none"
    <3>1. CASE gateJob = j
      BY <2>1, <2>4, <3>1 DEF Ended
    <3>2. CASE gateJob # j
      BY <2>1, <2>3, <2>5, <3>2 DEF IInv, RolloutFits
    <3> QED
      BY <3>1, <3>2
  <2> QED
    BY <2>6, <2>7, <2>8 DEF RolloutFits
<1> QED
  BY <1>1, <1>2, <1>3, <1>4 DEF IInv

-----------------------------------------------------------------------------
(* The other steps *)

LEMMA ReconcileKeeps ==
  ASSUME IInv, NEW j \in Job, Reconcile(j)
  PROVE  IInv'
<1>1. /\ TypeOK /\ pc[j] = "reconcile" /\ (legacy = NoLegacy \/ Adopts) /\ legacy' = NoLegacy
      /\ pc' = [pc EXCEPT ![j] = "begin"]
      /\ UNCHANGED <<catalog, rows, runner, faults, downgrades, task, from, work, locks>>
  BY DEF IInv, Reconcile, Goto
<1>2. /\ stamp' \in [Side -> -1..3] /\ stamp'["worker"] = stamp["worker"]
      /\ stamp' = stamp \/ (legacy # NoLegacy /\ stamp["backend"] # 3 /\ stamp'["backend"] # 3)
  <2>1. CASE Adopts
    <3>1. legacy \in 1..2 /\ stamp["backend"] # 3 /\ stamp' = [stamp EXCEPT !["backend"] = legacy]
      BY <1>1, <2>1 DEF Reconcile, Adopts, TypeOK, NoLegacy, NoTable
    <3> QED
      BY <1>1, <3>1 DEF TypeOK, Side, NoLegacy
  <2>2. CASE ~Adopts
    BY <1>1, <2>2 DEF Reconcile, TypeOK
  <2> QED
    BY <2>1, <2>2
<1>3. /\ pc' \in [Job -> {"reconcile", "begin"} \cup Stages \cup Ended]
      /\ pc'[j] = "begin" /\ \A k \in Job \ {j} : pc'[k] = pc[k]
  BY <1>1 DEF TypeOK
<1>4. TypeOK'
  BY <1>1, <1>2, <1>3 DEF TypeOK, runner, work, locks, NoLegacy
<1>5. LocksExclude'
  BY <1>1 DEF IInv, LocksExclude, locks
<1>6. StampsFitCatalog'
  BY <1>1, <1>2 DEF IInv, StampsFitCatalog
<1>7. IdleHoldsNothing'
  BY <1>1, <1>3 DEF IInv, IdleHoldsNothing, InTransaction, work, locks, Stages
<1>8. LegacyAdopted'
  BY <1>1 DEF LegacyAdopted
<1>9. \A k \in Job : JobInv(k)'
  <2> SUFFICES ASSUME NEW k \in Job PROVE JobInv(k)'
    OBVIOUS
  <2>1. CASE k = j
    BY <1>3, <2>1 DEF JobInv, InTransaction, Stages
  <2>2. CASE k # j /\ ~InTransaction(k)
    BY <1>3, <2>2 DEF JobInv, InTransaction
  <2>3. CASE k # j /\ InTransaction(k)
    <3>1. /\ pc'[k] = pc[k] /\ task' = task /\ from' = from /\ at' = at /\ adds' = adds
          /\ drops' = drops /\ copied' = copied /\ shared' = shared /\ owned' = owned
          /\ catalog' = catalog /\ rows' = rows
      BY <1>1, <1>3, <2>3 DEF work, locks
    <3>2. JobHolds(k) /\ Position(k) /\ Changes(k) /\ CopyIsCurrent(k) /\ CheckHolds(k)
      BY <2>3 DEF IInv, JobInv
    <3>3. task[k].side \in {"backend", "worker"}
      BY <1>1, JobTyped DEF Side
    <3>4. task[k].side = "backend" => stamp' = stamp
      BY <1>2, <2>3 DEF IInv, LegacyAdopted, InTransaction
    <3>5. stamp'[task[k].side] = stamp[task[k].side] /\ (stamp["backend"] = 3 => stamp'["backend"] = 3)
      BY <1>2, <3>3, <3>4
    <3>6. Seen(k)' = Seen(k) /\ Origin(k)' = Origin(k) /\ Done(k)' = Done(k)
          /\ (HasRow(k)' <=> HasRow(k)) /\ (Copying(k)' <=> Copying(k))
      BY <3>1 DEF Seen, Origin, Done, HasRow, Copying
    <3>7. JobHolds(k)'
      BY <3>1, <3>2, <3>4, <3>5, <3>6 DEF JobHolds
    <3>8. Position(k)'
      BY <3>1, <3>2, <3>6 DEF Position
    <3>9. Changes(k)'
      BY <3>1, <3>2, <3>6 DEF Changes
    <3>10. CopyIsCurrent(k)'
      BY <3>1, <3>2, <3>6 DEF CopyIsCurrent
    <3>11. CheckHolds(k)'
      BY <3>1, <3>2, <3>5 DEF CheckHolds
    <3> QED
      BY <3>7, <3>8, <3>9, <3>10, <3>11 DEF JobInv
  <2> QED
    BY <2>1, <2>2, <2>3
<1>10. RolloutFits'
  <2>1. runtime # "old"
    BY <1>1 DEF IInv, RolloutFits
  <2>2. gateJob \in Job \cup {Nobody}
    BY <1>1 DEF TypeOK
  <2> QED
    BY <1>1, <1>2, <1>3, <2>1, <2>2 DEF IInv, RolloutFits, runner, Ended
<1> QED
  BY <1>4, <1>5, <1>6, <1>7, <1>8, <1>9, <1>10 DEF IInv

\* Steps that leave the database and every transaction alone.
LEMMA Outside ==
  ASSUME IInv, UNCHANGED <<database, from, work, locks>>, TypeOK', RolloutFits',
         \A k \in Job : \/ task'[k] = task[k] /\ pc'[k] = pc[k]
                        \/ pc'[k] \notin {"begin"} \cup Stages
                        \/ pc'[k] = "begin" /\ task'[k].side = "worker",
         \A k \in Job : pc'[k] \notin Stages => pc[k] \notin Stages
  PROVE  IInv'
<1>1. LocksExclude' /\ StampsFitCatalog'
  BY DEF IInv, LocksExclude, StampsFitCatalog, database, locks
<1>2. IdleHoldsNothing'
  BY DEF IInv, IdleHoldsNothing, InTransaction, work, locks
<1>3. LegacyAdopted'
  BY DEF IInv, LegacyAdopted, database
<1>4. \A k \in Job : JobInv(k)'
  <2> SUFFICES ASSUME NEW k \in Job, pc'[k] \in Stages PROVE JobInv(k)'
    BY DEF JobInv, InTransaction
  <2>1. task'[k] = task[k] /\ pc'[k] = pc[k]
    BY DEF Stages
  <2>2. Same(k) /\ SameTables
    BY <2>1 DEF Same, SameTables, database, work, locks
  <2> QED
    BY <2>2, JobFrame DEF IInv
<1> QED
  BY <1>1, <1>2, <1>3, <1>4 DEF IInv

LEMMA GateTasks ==
  ASSUME NEW g \in 1..4
  PROVE  GateTask[g] \in Task /\ GateTask[4].side = "worker"
<1>1. CASE g = 1
  BY <1>1 DEF GateTask, Task, Side
<1>2. CASE g = 2
  BY <1>2 DEF GateTask, Task, Side
<1>3. CASE g = 3
  BY <1>3 DEF GateTask, Task, Side
<1>4. CASE g = 4
  BY <1>4 DEF GateTask, Task, Side
<1> QED
  BY <1>1, <1>2, <1>3, <1>4 DEF GateTask

LEMMA StartEffect ==
  ASSUME TypeOK, NEW j \in Job, NEW t \in Task, Start(j, t)
  PROVE  /\ pc[j] = "none" /\ pc'[j] \in {"reconcile", "begin"} /\ task'[j] = t
         /\ pc'[j] = "begin" => t.side = "worker"
         /\ pc' \in [Job -> {"reconcile", "begin"} \cup Stages \cup Ended] /\ task' \in [Job -> Task]
         /\ \A k \in Job \ {j} : pc'[k] = pc[k] /\ task'[k] = task[k]
<1>1. /\ pc[j] = "none" /\ task' = [task EXCEPT ![j] = t]
      /\ pc' = [pc EXCEPT ![j] = IF t.side = "backend" THEN "reconcile" ELSE "begin"]
  BY DEF Start
<1>2. t.side \in {"backend", "worker"}
  BY DEF Task, Side
<1> QED
  BY <1>1, <1>2 DEF TypeOK

LEMMA CreateJobKeeps ==
  ASSUME IInv, NEW j \in Job, CreateJob(j)
  PROVE  IInv'
<1>1. /\ TypeOK /\ gate \in 1..4 /\ gateJob = Nobody /\ Start(j, GateTask[gate]) /\ gateJob' = j
      /\ UNCHANGED <<database, gate, runtime, faults, downgrades, from, work, locks>>
  BY DEF IInv, CreateJob
<1>2. GateTask[gate] \in Task
  BY <1>1, GateTasks
<1>3. TypeOK'
  BY <1>1, <1>2, StartEffect DEF TypeOK, database, work, locks
<1>4. RolloutFits'
  <2>1. stamp' = stamp /\ gate' = gate /\ runtime' = runtime /\ runtime = "none" /\ gate # 0 /\ gate # 5
    BY <1>1 DEF IInv, RolloutFits, database
  <2>2. \A k \in Job : pc[k] \notin {"complete", "failed"}
    BY <1>1, GateAssumption DEF IInv, RolloutFits
  <2>3. \A k \in Job : pc'[k] \notin {"complete", "failed"}
    BY <1>1, <1>2, <2>2, StartEffect
  <2>4. pc'[j] # "none" /\ task'[j] = GateTask[gate]
    BY <1>1, <1>2, StartEffect
  <2> QED
    BY <1>1, <2>1, <2>3, <2>4 DEF RolloutFits, Ended
<1> QED
  BY <1>1, <1>2, <1>3, <1>4, StartEffect, Outside DEF Stages

LEMMA DowngradeKeeps ==
  ASSUME IInv, NEW j \in Job, NEW s \in Side, NEW target \in 0..2, DowngradeByHand(j, s, target)
  PROVE  IInv'
<1>1. /\ TypeOK /\ runtime = "none" /\ Start(j, [side |-> s, target |-> target, up |-> FALSE])
      /\ downgrades' = downgrades + 1
      /\ UNCHANGED <<database, runner, faults, from, work, locks>>
  BY DEF IInv, DowngradeByHand
<1>2. [side |-> s, target |-> target, up |-> FALSE] \in Task
  BY DEF Task
<1>3. /\ pc[j] = "none" /\ pc'[j] \in {"reconcile", "begin"}
      /\ pc' \in [Job -> {"reconcile", "begin"} \cup Stages \cup Ended] /\ task' \in [Job -> Task]
      /\ \A k \in Job \ {j} : pc'[k] = pc[k] /\ task'[k] = task[k]
  BY <1>1, <1>2, StartEffect
<1>4. pc'[j] = "begin" => task'[j].side = "worker"
  BY <1>1, <1>2, StartEffect
<1>5. TypeOK'
  BY <1>1, <1>3 DEF TypeOK, database, runner, work, locks
<1>6. RolloutFits'
  <2>1. gateJob \in Job \cup {Nobody}
    BY <1>1 DEF TypeOK
  <2> QED
    BY <1>1, <1>3, <2>1 DEF IInv, RolloutFits, database, runner, Ended
<1> QED
  BY <1>1, <1>3, <1>4, <1>5, <1>6, Outside DEF Stages

\* A job that has ended and whose end is noticed, or lost.
LEMMA EndedEffect ==
  ASSUME TypeOK, NEW j \in Job, NEW e \in {"none", "failed"}, pc' = [pc EXCEPT ![j] = e]
  PROVE  /\ pc' \in [Job -> {"reconcile", "begin"} \cup Stages \cup Ended]
         /\ pc'[j] = e /\ \A k \in Job \ {j} : pc'[k] = pc[k]
  BY DEF TypeOK, Ended

LEMMA GatePassesKeeps ==
  ASSUME IInv, GatePasses
  PROVE  IInv'
<1>1. /\ TypeOK /\ gateJob # Nobody /\ pc[gateJob] = "complete" /\ gate' = gate + 1
      /\ gateJob' = Nobody /\ pc' = [pc EXCEPT ![gateJob] = "none"]
      /\ UNCHANGED <<database, runtime, faults, downgrades, task, from, work, locks>>
  BY DEF IInv, GatePasses, Goto
<1>2. gateJob \in Job /\ gate \in 1..4
  BY <1>1 DEF IInv, TypeOK, RolloutFits
<1>3. /\ pc' \in [Job -> {"reconcile", "begin"} \cup Stages \cup Ended]
      /\ pc'[gateJob] = "none" /\ \A k \in Job \ {gateJob} : pc'[k] = pc[k]
  BY <1>1, <1>2, EndedEffect
<1>4. TypeOK'
  BY <1>1, <1>2, <1>3 DEF TypeOK, database, work, locks
<1>5. RolloutFits'
  <2>1. runtime' = "none" /\ stamp' = stamp /\ task' = task
    BY <1>1, <1>2 DEF IInv, RolloutFits, database
  <2>2. gate = 4 => stamp["worker"] = 3
    BY <1>1 DEF IInv, RolloutFits
  <2>3. \A k \in Job : pc'[k] \notin {"complete", "failed"}
    BY <1>3 DEF IInv, RolloutFits
  <2> QED
    BY <1>1, <1>2, <2>1, <2>2, <2>3 DEF RolloutFits
<1> QED
  BY <1>1, <1>2, <1>3, <1>4, <1>5, Outside DEF Stages

LEMMA GateFailsKeeps ==
  ASSUME IInv, GateFails
  PROVE  IInv'
<1>1. /\ TypeOK /\ gateJob # Nobody /\ pc[gateJob] # "complete" /\ gate' = 0 /\ gateJob' = Nobody
      /\ UNCHANGED <<database, runtime, downgrades, task, from, work, locks>>
  BY DEF IInv, GateFails
<1>2. gateJob \in Job /\ gate \in 1..4
  BY <1>1 DEF IInv, TypeOK, RolloutFits
<1>3. /\ pc' \in [Job -> {"reconcile", "begin"} \cup Stages \cup Ended] /\ faults' \in Nat
      /\ pc'[gateJob] = (IF pc[gateJob] = "failed" THEN "none" ELSE pc[gateJob])
      /\ \A k \in Job \ {gateJob} : pc'[k] = pc[k]
  <2>1. CASE pc[gateJob] = "failed"
    <3>1. pc' = [pc EXCEPT ![gateJob] = "none"] /\ faults' = faults
      BY <2>1 DEF GateFails, Goto
    <3> QED
      BY <1>1, <1>2, <2>1, <3>1, EndedEffect DEF TypeOK
  <2>2. CASE pc[gateJob] # "failed"
    <3>1. pc' = pc /\ faults' = faults + 1
      BY <2>2 DEF GateFails
    <3> QED
      BY <1>1, <1>2, <2>2, <3>1 DEF TypeOK
  <2> QED
    BY <2>1, <2>2
<1>4. TypeOK'
  BY <1>1, <1>2, <1>3 DEF TypeOK, database, work, locks
<1>5. RolloutFits'
  <2>1. runtime' = "none" /\ stamp' = stamp /\ task' = task
    BY <1>1, <1>2 DEF IInv, RolloutFits, database
  <2>2. \A k \in Job : pc'[k] \notin {"complete", "failed"}
    BY <1>1, <1>2, <1>3 DEF IInv, RolloutFits
  <2> QED
    BY <1>1, <2>1, <2>2 DEF RolloutFits
<1>6. \A k \in Job : /\ pc'[k] = pc[k] \/ pc'[k] = "none"
                     /\ pc'[k] \notin Stages => pc[k] \notin Stages
  BY <1>2, <1>3 DEF Stages
<1> QED
  BY <1>1, <1>4, <1>5, <1>6, Outside DEF Stages

LEMMA DieCommittedKeeps ==
  ASSUME IInv, NEW j \in Job, DieCommitted(j)
  PROVE  IInv'
<1>1. /\ TypeOK /\ pc[j] = "complete" /\ faults' = faults + 1 /\ pc' = [pc EXCEPT ![j] = "failed"]
      /\ UNCHANGED <<database, runner, downgrades, task, from, work, locks>>
  BY DEF IInv, DieCommitted, Goto
<1>2. /\ pc' \in [Job -> {"reconcile", "begin"} \cup Stages \cup Ended]
      /\ pc'[j] = "failed" /\ \A k \in Job \ {j} : pc'[k] = pc[k]
  BY <1>1, EndedEffect
<1>3. TypeOK'
  BY <1>1, <1>2 DEF TypeOK, database, runner, work, locks
<1>4. RolloutFits'
  <2>1. gateJob \in Job \cup {Nobody} /\ gateJob = j /\ runtime # "old"
    BY <1>1 DEF IInv, TypeOK, RolloutFits
  <2> QED
    BY <1>1, <1>2, <2>1 DEF IInv, RolloutFits, database, runner, Ended
<1> QED
  BY <1>1, <1>2, <1>3, <1>4, Outside DEF runner, Stages

\* The operator starts the runner, the runtimes, and stops them.
LEMMA RunnerKeeps ==
  ASSUME IInv, StartRollout \/ StartRuntime \/ StopRuntime
  PROVE  IInv'
<1>1. /\ TypeOK /\ gateJob' = gateJob /\ gate \in {0, 5}
      /\ UNCHANGED <<database, faults, downgrades, pc, task, from, work, locks>>
      /\ \/ gate' = 1 /\ runtime' = "none"
         \/ gate' = 0 /\ runtime' = "none"
         \/ gate = 5 /\ gate' = 0 /\ runtime' = "new"
  BY DEF IInv, StartRollout, StartRuntime, StopRuntime
<1>2. TypeOK'
  BY <1>1 DEF TypeOK, database, work, locks
<1>3. RolloutFits'
  BY <1>1 DEF IInv, RolloutFits, database
<1> QED
  BY <1>1, <1>2, <1>3, Outside

LEMMA WriteKeeps ==
  ASSUME IInv, Write
  PROVE  IInv'
<1>1. /\ TypeOK /\ runtime # "none" /\ rows' = rows + 1
      /\ UNCHANGED <<legacy, stamp, catalog, runner, faults, downgrades, pc, task, from, work, locks>>
  BY DEF IInv, Write
<1>2. TypeOK'
  BY <1>1 DEF TypeOK, runner, work, locks
<1>3. LocksExclude' /\ StampsFitCatalog' /\ IdleHoldsNothing' /\ LegacyAdopted' /\ RolloutFits'
  BY <1>1 DEF IInv, LocksExclude, StampsFitCatalog, IdleHoldsNothing, LegacyAdopted, RolloutFits,
              InTransaction, runner, work, locks
<1>4. ASSUME NEW k \in Job, InTransaction(k)
      PROVE  ~Copying(k)
  <2>1. JobHolds(k) /\ Position(k)
    BY <1>4 DEF IInv, JobInv
  <2>2. runtime = "new"
    BY <1>1, <1>4 DEF IInv, RolloutFits, TypeOK, InTransaction, Stages
  <2>3. stamp["backend"] = 3
    BY <2>2 DEF IInv, RolloutFits, StampsFitCatalog
  <2>4. task[k].side = "backend" => from[k] = 3 /\ at[k] = 3
    BY <1>1, <2>1, <2>3, JobTyped DEF JobHolds, Position, Origin, NoTable
  <2> QED
    BY <2>4 DEF Copying
<1>5. \A k \in Job : JobInv(k)'
  <2> SUFFICES ASSUME NEW k \in Job, InTransaction(k) PROVE JobInv(k)'
    BY <1>1 DEF JobInv, InTransaction
  <2>1. /\ pc' = pc /\ task' = task /\ from' = from /\ at' = at /\ adds' = adds
        /\ drops' = drops /\ copied' = copied /\ shared' = shared /\ owned' = owned
        /\ stamp' = stamp /\ catalog' = catalog
    BY <1>1 DEF work, locks
  <2>2. JobHolds(k) /\ Position(k) /\ Changes(k) /\ CopyIsCurrent(k) /\ CheckHolds(k)
    BY DEF IInv, JobInv
  <2>3. Seen(k)' = Seen(k) /\ Origin(k)' = Origin(k) /\ Done(k)' = Done(k)
        /\ (HasRow(k)' <=> HasRow(k)) /\ ~Copying(k)'
    BY <1>4, <2>1 DEF Seen, Origin, Done, HasRow, Copying
  <2>4. JobHolds(k)'
    BY <2>1, <2>2, <2>3 DEF JobHolds
  <2>5. Position(k)' /\ Changes(k)'
    BY <2>1, <2>2, <2>3 DEF Position, Changes
  <2>6. CopyIsCurrent(k)' /\ CheckHolds(k)'
    BY <2>1, <2>2, <2>3 DEF CopyIsCurrent, CheckHolds
  <2> QED
    BY <2>4, <2>5, <2>6 DEF JobInv
<1> QED
  BY <1>2, <1>3, <1>5 DEF IInv

\* A circle of waits is made of transactions.
LEMMA VictimAlive ==
  ASSUME IInv, NEW j \in Job, DeadlockVictim(j)
  PROVE  pc[j] \in Alive
<1>1. PICK js \in SUBSET Job : j \in js /\ Circle(js)
  BY DEF DeadlockVictim
<1>2. PICK k \in js : k \in Blockers(j)
  BY <1>1 DEF Circle
<1>3. Reads(j) \cup Writes(j) # {}
  BY <1>2 DEF Blockers
<1>4. pc[j] \in {"begin", "check", "copy", "widen", "apply", "stamp"}
  BY <1>3 DEF Reads, Writes
<1> QED
  BY <1>4 DEF Alive, Stages

-----------------------------------------------------------------------------
(* The theorems *)

LEMMA InitHolds == Init => IInv
<1> SUFFICES ASSUME Init PROVE IInv
  OBVIOUS
<1>1. PICK d \in Deployed :
        /\ legacy = d.legacy
        /\ stamp = [s \in Side |-> IF s = "backend" THEN d.backend ELSE d.worker]
        /\ catalog = SchemaOf(IF d.legacy > d.backend THEN d.legacy ELSE d.backend, d.worker)
        /\ runtime \in IF d.worker >= 1 THEN {"old", "none"} ELSE {"none"}
  BY DEF Init
<1>2. /\ d.legacy \in 0..2 /\ d.backend \in -1..2 /\ d.worker \in -1..2
  BY DEF Deployed, NoLegacy, NoTable
<1>3. /\ rows = 0 /\ gate = 0 /\ gateJob = Nobody /\ faults = 0 /\ downgrades = 0
      /\ pc = [j \in Job |-> "none"] /\ task = [j \in Job |-> NoTask]
      /\ from = [j \in Job |-> 0] /\ at = [j \in Job |-> 0] /\ adds = [j \in Job |-> {}]
      /\ drops = [j \in Job |-> {}] /\ copied = [j \in Job |-> 0] /\ shared = [j \in Job |-> {}]
      /\ owned = [j \in Job |-> {}]
  BY DEF Init
<1>4. stamp["backend"] = d.backend /\ stamp["worker"] = d.worker
  BY <1>1 DEF Side
<1>5. /\ catalog \subseteq Features /\ "ordinary" \notin catalog
      /\ "lifecycle" \in catalog <=> d.worker >= 1
      /\ "analysis" \in catalog <=> d.worker >= 2
  BY <1>1 DEF SchemaOf, Features
<1>6. TypeOK
  <2>1. NoTask \in Task
    BY DEF NoTask, Task, Side
  <2>2. stamp \in [Side -> -1..3]
    BY <1>1, <1>2
  <2> QED
    BY <1>1, <1>2, <1>3, <1>5, <2>1, <2>2 DEF TypeOK, Ended
<1>7. LocksExclude /\ IdleHoldsNothing /\ LegacyAdopted /\ \A j \in Job : JobInv(j)
  BY <1>3 DEF LocksExclude, IdleHoldsNothing, LegacyAdopted, JobInv, InTransaction, Stages
<1>8. StampsFitCatalog
  BY <1>2, <1>4, <1>5 DEF StampsFitCatalog
<1>9. RolloutFits
  BY <1>1, <1>2, <1>3, <1>4 DEF RolloutFits
<1> QED
  BY <1>6, <1>7, <1>8, <1>9 DEF IInv

\* Every step keeps the invariant.
LEMMA StepKeeps ==
  ASSUME IInv, [Next]_vars
  PROVE  IInv'
<1>1. ASSUME NEW j \in Job, JobStep(j) PROVE IInv'
  <2>1. CASE Conflicts(j)
    BY <2>1, FailKeeps DEF Conflicts, Alive, IInv, TypeOK
  <2>2. CASE Refused(j)
    BY <2>2, FailKeeps DEF Refused, Alive, IInv, TypeOK
  <2>3. CASE DeadlockVictim(j)
    BY <2>3, VictimAlive, FailKeeps DEF DeadlockVictim, IInv, TypeOK
  <2> QED
    BY <1>1, <2>1, <2>2, <2>3, ReconcileKeeps, BeginKeeps, ExecuteKeeps, StampKeeps, CommitKeeps
       DEF JobStep
<1>2. ASSUME NEW j \in Job, Die(j) PROVE IInv'
  BY <1>2, FailKeeps DEF Die, Alive, IInv, TypeOK
<1>3. CASE RunnerStep
  BY <1>3, CreateJobKeeps, GatePassesKeeps, RunnerKeeps DEF RunnerStep
<1>4. CASE UNCHANGED vars
  <2>1. TypeOK' /\ RolloutFits'
    BY <1>4 DEF IInv, TypeOK, RolloutFits, vars, database, runner, work, locks
  <2> QED
    BY <1>4, <2>1, Outside DEF vars
<1> QED
  BY <1>1, <1>2, <1>3, <1>4, DieCommittedKeeps, DowngradeKeeps, GateFailsKeeps, WriteKeeps DEF Next

\* The stamps fit the schema, each job holds what it has read and changed, and
\* the gates' verdict is true, in every behaviour of the migration jobs.
THEOREM Invariance == Spec => []IInv
<1>1. Init => IInv
  BY InitHolds
<1>2. IInv /\ [Next]_vars => IInv'
  BY StepKeeps
<1> QED
  BY <1>1, <1>2, PTL DEF Spec

\* The last stamp of the worker stream means a converted schema (gate W0003).
THEOREM SealIsTrue == Spec => []SealedMeansConverted
<1>1. IInv => SealedMeansConverted
  BY DEF IInv, StampsFitCatalog, SealedMeansConverted, Converted, Features
<1> QED
  BY <1>1, Invariance, PTL

\* A runtime of the new release starts over the schema it was built for.
THEOREM RuntimeIsServed == Spec => []RuntimeHasItsSchema
<1>1. IInv => RuntimeHasItsSchema
  BY DEF IInv, StampsFitCatalog, RolloutFits, RuntimeHasItsSchema, Converted, Features
<1> QED
  BY <1>1, Invariance, PTL

\* The jobs and their runner implement the promise of the conversion.
THEOREM Refinement == Spec => ImplementsConversion
<1> DEFINE phase == CASE stamp["worker"] = 3 -> "sealed"
                      [] stamp["worker"] # 3 /\ "ordinary" \in catalog -> "ordinary"
                      [] OTHER -> "partitioned"
<1>1. Init => Promise!Init
  <2> SUFFICES ASSUME Init PROVE phase = "partitioned" /\ rows = 0
    BY DEF Promise!Init
  <2>1. stamp["worker"] # 3 /\ "ordinary" \notin catalog
    <3>1. stamp["backend"] # 3
      BY DEF Init, Deployed, NoLegacy, NoTable, Side
    <3> QED
      BY <3>1, InitHolds DEF IInv, StampsFitCatalog
  <2> QED
    BY <2>1 DEF Init
<1>2. IInv /\ [Next]_vars => [Promise!Next]_<<phase, rows>>
  <2> SUFFICES ASSUME IInv, [Next]_vars PROVE [Promise!Next]_<<phase, rows>>
    OBVIOUS
  <2>1. ASSUME NEW j \in Job, Commit(j) PROVE [Promise!Next]_<<phase, rows>>
    <3>1. StampsFitCatalog /\ StampsFitCatalog'
      BY <2>1, CommitStamps DEF IInv
    <3>2. stamp["worker"] = 3 => stamp'["worker"] = 3
      BY <2>1, Final
    <3>3. CASE "ordinary" \in catalog
      <4>1. stamp["backend"] = 3 /\ "ordinary" \in catalog'
        BY <2>1, <3>1, <3>3, Final DEF StampsFitCatalog
      <4>2. "base" \notin drops[j] /\ "ordinary" \notin adds[j]
        <5>1. task[j].side \in {"backend", "worker"}
          BY <2>1, CommitEffect, JobTyped DEF Side
        <5>2. task[j].side = "backend" => from[j] = 3
          BY <2>1, <4>1, CommitEffect DEF JobHolds
        <5> QED
          BY <2>1, <5>1, <5>2, CommitEffect DEF Changes, Origin, NoTable
      <4>3. rows' = rows
        BY <2>1, <4>2, CommitEffect DEF Contents
      <4> QED
        BY <3>2, <3>3, <4>1, <4>3 DEF Promise!Next, Promise!Seal
    <3>4. CASE "ordinary" \notin catalog
      <4>1. stamp["worker"] # 3 /\ stamp["backend"] # 3
        BY <3>1, <3>4 DEF StampsFitCatalog
      <4>2. stamp'["worker"] # 3
        <5>1. CASE stamp'["backend"] # 3
          BY <3>1, <5>1 DEF StampsFitCatalog
        <5>2. CASE stamp'["backend"] = 3
          BY <2>1, <4>1, <5>2, ReachesThree, CommitEffect DEF Side
        <5> QED
          BY <5>1, <5>2
      <4>3. CASE "ordinary" \in adds[j]
        <5>1. "ordinary" \in catalog' /\ rows' = rows
          BY <2>1, <4>3, Converts, CommitEffect DEF Contents
        <5> QED
          BY <3>4, <4>1, <4>2, <5>1 DEF Promise!Next, Promise!Convert
      <4>4. CASE "ordinary" \notin adds[j]
        <5>1. "ordinary" \notin catalog' /\ (rows' = rows \/ rows' = 0)
          BY <2>1, <3>4, <4>4, CommitEffect DEF Contents
        <5> QED
          BY <3>4, <4>1, <4>2, <5>1 DEF Promise!Next, Promise!Wipe
      <4> QED
        BY <4>3, <4>4
    <3> QED
      BY <3>3, <3>4
  <2>2. CASE Write
    <3>1. rows' = rows + 1 /\ stamp' = stamp /\ catalog' = catalog
      BY <2>2 DEF Write
    <3>2. stamp["worker"] = 3 \/ "ordinary" \notin catalog
      BY <2>2 DEF Write, IInv, TypeOK, RolloutFits, StampsFitCatalog
    <3> QED
      BY <3>1, <3>2 DEF Promise!Next, Promise!Write
  <2>3. CASE stamp'["worker"] = stamp["worker"] /\ catalog' = catalog /\ rows' = rows
    BY <2>3
  <2>4. ASSUME NEW j \in Job, Reconcile(j)
        PROVE  stamp'["worker"] = stamp["worker"] /\ catalog' = catalog /\ rows' = rows
    <3>1. stamp \in [Side -> -1..3]
      BY DEF IInv, TypeOK
    <3> QED
      BY <2>4, <3>1 DEF Reconcile, Side
  <2>5. ASSUME NEW j \in Job, JobStep(j) \/ Die(j), ~Commit(j), ~Reconcile(j)
        PROVE  database' = database
    BY <2>5 DEF JobStep, Die, Conflicts, Begin, Execute, Stamp, Refused, DeadlockVictim, Fail
  <2>6. ASSUME \/ RunnerStep \/ GateFails \/ UNCHANGED vars
               \/ \E j \in Job : DieCommitted(j)
               \/ \E j \in Job, s \in Side, target \in 0..2 : DowngradeByHand(j, s, target)
        PROVE  database' = database
    BY <2>6 DEF RunnerStep, StartRollout, CreateJob, GatePasses, StartRuntime, StopRuntime,
                GateFails, vars, DieCommitted, DowngradeByHand
  <2>7. database' = database => stamp'["worker"] = stamp["worker"] /\ catalog' = catalog /\ rows' = rows
    BY DEF database
  <2> QED
    BY <2>1, <2>2, <2>3, <2>4, <2>5, <2>6, <2>7 DEF Next
<1> QED
  BY <1>1, <1>2, Invariance, PTL DEF Spec, ImplementsConversion, Promise!Spec
=============================================================================
