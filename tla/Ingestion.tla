------------------------------ MODULE Ingestion ------------------------------
(***************************************************************************)
(* Webhook ingestion of the back end: IngestGrafanaAlerts.execute           *)
(* (application/alerts/ingest_grafana_alerts.py) with its repositories      *)
(* (persistence/repositories/alerts.py, incidents.py, jobs.py).             *)
(*                                                                         *)
(* A delivery is one READ COMMITTED transaction of PostgreSQL, its          *)
(* statements are the steps.  A statement sees what is committed and what   *)
(* its own transaction wrote; it waits for a row, or for a key of a unique  *)
(* index, that another transaction has written and not yet committed.       *)
(* Nothing else orders deliveries that are handled at the same time.        *)
(***************************************************************************)
EXTENDS Integers, Sequences

CONSTANTS
  Request,   \* deliveries Grafana sends, each again until it is accepted
  Alert,     \* dedup keys: one entry of alerts[] in one webhook body
  Body,      \* Body[r]: the alerts of r's body, in order
  Firing,    \* the alerts with status FIRING; the others are RESOLVED
  Flawed,    \* the alerts with validation errors
  Instance,  \* alert_instances: (source, fingerprint)
  Identity,  \* identity keys of incidents
  InstanceOf, IdentityOf

ASSUME AlertAssumption ==
  /\ Body \in [Request -> Seq(Alert)]
  /\ Firing \subseteq Alert
  /\ Flawed \subseteq Alert
  /\ InstanceOf \in [Alert -> Instance]
  /\ IdentityOf \in [Alert -> Identity]

\* The labels of an instance determine the identity.  The hash of the body is
\* part of the dedup key: different bodies have no key in common.
ASSUME KeyAssumption ==
  /\ \A a, b \in Alert :
       InstanceOf[a] = InstanceOf[b] => IdentityOf[a] = IdentityOf[b]
  /\ \A r, s \in Request :
       \/ Body[r] = Body[s]
       \/ \A i \in 1 .. Len(Body[r]), j \in 1 .. Len(Body[s]) :
            Body[r][i] # Body[s][j]

VARIABLES
  \* committed
  events,         \* events[a]: alert_events rows of a
  instanceState,  \* alert_instances.state
  incidentState,  \* incidents.alert_state of the identity's active incident
  work,           \* work[k]: rca_runs, worker_jobs, outbox_events rows of it
  linked,         \* the alerts incident_alerts links to their incident
  \* written by the transaction of request r
  claimed,        \* ingestion_dedup_keys
  row,            \* row[r][i]: state given to alert_instances
  shown,          \* shown[r][k]: alert_state of an incident created or locked
  opened,         \* identities of which r inserted the incident and its work
  ties,           \* incident_alerts
  \* of the request
  pc,             \* statement that request r executes next
  pos,            \* index of the alert it is working on
  answer          \* webhook_deliveries.status of the last commit

committed == <<events, instanceState, incidentState, work, linked>>
written   == <<claimed, row, shown, opened, ties>>
vars      == <<committed, written, pc, pos, answer>>

-----------------------------------------------------------------------------
State     == {"FIRING", "RESOLVED"}
Statement == {"idle", "claim", "instance", "incident", "commit"}
Answer    == {"NONE", "PROCESSED", "DUPLICATE", "VALIDATION_FAILED"}

\* The alert request r is working on.
Current(r)  == Body[r][pos[r]]

StateOf(a) == IF a \in Firing THEN "FIRING" ELSE "RESOLVED"

Others(r)   == Request \ {r}
Stored(a)   == events[a] > 0
Active(k)   == incidentState[k] # "NONE"

\* Statement after an alert is done: the next alert's, or the end.
Advance(r) ==
  /\ pos' = [pos EXCEPT ![r] = @ + 1]
  /\ pc' = [pc EXCEPT ![r] = IF pos[r] < Len(Body[r]) THEN "claim" ELSE "commit"]

NothingWritten(r) ==
  /\ claimed' = [claimed EXCEPT ![r] = {}]
  /\ row' = [row EXCEPT ![r] = [i \in Instance |-> "NONE"]]
  /\ shown' = [shown EXCEPT ![r] = [k \in Identity |-> "NONE"]]
  /\ opened' = [opened EXCEPT ![r] = {}]
  /\ ties' = [ties EXCEPT ![r] = {}]

-----------------------------------------------------------------------------
(* Which transactions a statement waits for *)

\* Faulty variants: the unique index is missing.
KeyHolders_None(r)      == {}
IncidentHolders_None(r) == {}

KeyHolders(r) == {s \in Others(r) : Current(r) \in claimed[s]}
InstanceHolders(r) == {s \in Others(r) : row[s][InstanceOf[Current(r)]] # "NONE"}
IncidentHolders(r) == {s \in Others(r) : shown[s][IdentityOf[Current(r)]] # "NONE"}

\* An INSERT waits for another one of the same key; a SELECT does not see a
\* row that is not committed.
Blockers(r) ==
  CASE pc[r] = "claim"    -> KeyHolders(r)
    [] pc[r] = "instance" -> InstanceHolders(r)
    [] pc[r] = "incident" -> IF \/ Current(r) \in Firing
                                \/ Active(IdentityOf[Current(r)])
                               THEN IncidentHolders(r) ELSE {}
    [] OTHER              -> {}

\* r waits in a circle: every member waits for a member, and is waited for.
Deadlocked(r) ==
  \E circle \in SUBSET Request :
    /\ r \in circle
    /\ \A s \in circle :
         /\ \E t \in circle : t \in Blockers(s)
         /\ \E t \in circle : s \in Blockers(t)

-----------------------------------------------------------------------------
Init ==
  /\ events = [a \in Alert |-> 0]
  /\ instanceState = [i \in Instance |-> "NONE"]
  /\ incidentState = [k \in Identity |-> "NONE"]
  /\ work = [k \in Identity |-> 0]
  /\ linked = {}
  /\ claimed = [r \in Request |-> {}]
  /\ row = [r \in Request |-> [i \in Instance |-> "NONE"]]
  /\ shown = [r \in Request |-> [k \in Identity |-> "NONE"]]
  /\ opened = [r \in Request |-> {}]
  /\ ties = [r \in Request |-> {}]
  /\ pc = [r \in Request |-> "idle"]
  /\ pos = [r \in Request |-> 1]
  /\ answer = [r \in Request |-> "NONE"]

\* Grafana sends the delivery, for the first time or again, whether or not an
\* earlier answer got through; the transaction begins with create_delivery.
Deliver(r) ==
  /\ pc[r] = "idle"
  /\ pos' = [pos EXCEPT ![r] = 1]
  /\ pc' = [pc EXCEPT ![r] = IF Body[r] = <<>> THEN "commit" ELSE "claim"]
  /\ UNCHANGED <<committed, written, answer>>

\* The key is not taken; the INSERT of claim_dedup_key returns its row.
KeyFree(r) ==
  /\ ~Stored(Current(r))
  /\ Current(r) \notin claimed[r]

\* Faulty variant: INSERT without waiting for the other transaction.
ClaimKey_NoWait(r) ==
  /\ pc[r] = "claim"
  /\ IF KeyFree(r) /\ KeyHolders(r) = {}
       THEN /\ claimed' = [claimed EXCEPT ![r] = @ \cup {Current(r)}]
            /\ pc' = [pc EXCEPT ![r] = "instance"]
            /\ UNCHANGED pos
       ELSE Advance(r) /\ UNCHANGED claimed
  /\ UNCHANGED <<committed, row, shown, opened, ties, answer>>

\* Faulty variant: without ON CONFLICT DO NOTHING, a known key is an error.
ClaimKey_RaisesOnConflict(r) ==
  /\ pc[r] = "claim"
  /\ KeyHolders(r) = {}
  /\ KeyFree(r)
  /\ claimed' = [claimed EXCEPT ![r] = @ \cup {Current(r)}]
  /\ pc' = [pc EXCEPT ![r] = "instance"]
  /\ UNCHANGED <<committed, row, shown, opened, ties, pos, answer>>

\* claim_dedup_key, and add_event for a new alert.
ClaimKey(r) ==
  /\ pc[r] = "claim"
  /\ KeyHolders(r) = {}
  /\ \/ /\ KeyFree(r)
        /\ claimed' = [claimed EXCEPT ![r] = @ \cup {Current(r)}]
        /\ pc' = [pc EXCEPT ![r] = "instance"]
        /\ UNCHANGED pos
     \/ /\ ~KeyFree(r)
        /\ Advance(r)
        /\ UNCHANGED claimed
  /\ UNCHANGED <<committed, row, shown, opened, ties, answer>>

\* Faulty variant: the upsert does not take the row's lock.
UpsertInstance_NoLock(r) ==
  /\ pc[r] = "instance"
  /\ row' = [row EXCEPT ![r][InstanceOf[Current(r)]] = StateOf(Current(r))]
  /\ pc' = [pc EXCEPT ![r] = "incident"]
  /\ UNCHANGED <<committed, claimed, shown, opened, ties, pos, answer>>

\* upsert_instance
UpsertInstance(r) ==
  /\ pc[r] = "instance"
  /\ InstanceHolders(r) = {}
  /\ row' = [row EXCEPT ![r][InstanceOf[Current(r)]] = StateOf(Current(r))]
  /\ pc' = [pc EXCEPT ![r] = "incident"]
  /\ UNCHANGED <<committed, claimed, shown, opened, ties, pos, answer>>

\* The current alert is linked to the incident of its identity, whose
\* alert_state becomes that of the alert.
Show(r) ==
  /\ shown' = [shown EXCEPT ![r][IdentityOf[Current(r)]] = StateOf(Current(r))]
  /\ ties' = [ties EXCEPT ![r] = @ \cup {Current(r)}]
  /\ Advance(r)
  /\ UNCHANGED <<committed, claimed, row, answer>>

\* The incidents r's statements see.
Visible(r, k) == Active(k) \/ k \in opened[r]

\* get_or_create_active inserts the incident, create_rca_work its run, job and
\* outbox event.
OpenIncident(r) ==
  LET k == IdentityOf[Current(r)] IN
  /\ pc[r] = "incident"
  /\ Current(r) \in Firing
  /\ IncidentHolders(r) = {}
  /\ ~Visible(r, k)
  /\ opened' = [opened EXCEPT ![r] = @ \cup {k}]
  /\ Show(r)

\* Faulty variant: set_alert_state is not called for an incident that exists.
JoinIncident_KeepsState(r) ==
  LET k == IdentityOf[Current(r)] IN
  /\ pc[r] = "incident"
  /\ Current(r) \in Firing
  /\ IncidentHolders(r) = {}
  /\ Visible(r, k)
  /\ shown' = [shown EXCEPT ![r][k] = IF @ = "NONE" THEN incidentState[k] ELSE @]
  /\ ties' = [ties EXCEPT ![r] = @ \cup {Current(r)}]
  /\ Advance(r)
  /\ UNCHANGED <<committed, claimed, row, opened, answer>>

\* get_or_create_active finds and locks the active incident.
JoinIncident(r) ==
  /\ pc[r] = "incident"
  /\ Current(r) \in Firing
  /\ IncidentHolders(r) = {}
  /\ Visible(r, IdentityOf[Current(r)])
  /\ UNCHANGED opened
  /\ Show(r)

\* lock_latest finds the incident of a resolved alert ...
ResolveIncident(r) ==
  /\ pc[r] = "incident"
  /\ Current(r) \notin Firing
  /\ Visible(r, IdentityOf[Current(r)])
  /\ IncidentHolders(r) = {}
  /\ UNCHANGED opened
  /\ Show(r)

\* ... or there is none that is visible.
NoIncident(r) ==
  /\ pc[r] = "incident"
  /\ Current(r) \notin Firing
  /\ ~Visible(r, IdentityOf[Current(r)])
  /\ Advance(r)
  /\ UNCHANGED <<committed, written, answer>>

-----------------------------------------------------------------------------
\* finish_delivery
DeliveryStatus(r) ==
  IF claimed[r] \cap Flawed # {} THEN "VALIDATION_FAILED"
  ELSE IF claimed[r] # {} THEN "PROCESSED"
  ELSE "DUPLICATE"

\* Faulty variant: the RCA work is committed apart from the incident, and lost.
Publish_WithoutWork(r) ==
  /\ events' = [a \in Alert |-> events[a] + (IF a \in claimed[r] THEN 1 ELSE 0)]
  /\ instanceState' = [i \in Instance |-> IF row[r][i] = "NONE"
                                            THEN instanceState[i] ELSE row[r][i]]
  /\ incidentState' = [k \in Identity |-> IF shown[r][k] = "NONE"
                                            THEN incidentState[k] ELSE shown[r][k]]
  /\ linked' = linked \cup ties[r]
  /\ UNCHANGED work

\* What r has written becomes visible.
MakeVisible(r) ==
  /\ events' = [a \in Alert |-> events[a] + (IF a \in claimed[r] THEN 1 ELSE 0)]
  /\ instanceState' = [i \in Instance |-> IF row[r][i] = "NONE"
                                            THEN instanceState[i] ELSE row[r][i]]
  /\ incidentState' = [k \in Identity |-> IF shown[r][k] = "NONE"
                                            THEN incidentState[k] ELSE shown[r][k]]
  /\ work' = [k \in Identity |-> work[k] + (IF k \in opened[r] THEN 1 ELSE 0)]
  /\ linked' = linked \cup ties[r]

Commit(r) ==
  /\ pc[r] = "commit"
  /\ MakeVisible(r)
  /\ NothingWritten(r)
  /\ pc' = [pc EXCEPT ![r] = "idle"]
  /\ answer' = [answer EXCEPT ![r] = DeliveryStatus(r)]
  /\ UNCHANGED pos

\* Any error, cancellation or crash rolls the transaction back.
Rollback(r) ==
  /\ pc[r] # "idle"
  /\ NothingWritten(r)
  /\ pc' = [pc EXCEPT ![r] = "idle"]
  /\ UNCHANGED <<committed, pos, answer>>

\* PostgreSQL rolls back a transaction of a circle; Grafana gets a 500.
DeadlockVictim(r) ==
  /\ Deadlocked(r)
  /\ Rollback(r)

-----------------------------------------------------------------------------
Step(r) ==
  \/ ClaimKey(r)
  \/ UpsertInstance(r)
  \/ OpenIncident(r)
  \/ JoinIncident(r)
  \/ ResolveIncident(r)
  \/ NoIncident(r)
  \/ Commit(r)

Next ==
  \E r \in Request : Deliver(r) \/ Step(r) \/ Rollback(r) \/ DeadlockVictim(r)

Spec == Init /\ [][Next]_vars

\* Grafana sends again what was not accepted; statements that do not wait are
\* executed; a deadlock is broken.  Errors, and with them the deadlocks of two
\* deliveries, stop at some point: Grafana's pauses draw the deliveries apart.
Fairness ==
  /\ \A r \in Request : /\ WF_vars(answer[r] = "NONE" /\ Deliver(r))
                        /\ WF_vars(Step(r))
  /\ WF_vars(\E r \in Request : DeadlockVictim(r))
  /\ <>[][\A r \in Request : Rollback(r) => Commit(r)]_vars

FairSpec == Spec /\ Fairness
-----------------------------------------------------------------------------
(* Properties *)

Draft == State \cup {"NONE"}

\* The tables and the transactions hold what their columns allow: the states
\* that reach alert_instances and incidents are those of the CHECK constraints.
TypeOK ==
  /\ events \in [Alert -> Nat]
  /\ instanceState \in [Instance -> Draft]
  /\ incidentState \in [Identity -> Draft]
  /\ work \in [Identity -> Nat]
  /\ linked \subseteq Alert
  /\ claimed \in [Request -> SUBSET Alert]
  /\ row \in [Request -> [Instance -> Draft]]
  /\ shown \in [Request -> [Identity -> Draft]]
  /\ opened \in [Request -> SUBSET Identity]
  /\ ties \in [Request -> SUBSET Alert]
  /\ pc \in [Request -> Statement]
  /\ pos \in [Request -> Nat \ {0}]
  /\ answer \in [Request -> Answer]

\* 202 means stored: every alert of an accepted delivery has its event, also
\* the alerts it skipped because another delivery was about to store them.
AcceptedIsStored ==
  \A r \in Request :
    answer[r] # "NONE" => \A i \in 1 .. Len(Body[r]) : Stored(Body[r][i])

\* A delivery that is sent again, or by two Grafana replicas at once, repeats
\* no event: an alert of one body is processed once.
ProcessedOnce == \A a \in Alert : events[a] <= 1

\* An incident and its run, job and outbox event are born together and once,
\* however many deliveries find the identity without an incident.
OneRunPerIncident ==
  \A k \in Identity : work[k] = IF Active(k) THEN 1 ELSE 0

\* No alert is lost between an incident and its opening: a firing alert is
\* linked to an incident, and so is a resolved one that is committed after a
\* firing one of the same instance, although lock_latest does not see, and
\* does not wait for, an incident another delivery is about to commit.
AlertsAreLinked ==
  [][\A a \in Alert :
       /\ ~Stored(a)
       /\ Stored(a)'
       /\ \/ a \in Firing
          \/ \E b \in Firing : InstanceOf[b] = InstanceOf[a] /\ Stored(b)
       => a \in linked']_vars

\* The state an incident shows is that of some instance of it, so that it is
\* the state of the instance when there is only one: both rows are written in
\* one transaction, under two locks.
IncidentShowsAnInstance ==
  \A k \in Identity :
    Active(k) => \E a \in Alert :
                   /\ IdentityOf[a] = k
                   /\ instanceState[InstanceOf[a]] = incidentState[k]

\* Every delivery is accepted in the end: deliveries that lock the same rows
\* in opposite orders, or are sent twice, do not keep each other out.
EventuallyAccepted == \A r \in Request : <>(answer[r] # "NONE")

\* One commit takes in a set of new alerts.
Intake == INSTANCE AlertIntake WITH
  processed <- {a \in Alert : Stored(a)},
  incidents <- {k \in Identity : Active(k)},
  queued    <- {k \in Identity : work[k] = 1}

\* Concurrent deliveries implement atomic intake.
ImplementsIntake == Intake!ISpec

-----------------------------------------------------------------------------
(* The inductive invariant of the proofs *)

\* r has claimed alert a and is not done with it.
Pending(r, a) == pc[r] \in {"instance", "incident"} /\ a = Current(r)

\* Where a request is in its body, and that it has nothing when it is idle.
Placed(r) ==
  /\ pc[r] \in {"claim", "instance", "incident"} => pos[r] \in 1 .. Len(Body[r])
  /\ pc[r] = "commit" => pos[r] = Len(Body[r]) + 1
  /\ pc[r] = "idle" =>
       /\ claimed[r] = {} /\ opened[r] = {} /\ ties[r] = {}
       /\ \A i \in Instance : row[r][i] = "NONE"
       /\ \A k \in Identity : shown[r][k] = "NONE"

\* Keys are claimed for new alerts, and every alert passed is claimed or stored.
Keyed(r) ==
  /\ claimed[r] \subseteq {a \in Alert : ~Stored(a)}
  /\ pc[r] \in {"instance", "incident"} => Current(r) \in claimed[r]
  /\ pc[r] # "idle" =>
       \A i \in 1 .. Len(Body[r]) :
         i < pos[r] => Stored(Body[r][i]) \/ Body[r][i] \in claimed[r]

\* An incident is opened by a firing alert, and locked while it is shown.
Opens(r) ==
  \A k \in Identity :
    /\ k \in opened[r] =>
         /\ ~Active(k)
         /\ shown[r][k] # "NONE"
         /\ \E a \in claimed[r] \cap Firing : IdentityOf[a] = k
    /\ shown[r][k] # "NONE" => Active(k) \/ k \in opened[r]

\* What is written for an alert that is done with.
Links(r) ==
  /\ \A a \in claimed[r] :
       ~Pending(r, a) =>
         /\ row[r][InstanceOf[a]] # "NONE"
         /\ a \in Firing => a \in ties[r] /\ shown[r][IdentityOf[a]] # "NONE"
         /\ a \in ties[r] \/ \A b \in Firing :
                               InstanceOf[b] = InstanceOf[a] => ~Stored(b)
  /\ pc[r] = "incident" => row[r][InstanceOf[Current(r)]] = StateOf(Current(r))

\* The state to be shown is that of an instance the transaction wrote.
Shows(r) ==
  \A k \in Identity :
    /\ shown[r][k] # "NONE"
    /\ pc[r] = "incident" => k # IdentityOf[Current(r)]
    => \E a \in Alert : IdentityOf[a] = k /\ row[r][InstanceOf[a]] = shown[r][k]

RequestInv ==
  \A r \in Request : Placed(r) /\ Keyed(r) /\ Opens(r) /\ Links(r) /\ Shows(r)

\* Whom PostgreSQL makes wait: nothing is written by two transactions.
ExclusiveInv ==
  \A r \in Request : \A s \in Others(r) :
    /\ claimed[r] \cap claimed[s] = {}
    /\ \A i \in Instance : row[r][i] = "NONE" \/ row[s][i] = "NONE"
    /\ \A k \in Identity : shown[r][k] = "NONE" \/ shown[s][k] = "NONE"

\* An incident is active exactly when a firing alert of it is stored.
ActiveInv ==
  \A k \in Identity :
    Active(k) <=> \E a \in Firing : Stored(a) /\ IdentityOf[a] = k

\* A shown instance is being changed only by those that will show the change.
WitnessInv ==
  \A k \in Identity :
    Active(k) =>
      \E a \in Alert :
        /\ IdentityOf[a] = k
        /\ instanceState[InstanceOf[a]] = incidentState[k]
        /\ \A r \in Request :
             \/ row[r][InstanceOf[a]] = "NONE"
             \/ shown[r][k] # "NONE"
             \/ pc[r] = "incident" /\ InstanceOf[Current(r)] = InstanceOf[a]

IInv ==
  /\ TypeOK
  /\ RequestInv
  /\ ExclusiveInv
  /\ ActiveInv
  /\ WitnessInv
  /\ AcceptedIsStored
  /\ ProcessedOnce
  /\ OneRunPerIncident

-----------------------------------------------------------------------------
(* What documents of the repository say, and the code does not do *)

\* alert_state becomes RESOLVED when all of the incident's alerts have
\* recovered (observability platform design, section 7.3).
ResolvedWhenAllResolved ==
  \A a \in Alert :
    incidentState[IdentityOf[a]] = "RESOLVED"
      => instanceState[InstanceOf[a]] # "FIRING"
=============================================================================
