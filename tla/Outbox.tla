-------------------------------- MODULE Outbox --------------------------------
(***************************************************************************)
(* The transactional outbox of the back end: OutboxPublishService           *)
(* (application/outbox/publish_events.py), called by the webhook requests   *)
(* that commit events (application/alerts/ingest_grafana_alerts.py) and by  *)
(* the operators' recovery (application/outbox/recover_events.py).          *)
(*                                                                         *)
(* A call locks the rows it works on, publishes them one after the other    *)
(* and commits their new statuses together, in one transaction.  Nothing    *)
(* ties the transaction to Pub/Sub: a publish that raises may have          *)
(* delivered its message, and a transaction that aborts undelivers nothing. *)
(***************************************************************************)
EXTENDS Integers, FiniteSets

CONSTANTS
  Event,      \* outbox_events rows, numbered in the order of created_at, id
  Invalid,    \* the events whose stored payload is refused
  Webhook,    \* requests that ingest a delivery
  Operator,   \* recovery requests
  MaxLimit,   \* limit, at most 100
  RetryDelay, \* available_at = attempted_at + 30 seconds
  MaxTime     \* bound on the clock; Pub/Sub has recovered when it is reached

ASSUME OutboxAssumption ==
  /\ Event \subseteq Nat
  /\ IsFiniteSet(Event)
  /\ Invalid \subseteq Event
  /\ Webhook \cap Operator = {}
  /\ MaxLimit \in Nat \ {0}
  /\ RetryDelay \in Nat \ {0}
  /\ MaxTime \in Nat

Caller == Webhook \cup Operator

VARIABLES
  now,          \* the clock
  status,       \* outbox_events.status, "ABSENT" before the row is committed
  availableAt,  \* outbox_events.available_at
  delivered,    \* the events of which the topic holds a message
  pc,           \* where caller c is
  todo,         \* the events a webhook request has still to publish
  rows,         \* locked rows of c's transaction that are still to be handled
  seen,         \* seen[c][e]: status read with the lock
  result,       \* result[c][e]: what the transaction has decided about e
  attemptedAt,  \* attempted_at of c's transaction
  cancelled,    \* the callers whose cancellation is deferred
  audited       \* the events some audit record counts as published

table == <<status, availableAt>>
call  == <<todo, rows, seen, result, attemptedAt>>
vars  == <<now, table, delivered, pc, call, cancelled, audited>>

-----------------------------------------------------------------------------
EventStatus == {"ABSENT", "PENDING", "FAILED", "PUBLISHED"}
ResultCode  == {"NONE", "PUBLISHED", "FAILED", "NO_OP"}
Stage       == {"idle", "accepted", "working", "calling", "audit"}
InCall      == {"working", "calling"}

\* The rows c's transaction has locked.
Held(c) == rows[c] \cup {e \in Event : result[c][e] # "NONE"}

\* Faulty variant: SELECT without FOR UPDATE.
Free_NoLock(e) == TRUE

Free(e) == \A c \in Caller : pc[c] \in InCall => e \notin Held(c)

\* ORDER BY available_at, created_at, id
Before(a, b) ==
  \/ availableAt[a] < availableAt[b]
  \/ availableAt[a] = availableAt[b] /\ a < b

\* c's transaction begins with the rows es locked and read.
Begin(c, es) ==
  /\ pc' = [pc EXCEPT ![c] = "working"]
  /\ rows' = [rows EXCEPT ![c] = es]
  /\ seen' = [seen EXCEPT ![c] = [e \in Event |-> IF e \in es THEN status[e]
                                                            ELSE "ABSENT"]]
  /\ result' = [result EXCEPT ![c] = [e \in Event |-> "NONE"]]
  /\ attemptedAt' = [attemptedAt EXCEPT ![c] = now]

\* c forgets the transaction it was in.
Forget(c) ==
  /\ rows' = [rows EXCEPT ![c] = {}]
  /\ seen' = [seen EXCEPT ![c] = [e \in Event |-> "ABSENT"]]
  /\ result' = [result EXCEPT ![c] = [e \in Event |-> "NONE"]]
  /\ attemptedAt' = [attemptedAt EXCEPT ![c] = 0]

\* c's call is over: the next event of the request, or nothing more.
End(c) ==
  /\ pc' = [pc EXCEPT ![c] = IF todo[c] = {} THEN "idle" ELSE "accepted"]
  /\ cancelled' = cancelled \ {c}
  /\ UNCHANGED todo
  /\ Forget(c)

\* ... or the whole request is.
Leave(c) ==
  /\ pc' = [pc EXCEPT ![c] = "idle"]
  /\ cancelled' = cancelled \ {c}
  /\ todo' = [todo EXCEPT ![c] = {}]
  /\ Forget(c)

-----------------------------------------------------------------------------
Init ==
  /\ now = 0
  /\ status = [e \in Event |-> "ABSENT"]
  /\ availableAt = [e \in Event |-> 0]
  /\ delivered = {}
  /\ pc = [c \in Caller |-> "idle"]
  /\ todo = [c \in Caller |-> {}]
  /\ rows = [c \in Caller |-> {}]
  /\ seen = [c \in Caller |-> [e \in Event |-> "ABSENT"]]
  /\ result = [c \in Caller |-> [e \in Event |-> "NONE"]]
  /\ attemptedAt = [c \in Caller |-> 0]
  /\ cancelled = {}
  /\ audited = {}

Tick ==
  /\ now < MaxTime
  /\ now' = now + 1
  /\ UNCHANGED <<table, delivered, pc, call, cancelled, audited>>

\* The transaction of a webhook delivery commits with the events es.
Accept(c, es) ==
  /\ pc[c] = "idle"
  /\ es # {}
  /\ \A e \in es : status[e] = "ABSENT"
  /\ status' = [e \in Event |-> IF e \in es THEN "PENDING" ELSE status[e]]
  /\ availableAt' = [e \in Event |-> IF e \in es THEN now ELSE availableAt[e]]
  /\ pc' = [pc EXCEPT ![c] = "accepted"]
  /\ todo' = [todo EXCEPT ![c] = es]
  /\ UNCHANGED <<now, delivered, rows, seen, result, attemptedAt, cancelled,
                 audited>>

\* The same request publishes its own events, one call of publish_event each.
PublishOwn(c, e) ==
  /\ pc[c] = "accepted"
  /\ e \in todo[c]
  /\ Free(e)
  /\ Begin(c, {e})
  /\ todo' = [todo EXCEPT ![c] = @ \ {e}]
  /\ UNCHANGED <<now, table, delivered, cancelled, audited>>

\* retry_event: waits for the row's lock.
RetryEvent(c, e) ==
  /\ pc[c] = "idle"
  /\ status[e] # "ABSENT"
  /\ Free(e)
  /\ Begin(c, {e})
  /\ UNCHANGED <<now, table, delivered, todo, cancelled, audited>>

\* retry_pending, retry_failed: the first rows of that status which nobody has
\* locked, at most limit of them.
RetryBatch(c, st, limit) ==
  LET open == {e \in Event : status[e] = st /\ Free(e)} IN
  /\ pc[c] = "idle"
  /\ \E es \in SUBSET open :
       /\ Cardinality(es) = IF Cardinality(open) < limit THEN Cardinality(open)
                                                          ELSE limit
       /\ \A a \in es, b \in open \ es : Before(a, b)
       /\ Begin(c, es)
  /\ UNCHANGED <<now, table, delivered, todo, cancelled, audited>>

-----------------------------------------------------------------------------
(* The loop of _publish_locked_rows *)

\* The first row that is left.
AtHead(c, e) ==
  /\ e \in rows[c]
  /\ \A f \in rows[c] \ {e} : Before(e, f)

Decide(c, e, code) ==
  /\ pc' = [pc EXCEPT ![c] = "working"]
  /\ rows' = [rows EXCEPT ![c] = @ \ {e}]
  /\ result' = [result EXCEPT ![c][e] = code]

NoOp(c, e) ==
  /\ pc[c] = "working"
  /\ AtHead(c, e)
  /\ seen[c][e] = "PUBLISHED"
  /\ Decide(c, e, "NO_OP")
  /\ UNCHANGED <<now, table, delivered, todo, seen, attemptedAt, cancelled,
                 audited>>

InvalidEvent(c, e) ==
  /\ pc[c] = "working"
  /\ AtHead(c, e)
  /\ seen[c][e] # "PUBLISHED"
  /\ e \in Invalid
  /\ Decide(c, e, "FAILED")
  /\ UNCHANGED <<now, table, delivered, todo, seen, attemptedAt, cancelled,
                 audited>>

StartPublish(c, e) ==
  /\ pc[c] = "working"
  /\ AtHead(c, e)
  /\ seen[c][e] # "PUBLISHED"
  /\ e \notin Invalid
  /\ pc' = [pc EXCEPT ![c] = "calling"]
  /\ UNCHANGED <<now, table, delivered, call, cancelled, audited>>

\* The client retries inside the call; it has delivered one message or more.
PublishReturns(c, e) ==
  /\ pc[c] = "calling"
  /\ AtHead(c, e)
  /\ delivered' = delivered \cup {e}
  /\ Decide(c, e, "PUBLISHED")
  /\ UNCHANGED <<now, table, todo, seen, attemptedAt, cancelled, audited>>

\* Faulty variant: an error of the publish call is taken for a success.
PublishRaises_CountsAsPublished(c, e) ==
  /\ pc[c] = "calling"
  /\ AtHead(c, e)
  /\ delivered' \in {delivered, delivered \cup {e}}
  /\ Decide(c, e, "PUBLISHED")
  /\ UNCHANGED <<now, table, todo, seen, attemptedAt, cancelled, audited>>

\* The call raises or runs into the result timeout; the message may be in the
\* topic nevertheless, or arrive there later.
PublishRaises(c, e) ==
  /\ now < MaxTime
  /\ pc[c] = "calling"
  /\ AtHead(c, e)
  /\ delivered' \in {delivered, delivered \cup {e}}
  /\ Decide(c, e, "FAILED")
  /\ UNCHANGED <<now, table, todo, seen, attemptedAt, cancelled, audited>>

-----------------------------------------------------------------------------
(* The end of the transaction *)

\* Faulty variant: a failed event keeps its place in the order.
Settled_KeepsPlace(c) ==
  /\ status' = [e \in Event |-> IF result[c][e] \in {"PUBLISHED", "FAILED"}
                                  THEN result[c][e] ELSE status[e]]
  /\ UNCHANGED availableAt

Settled_FailsNoOp(c) ==
  /\ status' = [e \in Event |-> CASE result[c][e] = "NONE" -> status[e]
                                  [] result[c][e] = "PUBLISHED" -> "PUBLISHED"
                                  [] OTHER -> "FAILED"]
  /\ UNCHANGED availableAt

\* The UPDATEs of the transaction; a failed event moves back in the order.
Settled(c) ==
  /\ status' = [e \in Event |-> IF result[c][e] \in {"PUBLISHED", "FAILED"}
                                  THEN result[c][e] ELSE status[e]]
  /\ availableAt' = [e \in Event |-> IF result[c][e] = "FAILED"
                                       THEN attemptedAt[c] + RetryDelay
                                       ELSE availableAt[e]]

\* A caller whose cancellation was deferred gets it now: no audit record, and
\* the request ends with the other events of its delivery unpublished.
Commit(c) ==
  /\ pc[c] = "working"
  /\ rows[c] = {}
  /\ Settled(c)
  /\ \/ c \in cancelled /\ Leave(c)
     \/ c \in Webhook \ cancelled /\ End(c)
     \/ /\ c \in Operator \ cancelled
        /\ pc' = [pc EXCEPT ![c] = "audit"]
        /\ UNCHANGED <<call, cancelled>>
  /\ UNCHANGED <<now, delivered, audited>>

\* The record is a transaction of its own.
Audit(c) ==
  /\ pc[c] = "audit"
  /\ audited' = audited \cup {e \in Event : result[c][e] = "PUBLISHED"}
  /\ End(c)
  /\ UNCHANGED <<now, table, delivered>>

\* The request's task is cancelled while its transaction runs in a shielded
\* task of its own.
Cancel(c) ==
  /\ pc[c] \in InCall
  /\ c \notin cancelled
  /\ cancelled' = cancelled \cup {c}
  /\ UNCHANGED <<now, table, delivered, pc, call, audited>>

\* The database fails the transaction.  The error replaces a cancellation that
\* was deferred, and a webhook request swallows it and goes on.
Rollback(c) ==
  /\ pc[c] = "working"
  /\ End(c)
  /\ UNCHANGED <<now, table, delivered, audited>>

\* The back end dies, the audit transaction fails, or the request is cancelled
\* between two calls: the request is gone, and so is its transaction.
Crash(c) ==
  /\ pc[c] # "idle"
  /\ \/ UNCHANGED delivered
     \/ /\ pc[c] = "calling"
        /\ \E e \in Event : AtHead(c, e) /\ delivered' = delivered \cup {e}
  /\ Leave(c)
  /\ UNCHANGED <<now, table, audited>>

-----------------------------------------------------------------------------
\* The steps of a transaction that has begun.
Proceed(c) ==
  \/ \E e \in Event : \/ NoOp(c, e)
                      \/ InvalidEvent(c, e)
                      \/ StartPublish(c, e)
                      \/ PublishReturns(c, e)
                      \/ PublishRaises(c, e)
  \/ Commit(c)
  \/ Audit(c)

Next ==
  \/ Tick
  \/ \E c \in Webhook :
       \/ \E es \in SUBSET Event : Accept(c, es)
       \/ \E e \in Event : PublishOwn(c, e)
  \/ \E c \in Operator :
       \/ \E e \in Event : RetryEvent(c, e)
       \/ \E st \in {"PENDING", "FAILED"}, limit \in 1 .. MaxLimit :
            RetryBatch(c, st, limit)
  \/ \E c \in Caller : Proceed(c) \/ Cancel(c) \/ Rollback(c) \/ Crash(c)

Spec == Init /\ [][Next]_vars

\* A transaction ends without its updates, and they would have changed a row.
LosesWork(c) ==
  /\ Rollback(c) \/ Crash(c)
  /\ pc[c] \in InCall
  /\ ~(rows[c] = {} /\ Settled(c))

\* Nothing replays by itself: operators keep asking for both batches, with the
\* smallest limit, and the database and the processes stop failing.
Fairness ==
  /\ WF_vars(Tick)
  /\ \A c \in Caller : WF_vars(Proceed(c))
  /\ \A st \in {"PENDING", "FAILED"} :
       SF_vars(\E c \in Operator : RetryBatch(c, st, 1))
  /\ <>[][\A c \in Caller : ~LosesWork(c)]_vars

FairSpec == Spec /\ Fairness
-----------------------------------------------------------------------------
(* Properties *)

\* The rows and the callers hold what the code puts there.
TypeOK ==
  /\ now \in Nat
  /\ status \in [Event -> EventStatus]
  /\ availableAt \in [Event -> Nat]
  /\ delivered \subseteq Event
  /\ pc \in [Caller -> Stage]
  /\ todo \in [Caller -> SUBSET Event]
  /\ rows \in [Caller -> SUBSET Event]
  /\ seen \in [Caller -> [Event -> EventStatus]]
  /\ result \in [Caller -> [Event -> ResultCode]]
  /\ attemptedAt \in [Caller -> Nat]
  /\ cancelled \subseteq Caller
  /\ audited \subseteq Event

\* No event is lost: PUBLISHED is committed only for an event whose message
\* Pub/Sub accepted, and an audit record counts as published only events whose
\* PUBLISHED status is durable, whatever crashed or was cancelled meanwhile.
PublishedIsDelivered ==
  /\ \A e \in Event : status[e] = "PUBLISHED" => e \in delivered \ Invalid
  /\ \A e \in audited : status[e] = "PUBLISHED"

\* Two callers never publish the same event at the same time, and nobody
\* publishes an event that is already settled: the webhook request and any
\* number of operators may work on one backlog.
ExclusivePublication ==
  \A c \in Caller, e \in Event :
    pc[c] = "calling" /\ AtHead(c, e) =>
      /\ status[e] \in {"PENDING", "FAILED"}
      /\ \A d \in Caller \ {c} : pc[d] = "calling" => ~AtHead(d, e)

\* A settled event is final: no late failure, no-op or rollback reverts it, so
\* it is never published again.
PublishedIsFinal ==
  [][\A e \in Event : status[e] = "PUBLISHED" => status'[e] = "PUBLISHED"]_vars

-----------------------------------------------------------------------------
(* The inductive invariant of the proofs *)

\* The locked rows of two transactions are disjoint.
LockInv ==
  \A c, d \in Caller :
    c # d /\ pc[c] \in InCall /\ pc[d] \in InCall => Held(c) \cap Held(d) = {}

\* The status of a locked row is still the one that was read.
ReadInv ==
  \A c \in Caller :
    /\ \A e \in todo[c] : status[e] # "ABSENT"
    /\ pc[c] \in InCall =>
         \A e \in Held(c) : seen[c][e] = status[e] /\ seen[c][e] # "ABSENT"

\* A published event was sent, and only unsettled rows get a new status.
ResultInv ==
  \A c \in Caller, e \in Event :
    /\ result[c][e] = "PUBLISHED" => e \in delivered \ Invalid
    /\ e \in rows[c] => result[c][e] = "NONE"
    /\ /\ pc[c] \in InCall
       /\ result[c][e] \in {"PUBLISHED", "FAILED"}
       => seen[c][e] # "PUBLISHED"
    /\ pc[c] = "calling" /\ AtHead(c, e)
       => seen[c][e] # "PUBLISHED" /\ e \notin Invalid
    /\ pc[c] = "audit" /\ result[c][e] = "PUBLISHED" => status[e] = "PUBLISHED"

IInv ==
  /\ TypeOK
  /\ LockInv
  /\ ReadInv
  /\ ResultInv
  /\ PublishedIsDelivered

-----------------------------------------------------------------------------
(* Liveness and refinement *)

\* While operators keep replaying in batches of any size, every committed valid
\* event is published in the end: an event that can never be published moves
\* back in the order and does not hold up the others.
EventuallyPublished ==
  \A e \in Event \ Invalid :
    status[e] # "ABSENT" ~> status[e] = "PUBLISHED"

\* The outbox keeps its promise.
Promise == INSTANCE OutboxPromise WITH
  absent <- {e \in Event : status[e] = "ABSENT"},
  owed <- {e \in Event : status[e] \in {"PENDING", "FAILED"}}

ImplementsPromise == Promise!PSpec
=============================================================================
