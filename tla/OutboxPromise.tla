---------------------------- MODULE OutboxPromise ----------------------------
(***************************************************************************)
(* What the outbox promises, without callers, locks, batches or retries: an *)
(* event that is committed is owed to the topic, is delivered at least once *)
(* before it is considered sent, and is then done with for good.           *)
(***************************************************************************)
CONSTANTS Event, Invalid

VARIABLES
  absent,     \* events whose business transaction has not committed
  owed,       \* committed events that are still to be sent
  delivered   \* events of which the topic holds a message

promise == <<absent, owed, delivered>>

PInit ==
  /\ absent = Event
  /\ owed = {}
  /\ delivered = {}

Owe(es) ==
  /\ es \subseteq absent
  /\ absent' = absent \ es
  /\ owed' = owed \cup es
  /\ UNCHANGED delivered

Deliver(e) ==
  /\ e \in owed \ Invalid
  /\ delivered' = delivered \cup {e}
  /\ UNCHANGED <<absent, owed>>

\* A batch settles its events together.
Settle(es) ==
  /\ es \subseteq owed \cap delivered
  /\ owed' = owed \ es
  /\ UNCHANGED <<absent, delivered>>

PNext ==
  \/ \E es \in SUBSET Event : Owe(es) \/ Settle(es)
  \/ \E e \in Event : Deliver(e)

PSpec == PInit /\ [][PNext]_promise
=============================================================================
