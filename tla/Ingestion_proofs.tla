--------------------------- MODULE Ingestion_proofs ---------------------------
(* Proofs about Ingestion, for every set of requests, alerts, instances and    *)
(* identities and every assignment of bodies.                                 *)
EXTENDS Ingestion, TLAPS

USE AlertAssumption DEF AlertAssumption

\* What request r keeps while it is handled.
UnchangedAt(r) ==
  /\ claimed'[r] = claimed[r]
  /\ row'[r] = row[r]
  /\ shown'[r] = shown[r]
  /\ opened'[r] = opened[r]
  /\ ties'[r] = ties[r]
  /\ pc'[r] = pc[r]
  /\ pos'[r] = pos[r]

\* An incident is shown: one that is opened, joined or resolved.
ShowsIncident(r) ==
  /\ pc[r] = "incident"
  /\ IncidentHolders(r) = {}
  /\ \/ /\ Visible(r, IdentityOf[Current(r)])
        /\ UNCHANGED opened
     \/ /\ Current(r) \in Firing
        /\ ~Visible(r, IdentityOf[Current(r)])
        /\ opened' = [opened EXCEPT ![r] = @ \cup {IdentityOf[Current(r)]}]
  /\ Show(r)

\* The steps of request r.
Acts(r) ==
  \/ Deliver(r)
  \/ ClaimKey(r)
  \/ UpsertInstance(r)
  \/ ShowsIncident(r)
  \/ NoIncident(r)
  \/ Commit(r)
  \/ Rollback(r)

-----------------------------------------------------------------------------
(* Steps *)

LEMMA StepCases ==
  ASSUME [Next]_vars
  PROVE  UNCHANGED vars \/ \E r \in Request : Acts(r)
<1>1. ASSUME NEW r \in Request,
             OpenIncident(r) \/ JoinIncident(r) \/ ResolveIncident(r)
      PROVE  ShowsIncident(r)
  BY <1>1 DEF OpenIncident, JoinIncident, ResolveIncident, ShowsIncident
<1>2. ASSUME NEW r \in Request, Deliver(r) \/ Step(r) \/ Rollback(r) \/ DeadlockVictim(r)
      PROVE  Acts(r)
  BY <1>1, <1>2 DEF Step, DeadlockVictim, Acts
<1> QED
  BY <1>2 DEF Next

\* The alert a request is working on is an alert of its body.
LEMMA CurrentFacts ==
  ASSUME TypeOK, NEW r \in Request, Placed(r), pc[r] \in {"claim", "instance", "incident"}
  PROVE  /\ Current(r) \in Alert
         /\ InstanceOf[Current(r)] \in Instance
         /\ IdentityOf[Current(r)] \in Identity
         /\ StateOf(Current(r)) \in State
<1>1. Body[r] \in Seq(Alert) /\ pos[r] \in 1 .. Len(Body[r])
  BY DEF Placed
<1>2. Current(r) \in Alert
  BY <1>1 DEF Current
<1> QED
  BY <1>2 DEF StateOf, State

\* The next alert, or the end of the body.
LEMMA AdvanceFacts ==
  ASSUME TypeOK, NEW r \in Request, Placed(r), Advance(r),
         pc[r] \in {"claim", "instance", "incident"}
  PROVE  /\ pos'[r] = pos[r] + 1
         /\ pos[r] \in Nat \ {0}
         /\ Len(Body[r]) \in Nat
         /\ \/ pc'[r] = "claim" /\ pos'[r] \in 1 .. Len(Body[r])
            \/ pc'[r] = "commit" /\ pos'[r] = Len(Body[r]) + 1
         /\ pos' \in [Request -> Nat \ {0}]
         /\ pc' \in [Request -> Statement]
<1>1. Body[r] \in Seq(Alert) /\ pos[r] \in 1 .. Len(Body[r]) /\ Len(Body[r]) \in Nat
  BY DEF Placed
<1>2. pos' = [pos EXCEPT ![r] = pos[r] + 1] /\ pos[r] + 1 \in Nat \ {0}
  BY <1>1 DEF Advance, TypeOK
<1>3. pos' \in [Request -> Nat \ {0}] /\ pos'[r] = pos[r] + 1
  BY <1>2 DEF TypeOK
<1>4. pc' \in [Request -> Statement]
  BY DEF Advance, TypeOK, Statement
<1>5. pc'[r] = IF pos[r] < Len(Body[r]) THEN "claim" ELSE "commit"
  BY DEF Advance, TypeOK
<1> QED
  BY <1>1, <1>3, <1>4, <1>5

\* A step of one request leaves the others alone.
LEMMA OthersStay ==
  ASSUME TypeOK, NEW r \in Request, Acts(r), NEW s \in Request, s # r
  PROVE  UnchangedAt(s)
<1> USE DEF TypeOK, UnchangedAt
<1>1. CASE Deliver(r)
  BY <1>1 DEF Deliver, written
<1>2. CASE ClaimKey(r)
  BY <1>2 DEF ClaimKey, Advance
<1>3. CASE UpsertInstance(r)
  BY <1>3 DEF UpsertInstance
<1>4. CASE ShowsIncident(r)
  BY <1>4 DEF ShowsIncident, Show, Advance
<1>5. CASE NoIncident(r)
  BY <1>5 DEF NoIncident, Advance, written
<1>6. CASE Commit(r) \/ Rollback(r)
  BY <1>6 DEF Commit, Rollback, NothingWritten
<1> QED
  BY <1>1, <1>2, <1>3, <1>4, <1>5, <1>6 DEF Acts

\* Only a commit changes the tables.
LEMMA TablesStay ==
  ASSUME NEW r \in Request, Acts(r), ~Commit(r)
  PROVE  UNCHANGED <<committed, answer>>
  BY DEF Acts, Deliver, ClaimKey, UpsertInstance, ShowsIncident, Show,
         NoIncident, Rollback

-----------------------------------------------------------------------------
(* Types *)

LEMMA NothingTypes ==
  ASSUME TypeOK, NEW r \in Request, NothingWritten(r)
  PROVE  /\ claimed' \in [Request -> SUBSET Alert]
         /\ row' \in [Request -> [Instance -> Draft]]
         /\ shown' \in [Request -> [Identity -> Draft]]
         /\ opened' \in [Request -> SUBSET Identity]
         /\ ties' \in [Request -> SUBSET Alert]
<1>1. /\ [i \in Instance |-> "NONE"] \in [Instance -> Draft]
      /\ [k \in Identity |-> "NONE"] \in [Identity -> Draft]
  BY DEF Draft
<1> QED
  BY <1>1 DEF TypeOK, NothingWritten

\* Adding one element to what a request has.
LEMMA AddTypes ==
  ASSUME NEW S, NEW f \in [Request -> SUBSET S], NEW r \in Request, NEW x \in S
  PROVE  [f EXCEPT ![r] = @ \cup {x}] \in [Request -> SUBSET S]
  OBVIOUS

LEMMA TypeStep ==
  ASSUME TypeOK, RequestInv, [Next]_vars
  PROVE  TypeOK'
<1>1. ASSUME UNCHANGED vars
      PROVE  TypeOK'
  BY <1>1 DEF TypeOK, vars, committed, written
<1>2. ASSUME NEW r \in Request, Deliver(r)
      PROVE  TypeOK'
  <2>0. pos' = [pos EXCEPT ![r] = 1] /\ pos \in [Request -> Nat \ {0}]
    BY <1>2 DEF TypeOK, Deliver
  <2>1. pos' \in [Request -> Nat \ {0}] /\ pc' \in [Request -> Statement]
    <3>1. pos' \in [Request -> Nat \ {0}]
      BY <2>0
    <3>2. pc' \in [Request -> Statement]
      BY <1>2 DEF TypeOK, Deliver, Statement
    <3> QED
      BY <3>1, <3>2
  <2>2. UNCHANGED <<committed, written, answer>>
    BY <1>2 DEF Deliver
  <2> QED
    BY <2>1, <2>2 DEF TypeOK, committed, written
<1>3. ASSUME NEW r \in Request, ClaimKey(r)
      PROVE  TypeOK'
  <2>1. Current(r) \in Alert
    BY <1>3, CurrentFacts DEF RequestInv, ClaimKey
  <2>2. claimed' \in [Request -> SUBSET Alert]
    <3>1. claimed \in [Request -> SUBSET Alert]
      BY DEF TypeOK
    <3>2. \/ claimed' = [claimed EXCEPT ![r] = @ \cup {Current(r)}]
          \/ claimed' = claimed
      BY <1>3 DEF ClaimKey
    <3> QED
      BY <2>1, <3>1, <3>2, AddTypes
  <2>3. pos' \in [Request -> Nat \ {0}] /\ pc' \in [Request -> Statement]
    BY <1>3, AdvanceFacts DEF RequestInv, ClaimKey, TypeOK, Statement
  <2> QED
    BY <1>3, <2>2, <2>3 DEF TypeOK, ClaimKey, committed
<1>4. ASSUME NEW r \in Request, UpsertInstance(r)
      PROVE  TypeOK'
  <2>1. row' \in [Request -> [Instance -> Draft]]
    <3>1. /\ row \in [Request -> [Instance -> Draft]]
          /\ row' = [row EXCEPT ![r][InstanceOf[Current(r)]] = StateOf(Current(r))]
          /\ InstanceOf[Current(r)] \in Instance
          /\ StateOf(Current(r)) \in Draft
      BY <1>4, CurrentFacts DEF RequestInv, UpsertInstance, TypeOK, Draft
    <3> QED
      BY <3>1
  <2>2. pc' \in [Request -> Statement]
    BY <1>4 DEF UpsertInstance, TypeOK, Statement
  <2> QED
    BY <1>4, <2>1, <2>2 DEF TypeOK, UpsertInstance, committed
<1>5. ASSUME NEW r \in Request, ShowsIncident(r)
      PROVE  TypeOK'
  <2>1. /\ shown' \in [Request -> [Identity -> Draft]]
        /\ ties' \in [Request -> SUBSET Alert]
    <3>1. /\ shown \in [Request -> [Identity -> Draft]]
          /\ shown' = [shown EXCEPT ![r][IdentityOf[Current(r)]] = StateOf(Current(r))]
          /\ IdentityOf[Current(r)] \in Identity
          /\ StateOf(Current(r)) \in Draft
      BY <1>5, CurrentFacts DEF RequestInv, ShowsIncident, Show, TypeOK, Draft
    <3>2. /\ ties \in [Request -> SUBSET Alert]
          /\ ties' = [ties EXCEPT ![r] = @ \cup {Current(r)}]
          /\ Current(r) \in Alert
      BY <1>5, CurrentFacts DEF RequestInv, ShowsIncident, Show, TypeOK
    <3>3. shown' \in [Request -> [Identity -> Draft]]
      BY <3>1
    <3>4. ties' \in [Request -> SUBSET Alert]
      BY <3>2, AddTypes
    <3> QED
      BY <3>3, <3>4
  <2>2. opened' \in [Request -> SUBSET Identity]
    <3>1. opened \in [Request -> SUBSET Identity]
      BY DEF TypeOK
    <3>2. \/ opened' = [opened EXCEPT ![r] = @ \cup {IdentityOf[Current(r)]}]
          \/ opened' = opened
      BY <1>5 DEF ShowsIncident
    <3> QED
      BY <1>5, <3>1, <3>2, CurrentFacts, AddTypes DEF ShowsIncident
  <2>3. pos' \in [Request -> Nat \ {0}] /\ pc' \in [Request -> Statement]
    BY <1>5, AdvanceFacts DEF RequestInv, ShowsIncident, Show
  <2> QED
    BY <1>5, <2>1, <2>2, <2>3 DEF TypeOK, ShowsIncident, Show, committed
<1>6. ASSUME NEW r \in Request, NoIncident(r)
      PROVE  TypeOK'
  <2>1. pos' \in [Request -> Nat \ {0}] /\ pc' \in [Request -> Statement]
    BY <1>6, AdvanceFacts DEF RequestInv, NoIncident
  <2> QED
    BY <1>6, <2>1 DEF TypeOK, NoIncident, committed, written
<1>7. ASSUME NEW r \in Request, Commit(r)
      PROVE  TypeOK'
  <2>1. /\ events' \in [Alert -> Nat]
        /\ instanceState' \in [Instance -> Draft]
        /\ incidentState' \in [Identity -> Draft]
        /\ work' \in [Identity -> Nat]
        /\ linked' \subseteq Alert
    BY <1>7 DEF Commit, MakeVisible, TypeOK, Draft
  <2>2. pc' \in [Request -> Statement] /\ answer' \in [Request -> Answer]
    BY <1>7 DEF Commit, TypeOK, Statement, Answer, DeliveryStatus
  <2> QED
    BY <1>7, <2>1, <2>2, NothingTypes DEF TypeOK, Commit
<1>8. ASSUME NEW r \in Request, Rollback(r)
      PROVE  TypeOK'
  <2>1. pc' \in [Request -> Statement]
    BY <1>8 DEF Rollback, TypeOK, Statement
  <2> QED
    BY <1>8, <2>1, NothingTypes DEF TypeOK, Rollback, committed
<1> QED
  BY <1>1, <1>2, <1>3, <1>4, <1>5, <1>6, <1>7, <1>8, StepCases DEF Acts

-----------------------------------------------------------------------------
(* What holds of one request *)

RequestAt(r) == Placed(r) /\ Keyed(r) /\ Opens(r) /\ Links(r) /\ Shows(r)

\* It holds of a request that does nothing, if the tables change as they do.
LEMMA RequestKept ==
  ASSUME TypeOK, NEW s \in Request, RequestAt(s), UnchangedAt(s),
         \A a \in Alert : Stored(a) => Stored(a)',
         \A a \in claimed[s] : ~Stored(a)',
         \A k \in Identity : Active(k) => Active(k)',
         \A k \in opened[s] : ~Active(k)',
         \A a \in claimed[s], b \in Firing :
           ~Pending(s, a) /\ InstanceOf[b] = InstanceOf[a] /\ Stored(b)' => Stored(b)
  PROVE  RequestAt(s)'
<1>1. /\ Current(s)' = Current(s)
      /\ \A a \in Alert : Pending(s, a)' <=> Pending(s, a)
  BY DEF Current, Pending, UnchangedAt
<1>2. claimed[s] \subseteq Alert /\ opened[s] \subseteq Identity
  BY DEF TypeOK
<1>3. Placed(s)'
  BY DEF Placed, RequestAt, UnchangedAt
<1>4. Keyed(s)'
  <2>1. \A i \in 1 .. Len(Body[s]) : Body[s][i] \in Alert
    OBVIOUS
  <2> QED
    BY <1>1, <1>2, <2>1 DEF Keyed, RequestAt, UnchangedAt
<1>5. Opens(s)'
  BY <1>2 DEF Opens, RequestAt, UnchangedAt
<1>6. Links(s)'
  BY <1>1, <1>2 DEF Links, RequestAt, UnchangedAt
<1>7. Shows(s)'
  BY <1>1 DEF Shows, RequestAt, UnchangedAt
<1> QED
  BY <1>3, <1>4, <1>5, <1>6, <1>7 DEF RequestAt

\* ... of one that is idle,
LEMMA RequestIdle ==
  ASSUME TypeOK, NEW r \in Request, NothingWritten(r), pc'[r] = "idle"
  PROVE  RequestAt(r)'
<1>1. /\ claimed'[r] = {} /\ opened'[r] = {} /\ ties'[r] = {}
      /\ \A i \in Instance : row'[r][i] = "NONE"
      /\ \A k \in Identity : shown'[r][k] = "NONE"
  BY DEF NothingWritten, TypeOK
<1> QED
  BY <1>1 DEF RequestAt, Placed, Keyed, Opens, Links, Shows

\* ... of one that is delivered,
LEMMA RequestDelivered ==
  ASSUME TypeOK, NEW r \in Request, RequestAt(r), Deliver(r)
  PROVE  RequestAt(r)'
<1>1. /\ claimed'[r] = {} /\ opened'[r] = {} /\ ties'[r] = {}
      /\ \A i \in Instance : row'[r][i] = "NONE"
      /\ \A k \in Identity : shown'[r][k] = "NONE"
      /\ UNCHANGED committed
  BY DEF Deliver, RequestAt, Placed, written
<1>2. /\ pos'[r] = 1
      /\ pc'[r] = IF Body[r] = <<>> THEN "commit" ELSE "claim"
  BY DEF Deliver, TypeOK
<1>3. Placed(r)'
  <2>1. Body[r] # <<>> => 1 \in 1 .. Len(Body[r])
    OBVIOUS
  <2>2. Body[r] = <<>> => Len(Body[r]) = 0
    OBVIOUS
  <2> QED
    BY <1>2, <2>1, <2>2 DEF Placed
<1>4. Keyed(r)'
  BY <1>1, <1>2 DEF Keyed
<1> QED
  BY <1>1, <1>2, <1>3, <1>4 DEF RequestAt, Opens, Links, Shows

\* ... of one that claims a key, or finds it taken,
LEMMA RequestClaims ==
  ASSUME TypeOK, NEW r \in Request, RequestAt(r), ClaimKey(r)
  PROVE  RequestAt(r)'
<1>1. pc[r] = "claim" /\ Current(r) \in Alert /\ Current(r) = Body[r][pos[r]]
  BY CurrentFacts DEF ClaimKey, RequestAt, Current
<1>2. /\ row' = row /\ shown' = shown /\ opened' = opened /\ ties' = ties
      /\ UNCHANGED committed
  BY DEF ClaimKey
<1>3. CASE /\ KeyFree(r)
           /\ claimed' = [claimed EXCEPT ![r] = @ \cup {Current(r)}]
           /\ pc' = [pc EXCEPT ![r] = "instance"]
           /\ UNCHANGED pos
  <2>1. /\ claimed'[r] = claimed[r] \cup {Current(r)}
        /\ pc'[r] = "instance"
        /\ pos'[r] = pos[r]
        /\ Current(r)' = Current(r)
    BY <1>3 DEF TypeOK, Current
  <2>2. \A a \in Alert : Stored(a)' <=> Stored(a)
    BY <1>2 DEF Stored, committed
  <2>3. Placed(r)'
    BY <1>1, <2>1 DEF RequestAt, Placed
  <2>4. Keyed(r)'
    BY <1>1, <1>2, <1>3, <2>1, <2>2 DEF RequestAt, Keyed, KeyFree, committed, Stored
  <2>5. Opens(r)'
    BY <1>2, <2>1 DEF RequestAt, Opens, committed, Active
  <2>6. Links(r)'
    <3>1. \A a \in claimed'[r] : ~Pending(r, a)' => a \in claimed[r] /\ ~Pending(r, a)
      BY <1>1, <2>1 DEF Pending
    <3> QED
      BY <1>2, <2>1, <3>1 DEF RequestAt, Links, committed, Stored
  <2>7. Shows(r)'
    BY <1>1, <1>2, <2>1 DEF RequestAt, Shows
  <2> QED
    BY <2>3, <2>4, <2>5, <2>6, <2>7 DEF RequestAt
<1>4. CASE ~KeyFree(r) /\ Advance(r) /\ UNCHANGED claimed
  <2>1. /\ pos'[r] = pos[r] + 1
        /\ pos[r] \in Nat
        /\ Len(Body[r]) \in Nat
        /\ \/ pc'[r] = "claim" /\ pos'[r] \in 1 .. Len(Body[r])
           \/ pc'[r] = "commit" /\ pos'[r] = Len(Body[r]) + 1
    BY <1>1, <1>4, AdvanceFacts DEF RequestAt
  <2>2. Placed(r)'
    BY <2>1 DEF Placed
  <2>3. Keyed(r)'
    <3>1. Stored(Current(r)) \/ Current(r) \in claimed[r]
      BY <1>4 DEF KeyFree
    <3>2. \A i \in 1 .. Len(Body[r]) : i < pos'[r] =>
            Stored(Body[r][i]) \/ Body[r][i] \in claimed[r]
      BY <1>1, <2>1, <3>1 DEF RequestAt, Keyed
    <3> QED
      BY <1>1, <1>2, <1>4, <2>1, <3>2 DEF RequestAt, Keyed, committed, Stored
  <2>4. Opens(r)'
    BY <1>2, <1>4 DEF RequestAt, Opens, committed, Active
  <2>5. Links(r)'
    BY <1>1, <1>2, <1>4, <2>1 DEF RequestAt, Links, Pending, committed, Stored
  <2>6. Shows(r)'
    BY <1>1, <1>2, <2>1 DEF RequestAt, Shows
  <2> QED
    BY <2>2, <2>3, <2>4, <2>5, <2>6 DEF RequestAt
<1> QED
  BY <1>3, <1>4 DEF ClaimKey

\* The alerts of an instance are of one identity.
LEMMA OneIdentityEach ==
  \A a, b \in Alert : InstanceOf[a] = InstanceOf[b] => IdentityOf[a] = IdentityOf[b]
  BY KeyAssumption DEF KeyAssumption

\* ... of one that writes the row of an instance,
LEMMA RequestUpserts ==
  ASSUME TypeOK, NEW r \in Request, RequestAt(r), UpsertInstance(r)
  PROVE  RequestAt(r)'
<1>1. /\ pc[r] = "instance"
      /\ Current(r) \in Alert
      /\ InstanceOf[Current(r)] \in Instance
      /\ IdentityOf[Current(r)] \in Identity
      /\ StateOf(Current(r)) \in State
  BY CurrentFacts DEF UpsertInstance, RequestAt
<1>2. /\ claimed' = claimed /\ shown' = shown /\ opened' = opened /\ ties' = ties
      /\ pos' = pos
      /\ UNCHANGED committed
  BY DEF UpsertInstance
<1>3. /\ pc'[r] = "incident"
      /\ Current(r)' = Current(r)
  BY DEF UpsertInstance, TypeOK, Current
<1>4. \A i \in Instance : row'[r][i] = IF i = InstanceOf[Current(r)]
                                         THEN StateOf(Current(r)) ELSE row[r][i]
  BY <1>1 DEF UpsertInstance, TypeOK
<1>5. Placed(r)'
  BY <1>1, <1>2, <1>3 DEF RequestAt, Placed
<1>6. Keyed(r)'
  BY <1>1, <1>2, <1>3 DEF RequestAt, Keyed, committed, Stored
<1>7. Opens(r)'
  BY <1>2 DEF RequestAt, Opens, committed, Active
<1>8. Links(r)'
  <2>1. claimed[r] \subseteq Alert
    BY DEF TypeOK
  <2>2. \A a \in claimed[r] : Pending(r, a)' <=> Pending(r, a)
    BY <1>1, <1>3 DEF Pending
  <2>3. StateOf(Current(r)) # "NONE"
    BY DEF StateOf
  <2>4. \A a \in claimed[r] : row[r][InstanceOf[a]] # "NONE"
                               => row'[r][InstanceOf[a]] # "NONE"
    BY <1>4, <2>1, <2>3
  <2>5. StateOf(Current(r))' = StateOf(Current(r))
    BY <1>3 DEF StateOf
  <2> QED
    BY <1>1, <1>2, <1>3, <1>4, <2>1, <2>2, <2>4, <2>5
       DEF RequestAt, Links, committed, Stored
<1>9. Shows(r)'
  <2> SUFFICES ASSUME NEW k \in Identity, shown[r][k] # "NONE",
                      k # IdentityOf[Current(r)]
               PROVE  \E a \in Alert : /\ IdentityOf[a] = k
                                      /\ row'[r][InstanceOf[a]] = shown[r][k]
    BY <1>2, <1>3 DEF Shows
  <2>1. PICK a \in Alert : IdentityOf[a] = k /\ row[r][InstanceOf[a]] = shown[r][k]
    BY <1>1 DEF RequestAt, Shows
  <2>2. InstanceOf[a] # InstanceOf[Current(r)]
    BY <1>1, <2>1, OneIdentityEach
  <2> QED
    BY <1>4, <2>1, <2>2
<1> QED
  BY <1>5, <1>6, <1>7, <1>8, <1>9 DEF RequestAt

\* Advancing to the next alert.
LEMMA RequestAdvances ==
  ASSUME TypeOK, NEW r \in Request, RequestAt(r), pc[r] = "incident", Advance(r),
         claimed' = claimed, UNCHANGED committed
  PROVE  /\ Placed(r)'
         /\ Keyed(r)'
         /\ pc'[r] \in {"claim", "commit"}
         /\ \A a \in Alert : ~Pending(r, a)'
<1>1. /\ pos'[r] = pos[r] + 1
      /\ pos[r] \in Nat
      /\ Len(Body[r]) \in Nat
      /\ \/ pc'[r] = "claim" /\ pos'[r] \in 1 .. Len(Body[r])
         \/ pc'[r] = "commit" /\ pos'[r] = Len(Body[r]) + 1
  BY AdvanceFacts DEF RequestAt
<1>2. Placed(r)'
  BY <1>1 DEF Placed
<1>3. Keyed(r)'
  <2>1. Current(r) \in claimed[r] /\ Current(r) = Body[r][pos[r]]
    BY DEF RequestAt, Keyed, Current
  <2>2. \A i \in 1 .. Len(Body[r]) : i < pos'[r] =>
          Stored(Body[r][i]) \/ Body[r][i] \in claimed[r]
    BY <1>1, <2>1 DEF RequestAt, Keyed
  <2> QED
    BY <1>1, <2>2 DEF RequestAt, Keyed, committed, Stored
<1> QED
  BY <1>1, <1>2, <1>3 DEF Pending

\* ... of one that shows the incident of its alert,
LEMMA RequestShows ==
  ASSUME TypeOK, NEW r \in Request, RequestAt(r), ShowsIncident(r)
  PROVE  RequestAt(r)'
<1> DEFINE here == IdentityOf[Current(r)]
<1>1. /\ pc[r] = "incident"
      /\ Current(r) \in Alert
      /\ InstanceOf[Current(r)] \in Instance
      /\ here \in Identity
      /\ StateOf(Current(r)) # "NONE"
  BY CurrentFacts DEF ShowsIncident, RequestAt, State
<1>2. /\ claimed' = claimed /\ row' = row
      /\ Advance(r)
      /\ UNCHANGED committed
  BY DEF ShowsIncident, Show
<1>3. /\ Placed(r)' /\ Keyed(r)'
      /\ pc'[r] \in {"claim", "commit"}
      /\ \A a \in Alert : ~Pending(r, a)'
  BY <1>1, <1>2, RequestAdvances
<1>4. /\ ties'[r] = ties[r] \cup {Current(r)}
      /\ \A k \in Identity : shown'[r][k] = IF k = here THEN StateOf(Current(r))
                                                        ELSE shown[r][k]
  BY <1>1 DEF ShowsIncident, Show, TypeOK
<1>5. \/ opened'[r] = opened[r] /\ (Active(here) \/ here \in opened[r])
      \/ /\ opened'[r] = opened[r] \cup {here}
         /\ ~Active(here)
         /\ Current(r) \in Firing
  BY <1>1 DEF ShowsIncident, Visible, TypeOK
<1>6. Opens(r)'
  <2>1. Current(r) \in claimed[r]
    BY <1>1 DEF RequestAt, Keyed
  <2>2. \A k \in Identity : Active(k)' <=> Active(k)
    BY <1>2 DEF committed, Active
  <2> QED
    BY <1>1, <1>2, <1>4, <1>5, <2>1, <2>2 DEF RequestAt, Opens
<1>7. Links(r)'
  <2>1. claimed[r] \subseteq Alert
    BY DEF TypeOK
  <2>2. \A a \in claimed[r] : Pending(r, a) => a = Current(r)
    BY DEF Pending
  <2>3. row[r][InstanceOf[Current(r)]] = StateOf(Current(r))
    BY <1>1 DEF RequestAt, Links
  <2>4. \A a \in claimed[r] :
          /\ row[r][InstanceOf[a]] # "NONE"
          /\ a \in Firing => a \in ties'[r] /\ shown'[r][IdentityOf[a]] # "NONE"
          /\ a \in ties'[r] \/ \A b \in Firing :
                                 InstanceOf[b] = InstanceOf[a] => ~Stored(b)
    BY <1>1, <1>4, <2>1, <2>2, <2>3 DEF RequestAt, Links
  <2> QED
    BY <1>2, <1>3, <2>4 DEF Links, committed, Stored
<1>8. Shows(r)'
  <2> SUFFICES ASSUME NEW k \in Identity, shown'[r][k] # "NONE"
               PROVE  \E a \in Alert : /\ IdentityOf[a] = k
                                      /\ row[r][InstanceOf[a]] = shown'[r][k]
    BY <1>2 DEF Shows
  <2>1. CASE k = here
    BY <1>1, <1>4, <2>1 DEF RequestAt, Links
  <2>2. CASE k # here
    BY <1>4, <2>2 DEF RequestAt, Shows
  <2> QED
    BY <2>1, <2>2
<1> QED
  BY <1>3, <1>6, <1>7, <1>8 DEF RequestAt

\* ... and of one that finds none.
LEMMA RequestFindsNone ==
  ASSUME TypeOK, ActiveInv, NEW r \in Request, RequestAt(r), NoIncident(r)
  PROVE  RequestAt(r)'
<1>1. /\ pc[r] = "incident"
      /\ Current(r) \in Alert
      /\ Current(r) \notin Firing
      /\ IdentityOf[Current(r)] \in Identity
      /\ ~Active(IdentityOf[Current(r)])
      /\ IdentityOf[Current(r)] \notin opened[r]
      /\ StateOf(Current(r)) # "NONE"
  BY CurrentFacts DEF NoIncident, RequestAt, Visible, State
<1>2. /\ claimed' = claimed /\ row' = row /\ shown' = shown /\ opened' = opened
      /\ ties' = ties
      /\ Advance(r)
      /\ UNCHANGED committed
  BY DEF NoIncident, written
<1>3. /\ Placed(r)' /\ Keyed(r)'
      /\ pc'[r] \in {"claim", "commit"}
      /\ \A a \in Alert : ~Pending(r, a)'
  BY <1>1, <1>2, RequestAdvances
<1>4. Opens(r)'
  BY <1>2 DEF RequestAt, Opens, committed, Active
<1>5. Links(r)'
  <2>1. claimed[r] \subseteq Alert
    BY DEF TypeOK
  <2>2. \A a \in claimed[r] : Pending(r, a) => a = Current(r)
    BY DEF Pending
  <2>3. row[r][InstanceOf[Current(r)]] # "NONE"
    BY <1>1 DEF RequestAt, Links
  <2>4. \A b \in Firing : InstanceOf[b] = InstanceOf[Current(r)] => ~Stored(b)
    BY <1>1, OneIdentityEach DEF ActiveInv
  <2>5. \A a \in claimed[r] :
          /\ row[r][InstanceOf[a]] # "NONE"
          /\ a \in Firing => a \in ties[r] /\ shown[r][IdentityOf[a]] # "NONE"
          /\ a \in ties[r] \/ \A b \in Firing :
                                InstanceOf[b] = InstanceOf[a] => ~Stored(b)
    BY <1>1, <2>1, <2>2, <2>3, <2>4 DEF RequestAt, Links
  <2> QED
    BY <1>2, <1>3, <2>5 DEF Links, committed, Stored
<1>6. Shows(r)'
  <2>1. \A k \in Identity : shown[r][k] # "NONE" => k # IdentityOf[Current(r)]
    BY <1>1 DEF RequestAt, Opens
  <2> QED
    BY <1>2, <2>1 DEF RequestAt, Shows
<1> QED
  BY <1>3, <1>4, <1>5, <1>6 DEF RequestAt

-----------------------------------------------------------------------------
(* Commits *)

\* What a commit does to each row.
LEMMA CommitEffect ==
  ASSUME TypeOK, NEW r \in Request, Commit(r)
  PROVE  /\ pc[r] = "commit"
         /\ \A a \in Alert : events'[a] = IF a \in claimed[r] THEN events[a] + 1
                                                            ELSE events[a]
         /\ \A a \in Alert : Stored(a)' <=> Stored(a) \/ a \in claimed[r]
         /\ \A i \in Instance : instanceState'[i] =
              IF row[r][i] = "NONE" THEN instanceState[i] ELSE row[r][i]
         /\ \A k \in Identity : incidentState'[k] =
              IF shown[r][k] = "NONE" THEN incidentState[k] ELSE shown[r][k]
         /\ \A k \in Identity : Active(k)' <=> Active(k) \/ shown[r][k] # "NONE"
         /\ \A k \in Identity : work'[k] = IF k \in opened[r] THEN work[k] + 1
                                                             ELSE work[k]
         /\ linked' = linked \cup ties[r]
<1>1. pc[r] = "commit" /\ MakeVisible(r)
  BY DEF Commit
<1>2. \A a \in Alert : events'[a] = IF a \in claimed[r] THEN events[a] + 1
                                                      ELSE events[a]
  BY <1>1 DEF MakeVisible, TypeOK
<1>3. \A a \in Alert : Stored(a)' <=> Stored(a) \/ a \in claimed[r]
  BY <1>2 DEF Stored, TypeOK
<1>4. \A k \in Identity : incidentState'[k] =
        IF shown[r][k] = "NONE" THEN incidentState[k] ELSE shown[r][k]
  BY <1>1 DEF MakeVisible
<1>5. \A k \in Identity : Active(k)' <=> Active(k) \/ shown[r][k] # "NONE"
  BY <1>4 DEF Active
<1>6. \A i \in Instance : instanceState'[i] =
        IF row[r][i] = "NONE" THEN instanceState[i] ELSE row[r][i]
  BY <1>1 DEF MakeVisible
<1>7. \A k \in Identity : work'[k] = IF k \in opened[r] THEN work[k] + 1 ELSE work[k]
  BY <1>1 DEF MakeVisible, TypeOK
<1> QED
  BY <1>1, <1>2, <1>3, <1>4, <1>5, <1>6, <1>7 DEF MakeVisible

\* At the commit nothing is pending.
LEMMA CommitFacts ==
  ASSUME IInv, NEW r \in Request, Commit(r)
  PROVE  /\ claimed[r] \subseteq Alert
         /\ \A a \in claimed[r] :
              /\ ~Stored(a)
              /\ row[r][InstanceOf[a]] # "NONE"
              /\ a \in Firing => a \in ties[r] /\ shown[r][IdentityOf[a]] # "NONE"
              /\ a \in ties[r] \/ \A b \in Firing :
                                    InstanceOf[b] = InstanceOf[a] => ~Stored(b)
         /\ \A k \in Identity :
              shown[r][k] # "NONE" => \/ Active(k)
                                     \/ \E a \in claimed[r] \cap Firing : IdentityOf[a] = k
<1>1. /\ claimed[r] \subseteq Alert
      /\ \A a \in claimed[r] : ~Stored(a) /\ ~Pending(r, a)
  BY DEF IInv, TypeOK, RequestInv, Keyed, Commit, Pending
<1> QED
  BY <1>1 DEF IInv, RequestInv, Links, Opens

\* Every step keeps what holds of every request.
LEMMA RequestStep ==
  ASSUME IInv, [Next]_vars
  PROVE  RequestInv'
<1> USE DEF RequestAt
<1>1. SUFFICES ASSUME NEW s \in Request
               PROVE  RequestAt(s)'
  BY DEF RequestInv
<1>2. TypeOK /\ RequestAt(s)
  BY DEF IInv, RequestInv
<1> HIDE DEF RequestAt
<1>3. claimed[s] \subseteq {a \in Alert : ~Stored(a)} /\ opened[s] \subseteq Identity
  BY <1>2 DEF RequestAt, Keyed, TypeOK
<1>4. ASSUME UnchangedAt(s), UNCHANGED committed
      PROVE  RequestAt(s)'
  <2>1. /\ \A a \in Alert : Stored(a)' <=> Stored(a)
        /\ \A k \in Identity : Active(k)' <=> Active(k)
    BY <1>4 DEF Stored, Active, committed
  <2> QED
    BY <1>2, <1>3, <1>4, <2>1, RequestKept DEF RequestAt, Opens
<1>5. ASSUME NEW r \in Request, r # s, Commit(r)
      PROVE  RequestAt(s)'
  <2>1. UnchangedAt(s)
    BY <1>2, <1>5, OthersStay DEF Acts
  <2>2. /\ claimed[r] \cap claimed[s] = {}
        /\ \A i \in Instance : row[r][i] = "NONE" \/ row[s][i] = "NONE"
        /\ \A k \in Identity : shown[r][k] = "NONE" \/ shown[s][k] = "NONE"
    BY <1>5 DEF IInv, ExclusiveInv, Others
  <2>3. \A a \in claimed[s] : ~Stored(a)'
    BY <1>2, <1>3, <1>5, <2>2, CommitEffect
  <2>4. \A k \in opened[s] : ~Active(k)'
    <3>1. \A k \in opened[s] : k \in Identity /\ ~Active(k) /\ shown[s][k] # "NONE"
      BY <1>2, <1>3 DEF RequestAt, Opens
    <3>2. \A k \in Identity : Active(k)' <=> Active(k) \/ shown[r][k] # "NONE"
      BY <1>2, <1>5, CommitEffect
    <3> QED
      BY <2>2, <3>1, <3>2
  <2>5. ASSUME NEW a \in claimed[s], NEW b \in Firing, ~Pending(s, a),
               InstanceOf[b] = InstanceOf[a], Stored(b)', ~Stored(b)
        PROVE  FALSE
    <3>1. row[s][InstanceOf[a]] # "NONE"
      BY <1>2, <2>5 DEF RequestAt, Links
    <3>2. row[r][InstanceOf[b]] # "NONE"
      BY <1>2, <1>5, <2>5, CommitEffect, CommitFacts
    <3> QED
      BY <1>3, <2>2, <2>5, <3>1, <3>2
  <2>6. /\ \A a \in Alert : Stored(a) => Stored(a)'
        /\ \A k \in Identity : Active(k) => Active(k)'
    BY <1>2, <1>5, CommitEffect
  <2> QED
    BY <1>2, <2>1, <2>3, <2>4, <2>5, <2>6, RequestKept
<1>6. ASSUME NEW r \in Request, r # s, Acts(r)
      PROVE  RequestAt(s)'
  BY <1>2, <1>4, <1>5, <1>6, OthersStay, TablesStay
<1>7. ASSUME Acts(s)
      PROVE  RequestAt(s)'
  <2>1. CASE Commit(s) \/ Rollback(s)
    <3>1. NothingWritten(s) /\ pc'[s] = "idle"
      BY <1>2, <2>1 DEF Commit, Rollback, TypeOK
    <3> QED
      BY <1>2, <3>1, RequestIdle
  <2> QED
    BY <1>2, <1>7, <2>1, RequestDelivered, RequestClaims, RequestUpserts,
       RequestShows, RequestFindsNone DEF Acts, IInv
<1>8. CASE UNCHANGED vars
  BY <1>4, <1>8 DEF vars, written, UnchangedAt
<1> QED
  BY <1>6, <1>7, <1>8, StepCases

\* What one statement waits for keeps two transactions apart.
LEMMA ExclusiveStep ==
  ASSUME IInv, [Next]_vars
  PROVE  ExclusiveInv'
<1> DEFINE Apart(r, s) ==
      /\ claimed[r] \cap claimed[s] = {}
      /\ \A i \in Instance : row[r][i] = "NONE" \/ row[s][i] = "NONE"
      /\ \A k \in Identity : shown[r][k] = "NONE" \/ shown[s][k] = "NONE"
<1>1. \A r, s \in Request : r # s => Apart(r, s)
  BY DEF IInv, ExclusiveInv, Others
<1>2. ASSUME NEW r \in Request, NEW s \in Request, r # s, Acts(r)
      PROVE  Apart(r, s)'
  <2>1. UnchangedAt(s)
    BY <1>2, OthersStay DEF IInv
  <2>2. Placed(r) /\ Apart(r, s) /\ s \in Others(r) /\ TypeOK
    BY <1>1, <1>2 DEF IInv, RequestInv, Others
  <2>3. CASE Deliver(r)
    BY <2>1, <2>2, <2>3 DEF Deliver, written, UnchangedAt
  <2>4. CASE ClaimKey(r)
    BY <2>1, <2>2, <2>4 DEF ClaimKey, KeyHolders, UnchangedAt, TypeOK
  <2>5. CASE UpsertInstance(r)
    <3>1. /\ InstanceOf[Current(r)] \in Instance
          /\ row[s][InstanceOf[Current(r)]] = "NONE"
      BY <2>2, <2>5, CurrentFacts DEF UpsertInstance, InstanceHolders
    <3>2. \A i \in Instance : i # InstanceOf[Current(r)] => row'[r][i] = row[r][i]
      BY <2>5 DEF UpsertInstance, TypeOK, IInv
    <3>3. claimed' = claimed /\ shown' = shown
      BY <2>5 DEF UpsertInstance
    <3> QED
      BY <2>1, <2>2, <3>1, <3>2, <3>3 DEF UnchangedAt
  <2>6. CASE ShowsIncident(r)
    <3>1. /\ IdentityOf[Current(r)] \in Identity
          /\ shown[s][IdentityOf[Current(r)]] = "NONE"
      BY <2>2, <2>6, CurrentFacts DEF ShowsIncident, IncidentHolders
    <3>2. \A k \in Identity : k # IdentityOf[Current(r)] => shown'[r][k] = shown[r][k]
      BY <2>6 DEF ShowsIncident, Show, TypeOK, IInv
    <3>3. claimed' = claimed /\ row' = row
      BY <2>6 DEF ShowsIncident, Show
    <3> QED
      BY <2>1, <2>2, <3>1, <3>2, <3>3 DEF UnchangedAt
  <2>7. CASE NoIncident(r)
    BY <2>1, <2>2, <2>7 DEF NoIncident, written, UnchangedAt
  <2>8. CASE Commit(r) \/ Rollback(r)
    BY <2>1, <2>2, <2>8 DEF Commit, Rollback, NothingWritten, TypeOK
  <2> QED
    BY <1>2, <2>3, <2>4, <2>5, <2>6, <2>7, <2>8 DEF Acts
<1>3. ASSUME NEW q \in Request, Acts(q), NEW r \in Request, NEW s \in Request, r # s
      PROVE  Apart(r, s)'
  <2>1. CASE q = r
    BY <1>2, <1>3, <2>1
  <2>2. CASE q = s
    BY <1>2, <1>3, <2>2
  <2>3. CASE q # r /\ q # s
    <3>1. UnchangedAt(r) /\ UnchangedAt(s)
      BY <1>3, <2>3, OthersStay DEF IInv
    <3> QED
      BY <1>1, <1>3, <3>1 DEF UnchangedAt
  <2> QED
    BY <2>1, <2>2, <2>3
<1>4. CASE UNCHANGED vars
  BY <1>4 DEF vars, written, IInv, ExclusiveInv, Others
<1> QED
  BY <1>3, <1>4, StepCases DEF ExclusiveInv, Others

\* The alerts that were not stored are stored once, by one commit.
LEMMA OnceStep ==
  ASSUME IInv, [Next]_vars
  PROVE  ProcessedOnce'
<1>1. ASSUME NEW r \in Request, Commit(r)
      PROVE  ProcessedOnce'
  <2>1. \A a \in Alert : events'[a] = IF a \in claimed[r] THEN events[a] + 1
                                                        ELSE events[a]
    BY <1>1, CommitEffect DEF IInv
  <2>2. \A a \in claimed[r] : ~Stored(a)
    BY <1>1, CommitFacts
  <2>3. events \in [Alert -> Nat] /\ \A a \in Alert : events[a] <= 1
    BY DEF IInv, TypeOK, ProcessedOnce
  <2>4. ASSUME NEW a \in Alert
        PROVE  events'[a] <= 1
    <3>1. CASE a \in claimed[r]
      <4>1. events[a] = 0
        BY <2>2, <2>3, <3>1 DEF Stored
      <4> QED
        BY <2>1, <3>1, <4>1
    <3>2. CASE a \notin claimed[r]
      BY <2>1, <2>3, <3>2
    <3> QED
      BY <3>1, <3>2
  <2> QED
    BY <2>4 DEF ProcessedOnce
<1>2. CASE UNCHANGED events
  BY <1>2 DEF IInv, ProcessedOnce
<1> QED
  BY <1>1, <1>2, StepCases, TablesStay DEF vars, committed

\* The run, the job and the outbox event come with the incident.
LEMMA WorkStep ==
  ASSUME IInv, [Next]_vars
  PROVE  OneRunPerIncident'
<1>1. ASSUME NEW r \in Request, Commit(r)
      PROVE  OneRunPerIncident'
  <2>1. ASSUME NEW k \in Identity
        PROVE  k \in opened[r] <=> ~Active(k) /\ shown[r][k] # "NONE"
    BY DEF IInv, RequestInv, Opens
  <2>2. \A k \in Identity :
          /\ work'[k] = IF k \in opened[r] THEN work[k] + 1 ELSE work[k]
          /\ Active(k)' <=> Active(k) \/ shown[r][k] # "NONE"
          /\ work[k] = IF Active(k) THEN 1 ELSE 0
    BY <1>1, CommitEffect DEF IInv, OneRunPerIncident
  <2> QED
    BY <2>1, <2>2 DEF OneRunPerIncident
<1>2. CASE UNCHANGED <<work, incidentState>>
  BY <1>2 DEF IInv, OneRunPerIncident, Active
<1> QED
  BY <1>1, <1>2, StepCases, TablesStay DEF vars, committed

\* A commit opens the incidents of the firing alerts it stores.
LEMMA ActiveStep ==
  ASSUME IInv, [Next]_vars
  PROVE  ActiveInv'
<1>1. ASSUME NEW r \in Request, Commit(r)
      PROVE  ActiveInv'
  <2>1. /\ \A a \in Alert : Stored(a)' <=> Stored(a) \/ a \in claimed[r]
        /\ \A k \in Identity : Active(k)' <=> Active(k) \/ shown[r][k] # "NONE"
    BY <1>1, CommitEffect DEF IInv
  <2>2. /\ \A a \in claimed[r] \cap Firing : shown[r][IdentityOf[a]] # "NONE"
        /\ \A k \in Identity :
             shown[r][k] # "NONE" => \/ Active(k)
                                    \/ \E a \in claimed[r] \cap Firing : IdentityOf[a] = k
    BY <1>1, CommitFacts
  <2>3. ActiveInv
    BY DEF IInv
  <2> QED
    BY <2>1, <2>2, <2>3 DEF ActiveInv
<1>2. CASE UNCHANGED <<events, incidentState>>
  BY <1>2 DEF IInv, ActiveInv, Active, Stored
<1> QED
  BY <1>1, <1>2, StepCases, TablesStay DEF vars, committed

\* At the commit every alert of the body is stored, or claimed.
LEMMA AcceptedStep ==
  ASSUME IInv, [Next]_vars
  PROVE  AcceptedIsStored'
<1>1. ASSUME NEW r \in Request, Commit(r)
      PROVE  AcceptedIsStored'
  <2>1. \A a \in Alert : Stored(a)' <=> Stored(a) \/ a \in claimed[r]
    BY <1>1, CommitEffect DEF IInv
  <2>2. \A s \in Request : \A i \in 1 .. Len(Body[s]) : Body[s][i] \in Alert
    OBVIOUS
  <2>3. \A i \in 1 .. Len(Body[r]) : Stored(Body[r][i])'
    <3>1. pc[r] = "commit" /\ pos[r] = Len(Body[r]) + 1
      BY <1>1 DEF IInv, RequestInv, Placed, Commit
    <3>2. \A i \in 1 .. Len(Body[r]) : Stored(Body[r][i]) \/ Body[r][i] \in claimed[r]
      <4>1. \A i \in 1 .. Len(Body[r]) : i < pos[r]
        BY <3>1
      <4> QED
        BY <3>1, <4>1 DEF IInv, RequestInv, Keyed
    <3> QED
      BY <2>1, <2>2, <3>2
  <2>4. \A s \in Request : s # r => answer'[s] = answer[s]
    BY <1>1 DEF Commit, IInv, TypeOK
  <2> QED
    BY <2>1, <2>2, <2>3, <2>4 DEF IInv, AcceptedIsStored
<1>2. CASE UNCHANGED <<events, answer>>
  BY <1>2 DEF IInv, AcceptedIsStored, Stored
<1> QED
  BY <1>1, <1>2, StepCases, TablesStay DEF vars, committed

\* Request r does not change the instance of a behind the incident k.
Covered(r, a, k) ==
  \/ row[r][InstanceOf[a]] = "NONE"
  \/ shown[r][k] # "NONE"
  \/ pc[r] = "incident" /\ InstanceOf[Current(r)] = InstanceOf[a]

Witness(a, k) ==
  /\ IdentityOf[a] = k
  /\ instanceState[InstanceOf[a]] = incidentState[k]
  /\ \A r \in Request : Covered(r, a, k)

\* A request that does nothing leaves what it covers.
LEMMA CoveredKept ==
  ASSUME NEW r \in Request, NEW a, NEW k, Covered(r, a, k), UnchangedAt(r)
  PROVE  Covered(r, a, k)'
<1>1. Current(r)' = Current(r)
  BY DEF Current, UnchangedAt
<1> QED
  BY <1>1 DEF Covered, UnchangedAt

\* The instance is covered again after every statement but a commit.
LEMMA CoveredStep ==
  ASSUME IInv, NEW r \in Request, Acts(r), ~Commit(r),
         NEW k \in Identity, Active(k), NEW a \in Alert, IdentityOf[a] = k,
         Covered(r, a, k)
  PROVE  Covered(r, a, k)'
<1>1. TypeOK /\ Placed(r) /\ InstanceOf[a] \in Instance
  BY DEF IInv, RequestInv
<1>2. CASE Deliver(r)
  BY <1>1, <1>2 DEF Deliver, written, Placed, Covered
<1>3. CASE ClaimKey(r)
  BY <1>3 DEF ClaimKey, Covered
<1>4. CASE UpsertInstance(r)
  <2>1. /\ pc[r] = "instance" /\ shown' = shown
        /\ pc'[r] = "incident" /\ Current(r)' = Current(r)
    BY <1>1, <1>4 DEF UpsertInstance, TypeOK, Current
  <2>2. InstanceOf[a] # InstanceOf[Current(r)]
          => row'[r][InstanceOf[a]] = row[r][InstanceOf[a]]
    BY <1>1, <1>4 DEF UpsertInstance, TypeOK
  <2> QED
    BY <2>1, <2>2 DEF Covered
<1>5. CASE ShowsIncident(r)
  <2>1. /\ pc[r] = "incident"
        /\ Current(r) \in Alert
        /\ IdentityOf[Current(r)] \in Identity
        /\ StateOf(Current(r)) # "NONE"
    BY <1>1, <1>5, CurrentFacts DEF ShowsIncident, State
  <2>2. /\ row' = row
        /\ shown'[r][k] = IF k = IdentityOf[Current(r)] THEN StateOf(Current(r))
                                                        ELSE shown[r][k]
    BY <1>1, <1>5, <2>1 DEF ShowsIncident, Show, TypeOK
  <2> QED
    BY <2>1, <2>2, OneIdentityEach DEF Covered
<1>6. CASE NoIncident(r)
  <2>1. /\ Current(r) \in Alert
        /\ ~Active(IdentityOf[Current(r)])
        /\ row' = row /\ shown' = shown
    BY <1>1, <1>6, CurrentFacts DEF NoIncident, Visible, written
  <2> QED
    BY <2>1, OneIdentityEach DEF Covered
<1>7. CASE Rollback(r)
  BY <1>1, <1>7 DEF Rollback, NothingWritten, Covered, TypeOK
<1> QED
  BY <1>2, <1>3, <1>4, <1>5, <1>6, <1>7 DEF Acts

\* After a commit nobody else changes the instances the request wrote.
LEMMA CoveredCommit ==
  ASSUME IInv, NEW q \in Request, Commit(q), NEW k \in Identity, Active(k)'
  PROVE  \E a \in Alert : Witness(a, k)'
<1>1. /\ TypeOK /\ WitnessInv
      /\ \A i \in Instance : instanceState'[i] =
           IF row[q][i] = "NONE" THEN instanceState[i] ELSE row[q][i]
      /\ incidentState'[k] =
           IF shown[q][k] = "NONE" THEN incidentState[k] ELSE shown[q][k]
      /\ Active(k) \/ shown[q][k] # "NONE"
      /\ pc[q] = "commit"
  BY CommitEffect DEF IInv
<1>2. \A i \in Instance : row'[q][i] = "NONE"
  BY <1>1 DEF Commit, NothingWritten, TypeOK
<1>3. \A r \in Request : r # q => UnchangedAt(r)
  BY <1>1, OthersStay DEF Acts
<1>4. ASSUME NEW a \in Alert, IdentityOf[a] = k,
             instanceState'[InstanceOf[a]] = incidentState'[k],
             \A r \in Request : r # q => Covered(r, a, k)
      PROVE  Witness(a, k)'
  <2>1. Covered(q, a, k)'
    BY <1>2 DEF Covered
  <2>2. \A r \in Request : Covered(r, a, k)'
    BY <1>3, <1>4, <2>1, CoveredKept
  <2> QED
    BY <1>4, <2>2 DEF Witness
<1>5. CASE shown[q][k] # "NONE"
  <2>1. PICK a \in Alert : IdentityOf[a] = k /\ row[q][InstanceOf[a]] = shown[q][k]
    BY <1>1, <1>5 DEF IInv, RequestInv, Shows
  <2>2. \A r \in Request : r # q => row[r][InstanceOf[a]] = "NONE"
    BY <1>5, <2>1 DEF IInv, ExclusiveInv, Others
  <2>3. instanceState'[InstanceOf[a]] = incidentState'[k]
    BY <1>1, <1>5, <2>1
  <2> QED
    BY <1>4, <2>1, <2>2, <2>3 DEF Covered
<1>6. CASE shown[q][k] = "NONE"
  <2>1. PICK a \in Alert : Witness(a, k)
    BY <1>1, <1>6 DEF WitnessInv, Witness, Covered
  <2>2. row[q][InstanceOf[a]] = "NONE"
    BY <1>1, <1>6, <2>1 DEF Witness, Covered
  <2>3. instanceState'[InstanceOf[a]] = incidentState'[k]
    BY <1>1, <1>6, <2>1, <2>2 DEF Witness
  <2> QED
    BY <1>4, <2>1, <2>3 DEF Witness
<1> QED
  BY <1>5, <1>6

LEMMA WitnessStep ==
  ASSUME IInv, [Next]_vars
  PROVE  WitnessInv'
<1>1. SUFFICES ASSUME NEW k \in Identity, Active(k)'
               PROVE  \E a \in Alert : Witness(a, k)'
  BY DEF WitnessInv, Witness, Covered
<1>2. ASSUME UNCHANGED <<instanceState, incidentState>>,
             \A r \in Request, a \in Alert :
               Active(k) /\ IdentityOf[a] = k /\ Covered(r, a, k) => Covered(r, a, k)'
      PROVE  \E a \in Alert : Witness(a, k)'
  <2>1. Active(k)
    BY <1>1, <1>2 DEF Active
  <2>2. PICK a \in Alert : Witness(a, k)
    BY <2>1 DEF IInv, WitnessInv, Witness, Covered
  <2> QED
    BY <1>2, <2>1, <2>2 DEF Witness
<1>3. ASSUME NEW q \in Request, Acts(q), ~Commit(q)
      PROVE  \E a \in Alert : Witness(a, k)'
  <2>1. \A r \in Request : r # q => UnchangedAt(r)
    BY <1>3, OthersStay DEF IInv
  <2>2. \A r \in Request, a \in Alert :
          Active(k) /\ IdentityOf[a] = k /\ Covered(r, a, k) => Covered(r, a, k)'
    BY <1>3, <2>1, CoveredKept, CoveredStep
  <2>3. UNCHANGED <<instanceState, incidentState>>
    BY <1>3, TablesStay DEF committed
  <2> QED
    BY <1>2, <2>2, <2>3
<1>4. CASE UNCHANGED vars
  <2>1. \A r \in Request : UnchangedAt(r)
    BY <1>4 DEF vars, written, UnchangedAt
  <2>2. UNCHANGED <<instanceState, incidentState>>
    BY <1>4 DEF vars, committed
  <2> QED
    BY <1>2, <2>1, <2>2, CoveredKept
<1> QED
  BY <1>1, <1>3, <1>4, StepCases, CoveredCommit

-----------------------------------------------------------------------------
(* Theorems *)

LEMMA InitIInv == Init => IInv
<1> SUFFICES ASSUME Init
             PROVE  IInv
  OBVIOUS
<1> USE DEF Init
<1>1. TypeOK
  <2>1. /\ row \in [Request -> [Instance -> Draft]]
        /\ shown \in [Request -> [Identity -> Draft]]
    BY DEF Draft
  <2>2. /\ instanceState \in [Instance -> Draft]
        /\ incidentState \in [Identity -> Draft]
    BY DEF Draft
  <2>3. /\ pc \in [Request -> Statement]
        /\ answer \in [Request -> Answer]
    BY DEF Statement, Answer
  <2> QED
    BY <2>1, <2>2, <2>3 DEF TypeOK
<1>2. RequestInv
  BY DEF RequestInv, Placed, Keyed, Opens, Links, Shows
<1>3. ExclusiveInv
  BY DEF ExclusiveInv, Others
<1>4. ActiveInv /\ WitnessInv
  BY DEF ActiveInv, WitnessInv, Active, Stored
<1>5. AcceptedIsStored /\ ProcessedOnce /\ OneRunPerIncident
  BY DEF AcceptedIsStored, ProcessedOnce, OneRunPerIncident, Active
<1> QED
  BY <1>1, <1>2, <1>3, <1>4, <1>5 DEF IInv

LEMMA StepIInv == IInv /\ [Next]_vars => IInv'
<1> SUFFICES ASSUME IInv, [Next]_vars
             PROVE  IInv'
  OBVIOUS
<1>1. TypeOK'
  BY TypeStep DEF IInv
<1>2. RequestInv' /\ ExclusiveInv'
  BY RequestStep, ExclusiveStep
<1>3. ActiveInv' /\ WitnessInv'
  BY ActiveStep, WitnessStep
<1>4. AcceptedIsStored' /\ ProcessedOnce' /\ OneRunPerIncident'
  BY AcceptedStep, OnceStep, WorkStep
<1> QED
  BY <1>1, <1>2, <1>3, <1>4 DEF IInv

\* The inductive invariant of ingestion: what each transaction has written so
\* far, and that no two of them have written the same key or row.
THEOREM Invariance == Spec => []IInv
  BY InitIInv, StepIInv, PTL DEF Spec

\* Only the states the CHECK constraints allow reach the tables.
THEOREM TypeCorrect == Spec => []TypeOK
<1>1. IInv => TypeOK
  BY DEF IInv
<1> QED
  BY <1>1, Invariance, PTL

\* Every alert of an accepted delivery has its event.
THEOREM AcceptedAreStored == Spec => []AcceptedIsStored
<1>1. IInv => AcceptedIsStored
  BY DEF IInv
<1> QED
  BY <1>1, Invariance, PTL

\* Deliveries that are repeated, or overlap, repeat no event.
THEOREM NoEventTwice == Spec => []ProcessedOnce
<1>1. IInv => ProcessedOnce
  BY DEF IInv
<1> QED
  BY <1>1, Invariance, PTL

\* An incident has one run, job and outbox event, and none is without incident.
THEOREM RunsAndIncidents == Spec => []OneRunPerIncident
<1>1. IInv => OneRunPerIncident
  BY DEF IInv
<1> QED
  BY <1>1, Invariance, PTL

\* The state an incident shows is the state of one of its instances.
THEOREM ShownStateIsReal == Spec => []IncidentShowsAnInstance
<1>1. IInv => IncidentShowsAnInstance
  BY DEF IInv, WitnessInv, IncidentShowsAnInstance
<1> QED
  BY <1>1, Invariance, PTL

\* A step that stores a firing alert, or a resolved one after a firing one of
\* its instance, links it to the incident.
THEOREM LinkedWhenStored == Spec => AlertsAreLinked
<1> DEFINE Linked == \A a \in Alert :
      /\ ~Stored(a)
      /\ Stored(a)'
      /\ \/ a \in Firing
         \/ \E b \in Firing : InstanceOf[b] = InstanceOf[a] /\ Stored(b)
      => a \in linked'
<1>1. IInv /\ [Next]_vars => Linked
  <2> SUFFICES ASSUME IInv, [Next]_vars,
                      NEW a \in Alert, ~Stored(a), Stored(a)',
                      \/ a \in Firing
                      \/ \E b \in Firing : InstanceOf[b] = InstanceOf[a] /\ Stored(b)
               PROVE  a \in linked'
    OBVIOUS
  <2>1. PICK r \in Request : Commit(r)
    BY StepCases, TablesStay DEF vars, committed, Stored
  <2>2. a \in claimed[r] /\ linked' = linked \cup ties[r]
    BY <2>1, CommitEffect DEF IInv
  <2> QED
    BY <2>1, <2>2, CommitFacts
<1>2. IInv /\ [Next]_vars => [Linked]_vars
  BY <1>1
<1> QED
  BY <1>2, Invariance, PTL DEF Spec, AlertsAreLinked

\* Overlapping transactions, statement by statement, take alerts in as if each
\* delivery were one atomic step.
THEOREM Refinement == Spec => ImplementsIntake
<1> DEFINE processed == {a \in Alert : Stored(a)}
           incidents == {k \in Identity : Active(k)}
           queued    == {k \in Identity : work[k] = 1}
<1>1. Init => Intake!Init
  BY DEF Init, Intake!Init, Stored, Active
<1>2. IInv /\ IInv' /\ [Next]_vars => [Intake!Next]_<<processed, incidents, queued>>
  <2> SUFFICES ASSUME IInv, IInv', [Next]_vars
               PROVE  [Intake!Next]_<<processed, incidents, queued>>
    OBVIOUS
  <2>1. ASSUME NEW r \in Request, Commit(r)
        PROVE  Intake!Next
    <3>1. PICK new \in SUBSET Alert : new = claimed[r]
      BY DEF IInv, TypeOK
    <3>2. new \cap processed = {}
      BY <2>1, <3>1, CommitFacts
    <3>3. processed' = processed \cup new
      BY <2>1, <3>1, CommitEffect DEF IInv
    <3>4. incidents' = incidents \cup Intake!Opened(new)
      <4>1. /\ \A k \in Identity : Active(k)' <=> Active(k) \/ shown[r][k] # "NONE"
            /\ \A a \in new \cap Firing : shown[r][IdentityOf[a]] # "NONE"
            /\ \A k \in Identity :
                 shown[r][k] # "NONE" => \/ Active(k)
                                        \/ \E a \in new \cap Firing : IdentityOf[a] = k
        BY <2>1, <3>1, CommitEffect, CommitFacts DEF IInv
      <4>2. Intake!Opened(new) = {IdentityOf[a] : a \in new \cap Firing}
        BY DEF Intake!Opened
      <4>3. Intake!Opened(new) \subseteq Identity
        BY <4>2
      <4> QED
        BY <4>1, <4>2, <4>3
    <3>5. queued = incidents /\ queued' = incidents'
      BY DEF IInv, OneRunPerIncident
    <3>6. Intake!Process(new)
      BY <3>2, <3>3, <3>4, <3>5 DEF Intake!Process
    <3> QED
      BY <3>6 DEF Intake!Next
  <2>2. CASE UNCHANGED committed
    BY <2>2 DEF committed, Stored, Active
  <2> QED
    BY <2>1, <2>2, StepCases, TablesStay DEF vars
<1> QED
  BY <1>1, <1>2, Invariance, PTL DEF Spec, ImplementsIntake, Intake!ISpec
=============================================================================
