---------------------------- MODULE Outbox_proofs ----------------------------
(* Proofs about Outbox, for every set of events and callers, every limit and  *)
(* every retry delay.                                                        *)
EXTENDS Outbox, TLAPS

USE OutboxAssumption DEF OutboxAssumption

\* The steps of caller c other than Cancel.
Acts(c) ==
  \/ \E es \in SUBSET Event : Accept(c, es)
  \/ \E e \in Event : PublishOwn(c, e)
  \/ \E e \in Event : RetryEvent(c, e)
  \/ \E st \in {"PENDING", "FAILED"}, limit \in 1 .. MaxLimit :
       RetryBatch(c, st, limit)
  \/ Proceed(c)
  \/ Rollback(c)
  \/ Crash(c)

\* A step that locks rows: they are free, and their events are committed.
Locks(c, es) ==
  /\ pc[c] \notin InCall
  /\ es \subseteq Event
  /\ \A e \in es : Free(e) /\ status[e] # "ABSENT"
  /\ Begin(c, es)
  /\ todo'[c] \subseteq todo[c]
  /\ UNCHANGED <<table, delivered, audited>>

-----------------------------------------------------------------------------
(* Steps *)

\* Everything that happens is a step of one caller, or changes no caller's
\* transaction and no row.
LEMMA Actors ==
  ASSUME [Next]_vars
  PROVE  \/ \E c \in Caller : Acts(c)
         \/ Tick \/ UNCHANGED vars \/ \E c \in Caller : Cancel(c)
<1>1. ASSUME NEW c \in Webhook,
             \/ \E es \in SUBSET Event : Accept(c, es)
             \/ \E e \in Event : PublishOwn(c, e)
      PROVE  Acts(c)
  BY <1>1 DEF Acts
<1>2. ASSUME NEW c \in Operator,
             \/ \E e \in Event : RetryEvent(c, e)
             \/ \E st \in {"PENDING", "FAILED"}, limit \in 1 .. MaxLimit :
                  RetryBatch(c, st, limit)
      PROVE  Acts(c)
  BY <1>2 DEF Acts
<1>3. ASSUME NEW c \in Caller, Proceed(c) \/ Rollback(c) \/ Crash(c)
      PROVE  Acts(c)
  BY <1>3 DEF Acts
<1> QED
  BY <1>1, <1>2, <1>3 DEF Next, Caller

LEMMA StepCases ==
  ASSUME [Next]_vars
  PROVE  \/ \E c \in Caller : Acts(c)
         \/ UNCHANGED <<table, delivered, pc, call, audited>>
  BY Actors DEF Tick, Cancel, vars

\* Beginning a transaction is done in one of three ways.
LEMMA BeginCases ==
  ASSUME TypeOK, ReadInv, NEW c \in Caller,
         \/ \E e \in Event : PublishOwn(c, e) \/ RetryEvent(c, e)
         \/ \E st \in {"PENDING", "FAILED"}, limit \in 1 .. MaxLimit :
              RetryBatch(c, st, limit)
  PROVE  \E es \in SUBSET Event : Locks(c, es)
<1>1. ASSUME NEW e \in Event, PublishOwn(c, e)
      PROVE  Locks(c, {e})
  BY <1>1 DEF PublishOwn, Locks, InCall, ReadInv, TypeOK
<1>2. ASSUME NEW e \in Event, RetryEvent(c, e)
      PROVE  Locks(c, {e})
  BY <1>2 DEF RetryEvent, Locks, InCall
<1>3. ASSUME NEW st \in {"PENDING", "FAILED"}, NEW limit \in 1 .. MaxLimit,
             RetryBatch(c, st, limit)
      PROVE  \E es \in SUBSET Event : Locks(c, es)
  <2> DEFINE open == {e \in Event : status[e] = st /\ Free(e)}
  <2>1. PICK es \in SUBSET open : Begin(c, es)
    BY <1>3 DEF RetryBatch
  <2>2. Locks(c, es)
    BY <1>3, <2>1 DEF RetryBatch, Locks, InCall
  <2> QED
    BY <2>2
<1> QED
  BY <1>1, <1>2, <1>3

-----------------------------------------------------------------------------
(* Types *)

\* Recording a decision about one event.
LEMMA DecideTypes ==
  ASSUME NEW S, NEW c \in Caller, NEW f \in [Caller -> [Event -> S]],
         NEW e \in Event, NEW x \in S
  PROVE  [f EXCEPT ![c][e] = x] \in [Caller -> [Event -> S]]
  OBVIOUS

\* Forgetting and ending keep the types of what a caller keeps in memory.
LEMMA EndTypes ==
  ASSUME TypeOK, NEW c \in Caller, End(c) \/ Leave(c)
  PROVE  /\ pc' \in [Caller -> Stage]
         /\ todo' \in [Caller -> SUBSET Event]
         /\ rows' \in [Caller -> SUBSET Event]
         /\ seen' \in [Caller -> [Event -> EventStatus]]
         /\ result' \in [Caller -> [Event -> ResultCode]]
         /\ attemptedAt' \in [Caller -> Nat]
         /\ cancelled' \subseteq Caller
<1>1. [e \in Event |-> "ABSENT"] \in [Event -> EventStatus]
  BY DEF EventStatus
<1>2. [e \in Event |-> "NONE"] \in [Event -> ResultCode]
  BY DEF ResultCode
<1>3. Forget(c)
  BY DEF End, Leave
<1>4. /\ seen' \in [Caller -> [Event -> EventStatus]]
      /\ result' \in [Caller -> [Event -> ResultCode]]
  BY <1>1, <1>2, <1>3 DEF TypeOK, Forget
<1>5. /\ rows' \in [Caller -> SUBSET Event]
      /\ attemptedAt' \in [Caller -> Nat]
  BY <1>3 DEF TypeOK, Forget
<1>6. /\ pc' \in [Caller -> Stage]
      /\ todo' \in [Caller -> SUBSET Event]
      /\ cancelled' \subseteq Caller
  BY DEF TypeOK, End, Leave, Stage
<1> QED
  BY <1>4, <1>5, <1>6

\* Every action keeps the types.
LEMMA TypeStep ==
  ASSUME TypeOK, ReadInv, [Next]_vars
  PROVE  TypeOK'
<1> USE DEF TypeOK
<1>1. ASSUME NEW c \in Caller, NEW es \in SUBSET Event, Accept(c, es)
      PROVE  TypeOK'
  BY <1>1 DEF Accept, EventStatus, Stage
<1>2. ASSUME NEW c \in Caller,
             \/ \E e \in Event : PublishOwn(c, e) \/ RetryEvent(c, e)
             \/ \E st \in {"PENDING", "FAILED"}, limit \in 1 .. MaxLimit :
                  RetryBatch(c, st, limit)
      PROVE  TypeOK'
  <2>1. PICK es \in SUBSET Event : Begin(c, es)
    BY <1>2, BeginCases DEF Locks
  <2>2. UNCHANGED <<now, table, delivered, cancelled, audited>>
    BY <1>2 DEF PublishOwn, RetryEvent, RetryBatch
  <2>3. todo' \in [Caller -> SUBSET Event]
    <3>1. CASE \E e \in Event : PublishOwn(c, e)
      <4>1. PICK e \in Event : PublishOwn(c, e)
        BY <3>1
      <4>2. todo' = [todo EXCEPT ![c] = todo[c] \ {e}]
        BY <4>1 DEF PublishOwn
      <4> QED
        BY <4>2
    <3>2. CASE ~\E e \in Event : PublishOwn(c, e)
      <4>1. UNCHANGED todo
        BY <1>2, <3>2 DEF RetryEvent, RetryBatch
      <4> QED
        BY <4>1
    <3> QED
      BY <3>1, <3>2
  <2>4. [e \in Event |-> IF e \in es THEN status[e] ELSE "ABSENT"]
          \in [Event -> EventStatus]
    BY DEF EventStatus
  <2>5. [e \in Event |-> "NONE"] \in [Event -> ResultCode]
    BY DEF ResultCode
  <2>6. /\ seen' \in [Caller -> [Event -> EventStatus]]
        /\ result' \in [Caller -> [Event -> ResultCode]]
    BY <2>1, <2>4, <2>5 DEF Begin
  <2>7. /\ pc' \in [Caller -> Stage]
        /\ rows' \in [Caller -> SUBSET Event]
        /\ attemptedAt' \in [Caller -> Nat]
    BY <2>1 DEF Begin, Stage
  <2> QED
    BY <2>2, <2>3, <2>6, <2>7 DEF table
<1>3. ASSUME NEW c \in Caller, NEW e \in Event, NEW code \in ResultCode,
             Decide(c, e, code)
      PROVE  /\ pc' \in [Caller -> Stage]
             /\ rows' \in [Caller -> SUBSET Event]
             /\ result' \in [Caller -> [Event -> ResultCode]]
  <2>1. result' \in [Caller -> [Event -> ResultCode]]
    BY <1>3, DecideTypes DEF Decide
  <2> QED
    BY <1>3, <2>1 DEF Decide, Stage
<1>4. ASSUME NEW c \in Caller, NEW e \in Event,
             \/ NoOp(c, e) \/ InvalidEvent(c, e)
             \/ PublishReturns(c, e) \/ PublishRaises(c, e)
      PROVE  TypeOK'
  <2>1. \E code \in ResultCode : Decide(c, e, code)
    BY <1>4 DEF NoOp, InvalidEvent, PublishReturns, PublishRaises, ResultCode
  <2>2. /\ UNCHANGED <<now, table, todo, seen, attemptedAt, cancelled, audited>>
        /\ delivered' \subseteq Event
    BY <1>4 DEF NoOp, InvalidEvent, PublishReturns, PublishRaises
  <2> QED
    BY <1>3, <2>1, <2>2 DEF table
<1>5. ASSUME NEW c \in Caller, NEW e \in Event, StartPublish(c, e)
      PROVE  TypeOK'
  BY <1>5 DEF StartPublish, table, call, Stage
<1>6. ASSUME NEW c \in Caller, Commit(c)
      PROVE  TypeOK'
  <2>1. status' \in [Event -> EventStatus]
    BY <1>6 DEF Commit, Settled, EventStatus
  <2>2. availableAt' \in [Event -> Nat]
    <3>1. \A d \in Caller : attemptedAt[d] + RetryDelay \in Nat
      OBVIOUS
    <3> QED
      BY <1>6, <3>1 DEF Commit, Settled
  <2>3. CASE End(c) \/ Leave(c)
    BY <1>6, <2>1, <2>2, <2>3, EndTypes DEF Commit
  <2>4. CASE /\ pc' = [pc EXCEPT ![c] = "audit"]
             /\ UNCHANGED <<call, cancelled>>
    BY <1>6, <2>1, <2>2, <2>4 DEF Commit, call, Stage
  <2> QED
    BY <1>6, <2>3, <2>4 DEF Commit
<1>7. ASSUME NEW c \in Caller, Audit(c) \/ Rollback(c) \/ Crash(c)
      PROVE  TypeOK'
  <2>1. End(c) \/ Leave(c)
    BY <1>7 DEF Audit, Rollback, Crash
  <2>2. /\ UNCHANGED <<now, table>>
        /\ delivered' \subseteq Event
        /\ audited' \subseteq Event
    BY <1>7 DEF Audit, Rollback, Crash
  <2> QED
    BY <2>1, <2>2, EndTypes DEF table
<1>8. CASE Tick \/ UNCHANGED vars \/ \E c \in Caller : Cancel(c)
  <2>1. UNCHANGED <<status, availableAt, delivered, pc, todo, rows, seen, result,
                    attemptedAt, audited>>
    BY <1>8 DEF Tick, Cancel, vars, table, call
  <2>2. cancelled' \subseteq Caller
    BY <1>8 DEF Tick, Cancel, vars
  <2>3. now' \in Nat
    BY <1>8 DEF Tick, Cancel, vars
  <2> QED
    BY <2>1, <2>2, <2>3
<1> QED
  <2> HIDE DEF TypeOK
  <2>1. ASSUME NEW c \in Caller, Acts(c)
        PROVE  TypeOK'
    BY <1>1, <1>2, <1>4, <1>5, <1>6, <1>7, <2>1 DEF Acts, Proceed
  <2> QED
    BY <1>8, <2>1, Actors

-----------------------------------------------------------------------------
(* Rows *)

\* How the rows change: a batch commits, or new events are accepted.
LEMMA TableEffect ==
  ASSUME TypeOK, [Next]_vars, NEW e \in Event,
         status'[e] # status[e] \/ availableAt'[e] # availableAt[e]
  PROVE  \/ status[e] = "ABSENT" /\ status'[e] = "PENDING"
         \/ \E c \in Caller : /\ Commit(c)
                              /\ result[c][e] \in {"PUBLISHED", "FAILED"}
                              /\ status'[e] = result[c][e]
<1>1. ASSUME NEW c \in Caller, NEW es \in SUBSET Event, Accept(c, es)
      PROVE  status[e] = "ABSENT" /\ status'[e] = "PENDING"
  BY <1>1 DEF Accept, TypeOK
<1>2. ASSUME NEW c \in Caller, Commit(c)
      PROVE  result[c][e] \in {"PUBLISHED", "FAILED"} /\ status'[e] = result[c][e]
  BY <1>2 DEF Commit, Settled, TypeOK
<1>3. PICK c \in Caller : Acts(c)
  BY StepCases DEF table
<1>4. \/ \E es \in SUBSET Event : Accept(c, es)
      \/ Commit(c)
      \/ UNCHANGED table
  BY <1>3 DEF Acts, PublishOwn, RetryEvent, RetryBatch, Proceed, NoOp,
              InvalidEvent, StartPublish, PublishReturns, PublishRaises, Audit,
              Rollback, Crash
<1> QED
  BY <1>1, <1>2, <1>3, <1>4 DEF table

\* A row changes only by its own transaction's commit while it is locked.
LEMMA LockedRow ==
  ASSUME IInv, [Next]_vars, NEW c \in Caller, pc[c] \in InCall, ~Commit(c),
         NEW e \in Held(c)
  PROVE  status'[e] = status[e] /\ availableAt'[e] = availableAt[e]
<1>1. e \in Event /\ status[e] # "ABSENT"
  BY DEF IInv, TypeOK, Held, ReadInv
<1>2. ASSUME NEW d \in Caller, Commit(d), result[d][e] # "NONE"
      PROVE  FALSE
  <2>1. pc[d] \in InCall /\ e \in Held(d)
    BY <1>1, <1>2 DEF Commit, InCall, Held
  <2> QED
    BY <1>2, <2>1 DEF IInv, LockInv
<1> QED
  BY <1>1, <1>2, TableEffect DEF IInv

\* Committed rows stay, and a published one stays published.
LEMMA StatusGrows ==
  ASSUME IInv, [Next]_vars, NEW e \in Event
  PROVE  /\ status[e] # "ABSENT" => status'[e] # "ABSENT"
         /\ status[e] = "PUBLISHED" => status'[e] = "PUBLISHED"
<1>1. ASSUME NEW c \in Caller, Commit(c), result[c][e] \in {"PUBLISHED", "FAILED"}
      PROVE  status[e] # "PUBLISHED"
  <2>1. pc[c] \in InCall /\ e \in Held(c)
    BY <1>1 DEF Commit, InCall, Held
  <2> QED
    BY <1>1, <2>1 DEF IInv, ReadInv, ResultInv
<1> QED
  BY <1>1, TableEffect DEF IInv

\* Messages are not taken back, and nothing invalid is ever sent.
LEMMA DeliveredGrows ==
  ASSUME IInv, [Next]_vars
  PROVE  delivered \subseteq delivered'
<1>1. ASSUME NEW c \in Caller, Acts(c)
      PROVE  delivered \subseteq delivered'
  BY <1>1 DEF Acts, Accept, PublishOwn, RetryEvent, RetryBatch, Proceed, NoOp,
              InvalidEvent, StartPublish, PublishReturns, PublishRaises, Commit,
              Audit, Rollback, Crash
<1> QED
  BY <1>1, StepCases

-----------------------------------------------------------------------------
(* Transactions *)

\* A caller's step leaves the other callers alone.
LEMMA OthersStay ==
  ASSUME TypeOK, ReadInv, NEW c \in Caller, NEW d \in Caller, c # d, Acts(d)
  PROVE  /\ pc'[c] = pc[c]
         /\ todo'[c] = todo[c]
         /\ rows'[c] = rows[c]
         /\ seen'[c] = seen[c]
         /\ result'[c] = result[c]
<1> USE DEF TypeOK
<1>1. CASE \E es \in SUBSET Event : Accept(d, es)
  BY <1>1 DEF Accept
<1>2. CASE \/ \E e \in Event : PublishOwn(d, e) \/ RetryEvent(d, e)
           \/ \E st \in {"PENDING", "FAILED"}, limit \in 1 .. MaxLimit :
                RetryBatch(d, st, limit)
  <2>1. PICK es \in SUBSET Event : Begin(d, es)
    BY <1>2, BeginCases DEF Locks
  <2>2. todo'[c] = todo[c]
    BY <1>2 DEF PublishOwn, RetryEvent, RetryBatch
  <2> QED
    BY <2>1, <2>2 DEF Begin
<1>3. CASE \E e \in Event : \/ NoOp(d, e) \/ InvalidEvent(d, e)
                            \/ PublishReturns(d, e) \/ PublishRaises(d, e)
  BY <1>3 DEF NoOp, InvalidEvent, PublishReturns, PublishRaises, Decide
<1>4. CASE \E e \in Event : StartPublish(d, e)
  BY <1>4 DEF StartPublish, call
<1>5. CASE End(d) \/ Leave(d)
  BY <1>5 DEF End, Leave, Forget
<1>6. CASE pc' = [pc EXCEPT ![d] = "audit"] /\ UNCHANGED call
  BY <1>6 DEF call
<1>7. CASE Commit(d) \/ Audit(d) \/ Rollback(d) \/ Crash(d)
  BY <1>5, <1>6, <1>7 DEF Commit, Audit, Rollback, Crash
<1> QED
  BY <1>1, <1>2, <1>3, <1>4, <1>7 DEF Acts, Proceed

\* A call that ends forgets its rows and decisions.
LEMMA Endings ==
  ASSUME TypeOK, NEW c \in Caller, End(c) \/ Leave(c)
  PROVE  /\ pc'[c] \in {"idle", "accepted"}
         /\ todo'[c] \subseteq todo[c]
         /\ rows'[c] = {}
         /\ \A e \in Event : result'[c][e] = "NONE"
  BY DEF TypeOK, End, Leave, Forget

\* The events a transaction holds after a step, it held before, or has locked.
LEMMA HeldStep ==
  ASSUME TypeOK, ReadInv, [Next]_vars, NEW c \in Caller, pc'[c] \in InCall
  PROVE  \/ \E es \in SUBSET Event : Locks(c, es)
         \/ /\ pc[c] \in InCall
            /\ ~Commit(c)
            /\ seen'[c] = seen[c]
            /\ Held(c)' \subseteq Held(c)
<1> USE DEF TypeOK
<1>1. ~Commit(c)
  <2>1. CASE End(c) \/ Leave(c)
    BY <2>1, Endings DEF InCall
  <2> QED
    BY <2>1 DEF Commit, InCall
<1>2. CASE UNCHANGED <<pc, call>>
  BY <1>1, <1>2 DEF call, Held
<1>3. CASE \E d \in Caller : d # c /\ Acts(d)
  BY <1>1, <1>3, OthersStay DEF Held
<1>4. CASE \/ \E e \in Event : PublishOwn(c, e) \/ RetryEvent(c, e)
           \/ \E st \in {"PENDING", "FAILED"}, limit \in 1 .. MaxLimit :
                RetryBatch(c, st, limit)
  BY <1>4, BeginCases
<1>5. ASSUME NEW e \in Event,
             \/ NoOp(c, e) \/ InvalidEvent(c, e)
             \/ PublishReturns(c, e) \/ PublishRaises(c, e)
      PROVE  pc[c] \in InCall /\ seen'[c] = seen[c] /\ Held(c)' \subseteq Held(c)
  <2>1. PICK code \in ResultCode : Decide(c, e, code)
    BY <1>5 DEF NoOp, InvalidEvent, PublishReturns, PublishRaises, ResultCode
  <2>2. e \in rows[c] /\ pc[c] \in InCall /\ UNCHANGED seen
    BY <1>5 DEF NoOp, InvalidEvent, PublishReturns, PublishRaises, AtHead, InCall
  <2>3. /\ rows'[c] \subseteq rows[c]
        /\ \A f \in Event : f # e => result'[c][f] = result[c][f]
    BY <2>1 DEF Decide
  <2>4. Held(c)' \subseteq Held(c)
    BY <2>2, <2>3 DEF Held
  <2> QED
    BY <2>2, <2>4
<1>6. CASE \E e \in Event : StartPublish(c, e)
  BY <1>1, <1>6 DEF StartPublish, InCall, Held, call
<1>7. CASE \/ \E es \in SUBSET Event : Accept(c, es)
           \/ Audit(c) \/ Rollback(c) \/ Crash(c)
  <2>1. CASE \E es \in SUBSET Event : Accept(c, es)
    BY <2>1 DEF Accept, InCall
  <2> QED
    BY <1>7, <2>1, Endings DEF Audit, Rollback, Crash, InCall
<1>8. CASE Acts(c)
  BY <1>1, <1>4, <1>5, <1>6, <1>7, <1>8 DEF Acts, Proceed
<1> QED
  BY <1>2, <1>3, <1>8, StepCases

\* Locked rows stay disjoint, although nothing but the lock keeps two callers
\* from choosing the same events.
LEMMA LockStep ==
  ASSUME IInv, [Next]_vars
  PROVE  LockInv'
<1>1. ASSUME NEW c \in Caller, NEW d \in Caller, c # d,
             pc'[c] \in InCall, pc'[d] \in InCall,
             NEW es \in SUBSET Event, Locks(c, es)
      PROVE  (Held(c) \cap Held(d))' = {}
  <2>1. Held(c)' = es
    BY <1>1 DEF Locks, Begin, Held, IInv, TypeOK
  <2>2. pc'[d] = pc[d] /\ Held(d)' = Held(d)
    BY <1>1 DEF Locks, Begin, Held, IInv, TypeOK
  <2> QED
    BY <1>1, <2>1, <2>2 DEF Locks, Free
<1>2. ASSUME NEW c \in Caller, NEW d \in Caller, c # d,
             pc'[c] \in InCall, pc'[d] \in InCall,
             ~\E es \in SUBSET Event : Locks(c, es) \/ Locks(d, es)
      PROVE  (Held(c) \cap Held(d))' = {}
  <2>1. /\ pc[c] \in InCall /\ Held(c)' \subseteq Held(c)
        /\ pc[d] \in InCall /\ Held(d)' \subseteq Held(d)
    BY <1>2, HeldStep DEF IInv
  <2> QED
    BY <1>2, <2>1 DEF IInv, LockInv
<1> QED
  BY <1>1, <1>2 DEF LockInv

\* What a caller has read of its locked rows stays true.
LEMMA ReadStep ==
  ASSUME IInv, [Next]_vars
  PROVE  ReadInv'
<1>1. ASSUME NEW c \in Caller, NEW e \in todo'[c]
      PROVE  status'[e] # "ABSENT"
  <2> USE DEF IInv, TypeOK
  <2>1. CASE e \in todo[c]
    BY <2>1, StatusGrows DEF ReadInv
  <2>2. CASE UNCHANGED call \/ \E d \in Caller : d # c /\ Acts(d)
    BY <1>1, <2>1, <2>2, OthersStay DEF call
  <2>3. ASSUME NEW es \in SUBSET Event, Accept(c, es)
        PROVE  status'[e] # "ABSENT"
    BY <1>1, <2>3 DEF Accept
  <2>4. CASE Acts(c) /\ ~\E es \in SUBSET Event : Accept(c, es)
    <3>1. \/ todo'[c] \subseteq todo[c]
          \/ End(c) \/ Leave(c)
      BY <2>4 DEF Acts, PublishOwn, RetryEvent, RetryBatch, Proceed, NoOp,
                  InvalidEvent, StartPublish, PublishReturns, PublishRaises,
                  Commit, Audit, Rollback, Crash, call
    <3> QED
      BY <1>1, <2>1, <3>1, Endings
  <2> QED
    BY <2>2, <2>3, <2>4, StepCases
<1>2. ASSUME NEW c \in Caller, pc'[c] \in InCall, NEW e \in Held(c)'
      PROVE  seen'[c][e] = status'[e] /\ seen'[c][e] # "ABSENT"
  <2>1. ASSUME NEW es \in SUBSET Event, Locks(c, es)
        PROVE  seen'[c][e] = status'[e] /\ seen'[c][e] # "ABSENT"
    BY <1>2, <2>1 DEF Locks, Begin, Held, IInv, TypeOK, table
  <2>2. CASE /\ pc[c] \in InCall /\ ~Commit(c) /\ seen'[c] = seen[c]
             /\ Held(c)' \subseteq Held(c)
    BY <1>2, <2>2, LockedRow DEF IInv, ReadInv
  <2> QED
    BY <1>2, <2>1, <2>2, HeldStep DEF IInv
<1> QED
  BY <1>1, <1>2 DEF ReadInv

\* A transaction works on one row at a time.
LEMMA OneHead ==
  ASSUME TypeOK, NEW c \in Caller, NEW e \in Event, NEW f \in Event,
         AtHead(c, e), AtHead(c, f)
  PROVE  e = f
<1>1. e # f => Before(e, f) /\ Before(f, e)
  BY DEF AtHead
<1>2. availableAt[e] \in Nat /\ availableAt[f] \in Nat /\ e \in Nat /\ f \in Nat
  BY DEF TypeOK
<1> QED
  BY <1>1, <1>2 DEF Before

\* The part of ResultInv that is about caller c and event e.
Result(c, e) ==
  /\ result[c][e] = "PUBLISHED" => e \in delivered \ Invalid
  /\ e \in rows[c] => result[c][e] = "NONE"
  /\ /\ pc[c] \in InCall
     /\ result[c][e] \in {"PUBLISHED", "FAILED"}
     => seen[c][e] # "PUBLISHED"
  /\ pc[c] = "calling" /\ AtHead(c, e)
     => seen[c][e] # "PUBLISHED" /\ e \notin Invalid
  /\ pc[c] = "audit" /\ result[c][e] = "PUBLISHED" => status[e] = "PUBLISHED"

\* ... while others work,
LEMMA ResultKept ==
  ASSUME IInv, [Next]_vars, NEW c \in Caller, NEW e \in Event,
         pc'[c] = pc[c], rows'[c] = rows[c], seen'[c] = seen[c],
         result'[c] = result[c]
  PROVE  Result(c, e)'
<1>1. Result(c, e)
  BY DEF IInv, ResultInv, Result
<1>2. ASSUME pc[c] = "calling", AtHead(c, e)'
      PROVE  AtHead(c, e)
  <2>1. pc[c] \in InCall /\ ~Commit(c)
    BY <1>2 DEF InCall, Commit
  <2>2. \A f \in rows[c] : availableAt'[f] = availableAt[f]
    BY <2>1, LockedRow DEF Held
  <2> QED
    BY <1>2, <2>2 DEF AtHead, Before
<1> QED
  BY <1>1, <1>2, StatusGrows, DeliveredGrows DEF Result

\* ... when the transaction decides about a row,
LEMMA ResultDecided ==
  ASSUME IInv, [Next]_vars, NEW c \in Caller, NEW e \in Event, NEW f \in Event,
         \/ NoOp(c, f) \/ InvalidEvent(c, f)
         \/ PublishReturns(c, f) \/ PublishRaises(c, f)
  PROVE  Result(c, e)'
<1> USE DEF IInv, TypeOK
<1>1. Result(c, e) /\ Result(c, f)
  BY DEF ResultInv, Result
<1>2. PICK code \in ResultCode :
        /\ Decide(c, f, code)
        /\ code # "NONE"
        /\ code \in {"PUBLISHED", "FAILED"} => seen[c][f] # "PUBLISHED"
        /\ code = "PUBLISHED" => f \in delivered' \ Invalid
  BY <1>1 DEF NoOp, InvalidEvent, PublishReturns, PublishRaises, ResultCode, Result
<1>3. /\ UNCHANGED seen
      /\ pc[c] \in InCall
      /\ AtHead(c, f)
  BY DEF NoOp, InvalidEvent, PublishReturns, PublishRaises, InCall
<1>4. /\ pc'[c] = "working"
      /\ rows'[c] = rows[c] \ {f}
      /\ result'[c][f] = code
      /\ e # f => result'[c][e] = result[c][e]
  BY <1>2 DEF Decide
<1> QED
  BY <1>1, <1>2, <1>3, <1>4, DeliveredGrows DEF Result

\* ... and at every other step of the caller.
LEMMA ResultStep ==
  ASSUME IInv, [Next]_vars
  PROVE  ResultInv'
<1>1. SUFFICES ASSUME NEW c \in Caller, NEW e \in Event
               PROVE  Result(c, e)'
  BY DEF ResultInv, Result
<1>2. Result(c, e)
  BY DEF IInv, ResultInv, Result
<1> USE DEF IInv, TypeOK
<1>3. CASE UNCHANGED <<pc, call>>
  BY <1>3, ResultKept DEF call
<1>4. CASE \E d \in Caller : d # c /\ Acts(d)
  BY <1>4, OthersStay, ResultKept
<1>5. ASSUME NEW es \in SUBSET Event, Accept(c, es)
      PROVE  Result(c, e)'
  BY <1>2, <1>5 DEF Accept, Result, InCall
<1>6. ASSUME NEW es \in SUBSET Event, Locks(c, es)
      PROVE  Result(c, e)'
  BY <1>6 DEF Locks, Begin, Result
<1>7. CASE \/ \E f \in Event : PublishOwn(c, f) \/ RetryEvent(c, f)
           \/ \E st \in {"PENDING", "FAILED"}, limit \in 1 .. MaxLimit :
                RetryBatch(c, st, limit)
  BY <1>6, <1>7, BeginCases
<1>8. ASSUME NEW f \in Event, StartPublish(c, f)
      PROVE  Result(c, e)'
  <2>1. AtHead(c, e)' => e = f
    BY <1>8, OneHead DEF StartPublish, AtHead, Before, table, call
  <2> QED
    BY <1>2, <1>8, <2>1 DEF StartPublish, Result, call, table, InCall
<1>9. ASSUME End(c) \/ Leave(c)
      PROVE  Result(c, e)'
  BY <1>9, Endings DEF Result, InCall
<1>10. ASSUME Commit(c)
       PROVE  Result(c, e)'
  <2>1. CASE pc' = [pc EXCEPT ![c] = "audit"] /\ UNCHANGED call
    BY <1>2, <1>10, <2>1 DEF Commit, Settled, Result, call, InCall
  <2> QED
    BY <1>9, <1>10, <2>1 DEF Commit
<1>11. CASE Audit(c) \/ Rollback(c) \/ Crash(c)
  BY <1>9, <1>11 DEF Audit, Rollback, Crash
<1> HIDE DEF IInv, TypeOK
<1>12. CASE Acts(c)
  BY <1>5, <1>7, <1>8, <1>10, <1>11, <1>12, ResultDecided DEF Acts, Proceed
<1> QED
  BY <1>3, <1>4, <1>12, StepCases

-----------------------------------------------------------------------------
(* Theorems *)

\* Only delivered events become PUBLISHED, only PUBLISHED ones are audited.
LEMMA PublishedStep ==
  ASSUME IInv, [Next]_vars
  PROVE  PublishedIsDelivered'
<1>1. ASSUME NEW e \in Event, status'[e] = "PUBLISHED"
      PROVE  e \in delivered' \ Invalid
  <2>1. CASE status'[e] = status[e]
    BY <1>1, <2>1, DeliveredGrows DEF IInv, PublishedIsDelivered
  <2>2. ASSUME NEW c \in Caller, result[c][e] = "PUBLISHED"
        PROVE  e \in delivered' \ Invalid
    BY <2>2, DeliveredGrows DEF IInv, ResultInv
  <2> QED
    BY <1>1, <2>1, <2>2, TableEffect DEF IInv
<1>2. ASSUME NEW e \in audited'
      PROVE  status'[e] = "PUBLISHED"
  <2>1. CASE e \in audited
    BY <2>1, StatusGrows DEF IInv, TypeOK, PublishedIsDelivered
  <2>2. ASSUME NEW c \in Caller, Audit(c)
        PROVE  status'[e] = "PUBLISHED"
    BY <1>2, <2>1, <2>2 DEF Audit, table, IInv, ResultInv
  <2>3. UNCHANGED audited \/ \E c \in Caller : Audit(c)
    BY StepCases DEF Acts, Accept, PublishOwn, RetryEvent, RetryBatch, Proceed,
                     NoOp, InvalidEvent, StartPublish, PublishReturns,
                     PublishRaises, Commit, Rollback, Crash
  <2> QED
    BY <1>2, <2>1, <2>2, <2>3
<1> QED
  BY <1>1, <1>2 DEF PublishedIsDelivered

\* The locks, what was read under them and what was decided hold together at
\* every moment of every call.
THEOREM Invariance == Spec => []IInv
<1>1. Init => IInv
  <2> SUFFICES ASSUME Init PROVE IInv
    OBVIOUS
  <2>1. TypeOK
    BY DEF Init, TypeOK, EventStatus, Stage, ResultCode
  <2>2. LockInv /\ ReadInv /\ ResultInv /\ PublishedIsDelivered
    BY DEF Init, LockInv, ReadInv, ResultInv, PublishedIsDelivered, InCall
  <2> QED
    BY <2>1, <2>2 DEF IInv
<1>2. IInv /\ [Next]_vars => IInv'
  <2> SUFFICES ASSUME IInv, [Next]_vars PROVE IInv'
    OBVIOUS
  <2>1. TypeOK'
    BY TypeStep DEF IInv
  <2> QED
    BY <2>1, LockStep, ReadStep, ResultStep, PublishedStep DEF IInv
<1> QED
  BY <1>1, <1>2, PTL DEF Spec

\* Rows and callers stay in the ranges the code knows.
THEOREM TypeCorrect == Spec => []TypeOK
  BY Invariance, PTL DEF IInv

\* PUBLISHED is never committed without a delivered message, whatever raises,
\* rolls back, is cancelled or crashes around the publish call.
THEOREM NoEventLost == Spec => []PublishedIsDelivered
  BY Invariance, PTL DEF IInv

\* FOR UPDATE and SKIP LOCKED alone keep every number of webhook requests and
\* operators from publishing one event at the same time.
THEOREM OnePublisher == Spec => []ExclusivePublication
<1>1. IInv => ExclusivePublication
  <2> SUFFICES ASSUME IInv, NEW c \in Caller, NEW e \in Event,
                      pc[c] = "calling", AtHead(c, e)
               PROVE  /\ status[e] \in {"PENDING", "FAILED"}
                      /\ \A d \in Caller \ {c} : pc[d] = "calling" => ~AtHead(d, e)
    BY DEF ExclusivePublication
  <2>1. e \in Held(c) /\ pc[c] \in InCall
    BY DEF AtHead, Held, InCall
  <2>2. status[e] \in {"PENDING", "FAILED"}
    BY <2>1 DEF IInv, ReadInv, ResultInv, TypeOK, EventStatus
  <2>3. ASSUME NEW d \in Caller \ {c}, pc[d] = "calling", AtHead(d, e)
        PROVE  FALSE
    BY <2>1, <2>3 DEF IInv, LockInv, AtHead, Held, InCall
  <2> QED
    BY <2>2, <2>3
<1> QED
  BY <1>1, Invariance, PTL

\* No step takes an event out of PUBLISHED.
THEOREM PublishedStays == Spec => PublishedIsFinal
<1>1. IInv /\ [Next]_vars =>
        [\A e \in Event : status[e] = "PUBLISHED" => status'[e] = "PUBLISHED"]_vars
  BY StatusGrows
<1> QED
  BY <1>1, Invariance, PTL DEF Spec, PublishedIsFinal

-----------------------------------------------------------------------------
(* Refinement *)

\* A row that a transaction has locked, and not found PUBLISHED, is owed.
LEMMA LockedIsOwed ==
  ASSUME IInv, NEW c \in Caller, pc[c] \in InCall, NEW e \in Held(c),
         seen[c][e] # "PUBLISHED"
  PROVE  e \in Event /\ status[e] \in {"PENDING", "FAILED"}
  BY DEF IInv, ReadInv, TypeOK, EventStatus, Held

\* The row in the publish call is owed and valid.
LEMMA CallingIsOwed ==
  ASSUME IInv, NEW c \in Caller, NEW e \in Event, pc[c] = "calling", AtHead(c, e)
  PROVE  e \notin Invalid /\ status[e] \in {"PENDING", "FAILED"}
  BY LockedIsOwed DEF AtHead, Held, InCall, IInv, ResultInv

\* A commit settles the events of its batch that were published.
LEMMA CommitSettles ==
  ASSUME IInv, NEW c \in Caller, Commit(c)
  PROVE  Promise!PNext
<1> DEFINE sent == {e \in Event : result[c][e] = "PUBLISHED"}
<1>1. \A e \in Event : result[c][e] \in {"PUBLISHED", "FAILED"} =>
                         status[e] \in {"PENDING", "FAILED"}
  <2> SUFFICES ASSUME NEW e \in Event, result[c][e] \in {"PUBLISHED", "FAILED"}
               PROVE  status[e] \in {"PENDING", "FAILED"}
    OBVIOUS
  <2>1. pc[c] \in InCall /\ e \in Held(c) /\ seen[c][e] # "PUBLISHED"
    BY DEF Commit, InCall, Held, IInv, ResultInv
  <2> QED
    BY <2>1, LockedIsOwed
<1>2. \A e \in Event : status'[e] = IF result[c][e] \in {"PUBLISHED", "FAILED"}
                                     THEN result[c][e] ELSE status[e]
  BY DEF Commit, Settled
<1>3. sent \subseteq delivered /\ sent \in SUBSET Event
  BY DEF IInv, ResultInv
<1>4. {e \in Event : status'[e] \in {"PENDING", "FAILED"}}
        = {e \in Event : status[e] \in {"PENDING", "FAILED"}} \ sent
  BY <1>1, <1>2
<1>5. {e \in Event : status'[e] = "ABSENT"} = {e \in Event : status[e] = "ABSENT"}
  BY <1>1, <1>2
<1>6. PICK es \in SUBSET Event : es = sent
  BY <1>3
<1>7. Promise!Settle(es)
  BY <1>1, <1>3, <1>4, <1>5, <1>6 DEF Promise!Settle, Commit
<1> QED
  BY <1>7 DEF Promise!PNext

\* Every step of the callers is one the promise allows, or changes nothing it
\* speaks of.
LEMMA PromiseStep ==
  ASSUME IInv, [Next]_vars
  PROVE  [Promise!PNext]_(Promise!promise)
<1>1. ASSUME NEW c \in Caller, NEW es \in SUBSET Event, Accept(c, es)
      PROVE  Promise!PNext
  <2>1. Promise!Owe(es)
    BY <1>1 DEF Accept, Promise!Owe, IInv, TypeOK
  <2> QED
    BY <2>1 DEF Promise!PNext
<1>2. ASSUME NEW c \in Caller, NEW e \in Event, pc[c] = "calling", AtHead(c, e),
             delivered' = delivered \cup {e}, UNCHANGED table
      PROVE  Promise!PNext
  <2>1. Promise!Deliver(e)
    BY <1>2, CallingIsOwed DEF Promise!Deliver, table
  <2> QED
    BY <2>1 DEF Promise!PNext
<1>3. ASSUME UNCHANGED <<table, delivered>>
      PROVE  UNCHANGED Promise!promise
  BY <1>3 DEF table, Promise!promise
<1>4. ASSUME NEW c \in Caller, Acts(c), ~Commit(c),
             ~\E es \in SUBSET Event : Accept(c, es)
      PROVE  \/ UNCHANGED <<table, delivered>>
             \/ \E e \in Event : /\ pc[c] = "calling"
                                 /\ AtHead(c, e)
                                 /\ delivered' = delivered \cup {e}
                                 /\ UNCHANGED table
  <2>1. CASE Crash(c)
    BY <2>1 DEF Crash
  <2>2. CASE \E e \in Event : PublishReturns(c, e) \/ PublishRaises(c, e)
    BY <2>2 DEF PublishReturns, PublishRaises
  <2> QED
    BY <1>4, <2>1, <2>2 DEF Acts, PublishOwn, RetryEvent, RetryBatch, Proceed,
                            NoOp, InvalidEvent, StartPublish, Audit, Rollback
<1> QED
  BY <1>1, <1>2, <1>3, <1>4, CommitSettles, StepCases

\* Batches, locks, cancellations and crashes implement the promise that an owed
\* event stays owed until its message was delivered.
THEOREM Refinement == Spec => ImplementsPromise
<1>1. Init => Promise!PInit
  BY DEF Init, Promise!PInit
<1>2. IInv /\ [Next]_vars => [Promise!PNext]_(Promise!promise)
  BY PromiseStep
<1> QED
  BY <1>1, <1>2, Invariance, PTL DEF Spec, ImplementsPromise, Promise!PSpec
=============================================================================
