------------------------- MODULE EvidenceSession_proofs -------------------------
(* Proofs about EvidenceSession, for any calls of the agent, any budget and   *)
(* any number of approved tools.                                              *)
EXTENDS EvidenceSession, TLAPS

\* The steps of a call fall into four: it answers from outside the lock, it
\* takes the lock, it goes on under the lock, it answers under the lock.
AnswersOutside(c) ==
  /\ pc[c] = "waiting" /\ holder = NoCall
  /\ \E r \in Results : Answer(c, r)
Enters(c) ==
  /\ pc[c] = "waiting" /\ holder = NoCall
  /\ \E p \in {"list", "read"} : pc' = [pc EXCEPT ![c] = p]
  /\ holder' = c /\ result' = result
GoesOn(c) ==
  /\ pc[c] \in Inside
  /\ \E p \in Inside : pc' = [pc EXCEPT ![c] = p]
  /\ holder' = holder /\ result' = result
AnswersInside(c) ==
  /\ pc[c] \in Inside
  /\ \E r \in Results : Answer(c, r)

\* What the ends of a call do to what is decided.
LEMMA ReceiveEffect ==
  ASSUME NEW c, NEW refs, Receive(c, refs)
  PROVE  /\ \E r \in Results : Answer(c, r)
         /\ \/ /\ ~expired /\ receipt' = [made |-> TRUE, refs |-> refs] /\ error' = error
            \/ /\ error' \in Codes /\ receipt' = receipt
  BY DEF Receive, Fail, Results, Codes

LEMMA FailEffect ==
  ASSUME NEW c, NEW code \in Codes, Fail(c, code)
  PROVE  /\ \E r \in Results : Answer(c, r)
         /\ error' \in Codes /\ receipt' = receipt
  BY DEF Fail, Results

\* Every step of a call is of one of the four kinds.
LEMMA StepKind ==
  ASSUME TypeOK, NEW c \in Calls, Step(c)
  PROVE  AnswersOutside(c) \/ Enters(c) \/ GoesOn(c) \/ AnswersInside(c)
<1> USE DEF session, work
<1>1. CASE Refuse(c)
  <2>1. \E r \in Results : Answer(c, r)
    BY <1>1 DEF Refuse, Results, Codes
  <2> QED
    BY <1>1, <2>1 DEF Refuse, MayEnter, AnswersOutside
<1>2. CASE EnterCollect(c)
  <2>1. \/ \E r \in Results : Answer(c, r)
        \/ pc' = [pc EXCEPT ![c] = "list"] /\ holder' = c /\ result' = result
    <3>1. CASE error # NoCode /\ Answer(c, error)
      BY <3>1 DEF TypeOK, Results
    <3>2. CASE Answer(c, "RECEIPT")
      BY <3>2 DEF Results
    <3>3. CASE Receive(c, {})
      BY <3>3, ReceiveEffect
    <3>4. CASE Fail(c, "ANALYSIS_FAILED")
      BY <3>4, FailEffect DEF Codes
    <3> QED
      BY <1>2, <3>1, <3>2, <3>3, <3>4 DEF EnterCollect
  <2> QED
    BY <1>2, <2>1 DEF EnterCollect, Admitted, MayEnter, AnswersOutside, Enters
<1>3. CASE EnterRead(c)
  <2>1. "ANALYSIS_UNKNOWN_EVIDENCE" \in Results
    BY DEF Results, Codes
  <2> QED
    BY <1>3, <2>1 DEF EnterRead, Admitted, MayEnter, AnswersOutside, Enters
<1>4. CASE ReadChunk(c)
  <2>1. \E r \in Results : Answer(c, r)
    BY <1>4 DEF ReadChunk, Results, Codes, DatabaseRaises
  <2> QED
    BY <1>4, <2>1 DEF ReadChunk, AnswersInside, Inside
<1>5. CASE List(c)
  BY <1>5, ReceiveEffect DEF List, MoveTo, GoesOn, AnswersInside, Inside
<1>6. CASE AskTool(c)
  <2>1. pc' = [pc EXCEPT ![c] = "tools"] /\ pc[c] = "tools"
    BY <1>6 DEF AskTool, TypeOK
  <2> QED
    BY <1>6, <2>1 DEF AskTool, GoesOn, Inside
<1>7. CASE ToolFails(c)
  <2>1. PICK code \in ToolRaises : Fail(c, code)
    BY <1>7 DEF ToolFails
  <2>2. code \in Codes
    BY DEF ToolRaises, Codes
  <2> QED
    BY <1>7, <2>1, <2>2, FailEffect DEF ToolFails, AnswersInside, Inside
<1>8. CASE ToolsEnd(c)
  <2>1. "ANALYSIS_TIMEOUT" \in Codes
    BY DEF Codes
  <2> QED
    BY <1>8, <2>1, ReceiveEffect, FailEffect DEF ToolsEnd, MoveTo, GoesOn, AnswersInside, Inside
<1>9. CASE Persist(c)
  <2>1. CASE \E code \in DatabaseRaises \cup {"MCP_TRANSPORT"} : Fail(c, code)
    <3>1. PICK code \in DatabaseRaises \cup {"MCP_TRANSPORT"} : Fail(c, code)
      BY <2>1
    <3>2. code \in Codes
      BY DEF DatabaseRaises, Codes
    <3> QED
      BY <1>9, <3>1, <3>2, FailEffect DEF Persist, AnswersInside, Inside
  <2>2. CASE MoveTo(c, "relist")
    BY <1>9, <2>2 DEF Persist, MoveTo, GoesOn, Inside
  <2> QED
    BY <1>9, <2>1, <2>2 DEF Persist
<1>10. CASE Relist(c)
  <2>1. "ANALYSIS_FAILED" \in Codes
    BY DEF Codes
  <2> QED
    BY <1>10, <2>1, ReceiveEffect, FailEffect DEF Relist, AnswersInside, Inside
<1>11. CASE ListFails(c)
  <2>1. PICK code \in DatabaseRaises \cup {"MCP_TRANSPORT", "ANALYSIS_UNKNOWN_EVIDENCE"} :
          Fail(c, code)
    BY <1>11 DEF ListFails
  <2>2. code \in Codes
    BY DEF DatabaseRaises, Codes
  <2> QED
    BY <1>11, <2>1, <2>2, FailEffect DEF ListFails, AnswersInside, Inside
<1> QED
  BY <1>1, <1>2, <1>3, <1>4, <1>5, <1>6, <1>7, <1>8, <1>9, <1>10, <1>11 DEF Step

\* The lock goes with who is inside.
LEMMA LockStep ==
  ASSUME TypeOK, LockInv, NEW c \in Calls, Step(c)
  PROVE  /\ LockInv'
         /\ \A d \in Calls \ {c} : pc'[d] = pc[d] /\ pc[d] \notin Inside
<1> USE SessionAssumption DEF TypeOK, LockInv, Inside
<1>1. CASE AnswersOutside(c)
  BY <1>1 DEF AnswersOutside, Answer, Unlock
<1>2. CASE Enters(c)
  BY <1>2 DEF Enters
<1>3. CASE GoesOn(c)
  BY <1>3 DEF GoesOn
<1>4. CASE AnswersInside(c)
  BY <1>4 DEF AnswersInside, Answer, Unlock
<1> QED
  BY <1>1, <1>2, <1>3, <1>4, StepKind

-----------------------------------------------------------------------------
(* Types *)

\* The four kinds keep the types of what belongs to calls.
LEMMA CallTypes ==
  ASSUME TypeOK, NEW c \in Calls, Step(c)
  PROVE  /\ pc' \in [Calls -> Place]
         /\ result' \in [Calls -> Results]
         /\ holder' \in Calls \cup {NoCall}
<1> USE DEF TypeOK, Inside, Place
<1>1. CASE AnswersOutside(c) \/ AnswersInside(c)
  BY <1>1 DEF AnswersOutside, AnswersInside, Answer, Unlock
<1>2. CASE Enters(c) \/ GoesOn(c)
  BY <1>2 DEF Enters, GoesOn
<1> QED
  BY <1>1, <1>2, StepKind

\* What a receipt and a failure are made of.
Decides ==
  \/ /\ \E refs \in SUBSET Ids : receipt' = [made |-> TRUE, refs |-> refs]
     /\ error' = error
  \/ error' \in Codes /\ receipt' = receipt

LEMMA ReceiveDecides ==
  ASSUME NEW c, NEW refs \in SUBSET Ids, Receive(c, refs)
  PROVE  Decides
  BY ReceiveEffect DEF Decides

LEMMA FailDecides ==
  ASSUME NEW c, NEW code \in Codes, Fail(c, code)
  PROVE  Decides
  BY FailEffect DEF Decides

LEMMA DecidesTypes ==
  ASSUME TypeOK, Decides
  PROVE  /\ receipt' \in [made : BOOLEAN, refs : SUBSET Ids]
         /\ error' \in Codes \cup {NoCode}
<1>1. ASSUME NEW refs \in SUBSET Ids
      PROVE  [made |-> TRUE, refs |-> refs] \in [made : BOOLEAN, refs : SUBSET Ids]
  OBVIOUS
<1>2. CASE \E refs \in SUBSET Ids : receipt' = [made |-> TRUE, refs |-> refs] /\ error' = error
  BY <1>1, <1>2 DEF TypeOK
<1>3. CASE error' \in Codes /\ receipt' = receipt
  BY <1>3 DEF TypeOK
<1> QED
  BY <1>2, <1>3 DEF Decides

\* A step of the collection, from the outside: what it does to the decision.
LEMMA CollectionEnds ==
  ASSUME TypeOK, NEW c \in Calls,
         \/ ToolFails(c) \/ ListFails(c) \/ Relist(c)
         \/ List(c) /\ ~(table = {} /\ ~expired)
         \/ ToolsEnd(c) /\ ~(~expired /\ drafts # {})
         \/ Persist(c) /\ pc'[c] # "relist"
  PROVE  Decides /\ pc[c] \in Collecting /\ pc'[c] = "done"
<1> DEFINE Over == Decides /\ pc'[c] = "done"
<1>1. ASSUME NEW code \in Codes, Fail(c, code)
      PROVE  Over
  BY <1>1, FailDecides DEF Fail, Answer, TypeOK
<1>2. ASSUME NEW refs \in SUBSET Ids, Receive(c, refs)
      PROVE  Over
  BY <1>2, ReceiveDecides DEF Receive, Fail, Answer, TypeOK
<1> USE <1>1, <1>2 DEF Collecting
<1> HIDE DEF Over
<1>3. CASE ToolFails(c)
  BY <1>3 DEF ToolFails, ToolRaises, Codes, Over
<1>4. CASE ListFails(c)
  BY <1>4 DEF ListFails, DatabaseRaises, Codes, Over
<1>5. CASE Relist(c)
  BY <1>5 DEF Relist, Codes, Committed, TypeOK, Over
<1>6. CASE List(c) /\ ~(table = {} /\ ~expired)
  BY <1>6 DEF List, TypeOK, Over
<1>7. CASE ToolsEnd(c) /\ ~(~expired /\ drafts # {})
  BY <1>7 DEF ToolsEnd, Codes, Over
<1>8. CASE Persist(c) /\ pc'[c] # "relist"
  <2>1. ~MoveTo(c, "relist")
    BY <1>8 DEF MoveTo, TypeOK
  <2> QED
    BY <1>8, <2>1 DEF Persist, DatabaseRaises, Codes, Over
<1> QED
  BY <1>3, <1>4, <1>5, <1>6, <1>7, <1>8 DEF Over

\* Outside of its collection a call leaves the collection alone.
Aside(c) ==
  /\ UNCHANGED <<table, receipt, error, next, drafts, asked>>
  /\ pc[c] \notin Collecting /\ pc'[c] \notin Collecting

LEMMA AsideStep ==
  ASSUME TypeOK, NEW c \in Calls,
         \/ Refuse(c) \/ EnterRead(c) \/ ReadChunk(c)
         \/ EnterCollect(c) /\ (receipt.made \/ error # NoCode)
  PROVE  Aside(c)
<1> USE DEF Aside, Collecting, session, work, Answer, TypeOK
<1>1. CASE Refuse(c)
  BY <1>1 DEF Refuse, MayEnter
<1>2. CASE EnterRead(c)
  BY <1>2 DEF EnterRead, Admitted, MayEnter
<1>3. CASE ReadChunk(c)
  BY <1>3 DEF ReadChunk
<1>4. CASE EnterCollect(c) /\ (receipt.made \/ error # NoCode)
  BY <1>4 DEF EnterCollect, Admitted, MayEnter
<1> QED
  BY <1>1, <1>2, <1>3, <1>4

\* The first collection, when it enters.
LEMMA EnterStep ==
  ASSUME TypeOK, NEW c \in Calls, EnterCollect(c), ~receipt.made, error = NoCode
  PROVE  /\ UNCHANGED <<table, next, drafts, asked>>
         /\ pc[c] = "waiting"
         /\ \/ pc'[c] = "list" /\ UNCHANGED <<receipt, error>>
            \/ pc'[c] = "done" /\ Decides
<1>1. UNCHANGED <<table, next, drafts, asked>> /\ pc[c] = "waiting"
  BY DEF EnterCollect, Admitted, MayEnter, work
<1>2. CASE Receive(c, {})
  BY <1>1, <1>2, ReceiveDecides DEF Receive, Fail, Answer, TypeOK
<1>3. CASE Fail(c, "ANALYSIS_FAILED")
  BY <1>1, <1>3, FailDecides DEF Fail, Answer, TypeOK, Codes
<1>4. CASE pc' = [pc EXCEPT ![c] = "list"] /\ UNCHANGED <<receipt, error>>
  BY <1>1, <1>4 DEF TypeOK
<1> QED
  BY <1>1, <1>2, <1>3, <1>4 DEF EnterCollect

\* The shape of the state is kept.
LEMMA TypeStep ==
  ASSUME TypeOK, NEW c \in Calls, Step(c)
  PROVE  TypeOK'
<1>1. /\ pc' \in [Calls -> Place]
      /\ result' \in [Calls -> Results]
      /\ holder' \in Calls \cup {NoCall}
  BY CallTypes
<1> DEFINE Rest == /\ request' \in Requests /\ expired' \in BOOLEAN /\ open' \in BOOLEAN
                   /\ used' \in 0..MaxToolCalls
<1>2. Rest
  <2>1. used < MaxToolCalls => used + 1 \in 0..MaxToolCalls
    BY SessionAssumption DEF TypeOK
  <2>2. CASE EnterCollect(c) \/ EnterRead(c)
    BY <2>1, <2>2, SessionAssumption DEF EnterCollect, EnterRead, Admitted, Spent, TypeOK
  <2>3. CASE ~(EnterCollect(c) \/ EnterRead(c))
    BY <2>3 DEF Step, Refuse, ReadChunk, List, AskTool, ToolFails, ToolsEnd, Persist, Relist,
                ListFails, session, TypeOK
  <2> QED
    BY <2>2, <2>3
<1>3. ASSUME receipt' \in [made : BOOLEAN, refs : SUBSET Ids], error' \in Codes \cup {NoCode},
             table' \subseteq Ids, next' \in 1..(LastTool + 1), drafts' \subseteq Tools,
             asked' \in [Tools -> Nat]
      PROVE  TypeOK'
  BY <1>1, <1>2, <1>3 DEF TypeOK
<1> HIDE DEF Rest
<1>4. CASE \/ Refuse(c) \/ EnterRead(c) \/ ReadChunk(c)
           \/ EnterCollect(c) /\ (receipt.made \/ error # NoCode)
  BY <1>3, <1>4, AsideStep DEF Aside, TypeOK
<1>5. CASE EnterCollect(c) /\ ~receipt.made /\ error = NoCode
  <2>1. /\ UNCHANGED <<table, next, drafts, asked>>
        /\ UNCHANGED <<receipt, error>> \/ Decides
    BY <1>5, EnterStep
  <2> QED
    BY <1>3, <2>1, DecidesTypes DEF TypeOK
<1>6. CASE List(c) /\ table = {} /\ ~expired
  <2>1. 1 \in 1..(LastTool + 1)
    BY SessionAssumption
  <2> QED
    BY <1>3, <1>6, <2>1 DEF List, MoveTo, TypeOK
<1>7. CASE List(c) /\ ~(table = {} /\ ~expired)
  BY <1>3, <1>7, CollectionEnds, DecidesTypes DEF List, TypeOK
<1>8. CASE AskTool(c)
  <2>1. next' \in 1..(LastTool + 1) /\ next \in Tools
    BY <1>8, SessionAssumption DEF AskTool, TypeOK, Tools
  <2>2. asked' \in [Tools -> Nat] /\ drafts' \subseteq Tools
    <3>1. CASE UNCHANGED <<drafts, asked>>
      BY <3>1 DEF TypeOK
    <3>2. CASE asked' = [asked EXCEPT ![next] = @ + 1] /\ drafts' = drafts \cup {next}
      BY <2>1, <3>2 DEF TypeOK
    <3> QED
      BY <1>8, <3>1, <3>2 DEF AskTool
  <2> QED
    BY <1>3, <1>8, <2>1, <2>2 DEF AskTool, TypeOK, session
<1>9. CASE ToolFails(c)
  <2>1. asked' \in [Tools -> Nat]
    BY <1>9 DEF ToolFails, TypeOK
  <2> QED
    BY <1>3, <1>9, <2>1, CollectionEnds, DecidesTypes DEF ToolFails, TypeOK
<1>10. CASE ToolsEnd(c)
  <2>1. CASE ~expired /\ drafts # {}
    BY <1>3, <1>10, <2>1, ReceiveEffect DEF ToolsEnd, MoveTo, TypeOK, work
  <2>2. CASE ~(~expired /\ drafts # {})
    BY <1>3, <1>10, <2>2, CollectionEnds, DecidesTypes DEF ToolsEnd, TypeOK, work
  <2> QED
    BY <2>1, <2>2
<1>11. CASE Persist(c)
  <2>1. table' \subseteq Ids
    BY <1>11 DEF Persist, Saved, TypeOK, Ids
  <2>2. CASE pc'[c] = "relist"
    <3>1. MoveTo(c, "relist")
      BY <1>11, <2>2 DEF Persist, Fail, Answer, TypeOK
    <3> QED
      BY <1>3, <1>11, <2>1, <3>1 DEF Persist, MoveTo, TypeOK, work
  <2>3. CASE pc'[c] # "relist"
    BY <1>3, <1>11, <2>1, <2>3, CollectionEnds, DecidesTypes DEF Persist, TypeOK, work
  <2> QED
    BY <2>2, <2>3
<1>12. CASE Relist(c) \/ ListFails(c)
  BY <1>3, <1>12, CollectionEnds, DecidesTypes DEF Relist, ListFails, TypeOK, work
<1> QED
  BY <1>4, <1>5, <1>6, <1>7, <1>8, <1>9, <1>10, <1>11, <1>12 DEF Step

-----------------------------------------------------------------------------
(* What a step does to the collection *)

Enter(c) ==
  /\ pc[c] = "waiting" /\ ~receipt.made /\ error = NoCode
  /\ UNCHANGED <<table, next, drafts, asked>>
  /\ \/ pc'[c] = "list" /\ UNCHANGED <<receipt, error>>
     \/ pc'[c] = "done" /\ Decides
Begin(c) ==
  /\ pc[c] = "list" /\ pc'[c] = "tools"
  /\ table = {} /\ next' = 1 /\ drafts' = {}
  /\ UNCHANGED <<table, receipt, error, asked>>
Ask(c) ==
  /\ pc[c] = "tools" /\ pc'[c] = "tools"
  /\ next \in Tools /\ next' = next + 1
  /\ \/ UNCHANGED <<drafts, asked>>
     \/ asked' = [asked EXCEPT ![next] = @ + 1] /\ drafts' = drafts \cup {next}
  /\ UNCHANGED <<table, receipt, error>>
Proceed(c) ==
  /\ \/ pc[c] = "tools" /\ pc'[c] = "persist" /\ next \notin Tools /\ table' = table
     \/ pc[c] = "persist" /\ pc'[c] = "relist" /\ table' = table \cup drafts
  /\ UNCHANGED <<receipt, error, next, drafts, asked>>
End(c) ==
  /\ pc[c] \in Collecting /\ pc'[c] = "done" /\ Decides
  /\ UNCHANGED <<next, drafts>>
  /\ \/ asked' = asked
     \/ pc[c] = "tools" /\ next \in Tools /\ asked' = [asked EXCEPT ![next] = @ + 1]
  /\ table' = table \/ (pc[c] = "persist" /\ table' \in Saved)

\* A step of a call stands aside, or takes the collection one step further.
LEMMA CollectionStep ==
  ASSUME TypeOK, NEW c \in Calls, Step(c)
  PROVE  Aside(c) \/ Enter(c) \/ Begin(c) \/ Ask(c) \/ Proceed(c) \/ End(c)
<1> USE DEF session, work
<1>1. CASE \/ Refuse(c) \/ EnterRead(c) \/ ReadChunk(c)
           \/ EnterCollect(c) /\ (receipt.made \/ error # NoCode)
  BY <1>1, AsideStep
<1>2. CASE EnterCollect(c) /\ ~receipt.made /\ error = NoCode
  BY <1>2, EnterStep DEF Enter
<1>3. CASE List(c) /\ table = {} /\ ~expired
  BY <1>3 DEF List, MoveTo, TypeOK, Begin
<1>4. CASE List(c) /\ ~(table = {} /\ ~expired)
  BY <1>4, CollectionEnds DEF List, End
<1>5. CASE AskTool(c)
  BY <1>5 DEF AskTool, Ask
<1>6. CASE ToolFails(c)
  BY <1>6, CollectionEnds DEF ToolFails, End
<1>7. CASE ToolsEnd(c) /\ ~expired /\ drafts # {}
  BY <1>7 DEF ToolsEnd, MoveTo, TypeOK, Proceed
<1>8. CASE ToolsEnd(c) /\ ~(~expired /\ drafts # {})
  BY <1>8, CollectionEnds DEF ToolsEnd, End
<1>9. CASE Persist(c)
  <2>1. CASE pc'[c] = "relist"
    <3>1. MoveTo(c, "relist") /\ table' = table \cup drafts
      BY <1>9, <2>1 DEF Persist, Fail, Answer, TypeOK
    <3> QED
      BY <1>9, <2>1, <3>1 DEF Persist, MoveTo, Proceed
  <2>2. CASE pc'[c] # "relist"
    <3>1. table' \in Saved
      BY <1>9, <2>2 DEF Persist, MoveTo, TypeOK
    <3>2. Decides /\ pc[c] \in Collecting /\ pc'[c] = "done"
      BY <1>9, <2>2, CollectionEnds
    <3> QED
      BY <1>9, <3>1, <3>2 DEF Persist, End
  <2> QED
    BY <2>1, <2>2
<1>10. CASE Relist(c) \/ ListFails(c)
  <2>1. Decides /\ pc[c] \in Collecting /\ pc'[c] = "done"
    BY <1>10, CollectionEnds
  <2> QED
    BY <1>10, <2>1 DEF Relist, ListFails, End
<1> QED
  BY <1>1, <1>2, <1>3, <1>4, <1>5, <1>6, <1>7, <1>8, <1>9, <1>10 DEF Step

\* Steps of a call are taken while the analysis goes on.
LEMMA StepIsOpen ==
  ASSUME TypeOK, ClosedInv, NEW c \in Calls, Step(c)
  PROVE  open /\ open'
<1>1. pc[c] \notin {"idle", "done"}
  BY StepKind DEF AnswersOutside, Enters, GoesOn, AnswersInside, Inside
<1>2. open
  BY <1>1 DEF ClosedInv
<1>3. open' = open
  BY DEF Step, Refuse, EnterCollect, EnterRead, ReadChunk, List, AskTool, ToolFails, ToolsEnd,
         Persist, Relist, ListFails
<1> QED
  BY <1>2, <1>3

\* What is decided is not undecided, nor decided twice.
LEMMA DecidedNow ==
  ASSUME TypeOK, Decides, ~receipt.made, error = NoCode
  PROVE  (receipt'.made \/ error' # NoCode) /\ ~(receipt'.made /\ error' # NoCode)
<1>1. NoCode \notin Codes
  BY DEF NoCode, Codes
<1>2. CASE \E refs \in SUBSET Ids : receipt' = [made |-> TRUE, refs |-> refs] /\ error' = error
  BY <1>2
<1>3. CASE error' \in Codes /\ receipt' = receipt
  BY <1>1, <1>3
<1> QED
  BY <1>2, <1>3 DEF Decides

\* The invariant is kept by the steps of a call.
LEMMA CallStep ==
  ASSUME IInv, NEW c \in Calls, Step(c)
  PROVE  IInv'
<1>0. /\ TypeOK /\ LockInv /\ UndecidedInv /\ ToolsAskedOnce
      /\ UnderwayInv /\ OrderInv /\ ClosedInv /\ StoredInv
  BY DEF IInv
<1>1. TypeOK' /\ LockInv'
  BY <1>0, TypeStep, LockStep
<1>2. \A d \in Calls \ {c} : pc'[d] = pc[d] /\ pc[d] \notin Collecting
  BY <1>0, LockStep DEF Collecting, Inside
<1>3. open /\ ClosedInv'
  BY <1>0, StepIsOpen DEF ClosedInv
<1>4. asked \in [Tools -> Nat] /\ next \in Nat /\ drafts \subseteq Tools
  BY <1>0, SessionAssumption DEF TypeOK
<1>5. SUFFICES UndecidedInv' /\ ToolsAskedOnce' /\ UnderwayInv' /\ OrderInv' /\ StoredInv'
  BY <1>1, <1>3 DEF IInv
<1>6. CASE Aside(c)
  <2>1. UndecidedInv' /\ ToolsAskedOnce'
    BY <1>0, <1>2, <1>6 DEF Aside, UndecidedInv, ToolsAskedOnce
  <2>2. Untouched' <=> Untouched
    BY <1>6 DEF Aside, Untouched
  <2>3. Untouched \/ receipt.made \/ error # NoCode
    BY <1>0, <1>2, <1>3, <1>6 DEF Aside, UnderwayInv
  <2>4. \A d \in Calls : pc'[d] \notin Collecting
    BY <1>2, <1>6 DEF Aside
  <2>5. UnderwayInv'
    BY <1>6, <2>2, <2>3 DEF Aside, UnderwayInv
  <2>6. OrderInv'
    BY <2>4 DEF OrderInv, Collecting
  <2>7. StoredInv'
    BY <1>0, <1>6, <2>2, <2>4 DEF Aside, StoredInv, BatchIsWhole, Collecting
  <2> QED
    BY <2>1, <2>5, <2>6, <2>7
<1>7. CASE Enter(c)
  <2>1. Untouched
    BY <1>0, <1>2, <1>3, <1>7 DEF Enter, UnderwayInv, Collecting
  <2>2. Untouched' /\ ToolsAskedOnce'
    BY <1>0, <1>7, <2>1 DEF Enter, Untouched, ToolsAskedOnce
  <2>3. table' \cap Tools = {} /\ drafts' = drafts
    BY <1>0, <1>7, <2>1 DEF Enter, StoredInv
  <2>4. StoredInv'
    BY <2>3 DEF StoredInv, BatchIsWhole
  <2>5. \A d \in Calls : pc'[d] # "tools"
    BY <1>2, <1>7 DEF Enter, Collecting
  <2>6. UnderwayInv' /\ OrderInv'
    BY <2>2, <2>5 DEF UnderwayInv, OrderInv
  <2>7. UndecidedInv'
    BY <1>0, <1>2, <1>7, DecidedNow DEF Enter, UndecidedInv, Collecting
  <2> QED
    BY <2>2, <2>4, <2>6, <2>7
<1>8. CASE Begin(c)
  <2>1. Untouched
    BY <1>0, <1>8 DEF Begin, OrderInv
  <2>2. UndecidedInv' /\ ToolsAskedOnce'
    BY <1>0, <1>2, <1>8 DEF Begin, UndecidedInv, ToolsAskedOnce, Collecting
  <2>3. Untouched'
    BY <1>8, <2>1 DEF Begin, Untouched
  <2>4. UnderwayInv'
    BY <2>3 DEF UnderwayInv
  <2>5. \A t \in Tools : asked'[t] <= IF t < next' THEN 1 ELSE 0
    BY <2>3 DEF Untouched
  <2>6. OrderInv'
    BY <1>8, <2>3, <2>5 DEF Begin, OrderInv
  <2>7. StoredInv'
    BY <1>8 DEF Begin, StoredInv, BatchIsWhole
  <2> QED
    BY <2>2, <2>4, <2>6, <2>7
<1>9. CASE Ask(c)
  <2>1. UndecidedInv'
    BY <1>0, <1>2, <1>9 DEF Ask, UndecidedInv, Collecting
  <2>2. \A t \in Tools : asked[t] <= IF t < next THEN 1 ELSE 0
    BY <1>0, <1>9 DEF Ask, OrderInv
  <2>3. ASSUME NEW t \in Tools
        PROVE  asked'[t] <= (IF t < next' THEN 1 ELSE 0) /\ asked'[t] <= 1
    <3>1. t \in Nat /\ asked[t] \in Nat /\ asked[t] <= IF t < next THEN 1 ELSE 0
      BY <1>4, <2>2 DEF Tools
    <3>2. asked'[t] = asked[t] \/ (t = next /\ asked'[t] = asked[t] + 1)
      BY <1>4, <1>9 DEF Ask
    <3>3. next' = next + 1
      BY <1>9 DEF Ask
    <3>4. CASE asked'[t] = asked[t]
      BY <1>4, <3>1, <3>3, <3>4
    <3>5. CASE t = next /\ asked'[t] = asked[t] + 1
      BY <1>4, <3>1, <3>3, <3>5
    <3> QED
      BY <3>2, <3>4, <3>5
  <2>4. drafts' \subseteq 1..(next' - 1)
    <3>1. drafts \subseteq 1..(next - 1)
      BY <1>0, <1>9 DEF Ask, OrderInv
    <3>2. drafts' \subseteq drafts \cup {next} /\ next' = next + 1 /\ next \in Nat /\ next >= 1
      BY <1>4, <1>9, SessionAssumption DEF Ask, Tools
    <3>3. \A t \in drafts' : t \in 1..((next + 1) - 1)
      BY <3>1, <3>2
    <3> QED
      BY <3>2, <3>3
  <2>5. ToolsAskedOnce'
    BY <2>3 DEF ToolsAskedOnce
  <2>6. \A d \in Calls : pc'[d] # "list"
    BY <1>2, <1>9 DEF Ask, Collecting
  <2>7. UnderwayInv' /\ OrderInv'
    BY <1>9, <2>3, <2>4, <2>6 DEF Ask, UnderwayInv, OrderInv, Collecting
  <2>8. StoredInv'
    BY <1>0, <1>9 DEF Ask, StoredInv, BatchIsWhole
  <2> QED
    BY <2>1, <2>5, <2>7, <2>8
<1>10. CASE Proceed(c)
  <2>1. UndecidedInv' /\ ToolsAskedOnce'
    BY <1>0, <1>2, <1>10 DEF Proceed, UndecidedInv, ToolsAskedOnce, Collecting
  <2>2. \A d \in Calls : pc'[d] \notin {"list", "tools"}
    BY <1>2, <1>10 DEF Proceed, Collecting
  <2>3. UnderwayInv' /\ OrderInv'
    BY <1>10, <2>2 DEF Proceed, UnderwayInv, OrderInv, Collecting
  <2>4. table \cap Tools = {}
    BY <1>0, <1>10 DEF Proceed, StoredInv
  <2>5. table' \cap Tools \in {{}, drafts'} /\ (pc'[c] = "persist" => table' \cap Tools = {})
    BY <1>4, <1>10, <2>4 DEF Proceed
  <2>6. Untouched' => table' \cap Tools = {}
    BY <2>5 DEF Untouched
  <2>7. \A d \in Calls : pc'[d] = "persist" => d = c
    BY <1>2 DEF Collecting
  <2>8. StoredInv'
    BY <2>2, <2>5, <2>6, <2>7 DEF StoredInv, BatchIsWhole
  <2> QED
    BY <2>1, <2>3, <2>8
<1>11. CASE End(c)
  <2>1. ~receipt.made /\ error = NoCode
    BY <1>0, <1>11 DEF End, UndecidedInv
  <2>2. (receipt'.made \/ error' # NoCode) /\ ~(receipt'.made /\ error' # NoCode)
    BY <1>0, <1>11, <2>1, DecidedNow DEF End
  <2>3. \A d \in Calls : pc'[d] \notin Collecting
    BY <1>2, <1>11 DEF End, Collecting
  <2>4. UndecidedInv' /\ UnderwayInv'
    BY <2>2, <2>3 DEF UndecidedInv, UnderwayInv
  <2>5. OrderInv'
    BY <2>3 DEF OrderInv, Collecting
  <2>6. ToolsAskedOnce'
    <3>1. CASE asked' = asked
      BY <1>0, <3>1 DEF ToolsAskedOnce
    <3>2. CASE pc[c] = "tools" /\ next \in Tools /\ asked' = [asked EXCEPT ![next] = @ + 1]
      <4>1. asked[next] <= 0
        BY <1>0, <1>4, <3>2 DEF OrderInv
      <4> QED
        BY <1>0, <1>4, <3>2, <4>1 DEF ToolsAskedOnce
    <3> QED
      BY <1>11, <3>1, <3>2 DEF End
  <2>7. table' \cap Tools \in {{}, drafts'}
    <3>1. CASE table' = table
      BY <1>0, <1>11, <3>1 DEF End, StoredInv, BatchIsWhole
    <3>2. CASE pc[c] = "persist" /\ table' \in Saved
      <4>1. table \cap Tools = {}
        BY <1>0, <3>2 DEF StoredInv
      <4> QED
        BY <1>4, <1>11, <3>2, <4>1 DEF End, Saved
    <3> QED
      BY <1>11, <3>1, <3>2 DEF End
  <2>8. Untouched' => table' \cap Tools = {}
    BY <2>7 DEF Untouched
  <2>9. StoredInv'
    BY <2>3, <2>7, <2>8 DEF StoredInv, BatchIsWhole, Collecting
  <2> QED
    BY <2>4, <2>5, <2>6, <2>9
<1> QED
  BY <1>0, <1>6, <1>7, <1>8, <1>9, <1>10, <1>11, CollectionStep

-----------------------------------------------------------------------------
(* The steps around it *)

\* Tools are no evidence of another attempt.
LEMMA ElsewhereIsNoTool ==
  (table \cup {Elsewhere}) \cap Tools = table \cap Tools
  BY DEF Elsewhere, Tools

\* A call that waits has no part in the collection.
LEMMA CallMade ==
  ASSUME IInv, NEW c \in Calls, Call(c)
  PROVE  IInv'
<1> USE DEF session, work
<1>1. TypeOK'
  BY DEF IInv, TypeOK, Call, Place
<1>2. LockInv'
  BY SessionAssumption DEF IInv, TypeOK, Call, LockInv, Inside
<1>3. \A d \in Calls : pc'[d] \in Collecting => pc'[d] = pc[d]
  BY DEF IInv, TypeOK, Call, Collecting
<1>4. \A d \in Calls : pc[d] \in Collecting => pc'[d] = pc[d]
  BY DEF IInv, TypeOK, Call, Collecting
<1>5. UNCHANGED <<receipt, error, next, drafts, asked, table, open>> /\ open
  BY DEF Call
<1>6. Untouched' <=> Untouched
  BY <1>5 DEF Untouched
<1>7. UndecidedInv' /\ ToolsAskedOnce'
  BY <1>3, <1>5 DEF IInv, UndecidedInv, ToolsAskedOnce
<1>8. UnderwayInv' /\ ClosedInv'
  BY <1>4, <1>5, <1>6 DEF IInv, UnderwayInv, ClosedInv, Collecting
<1>9. OrderInv'
  BY <1>3, <1>5, <1>6 DEF IInv, OrderInv, Collecting
<1>10. StoredInv'
  BY <1>3, <1>5, <1>6 DEF IInv, StoredInv, BatchIsWhole, Collecting
<1> QED
  BY <1>1, <1>2, <1>7, <1>8, <1>9, <1>10 DEF IInv

\* The deadline changes nothing yet.
LEMMA ExpireStep ==
  ASSUME IInv, Expire
  PROVE  IInv'
  BY DEF IInv, Expire, session, work, TypeOK, LockInv, UndecidedInv, ToolsAskedOnce,
         UnderwayInv, Untouched, OrderInv, ClosedInv, StoredInv, BatchIsWhole

\* A cancelled commit is whole or did not happen.
LEMMA CancelStep ==
  ASSUME IInv, Cancel
  PROVE  IInv'
<1> USE DEF session, work
<1>1. UNCHANGED <<receipt, error, next, drafts, asked>> /\ ~open'
  BY DEF Cancel
<1>2. \A d \in Calls : pc'[d] \in {"idle", "done"}
  BY DEF Cancel
<1>3. table' = table \/ (table' \in Saved /\ \E d \in Calls : pc[d] = "persist")
  BY DEF Cancel
<1>4. TypeOK'
  <2>1. table' \subseteq Ids
    BY <1>3 DEF IInv, TypeOK, Saved, Ids
  <2>2. pc' \in [Calls -> Place]
    BY DEF Cancel, Place
  <2>3. result' \in [Calls -> Results]
    BY DEF Cancel, IInv, TypeOK, Results
  <2> QED
    BY <2>1, <2>2, <2>3 DEF Cancel, IInv, TypeOK
<1>5. LockInv'
  BY <1>2, SessionAssumption DEF Cancel, LockInv, Inside
<1>6. UndecidedInv' /\ ToolsAskedOnce'
  BY <1>1, <1>2 DEF IInv, UndecidedInv, ToolsAskedOnce, Collecting
<1>7. UnderwayInv' /\ OrderInv' /\ ClosedInv'
  BY <1>1, <1>2 DEF UnderwayInv, OrderInv, ClosedInv
<1>8. table' \cap Tools \in {{}, drafts'}
  <2>1. CASE table' = table
    BY <1>1, <2>1 DEF IInv, StoredInv, BatchIsWhole
  <2>2. CASE table' \in Saved /\ \E d \in Calls : pc[d] = "persist"
    <3>1. table \cap Tools = {} /\ drafts \subseteq Tools
      BY <2>2 DEF IInv, StoredInv, TypeOK
    <3> QED
      BY <1>1, <2>2, <3>1 DEF Saved
  <2> QED
    BY <1>3, <2>1, <2>2
<1>9. StoredInv'
  BY <1>2, <1>8 DEF StoredInv, BatchIsWhole, Untouched
<1> QED
  BY <1>4, <1>5, <1>6, <1>7, <1>9 DEF IInv

\* What another attempt stores is not what this one does.
LEMMA OtherAttemptStep ==
  ASSUME IInv, OtherAttempt
  PROVE  IInv'
<1> USE DEF session, work
<1>1. table' \cap Tools = table \cap Tools
  BY ElsewhereIsNoTool DEF OtherAttempt
<1>2. TypeOK'
  BY DEF IInv, TypeOK, OtherAttempt, Ids
<1>3. LockInv' /\ UndecidedInv' /\ ToolsAskedOnce'
  BY DEF IInv, OtherAttempt, LockInv, UndecidedInv, ToolsAskedOnce
<1>4. UnderwayInv' /\ OrderInv' /\ ClosedInv'
  BY DEF IInv, OtherAttempt, UnderwayInv, OrderInv, ClosedInv, Untouched
<1>5. StoredInv'
  BY <1>1 DEF IInv, OtherAttempt, StoredInv, BatchIsWhole, Untouched
<1> QED
  BY <1>2, <1>3, <1>4, <1>5 DEF IInv

LEMMA InitInv ==
  ASSUME Init
  PROVE  IInv
<1>1. TypeOK
  <2>1. [made |-> FALSE, refs |-> {}] \in [made : BOOLEAN, refs : SUBSET Ids]
    OBVIOUS
  <2>2. asked \in [Tools -> Nat] /\ drafts \subseteq Tools /\ next \in 1..(LastTool + 1)
    BY SessionAssumption DEF Init
  <2>3. pc \in [Calls -> Place] /\ result \in [Calls -> Results]
    BY DEF Init, Place, Results
  <2>4. used \in 0..MaxToolCalls /\ table \subseteq Ids
    BY SessionAssumption DEF Init, Ids
  <2> QED
    BY <2>1, <2>2, <2>3, <2>4 DEF Init, TypeOK
<1>2. LockInv /\ UndecidedInv /\ ToolsAskedOnce
  BY SessionAssumption DEF Init, LockInv, Inside, UndecidedInv, Collecting, ToolsAskedOnce
<1>3. UnderwayInv /\ OrderInv /\ ClosedInv
  BY DEF Init, UnderwayInv, OrderInv, ClosedInv, Untouched
<1>4. table \cap Tools = {}
  BY DEF Init, Elsewhere, Tools
<1>5. StoredInv
  BY <1>4 DEF StoredInv, BatchIsWhole
<1> QED
  BY <1>1, <1>2, <1>3, <1>5 DEF IInv

LEMMA StutterInv ==
  ASSUME IInv, UNCHANGED vars
  PROVE  IInv'
  BY DEF IInv, vars, session, work, TypeOK, LockInv, UndecidedInv, ToolsAskedOnce,
         UnderwayInv, Untouched, OrderInv, ClosedInv, StoredInv, BatchIsWhole

-----------------------------------------------------------------------------
(* The theorems *)

\* The invariant holds of every session.  (EvidenceToolSession.)
THEOREM Invariance == Spec => []IInv
<1>1. Init => IInv
  BY InitInv
<1>2. IInv /\ [Next]_vars => IInv'
  BY CallStep, CallMade, ExpireStep, CancelStep, OtherAttemptStep, StutterInv DEF Next
<1> QED
  BY <1>1, <1>2, PTL DEF Spec

\* The budget of tool calls holds, and with it the shape of the state.
\* (_reserve_call.)
THEOREM TypeCorrect == Spec => []TypeOK
<1>1. IInv => TypeOK
  BY DEF IInv
<1> QED
  BY <1>1, Invariance, PTL

\* For any calls at once, an MCP tool is called once in the life of a session.
\* (collect_evidence under _lock.)
THEOREM AskedOnce == Spec => []ToolsAskedOnce
<1>1. IInv => ToolsAskedOnce
  BY DEF IInv
<1> QED
  BY <1>1, Invariance, PTL

\* The drafts of a collection are stored as a whole.  (_persist_all.)
THEOREM WholeBatch == Spec => []BatchIsWhole
<1>1. IInv => BatchIsWhole
  BY DEF IInv, StoredInv
<1> QED
  BY <1>1, Invariance, PTL

-----------------------------------------------------------------------------
(* Refinement *)

\* What an ending of the collection is to one that only sees what it came to.
LEMMA RefineReceive ==
  ASSUME NEW c, NEW refs \in {{}, table}, Receive(c, refs),
         ~receipt.made, error = NoCode, UNCHANGED table
  PROVE  Collection!CNext
<1>1. CASE receipt' = [made |-> TRUE, refs |-> refs] /\ error' = error
  BY <1>1 DEF Collection!CNext, Collection!Receive, Collection!Open
<1>2. CASE error' \in Codes /\ receipt' = receipt
  <2>1. table' = table \cup {} /\ {} \in SUBSET Ids
    OBVIOUS
  <2> QED
    BY <1>2, <2>1 DEF Collection!CNext, Collection!Fail, Collection!Open
<1> QED
  BY <1>1, <1>2, ReceiveEffect

LEMMA RefineFail ==
  ASSUME NEW c, NEW code \in Codes, Fail(c, code), ~receipt.made, error = NoCode,
         NEW ids \in SUBSET Ids, table' = table \cup ids
  PROVE  Collection!CNext
  BY DEF Fail, Collection!CNext, Collection!Fail, Collection!Open

\* A step of a call is a step of the one collection, or none.
LEMMA RefineStep ==
  ASSUME IInv, NEW c \in Calls, Step(c)
  PROVE  Collection!CNext \/ UNCHANGED Collection!collection
<1> USE DEF session, work, Collection!collection
<1>1. TypeOK /\ (pc[c] \in Collecting => ~receipt.made /\ error = NoCode)
  BY DEF IInv, UndecidedInv
<1>2. {} \in SUBSET Ids /\ table \cup {} = table /\ drafts \in SUBSET Ids
  BY <1>1 DEF TypeOK, Ids
<1>3. CASE \/ Refuse(c) \/ EnterRead(c) \/ ReadChunk(c)
           \/ EnterCollect(c) /\ (receipt.made \/ error # NoCode)
  BY <1>1, <1>3, AsideStep DEF Aside
<1>4. CASE EnterCollect(c) /\ ~receipt.made /\ error = NoCode
  <2>1. table' = table
    BY <1>4 DEF EnterCollect
  <2>2. CASE Receive(c, {})
    BY <1>4, <2>1, <2>2, RefineReceive
  <2>3. CASE Fail(c, "ANALYSIS_FAILED")
    BY <1>2, <1>4, <2>1, <2>3, RefineFail DEF Codes
  <2>4. CASE UNCHANGED <<receipt, error>>
    BY <2>1, <2>4
  <2> QED
    BY <1>4, <2>2, <2>3, <2>4 DEF EnterCollect
<1>5. CASE List(c)
  <2>1. table' = table /\ ~receipt.made /\ error = NoCode
    BY <1>1, <1>5 DEF List, Collecting
  <2>2. CASE Receive(c, table)
    BY <2>1, <2>2, RefineReceive
  <2>3. CASE MoveTo(c, "tools")
    BY <2>1, <2>3 DEF MoveTo
  <2> QED
    BY <1>5, <2>2, <2>3 DEF List
<1>6. CASE AskTool(c)
  BY <1>6 DEF AskTool
<1>7. CASE ToolFails(c)
  <2>1. PICK code \in ToolRaises : Fail(c, code)
    BY <1>7 DEF ToolFails
  <2>2. code \in Codes /\ table' = table /\ ~receipt.made /\ error = NoCode
    BY <1>1, <1>7 DEF ToolFails, ToolRaises, Codes, Collecting
  <2> QED
    BY <1>2, <2>1, <2>2, RefineFail
<1>8. CASE ToolsEnd(c)
  <2>1. table' = table /\ ~receipt.made /\ error = NoCode
    BY <1>1, <1>8 DEF ToolsEnd, Collecting
  <2>2. CASE Receive(c, {})
    BY <2>1, <2>2, RefineReceive
  <2>3. CASE Fail(c, "ANALYSIS_TIMEOUT")
    BY <1>2, <2>1, <2>3, RefineFail DEF Codes
  <2>4. CASE MoveTo(c, "persist")
    BY <2>1, <2>4 DEF MoveTo
  <2> QED
    BY <1>8, <2>2, <2>3, <2>4 DEF ToolsEnd
<1>9. CASE Persist(c)
  <2>1. ~receipt.made /\ error = NoCode
    BY <1>1, <1>9 DEF Persist, Collecting
  <2>2. CASE table' = table \cup drafts /\ MoveTo(c, "relist")
    BY <1>2, <2>2 DEF MoveTo, Collection!CNext, Collection!Store
  <2>3. CASE table' \in Saved /\ \E code \in DatabaseRaises \cup {"MCP_TRANSPORT"} : Fail(c, code)
    <3>1. PICK code \in DatabaseRaises \cup {"MCP_TRANSPORT"} : Fail(c, code)
      BY <2>3
    <3>2. code \in Codes
      BY DEF DatabaseRaises, Codes
    <3>3. PICK ids \in SUBSET Ids : table' = table \cup ids
      BY <1>2, <2>3 DEF Saved
    <3> QED
      BY <2>1, <3>1, <3>2, <3>3, RefineFail
  <2> QED
    BY <1>9, <2>2, <2>3 DEF Persist
<1>10. CASE Relist(c)
  <2>1. table' = table /\ ~receipt.made /\ error = NoCode
    BY <1>1, <1>10 DEF Relist, Collecting
  <2>2. CASE Receive(c, table)
    BY <2>1, <2>2, RefineReceive
  <2>3. CASE Fail(c, "ANALYSIS_FAILED")
    BY <1>2, <2>1, <2>3, RefineFail DEF Codes
  <2> QED
    BY <1>10, <2>2, <2>3 DEF Relist, Committed
<1>11. CASE ListFails(c)
  <2>1. PICK code \in DatabaseRaises \cup {"MCP_TRANSPORT", "ANALYSIS_UNKNOWN_EVIDENCE"} :
          Fail(c, code)
    BY <1>11 DEF ListFails
  <2>2. code \in Codes /\ table' = table /\ ~receipt.made /\ error = NoCode
    BY <1>1, <1>11 DEF ListFails, DatabaseRaises, Codes, Collecting
  <2> QED
    BY <1>2, <2>1, <2>2, RefineFail
<1> QED
  BY <1>3, <1>4, <1>5, <1>6, <1>7, <1>8, <1>9, <1>10, <1>11 DEF Step

\* What happens around the calls only stores, or leaves no trace.
LEMMA RefineAround ==
  ASSUME IInv, (\E c \in Calls : Call(c)) \/ Expire \/ Cancel \/ OtherAttempt
  PROVE  Collection!CNext \/ UNCHANGED Collection!collection
<1> USE DEF session, work, Collection!collection
<1>1. CASE (\E c \in Calls : Call(c)) \/ Expire
  BY <1>1 DEF Call, Expire
<1>2. CASE Cancel
  <2>1. drafts \in SUBSET Ids /\ UNCHANGED <<receipt, error>>
    BY <1>2 DEF Cancel, IInv, TypeOK, Ids
  <2>2. table' = table \/ table' = table \cup drafts
    BY <1>2 DEF Cancel, Saved
  <2> QED
    BY <2>1, <2>2 DEF Collection!CNext, Collection!Store
<1>3. CASE OtherAttempt
  <2>1. {Elsewhere} \in SUBSET Ids
    BY DEF Ids
  <2> QED
    BY <1>3, <2>1 DEF OtherAttempt, Collection!CNext, Collection!Store
<1> QED
  BY <1>1, <1>2, <1>3

\* A session is one collection, whatever the agent calls.  (collect_evidence.)
THEOREM Refinement == Spec => ImplementsCollection
<1>1. Init => Collection!CInit
  BY DEF Init, Collection!CInit, Ids
<1>2. IInv /\ [Next]_vars => [Collection!CNext]_(Collection!collection)
  <2>1. IInv /\ Next => Collection!CNext \/ UNCHANGED Collection!collection
    BY RefineStep, RefineAround DEF Next
  <2>2. UNCHANGED vars => UNCHANGED Collection!collection
    BY DEF vars, session, Collection!collection
  <2> QED
    BY <2>1, <2>2
<1> QED
  BY <1>1, <1>2, Invariance, PTL DEF Spec, ImplementsCollection
=============================================================================
