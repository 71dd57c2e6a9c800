---------------------------- MODULE OneCollection ----------------------------
(***************************************************************************)
(* What an evidence session promises to the agent that calls its tools in   *)
(* any order and at the same time: there is one collection.  It ends in one *)
(* receipt, of nothing or of all evidence that is stored at that moment, or *)
(* in one failure, and what it ended in stays.                              *)
(***************************************************************************)
CONSTANTS Ids, Codes, NoCode

VARIABLES
  table,    \* stored evidence of the specialist run
  receipt,  \* [made, refs]
  error     \* code of the failure

collection == <<table, receipt, error>>

CInit ==
  /\ table \subseteq Ids
  /\ receipt = [made |-> FALSE, refs |-> {}]
  /\ error = NoCode

Open == ~receipt.made /\ error = NoCode

Store(ids) ==
  /\ table' = table \cup ids
  /\ UNCHANGED <<receipt, error>>

Receive ==
  /\ Open
  /\ \E refs \in {{}, table} : receipt' = [made |-> TRUE, refs |-> refs]
  /\ UNCHANGED <<table, error>>

\* The last thing that is stored may be what it fails with.
Fail(ids, code) ==
  /\ Open
  /\ table' = table \cup ids
  /\ error' = code
  /\ UNCHANGED receipt

CNext ==
  \/ \E ids \in SUBSET Ids : Store(ids)
  \/ Receive
  \/ \E ids \in SUBSET Ids, code \in Codes : Fail(ids, code)

CSpec == CInit /\ [][CNext]_collection
=============================================================================
