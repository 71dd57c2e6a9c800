--------------------------- MODULE ConversionPromise ---------------------------
(***************************************************************************)
(* What the four migration gates promise of the runtime tables: they are    *)
(* partitioned, then ordinary, then sealed by the last gate, and never go   *)
(* back.  A row is lost only when an operator drops the partitioned schema. *)
(***************************************************************************)
EXTENDS Naturals

VARIABLES
  phase,   \* layout of the runtime tables
  data     \* rows in them

Init ==
  /\ phase = "partitioned"
  /\ data = 0

\* No runtime writes between the conversion and the last gate.
Write ==
  /\ phase \in {"partitioned", "sealed"}
  /\ data' = data + 1
  /\ UNCHANGED phase

Wipe ==
  /\ phase = "partitioned"
  /\ data' = 0
  /\ UNCHANGED phase

Convert ==
  /\ phase = "partitioned"
  /\ phase' = "ordinary"
  /\ UNCHANGED data

Seal ==
  /\ phase = "ordinary"
  /\ phase' = "sealed"
  /\ UNCHANGED data

Next == Write \/ Wipe \/ Convert \/ Seal

Spec == Init /\ [][Next]_<<phase, data>>
=============================================================================
