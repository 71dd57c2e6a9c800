------------------------------ MODULE RunLedger ------------------------------
(***************************************************************************)
(* What the attempts of an RCA run leave behind for a reader, without       *)
(* branches, locks and crashes: evidence and reports, to which things are   *)
(* only ever added.  A report is numbered after all that are there and      *)
(* names nothing but evidence that is there.                                *)
(***************************************************************************)
EXTENDS Integers

CONSTANTS Attempts, Kinds

VARIABLES
  evidence,   \* batches <<attempt, kind>> of evidence of the run
  reports     \* records of version, status and cites

ledger == <<evidence, reports>>

LInit ==
  /\ evidence = {}
  /\ reports = {}

Collect(batches) ==
  /\ evidence' = evidence \cup batches
  /\ UNCHANGED reports

Report(status, cites) ==
  /\ cites \subseteq evidence
  /\ status = "COMPLETE" => cites # {}
  /\ \E version \in {1} \cup {r.version + 1 : r \in reports} :
       /\ \A r \in reports : r.version < version
       /\ reports' = reports \cup
                       {[version |-> version, status |-> status, cites |-> cites]}
  /\ UNCHANGED evidence

LNext ==
  \/ \E batches \in SUBSET (Attempts \X Kinds) : Collect(batches)
  \/ \E status \in {"COMPLETE", "PARTIAL", "FAILED"} :
       \E cites \in SUBSET (Attempts \X Kinds) : Report(status, cites)

LSpec == LInit /\ [][LNext]_ledger
=============================================================================
