----------------------------- MODULE MCIngestion -----------------------------
(* Instances of Ingestion for TLC.  Instance i1 fires and resolves; i2 fires   *)
(* with it in one body, in the opposite order in another, and alone in a third. *)
EXTENDS Ingestion

CONSTANTS fire1, fire2, again1, again2, alone2, calm1, i1, i2, k1, k2, both, twin, back, solo, calm

Fire == {fire1, fire2, again1, again2, alone2}

MCBody ==
  [r \in Request |-> CASE r = both -> <<fire1, fire2>>
                       [] r = twin -> <<fire1, fire2>>
                       [] r = back -> <<again2, again1>>
                       [] r = solo -> <<alone2>>
                       [] OTHER    -> <<calm1>>]

MCInstanceOf == [a \in Alert |-> IF a \in {fire2, again2, alone2} THEN i2 ELSE i1]

\* i1 and i2 are of one identity, or of two.
OneIdentity   == [a \in Alert |-> k1]
TwoIdentities == [a \in Alert |-> IF a \in {fire2, again2, alone2} THEN k2 ELSE k1]
=============================================================================
