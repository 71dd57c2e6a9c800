-------------------------- MODULE MCEvidenceSession --------------------------
(* Instances of EvidenceSession for TLC.                                     *)
EXTENDS EvidenceSession

CONSTANTS c1, c2, c3, r1

MCCalls    == {c1, c2, c3, r1}
MCCollects == {c1, c2, c3}
=============================================================================
