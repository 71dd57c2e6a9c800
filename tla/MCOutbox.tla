------------------------------- MODULE MCOutbox -------------------------------
(* Instances of Outbox for TLC. *)
EXTENDS Outbox, TLC

CONSTANTS h1, o1, o2

Symmetry == Permutations({o1, o2})
=============================================================================
