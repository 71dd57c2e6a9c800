------------------------------ MODULE MCRcaJobs ------------------------------
(* Instances of RcaJobs for TLC. *)
EXTENDS RcaJobs, TLC

CONSTANTS j1, m1, m2, stray, w1, w2

\* One job published twice (the outbox event and its manual replay) and one
\* message that names no job.
JobMessages == (m1 :> j1) @@ (m2 :> j1)
WithStray   == JobMessages @@ (stray :> NoJob)

Symmetry == Permutations({w1, w2}) \cup Permutations({m1, m2})
=============================================================================
