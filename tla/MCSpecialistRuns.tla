--------------------------- MODULE MCSpecialistRuns ---------------------------
(* Instances of SpecialistRuns for TLC: a specialist of whose endpoint       *)
(* anything may become, next to one that never gets beyond its discovery.    *)
EXTENDS SpecialistRuns

MCDiscovery == [k \in Kinds |-> IF k = 1 THEN Found ELSE {"MISSING", "TRANSPORT"}]
=============================================================================
