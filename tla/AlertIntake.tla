----------------------------- MODULE AlertIntake -----------------------------
(* What ingestion promises about a delivery it accepts: the alerts in it that  *)
(* are new are processed, all of them at once, and an incident is active, with *)
(* its RCA work queued, exactly when a firing alert of it has been processed.  *)
CONSTANTS Alert, Firing, Identity, IdentityOf

VARIABLES processed, incidents, queued

Opened(as) == {IdentityOf[a] : a \in as \cap Firing}

Init ==
  /\ processed = {}
  /\ incidents = {}
  /\ queued = {}

Process(new) ==
  /\ new \cap processed = {}
  /\ processed' = processed \cup new
  /\ incidents' = incidents \cup Opened(new)
  /\ queued' = queued \cup Opened(new)

Next == \E new \in SUBSET Alert : Process(new)

ISpec == Init /\ [][Next]_<<processed, incidents, queued>>
=============================================================================
