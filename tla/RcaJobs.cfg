SPECIFICATION Spec
CONSTANTS
  j1 = j1
  m1 = m1
  m2 = m2
  stray = stray
  w1 = w1
  w2 = w2
  NoJob = NoJob
  NoWorker = NoWorker
  NoMessage = NoMessage
  Job = {j1}
  Message = {m1, m2, stray}
  MessageJob <- WithStray
  Worker = {w1, w2}
  MaxAttempts = 2
  Lease = 1
  Backoff = 1
  Budget = 4
  Configured = 2
  MaxTime = 4
SYMMETRY Symmetry
INVARIANTS AckedJobsSettled OwnerRunsNewestAttempt
  SupersededAttemptsNeverSettle SuccessHasItsReport IInv
PROPERTIES SettledJobIsFrozen ImplementsContract
CHECK_DEADLOCK FALSE
