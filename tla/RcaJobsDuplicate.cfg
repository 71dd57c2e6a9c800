SPECIFICATION Spec
CONSTANTS
  j1 = j1
  m1 = m1
  m2 = m2
  stray = stray
  w1 = w1
  w2 = w2
  NoJob = NoJob
  NoWorker = NoWorker
  NoMessage = NoMessage
  Job = {j1}
  Message = {m1, m2}
  MessageJob <- JobMessages
  Worker = {w1, w2}
  MaxAttempts = 2
  Lease = 1
  Backoff = 1
  Budget = 3
  Configured = 2
  MaxTime = 4
PROPERTIES DuplicateSparesLiveAttempt
CHECK_DEADLOCK FALSE
