SPECIFICATION PartsSpec
CONSTANTS
  e1 = e1
  e2 = e2
  e3 = e3
  j1 = j1
  j2 = j2
  poller = poller
  goroutine = goroutine
  Events = {e1, e2, e3}
  Jobs = {j1, j2}
  KeyOf <- TwoKeys
  Workers = {poller}
  Poller = poller
  BatchOf <- Batches
  Nobody = Nobody
  MaxAttempts = 2
  MaxFaults = 2
  SlowWorkers = FALSE
INVARIANTS TypeOK DuplicatesOnlyAfterFaults AttemptsWithinLimit LockMatchesStatus
PROPERTIES SettledIsFinal EveryJobSettlesShared
