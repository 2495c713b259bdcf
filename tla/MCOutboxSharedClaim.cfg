SPECIFICATION Spec
CONSTANTS
  e1 = e1
  e2 = e2
  e3 = e3
  j1 = j1
  j2 = j2
  poller = poller
  goroutine = goroutine
  Events = {e1}
  Jobs = {j1}
  KeyOf <- OneEvent
  Workers = {poller, goroutine}
  Poller = poller
  BatchOf <- Batches
  Nobody = Nobody
  MaxAttempts = 2
  MaxFaults = 0
  SlowWorkers = FALSE
INVARIANT ClaimsAreExclusive
