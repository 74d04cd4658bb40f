SPECIFICATION Spec
CONSTANTS
  Writer = service
  Readers = {r1, r2}
  MaxRetries = 1
  MaxUpdates = 2
  MaxDeaths = 2
INVARIANTS TypeOK ReadsAreWhole MutexGivenBack
CHECK_DEADLOCK FALSE
