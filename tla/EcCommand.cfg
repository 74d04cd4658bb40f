SPECIFICATION FairSpec
CONSTANTS
  Callers = {main, worker}
  Main = main
  MaxCmds = 2
INVARIANTS TypeOK QueueWakesEmi PendingIsWaiting SuccessIsExecuted
PROPERTIES ImplementsService SyncReturns QueuedIsExecuted CallbackIsCalled
CHECK_DEADLOCK FALSE
