SPECIFICATION FairSpec
CONSTANTS
  NumCmds = 3
  Retries = 2
  Polls = 2
INVARIANTS TypeOK BufferOwned SuccessIsOwnAnswer OncePerAttempt
PROPERTIES ProcCmdEnds
CHECK_DEADLOCK FALSE
