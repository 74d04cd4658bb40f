SPECIFICATION FairSpec
CONSTANTS
  Callers = {main}
  Main = main
  MaxCmds = 1
PROPERTIES StopTerminates
CHECK_DEADLOCK FALSE
