SPECIFICATION Spec
CONSTANTS
  Callers = {main}
  Main = main
  MaxCmds = 1
INVARIANTS NoDanglingCallback
CHECK_DEADLOCK FALSE
