SPECIFICATION FairSpec
CONSTANTS
  MaxControls = 4
  MaxCommands = 2
INVARIANTS TypeOK StoppedIsClean CrashOnlyWithoutEc
PROPERTIES ControlReturns StopInLoopEnds
CHECK_DEADLOCK FALSE
