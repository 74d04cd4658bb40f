SPECIFICATION FairSpec
CONSTANTS
  MaxControls = 1
  MaxCommands = 0
PROPERTIES StopEnds
CHECK_DEADLOCK FALSE
