SPECIFICATION FairSpec
CONSTANTS
  NumButtons = 1
  Positions = {0, 1}
  Devices = {bezel}
  Clients = {monitor, screens}
  PresenceEvery = 2
  MaxPresses = 1
  MaxMoves = 1
  MaxSwaps = 1
INVARIANTS TypeOK EventMeansPress SliderEventsBounded CommandInOnePlace CommandsInOrder
PROPERTIES HeldPressReported SliderSettles
CHECK_DEADLOCK FALSE
