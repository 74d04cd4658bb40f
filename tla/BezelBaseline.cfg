SPECIFICATION Spec
CONSTANTS
  NumButtons = 1
  Positions = {0, 1}
  Devices = {bezel}
  Clients = {monitor}
  PresenceEvery = 2
  MaxPresses = 1
  MaxMoves = 1
  MaxSwaps = 1
INVARIANTS SliderEventMeansMove
CHECK_DEADLOCK FALSE
