SPECIFICATION Spec
CONSTANTS
  Sockets = {s1}
  Pipes = {"ControlScreens", "CSMonitor"}
  MaxClients <- OneEach
  Modulus = 8
  High = 5
  Low = 3
  FirstNumber = 6
  ZeroSkippers = {}
  MaxLost = 0
  MaxConns = 1
  MaxRequests = 3
  MaxCopies = 2
INVARIANTS SequenceIncreases
CHECK_DEADLOCK FALSE
