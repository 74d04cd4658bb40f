SPECIFICATION FairSpec
CONSTANTS
  Sockets = {s1, s2}
  Pipes = {"ControlScreens", "CSMonitor"}
  MaxClients <- OneEach
  Modulus = 8
  High = 5
  Low = 3
  FirstNumber = 6
  ZeroSkippers = {"CSMonitor"}
  MaxLost = 1
  MaxConns = 2
  MaxRequests = 3
  MaxCopies = 2
INVARIANTS TypeOK TablesAgree OnlyAuthenticated NextNumberAccepted ProcessedOnce
PROPERTIES SlotsComeBack
CHECK_DEADLOCK FALSE
