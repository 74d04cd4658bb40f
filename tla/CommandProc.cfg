SPECIFICATION Spec
CONSTANTS
  Namespaces = {"cimv2", "wmi"}
  DefaultNamespace = "cimv2"
  MaxRows = 1
  MaxRestarts = 1
  Names = {"", "v"}
  Lengths = {0, 2}
  MaxForeign = 1
  Bytes = {0, 1}
  MaxPower = 4
  MaxRequests = 4
INVARIANTS TypeOK NothingLeaks ProxyIsReady RegistryReadsBack AcpiReadsBack ErrorIsOwn
CHECK_DEADLOCK FALSE
