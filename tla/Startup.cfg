SPECIFICATION FairSpec
CONSTANTS
  Machines <- MCMachines
  PlatformIndexes <- MCPlatformIndexes
  Threads = {t1, t2}
  Backends = {b1}
  IndexMod = 8
  PlatformHead = 3
  DeviceHead = 3
  BufLen = 6
  Align = 2
INVARIANTS DevicesAgree ReportSound
PROPERTIES ServerStops EveryDeviceUsed
CHECK_DEADLOCK FALSE
