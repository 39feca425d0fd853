SPECIFICATION Spec
CONSTANTS
  Torrents = {t1}
  OutputOf <- OwnOutput
  Drivers = {loop, once}
  LoopDrivers = {loop}
  MaxAttempts = 2
  VPNReadings = {"SAFE", "UNSAFE"}
  OperatorOn = FALSE
  MaxFaults = 0
  MaxDay = 0
INVARIANTS
  RetriesUpToMax
