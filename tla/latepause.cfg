SPECIFICATION Spec
CONSTANTS
  Torrents = {t1}
  OutputOf <- OwnOutput
  Drivers = {d1}
  LoopDrivers = {d1}
  MaxAttempts = 2
  VPNReadings = {"SAFE", "UNSAFE"}
  OperatorOn = TRUE
  MaxFaults = 0
  MaxDay = 0
PROPERTIES
  PausedDoesNotStart
