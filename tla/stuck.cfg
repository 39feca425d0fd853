SPECIFICATION LiveSpec
CONSTANTS
  Torrents = {t1}
  OutputOf <- OwnOutput
  Drivers = {d1}
  LoopDrivers = {d1}
  MaxAttempts = 2
  VPNReadings = {"SAFE", "UNSAFE"}
  OperatorOn = FALSE
  MaxFaults = 1
  MaxDay = 0
PROPERTIES
  RunningEnds
