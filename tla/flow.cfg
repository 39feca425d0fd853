SPECIFICATION LiveSpec
CONSTANTS
  Torrents = {t1, t2}
  OutputOf <- OwnOutput
  Drivers = {d1}
  LoopDrivers = {d1}
  MaxAttempts = 2
  VPNReadings = {"UNSAFE", "ERROR"}
  OperatorOn = TRUE
  MaxFaults = 0
  MaxDay = 0
INVARIANTS
  DoneIsHandedOn
PROPERTIES
  ConversionsSettle
  UploadsSettle
  RunningEnds
