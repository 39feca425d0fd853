SPECIFICATION Spec
CONSTANTS
  Torrents = {t1}
  OutputOf <- OwnOutput
  Drivers = {loop, once}
  LoopDrivers = {loop}
  MaxAttempts = 2
  VPNReadings = {"SAFE", "UNSAFE", "ERROR"}
  OperatorOn = FALSE
  MaxFaults = 1
  MaxDay = 0
INVARIANTS
  OneRowPerKey
  QueuedIsRecorded
  UploadFollowsConversion
  LinkIsBacked
