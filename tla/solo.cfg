SPECIFICATION Spec
CONSTANTS
  Torrents = {t1, t2}
  OutputOf <- SharedOutput
  Drivers = {d1}
  LoopDrivers = {d1}
  MaxAttempts = 2
  VPNReadings = {"SAFE", "UNSAFE"}
  OperatorOn = TRUE
  MaxFaults = 1
  MaxDay = 1
INVARIANTS
  TypeOK
  AttemptBudget
  ClaimHeld
  StrandedByFault
  LinkedVideoWhole
  ConvertedIsKept
  OneUploadPerConversion
PROPERTIES
  FinalIsFinal
  ImplementsLifecycle
SYMMETRY Symmetry
