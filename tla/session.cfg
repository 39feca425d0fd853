SPECIFICATION LiveSpec
CONSTANTS
  Callers = {loop, request}
  Loop = loop
  MaxFaults = 3
INVARIANTS
  TypeOK
  OkMeansApplied
  AppliedAtMostOnce
PROPERTIES
  FailsForAReason
  SessionRecovers
