SPECIFICATION LiveSpec
CONSTANTS
  Publishers = {worker, request}
  Worker = worker
  Streams = {s1, s2}
  Buffer = 1
  MaxVersion = 2
  MaxFaults = 1
  None = None
INVARIANTS
  TypeOK
  NoSendOnClosed
PROPERTIES
  WorkerDrained
  StopEnds
  PublishEnds
  DeadStreamLeavesBus
  PanesCatchUp
  OverviewCatchesUp
