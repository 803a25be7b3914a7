CONSTANTS
  MaxDay = 3
  MaxBytes = 3
  LastLogDay = 2
  SensorRetain = 3
  SensorFull = FALSE
  PullRetain = 1
  SpoolRetain = 2
  Newline <- LongLogs
  Sources = {"a"}
  SourceOf <- OneSource
  RawRetain = 3
  IngestKeepsUp = FALSE
  PullKeepsUp = FALSE
SPECIFICATION CollectorFair
INVARIANTS
  CollectorTypeOK
  OffsetOnBoundary
  NothingSkipped
PROPERTIES
  LineIsStored
CHECK_DEADLOCK FALSE
