CONSTANTS
  MaxDay = 5
  MaxBytes = 2
  LastLogDay = 2
  SensorRetain = 5
  SensorFull = FALSE
  PullRetain = 1
  SpoolRetain = 2
  Newline <- ShortLogs
  Sources = {"a", "b"}
  SourceOf <- TwoSources
  RawRetain = 2
  IngestKeepsUp = TRUE
  PullKeepsUp = TRUE
SPECIFICATION CollectorSpec
INVARIANTS
  CountedOnce
  SourcesCoverRaw
PROPERTIES
  RemovedWasIngested
CHECK_DEADLOCK FALSE
