\* Two logs of up to three bytes, fetched two bytes at a time: every way of
\* cutting a copy, with the sensor's directory full or not.
CONSTANTS
  MaxDay = 4
  MaxBytes = 3
  LastLogDay = 2
  SensorRetain = 1
  SensorFull = TRUE
  PullRetain = 2
  SpoolRetain = 2
  MaxChunk = 2
  MaxFiles = 3
SPECIFICATION Spec
INVARIANTS
  IInv
  DatedPrefix
  LivePositions
PROPERTIES
  ImplementsMirror
