\* The smallest instance with a rotation and a log as long as the copy of the
\* one before it.
CONSTANTS
  MaxDay = 2
  MaxBytes = 2
  LastLogDay = 2
  SensorRetain = 1
  SensorFull = FALSE
  PullRetain = 2
  SpoolRetain = 2
  MaxChunk = 2
  MaxFiles = 3
SPECIFICATION Spec
INVARIANTS
  ByteIdentical
