\* Two logs that rotate (days 1 and 2), one-byte chunks, any number of failed
\* requests and kills.
CONSTANTS
  MaxDay = 3
  MaxBytes = 1
  LastLogDay = 3
  SensorRetain = 2
  SensorFull = TRUE
  PullRetain = 3
  SpoolRetain = 3
  MaxChunk = 1
  MaxFiles = 3
SPECIFICATION FairSpec
PROPERTIES
  RotatedLogIsCopied
