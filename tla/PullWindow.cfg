\* Three logs of two bytes and a week: every copy outlives the window, is
\* removed by the spool pruner and is offered by the sensor afterwards; and
\* the pull is out for as long as the window.
CONSTANTS
  MaxDay = 6
  MaxBytes = 2
  LastLogDay = 3
  SensorRetain = 5
  SensorFull = FALSE
  PullRetain = 3
  SpoolRetain = 3
  MaxChunk = 2
  MaxFiles = 4
SPECIFICATION Spec
INVARIANTS
  CleanRunIsComplete
  OutageLosesNothing
PROPERTIES
  NeverFetchedAgain
CHECK_DEADLOCK FALSE
