CONSTANTS
  MaxDay = 5
  Events <- SomeEvents
  Operator <- SomeOperator
  RawRetain = 4
  RecentDays = 2
  MaxLate = 0
  Active = TRUE
  UntimedComes = TRUE
  Backfill = TRUE
SPECIFICATION FairSpec
PROPERTIES
  NothingTruncated
  StaysPurged
  EventIsCounted
CHECK_DEADLOCK FALSE
