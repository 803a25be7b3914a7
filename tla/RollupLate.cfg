CONSTANTS
  MaxDay = 4
  Events <- SomeEvents
  Operator <- SomeOperator
  RawRetain = 5
  RecentDays = 2
  MaxLate = 3
  Active = FALSE
  UntimedComes = FALSE
  Backfill = FALSE
SPECIFICATION FairSpec
PROPERTIES
  EventIsCounted
CHECK_DEADLOCK FALSE
