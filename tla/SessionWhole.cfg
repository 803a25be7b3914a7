CONSTANTS
  MaxDay = 6
  Events <- TwoADay
  Operator <- OperatorsOwn
  RawRetain = 4
  RecentDays = 2
  MaxLate = 0
  Active = TRUE
  UntimedComes = FALSE
  Sessions = {0, 1, 2, 3, 4, 5, 6, 9}
  SessionOf <- Across
SPECIFICATION Spec
PROPERTIES
  SessionWhole
CHECK_DEADLOCK FALSE
