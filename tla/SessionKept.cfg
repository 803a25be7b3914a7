CONSTANTS
  MaxDay = 7
  Events <- TwoADay
  Operator <- OperatorsOwn
  RawRetain = 6
  RecentDays = 3
  MaxLate = 1
  Active = TRUE
  UntimedComes = FALSE
  Sessions = {0, 1, 2, 3, 4, 5, 6, 7, 9}
  SessionOf <- Across
  TransferOf <- Moved
  NoHash = {"", "empty"}
  LoginOf <- Tried
  TagsOf <- Tagged
  EntitiesFrom = 5
  CredDays = 2
  Ips = {"i", "j", "o"}
  IpOf <- Address
  Placed = {"i"}
  DeedOf <- Deed
  Malware = {"m"}
  ShaOf <- Sample
  Labels <- Named
  NoFamily = "none"
  NetIps = {"a", "b", "c", "d", "e"}
  AsnOf <- Nets
  Plain = {"b", "d"}
  NetRows <- Traffic
  NetDays = 3
  Window = 1
  RowLimit = 3
  ListLimit = 2
  Counts = {1, 2, 5, 9}
  SpikeDays = 4
  BaselineDays = 2
  MinBaseline = 2
  MinEvents = 3
  Growing = 2
  MaxNotes = 1
SPECIFICATION TablesSpec
INVARIANTS
  OriginIsFirst
  PurgeIsFinal
  StagesAgree
  PageAgrees
  RankingIsSound
PROPERTIES
  SessionKept
  SightingsKept
  OnlyWidens
  LifetimeIsFloor
  SameLabelsSameFamily
  NotesAreCurrent
  GrowingStaysSpike
CHECK_DEADLOCK FALSE
