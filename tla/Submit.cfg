CONSTANTS
  Samples = {"a", "b"}
  CapturedOn <- TwoDays
  GoodSize = {"a"}
  MaxDay = 2
  MaxKills = 1
  MaxLost = 1
  Cap <- SmallCaps
  LookupMax = 2
  SubmitMax <- OneUpload
  IntelTTL = 2
  ContribTTL = 1
  MaxAge = 0
  Hashes = {"x", "y", "z"}
  Oversized = {"z"}
  MaxListed = 2
  MaxStops = 1
  MaxClock = 3
  Tolerance = 1
  MaxCall = 1
  TrendDays = 5
  Period = 2
  Spans <- Outages
  Personas <- Posed
  Ways <- AllOrNone
  Captures = {"x", "y"}
  MaxTick = 10
  DayTicks = 5
  Every <- Cycles
  PullWarn = 1
  EventsWarn = 2
  WorkerWarn = 1
  FetchWarn = 1
  AuthWindow = 3
  MinConnects = 2
  Outage <- OneDown
  Plain = {"pw", "root"}
  Offers <- Sprayed
  HandFiles <- HandWritten
  Top = 1
  MaxActs = 2
SPECIFICATION SiteSpec
INVARIANTS
  WithinQuota
  UploadedOnce
  FetchedIsAll
  HealthIsHonest
  AllowsTheTopPairs
  RulesMatchCowrie
PROPERTIES
  ClaimsAreTrue
  StoredIsWhole
  ClaimHolds
  
CHECK_DEADLOCK FALSE
