CONSTANTS
  Plain = {"pw", "root"}
  Offers <- Sprayed
  HandFiles <- OddWritten
  Top = 1
  MaxActs = 1
SPECIFICATION UserDbSpec
PROPERTIES
  GateKeepsCowrieUp
CHECK_DEADLOCK FALSE
