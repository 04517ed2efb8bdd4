SPECIFICATION SystemSpec
CONSTANTS
  Clients = {c1}
  NoCaller = NoCaller
  Fingers = {1, 2}
  Names = {"", "thumb", "Unknown 0", "Unknown 1", "Unknown 2"}
  ClientNames = {"thumb"}
  UnknownName <- MCUnknownName
  Absent = Absent
  Unreadable = Unreadable
  SaveOutcomes = {"written"}
  AcquiredInfos = {}
  SensorInfos = {}
  Percents <- MCPercents
  Samples = 2
  ErrorCodes = {"ERROR"}
  Undefined = Undefined
  MaxCallbacks = 1
  MaxEvents = 1
VIEW WithoutOutput
INVARIANTS GetAllIsStore
CONSTRAINT LosesTrackAfterLoading
CHECK_DEADLOCK FALSE
