SPECIFICATION SystemSpec
CONSTANTS
  Clients = {c1}
  NoCaller = NoCaller
  Fingers = {1, 2}
  Names = {"", "thumb", "Unknown 0", "Unknown 1", "Unknown 2"}
  ClientNames = {"thumb", "Unknown 2"}
  UnknownName <- MCUnknownName
  Absent = Absent
  Unreadable = Unreadable
  SaveOutcomes = {"written"}
  AcquiredInfos = {"ACQUIRED_GOOD"}
  SensorInfos = {"ACQUIRED_NEW"}
  Percents <- MCPercents
  Samples = 2
  ErrorCodes = {"ERROR"}
  Undefined = Undefined
  MaxCallbacks = 1
  MaxEvents = 1
VIEW Relevant
INVARIANTS SystemTypeOK ListMatchesStore WaitsForSomething AnswersFitOperation IdentifiedIsListed NamesAreRight NameIsFree
PROPERTIES ImplementsTemplateList NamesAreTold
CHECK_DEADLOCK FALSE
