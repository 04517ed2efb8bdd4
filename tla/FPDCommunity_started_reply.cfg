SPECIFICATION Spec
CONSTANTS
  Clients = {c1, c2}
  NoCaller = NoCaller
  Fingers = {1, 2}
  Names = {"", "thumb", "Unknown 0", "Unknown 1", "Unknown 2"}
  ClientNames = {"thumb", "Unknown 1"}
  UnknownName <- MCUnknownName
  Absent = Absent
  Unreadable = Unreadable
  SaveOutcomes = {"written"}
  AcquiredInfos = {"ACQUIRED_PARTIAL"}
  Percents = {50, 100}
CHECK_DEADLOCK FALSE
INVARIANTS StartedMeansStarted
