SPECIFICATION StartFairSpec
CONSTANTS
  Depth = 1
  ApiLevels = {28}
  Tries = 2
  MaxCallbacks = 1
  Challenges = {1, 2}
  Uninitialized = Uninitialized
  Groups = {"/data/system/users/%1/fpdata", "/data/vendor_de/%1/fpdata"}
INVARIANTS StartTypeOK WaitsForReport TokenFitsSession
PROPERTIES ComesUp
CHECK_DEADLOCK FALSE
