SPECIFICATION StartSpec
CONSTANTS
  Depth = 3
  ApiLevels = {28}
  Tries = 1
  MaxCallbacks = 1
  Challenges = {1}
  Uninitialized = Uninitialized
  Groups = {"/data/system/users/%1/fpdata", "/data/vendor_de/%1/fpdata"}
INVARIANTS StoresExist MadePathsAreComplete
CONSTRAINT UntilPathsAreMade
CHECK_DEADLOCK FALSE
