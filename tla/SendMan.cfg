SPECIFICATION Spec
CONSTANTS
  ann = ann
  bob = bob
  People = {ann, bob}
  NameOf <- OwnNames
  Unlisted = {bob}
  NoOne = NoOne
  Searches = 2
  Target = 2
  Earlier = 1
  MaxPerJob = 2
  MaxPages = 2
  MaxBlockRetries = 1
  StopsShown = {"blocked", "inmail"}
  FaultyStart = TRUE
  MaxDay = 2
  CountCap = 2
INVARIANTS
  RecordedUnderTarget
  StopHalts
PROPERTIES
  ImplementsOutreach
