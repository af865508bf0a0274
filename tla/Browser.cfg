SPECIFICATION MCSpec
CONSTANTS
  Nothing = Nothing
  Helpers = {h1, h2}
  MaxChunks = 4
  HighWater = 1
  Errors = {"expected", "unexpected"}
CHECK_DEADLOCK FALSE
INVARIANTS
  WholeSnapshot
  SignedInSnapshot
  EndedClean
PROPERTIES
  GivenUp
