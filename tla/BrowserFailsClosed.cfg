SPECIFICATION MCSpec
CONSTANTS
  Nothing = Nothing
  Helpers = {h1}
  MaxChunks = 4
  HighWater = 1
  Errors = {"expected", "unexpected"}
CHECK_DEADLOCK FALSE
INVARIANTS
  FailsClosed
