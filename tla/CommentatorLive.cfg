SPECIFICATION FairSpec
CONSTANTS
  Items = {c1, c2}
  Runs = {r1}
  NoItem = NoItem
  MaxAttempts = 2
  MaxItems = 1
  MaxUpdates = 1
  SentCap = 1
  Exclusive = TRUE
  CrashPoints = {"locked", "submitted"}
PROPERTIES
  ApprovedIsSettled
  FailedRequestIsSent
