SPECIFICATION MCSpec
CONSTANTS
  Items = {c1, c2}
  Runs = {r1}
  NoItem = NoItem
  MaxAttempts = 2
  MaxItems = 1
  MaxUpdates = 2
  SentCap = 1
  Exclusive = TRUE
  CrashPoints <- AllPoints
SYMMETRY ItemSymmetry
INVARIANTS
  PostedOnlyApproved
  RepliesWithinAttempts
  PostsFollowDecisions
  NoPressLost
  NoSecondReply
PROPERTIES
  LifecycleImplemented
