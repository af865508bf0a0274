CONSTANTS
  Wrappers = {w1, w2}
  Procs = {leader, helper}
  Leader = leader
  NoWrapper = none
  PollBudget = 1
SPECIFICATION FairLockSpec
\* Every wrapper may have ended for good.
CHECK_DEADLOCK FALSE
INVARIANTS
  PendingReachedGroup
  OneWorkerAtATime
PROPERTIES
  SignalledWrapperEnds
