SPECIFICATION FairSpec
CONSTANTS
  Tasks = {"connectman", "jobseeker"}
  Actions = {"run-due"}
  SlotsPerDay = 1
  PostLikerSlot = 0
  SendManSlot = 0
  ConnectManSlot = 0
  RetrySlots = 1
  HistoryCap = 1
  FirstDay = 5
  MaxDay = 7
  NoTask = NoTask
INVARIANTS
  CompletedOncePerWeek
PROPERTIES
  DueIsExecuted
