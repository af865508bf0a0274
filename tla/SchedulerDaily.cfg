SPECIFICATION Spec
CONSTANTS
  Tasks = {"postliker", "jobseeker"}
  Actions = {"run-due", "run-all"}
  SlotsPerDay = 2
  PostLikerSlot = 0
  SendManSlot = 1
  ConnectManSlot = 1
  RetrySlots = 1
  HistoryCap = 1
  FirstDay = 0
  MaxDay = 1
  NoTask = NoTask
INVARIANTS
  OncePerDay
  BlockRespected
PROPERTIES
  DueUntilExecuted
