SPECIFICATION MCSpec
CONSTANTS
  Jobs <- Four
  Settings <- AllSettings
  MinExtracted = 1
  MaxDay = 2
  Questions = {"phone", "years", "salary", "visa", "memo", "visit", "odd", "state"}
  Contact = {"phone"}
  Worded = {"state"}
  Known = {"phone", "years", "salary", "visa"}
  Blank = {"memo"}
  Unfit = {"visit"}
  Forms <- AllForms
  Shared = FALSE
  MaxSteps = 4
INVARIANTS
  RecordedUnderShare
  CountedOnce
  AppliedUnderLimit
  AnswersMatch
  SubmitsAsPromised
