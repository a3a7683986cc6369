\* A command and a commercial intent of the same job.
SPECIFICATION FairSpec
CONSTANTS
  c1 = c1
  c2 = c2
  Commands <- OneJobTwo
  Job <- SameJob
  Commercial <- OneCommercial
  MaxAttempts = 2
  SendCap = 3
INVARIANTS
  RecordedIsOnServer
  InCaptureOrder
  BudgetHolds
  OnlyCapturedIsSent
PROPERTIES
  TerminalStays
  CapturedIsSettled
