\* A worker dies and the author is revoked.
SPECIFICATION FairSpec
CONSTANTS
  a1 = a1
  r1 = r1
  r2 = r2
  NoAction = NoAction
  Actions <- OneAction
  Reached <- OneAction
  Reconcilers <- OneReconciler
  MaxTries = 2
  AttemptCap = 1
  Punctual = TRUE
PROPERTY
  CrashIsNoticed
