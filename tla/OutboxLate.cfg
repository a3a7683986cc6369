\* An execution may outlive its five-minute claim.
SPECIFICATION Spec
CONSTANTS
  a1 = a1
  r1 = r1
  r2 = r2
  NoAction = NoAction
  Actions <- OneAction
  Reached <- OneAction
  Reconcilers <- OneReconciler
  MaxTries = 2
  AttemptCap = 3
  Punctual = FALSE
INVARIANT
  ResultOfItsOwnAttempt
