\* Punctual, fair workers, a non-deduplicating provider, two reconcilers, and the
\* two abstract specifications.
SPECIFICATION FairSpec
CONSTANTS
  a1 = a1
  r1 = r1
  r2 = r2
  NoAction = NoAction
  Actions <- OneAction
  Reached <- OneAction
  Reconcilers <- TwoReconcilers
  MaxTries = 2
  AttemptCap = 3
  Punctual = TRUE
INVARIANTS
  TypeOK
  AttemptsDoNotOverlap
  AtMostOneEffect
  SuccessHasEffect
  ResultOfItsOwnAttempt
  RetryBudget
PROPERTIES
  ForwardOnly
  KeepsPromise
  RefusalIsFinal
  ExecutingIsReleased
  DeliverableIsDecided
