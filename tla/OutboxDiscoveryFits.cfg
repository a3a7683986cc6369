\* All signals fit one discovery; action 1 belongs to another process.
SPECIFICATION Spec
CONSTANTS
  Last = 3
  Owned = {2,3}
  Limit = 3
  MaxTries = 2
  MaxRuns = 1
INVARIANT
  TypeOK
PROPERTY
  CommittedIsSettled
