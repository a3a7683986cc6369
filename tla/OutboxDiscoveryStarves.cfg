\* One signal more than a discovery reads.
SPECIFICATION Spec
CONSTANTS
  Last = 2
  Owned = {1,2}
  Limit = 1
  MaxTries = 2
  MaxRuns = 1
PROPERTY
  CommittedIsSettled
