SPECIFICATION Spec
CONSTANTS
  Last = 1
  Advances = {a1, a2}
  Checks = {}
  Procs = {p1, p2}
  MaxTries = 2
  AttemptCap = 2
  WorkerCap = 0
  MaxChanges = 1
  Nobody = Nobody
INVARIANT HistoryTells
