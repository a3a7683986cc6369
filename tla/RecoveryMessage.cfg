SPECIFICATION Spec
CONSTANTS
  Last = 2
  Advances = {a1}
  Checks = {k1, k2}
  Procs = {p1, p2}
  MaxTries = 2
  AttemptCap = 2
  WorkerCap = 1
  MaxChanges = 1
  Nobody = Nobody
SYMMETRY Interchangeable
INVARIANTS
  TypeOK
  DeliveredOnce
  HistoryIsTrue
