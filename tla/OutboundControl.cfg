\* Three people, five commands, two receipts, one enabled and one paused process.
SPECIFICATION Spec
CONSTANTS
  Operators = {alice, bob, carol}
  Commands = {c1, c2, c3, c4, c5}
  Receipts = {t1, t2}
  Workers = {w1, w2}
  Enabled = {w1}
  Nobody = Nobody
  NoRequest = NoRequest
SYMMETRY Interchangeable
INVARIANTS
  NoClaimCommitsPaused
  HistoryExplainsState
  EveryResumeIsJustified
\* The command ids run out, perhaps while paused.
CHECK_DEADLOCK FALSE
