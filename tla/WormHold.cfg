\* One object that may also be stamped, three memberships of two people, two
\* commands, an operator who recovers.
SPECIFICATION FairSpec
CONSTANTS
  Evidence = {e1}
  Anchorable = {e1}
  Members = {1, 2, 3}
  Person <- PersonOf
  Revocable = {1}
  Commands = {c1, c2}
  Operators = {o1}
  MaxAttempts = 2
  NoCommand = NoCommand
INVARIANTS
  TypeOK
  AppliedHoldHolds
  NoLateWrite
PROPERTIES
  ReleasedByAnother
  NoHoldStaysExecuting
\* Commands run out.
CHECK_DEADLOCK FALSE
