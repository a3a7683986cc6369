SPECIFICATION Spec
CONSTANTS
  Versions = {v1, v2}
  Types = {photo, certificate}
  Commands = {c1, c2}
  Procs = {p1, p2}
  None = None
INVARIANTS
  VerifiedIsRegistered
  AnsweredAsAsked
  RegisteredIsStored
CHECK_DEADLOCK FALSE
