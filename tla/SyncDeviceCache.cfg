\* Two jobs in pages of one, two tenants; the world changes twice before the
\* second request and then stands still.
SPECIFICATION FairSpec
CONSTANTS
  Jobs = {1, 2}
  Tenants = {t1, t2}
  PageSize = 1
  MaxChanges = 2
  MaxSequence = 4
  Settling = 3
  MaxAnswers = 1
INVARIANTS
  TypeOK
  ShownIsGranted
  CompleteWhenCalm
  AnswersAreAccepted
PROPERTIES
  PurgedReturnsFresh
  WithdrawnLeaves
CHECK_DEADLOCK FALSE
