SPECIFICATION Spec
CONSTANTS
  Client = {c1, c2, c3}
  Worker = {w1, w2}
  MaxSession = 3
  BatchSize = 2
  AnswerMayGetLost = TRUE
SYMMETRY Symmetry
INVARIANTS
  HandledOnce
  StatusIsEvidence
  NothingLostWithoutFailure
  UserRetryNeverRacesOriginal
