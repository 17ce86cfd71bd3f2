SPECIFICATION FairSpec
CONSTANTS
  Client = {c1, c2}
  Worker = {w1, w2}
  MaxSession = 2
  BatchSize = 2
  AnswerMayGetLost = FALSE
PROPERTIES
  ImplementsLifecycle
  SessionsSettle
