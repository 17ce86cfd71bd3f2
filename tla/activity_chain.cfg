SPECIFICATION Spec
CONSTANTS
  Item = {j}
  NoItem = NoItem
  Version = {j}
  BatchLength = 2
  MaxLaunch = 1
  Worker = {w1, w2}
  MaxSession = 3
  BatchSize = 1
  AnswerMayGetLost = FALSE
INVARIANTS
  GraphNamesCompleteActivities
  SessionsAccountForWork
PROPERTIES
  ImplementsLedger
  RegistrationIsLodged
