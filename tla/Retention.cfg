SPECIFICATION MCFairSpec
CONSTANTS
  request = request
  connection = connection
  evidence = evidence
  older = older
  Records = {request, connection, evidence, older}
  Parent <- MCParent
  ExpiresAt <- MCExpiresAt
  Limit = 1
  Disposable = {request, connection, evidence, older}
  Filed = {evidence, older}
  Evidence = {evidence, older}
  Workers = {w1, w2}
  None = None
  MaxAttempts = 2
  MaxFaults = 2
  MaxHolds = 1
INVARIANTS HeldIsWhole
PROPERTIES HoldPreserves ExpiredIsDisposed
CHECK_DEADLOCK FALSE
