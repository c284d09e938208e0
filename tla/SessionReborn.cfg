SPECIFICATION Spec
CONSTANTS
  Clients = {c1}
  Requests = {r1, r2}
  AccessTTL = 1
  RefreshTTL = 2
  MaxVersion = 3
  MaxTime = 2
  MaxLives = 1
  MaxIds = 2
  Masked = Masked
  Nil = Nil
INVARIANTS CurrentCopyIsTheSession
PROPERTIES SpentTokensStaySpent
