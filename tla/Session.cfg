SPECIFICATION Spec
CONSTANTS
  Clients = {c1, c2}
  Requests = {r1, r2}
  AccessTTL = 1
  RefreshTTL = 2
  MaxVersion = 4
  MaxTime = 1
  MaxLives = 2
  MaxIds = 1
  Masked = Masked
  Nil = Nil
SYMMETRY Interchangeable
INVARIANTS TypeOK NoClientAhead
PROPERTIES RefreshKeepsTheSession LogoutIsFinal ImplementsOneSession
