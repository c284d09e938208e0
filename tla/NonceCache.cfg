SPECIFICATION Spec
CONSTANTS
  Requests = {r1, r2}
  Nonces = {n1, n2}
  Window = 1
  Capacity = 2
  MaxTime = 2
  Nil = Nil
SYMMETRY Interchangeable
INVARIANTS TypeOK
PROPERTIES ReplayNeedsEviction
