SPECIFICATION Spec
CONSTANTS
  Requests = {r1, r2}
  c1 = c1
  c2 = c2
  C1 = C1
  C2 = C2
  v1 = v1
  v2 = v2
  any = any
  Texts <- AllTexts
  Codes = {c1, c2, C1, C2}
  Values = {v1, v2}
  Lower <- LowerCase
  Like <- Matches
  Kind <- ColumnKind
  Empty = any
  Null = Null
  FilterLists <- Lists
  MaxIds = 3
  Limit = 1
  Nil = Nil
SYMMETRY Interchangeable
INVARIANTS UniqueCodes
PROPERTIES EditsMerge DeletedStaysDeleted PageFitsTotal FoundAsAsked ImplementsAtomicTable
