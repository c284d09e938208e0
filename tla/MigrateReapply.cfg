SPECIFICATION Spec
CONSTANTS
  a = a
  b = b
  N = 3
  Refs <- RefsOf
  Always = {}
  Blank = {}
  Procs = {p1}
  Contents = {a, b}
  Disks <- AnyFileChanges
  Flags <- EveryFlag
  Nil = Nil
PROPERTIES ChangedIsReapplied
