SPECIFICATION FairSpec
CONSTANTS
  a = a
  b = b
  N = 4
  Refs <- RefsOf
  Always = {1}
  Blank = {2}
  Procs = {p1, p2}
  Contents = {a, b}
  Disks <- LastFileChanges
  Flags <- DropAndReapply
  Nil = Nil
INVARIANTS TypeOK RecordedIsApplied SelectStillHolds
PROPERTIES CompletedMeansMigrated EveryRunEnds
