SPECIFICATION RequestSpec
CONSTANTS
  Roles = {r1, r2}
  Resources = {user}
  Actions = {"create", "read", "update", "delete"}
  Yes = Yes
  No = No
  Other = Other
  Absent = Absent
  Docs <- MergedDocs
  MaxBody = 1
  MaxLen = 2
  Nil = Nil
SYMMETRY Interchangeable
INVARIANTS
  RequestTypeOK GrantsAreUnion NothingFromNowhere
  ChangesAreSignedWhole ChangesAreGranted StatusTellsOutcome LoggedIsSent
CHECK_DEADLOCK FALSE
