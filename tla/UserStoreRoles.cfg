SPECIFICATION Spec
CONSTANTS
  Requests = {r1, r2}
  Emails = {e1}
  Passwords = {p1}
  RoleIds = {i1, i2}
  MaxUsers = 1
  MaxVersion = 3
  MaxCopies = 2
  Fields = {}
  Operations = {"get", "create", "update", "password", "delete"}
  Nil = Nil
SYMMETRY Interchangeable
INVARIANTS WriterSeesCommitted CurrentCopyIsWhole
PROPERTIES OverwritesOnlyWhatWasRead RolesAreThoseOfTheCall
