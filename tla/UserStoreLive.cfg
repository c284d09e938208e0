SPECIFICATION FairSpec
CONSTANTS
  Requests = {r1, r2}
  Emails = {e1, e2}
  Passwords = {p1}
  RoleIds = {i1}
  MaxUsers = 2
  MaxVersion = 2
  MaxCopies = 1
  Fields = {"email"}
  Operations = {"create", "update", "delete"}
  Nil = Nil
PROPERTIES EveryCallEnds
