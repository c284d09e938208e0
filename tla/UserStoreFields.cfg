SPECIFICATION Spec
CONSTANTS
  Requests = {r1, r2}
  Emails = {e1}
  Passwords = {p1}
  RoleIds = {i1}
  MaxUsers = 1
  MaxVersion = 2
  MaxCopies = 2
  Fields = {"email", "roles"}
  Operations = {"get", "create", "update", "password", "delete"}
  Nil = Nil
PROPERTIES UnnamedRolesStay
