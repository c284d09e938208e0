SPECIFICATION Spec
CONSTANTS
  Requests = {r1, r2}
  Emails = {e1, e2}
  Passwords = {p1}
  RoleIds = {i1}
  MaxUsers = 2
  MaxVersion = 2
  MaxCopies = 2
  Fields = {"email"}
  Operations = {"get", "create", "update", "password", "delete"}
  Nil = Nil
SYMMETRY Interchangeable
INVARIANTS TypeOK NoDanglingGrant
PROPERTIES ImplementsVersionedUsers DoubledGrantIsPermanent
