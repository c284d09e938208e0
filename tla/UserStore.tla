----------------------------- MODULE UserStore -----------------------------
(***************************************************************************)
(* The user store (model/gen__user_store_*.go) on PostgreSQL at READ       *)
(* COMMITTED: the tables app_user, app_user_role and app_role, and the     *)
(* requests that run against them, one SQL statement at a time; an UPDATE  *)
(* that may wait for an index while it holds its row is two steps.         *)
(*                                                                         *)
(* A statement's effects stay in the transaction's private copy tx[r]      *)
(* until COMMIT.  Locks are not a variable of their own: a request holds   *)
(* the lock on a user row from its UPDATE, INSERT or DELETE to the end of  *)
(* its transaction, and a key-share lock on each role it has granted.  A   *)
(* statement that fails aborts its transaction, which releases its locks.  *)
(*                                                                         *)
(* Columns that are only copied (name, token, secret, the timestamps, the  *)
(* creator and updater) are left out: writing one of them shows as the     *)
(* version it consumes.  The foreign keys created_by and updated_by show   *)
(* as statements that may be refused.                                      *)
(***************************************************************************)
EXTENDS Integers

CONSTANTS Requests,     \* concurrent HTTP requests (goroutines)
          Emails,       \* e-mail addresses, already in lower case
          Passwords,    \* password hashes
          RoleIds,
          MaxUsers,     \* bound: ids drawn from the sequence of app_user
          MaxVersion,   \* the version column is an INTEGER: no value beyond it
          MaxCopies,    \* bound: how often a request body names one role
          Fields,       \* bound: the fields a request body may name
          Operations,   \* bound: the calls the clients make
          Nil

UserIds == 1..MaxUsers
Row == [email : Emails, version : 1..MaxVersion, password : Passwords]
Grants == [RoleIds -> 0..MaxCopies]     \* rows of app_user_role of one user
NoGrants == [i \in RoleIds |-> 0]
Granted(g) == {i \in RoleIds : g[i] > 0}

(* A *User as it was read; cut, as history, when its roles came incomplete. *)
Copy == [id : UserIds, row : Row, roles : Grants, cut : BOOLEAN]
Request == [op : {"create", "update", "password", "delete"}, id : UserIds,
            version : 1..MaxVersion, email : Emails \cup {Nil},
            password : Passwords \cup {Nil}, fields : SUBSET Fields, roles : Grants]
Account == [email : Emails, version : 1..MaxVersion, password : Passwords, roles : Grants]
Work == [row : Row \cup {Nil}, cur : Grants, roles : Grants]

ASSUME BoundsAssumption ==
  /\ MaxUsers \in Nat \ {0}
  /\ MaxVersion \in Nat \ {0}
  /\ MaxCopies \in Nat \ {0}
  /\ Fields \subseteq {"email", "roles"}
  /\ Operations \subseteq {"get", "create", "update", "password", "delete"}
ASSUME NilAssumption ==
  Nil \notin Row /\ Nil \notin Copy /\ Nil \notin Request /\ Nil \notin Work /\ Nil \notin Account

VARIABLES
  users,     \* app_user, committed: id -> row or Nil
  members,   \* app_user_role, committed: id -> how many rows per role
  roleRows,  \* app_role, committed
  nextId,    \* the sequence behind app_user.id: an id is never drawn twice
  dropping,  \* roles whose DELETE has run and is not committed
  at,        \* where each request is
  copy,      \* the *User a request got from Get or GetByEmail
  req,       \* the arguments of the store call in progress
  tx         \* what that call's transaction has written and not committed

tables == <<users, members, roleRows>>
vars == <<users, members, roleRows, nextId, dropping, at, copy, req, tx>>

Places == {"idle", "reading", "holding", "begun", "locked", "wrote", "syncing", "leaked"}

TypeOK ==
  /\ users \in [UserIds -> Row \cup {Nil}]
  /\ members \in [UserIds -> Grants]
  /\ roleRows \in SUBSET RoleIds
  /\ nextId \in 1..(MaxUsers + 1)
  /\ dropping \in SUBSET RoleIds
  /\ at \in [Requests -> Places]
  /\ copy \in [Requests -> Copy \cup {Nil}]
  /\ req \in [Requests -> Request \cup {Nil}]
  /\ tx \in [Requests -> Work \cup {Nil}]

Init ==
  /\ users = [u \in UserIds |-> Nil]
  /\ members = [u \in UserIds |-> NoGrants]
  /\ roleRows = RoleIds
  /\ nextId = 1
  /\ dropping = {}
  /\ at = [r \in Requests |-> "idle"]
  /\ copy = [r \in Requests |-> Nil]
  /\ req = [r \in Requests |-> Nil]
  /\ tx = [r \in Requests |-> Nil]

-----------------------------------------------------------------------------
(* Locks, uncommitted rows and foreign keys. *)

Writing(r) == at[r] \in {"wrote", "syncing"}

NeverHolds(r, u) == FALSE
HoldsUser(r, u) == (Writing(r) \/ at[r] = "locked") /\ req[r].id = u

(* The foreign-key check of an INSERT into app_user_role keeps the role. *)
NeverHoldsRole(r, i) == FALSE
HoldsRole(r, i) == Writing(r) /\ tx[r].roles[i] > tx[r].cur[i]

(* A membership row whose DELETE is not committed: a check that would count *)
(* it waits for the outcome.                                                *)
Revoking(r, i) == Writing(r) /\ tx[r].roles[i] < tx[r].cur[i]

Unlocked(r, u) == \A q \in Requests \ {r} : ~ HoldsUser(q, u)

(* The unique index on email: a row that an open transaction added or may   *)
(* be taking away makes the statement wait.  An UPDATE that waits itself    *)
(* holds its old row, and has not entered its new e-mail yet.               *)
MayFree(r, e) == \E u \in UserIds : HoldsUser(r, u) /\ users[u] # Nil /\ users[u].email = e
Entered(r, e) == Writing(r) /\ tx[r].row # Nil /\ tx[r].row.email = e
EmailSettled(r, e) == \A q \in Requests \ {r} : ~ MayFree(q, e) /\ ~ Entered(q, e)
EmailTaken(u, e) == \E v \in UserIds \ {u} : users[v] # Nil /\ users[v].email = e

-----------------------------------------------------------------------------
(* Reading: Get and GetByEmail are two queries outside any transaction. *)

GetRow(r, u) ==
  /\ at[r] = "idle" /\ "get" \in Operations
  /\ users[u] # Nil
  /\ copy' = [copy EXCEPT ![r] = [id |-> u, row |-> users[u], roles |-> NoGrants,
                                  cut |-> FALSE]]
  /\ at' = [at EXCEPT ![r] = "reading"]
  /\ UNCHANGED <<tables, nextId, dropping, req, tx>>

GetRoles(r) ==
  /\ at[r] = "reading"
  /\ copy' = [copy EXCEPT ![r] = [id |-> @.id, row |-> @.row, roles |-> members[@.id],
                                  cut |-> FALSE]]
  /\ at' = [at EXCEPT ![r] = "holding"]
  /\ UNCHANGED <<tables, nextId, dropping, req, tx>>

(* The result set breaks off: rows.Next ends the loop as it does after the  *)
(* last row, and getObj_User_Roles returns what it has without an error.    *)
CutRoles(r) ==
  /\ at[r] = "reading"
  /\ \E g \in Grants \ {members[copy[r].id]} :
       /\ \A i \in RoleIds : g[i] <= members[copy[r].id][i]
       /\ copy' = [copy EXCEPT ![r] = [id |-> @.id, row |-> @.row, roles |-> g, cut |-> TRUE]]
  /\ at' = [at EXCEPT ![r] = "holding"]
  /\ UNCHANGED <<tables, nextId, dropping, req, tx>>

-----------------------------------------------------------------------------
(* The calls begin.  Every call opens a transaction of its own. *)

Begin(r, call) ==
  /\ call.op \in Operations
  /\ req' = [req EXCEPT ![r] = call]
  /\ at' = [at EXCEPT ![r] = "begun"]
  /\ UNCHANGED <<tables, dropping, copy, tx>>

(* PUT /user.  Drawing the id is part of the INSERT in the code; drawn here *)
(* it is just as unique and, as there, lost when the INSERT fails.          *)
BeginCreate(r) ==
  /\ at[r] = "idle"
  /\ nextId \in UserIds
  /\ nextId' = nextId + 1
  /\ \E e \in Emails, pw \in Passwords, g \in Grants :
       Begin(r, [op |-> "create", id |-> nextId, version |-> 1, email |-> e,
                 password |-> pw, fields |-> {}, roles |-> g])

(* An Update call: the e-mail counts only when the fields name it. *)
BeginUpdate(r, u, v) ==
  \E F \in SUBSET Fields, g \in Grants :
    \E e \in IF "email" \in F THEN Emails ELSE {Nil} :
      Begin(r, [op |-> "update", id |-> u, version |-> v, email |-> e,
                password |-> Nil, fields |-> F, roles |-> g])

(* PATCH /user/{id}: version, fields and roles are the client's. *)
BeginPatch(r, u) ==
  /\ at[r] = "idle"
  /\ \E v \in 1..MaxVersion : BeginUpdate(r, u, v)
  /\ UNCHANGED nextId

(* Read, modify, write: login, refresh and logout write back the user they *)
(* read; a client edits the one it got from GET.                           *)
BeginWriteBack(r) ==
  /\ at[r] = "holding"
  /\ BeginUpdate(r, copy[r].id, copy[r].row.version)
  /\ UNCHANGED nextId

BeginPassword(r, u) ==
  /\ at[r] = "idle"
  /\ \E v \in 1..MaxVersion, pw \in Passwords :
       Begin(r, [op |-> "password", id |-> u, version |-> v, email |-> Nil,
                 password |-> pw, fields |-> {}, roles |-> NoGrants])
  /\ UNCHANGED nextId

BeginDelete(r, u) ==
  /\ at[r] = "idle"
  /\ Begin(r, [op |-> "delete", id |-> u, version |-> 1, email |-> Nil,
               password |-> Nil, fields |-> {}, roles |-> NoGrants])
  /\ UNCHANGED nextId

-----------------------------------------------------------------------------
(* The main statement of each call. *)

Pending(r, row, cur) ==
  /\ tx' = [tx EXCEPT ![r] = [row |-> row, cur |-> cur, roles |-> cur]]
  /\ UNCHANGED <<tables, nextId, dropping, copy, req>>

InsertUser(r) ==
  /\ at[r] = "begun" /\ req[r].op = "create"
  /\ EmailSettled(r, req[r].email)
  /\ ~ EmailTaken(req[r].id, req[r].email)
  /\ Pending(r, [email |-> req[r].email, version |-> 1, password |-> req[r].password],
             NoGrants)
  /\ at' = [at EXCEPT ![r] = "syncing"]

(* WHERE id = $ AND version = $ *)
AnyVersion(r) == users[req[r].id] # Nil
Current(r) == users[req[r].id] # Nil /\ users[req[r].id].version = req[r].version

KeptVersion(v) == v
NextVersion(v) == v + 1

(* Does the next version fit the INTEGER column? *)
AlwaysFits(r) == TRUE
Fits(r) == req[r].version < MaxVersion

UpdatedRow(r) ==
  LET old == users[req[r].id] IN
  [email |-> IF "email" \in req[r].fields THEN req[r].email ELSE old.email,
   version |-> NextVersion(req[r].version),
   password |-> old.password]

(* The UPDATE finds its row and locks it ... *)
LockRow(r) ==
  /\ at[r] = "begun" /\ req[r].op = "update"
  /\ Unlocked(r, req[r].id)
  /\ Current(r) /\ Fits(r)
  /\ at' = [at EXCEPT ![r] = "locked"]
  /\ UNCHANGED <<tables, nextId, dropping, copy, req, tx>>

(* ... and holds it while the new row's entry in the e-mail index waits for *)
(* the transactions that have that e-mail.                                  *)
UpdateRow(r) ==
  /\ at[r] = "locked"
  /\ EmailSettled(r, UpdatedRow(r).email)
  /\ ~ EmailTaken(req[r].id, UpdatedRow(r).email)
  /\ Pending(r, UpdatedRow(r), NoGrants)
  /\ at' = [at EXCEPT ![r] = "wrote"]

(* SELECT app_role FROM app_user_role, after the row lock is held. *)
SelectRoles(r) ==
  /\ at[r] = "wrote"
  /\ Pending(r, tx[r].row, members[req[r].id])
  /\ at' = [at EXCEPT ![r] = "syncing"]

WritePassword(r) ==
  /\ at[r] = "begun" /\ req[r].op = "password"
  /\ Unlocked(r, req[r].id)
  /\ Current(r)
  /\ Pending(r, [email |-> users[req[r].id].email, version |-> users[req[r].id].version,
                 password |-> req[r].password], members[req[r].id])
  /\ at' = [at EXCEPT ![r] = "syncing"]

(* app_user_role refers to the user: its rows keep it. *)
DeleteUser(r) ==
  /\ at[r] = "begun" /\ req[r].op = "delete"
  /\ Unlocked(r, req[r].id)
  /\ users[req[r].id] # Nil
  /\ members[req[r].id] = NoGrants
  /\ Pending(r, Nil, NoGrants)
  /\ at' = [at EXCEPT ![r] = "syncing"]

-----------------------------------------------------------------------------
(* The role rows of Create and Update, one statement per role. *)

Syncs(r) == req[r].op \in {"create", "update"}

ToRevoke(r) == {i \in RoleIds : Syncs(r) /\ tx[r].cur[i] > 0 /\ req[r].roles[i] = 0
                                /\ tx[r].roles[i] > 0}
ToGrantAgain(r) == {i \in RoleIds : Syncs(r) /\ tx[r].roles[i] < tx[r].cur[i] + req[r].roles[i]}
ToGrant(r) == {i \in RoleIds : Syncs(r) /\ tx[r].cur[i] = 0
                               /\ tx[r].roles[i] < req[r].roles[i]}

WithRoles(work, g) == [row |-> work.row, cur |-> work.cur, roles |-> g]

(* DELETE must affect exactly one row; a doubled row is ERR_DELETE_FAILED. *)
RevokeAny(r, i) == TRUE
RevokesOne(r, i) == tx[r].roles[i] = 1

RevokeRole(r, i) ==
  /\ at[r] = "syncing"
  /\ i \in ToRevoke(r)
  /\ RevokesOne(r, i)
  /\ tx' = [tx EXCEPT ![r] = WithRoles(@, [@.roles EXCEPT ![i] = 0])]
  /\ UNCHANGED <<tables, nextId, dropping, at, copy, req>>

GrantRole(r, i) ==
  /\ at[r] = "syncing"
  /\ ToRevoke(r) = {}
  /\ i \in ToGrant(r)
  /\ i \in roleRows \ dropping
  /\ tx' = [tx EXCEPT ![r] = WithRoles(@, [@.roles EXCEPT ![i] = tx[r].roles[i] + 1])]
  /\ UNCHANGED <<tables, nextId, dropping, at, copy, req>>

-----------------------------------------------------------------------------
(* How a transaction ends. *)

Finish(r) ==
  /\ at' = [at EXCEPT ![r] = "idle"]
  /\ copy' = [copy EXCEPT ![r] = Nil]
  /\ req' = [req EXCEPT ![r] = Nil]
  /\ tx' = [tx EXCEPT ![r] = Nil]
  /\ UNCHANGED <<roleRows, nextId, dropping>>

(* COMMIT publishes the row, and the membership rows added and removed. *)
Commit(r) ==
  /\ at[r] = "syncing"
  /\ ToRevoke(r) = {} /\ ToGrant(r) = {}
  /\ users' = [users EXCEPT ![req[r].id] = tx[r].row]
  /\ members' = [members EXCEPT ![req[r].id] =
                   [i \in RoleIds |-> @[i] + tx[r].roles[i] - tx[r].cur[i]]]
  /\ Finish(r)

(* A statement of the call failed and the deferred Rollback ends it: no row *)
(* with that id and version, a version that does not fit the column, an     *)
(* e-mail that exists, a doubled membership row, a role that does not exist.*)
Refused(r) ==
  \/ /\ at[r] = "begun" /\ req[r].op = "create"
     /\ EmailSettled(r, req[r].email) /\ EmailTaken(req[r].id, req[r].email)
  \/ /\ at[r] = "begun" /\ req[r].op \in {"update", "password"}
     /\ Unlocked(r, req[r].id) /\ ~ Current(r)
  \/ /\ at[r] = "begun" /\ req[r].op = "update"
     /\ Unlocked(r, req[r].id) /\ Current(r) /\ ~ Fits(r)
  \/ /\ at[r] = "locked"
     /\ EmailSettled(r, UpdatedRow(r).email) /\ EmailTaken(req[r].id, UpdatedRow(r).email)
  \/ /\ at[r] = "syncing"
     /\ \E i \in ToRevoke(r) : ~ RevokesOne(r, i)
  \/ /\ at[r] = "syncing" /\ ToRevoke(r) = {}
     /\ \E i \in ToGrant(r) : i \notin roleRows

Rollback(r) ==
  /\ Refused(r)
  /\ Finish(r)
  /\ UNCHANGED <<users, members>>

(* The request is gone at any point before COMMIT: its context is cancelled, *)
(* the connection fails, the process dies, PostgreSQL picks it as a deadlock *)
(* victim or refuses created_by or updated_by.  PostgreSQL rolls back.  A    *)
(* request that only read ends here too.                                     *)
Abort(r) ==
  /\ at[r] \in {"reading", "holding", "begun", "locked", "wrote", "syncing"}
  /\ Finish(r)
  /\ UNCHANGED <<users, members>>

(* Delete has no deferred Rollback: when its statement affects no row, or   *)
(* fails because app_user_role, created_by or updated_by refers to the user *)
(* (the last two are not modelled, so it may always fail), the caller gets  *)
(* its answer and the transaction stays open.  It keeps a connection and no *)
(* lock: a DELETE without a row locks none, and a failed one has aborted    *)
(* the transaction, which frees its locks before the answer is sent.        *)
LeakDelete(r) ==
  /\ at[r] = "begun" /\ req[r].op = "delete"
  /\ Unlocked(r, req[r].id)
  /\ at' = [at EXCEPT ![r] = "leaked"]
  /\ UNCHANGED <<tables, nextId, dropping, copy, req, tx>>

NeverReleased(r) == FALSE /\ UNCHANGED vars

(* net/http cancels the request's context after the answer, and            *)
(* database/sql rolls the transaction back.                                *)
ReleaseLeaked(r) ==
  /\ at[r] = "leaked"
  /\ Finish(r)
  /\ UNCHANGED <<users, members>>

-----------------------------------------------------------------------------
(* DELETE /role/{id}: RoleStoreImpl.Delete.  The statement locks the row    *)
(* once no transaction keeps it, and checks with the row locked that no     *)
(* membership refers to it, waiting for those that are being taken away.    *)

DropRole(i) ==
  /\ i \in roleRows \ dropping
  /\ \A r \in Requests : ~ HoldsRole(r, i)
  /\ dropping' = dropping \cup {i}
  /\ UNCHANGED <<tables, nextId, at, copy, req, tx>>

NoneRevoking(i) == \A r \in Requests : ~ Revoking(r, i)

DropCommit(i) ==
  /\ i \in dropping
  /\ NoneRevoking(i) /\ \A u \in UserIds : members[u][i] = 0
  /\ dropping' = dropping \ {i}
  /\ roleRows' = roleRows \ {i}
  /\ UNCHANGED <<users, members, nextId, at, copy, req, tx>>

(* The foreign-key check fails, or the request is gone. *)
DropRollback(i) ==
  /\ i \in dropping
  /\ dropping' = dropping \ {i}
  /\ UNCHANGED <<tables, nextId, at, copy, req, tx>>

-----------------------------------------------------------------------------

Begins(r) ==
  \/ BeginCreate(r)
  \/ BeginWriteBack(r)
  \/ \E u \in UserIds : GetRow(r, u) \/ BeginPatch(r, u) \/ BeginPassword(r, u)
                        \/ BeginDelete(r, u)

(* The statements a request in progress goes on with by itself. *)
Proceeds(r) ==
  \/ GetRoles(r)
  \/ InsertUser(r) \/ LockRow(r) \/ UpdateRow(r) \/ WritePassword(r) \/ DeleteUser(r) \/ LeakDelete(r)
  \/ SelectRoles(r)
  \/ \E i \in RoleIds : RevokeRole(r, i) \/ GrantRole(r, i)
  \/ Commit(r) \/ Rollback(r) \/ ReleaseLeaked(r)

RoleSteps == \E i \in RoleIds : DropRole(i) \/ DropCommit(i) \/ DropRollback(i)

Next == RoleSteps \/ \E r \in Requests : Begins(r) \/ Proceeds(r) \/ CutRoles(r) \/ Abort(r)

Spec == Init /\ [][Next]_vars

-----------------------------------------------------------------------------
(* Who waits for whom. *)

WaitsFor(r, q) ==
  \/ at[r] = "begun" /\ req[r].op # "create" /\ HoldsUser(q, req[r].id)
  \/ at[r] = "begun" /\ req[r].op = "create"
       /\ (MayFree(q, req[r].email) \/ Entered(q, req[r].email))
  \/ at[r] = "locked"
       /\ (MayFree(q, UpdatedRow(r).email) \/ Entered(q, UpdatedRow(r).email))

(* Every role still to be granted is being deleted, and its DELETE waits for *)
(* a request of S that is taking the role from a user.                       *)
WaitsForRoles(r, S) ==
  /\ at[r] = "syncing" /\ ToRevoke(r) = {} /\ ToGrant(r) # {}
  /\ \A i \in ToGrant(r) : i \in dropping /\ \E q \in S : Revoking(q, i)

Deadlocked(S) ==
  /\ S # {}
  /\ \A r \in S : (\E q \in S \ {r} : WaitsFor(r, q)) \/ WaitsForRoles(r, S)

(* PostgreSQL's deadlock detector fails a statement of one of them. *)
BreakDeadlock == \E S \in SUBSET Requests : Deadlocked(S) /\ \E r \in S : Abort(r)

(* Fairness.  The server goes on with every request it has begun, and with a *)
(* role's DELETE that waits for nobody.  It is strong because a blocked      *)
(* statement queues for its lock: PostgreSQL hands a row lock to its waiters *)
(* in turn, so a request whose next statement can run again and again does   *)
(* run.  A deadlock lasts until the detector breaks it.                      *)
FairSpec ==
  /\ Spec
  /\ \A r \in Requests : SF_vars(Proceeds(r))
  /\ \A i \in RoleIds : SF_vars(NoneRevoking(i) /\ (DropCommit(i) \/ DropRollback(i)))
  /\ WF_vars(BreakDeadlock)

-----------------------------------------------------------------------------
(* Properties. *)

(* No membership row outlives what it refers to: whatever the interleaving   *)
(* of Create, Update and Delete of users with Delete of roles, a user with a *)
(* role exists, and so does the role (foreign keys of app_user_role).        *)
NoDanglingGrant ==
  \A u \in UserIds, i \in RoleIds :
    members[u][i] > 0 => users[u] # Nil /\ i \in roleRows

(* A transaction that has locked or written a user row, or read its roles,   *)
(* works on what is still committed: nobody else commits a change to that    *)
(* user between its UPDATE (or INSERT) and its COMMIT, also while the UPDATE *)
(* waits for the e-mail index.                                               *)
WriterSeesCommitted ==
  \A r \in Requests :
    /\ at[r] = "locked" => Current(r)
    /\ Writing(r) /\ req[r].op \in {"update", "password"} => Current(r)
    /\ Writing(r) /\ req[r].op = "create" => users[req[r].id] = Nil
    /\ at[r] = "syncing" => tx[r].cur = members[req[r].id]

(* The two queries of Get may straddle a commit and return a row and roles   *)
(* that never were in the database together; but then the version in hand    *)
(* is no longer the current one.  A copy with the current version is whole,  *)
(* unless the roles broke off.                                               *)
CurrentCopyIsWhole ==
  \A r \in Requests :
    copy[r] # Nil /\ ~ copy[r].cut /\ at[r] # "reading" /\ users[copy[r].id] # Nil
      /\ users[copy[r].id].version = copy[r].row.version
    => /\ users[copy[r].id].email = copy[r].row.email
       /\ members[copy[r].id] = copy[r].roles

(* Read-modify-write loses no update: an update that started from a copy     *)
(* (login, refresh and logout in handler/auth.go, or a client's GET and      *)
(* PATCH) commits only over exactly the e-mail and the roles it had read,    *)
(* although the roles are in another table and were read by another query.   *)
(* When that query broke off, the roles it left out are overwritten unread.  *)
OverwritesOnlyWhatWasRead ==
  [][\A r \in Requests :
       Commit(r) /\ copy[r] # Nil =>
         /\ users[req[r].id] # Nil
         /\ users[req[r].id].version = copy[r].row.version
         /\ users[req[r].id].email = copy[r].row.email
         /\ ~ copy[r].cut => members[req[r].id] = copy[r].roles]_vars

(* Update computes what to delete and insert from a SELECT, so two of them   *)
(* on one user could double a row or undo each other.  After each commit the *)
(* user has the roles of that call and no others, and no row was added for a *)
(* role the user already had.                                                *)
RolesAreThoseOfTheCall ==
  [][\A r \in Requests :
       Commit(r) /\ Syncs(r) =>
         members'[req[r].id] = [i \in RoleIds |->
           IF req[r].roles[i] = 0 THEN 0
           ELSE IF members[req[r].id][i] > 0 THEN members[req[r].id][i]
           ELSE req[r].roles[i]]]_vars

(* app_user_role has no key, so a body that names a role twice stores it     *)
(* twice; from then on no sequence of calls can revoke that role, nor delete *)
(* the user, because each DELETE must affect exactly one row.                *)
DoubledGrantIsPermanent ==
  [][\A u \in UserIds, i \in RoleIds :
       members[u][i] > 1 => members'[u][i] = members[u][i]]_vars

(* Two queries, several statements and a COMMIT are steps of their own, and  *)
(* still every call does what its arguments say to the account as it is at   *)
(* COMMIT, as if it ran alone, or fails and does nothing; an id that is gone *)
(* never comes back: UserStore implements VersionedUsers.                    *)
AccountOf(u) ==
  IF users[u] = Nil THEN Nil
  ELSE [email |-> users[u].email, version |-> users[u].version,
        password |-> users[u].password, roles |-> members[u]]

Accounts == [u \in UserIds |-> AccountOf(u)]

Abstract == INSTANCE VersionedUsers WITH
              store <- Accounts, drawn <- 1..(nextId - 1), call <- req

ImplementsVersionedUsers == Abstract!Spec

(* Every store call that has begun ends, also a Delete that left its         *)
(* transaction open, and whatever it waits for: another call's row, an       *)
(* e-mail another call has taken or may give up, or a role that is being     *)
(* deleted.  Two updates that exchange e-mails hold their rows and wait for  *)
(* each other, and only the detector ends that.                              *)
EveryCallEnds == \A r \in Requests : at[r] = "begun" ~> at[r] = "idle"

(* What model/01-user_test.go expects of the fields argument: an update that *)
(* does not name a field leaves that field as it is, although the object     *)
(* passed with it holds the zero value there (as the test's e-mail update    *)
(* leaves Name).                                                             *)
UnnamedRolesStay ==
  [][\A r \in Requests :
       Commit(r) /\ req[r].op = "update" /\ "roles" \notin req[r].fields
         /\ req[r].roles = NoGrants
       => members'[req[r].id] = members[req[r].id]]_vars
=============================================================================
