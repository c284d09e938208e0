-------------------------- MODULE UserStore_proofs --------------------------
(***************************************************************************)
(* Proofs about UserStore for any number of requests, users, roles and     *)
(* versions: its safety invariants, its action properties, and that it     *)
(* implements VersionedUsers.  The inductive invariant is IInv.            *)
(***************************************************************************)
EXTENDS UserStore, TLAPS

(* What a request carries at each place. *)
WellFormed(c) ==
  /\ c.op = "create" => c.email \in Emails /\ c.password \in Passwords
  /\ c.op = "update" /\ "email" \in c.fields => c.email \in Emails
  /\ c.op = "password" => c.password \in Passwords

InCall == {"begun", "locked", "wrote", "syncing"}

(* The transaction holds the lock on the row of its call. *)
Owns(r) == Writing(r) \/ at[r] = "locked"

Shape ==
  \A r \in Requests :
    /\ at[r] \in {"reading", "holding"} => copy[r] \in Copy
    /\ at[r] \in InCall \cup {"leaked"} => req[r] \in Request /\ WellFormed(req[r])
    /\ Writing(r) => tx[r] \in Work
    /\ at[r] = "idle" => copy[r] = Nil
    /\ at[r] = "locked" => req[r].op = "update" /\ req[r].version < MaxVersion
    /\ at[r] = "wrote" => req[r].op = "update" /\ tx[r].cur = NoGrants /\ tx[r].roles = NoGrants
    /\ copy[r] # Nil /\ at[r] \in InCall =>
         /\ req[r].op = "update"
         /\ req[r].id = copy[r].id
         /\ req[r].version = copy[r].row.version

(* The row lock: at most one transaction has a user's row. *)
OneWriter ==
  \A q, r \in Requests : Owns(q) /\ Owns(r) /\ q # r => req[q].id # req[r].id

(* The pending row of a transaction against the committed one it replaces. *)
PendingRow ==
  \A r \in Requests : Writing(r) =>
    /\ req[r].op = "create" =>
         /\ tx[r].row \in Row
         /\ tx[r].row.version = 1
         /\ tx[r].cur = NoGrants
    /\ req[r].op = "update" =>
         /\ tx[r].row \in Row
         /\ tx[r].row.version = users[req[r].id].version + 1
         /\ tx[r].row.password = users[req[r].id].password
    /\ req[r].op = "password" =>
         /\ tx[r].row \in Row
         /\ tx[r].row.version = users[req[r].id].version
         /\ tx[r].row.email = users[req[r].id].email
    /\ req[r].op = "delete" =>
         /\ tx[r].row = Nil
         /\ users[req[r].id] # Nil
         /\ members[req[r].id] = NoGrants

(* How far the synchronisation of the roles has come. *)
SyncOnTrack ==
  \A r \in Requests : at[r] = "syncing" =>
    \A i \in RoleIds :
      IF ~ Syncs(r) THEN tx[r].roles[i] = tx[r].cur[i]
      ELSE IF tx[r].cur[i] = 0 THEN tx[r].roles[i] <= req[r].roles[i]
      ELSE IF req[r].roles[i] > 0 THEN tx[r].roles[i] = tx[r].cur[i]
      ELSE \/ tx[r].roles[i] = tx[r].cur[i]
           \/ tx[r].roles[i] = 0 /\ tx[r].cur[i] = 1

(* An id is drawn once, so no copy of a user is older than the user. *)
FreshIds ==
  /\ \A u \in UserIds : u >= nextId => users[u] = Nil
  /\ \A r \in Requests : copy[r] # Nil => copy[r].id < nextId
  /\ \A r \in Requests : at[r] \in InCall /\ req[r].op = "create" =>
       /\ req[r].id < nextId
       /\ users[req[r].id] = Nil
       /\ \A q \in Requests : copy[q] # Nil => copy[q].id # req[r].id
       /\ \A q \in Requests \ {r} :
            at[q] \in InCall /\ req[q].op = "create" => req[q].id # req[r].id

(* A copy is older than the user, or of its version and then whole. *)
Copies ==
  \A r \in Requests :
    copy[r] # Nil /\ users[copy[r].id] # Nil =>
      /\ copy[r].row.version <= users[copy[r].id].version
      /\ copy[r].row.version = users[copy[r].id].version =>
           /\ copy[r].row.email = users[copy[r].id].email
           /\ at[r] # "reading" /\ ~ copy[r].cut => copy[r].roles = members[copy[r].id]

(* A role that is going is not granted to anybody any more. *)
Dropping ==
  /\ dropping \subseteq roleRows
  /\ \A r \in Requests, i \in RoleIds :
       HoldsRole(r, i) => i \in roleRows \ dropping

(* The unique index, over committed and pending rows. *)
UniqueEmail ==
  /\ \A u, v \in UserIds : u # v /\ users[u] # Nil /\ users[v] # Nil
       => users[u].email # users[v].email
  /\ \A r \in Requests, v \in UserIds :
       Writing(r) /\ tx[r].row # Nil /\ v # req[r].id /\ users[v] # Nil
       => tx[r].row.email # users[v].email
  /\ \A q, r \in Requests :
       Writing(q) /\ Writing(r) /\ q # r /\ tx[q].row # Nil /\ tx[r].row # Nil
       => tx[q].row.email # tx[r].row.email

IInv ==
  /\ TypeOK
  /\ Shape
  /\ OneWriter
  /\ WriterSeesCommitted
  /\ PendingRow
  /\ SyncOnTrack
  /\ FreshIds
  /\ Copies
  /\ NoDanglingGrant
  /\ Dropping
  /\ UniqueEmail

-----------------------------------------------------------------------------
(* The kinds of steps: the actions that only start or end a request, and the *)
(* others one by one.                                                        *)

Starts(r, c) ==
  /\ at[r] \in {"idle", "holding"}
  /\ c \in Request /\ WellFormed(c)
  /\ IF c.op = "create"
       THEN at[r] = "idle" /\ nextId \in UserIds /\ c.id = nextId /\ nextId' = nextId + 1
       ELSE nextId' = nextId
  /\ at[r] = "holding" => /\ c.op = "update"
                          /\ c.id = copy[r].id
                          /\ c.version = copy[r].row.version
  /\ Begin(r, c)

(* The roles, all of them or what came before the result set broke off. *)
ReadsRoles(r) ==
  /\ at[r] = "reading"
  /\ \E g \in Grants, c \in BOOLEAN :
       /\ ~ c => g = members[copy[r].id]
       /\ copy' = [copy EXCEPT ![r] = [id |-> copy[r].id, row |-> copy[r].row, roles |-> g,
                                       cut |-> c]]
  /\ at' = [at EXCEPT ![r] = "holding"]
  /\ UNCHANGED <<tables, nextId, dropping, req, tx>>

Quits(r) == Finish(r) /\ UNCHANGED <<users, members>>

(* A DELETE or INSERT on app_user_role moves one role towards the request. *)
Syncing(r) ==
  /\ at[r] = "syncing" /\ Syncs(r)
  /\ \E g \in Grants :
       /\ \A i \in RoleIds :
            \/ g[i] = tx[r].roles[i]
            \/ /\ g[i] = 0 /\ tx[r].roles[i] = 1
               /\ tx[r].cur[i] > 0 /\ req[r].roles[i] = 0
            \/ /\ g[i] = tx[r].roles[i] + 1 /\ g[i] <= req[r].roles[i]
               /\ tx[r].cur[i] = 0 /\ i \in roleRows \ dropping
       /\ tx' = [tx EXCEPT ![r] = [row |-> tx[r].row, cur |-> tx[r].cur, roles |-> g]]
  /\ UNCHANGED <<tables, nextId, dropping, at, copy, req>>

(* What COMMIT publishes, as long as the transaction saw what is committed. *)
Publishes(r) ==
  /\ at[r] = "syncing"
  /\ ToRevoke(r) = {} /\ ToGrant(r) = {}
  /\ users' = [users EXCEPT ![req[r].id] = tx[r].row]
  /\ members' = [members EXCEPT ![req[r].id] = tx[r].roles]
  /\ Finish(r)

Step(r) ==
  \/ \E u \in UserIds : GetRow(r, u)
  \/ ReadsRoles(r)
  \/ \E c : Starts(r, c)
  \/ InsertUser(r)
  \/ LockRow(r)
  \/ UpdateRow(r)
  \/ WritePassword(r)
  \/ DeleteUser(r)
  \/ LeakDelete(r)
  \/ SelectRoles(r)
  \/ Syncing(r)
  \/ Publishes(r)
  \/ Quits(r)

(* A user without membership rows is among the ones modelled. *)
LEMMA NoGrantsType == NoGrants \in Grants
  BY BoundsAssumption DEF NoGrants, Grants

(* A statement on one membership row moves the pending roles towards the
   call's. *)
LEMMA RoleRowStep ==
  ASSUME TypeOK, Shape, NEW r \in Requests, NEW i \in RoleIds,
         RevokeRole(r, i) \/ GrantRole(r, i)
  PROVE  Syncing(r)
<1>1. req[r] \in Request /\ tx[r] \in Work /\ at[r] = "syncing"
  BY DEF Shape, RevokeRole, GrantRole, Writing, InCall
<1>2. tx[r].roles \in Grants /\ req[r].roles \in Grants
  BY <1>1 DEF Request, Work
<1>3. CASE RevokeRole(r, i)
  <2> DEFINE g == [tx[r].roles EXCEPT ![i] = 0]
  <2>1. g \in Grants
    BY <1>2, BoundsAssumption DEF Grants
  <2>2. tx' = [tx EXCEPT ![r] = [row |-> tx[r].row, cur |-> tx[r].cur, roles |-> g]]
    BY <1>1, <1>3 DEF RevokeRole, WithRoles, TypeOK
  <2>3. \A k \in RoleIds :
          \/ g[k] = tx[r].roles[k]
          \/ /\ g[k] = 0 /\ tx[r].roles[k] = 1
             /\ tx[r].cur[k] > 0 /\ req[r].roles[k] = 0
    BY <1>2, <1>3 DEF RevokeRole, RevokesOne, ToRevoke, Grants
  <2> QED
    BY <1>1, <1>3, <2>1, <2>2, <2>3 DEF Syncing, RevokeRole, ToRevoke
<1>4. CASE GrantRole(r, i)
  <2> DEFINE g == [tx[r].roles EXCEPT ![i] = tx[r].roles[i] + 1]
  <2>1. tx[r].roles[i] + 1 \in 0..MaxCopies /\ tx[r].roles[i] + 1 <= req[r].roles[i]
    BY <1>2, <1>4, BoundsAssumption DEF GrantRole, ToGrant, Grants
  <2>2. g \in Grants
    BY <1>2, <2>1 DEF Grants
  <2>3. tx' = [tx EXCEPT ![r] = [row |-> tx[r].row, cur |-> tx[r].cur, roles |-> g]]
    BY <1>1, <1>4 DEF GrantRole, WithRoles, TypeOK
  <2>4. \A k \in RoleIds :
          \/ g[k] = tx[r].roles[k]
          \/ /\ g[k] = tx[r].roles[k] + 1 /\ g[k] <= req[r].roles[k]
             /\ tx[r].cur[k] = 0 /\ k \in roleRows \ dropping
    BY <1>2, <1>4, <2>1 DEF GrantRole, ToGrant, Grants
  <2> QED
    BY <1>1, <1>4, <2>2, <2>3, <2>4 DEF Syncing, GrantRole, ToGrant
<1> QED BY <1>3, <1>4

(* What COMMIT writes is the pending row and the pending roles: nothing was
   committed for that user since they were read. *)
LEMMA CommitPublishes ==
  ASSUME TypeOK, Shape, WriterSeesCommitted, NEW r \in Requests, Commit(r)
  PROVE  Publishes(r)
<1>1. req[r] \in Request /\ tx[r] \in Work /\ tx[r].cur = members[req[r].id]
  BY DEF Commit, Shape, Writing, InCall, WriterSeesCommitted
<1>2. tx[r].roles \in Grants /\ members[req[r].id] \in Grants
  BY <1>1 DEF TypeOK, Request, Work
<1>3. tx[r].roles = [i \in RoleIds |->
                      members[req[r].id][i] + tx[r].roles[i] - tx[r].cur[i]]
  BY <1>1, <1>2, BoundsAssumption DEF Grants
<1>4. members' = [members EXCEPT ![req[r].id] = tx[r].roles]
  BY <1>3 DEF Commit
<1> QED BY <1>4 DEF Commit, Publishes

(* Every step is a role deletion's or one of the steps of Step(r), each given
   by its effect. *)
LEMMA StepKinds ==
  ASSUME TypeOK, Shape, WriterSeesCommitted, Next
  PROVE  RoleSteps \/ \E r \in Requests : Step(r)
<1>1. ASSUME NEW r \in Requests, BeginCreate(r)
      PROVE  \E c : Starts(r, c)
  <2>1. PICK e \in Emails, pw \in Passwords, g \in Grants :
          Begin(r, [op |-> "create", id |-> nextId, version |-> 1, email |-> e,
                    password |-> pw, fields |-> {}, roles |-> g])
    BY <1>1 DEF BeginCreate
  <2> DEFINE c == [op |-> "create", id |-> nextId, version |-> 1, email |-> e,
                   password |-> pw, fields |-> {}, roles |-> g]
  <2>2. c \in Request /\ WellFormed(c) /\ c.op = "create" /\ c.id = nextId
    BY <1>1, BoundsAssumption DEF Request, WellFormed, BeginCreate
  <2>3. Starts(r, c)
    BY <1>1, <2>1, <2>2 DEF Starts, BeginCreate
  <2> QED BY <2>3
<1>2. ASSUME NEW r \in Requests, NEW u \in UserIds, NEW v \in 1..MaxVersion,
             BeginUpdate(r, u, v)
      PROVE  \E c : c \in Request /\ WellFormed(c) /\ c.op = "update" /\ c.id = u
                    /\ c.version = v /\ Begin(r, c)
  <2>1. PICK F \in SUBSET Fields, g \in Grants, e \in Emails \cup {Nil} :
          /\ "email" \in F => e \in Emails
          /\ Begin(r, [op |-> "update", id |-> u, version |-> v, email |-> e,
                       password |-> Nil, fields |-> F, roles |-> g])
    BY <1>2 DEF BeginUpdate
  <2> DEFINE c == [op |-> "update", id |-> u, version |-> v, email |-> e,
                   password |-> Nil, fields |-> F, roles |-> g]
  <2>2. c \in Request /\ WellFormed(c) /\ c.op = "update" /\ c.id = u /\ c.version = v
    BY <2>1 DEF Request, WellFormed
  <2> QED BY <2>1, <2>2
<1>3. ASSUME NEW r \in Requests, NEW u \in UserIds, BeginPatch(r, u)
      PROVE  \E c : Starts(r, c)
  BY <1>2, <1>3 DEF BeginPatch, Starts
<1>4. ASSUME NEW r \in Requests, BeginWriteBack(r)
      PROVE  \E c : Starts(r, c)
  <2>1. copy[r].id \in UserIds /\ copy[r].row.version \in 1..MaxVersion
    BY <1>4 DEF BeginWriteBack, Shape, Copy, Row
  <2> QED BY <1>2, <1>4, <2>1 DEF BeginWriteBack, Starts
<1>5. ASSUME NEW r \in Requests, NEW u \in UserIds, BeginPassword(r, u)
      PROVE  \E c : Starts(r, c)
  <2>1. PICK v \in 1..MaxVersion, pw \in Passwords :
          Begin(r, [op |-> "password", id |-> u, version |-> v, email |-> Nil,
                    password |-> pw, fields |-> {}, roles |-> NoGrants])
    BY <1>5 DEF BeginPassword
  <2> DEFINE c == [op |-> "password", id |-> u, version |-> v, email |-> Nil,
                   password |-> pw, fields |-> {}, roles |-> NoGrants]
  <2>2. c \in Request /\ WellFormed(c) /\ c.op = "password"
    BY NoGrantsType DEF Request, WellFormed
  <2>3. Starts(r, c)
    BY <1>5, <2>1, <2>2 DEF Starts, BeginPassword
  <2> QED BY <2>3
<1>6. ASSUME NEW r \in Requests, NEW u \in UserIds, BeginDelete(r, u)
      PROVE  \E c : Starts(r, c)
  <2> DEFINE c == [op |-> "delete", id |-> u, version |-> 1, email |-> Nil,
                   password |-> Nil, fields |-> {}, roles |-> NoGrants]
  <2>1. c \in Request /\ WellFormed(c) /\ c.op = "delete"
    BY NoGrantsType, BoundsAssumption DEF Request, WellFormed
  <2>2. Starts(r, c)
    BY <1>6, <2>1 DEF Starts, BeginDelete
  <2> QED BY <2>2
<1>7. ASSUME NEW r \in Requests, Rollback(r) \/ Abort(r) \/ ReleaseLeaked(r)
      PROVE  Quits(r)
  BY <1>7 DEF Rollback, Abort, ReleaseLeaked, Quits
<1>8. ASSUME NEW r \in Requests, GetRoles(r) \/ CutRoles(r)
      PROVE  ReadsRoles(r)
  <2>1. at[r] = "reading" /\ members[copy[r].id] \in Grants
    BY <1>8 DEF GetRoles, CutRoles, Shape, Copy, TypeOK
  <2> QED BY <1>8, <2>1 DEF GetRoles, CutRoles, ReadsRoles, TypeOK
<1> QED
  BY <1>1, <1>3, <1>4, <1>5, <1>6, <1>7, <1>8, RoleRowStep, CommitPublishes
  DEF Next, Begins, Proceeds, Step

(* The types survive every step of a request. *)
LEMMA TypeStep ==
  ASSUME TypeOK, Shape, WriterSeesCommitted, NEW r \in Requests, Step(r)
  PROVE  TypeOK'
<1>1. ASSUME NEW u \in UserIds, GetRow(r, u) PROVE TypeOK'
  BY NoGrantsType, <1>1 DEF GetRow, tables, TypeOK, Places, UserIds, Copy
<1>2. ASSUME ReadsRoles(r) PROVE TypeOK'
  BY <1>2 DEF ReadsRoles, tables, TypeOK, Places, UserIds, Shape, Copy
<1>3. ASSUME NEW c, Starts(r, c) PROVE TypeOK'
  BY BoundsAssumption, <1>3 DEF Starts, Begin, tables, TypeOK, Places, UserIds
<1>4. ASSUME InsertUser(r) PROVE TypeOK'
  BY NoGrantsType, BoundsAssumption, <1>4
  DEF InsertUser, Pending, tables, TypeOK, Places, UserIds, Shape, InCall,
      WellFormed, Request, Row, Work
<1>5. ASSUME UpdateRow(r) PROVE TypeOK'
  BY NoGrantsType, BoundsAssumption, <1>5
  DEF UpdateRow, WriterSeesCommitted, UpdatedRow, NextVersion, Fits, Current, Pending, tables,
      TypeOK, Places, UserIds, Shape, InCall, WellFormed, Request, Row, Work
<1>6. ASSUME WritePassword(r) PROVE TypeOK'
  BY NoGrantsType, BoundsAssumption, <1>6
  DEF WritePassword, Current, Pending, tables, TypeOK, Places, UserIds, Shape,
      InCall, WellFormed, Request, Row, Work
<1>7. ASSUME DeleteUser(r) PROVE TypeOK'
  BY NoGrantsType, BoundsAssumption, <1>7
  DEF DeleteUser, Pending, tables, TypeOK, Places, UserIds, Work
<1>8. ASSUME LeakDelete(r) PROVE TypeOK'
  BY <1>8 DEF LeakDelete, tables, TypeOK, Places, UserIds
<1>9. ASSUME SelectRoles(r) PROVE TypeOK'
  BY <1>9
  DEF SelectRoles, Pending, tables, TypeOK, Places, UserIds, Shape, InCall,
      Writing, Request, Work
<1>10. ASSUME Syncing(r) PROVE TypeOK'
  BY <1>10
  DEF Syncing, Syncs, tables, TypeOK, Places, UserIds, Shape, Writing, Work
<1>11. ASSUME Publishes(r) PROVE TypeOK'
  BY <1>11
  DEF Publishes, Finish, TypeOK, Places, UserIds, Shape, InCall, Writing,
      Request, Work
<1>12. ASSUME Quits(r) PROVE TypeOK'
  BY <1>12 DEF Quits, Finish, TypeOK, Places, UserIds
<1>13. ASSUME LockRow(r) PROVE TypeOK'
  BY <1>13 DEF LockRow, tables, TypeOK, Places, UserIds
<1> QED
  BY <1>1, <1>2, <1>3, <1>4, <1>5, <1>6, <1>7, <1>8, <1>9, <1>10, <1>11, <1>12, <1>13
  DEF Step

(* What a request carries fits the place it is at. *)
LEMMA ShapeStep ==
  ASSUME TypeOK, Shape, WriterSeesCommitted, NEW r \in Requests, Step(r)
  PROVE  Shape'
<1>1. ASSUME NEW u \in UserIds, GetRow(r, u) PROVE Shape'
  BY NoGrantsType, <1>1
  DEF GetRow, tables, TypeOK, Shape, Writing, InCall, Copy
<1>2. ASSUME ReadsRoles(r) PROVE Shape'
  BY <1>2 DEF ReadsRoles, tables, TypeOK, Shape, Writing, InCall, Copy
<1>3. ASSUME NEW c, Starts(r, c) PROVE Shape'
  BY <1>3 DEF Starts, Begin, tables, TypeOK, Shape, Writing, InCall
<1>4. ASSUME InsertUser(r) PROVE Shape'
  BY NoGrantsType, BoundsAssumption, <1>4
  DEF InsertUser, Pending, tables, TypeOK, Shape, Writing, InCall, WellFormed,
      Request, Row, Work
<1>5. ASSUME UpdateRow(r) PROVE Shape'
  BY NoGrantsType, BoundsAssumption, <1>5
  DEF UpdateRow, WriterSeesCommitted, UpdatedRow, NextVersion, Fits, Current, Pending, tables,
      TypeOK, Shape, Writing, InCall, WellFormed, Request, Row, Work, UserIds
<1>6. ASSUME WritePassword(r) PROVE Shape'
  BY NoGrantsType, BoundsAssumption, <1>6
  DEF WritePassword, Current, Pending, tables, TypeOK, Shape, Writing, InCall,
      WellFormed, Request, Row, Work, UserIds
<1>7. ASSUME DeleteUser(r) PROVE Shape'
  BY NoGrantsType, BoundsAssumption, <1>7
  DEF DeleteUser, Pending, tables, TypeOK, Shape, Writing, InCall, Work
<1>8. ASSUME LeakDelete(r) PROVE Shape'
  BY <1>8 DEF LeakDelete, tables, TypeOK, Shape, Writing, InCall
<1>9. ASSUME SelectRoles(r) PROVE Shape'
  BY <1>9
  DEF SelectRoles, Pending, tables, TypeOK, Shape, Writing, InCall, Request,
      Work, UserIds
<1>10. ASSUME Syncing(r) PROVE Shape'
  BY <1>10 DEF Syncing, Syncs, tables, TypeOK, Shape, Writing, InCall, Work
<1>11. ASSUME Publishes(r) PROVE Shape'
  BY <1>11 DEF Publishes, Finish, TypeOK, Shape, Writing, InCall, UserIds
<1>12. ASSUME Quits(r) PROVE Shape'
  BY <1>12 DEF Quits, Finish, TypeOK, Shape, Writing, InCall
<1>13. ASSUME LockRow(r) PROVE Shape'
  BY <1>13 DEF LockRow, Fits, tables, TypeOK, Shape, Writing, InCall
<1> QED
  BY <1>1, <1>2, <1>3, <1>4, <1>5, <1>6, <1>7, <1>8, <1>9, <1>10, <1>11, <1>12, <1>13
  DEF Step

(* The row lock is exclusive: one transaction writes a user. *)
LEMMA WriterLockStep ==
  ASSUME TypeOK, Shape, OneWriter, WriterSeesCommitted, PendingRow, FreshIds,
      NEW r \in Requests, Step(r)
  PROVE  OneWriter'
<1>1. ASSUME NEW u \in UserIds, GetRow(r, u) PROVE OneWriter'
  BY <1>1 DEF GetRow, tables, OneWriter, Owns, Writing, TypeOK
<1>2. ASSUME ReadsRoles(r) PROVE OneWriter'
  BY <1>2 DEF ReadsRoles, tables, OneWriter, Owns, Writing, TypeOK
<1>3. ASSUME NEW c, Starts(r, c) PROVE OneWriter'
  BY <1>3 DEF Starts, Begin, tables, OneWriter, Owns, Writing, TypeOK
<1>4. ASSUME InsertUser(r) PROVE OneWriter'
  BY <1>4
  DEF InsertUser, Pending, tables, OneWriter, Owns, Writing, TypeOK, Shape, InCall,
      FreshIds, WriterSeesCommitted, PendingRow, Current, Request
<1>5. ASSUME UpdateRow(r) PROVE OneWriter'
  BY <1>5
  DEF UpdateRow, WriterSeesCommitted, UpdatedRow, NextVersion, Fits, Current, Pending, tables,
      OneWriter, Owns, Writing, TypeOK, Unlocked, HoldsUser
<1>6. ASSUME WritePassword(r) PROVE OneWriter'
  BY <1>6
  DEF WritePassword, Current, Pending, tables, OneWriter, Owns, Writing, TypeOK,
      Unlocked, HoldsUser
<1>7. ASSUME DeleteUser(r) PROVE OneWriter'
  BY <1>7
  DEF DeleteUser, Pending, tables, OneWriter, Owns, Writing, TypeOK, Unlocked,
      HoldsUser
<1>8. ASSUME LeakDelete(r) PROVE OneWriter'
  BY <1>8 DEF LeakDelete, tables, OneWriter, Owns, Writing, TypeOK
<1>9. ASSUME SelectRoles(r) PROVE OneWriter'
  BY <1>9 DEF SelectRoles, Pending, tables, OneWriter, Owns, Writing, TypeOK
<1>10. ASSUME Syncing(r) PROVE OneWriter'
  BY <1>10 DEF Syncing, Syncs, tables, OneWriter, Owns, Writing, TypeOK
<1>11. ASSUME Publishes(r) PROVE OneWriter'
  BY <1>11 DEF Publishes, Finish, OneWriter, Owns, Writing, TypeOK
<1>12. ASSUME Quits(r) PROVE OneWriter'
  BY <1>12 DEF Quits, Finish, OneWriter, Owns, Writing, TypeOK
<1>13. ASSUME LockRow(r) PROVE OneWriter'
  BY <1>13 DEF LockRow, tables, OneWriter, Owns, Writing, TypeOK, Unlocked, HoldsUser
<1> QED
  BY <1>1, <1>2, <1>3, <1>4, <1>5, <1>6, <1>7, <1>8, <1>9, <1>10, <1>11, <1>12, <1>13
  DEF Step

(* Because of the lock, nobody else commits under a transaction that writes. *)
LEMMA WriterStep ==
  ASSUME TypeOK, Shape, OneWriter, WriterSeesCommitted, PendingRow, FreshIds,
      NoDanglingGrant, NEW r \in Requests, Step(r)
  PROVE  WriterSeesCommitted'
<1>1. ASSUME NEW u \in UserIds, GetRow(r, u) PROVE WriterSeesCommitted'
  BY <1>1
  DEF GetRow, tables, TypeOK, Shape, Writing, InCall, Current,
      WriterSeesCommitted, Request
<1>2. ASSUME ReadsRoles(r) PROVE WriterSeesCommitted'
  BY <1>2
  DEF ReadsRoles, tables, TypeOK, Shape, Writing, InCall, Current,
      WriterSeesCommitted, Request
<1>3. ASSUME NEW c, Starts(r, c) PROVE WriterSeesCommitted'
  BY <1>3
  DEF Starts, Begin, tables, TypeOK, Shape, Writing, InCall, Current,
      WriterSeesCommitted, Request, FreshIds
<1>4. ASSUME InsertUser(r) PROVE WriterSeesCommitted'
  <2>1. req[r] \in Request /\ users[req[r].id] = Nil
    BY <1>4 DEF InsertUser, Shape, InCall, FreshIds
  <2>2. members[req[r].id] \in Grants /\ \A i \in RoleIds : ~ (members[req[r].id][i] > 0)
    BY <2>1 DEF TypeOK, Request, NoDanglingGrant
  <2>3. members[req[r].id] = NoGrants
    BY <2>2, BoundsAssumption DEF Grants, NoGrants
  <2> QED
    BY <1>4, <2>1, <2>3
    DEF InsertUser, Pending, tables, TypeOK, Writing, Current, WriterSeesCommitted
<1>5. ASSUME UpdateRow(r) PROVE WriterSeesCommitted'
  BY <1>5
  DEF UpdateRow, WriterSeesCommitted, UpdatedRow, NextVersion, Fits, Current, Pending, tables,
      TypeOK, Shape, Writing, InCall, Request
<1>6. ASSUME WritePassword(r) PROVE WriterSeesCommitted'
  BY <1>6
  DEF WritePassword, Current, Pending, tables, TypeOK, Shape, Writing, InCall,
      WriterSeesCommitted, Request
<1>7. ASSUME DeleteUser(r) PROVE WriterSeesCommitted'
  BY <1>7
  DEF DeleteUser, Pending, tables, TypeOK, Shape, Writing, InCall, Current,
      WriterSeesCommitted, Request
<1>8. ASSUME LeakDelete(r) PROVE WriterSeesCommitted'
  BY <1>8
  DEF LeakDelete, tables, TypeOK, Shape, Writing, InCall, Current,
      WriterSeesCommitted, Request
<1>9. ASSUME SelectRoles(r) PROVE WriterSeesCommitted'
  BY <1>9
  DEF SelectRoles, Pending, tables, TypeOK, Shape, Writing, InCall, Current,
      WriterSeesCommitted, Request
<1>10. ASSUME Syncing(r) PROVE WriterSeesCommitted'
  BY <1>10
  DEF Syncing, Syncs, tables, TypeOK, Shape, Writing, InCall, Current,
      WriterSeesCommitted, Request
<1>11. ASSUME Publishes(r) PROVE WriterSeesCommitted'
  BY <1>11
  DEF Publishes, Finish, TypeOK, Shape, Writing, InCall, Current,
      WriterSeesCommitted, Request, OneWriter, Owns
<1>12. ASSUME Quits(r) PROVE WriterSeesCommitted'
  BY <1>12
  DEF Quits, Finish, TypeOK, Shape, Writing, InCall, Current,
      WriterSeesCommitted, Request
<1>13. ASSUME LockRow(r) PROVE WriterSeesCommitted'
  BY <1>13
  DEF LockRow, tables, TypeOK, Shape, Writing, InCall, Current,
      WriterSeesCommitted, Request
<1> QED
  BY <1>1, <1>2, <1>3, <1>4, <1>5, <1>6, <1>7, <1>8, <1>9, <1>10, <1>11, <1>12, <1>13
  DEF Step

(* The pending row stays related to the committed one. *)
LEMMA PendingStep ==
  ASSUME TypeOK, Shape, OneWriter, WriterSeesCommitted, PendingRow, FreshIds,
      NEW r \in Requests, Step(r)
  PROVE  PendingRow'
<1>1. ASSUME NEW u \in UserIds, GetRow(r, u) PROVE PendingRow'
  BY <1>1 DEF GetRow, tables, TypeOK, Shape, Writing, InCall, PendingRow, Row
<1>2. ASSUME ReadsRoles(r) PROVE PendingRow'
  BY <1>2
  DEF ReadsRoles, tables, TypeOK, Shape, Writing, InCall, PendingRow, Row
<1>3. ASSUME NEW c, Starts(r, c) PROVE PendingRow'
  BY <1>3
  DEF Starts, Begin, tables, TypeOK, Shape, Writing, InCall, PendingRow, Row
<1>4. ASSUME InsertUser(r) PROVE PendingRow'
  BY NoGrantsType, BoundsAssumption, <1>4
  DEF InsertUser, Pending, tables, TypeOK, Shape, Writing, InCall, PendingRow,
      Row, Request, WellFormed
<1>5. ASSUME UpdateRow(r) PROVE PendingRow'
  BY BoundsAssumption, <1>5
  DEF UpdateRow, WriterSeesCommitted, UpdatedRow, NextVersion, Fits, Current, Pending, tables,
      TypeOK, Shape, Writing, InCall, PendingRow, Row, Request, WellFormed
<1>6. ASSUME WritePassword(r) PROVE PendingRow'
  BY BoundsAssumption, <1>6
  DEF WritePassword, Current, Pending, tables, TypeOK, Shape, Writing, InCall,
      PendingRow, Row, Request, WellFormed
<1>7. ASSUME DeleteUser(r) PROVE PendingRow'
  BY <1>7
  DEF DeleteUser, Pending, tables, TypeOK, Shape, Writing, InCall, PendingRow,
      Row
<1>8. ASSUME LeakDelete(r) PROVE PendingRow'
  BY <1>8
  DEF LeakDelete, tables, TypeOK, Shape, Writing, InCall, PendingRow, Row
<1>9. ASSUME SelectRoles(r) PROVE PendingRow'
  BY <1>9
  DEF SelectRoles, Pending, tables, TypeOK, Shape, Writing, InCall,
      PendingRow, Row
<1>10. ASSUME Syncing(r) PROVE PendingRow'
  BY <1>10
  DEF Syncing, Syncs, tables, TypeOK, Shape, Writing, InCall, PendingRow, Row
<1>11. ASSUME Publishes(r) PROVE PendingRow'
  BY <1>11
  DEF Publishes, Finish, TypeOK, Shape, Writing, InCall, PendingRow, Row,
      OneWriter, Owns
<1>12. ASSUME Quits(r) PROVE PendingRow'
  BY <1>12 DEF Quits, Finish, TypeOK, Shape, Writing, InCall, PendingRow, Row
<1>13. ASSUME LockRow(r) PROVE PendingRow'
  BY <1>13
  DEF LockRow, tables, TypeOK, Shape, Writing, InCall, PendingRow, Row
<1> QED
  BY <1>1, <1>2, <1>3, <1>4, <1>5, <1>6, <1>7, <1>8, <1>9, <1>10, <1>11, <1>12, <1>13
  DEF Step

(* The synchronisation of the roles only moves from the committed rows to
   those of the call. *)
LEMMA SyncStep ==
  ASSUME TypeOK, Shape, PendingRow, SyncOnTrack, NEW r \in Requests, Step(r)
  PROVE  SyncOnTrack'
<1>1. ASSUME NEW u \in UserIds, GetRow(r, u) PROVE SyncOnTrack'
  BY <1>1
  DEF GetRow, tables, TypeOK, Shape, Writing, InCall, SyncOnTrack, Syncs,
      Grants, NoGrants, Request
<1>2. ASSUME ReadsRoles(r) PROVE SyncOnTrack'
  BY <1>2
  DEF ReadsRoles, tables, TypeOK, Shape, Writing, InCall, SyncOnTrack, Syncs,
      Grants, NoGrants, Request
<1>3. ASSUME NEW c, Starts(r, c) PROVE SyncOnTrack'
  BY <1>3
  DEF Starts, Begin, tables, TypeOK, Shape, Writing, InCall, SyncOnTrack,
      Syncs, Grants, NoGrants, Request
<1>4. ASSUME InsertUser(r) PROVE SyncOnTrack'
  BY <1>4
  DEF InsertUser, Pending, tables, TypeOK, Shape, Writing, InCall,
      SyncOnTrack, Syncs, Grants, NoGrants, Request
<1>5. ASSUME UpdateRow(r) PROVE SyncOnTrack'
  BY <1>5
  DEF UpdateRow, WriterSeesCommitted, UpdatedRow, NextVersion, Fits, Current, Pending, tables,
      TypeOK, Shape, Writing, InCall, SyncOnTrack, Syncs, Grants, NoGrants,
      Request
<1>6. ASSUME WritePassword(r) PROVE SyncOnTrack'
  BY <1>6
  DEF WritePassword, Current, Pending, tables, TypeOK, Shape, Writing, InCall,
      SyncOnTrack, Syncs, Grants, NoGrants, Request
<1>7. ASSUME DeleteUser(r) PROVE SyncOnTrack'
  BY <1>7
  DEF DeleteUser, Pending, tables, TypeOK, Shape, Writing, InCall,
      SyncOnTrack, Syncs, Grants, NoGrants, Request
<1>8. ASSUME LeakDelete(r) PROVE SyncOnTrack'
  BY <1>8
  DEF LeakDelete, tables, TypeOK, Shape, Writing, InCall, SyncOnTrack, Syncs,
      Grants, NoGrants, Request
<1>9. ASSUME SelectRoles(r) PROVE SyncOnTrack'
  BY <1>9
  DEF SelectRoles, Pending, tables, TypeOK, Shape, Writing, InCall,
      SyncOnTrack, Syncs, Grants, NoGrants, Request
<1>10. ASSUME Syncing(r) PROVE SyncOnTrack'
  BY <1>10
  DEF Syncing, Syncs, tables, TypeOK, Shape, Writing, InCall, SyncOnTrack,
      Grants, NoGrants, Request
<1>11. ASSUME Publishes(r) PROVE SyncOnTrack'
  BY <1>11
  DEF Publishes, Finish, TypeOK, Shape, Writing, InCall, SyncOnTrack, Syncs,
      Grants, NoGrants, Request
<1>12. ASSUME Quits(r) PROVE SyncOnTrack'
  BY <1>12
  DEF Quits, Finish, TypeOK, Shape, Writing, InCall, SyncOnTrack, Syncs,
      Grants, NoGrants, Request
<1>13. ASSUME LockRow(r) PROVE SyncOnTrack'
  BY <1>13
  DEF LockRow, tables, TypeOK, Shape, Writing, InCall, SyncOnTrack, Syncs,
      Grants, NoGrants, Request
<1> QED
  BY <1>1, <1>2, <1>3, <1>4, <1>5, <1>6, <1>7, <1>8, <1>9, <1>10, <1>11, <1>12, <1>13
  DEF Step

(* Ids are never drawn twice. *)
LEMMA FreshStep ==
  ASSUME TypeOK, Shape, OneWriter, WriterSeesCommitted, PendingRow, FreshIds,
      NEW r \in Requests, Step(r)
  PROVE  FreshIds'
<1>1. ASSUME NEW u \in UserIds, GetRow(r, u) PROVE FreshIds'
  BY <1>1
  DEF GetRow, tables, TypeOK, Shape, Writing, InCall, FreshIds, UserIds,
      Request
<1>2. ASSUME ReadsRoles(r) PROVE FreshIds'
  BY NilAssumption, <1>2
  DEF ReadsRoles, tables, TypeOK, Shape, Writing, InCall, FreshIds, UserIds,
      Request, Copy
<1>3. ASSUME NEW c, Starts(r, c) PROVE FreshIds'
  BY BoundsAssumption, <1>3
  DEF Starts, Begin, tables, TypeOK, Shape, Writing, InCall, FreshIds,
      UserIds, Request, Copy
<1>4. ASSUME InsertUser(r) PROVE FreshIds'
  BY <1>4
  DEF InsertUser, Pending, tables, TypeOK, Shape, Writing, InCall, FreshIds,
      UserIds, Request
<1>5. ASSUME UpdateRow(r) PROVE FreshIds'
  BY <1>5
  DEF UpdateRow, WriterSeesCommitted, UpdatedRow, NextVersion, Fits, Current, Pending, tables,
      TypeOK, Shape, Writing, InCall, FreshIds, UserIds, Request
<1>6. ASSUME WritePassword(r) PROVE FreshIds'
  BY <1>6
  DEF WritePassword, Current, Pending, tables, TypeOK, Shape, Writing, InCall,
      FreshIds, UserIds, Request
<1>7. ASSUME DeleteUser(r) PROVE FreshIds'
  BY <1>7
  DEF DeleteUser, Pending, tables, TypeOK, Shape, Writing, InCall, FreshIds,
      UserIds, Request
<1>8. ASSUME LeakDelete(r) PROVE FreshIds'
  BY <1>8
  DEF LeakDelete, tables, TypeOK, Shape, Writing, InCall, FreshIds, UserIds,
      Request
<1>9. ASSUME SelectRoles(r) PROVE FreshIds'
  BY <1>9
  DEF SelectRoles, Pending, tables, TypeOK, Shape, Writing, InCall, FreshIds,
      UserIds, Request
<1>10. ASSUME Syncing(r) PROVE FreshIds'
  BY <1>10
  DEF Syncing, Syncs, tables, TypeOK, Shape, Writing, InCall, FreshIds,
      UserIds, Request
<1>11. ASSUME Publishes(r) PROVE FreshIds'
  BY <1>11
  DEF Publishes, Finish, TypeOK, Shape, Writing, InCall, FreshIds, UserIds,
      Request, OneWriter, Owns, WriterSeesCommitted, PendingRow, Current
<1>12. ASSUME Quits(r) PROVE FreshIds'
  BY <1>12
  DEF Quits, Finish, TypeOK, Shape, Writing, InCall, FreshIds, UserIds,
      Request
<1>13. ASSUME LockRow(r) PROVE FreshIds'
  BY <1>13
  DEF LockRow, tables, TypeOK, Shape, Writing, InCall, FreshIds, UserIds,
      Request
<1> QED
  BY <1>1, <1>2, <1>3, <1>4, <1>5, <1>6, <1>7, <1>8, <1>9, <1>10, <1>11, <1>12, <1>13
  DEF Step

(* A copy is outdated, or its row (and, once read, its roles) is the
   committed one. *)
LEMMA CopiesStep ==
  ASSUME TypeOK, Shape, OneWriter, WriterSeesCommitted, PendingRow,
      SyncOnTrack, FreshIds, Copies, NEW r \in Requests, Step(r)
  PROVE  Copies'
<1>1. ASSUME NEW u \in UserIds, GetRow(r, u) PROVE Copies'
  BY <1>1
  DEF GetRow, tables, TypeOK, Shape, Writing, InCall, Copies, Copy, Row
<1>2. ASSUME ReadsRoles(r) PROVE Copies'
  BY NilAssumption, <1>2
  DEF ReadsRoles, tables, TypeOK, Shape, Writing, InCall, Copies, Copy, Row
<1>3. ASSUME NEW c, Starts(r, c) PROVE Copies'
  BY <1>3
  DEF Starts, Begin, tables, TypeOK, Shape, Writing, InCall, Copies, Copy, Row
<1>4. ASSUME InsertUser(r) PROVE Copies'
  BY <1>4
  DEF InsertUser, Pending, tables, TypeOK, Shape, Writing, InCall, Copies,
      Copy, Row
<1>5. ASSUME UpdateRow(r) PROVE Copies'
  BY <1>5
  DEF UpdateRow, WriterSeesCommitted, UpdatedRow, NextVersion, Fits, Current, Pending, tables,
      TypeOK, Shape, Writing, InCall, Copies, Copy, Row
<1>6. ASSUME WritePassword(r) PROVE Copies'
  BY <1>6
  DEF WritePassword, Current, Pending, tables, TypeOK, Shape, Writing, InCall,
      Copies, Copy, Row
<1>7. ASSUME DeleteUser(r) PROVE Copies'
  BY <1>7
  DEF DeleteUser, Pending, tables, TypeOK, Shape, Writing, InCall, Copies,
      Copy, Row
<1>8. ASSUME LeakDelete(r) PROVE Copies'
  BY <1>8
  DEF LeakDelete, tables, TypeOK, Shape, Writing, InCall, Copies, Copy, Row
<1>9. ASSUME SelectRoles(r) PROVE Copies'
  BY <1>9
  DEF SelectRoles, Pending, tables, TypeOK, Shape, Writing, InCall, Copies,
      Copy, Row
<1>10. ASSUME Syncing(r) PROVE Copies'
  BY <1>10
  DEF Syncing, Syncs, tables, TypeOK, Shape, Writing, InCall, Copies, Copy,
      Row
<1>11. ASSUME Publishes(r) PROVE Copies'
  <2> SUFFICES ASSUME NEW q \in Requests, copy'[q] # Nil, users'[copy'[q].id] # Nil
               PROVE  /\ copy'[q].row.version <= users'[copy'[q].id].version
                      /\ copy'[q].row.version = users'[copy'[q].id].version =>
                           /\ copy'[q].row.email = users'[copy'[q].id].email
                           /\ at'[q] # "reading" /\ ~ copy'[q].cut => copy'[q].roles = members'[copy'[q].id]
    BY DEF Copies
  <2>1. copy[q] \in Copy /\ copy'[q] = copy[q] /\ at'[q] = at[q] /\ q # r
    BY <1>11 DEF Publishes, Finish, TypeOK
  <2>2. req[r] \in Request /\ tx[r] \in Work /\ at[r] = "syncing"
    BY <1>11 DEF Publishes, Shape, InCall, Writing
  <2>3. CASE copy[q].id # req[r].id
    BY <1>11, <2>1, <2>2, <2>3 DEF Publishes, Copies, TypeOK, Copy, Request
  <2>4. CASE copy[q].id = req[r].id
    <3>1. users'[req[r].id] = tx[r].row /\ members'[req[r].id] = tx[r].roles
      BY <1>11, <2>2 DEF Publishes, TypeOK, Request
    <3>2. CASE req[r].op \in {"create", "delete"}
      BY <2>1, <2>2, <2>4, <3>1, <3>2 DEF FreshIds, PendingRow, Writing, InCall
    <3>3. CASE req[r].op = "update"
      <4>1. users[req[r].id] \in Row
        BY <2>2, <3>3 DEF TypeOK, WriterSeesCommitted, Writing, Current, Request
      <4>2. tx[r].row.version = users[req[r].id].version + 1
        BY <2>2, <3>3 DEF PendingRow, Writing
      <4>3. copy[q].row.version <= users[req[r].id].version
        BY <2>1, <2>4, <4>1, NilAssumption DEF Copies
      <4> QED
        BY <2>1, <2>4, <3>1, <4>1, <4>2, <4>3, BoundsAssumption DEF Row, Copy
    <3>4. CASE req[r].op = "password"
      <4>1. users[req[r].id] # Nil /\ tx[r].cur = members[req[r].id]
        BY <2>2, <3>4 DEF WriterSeesCommitted, Writing, Current
      <4>2. /\ tx[r].row.version = users[req[r].id].version
            /\ tx[r].row.email = users[req[r].id].email
        BY <2>2, <3>4 DEF PendingRow, Writing
      <4>3. tx[r].roles = tx[r].cur
        BY <2>2, <3>4 DEF SyncOnTrack, Syncs, Work, Grants
      <4> QED
        BY <2>1, <2>4, <3>1, <4>1, <4>2, <4>3, NilAssumption DEF Copies
    <3> QED BY <2>2, <3>2, <3>3, <3>4 DEF Request
  <2> QED BY <2>3, <2>4
<1>12. ASSUME Quits(r) PROVE Copies'
  BY <1>12
  DEF Quits, Finish, TypeOK, Shape, Writing, InCall, Copies, Copy, Row
<1>13. ASSUME LockRow(r) PROVE Copies'
  BY <1>13
  DEF LockRow, tables, TypeOK, Shape, Writing, InCall, Copies, Copy, Row
<1> QED
  BY <1>1, <1>2, <1>3, <1>4, <1>5, <1>6, <1>7, <1>8, <1>9, <1>10, <1>11, <1>12, <1>13
  DEF Step

(* No step leaves a membership row without its user or its role. *)
LEMMA GrantStep ==
  ASSUME TypeOK, Shape, WriterSeesCommitted, PendingRow, SyncOnTrack,
      Dropping, NoDanglingGrant, NEW r \in Requests, Step(r)
  PROVE  NoDanglingGrant'
<1>1. ASSUME NEW u \in UserIds, GetRow(r, u) PROVE NoDanglingGrant'
  BY <1>1 DEF GetRow, tables, TypeOK, NoDanglingGrant
<1>2. ASSUME ReadsRoles(r) PROVE NoDanglingGrant'
  BY <1>2 DEF ReadsRoles, tables, TypeOK, NoDanglingGrant
<1>3. ASSUME NEW c, Starts(r, c) PROVE NoDanglingGrant'
  BY <1>3 DEF Starts, Begin, tables, TypeOK, NoDanglingGrant
<1>4. ASSUME InsertUser(r) PROVE NoDanglingGrant'
  BY <1>4 DEF InsertUser, Pending, tables, TypeOK, NoDanglingGrant
<1>5. ASSUME UpdateRow(r) PROVE NoDanglingGrant'
  BY <1>5
  DEF UpdateRow, WriterSeesCommitted, UpdatedRow, NextVersion, Fits, Current, Pending, tables,
      TypeOK, NoDanglingGrant
<1>6. ASSUME WritePassword(r) PROVE NoDanglingGrant'
  BY <1>6 DEF WritePassword, Current, Pending, tables, TypeOK, NoDanglingGrant
<1>7. ASSUME DeleteUser(r) PROVE NoDanglingGrant'
  BY <1>7 DEF DeleteUser, Pending, tables, TypeOK, NoDanglingGrant
<1>8. ASSUME LeakDelete(r) PROVE NoDanglingGrant'
  BY <1>8 DEF LeakDelete, tables, TypeOK, NoDanglingGrant
<1>9. ASSUME SelectRoles(r) PROVE NoDanglingGrant'
  BY <1>9 DEF SelectRoles, Pending, tables, TypeOK, NoDanglingGrant
<1>10. ASSUME Syncing(r) PROVE NoDanglingGrant'
  BY <1>10 DEF Syncing, Syncs, tables, TypeOK, NoDanglingGrant
<1>11. ASSUME Publishes(r) PROVE NoDanglingGrant'
  <2> SUFFICES ASSUME NEW u \in UserIds, NEW i \in RoleIds, members'[u][i] > 0
               PROVE  users'[u] # Nil /\ i \in roleRows'
    BY DEF NoDanglingGrant
  <2>1. req[r] \in Request /\ tx[r] \in Work /\ at[r] = "syncing" /\ roleRows' = roleRows
    BY <1>11 DEF Publishes, Finish, Shape, InCall, Writing
  <2>2. CASE u # req[r].id
    BY <1>11, <2>1, <2>2 DEF Publishes, TypeOK, NoDanglingGrant, Request
  <2>3. CASE u = req[r].id
    <3>1. users'[u] = tx[r].row /\ tx[r].roles[i] > 0
      BY <1>11, <2>1, <2>3 DEF Publishes, TypeOK
    <3>2. tx[r].cur = members[u] /\ tx[r].cur[i] \in Nat /\ tx[r].roles[i] \in Nat
      BY <2>1, <2>3, BoundsAssumption DEF WriterSeesCommitted, Work, Grants
    <3>3. i \in roleRows
      BY <2>1, <3>1, <3>2 DEF NoDanglingGrant, Dropping, HoldsRole, Writing
    <3>4. CASE req[r].op # "delete"
      BY <2>1, <3>1, <3>3, <3>4, NilAssumption DEF PendingRow, Writing, Request
    <3>5. CASE req[r].op = "delete"
      <4>1. members[u] = NoGrants /\ tx[r].roles[i] = tx[r].cur[i]
        BY <2>1, <2>3, <3>5 DEF PendingRow, SyncOnTrack, Syncs, Writing
      <4> QED BY <3>1, <3>2, <4>1 DEF NoGrants
    <3> QED BY <3>4, <3>5
  <2> QED BY <2>2, <2>3
<1>12. ASSUME Quits(r) PROVE NoDanglingGrant'
  BY <1>12 DEF Quits, Finish, TypeOK, NoDanglingGrant
<1>13. ASSUME LockRow(r) PROVE NoDanglingGrant'
  BY <1>13 DEF LockRow, tables, TypeOK, NoDanglingGrant
<1> QED
  BY <1>1, <1>2, <1>3, <1>4, <1>5, <1>6, <1>7, <1>8, <1>9, <1>10, <1>11, <1>12, <1>13
  DEF Step

(* A role that is being deleted is granted to nobody, not even in an open
   transaction. *)
LEMMA DroppingStep ==
  ASSUME TypeOK, Shape, WriterSeesCommitted, PendingRow, Dropping,
      NoDanglingGrant, NEW r \in Requests, Step(r)
  PROVE  Dropping'
<1>1. ASSUME NEW u \in UserIds, GetRow(r, u) PROVE Dropping'
  BY <1>1
  DEF GetRow, tables, TypeOK, Shape, Writing, InCall, Dropping, HoldsRole
<1>2. ASSUME ReadsRoles(r) PROVE Dropping'
  BY <1>2
  DEF ReadsRoles, tables, TypeOK, Shape, Writing, InCall, Dropping, HoldsRole
<1>3. ASSUME NEW c, Starts(r, c) PROVE Dropping'
  BY <1>3
  DEF Starts, Begin, tables, TypeOK, Shape, Writing, InCall, Dropping,
      HoldsRole
<1>4. ASSUME InsertUser(r) PROVE Dropping'
  BY NoGrantsType, BoundsAssumption, <1>4
  DEF InsertUser, Pending, tables, TypeOK, Shape, Writing, InCall, Dropping,
      HoldsRole, Grants, Request, Work
<1>5. ASSUME UpdateRow(r) PROVE Dropping'
  BY NoGrantsType, BoundsAssumption, <1>5
  DEF UpdateRow, WriterSeesCommitted, UpdatedRow, NextVersion, Fits, Current, Pending, tables,
      TypeOK, Shape, Writing, InCall, Dropping, HoldsRole, Grants, Request,
      Work
<1>6. ASSUME WritePassword(r) PROVE Dropping'
  BY NoGrantsType, BoundsAssumption, <1>6
  DEF WritePassword, Current, Pending, tables, TypeOK, Shape, Writing, InCall,
      Dropping, HoldsRole, Grants, Request, Work
<1>7. ASSUME DeleteUser(r) PROVE Dropping'
  BY NoGrantsType, BoundsAssumption, <1>7
  DEF DeleteUser, Pending, tables, TypeOK, Shape, Writing, InCall, Dropping,
      HoldsRole, Grants, Request, Work
<1>8. ASSUME LeakDelete(r) PROVE Dropping'
  BY <1>8
  DEF LeakDelete, tables, TypeOK, Shape, Writing, InCall, Dropping, HoldsRole
<1>9. ASSUME SelectRoles(r) PROVE Dropping'
  BY NoGrantsType, BoundsAssumption, <1>9
  DEF SelectRoles, Pending, tables, TypeOK, Shape, Writing, InCall, Dropping,
      HoldsRole, Grants, Request, Work
<1>10. ASSUME Syncing(r) PROVE Dropping'
  <2>1. PICK g \in Grants :
          /\ \A i \in RoleIds :
               \/ g[i] = tx[r].roles[i]
               \/ /\ g[i] = 0 /\ tx[r].roles[i] = 1
                  /\ tx[r].cur[i] > 0 /\ req[r].roles[i] = 0
               \/ /\ g[i] = tx[r].roles[i] + 1 /\ g[i] <= req[r].roles[i]
                  /\ tx[r].cur[i] = 0 /\ i \in roleRows \ dropping
          /\ tx' = [tx EXCEPT ![r] = [row |-> tx[r].row, cur |-> tx[r].cur, roles |-> g]]
    BY <1>10 DEF Syncing
  <2>2. tx[r] \in Work /\ at[r] = "syncing"
    BY <1>10 DEF Syncing, Shape, Writing
  <2>3. \A i \in RoleIds : HoldsRole(r, i)' => i \in roleRows \ dropping
    BY <2>1, <2>2, <1>10, BoundsAssumption
    DEF Syncing, Dropping, HoldsRole, Writing, TypeOK, Work, Grants, tables
  <2>4. \A q \in Requests \ {r}, i \in RoleIds : HoldsRole(q, i)' = HoldsRole(q, i)
    BY <2>1, <1>10 DEF Syncing, HoldsRole, Writing, TypeOK
  <2> QED
    BY <2>3, <2>4, <1>10 DEF Syncing, Dropping, tables
<1>11. ASSUME Publishes(r) PROVE Dropping'
  BY <1>11
  DEF Publishes, Finish, TypeOK, Shape, Writing, InCall, Dropping, HoldsRole,
      WriterSeesCommitted, Request, Work, Grants
<1>12. ASSUME Quits(r) PROVE Dropping'
  BY <1>12
  DEF Quits, Finish, TypeOK, Shape, Writing, InCall, Dropping, HoldsRole
<1>13. ASSUME LockRow(r) PROVE Dropping'
  BY <1>13
  DEF LockRow, tables, TypeOK, Shape, Writing, InCall, Dropping, HoldsRole
<1> QED
  BY <1>1, <1>2, <1>3, <1>4, <1>5, <1>6, <1>7, <1>8, <1>9, <1>10, <1>11, <1>12, <1>13
  DEF Step

(* Committed and pending e-mails stay unique. *)
LEMMA EmailStep ==
  ASSUME TypeOK, Shape, OneWriter, WriterSeesCommitted, PendingRow,
      UniqueEmail, NEW r \in Requests, Step(r)
  PROVE  UniqueEmail'
<1>1. ASSUME NEW u \in UserIds, GetRow(r, u) PROVE UniqueEmail'
  BY <1>1
  DEF GetRow, tables, TypeOK, Shape, Writing, InCall, UniqueEmail, Request,
      EmailSettled, MayFree, Entered, EmailTaken, Unlocked, HoldsUser, PendingRow, OneWriter, Owns,
      Row
<1>2. ASSUME ReadsRoles(r) PROVE UniqueEmail'
  BY <1>2
  DEF ReadsRoles, tables, TypeOK, Shape, Writing, InCall, UniqueEmail, Request,
      EmailSettled, MayFree, Entered, EmailTaken, Unlocked, HoldsUser, PendingRow, OneWriter, Owns,
      Row
<1>3. ASSUME NEW c, Starts(r, c) PROVE UniqueEmail'
  BY <1>3
  DEF Starts, Begin, tables, TypeOK, Shape, Writing, InCall, UniqueEmail,
      Request, EmailSettled, MayFree, Entered, EmailTaken, Unlocked, HoldsUser, PendingRow,
      OneWriter, Owns, Row
<1>4. ASSUME InsertUser(r) PROVE UniqueEmail'
  BY <1>4
  DEF InsertUser, Pending, tables, TypeOK, Shape, Writing, InCall,
      UniqueEmail, Request, EmailSettled, MayFree, Entered, EmailTaken, Unlocked, HoldsUser,
      PendingRow, OneWriter, Owns, Row
<1>5. ASSUME UpdateRow(r) PROVE UniqueEmail'
  <2> DEFINE row == UpdatedRow(r)
  <2>1. /\ at[r] = "locked" /\ req[r] \in Request
        /\ users' = users /\ req' = req /\ at' = [at EXCEPT ![r] = "wrote"]
        /\ tx' = [tx EXCEPT ![r] = [row |-> row, cur |-> NoGrants, roles |-> NoGrants]]
    BY <1>5 DEF UpdateRow, Pending, tables, Shape, InCall
  <2>2. \A v \in UserIds \ {req[r].id} : users[v] # Nil => users[v].email # row.email
    BY <1>5 DEF UpdateRow, EmailTaken
  <2>3. \A q \in Requests \ {r} :
          Writing(q) /\ tx[q].row # Nil => tx[q].row.email # row.email
    BY <1>5 DEF UpdateRow, EmailSettled, Entered
  <2>4. \A q \in Requests \ {r} : at'[q] = at[q] /\ tx'[q] = tx[q]
    BY <2>1
  <2>5. tx'[r].row = row
    BY <2>1 DEF TypeOK
  <2>6. \A q \in Requests \ {r} : Writing(q)' <=> Writing(q)
    BY <2>4 DEF Writing
  <2> HIDE DEF row
  <2> QED BY <2>1, <2>2, <2>3, <2>4, <2>5, <2>6 DEF UniqueEmail
<1>6. ASSUME WritePassword(r) PROVE UniqueEmail'
  BY <1>6
  DEF WritePassword, Current, Pending, tables, TypeOK, Shape, Writing, InCall,
      UniqueEmail, Request, EmailSettled, MayFree, Entered, EmailTaken, Unlocked, HoldsUser,
      PendingRow, OneWriter, Owns, Row
<1>7. ASSUME DeleteUser(r) PROVE UniqueEmail'
  BY <1>7
  DEF DeleteUser, Pending, tables, TypeOK, Shape, Writing, InCall,
      UniqueEmail, Request, EmailSettled, MayFree, Entered, EmailTaken, Unlocked, HoldsUser,
      PendingRow, OneWriter, Owns, Row
<1>8. ASSUME LeakDelete(r) PROVE UniqueEmail'
  BY <1>8
  DEF LeakDelete, tables, TypeOK, Shape, Writing, InCall, UniqueEmail,
      Request, EmailSettled, MayFree, Entered, EmailTaken, Unlocked, HoldsUser, PendingRow,
      OneWriter, Owns, Row
<1>9. ASSUME SelectRoles(r) PROVE UniqueEmail'
  BY <1>9
  DEF SelectRoles, Pending, tables, TypeOK, Shape, Writing, InCall,
      UniqueEmail, Request, EmailSettled, MayFree, Entered, EmailTaken, Unlocked, HoldsUser,
      PendingRow, OneWriter, Owns, Row
<1>10. ASSUME Syncing(r) PROVE UniqueEmail'
  BY <1>10
  DEF Syncing, Syncs, tables, TypeOK, Shape, Writing, InCall, UniqueEmail,
      Request, EmailSettled, MayFree, Entered, EmailTaken, Unlocked, HoldsUser, PendingRow,
      OneWriter, Owns, Row
<1>11. ASSUME Publishes(r) PROVE UniqueEmail'
  BY <1>11
  DEF Publishes, Finish, TypeOK, Shape, Writing, InCall, UniqueEmail, Request,
      EmailSettled, MayFree, Entered, EmailTaken, Unlocked, HoldsUser, PendingRow, OneWriter, Owns,
      Row
<1>12. ASSUME Quits(r) PROVE UniqueEmail'
  BY <1>12
  DEF Quits, Finish, TypeOK, Shape, Writing, InCall, UniqueEmail, Request,
      EmailSettled, MayFree, Entered, EmailTaken, Unlocked, HoldsUser, PendingRow, OneWriter, Owns,
      Row
<1>13. ASSUME LockRow(r) PROVE UniqueEmail'
  BY <1>13
  DEF LockRow, tables, TypeOK, Shape, Writing, InCall, UniqueEmail,
      Request, EmailSettled, MayFree, Entered, EmailTaken, Unlocked, HoldsUser, PendingRow,
      OneWriter, Owns, Row
<1> QED
  BY <1>1, <1>2, <1>3, <1>4, <1>5, <1>6, <1>7, <1>8, <1>9, <1>10, <1>11, <1>12, <1>13
  DEF Step
(* Deleting a role touches no user and no request. *)
LEMMA RoleStepsKeep ==
  ASSUME IInv, RoleSteps
  PROVE  IInv'
<1> DEFINE Rest == <<users, members, nextId, at, copy, req, tx>>
<1>1. UNCHANGED Rest
  BY DEF RoleSteps, DropRole, DropCommit, DropRollback, tables
<1>2. TypeOK' /\ Dropping' /\ NoDanglingGrant'
  <2>1. PICK i \in RoleIds : DropRole(i) \/ DropCommit(i) \/ DropRollback(i)
    BY DEF RoleSteps
  <2>2. CASE DropRole(i)
    BY <1>1, <2>2
    DEF IInv, TypeOK, DropRole, tables, Dropping, HoldsRole, Writing, NoDanglingGrant
  <2>3. CASE DropCommit(i)
    BY <1>1, <2>3
    DEF IInv, TypeOK, DropCommit, Dropping, HoldsRole, Writing, NoDanglingGrant
  <2>4. CASE DropRollback(i)
    BY <1>1, <2>4
    DEF IInv, TypeOK, DropRollback, tables, Dropping, HoldsRole, Writing, NoDanglingGrant
  <2> QED BY <2>1, <2>2, <2>3, <2>4
<1>3. (Shape /\ OneWriter /\ WriterSeesCommitted)'
  BY <1>1 DEF IInv, Shape, OneWriter, Owns, WriterSeesCommitted, Writing, Current
<1>4. (PendingRow /\ SyncOnTrack /\ FreshIds)'
  BY <1>1 DEF IInv, PendingRow, SyncOnTrack, FreshIds, Writing, Syncs
<1>5. (Copies /\ UniqueEmail)'
  BY <1>1 DEF IInv, Copies, UniqueEmail, Writing
<1> QED BY <1>2, <1>3, <1>4, <1>5 DEF IInv

(* A step that changes nothing keeps the invariant. *)
LEMMA StutterKeeps ==
  ASSUME IInv, UNCHANGED vars
  PROVE  IInv'
<1>1. (TypeOK /\ Shape /\ OneWriter /\ WriterSeesCommitted)'
  BY DEF IInv, vars, tables, TypeOK, Shape, OneWriter, Owns, WriterSeesCommitted, Writing, Current
<1>2. (PendingRow /\ SyncOnTrack /\ FreshIds /\ Copies)'
  BY DEF IInv, vars, tables, PendingRow, SyncOnTrack, FreshIds, Copies, Writing, Syncs
<1>3. (NoDanglingGrant /\ Dropping /\ UniqueEmail)'
  BY DEF IInv, vars, tables, NoDanglingGrant, Dropping, UniqueEmail, Writing, HoldsRole
<1> QED BY <1>1, <1>2, <1>3 DEF IInv

(* The inductive invariant holds at the start. *)
LEMMA InitIInv ==
  ASSUME Init
  PROVE  IInv
<1>1. TypeOK
  BY NoGrantsType, BoundsAssumption DEF Init, TypeOK, UserIds, Places
<1>2. Shape /\ OneWriter /\ WriterSeesCommitted /\ PendingRow /\ SyncOnTrack
  BY DEF Init, Shape, InCall, OneWriter, Owns, WriterSeesCommitted, PendingRow, SyncOnTrack, Writing
<1>3. FreshIds /\ Copies
  BY DEF Init, FreshIds, Copies, InCall
<1>4. NoDanglingGrant /\ Dropping /\ UniqueEmail
  BY DEF Init, NoDanglingGrant, NoGrants, Dropping, UniqueEmail, HoldsRole, Writing
<1> QED BY <1>1, <1>2, <1>3, <1>4 DEF IInv

(* The inductive invariant holds in every reachable state. *)
THEOREM Invariance == Spec => []IInv
<1>1. ASSUME IInv, [Next]_vars PROVE IInv'
  <2>1. ASSUME NEW r \in Requests, Step(r) PROVE IInv'
    BY <1>1, <2>1, TypeStep, ShapeStep, WriterLockStep, WriterStep, PendingStep, SyncStep,
       FreshStep, CopiesStep, GrantStep, DroppingStep, EmailStep DEF IInv
  <2>2. CASE Next
    BY <1>1, <2>1, <2>2, StepKinds, RoleStepsKeep DEF IInv
  <2> QED BY <1>1, <2>2, StutterKeeps
<1> QED BY InitIInv, <1>1, PTL DEF Spec

(* Every variable keeps its type. *)
THEOREM TypeCorrect == Spec => []TypeOK
<1>1. IInv => TypeOK
  BY DEF IInv
<1> QED BY Invariance, <1>1, PTL

(* app_user_role never refers to a user or a role that is gone. *)
THEOREM NoDanglingGrantHolds == Spec => []NoDanglingGrant
<1>1. IInv => NoDanglingGrant
  BY DEF IInv
<1> QED BY Invariance, <1>1, PTL

(* A transaction that holds a user row works on what is committed. *)
THEOREM WriterSeesCommittedHolds == Spec => []WriterSeesCommitted
<1>1. IInv => WriterSeesCommitted
  BY DEF IInv
<1> QED BY Invariance, <1>1, PTL

(* A copy with the current version was read whole, for any interleaving of   *)
(* its two queries with the writers.                                         *)
THEOREM CurrentCopyIsWholeHolds == Spec => []CurrentCopyIsWhole
<1>1. IInv => CurrentCopyIsWhole
  BY DEF IInv, Copies, CurrentCopyIsWhole
<1> QED BY Invariance, <1>1, PTL

(* Read-modify-write never loses an update. *)
THEOREM NoLostUpdate == Spec => OverwritesOnlyWhatWasRead
<1>1. ASSUME IInv, [Next]_vars
      PROVE  [\A r \in Requests :
                Commit(r) /\ copy[r] # Nil =>
                  /\ users[req[r].id] # Nil
                  /\ users[req[r].id].version = copy[r].row.version
                  /\ users[req[r].id].email = copy[r].row.email
                  /\ ~ copy[r].cut => members[req[r].id] = copy[r].roles]_vars
  <2> SUFFICES ASSUME NEW r \in Requests, Commit(r), copy[r] # Nil
               PROVE  /\ users[req[r].id] # Nil
                      /\ users[req[r].id].version = copy[r].row.version
                      /\ users[req[r].id].email = copy[r].row.email
                      /\ ~ copy[r].cut => members[req[r].id] = copy[r].roles
    OBVIOUS
  <2>1. /\ at[r] = "syncing"
        /\ req[r].op = "update"
        /\ req[r].id = copy[r].id
        /\ req[r].version = copy[r].row.version
    BY <1>1 DEF Commit, IInv, Shape, InCall
  <2>2. Current(r)
    BY <1>1, <2>1 DEF IInv, WriterSeesCommitted, Writing
  <2> QED BY <1>1, <2>1, <2>2 DEF IInv, Copies, Current
<1> QED BY Invariance, <1>1, PTL DEF Spec, OverwritesOnlyWhatWasRead

(* When Create or Update commit, every role has been brought where the call  *)
(* wants it, and none is left that could not be revoked.                     *)
LEMMA SyncedRoles ==
  ASSUME IInv, NEW r \in Requests, Publishes(r), Syncs(r)
  PROVE  /\ tx[r].roles = [i \in RoleIds |->
               IF req[r].roles[i] = 0 THEN 0
               ELSE IF members[req[r].id][i] > 0 THEN members[req[r].id][i]
               ELSE req[r].roles[i]]
         /\ \A i \in RoleIds : req[r].roles[i] = 0 => members[req[r].id][i] <= 1
<1>1. /\ req[r] \in Request /\ tx[r] \in Work /\ at[r] = "syncing"
      /\ tx[r].cur = members[req[r].id]
  BY DEF Publishes, IInv, Shape, InCall, Writing, WriterSeesCommitted
<1>2. tx[r].roles \in Grants
  BY <1>1 DEF Work
<1>3. ASSUME NEW i \in RoleIds
      PROVE  /\ tx[r].roles[i] = IF req[r].roles[i] = 0 THEN 0
                                 ELSE IF members[req[r].id][i] > 0 THEN members[req[r].id][i]
                                 ELSE req[r].roles[i]
             /\ req[r].roles[i] = 0 => members[req[r].id][i] <= 1
  <2>1. /\ tx[r].roles[i] \in Nat /\ tx[r].cur[i] \in Nat /\ req[r].roles[i] \in Nat
    BY <1>1, BoundsAssumption DEF Work, Request, Grants
  <2>2. ~ (i \in ToRevoke(r)) /\ ~ (i \in ToGrant(r))
    BY DEF Publishes
  <2> QED
    BY <1>1, <2>1, <2>2 DEF IInv, SyncOnTrack, ToRevoke, ToGrant
<1> QED BY <1>2, <1>3 DEF Grants

(* After Create or Update the user has the roles of the call, none twice     *)
(* that it had before.                                                       *)
THEOREM RolesOfTheCall == Spec => RolesAreThoseOfTheCall
<1>1. ASSUME IInv, [Next]_vars
      PROVE  [\A r \in Requests :
                Commit(r) /\ Syncs(r) =>
                  members'[req[r].id] = [i \in RoleIds |->
                    IF req[r].roles[i] = 0 THEN 0
                    ELSE IF members[req[r].id][i] > 0 THEN members[req[r].id][i]
                    ELSE req[r].roles[i]]]_vars
  <2> SUFFICES ASSUME NEW r \in Requests, Commit(r), Syncs(r)
               PROVE  members'[req[r].id] = [i \in RoleIds |->
                        IF req[r].roles[i] = 0 THEN 0
                        ELSE IF members[req[r].id][i] > 0 THEN members[req[r].id][i]
                        ELSE req[r].roles[i]]
    OBVIOUS
  <2>1. Publishes(r)
    BY <1>1, CommitPublishes DEF IInv
  <2>2. members'[req[r].id] = tx[r].roles
    BY <1>1, <2>1 DEF Publishes, IInv, Shape, InCall, TypeOK, Request
  <2> QED BY <1>1, <2>1, <2>2, SyncedRoles
<1> QED BY Invariance, <1>1, PTL DEF Spec, RolesAreThoseOfTheCall

(* A membership row that is there twice stays there twice. *)
THEOREM DoubledGrantStays == Spec => DoubledGrantIsPermanent
<1>1. ASSUME IInv, [Next]_vars
      PROVE  [\A u \in UserIds, i \in RoleIds :
                members[u][i] > 1 => members'[u][i] = members[u][i]]_vars
  <2> SUFFICES ASSUME NEW u \in UserIds, NEW i \in RoleIds, members[u][i] > 1, Next
               PROVE  members'[u][i] = members[u][i]
    BY <1>1
  <2>1. CASE RoleSteps
    BY <2>1 DEF RoleSteps, DropRole, DropCommit, DropRollback, tables
  <2>2. ASSUME NEW r \in Requests, Step(r)
        PROVE  members'[u][i] = members[u][i]
    <3>1. CASE ~ Publishes(r)
      BY <2>2, <3>1
      DEF Step, GetRow, ReadsRoles, Starts, Begin, InsertUser, LockRow, UpdateRow, WritePassword,
          DeleteUser, LeakDelete, SelectRoles, Pending, Syncing, Quits, tables
    <3>2. CASE Publishes(r) /\ u = req[r].id
      <4>1. /\ req[r] \in Request /\ tx[r] \in Work /\ at[r] = "syncing"
            /\ tx[r].cur = members[u]
        BY <1>1, <3>2 DEF Publishes, IInv, Shape, InCall, Writing, WriterSeesCommitted
      <4>2. /\ tx[r].roles[i] \in Nat /\ tx[r].cur[i] \in Nat /\ req[r].roles[i] \in Nat
            /\ tx[r].cur[i] > 1
        BY <4>1, BoundsAssumption DEF Work, Request, Grants
      <4>3. members'[u][i] = tx[r].roles[i]
        BY <1>1, <3>2 DEF Publishes, IInv, TypeOK
      <4>4. tx[r].roles[i] = tx[r].cur[i]
        BY <1>1, <3>2, <4>1, <4>2 DEF IInv, SyncOnTrack, Publishes, ToRevoke
      <4> QED BY <4>1, <4>3, <4>4
    <3>3. CASE Publishes(r) /\ u # req[r].id
      BY <1>1, <3>3 DEF Publishes, IInv, TypeOK
    <3> QED BY <3>1, <3>2, <3>3
  <2> QED BY <1>1, <2>1, <2>2, StepKinds DEF IInv
<1> QED BY Invariance, <1>1, PTL DEF Spec, DoubledGrantIsPermanent

-----------------------------------------------------------------------------
(* Refinement. *)

(* What a transaction has written is what its call says, to the row that is  *)
(* committed; a request without a call has no arguments.                     *)
Args(r) ==
  /\ Writing(r) =>
       /\ req[r].op = "create" =>
            tx[r].row = [email |-> req[r].email, version |-> 1, password |-> req[r].password]
       /\ req[r].op = "update" => tx[r].row = UpdatedRow(r) /\ Fits(r)
       /\ req[r].op = "password" =>
            tx[r].row = [email |-> users[req[r].id].email,
                         version |-> users[req[r].id].version,
                         password |-> req[r].password]
  /\ at[r] \in {"idle", "reading", "holding"} <=> req[r] = Nil

PendingArgs == \A r \in Requests : Args(r)

LEMMA PendingArgsStep ==
  ASSUME IInv, PendingArgs, NEW r \in Requests, Step(r)
  PROVE  PendingArgs'
<1> USE DEF IInv, TypeOK, Writing, UpdatedRow, Fits
<1>1. ASSUME NEW u \in UserIds, GetRow(r, u) PROVE PendingArgs'
  BY <1>1 DEF PendingArgs, Args, GetRow, tables
<1>2. ASSUME ReadsRoles(r) PROVE PendingArgs'
  BY <1>2 DEF PendingArgs, Args, ReadsRoles, tables
<1>3. ASSUME NEW c, Starts(r, c) PROVE PendingArgs'
  BY <1>3, NilAssumption DEF PendingArgs, Args, Starts, Begin, tables
<1>4. ASSUME InsertUser(r) PROVE PendingArgs'
  BY <1>4 DEF PendingArgs, Args, InsertUser, Pending, tables
<1>5. ASSUME UpdateRow(r) PROVE PendingArgs'
  <2>1. req[r].op = "update" /\ Fits(r)
    BY <1>5 DEF UpdateRow, Shape
  <2> QED BY <1>5, <2>1 DEF PendingArgs, Args, UpdateRow, Pending, tables
<1>6. ASSUME WritePassword(r) PROVE PendingArgs'
  BY <1>6 DEF PendingArgs, Args, WritePassword, Pending, tables
<1>7. ASSUME DeleteUser(r) PROVE PendingArgs'
  BY <1>7 DEF PendingArgs, Args, DeleteUser, Pending, tables
<1>8. ASSUME LeakDelete(r) PROVE PendingArgs'
  BY <1>8 DEF PendingArgs, Args, LeakDelete, tables
<1>9. ASSUME SelectRoles(r) PROVE PendingArgs'
  BY <1>9 DEF PendingArgs, Args, SelectRoles, Pending, tables
<1>10. ASSUME Syncing(r) PROVE PendingArgs'
  BY <1>10 DEF PendingArgs, Args, Syncing, tables
<1>11. ASSUME Publishes(r) PROVE PendingArgs'
  <2>1. \A q \in Requests \ {r} : Writing(q) => req[q].id # req[r].id
    BY <1>11 DEF OneWriter, Owns, Publishes
  <2>2. \A q \in Requests \ {r} : Writing(q) => users'[req[q].id] = users[req[q].id]
    BY <1>11, <2>1 DEF Publishes, Shape, InCall, Request
  <2>3. /\ req' = [req EXCEPT ![r] = Nil] /\ at' = [at EXCEPT ![r] = "idle"]
        /\ \A q \in Requests \ {r} : tx'[q] = tx[q]
    BY <1>11 DEF Publishes, Finish
  <2>4. ~Writing(r)' /\ at'[r] = "idle" /\ req'[r] = Nil
    BY <2>3
  <2>5. ASSUME NEW q \in Requests \ {r}
        PROVE  at'[q] = at[q] /\ req'[q] = req[q] /\ tx'[q] = tx[q]
    BY <2>3
  <2>6. SUFFICES ASSUME NEW q \in Requests PROVE Args(q)'
    BY DEF PendingArgs
  <2>7. CASE q = r
    BY <2>4, <2>7 DEF Args
  <2>8. CASE q # r
    <3>1. CASE Writing(q)
      <4>1. /\ users'[req[q].id] = users[req[q].id]
            /\ at'[q] = at[q] /\ req'[q] = req[q] /\ tx'[q] = tx[q]
        BY <2>2, <2>5, <2>8, <3>1
      <4>2. Args(q)
        BY DEF PendingArgs
      <4> QED BY <4>1, <4>2, <3>1 DEF Args
    <3>2. CASE ~Writing(q)
      BY <2>5, <2>8, <3>2 DEF PendingArgs, Args
    <3> QED BY <3>1, <3>2
  <2> QED BY <2>7, <2>8
<1>12. ASSUME Quits(r) PROVE PendingArgs'
  BY <1>12 DEF PendingArgs, Args, Quits, Finish
<1>13. ASSUME LockRow(r) PROVE PendingArgs'
  BY <1>13 DEF PendingArgs, Args, LockRow, tables
<1> QED
  BY <1>1, <1>2, <1>3, <1>4, <1>5, <1>6, <1>7, <1>8, <1>9, <1>10, <1>11, <1>12, <1>13
  DEF Step

LEMMA PendingArgsHolds == Spec => []PendingArgs
<1>1. Init => PendingArgs
  BY DEF Init, PendingArgs, Args, Writing
<1>2. ASSUME IInv, PendingArgs, [Next]_vars PROVE PendingArgs'
  <2>1. CASE RoleSteps \/ UNCHANGED vars
    BY <1>2, <2>1
    DEF RoleSteps, DropRole, DropCommit, DropRollback, tables, vars, PendingArgs, Args, Writing,
        UpdatedRow, Fits
  <2> QED BY <1>2, <2>1, PendingArgsStep, StepKinds DEF IInv
<1> QED BY Invariance, <1>1, <1>2, PTL DEF Spec

(* A COMMIT does to the account as it is then what the call says. *)
LEMMA CommitIsOneStep ==
  ASSUME IInv, PendingArgs, NEW r \in Requests, Publishes(r)
  PROVE  \/ Abstract!Create(r) \/ Abstract!Replace(r)
         \/ Abstract!SetPassword(r) \/ Abstract!Remove(r)
<1> DEFINE id == req[r].id
           row == tx[r].row
           New == IF row = Nil THEN Nil
                  ELSE [email |-> row.email, version |-> row.version,
                        password |-> row.password, roles |-> tx[r].roles]
<1>1. /\ req[r] \in Request /\ tx[r] \in Work /\ at[r] = "syncing" /\ Writing(r)
      /\ tx[r].cur = members[id] /\ id \in UserIds /\ tx[r].roles \in Grants
      /\ req[r] # Nil
  BY NilAssumption
  DEF Publishes, IInv, Shape, InCall, Writing, WriterSeesCommitted, Request, Work
<1>2. Accounts' = [Accounts EXCEPT ![id] = New] /\ Abstract!Return(r)
  BY <1>1 DEF Publishes, Finish, IInv, TypeOK, Accounts, AccountOf, Abstract!Return
<1>3. Accounts[id] = AccountOf(id) /\ (users[id] # Nil => users[id] \in Row)
  BY <1>1 DEF Accounts, IInv, TypeOK
<1>4. row # Nil => /\ row \in Row
                   /\ Abstract!EmailFree(id, row.email)
  <2>1. row # Nil => row \in Row
    BY <1>1 DEF Work
  <2>2. ASSUME row # Nil, NEW v \in UserIds \ {id}, Accounts[v] # Nil
        PROVE  Accounts[v].email # row.email
    BY <1>1, <2>2 DEF Accounts, AccountOf, IInv, UniqueEmail
  <2> QED BY <2>1, <2>2 DEF Row, Abstract!EmailFree, Accounts
<1>5. users[id] # Nil => /\ Accounts[id] # Nil
                         /\ Accounts[id].email = users[id].email
                         /\ Accounts[id].version = users[id].version
                         /\ Accounts[id].password = users[id].password
                         /\ Accounts[id].roles = members[id]
  <2>1. users[id] # Nil => Accounts[id] \in Account
    BY <1>1, <1>3 DEF AccountOf, IInv, TypeOK, Row, Account
  <2> QED BY <1>3, <2>1, NilAssumption DEF AccountOf
<1>6. row \in Row => Abstract!Put(r, [email |-> row.email, version |-> row.version,
                                      password |-> row.password, roles |-> tx[r].roles])
  BY <1>1, <1>2, <1>4, NilAssumption DEF Abstract!Put
<1>7. ASSUME Syncs(r)
      PROVE  /\ tx[r].roles = Abstract!Synced(members[id], req[r].roles)
             /\ Abstract!Revocable(members[id], req[r].roles)
  <2>1. ASSUME NEW i \in RoleIds
        PROVE  members[id][i] \in Nat /\ req[r].roles[i] \in Nat
    BY <1>1, BoundsAssumption DEF Request, Grants, IInv, TypeOK
  <2> QED BY <1>7, <2>1, SyncedRoles DEF Abstract!Synced, Abstract!Revocable
<1>8. CASE req[r].op = "create"
  <2>1. /\ users[id] = Nil /\ row \in Row /\ tx[r].cur = NoGrants
        /\ row = [email |-> req[r].email, version |-> 1, password |-> req[r].password]
    BY <1>1, <1>8 DEF IInv, WriterSeesCommitted, PendingRow, PendingArgs, Args
  <2>2. tx[r].roles = req[r].roles
    <3>1. Abstract!Synced(NoGrants, req[r].roles) = req[r].roles
      BY <1>1 DEF Abstract!Synced, NoGrants, Request, Grants
    <3> QED BY <1>1, <1>7, <1>8, <2>1, <3>1 DEF Syncs
  <2>3. Accounts[id] = Nil
    BY <1>3, <2>1 DEF AccountOf
  <2> QED BY <1>1, <1>6, <1>8, <2>1, <2>2, <2>3 DEF Abstract!Create
<1>9. CASE req[r].op = "update"
  <2>1. /\ users[id] # Nil /\ users[id].version = req[r].version
        /\ row \in Row /\ row = UpdatedRow(r) /\ req[r].version < MaxVersion
    BY <1>1, <1>9 DEF IInv, WriterSeesCommitted, PendingRow, PendingArgs, Args, Current, Fits
  <2>2. Abstract!Current(r)
    BY <1>5, <2>1 DEF Abstract!Current
  <2>3. row = [email |-> IF "email" \in req[r].fields THEN req[r].email
                         ELSE Accounts[id].email,
               version |-> Accounts[id].version + 1, password |-> Accounts[id].password]
    BY <1>5, <2>1 DEF UpdatedRow, NextVersion
  <2> QED
    BY <1>1, <1>5, <1>6, <1>7, <1>9, <2>1, <2>2, <2>3 DEF Syncs, Abstract!Replace
<1>10. CASE req[r].op = "password"
  <2>1. /\ users[id] # Nil /\ users[id].version = req[r].version /\ row \in Row
        /\ row = [email |-> users[id].email, version |-> users[id].version,
                  password |-> req[r].password]
    BY <1>1, <1>10 DEF IInv, WriterSeesCommitted, PendingRow, PendingArgs, Args, Current
  <2>2. tx[r].roles = members[id]
    BY <1>1, <1>10 DEF IInv, SyncOnTrack, Syncs, Work, Grants
  <2>3. Abstract!Current(r)
    BY <1>5, <2>1 DEF Abstract!Current
  <2> QED
    BY <1>1, <1>5, <1>6, <1>10, <2>1, <2>2, <2>3 DEF Abstract!SetPassword
<1>11. CASE req[r].op = "delete"
  <2>1. users[id] # Nil /\ row = Nil /\ members[id] = NoGrants
    BY <1>1, <1>11 DEF IInv, PendingRow
  <2> QED BY <1>1, <1>2, <1>5, <1>11, <2>1 DEF Abstract!Remove
<1> QED BY <1>1, <1>8, <1>9, <1>10, <1>11 DEF Request

(* A call begins with an id that nobody has drawn, when it draws one. *)
LEMMA StartInvokes ==
  ASSUME IInv, PendingArgs, NEW r \in Requests, NEW c, Starts(r, c)
  PROVE  Abstract!Invoke(r)
<1>1. /\ req[r] = Nil /\ UNCHANGED <<users, members>>
      /\ req' = [req EXCEPT ![r] = c] /\ req'[r] = c /\ c \in Request
  BY DEF Starts, Begin, PendingArgs, Args, IInv, TypeOK, tables
<1>2. UNCHANGED Accounts
  BY <1>1 DEF Accounts, AccountOf
<1>3. c \in Abstract!Calls
  BY <1>1 DEF Request, Abstract!Calls
<1>4. /\ c.op = "create" \/ (c.op = "update" /\ "email" \in c.fields) => c.email \in Emails
      /\ c.op \in {"create", "password"} => c.password \in Passwords
  BY DEF Starts, WellFormed
<1>5. nextId \in 1..(MaxUsers + 1)
  BY DEF IInv, TypeOK
<1>6. c.op = "create" => c.id \notin 1..(nextId - 1)
  BY <1>5, BoundsAssumption DEF Starts
<1>7. 1..(nextId' - 1) = IF c.op = "create" THEN (1..(nextId - 1)) \cup {c.id}
                        ELSE 1..(nextId - 1)
  <2>1. CASE c.op = "create"
    <3>1. c.id = nextId /\ nextId' = nextId + 1
      BY <2>1 DEF Starts
    <3>2. nextId \in Int /\ nextId >= 1
      BY <1>5, BoundsAssumption
    <3>3. ASSUME NEW n PROVE n \in 1..nextId <=> n \in 1..(nextId - 1) \cup {nextId}
      BY <3>2
    <3>4. nextId' - 1 = nextId
      BY <3>1, <3>2
    <3> QED BY <2>1, <3>1, <3>3, <3>4
  <2>2. CASE c.op # "create"
    BY <2>2 DEF Starts
  <2> QED BY <2>1, <2>2
<1> QED BY <1>1, <1>2, <1>3, <1>4, <1>6, <1>7 DEF Abstract!Invoke

(* The store of statements and transactions implements the store whose calls *)
(* each do what they say in one step: VersionedUsers.                        *)
THEOREM Refinement == Spec => ImplementsVersionedUsers
<1>1. Init => Abstract!Init
  BY DEF Init, Abstract!Init, Accounts, AccountOf
<1>2. ASSUME IInv, PendingArgs, [Next]_vars
      PROVE  [Abstract!Next]_(Abstract!vars)
  <2>1. ASSUME UNCHANGED <<users, members, nextId, req>> PROVE UNCHANGED Abstract!vars
    BY <2>1 DEF Abstract!vars, Accounts, AccountOf
  <2>2. CASE UNCHANGED vars
    BY <2>1, <2>2 DEF vars, tables
  <2>3. CASE RoleSteps
    BY <2>1, <2>3 DEF RoleSteps, DropRole, DropCommit, DropRollback, tables
  <2>4. ASSUME NEW r \in Requests, Step(r)
        PROVE  [Abstract!Next]_(Abstract!vars)
    <3>1. CASE Publishes(r)
      BY <1>2, <3>1, CommitIsOneStep DEF Abstract!Next
    <3>2. ASSUME NEW c, Starts(r, c) PROVE Abstract!Next
      BY <1>2, <3>2, StartInvokes DEF Abstract!Next
    <3>3. CASE Quits(r)
      <4>1. UNCHANGED <<users, members, nextId>> /\ req' = [req EXCEPT ![r] = Nil]
        BY <3>3 DEF Quits, Finish
      <4>2. CASE req[r] # Nil
        <5>1. UNCHANGED Accounts
          BY <4>1 DEF Accounts, AccountOf
        <5>2. Abstract!Fail(r)
          BY <4>1, <4>2, <5>1 DEF Abstract!Fail, Abstract!Return
        <5> QED BY <5>2 DEF Abstract!Next
      <4>3. CASE req[r] = Nil
        <5>1. req' = req
          BY <1>2, <4>1, <4>3 DEF IInv, TypeOK
        <5> QED BY <2>1, <4>1, <5>1
      <4> QED BY <4>2, <4>3
    <3>4. CASE /\ ~ Publishes(r) /\ ~ Quits(r)
               /\ ~ \E c : Starts(r, c)
      BY <2>1, <2>4, <3>4
      DEF Step, GetRow, ReadsRoles, InsertUser, LockRow, UpdateRow, WritePassword,
          DeleteUser, LeakDelete, SelectRoles, Pending, Syncing, tables
    <3> QED BY <3>1, <3>2, <3>3, <3>4
  <2> QED BY <1>2, <2>2, <2>3, <2>4, StepKinds DEF IInv
<1> QED
  BY Invariance, PendingArgsHolds, <1>1, <1>2, PTL
  DEF Spec, ImplementsVersionedUsers, Abstract!Spec

-----------------------------------------------------------------------------
(* What follows from it for callers with a copy that is out of date. *)

(* The version u had is history: it has a later one, or u is deleted and no  *)
(* create is under way that would still insert it.                           *)
Past(u, v) ==
  \/ users[u] # Nil /\ users[u].version > v
  \/ /\ users[u] = Nil /\ u < nextId
     /\ \A r \in Requests : at[r] \in InCall /\ req[r].op = "create" => req[r].id # u

(* A version that an update has replaced never comes back, not even when the *)
(* user is deleted and ids are drawn on: whoever read it long ago is refused *)
(* forever, as the comparison of id and version in Update means to do.       *)
OldVersionsStayOld ==
  \A u \in UserIds, v \in 1..MaxVersion :
    []((users[u] # Nil /\ users[u].version > v)
       => [](users[u] # Nil => users[u].version > v))

LEMMA PastStays ==
  ASSUME IInv, NEW u \in UserIds, NEW v \in 1..MaxVersion, Past(u, v), [Next]_vars
  PROVE  Past(u, v)'
<1> USE DEF IInv
<1>1. UserIds = 1..MaxUsers /\ nextId \in 1..(MaxUsers + 1) /\ MaxUsers \in Nat
  BY BoundsAssumption DEF TypeOK, UserIds
<1>2. CASE RoleSteps \/ UNCHANGED vars
  BY <1>2 DEF RoleSteps, DropRole, DropCommit, DropRollback, tables, vars, Past
<1>3. ASSUME NEW r \in Requests, Step(r) PROVE Past(u, v)'
  <2>1. CASE /\ UNCHANGED <<users, nextId, req>>
             /\ \A q \in Requests : at'[q] \in InCall => at[q] \in InCall
    BY <2>1 DEF Past
  <2>2. ASSUME NEW c, Starts(r, c) PROVE Past(u, v)'
    BY <1>1, <2>2 DEF Past, Starts, Begin, tables, TypeOK
  <2>3. CASE Publishes(r)
    <3>1. /\ users' = [users EXCEPT ![req[r].id] = tx[r].row] /\ nextId' = nextId
          /\ at' = [at EXCEPT ![r] = "idle"] /\ req' = [req EXCEPT ![r] = Nil]
          /\ Writing(r) /\ at[r] \in InCall /\ req[r].id \in UserIds /\ req[r] \in Request
      BY <2>3 DEF Publishes, Finish, Writing, Shape, InCall, Request
    <3>2. ASSUME NEW q \in Requests, at'[q] \in InCall
          PROVE  at[q] \in InCall /\ req'[q] = req[q]
      BY <3>1, <3>2 DEF InCall, TypeOK
    <3>3. CASE u # req[r].id
      BY <3>1, <3>2, <3>3 DEF Past, TypeOK
    <3>4. CASE u = req[r].id
      <4>1. users'[u] = tx[r].row
        BY <3>1, <3>4 DEF TypeOK
      <4>2. users[u] # Nil /\ users[u].version > v
        BY <3>1, <3>4, <2>3 DEF Past, Publishes, WriterSeesCommitted, PendingRow, Current, Request, FreshIds
      <4>3. req[r].op # "create"
        BY <3>1, <3>4, <4>2 DEF FreshIds
      <4>4. users[u] \in Row /\ users[u].version \in Nat /\ v \in Nat
        BY <4>2, BoundsAssumption DEF TypeOK, Row
      <4>5. CASE req[r].op \in {"update", "password"}
        BY <3>1, <3>4, <4>1, <4>2, <4>4, <4>5, NilAssumption DEF Past, PendingRow
      <4>6. CASE req[r].op = "delete"
        <5>1. users'[u] = Nil
          BY <3>1, <4>1, <4>6 DEF PendingRow
        <5>2. u < nextId
          BY <1>1, <4>2 DEF FreshIds
        <5>3. \A q \in Requests :
                at'[q] \in InCall /\ req'[q].op = "create" => req'[q].id # u
          BY <3>2, <4>2 DEF FreshIds
        <5> QED BY <3>1, <5>1, <5>2, <5>3 DEF Past
      <4> QED BY <3>1, <4>3, <4>5, <4>6 DEF Request
    <3> QED BY <3>3, <3>4
  <2>4. CASE Quits(r)
    <3>1. ASSUME NEW q \in Requests, at'[q] \in InCall
          PROVE  at[q] \in InCall /\ req'[q] = req[q]
      BY <2>4, <3>1 DEF Quits, Finish, InCall, TypeOK
    <3> QED BY <2>4, <3>1 DEF Past, Quits, Finish
  <2> QED
    BY <1>3, <2>1, <2>2, <2>3, <2>4
    DEF Step, GetRow, ReadsRoles, InsertUser, LockRow, UpdateRow, WritePassword,
        DeleteUser, LeakDelete, SelectRoles, Pending, Syncing, tables, InCall, TypeOK
<1> QED BY <1>2, <1>3, StepKinds

THEOREM OldVersions == Spec => OldVersionsStayOld
<1> SUFFICES ASSUME NEW u \in UserIds, NEW v \in 1..MaxVersion
             PROVE  Spec => []((users[u] # Nil /\ users[u].version > v)
                               => [](users[u] # Nil => users[u].version > v))
  BY DEF OldVersionsStayOld
<1>1. users[u] # Nil /\ users[u].version > v => Past(u, v)
  BY DEF Past
<1>2. IInv /\ Past(u, v) /\ [Next]_vars => Past(u, v)'
  BY PastStays
<1>3. Past(u, v) => (users[u] # Nil => users[u].version > v)
  BY DEF Past
<1> QED BY Invariance, <1>1, <1>2, <1>3, PTL DEF Spec

-----------------------------------------------------------------------------
(* How far a call is from its end. *)

(* The membership rows that the call has still to write for role i. *)
Left(r, i) ==
  IF tx[r].cur[i] > 0
  THEN IF req[r].roles[i] = 0 THEN tx[r].roles[i] ELSE 0
  ELSE req[r].roles[i] - tx[r].roles[i]

Order == [begun |-> 0, locked |-> 1, wrote |-> 2, leaked |-> 1, syncing |-> 3]

Touched(r) == <<at[r], req[r], tx[r]>>' # <<at[r], req[r], tx[r]>>

WritesOneMore(r) ==
  /\ \A i \in RoleIds : Left(r, i)' \in 0..Left(r, i)
  /\ \E i \in RoleIds : Left(r, i)' < Left(r, i)

Forward(r) ==
  \/ req'[r] = Nil
  \/ req'[r] = req[r] /\ Order[at'[r]] > Order[at[r]]
  \/ req'[r] = req[r] /\ at[r] = "syncing" /\ at'[r] = "syncing" /\ WritesOneMore(r)

(* A call never goes back: each of its steps ends it, takes it to a later    *)
(* place, or writes membership rows of which it has fewer to write then.  So *)
(* it has at most 4 steps and one for every membership row, whatever other   *)
(* calls do meanwhile; that it takes them is a matter of fairness.           *)
CallsMoveForward ==
  [][\A r \in Requests : req[r] # Nil /\ Touched(r) => Forward(r)]_vars

(* A statement on a membership row leaves fewer to write. *)
LEMMA SyncingLeavesLess ==
  ASSUME IInv, NEW r \in Requests, Syncing(r), tx'[r] # tx[r]
  PROVE  WritesOneMore(r)
<1> USE DEF IInv
<1>1. req[r] \in Request /\ tx[r] \in Work /\ at[r] = "syncing" /\ req' = req
  BY DEF Syncing, Shape, Writing, InCall
<1>2. PICK g \in Grants :
        /\ \A i \in RoleIds :
             \/ g[i] = tx[r].roles[i]
             \/ /\ g[i] = 0 /\ tx[r].roles[i] = 1
                /\ tx[r].cur[i] > 0 /\ req[r].roles[i] = 0
             \/ /\ g[i] = tx[r].roles[i] + 1 /\ g[i] <= req[r].roles[i]
                /\ tx[r].cur[i] = 0
        /\ tx' = [tx EXCEPT ![r] = [row |-> tx[r].row, cur |-> tx[r].cur, roles |-> g]]
  BY DEF Syncing
<1>3. /\ tx'[r].row = tx[r].row /\ tx'[r].cur = tx[r].cur /\ tx'[r].roles = g
  BY <1>2 DEF TypeOK
<1>4. \A i \in RoleIds :
        /\ g[i] \in Nat /\ tx[r].roles[i] \in Nat /\ tx[r].cur[i] \in Nat
        /\ req[r].roles[i] \in Nat
  BY <1>1, <1>2, BoundsAssumption DEF Work, Request, Grants
<1>5. ASSUME NEW i \in RoleIds
      PROVE  /\ Left(r, i) \in Nat
             /\ g[i] = tx[r].roles[i] => Left(r, i)' = Left(r, i)
             /\ g[i] # tx[r].roles[i] =>
                  Left(r, i)' \in Nat /\ Left(r, i)' < Left(r, i)
  <2>1. tx[r].cur[i] = 0 => tx[r].roles[i] <= req[r].roles[i]
    BY <1>1 DEF SyncOnTrack, Syncing
  <2>2. CASE g[i] = tx[r].roles[i]
    BY <1>1, <1>3, <1>4, <2>1, <2>2 DEF Left
  <2>3. CASE g[i] = 0 /\ tx[r].roles[i] = 1 /\ tx[r].cur[i] > 0 /\ req[r].roles[i] = 0
    BY <1>1, <1>3, <1>4, <2>3 DEF Left
  <2>4. CASE g[i] = tx[r].roles[i] + 1 /\ g[i] <= req[r].roles[i] /\ tx[r].cur[i] = 0
    BY <1>1, <1>3, <1>4, <2>4 DEF Left
  <2> QED BY <1>2, <2>2, <2>3, <2>4
<1>6. \A i \in RoleIds : Left(r, i)' \in 0..Left(r, i)
  BY <1>5
<1>7. \E i \in RoleIds : g[i] # tx[r].roles[i]
  <2>1. g \in [RoleIds -> 0..MaxCopies] /\ tx[r].roles \in [RoleIds -> 0..MaxCopies]
    BY <1>1, <1>2 DEF Work, Grants
  <2>2. g # tx[r].roles
    BY <1>1, <1>3, <1>2 DEF Work, TypeOK
  <2> QED BY <2>1, <2>2
<1> QED BY <1>5, <1>6, <1>7 DEF WritesOneMore

(* Every step of a call brings it nearer its end (CallsMoveForward).         *)
THEOREM CallsGoForward == Spec => CallsMoveForward
<1>1. ASSUME IInv, PendingArgs, [Next]_vars, NEW r \in Requests, req[r] # Nil, Touched(r)
      PROVE  Forward(r)
  <2>1. ~ (RoleSteps \/ UNCHANGED vars)
    BY <1>1 DEF Touched, RoleSteps, DropRole, DropCommit, DropRollback, tables, vars
  <2>2. PICK q \in Requests : Step(q)
    BY <1>1, <2>1, StepKinds DEF IInv
  <2>3. q = r
    BY <1>1, <2>2
    DEF Touched, Step, GetRow, ReadsRoles, Starts, Begin, InsertUser, LockRow, UpdateRow, WritePassword,
        DeleteUser, LeakDelete, SelectRoles, Pending, Syncing, Publishes, Quits, Finish,
        tables, IInv, TypeOK
  <2>4. at[r] \notin {"idle", "reading", "holding"}
    BY <1>1 DEF PendingArgs, Args
  <2>5. CASE Syncing(r)
    <3>1. at[r] = "syncing" /\ at'[r] = "syncing" /\ req'[r] = req[r]
      BY <2>5 DEF Syncing
    <3>2. tx'[r] # tx[r]
      BY <1>1, <3>1 DEF Touched
    <3>3. WritesOneMore(r)
      BY <1>1, <2>5, <3>2, SyncingLeavesLess
    <3> QED BY <3>1, <3>3 DEF Forward
  <2>6. CASE Publishes(r) \/ Quits(r)
    BY <1>1, <2>6 DEF Forward, Publishes, Quits, Finish, IInv, TypeOK
  <2>7. CASE InsertUser(r) \/ LockRow(r) \/ UpdateRow(r) \/ WritePassword(r) \/ DeleteUser(r)
             \/ LeakDelete(r) \/ SelectRoles(r)
    <3>1. req'[r] = req[r]
      BY <2>7 DEF InsertUser, LockRow, UpdateRow, WritePassword, DeleteUser, LeakDelete, SelectRoles,
                  Pending
    <3>2. \/ at[r] = "begun" /\ at'[r] \in {"locked", "syncing", "leaked"}
          \/ at[r] = "locked" /\ at'[r] = "wrote"
          \/ at[r] = "wrote" /\ at'[r] = "syncing"
      BY <1>1, <2>7 DEF InsertUser, LockRow, UpdateRow, WritePassword, DeleteUser, LeakDelete,
                  SelectRoles, IInv, TypeOK
    <3>3. Order[at'[r]] > Order[at[r]]
      BY <3>2 DEF Order
    <3> QED BY <3>1, <3>3 DEF Forward
  <2> QED
    BY <2>2, <2>3, <2>4, <2>5, <2>6, <2>7 DEF Step, GetRow, ReadsRoles, Starts
<1>2. IInv /\ PendingArgs /\ [Next]_vars =>
        [\A r \in Requests : req[r] # Nil /\ Touched(r) => Forward(r)]_vars
  BY <1>1
<1> QED BY Invariance, PendingArgsHolds, <1>2, PTL DEF Spec, CallsMoveForward
=============================================================================
