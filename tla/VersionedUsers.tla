--------------------------- MODULE VersionedUsers ---------------------------
(***************************************************************************)
(* What the user store promises its callers, without statements, locks and *)
(* transactions: a call does what its arguments say to the account as it   *)
(* is then, in one step, or it fails and does nothing; and each edit of an *)
(* account consumes the version it was based on.  UserStore is shown to    *)
(* implement it.                                                           *)
(***************************************************************************)
EXTENDS Naturals

CONSTANTS Requests,     \* callers
          UserIds,      \* the ids the sequence can draw
          Emails,
          Passwords,    \* password hashes
          RoleIds,
          Grants,       \* what app_user_role may hold for one user
          NoGrants,     \* no row in app_user_role
          Fields,       \* what an edit may name beside the roles
          MaxVersion,   \* the largest value of the version column
          Nil

VARIABLES
  store,     \* user id -> Nil or the account with its roles
  drawn,     \* the ids some create has drawn
  call       \* request -> the call it has made, or Nil

vars == <<store, drawn, call>>

Calls == [op : {"create", "update", "password", "delete"}, id : UserIds,
          version : 1..MaxVersion, email : Emails \cup {Nil},
          password : Passwords \cup {Nil}, fields : SUBSET Fields, roles : Grants]

Init ==
  /\ store = [u \in UserIds |-> Nil]
  /\ drawn = {}
  /\ call = [r \in Requests |-> Nil]

Invoke(r) ==
  LET c == call'[r] IN
  /\ call[r] = Nil /\ c \in Calls
  /\ call' = [call EXCEPT ![r] = c]
  /\ c.op = "create" \/ (c.op = "update" /\ "email" \in c.fields) => c.email \in Emails
  /\ c.op \in {"create", "password"} => c.password \in Passwords
  /\ c.op = "create" => c.id \notin drawn
  /\ drawn' = IF c.op = "create" THEN drawn \cup {c.id} ELSE drawn
  /\ UNCHANGED store

EmailFree(u, e) == \A v \in UserIds \ {u} : store[v] # Nil => store[v].email # e

Return(r) == call' = [call EXCEPT ![r] = Nil] /\ UNCHANGED drawn

Put(r, account) ==
  /\ Return(r)
  /\ EmailFree(call[r].id, account.email)
  /\ store' = [store EXCEPT ![call[r].id] = account]

(* An account appears once, by the call that drew its id, with version 1. *)
Create(r) ==
  /\ call[r] # Nil /\ call[r].op = "create"
  /\ store[call[r].id] = Nil
  /\ Put(r, [email |-> call[r].email, version |-> 1, password |-> call[r].password,
             roles |-> call[r].roles])

Current(r) == store[call[r].id] # Nil /\ store[call[r].id].version = call[r].version

(* A role is revoked when the call does not name it, and granted when the    *)
(* account has not got it; one that was granted twice cannot be revoked.     *)
Revocable(old, new) == \A i \in RoleIds : new[i] = 0 => old[i] <= 1
Synced(old, new) ==
  [i \in RoleIds |-> IF new[i] > 0 /\ old[i] > 0 THEN old[i] ELSE new[i]]

(* An edit needs the version it was based on, and consumes it. *)
Replace(r) ==
  LET old == store[call[r].id] IN
  /\ call[r] # Nil /\ call[r].op = "update"
  /\ Current(r) /\ call[r].version < MaxVersion
  /\ Revocable(old.roles, call[r].roles)
  /\ Put(r, [email |-> IF "email" \in call[r].fields THEN call[r].email ELSE old.email,
             version |-> old.version + 1, password |-> old.password,
             roles |-> Synced(old.roles, call[r].roles)])

(* A password change needs the version too, but leaves it as it was. *)
SetPassword(r) ==
  LET old == store[call[r].id] IN
  /\ call[r] # Nil /\ call[r].op = "password"
  /\ Current(r)
  /\ Put(r, [email |-> old.email, version |-> old.version,
             password |-> call[r].password, roles |-> old.roles])

(* Only an account without roles can go. *)
Remove(r) ==
  /\ call[r] # Nil /\ call[r].op = "delete"
  /\ Return(r)
  /\ store[call[r].id] # Nil
  /\ store[call[r].id].roles = NoGrants
  /\ store' = [store EXCEPT ![call[r].id] = Nil]

(* A call that fails has changed nothing. *)
Fail(r) ==
  /\ call[r] # Nil
  /\ Return(r)
  /\ UNCHANGED store

Next ==
  \E r \in Requests :
    Fail(r) \/ Create(r) \/ Replace(r) \/ SetPassword(r) \/ Remove(r) \/ Invoke(r)

Spec == Init /\ [][Next]_vars
=============================================================================
